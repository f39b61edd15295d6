----------------------------- MODULE ToolCalls -----------------------------
(***************************************************************************)
(* A call of one of the five tools with a row limit, from its arguments to *)
(* its rows.  The agent calls the decorated function itself (mcp_client.py *)
(* call_tool), an MCP client through the wrappers of server.py: the former *)
(* leaves out what the model leaves out, the latter fills in defaults of   *)
(* its own first, so that they are validated like arguments.               *)
(*                                                                         *)
(* get_slow_queries reads the database twice while its sessions go on:     *)
(* pg_stat_activity, what they do now, and pg_stat_statements, what they   *)
(* have done.  The database is watched until the one call is answered.     *)
(***************************************************************************)
EXTENDS Integers, Sequences, FiniteSets

CONSTANTS
  Backends, Queries,  \* sessions and the statements they execute
  Caps,               \* values of MAX_ROWS
  Limits, Ages,       \* arguments a caller may give: limit, min_duration_ms
  ShortAge, LongAge,  \* default and maximum of min_duration_ms, in ticks
  Sizes,              \* rows the other tools may find
  None,
  MaxTime, MaxStatements   \* bounds: the clock, statements begun

Tools == {"connections", "slow", "locks", "tables", "indexes"}
Entries == {"process", "stdio"}

ASSUME CallAssumption ==
  /\ Caps \subseteq Nat \ {0} /\ Limits \subseteq Int /\ Ages \subseteq Int
  /\ Sizes \subseteq Nat
  /\ ShortAge \in Nat /\ LongAge \in Nat /\ ShortAge <= LongAge
  /\ IsFiniteSet(Backends) /\ IsFiniteSet(Queries)
  /\ None \notin Int /\ None \notin Queries /\ None \notin [limit : Nat, age : Nat]
  /\ MaxTime \in Nat /\ MaxStatements \in Nat

-----------------------------------------------------------------------------
(* The numbers of the interface, as three files have them.                 *)

DefaultLimit ==
  [connections |-> 50, slow |-> 20, locks |-> 20, tables |-> 50, indexes |-> 100]

\* Mutant: the wrapper has another default than the tool.
ServerLimitOff ==
  [connections |-> 50, slow |-> 20, locks |-> 20, tables |-> 50, indexes |-> 50]

ServerLimit ==
  [connections |-> 50, slow |-> 20, locks |-> 20, tables |-> 50, indexes |-> 100]

AdvertisedLimit ==
  [connections |-> 50, slow |-> 20, locks |-> 20, tables |-> 50, indexes |-> 100]

AdvertisedMax == 200   \* of limit
AdvertisedMin == 0     \* of min_duration_ms

(* What reaches the decorated function.                                    *)
Passed(via, c) ==
  IF via = "process" THEN c
  ELSE [tool |-> c.tool,
        limit |-> IF c.limit = None THEN ServerLimit[c.tool] ELSE c.limit,
        age |-> IF c.tool = "slow" /\ c.age = None THEN ShortAge ELSE c.age]

\* Mutant: the advertised maximum instead of MAX_ROWS.
WithinAdvertised(n, c) ==
  /\ c.limit # None => 1 <= c.limit /\ c.limit <= AdvertisedMax
  /\ c.tool = "slow" /\ c.age # None => 0 <= c.age /\ c.age <= LongAge

(* Arguments are validated, defaults of the input model are not.           *)
Within(n, c) ==
  /\ c.limit # None => 1 <= c.limit /\ c.limit <= n
  /\ c.tool = "slow" /\ c.age # None => 0 <= c.age /\ c.age <= LongAge

(* The parameters the body runs with, or None: invalid_input.              *)
Params(n, via, c) ==
  LET p == Passed(via, c)
  IN  IF ~Within(n, p) THEN None
      ELSE [limit |-> IF p.limit = None THEN DefaultLimit[c.tool] ELSE p.limit,
            age |-> IF p.age = None THEN ShortAge ELSE p.age]

-----------------------------------------------------------------------------
VARIABLES
  cap,        \* MAX_ROWS, read from the environment (here: by the call)
  extension,  \* whether pg_stat_statements is installed, once a call has asked
  now,
  session,    \* what pg_stat_activity has of each backend
  stats,      \* what pg_stat_statements has of each statement
  begun,      \* statements begun so far
  call,       \* the arguments and the entry, once there is a call
  params,     \* the validated parameters
  pc,         \* idle, reading, answered or refused
  at,         \* the statement of get_slow_queries that comes next
  active, historic,  \* rows of get_slow_queries
  found,      \* number of rows of another tool
  asked       \* history: what was slow when the tool was called, and not cancelled since

database == <<now, session, stats, begun>>
vars == <<cap, extension, database, call, params, pc, at, active, historic, found, asked>>

Init ==
  /\ cap = None /\ extension = None
  /\ now = 0
  /\ session = [b \in Backends |-> [state |-> "idle", query |-> None, since |-> 0]]
  /\ stats = [q \in Queries |-> [calls |-> 0, total |-> 0]]
  /\ begun = 0
  /\ call = None /\ params = None
  /\ pc = "idle" /\ at = 1
  /\ active = {} /\ historic = {}
  /\ found = 0
  /\ asked = {}

-----------------------------------------------------------------------------
(* The database, until the call is answered.                               *)

Watched == pc = "idle" \/ (pc = "reading" /\ call.args.tool = "slow")

Tick ==
  /\ Watched /\ now < MaxTime
  /\ now' = now + 1
  /\ UNCHANGED <<cap, extension, session, stats, begun, call, params, pc, at, active,
                 historic, found, asked>>

Begin(b, q) ==
  /\ Watched /\ begun < MaxStatements
  /\ session[b].state # "active"
  /\ session' = [session EXCEPT ![b] = [state |-> "active", query |-> q, since |-> now]]
  /\ begun' = begun + 1
  /\ UNCHANGED <<cap, extension, now, stats, call, params, pc, at, active, historic, found,
                 asked>>

(* A statement ends, alone or with its transaction still open; what was    *)
(* cancelled does not count.                                               *)
End(b, state, cancelled) ==
  LET q == session[b].query
  IN  /\ Watched
      /\ session[b].state = "active"
      /\ session' = [session EXCEPT ![b] = [state |-> state, query |-> q, since |-> @.since]]
      /\ stats' = IF cancelled THEN stats
                  ELSE [stats EXCEPT ![q] = [calls |-> @.calls + 1,
                                             total |-> @.total + now - session[b].since]]
      /\ asked' = {e \in asked : ~(cancelled /\ e.row.pid = b /\ e.row.since = session[b].since)}
      /\ UNCHANGED <<cap, extension, now, begun, call, params, pc, at, active, historic, found>>

Database ==
  \/ Tick
  \/ \E b \in Backends :
       \/ \E q \in Queries : Begin(b, q)
       \/ \E state \in {"idle", "open"}, cancelled \in BOOLEAN : End(b, state, cancelled)

-----------------------------------------------------------------------------
(* The call.                                                               *)

(* pg_stat_activity: sessions that are not idle, by the start of their     *)
(* last statement - which, in an open transaction, may be long over.       *)
Slow(b, age) == session[b].state # "idle" /\ now - session[b].since >= age

Row(b) == [pid |-> b, state |-> session[b].state, query |-> session[b].query,
           since |-> session[b].since]

(* The other tools do not look at the sessions: their calls are made while *)
(* the database is at rest.                                                *)
Call(c, via) ==
  /\ pc = "idle"
  /\ c.tool # "slow" => begun = 0 /\ now = 0
  /\ cap' \in Caps
  /\ call' = [args |-> c, via |-> via]
  /\ params' = Params(cap', via, c)
  /\ pc' = IF params' = None THEN "refused" ELSE "reading"
  /\ asked' = IF c.tool = "slow" /\ params' # None
              THEN {[row |-> Row(b), calls |-> stats[session[b].query].calls]
                      : b \in {x \in Backends : /\ session[x].state = "active"
                                                /\ Slow(x, params'.age)}}
              ELSE {}
  /\ UNCHANGED <<extension, database, at, active, historic, found>>

\* Mutant: the history is read before the sessions.
StatementsSwapped == <<"extension", "historic", "active">>

(* The statements of get_slow_queries, in order.                           *)
Statements == <<"active", "extension", "historic">>

(* ORDER BY query_start ASC LIMIT n, in any order among equals.            *)
OldestOf(S, n) ==
  {T \in SUBSET S :
     /\ Cardinality(T) = IF Cardinality(S) < n THEN Cardinality(S) ELSE n
     /\ \A x \in T, y \in S \ T : session[x].since <= session[y].since}

(* mean_exec_time >= min_duration_ms.                                      *)
SlowOnAverage(q, age) == stats[q].calls > 0 /\ stats[q].total >= age * stats[q].calls

(* ORDER BY mean_exec_time DESC LIMIT n.                                   *)
WorstOf(S, n) ==
  {T \in SUBSET S :
     /\ Cardinality(T) = IF Cardinality(S) < n THEN Cardinality(S) ELSE n
     /\ \A x \in T, y \in S \ T :
          stats[x].total * stats[y].calls >= stats[y].total * stats[x].calls}

Reading(statement) ==
  /\ pc = "reading" /\ call.args.tool = "slow" /\ Statements[at] = statement
  /\ at' = at + 1
  /\ pc' = IF at = Len(Statements) THEN "answered" ELSE "reading"
  /\ UNCHANGED <<cap, database, call, params, found, asked>>

ReadActive ==
  /\ Reading("active")
  /\ \E T \in OldestOf({b \in Backends : Slow(b, params.age)}, params.limit) :
       active' = {Row(b) : b \in T}
  /\ UNCHANGED <<extension, historic>>

ReadExtension ==
  /\ Reading("extension")
  /\ extension' \in BOOLEAN
  /\ UNCHANGED <<active, historic>>

ReadHistoric ==
  /\ Reading("historic")
  /\ \E T \in WorstOf({q \in Queries : SlowOnAverage(q, params.age)}, params.limit) :
       historic' = IF extension THEN T ELSE {}
  /\ UNCHANGED <<extension, active>>

(* Any other tool: one statement, LIMIT included.                          *)
ReadRows ==
  /\ pc = "reading" /\ call.args.tool # "slow"
  /\ pc' = "answered"
  /\ \E n \in Sizes : found' = IF n < params.limit THEN n ELSE params.limit
  /\ UNCHANGED <<cap, extension, database, call, params, at, active, historic, asked>>

Tool == ReadActive \/ ReadExtension \/ ReadHistoric \/ ReadRows

Calls ==
  {c \in [tool : Tools, limit : Limits \cup {None}, age : Ages \cup {None}] :
     c.tool # "slow" => c.age = None}

Next == Database \/ Tool \/ \E c \in Calls, via \in Entries : Call(c, via)

Spec == Init /\ [][Next]_vars

-----------------------------------------------------------------------------
Rows == [pid : Backends, state : {"active", "open"}, query : Queries, since : 0..MaxTime]

TypeOK ==
  /\ cap \in Caps \cup {None}
  /\ extension \in BOOLEAN \cup {None}
  /\ now \in 0..MaxTime
  /\ session \in [Backends -> [state : {"idle", "active", "open"}, query : Queries \cup {None},
                               since : 0..now]]
  /\ \A b \in Backends : session[b].state # "idle" => session[b].query # None
  /\ stats \in [Queries -> [calls : Nat, total : Nat]]
  /\ begun \in 0..MaxStatements
  /\ pc \in {"idle", "reading", "answered", "refused"}
  /\ pc # "idle" => cap # None /\ call \in [args : Calls, via : Entries]
  /\ pc \in {"reading", "answered"} => params \in [limit : Nat \ {0}, age : 0..LongAge]
  /\ at \in 1..(Len(Statements) + 1)
  /\ active \subseteq Rows
  /\ historic \subseteq Queries
  /\ found \in Nat
  /\ asked \subseteq [row : Rows, calls : Nat]

(* One interface, written down three times: in the input models of the     *)
(* tools, in the wrappers of server.py and in the definitions that the     *)
(* model is shown (mcp_client.py).  The same arguments mean the same at    *)
(* both entries, except that a default larger than MAX_ROWS is refused     *)
(* where it is filled in before validation; a limit left out is the one    *)
(* advertised; and with MAX_ROWS as delivered, what is refused is exactly  *)
(* what the advertised bounds exclude, or a min_duration_ms above its      *)
(* maximum, which is not advertised.                                       *)
OneInterface ==
  pc # "idle" =>
    LET c == call.args
    IN  /\ Params(cap, "stdio", c) =
             IF c.limit = None /\ AdvertisedLimit[c.tool] > cap THEN None
             ELSE Params(cap, "process", c)
        /\ params # None /\ c.limit = None => params.limit = AdvertisedLimit[c.tool]
        /\ cap = AdvertisedMax =>
             ((pc = "refused") <=>
                \/ c.limit # None /\ c.limit \notin 1..AdvertisedMax
                \/ c.age # None /\ (c.age < AdvertisedMin \/ c.age > LongAge))

(* config.py:37-38, a tool never gives more rows than MAX_ROWS: true of    *)
(* each list it returns when its limit is validated, given by the caller   *)
(* or filled in by server.py.  A limit left out in a call of the agent's   *)
(* is the default of the input model whatever MAX_ROWS is, so that is the  *)
(* cap of these calls, and it may be the larger one.                       *)
RowCap ==
  pc = "answered" =>
    LET c == call.args
        most == IF call.via = "process" /\ c.limit = None THEN DefaultLimit[c.tool] ELSE cap
    IN  found <= most /\ Cardinality(active) <= most /\ Cardinality(historic) <= most

(* The tool asks what is running before it asks what has run: a statement  *)
(* that was slow when the tool was called is not lost by ending in between.*)
(* It is among the running ones, unless the limit gave its place to older  *)
(* ones; or it has ended, is counted, and is in the history, unless faster *)
(* executions have brought its average down or the limit gave its place to *)
(* statements that are worse.  What was cancelled is in neither list.      *)
InActive(e) ==
  \/ \E row \in active : row.pid = e.row.pid /\ row.since = e.row.since
  \/ /\ Cardinality(active) = params.limit
     /\ \A row \in active : row.since <= e.row.since

InHistoric(e) ==
  LET q == e.row.query
  IN  /\ stats[q].calls > e.calls
      /\ \/ q \in historic
         \/ ~SlowOnAverage(q, params.age)
         \/ /\ Cardinality(historic) = params.limit
            /\ \A h \in historic :
                 stats[h].total * stats[q].calls >= stats[q].total * stats[h].calls

SlowFound ==
  pc = "answered" /\ extension = TRUE => \A e \in asked : InActive(e) \/ InHistoric(e)
=============================================================================
