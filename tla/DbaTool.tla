------------------------------ MODULE DbaTool ------------------------------
(***************************************************************************)
(* The wrapper that @dba_tool puts around every diagnostic tool            *)
(* (mcp_server/tools/base.py), with the audit log, the metrics and the     *)
(* correlation id it drives, called by any number of request threads of    *)
(* the web backend at once.  The rate limiter is its contract,             *)
(* RateLimitContract; the body of the tool is only its outcome.            *)
(*                                                                         *)
(* Each step is one the interpreter may suspend before; the counters of    *)
(* prometheus_client and the logging handler lock themselves, so one       *)
(* increment or one record is atomic.                                      *)
(***************************************************************************)
EXTENDS Integers, Sequences, FiniteSets

CONSTANTS
  Threads,   \* request threads, each with a context of its own
  Tools,     \* the decorated tools
  Checked,   \* the tools that have an input_model
  None,
  Capacity, RefillRate, Unit, MaxTime,   \* of the rate limiter
  MaxCalls   \* bound on the number of calls

Statuses == {"ok", "error", "invalid_input", "rate_limited"}
Inputs == {"valid", "malformed"}
Cids == 1..MaxCalls
Envelopes == [cid : Cids, tool : Tools, status : Statuses]

ASSUME ToolAssumption ==
  /\ IsFiniteSet(Threads)
  /\ None \notin Threads \cup Tools
  /\ None \notin Cids /\ None \notin Statuses /\ None \notin Envelopes
  /\ Checked \subseteq Tools
  /\ MaxCalls \in Nat /\ MaxTime \in Nat

VARIABLES
  clock, request, verdict, granted,  \* of the rate limiter
  pc,       \* where each thread is inside the wrapper
  call,     \* which call each thread is running (its number)
  tool,     \* the tool it calls
  input,    \* whether the arguments fit the tool's input_model
  context,  \* the value of the ContextVar _correlation_id per thread
  outcome,  \* the terminal status on the path the thread has taken
  calls,    \* how many calls were made, hence ids minted
  gauge,    \* tool_calls_in_flight
  log,      \* the audit records written, in order
  total,    \* tool_calls_total (and the observations of the histogram)
  answer,   \* the envelope each call returned
  ran       \* history: how many bodies of each tool were started

limiterVars == <<clock, request, verdict, granted>>
threadVars == <<call, tool, input, context>>
vars == <<limiterVars, threadVars, pc, outcome, calls, gauge, log, total, answer, ran>>

Limiter == INSTANCE RateLimitContract WITH Keys <- Tools

Init ==
  /\ Limiter!Init
  /\ pc = [t \in Threads |-> "idle"]
  /\ call = [t \in Threads |-> None]
  /\ tool = [t \in Threads |-> None]
  /\ input = [t \in Threads |-> "valid"]
  /\ context = [t \in Threads |-> None]
  /\ outcome = [t \in Threads |-> None]
  /\ calls = 0
  /\ gauge = [k \in Tools |-> 0]
  /\ log = << >>
  /\ total = [k \in Tools |-> [s \in Statuses |-> 0]]
  /\ answer = [c \in Cids |-> None]
  /\ ran = [k \in Tools |-> 0]

Goto(t, label) == pc' = [pc EXCEPT ![t] = label]

\* Mutant: a module-level variable instead of a ContextVar.
MintShared(t) == context' = [u \in Threads |-> calls + 1]

(* new_correlation_id(): a uuid4, never seen before, in t's own context.   *)
Mint(t) == context' = [context EXCEPT ![t] = calls + 1]

(* Threads call tools with arguments that fit or do not fit the model.     *)
Invoke(t, k, in) ==
  /\ pc[t] = "idle"
  /\ calls < MaxCalls
  /\ calls' = calls + 1
  /\ call' = [call EXCEPT ![t] = calls + 1]
  /\ tool' = [tool EXCEPT ![t] = k]
  /\ input' = [input EXCEPT ![t] = in]
  /\ Mint(t)
  /\ Limiter!Ask(t, k)
  /\ Goto(t, "limit")
  /\ UNCHANGED <<outcome, gauge, log, total, answer, ran>>

(* A branch of the wrapper that ends the call with status s.               *)
Conclude(t, s) ==
  /\ outcome' = [outcome EXCEPT ![t] = s]
  /\ Goto(t, "audit")

Admit(t) ==
  /\ pc[t] = "limit"
  /\ \E at \in 0..clock : Limiter!Grant(t, at)
  /\ Goto(t, "validate")
  /\ UNCHANGED <<threadVars, outcome, calls, gauge, log, total, answer, ran>>

\* Mutant: a refused call is not turned away.
RefuseWeak(t) ==
  /\ pc[t] = "limit"
  /\ \E at \in 0..clock : Limiter!Deny(t, at)
  /\ Goto(t, "validate")
  /\ UNCHANGED <<threadVars, outcome, calls, gauge, log, total, answer, ran>>

Refuse(t) ==
  /\ pc[t] = "limit"
  /\ \E at \in 0..clock : Limiter!Deny(t, at)
  /\ Conclude(t, "rate_limited")
  /\ UNCHANGED <<threadVars, calls, gauge, log, total, answer, ran>>

(* A tool without input_model takes whatever it is given.                  *)
Accepts(t) == tool[t] \in Checked => input[t] = "valid"

Reject(t) ==
  /\ pc[t] = "validate"
  /\ ~Accepts(t)
  /\ Conclude(t, "invalid_input")
  /\ UNCHANGED <<limiterVars, threadVars, calls, gauge, log, total, answer, ran>>

Execute(t) ==
  /\ pc[t] = "validate"
  /\ Accepts(t)
  /\ gauge' = [gauge EXCEPT ![tool[t]] = @ + 1]
  /\ ran' = [ran EXCEPT ![tool[t]] = @ + 1]
  /\ Goto(t, "body")
  /\ UNCHANGED <<limiterVars, threadVars, outcome, calls, log, total, answer>>

Succeed(t) ==
  /\ pc[t] = "body"
  /\ Conclude(t, "ok")
  /\ UNCHANGED <<limiterVars, threadVars, calls, gauge, log, total, answer, ran>>

\* Mutant: the exception of the body is not caught.
RaiseUncaught(t) ==
  /\ pc[t] = "body"
  /\ Goto(t, "escaped")
  /\ UNCHANGED <<limiterVars, threadVars, outcome, calls, gauge, log, total, answer, ran>>

Raise(t) ==
  /\ pc[t] = "body"
  /\ Conclude(t, "error")
  /\ UNCHANGED <<limiterVars, threadVars, calls, gauge, log, total, answer, ran>>

Audit(t) ==
  /\ pc[t] = "audit"
  /\ log' = Append(log, [cid |-> context[t], tool |-> tool[t], status |-> outcome[t]])
  /\ Goto(t, "record")
  /\ UNCHANGED <<limiterVars, threadVars, outcome, calls, gauge, total, answer, ran>>

\* Mutant: record_metric is not called on the rate-limited path.
CountedAdmitted(t) ==
  IF outcome[t] = "rate_limited" THEN total
  ELSE [total EXCEPT ![tool[t]][outcome[t]] = @ + 1]

Counted(t) == [total EXCEPT ![tool[t]][outcome[t]] = @ + 1]

Record(t) ==
  /\ pc[t] = "record"
  /\ total' = Counted(t)
  /\ Goto(t, "return")
  /\ UNCHANGED <<limiterVars, threadVars, outcome, calls, gauge, log, answer, ran>>

\* Mutant: the gauge is decremented after a successful body only.
LeftOnSuccess(t) ==
  IF outcome[t] = "ok" THEN [gauge EXCEPT ![tool[t]] = @ - 1] ELSE gauge

\* Mutant: every return decrements the gauge.
LeftAlways(t) == [gauge EXCEPT ![tool[t]] = @ - 1]

(* The finally clause covers the paths that passed through Execute.        *)
Left(t) ==
  IF outcome[t] \in {"ok", "error"} THEN [gauge EXCEPT ![tool[t]] = @ - 1] ELSE gauge

Return(t) ==
  /\ pc[t] = "return"
  /\ answer' = [answer EXCEPT ![call[t]] =
                  [cid |-> context[t], tool |-> tool[t], status |-> outcome[t]]]
  /\ gauge' = Left(t)
  /\ outcome' = [outcome EXCEPT ![t] = None]
  /\ Goto(t, "idle")
  /\ UNCHANGED <<limiterVars, threadVars, calls, log, total, ran>>

Step(t) ==
  \/ Admit(t) \/ Refuse(t) \/ Reject(t) \/ Execute(t) \/ Succeed(t) \/ Raise(t)
  \/ Audit(t) \/ Record(t) \/ Return(t)

Tick ==
  /\ Limiter!Tick
  /\ UNCHANGED <<threadVars, pc, outcome, calls, gauge, log, total, answer, ran>>

Next ==
  \/ Tick
  \/ \E t \in Threads : Step(t) \/ \E k \in Tools, in \in Inputs : Invoke(t, k, in)

Spec == Init /\ [][Next]_vars

(* A thread inside the wrapper is scheduled, and a body ends: its          *)
(* statements run under statement_timeout.  Nobody is obliged to call.     *)
FairSpec == Spec /\ \A t \in Threads : WF_vars(Step(t))

-----------------------------------------------------------------------------
TypeOK ==
  /\ clock \in 0..MaxTime
  /\ pc \in [Threads -> {"idle", "limit", "validate", "body", "audit", "record", "return"}]
  /\ call \in [Threads -> Cids \cup {None}]
  /\ tool \in [Threads -> Tools \cup {None}]
  /\ input \in [Threads -> Inputs]
  /\ context \in [Threads -> Cids \cup {None}]
  /\ outcome \in [Threads -> Statuses \cup {None}]
  /\ calls \in 0..MaxCalls
  /\ gauge \in [Tools -> Nat]
  /\ log \in Seq(Envelopes)
  /\ total \in [Tools -> [Statuses -> Nat]]
  /\ answer \in [Cids -> Envelopes \cup {None}]
  /\ ran \in [Tools -> Nat]

(* One id, one record, one answer (audit.py:3): no two records share a     *)
(* correlation id, and an envelope a caller got carries the id of its own  *)
(* call and repeats a record that is in the log - however the threads that *)
(* share the log and the wrapper interleave.                               *)
AuditedOnce ==
  /\ \A i, j \in 1..Len(log) : log[i].cid = log[j].cid => i = j
  /\ \A c \in Cids : answer[c] # None =>
       /\ answer[c].cid = c
       /\ \E i \in 1..Len(log) : log[i] = answer[c]

(* The threads that execute the body of k or are on the way out of it.     *)
InFlight(k) ==
  {t \in Threads : /\ tool[t] = k
                   /\ pc[t] = "body" \/ outcome[t] \in {"ok", "error"}}

(* The in-flight gauge counts those threads: it returns to zero whatever   *)
(* the outcomes were, and never drifts.                                    *)
GaugeExact == \A k \in Tools : gauge[k] = Cardinality(InFlight(k))

(* The counters and the log tell the same story: they differ only by the   *)
(* threads between audit() and record_metric().                            *)
MetricsMatchLog ==
  \A k \in Tools, s \in Statuses :
    total[k][s] + Cardinality({t \in Threads : /\ pc[t] = "record"
                                               /\ tool[t] = k /\ outcome[t] = s})
      = Cardinality({i \in 1..Len(log) : log[i].tool = k /\ log[i].status = s})

(* Every token the limiter gave out paid for one body or for one rejected  *)
(* input: no body runs unpaid, and no call is charged twice.               *)
TokensAccounted ==
  \A k \in Tools :
    Len(granted[k]) =
      ran[k]
      + Cardinality({i \in 1..Len(log) : log[i].tool = k /\ log[i].status = "invalid_input"})
      + Cardinality({t \in Threads : /\ tool[t] = k
                                     /\ \/ pc[t] = "validate"
                                        \/ pc[t] = "audit" /\ outcome[t] = "invalid_input"})

(* A tool never raises across the boundary (base.py:7): every call that is *)
(* made is answered, by some envelope.                                     *)
Answered == \A c \in Cids : calls >= c ~> answer[c] # None
=============================================================================
