-------------------------- MODULE ToolCallsProofs --------------------------
(***************************************************************************)
(* Proofs about the calls of the tools with a limit, for any MAX_ROWS, any *)
(* arguments, any number of sessions and any number of rows.               *)
(*                                                                         *)
(* The argument.  The parameters of a call in progress are the ones its    *)
(* arguments translate to (Meant); whichever way they came, their limit is *)
(* at least one, and no more than MAX_ROWS unless it is a default          *)
(* (ParamsType); and no list is longer than the limit (Short), because     *)
(* LIMIT selects a set of at most that many rows.                          *)
(*                                                                         *)
(* What was slow when the tool was called is followed from one statement   *)
(* of the tool to the next (Kept): it runs until it is counted, so that    *)
(* the first statement sees it or finds it counted, and what is counted is *)
(* still counted when the last one looks.                                  *)
(***************************************************************************)
EXTENDS ToolCalls, FiniteSetTheorems, TLAPS

Meant ==
  pc # "idle" =>
    /\ params = Params(cap, call.via, call.args)
    /\ pc = "refused" <=> params = None

Short ==
  /\ pc \in {"idle", "refused"} => found = 0 /\ active = {} /\ historic = {}
  /\ pc \in {"reading", "answered"} =>
       /\ found <= params.limit
       /\ Cardinality(active) <= params.limit
       /\ Cardinality(historic) <= params.limit
  /\ IsFiniteSet(active) /\ IsFiniteSet(historic)

InOrder ==
  /\ pc \in {"idle", "reading"} => at <= Len(Statements)
  /\ pc = "idle" => at = 1

Running(e) ==
  LET s == session[e.row.pid]
  IN  s.state = "active" /\ s.query = e.row.query /\ s.since = e.row.since

Counted(e) == stats[e.row.query].calls > e.calls

(* Where a statement that was asked for is, before the tool has read, and  *)
(* between its reads.                                                      *)
Followed(e) ==
  /\ at = 1 => /\ stats[e.row.query].calls >= e.calls
               /\ (Running(e) /\ now - e.row.since >= params.age) \/ Counted(e)
  /\ at > 1 => InActive(e) \/ Counted(e)

Kept ==
  /\ pc \in {"idle", "refused"} => asked = {}
  /\ pc # "idle" /\ call.args.tool # "slow" => asked = {}
  /\ pc = "reading" => \A e \in asked : Followed(e)
  /\ SlowFound

IInv == TypeOK /\ Meant /\ Short /\ InOrder /\ Kept

-----------------------------------------------------------------------------
(* The numbers of the three files agree, and none is above 100.            *)
LEMMA Defaults ==
  ASSUME NEW k \in Tools
  PROVE  /\ DefaultLimit[k] \in 1..100
         /\ ServerLimit[k] = DefaultLimit[k]
         /\ AdvertisedLimit[k] = DefaultLimit[k]
  BY DEF Tools, DefaultLimit, ServerLimit, AdvertisedLimit

(* What a call translates to, argument by argument.                        *)
LEMMA ParamsOf ==
  ASSUME NEW n \in Caps, NEW via \in Entries, NEW c \in Calls
  PROVE  LET limit == IF via = "stdio" /\ c.limit = None THEN ServerLimit[c.tool] ELSE c.limit
             age   == IF via = "stdio" /\ c.tool = "slow" /\ c.age = None THEN ShortAge ELSE c.age
             fits  == /\ limit # None => 1 <= limit /\ limit <= n
                      /\ c.tool = "slow" /\ age # None => 0 <= age /\ age <= LongAge
         IN  Params(n, via, c) =
               IF fits
               THEN [limit |-> IF limit = None THEN DefaultLimit[c.tool] ELSE limit,
                     age |-> IF age = None THEN ShortAge ELSE age]
               ELSE None
<1>. DEFINE p == Passed(via, c)
<1>1. /\ p.tool = c.tool
      /\ p.limit = IF via = "stdio" /\ c.limit = None THEN ServerLimit[c.tool] ELSE c.limit
      /\ p.age = IF via = "stdio" /\ c.tool = "slow" /\ c.age = None THEN ShortAge ELSE c.age
  BY DEF Passed, Calls, Entries
<1>2. Params(n, via, c) =
        IF ~Within(n, p) THEN None
        ELSE [limit |-> IF p.limit = None THEN DefaultLimit[c.tool] ELSE p.limit,
              age |-> IF p.age = None THEN ShortAge ELSE p.age]
  BY DEF Params
<1>3. Within(n, p) <=> /\ p.limit # None => 1 <= p.limit /\ p.limit <= n
                       /\ p.tool = "slow" /\ p.age # None => 0 <= p.age /\ p.age <= LongAge
  BY DEF Within
<1>. HIDE DEF p
<1>. QED  BY <1>1, <1>2, <1>3, Zenon

(* The parameters of a call that is not refused.                           *)
LEMMA ParamsType ==
  ASSUME NEW n \in Caps, NEW via \in Entries, NEW c \in Calls, Params(n, via, c) # None
  PROVE  /\ Params(n, via, c) \in [limit : Nat \ {0}, age : 0..LongAge]
         /\ Params(n, via, c).limit <=
              IF via = "process" /\ c.limit = None THEN DefaultLimit[c.tool] ELSE n
<1>. DEFINE limit == IF via = "stdio" /\ c.limit = None THEN ServerLimit[c.tool] ELSE c.limit
            age   == IF via = "stdio" /\ c.tool = "slow" /\ c.age = None THEN ShortAge ELSE c.age
            fits  == /\ limit # None => 1 <= limit /\ limit <= n
                     /\ c.tool = "slow" /\ age # None => 0 <= age /\ age <= LongAge
            made  == [limit |-> IF limit = None THEN DefaultLimit[c.tool] ELSE limit,
                      age |-> IF age = None THEN ShortAge ELSE age]
<1>1. fits /\ Params(n, via, c) = made
  BY ParamsOf
<1>2. /\ c.tool \in Tools /\ c.limit \in Int \cup {None} /\ c.age \in Int \cup {None}
      /\ c.tool # "slow" => c.age = None
      /\ n \in Nat \ {0} /\ ShortAge \in Nat /\ LongAge \in Nat /\ ShortAge <= LongAge
      /\ None \notin Int
  BY CallAssumption DEF Calls
<1>3. DefaultLimit[c.tool] \in 1..100 /\ ServerLimit[c.tool] \in 1..100
  BY <1>2, Defaults
<1>4. made.limit \in Nat \ {0}
  BY <1>1, <1>2, <1>3
<1>6. made.limit <= IF via = "process" /\ c.limit = None THEN DefaultLimit[c.tool] ELSE n
  BY <1>1, <1>2, <1>3 DEF Entries
<1>5. made.age \in 0..LongAge
  BY <1>1, <1>2
<1>7. made \in [limit : Nat \ {0}, age : 0..LongAge]
  BY <1>4, <1>5
<1>. HIDE DEF made, fits
<1>. QED  BY <1>1, <1>6, <1>7

(* The entries agree, unless a default is larger than MAX_ROWS.            *)
LEMMA SameThroughEither ==
  ASSUME NEW n \in Caps, NEW c \in Calls
  PROVE  Params(n, "stdio", c) = IF c.limit = None /\ DefaultLimit[c.tool] > n THEN None
                                 ELSE Params(n, "process", c)
<1>1. /\ c.tool \in Tools /\ c.limit \in Int \cup {None} /\ c.age \in Int \cup {None}
      /\ n \in Nat \ {0} /\ ShortAge \in Nat /\ LongAge \in Nat /\ ShortAge <= LongAge
      /\ None \notin Int
  BY CallAssumption DEF Calls
<1>2. ServerLimit[c.tool] \in 1..100 /\ ServerLimit[c.tool] = DefaultLimit[c.tool]
  BY <1>1, Defaults
<1>. DEFINE P(limit, age) ==
       IF /\ limit # None => 1 <= limit /\ limit <= n
          /\ c.tool = "slow" /\ age # None => 0 <= age /\ age <= LongAge
       THEN [limit |-> IF limit = None THEN DefaultLimit[c.tool] ELSE limit,
             age |-> IF age = None THEN ShortAge ELSE age]
       ELSE None
<1>3. Params(n, "process", c) = P(c.limit, c.age)
  BY ParamsOf DEF Entries
<1>4. Params(n, "stdio", c) =
        P(IF c.limit = None THEN ServerLimit[c.tool] ELSE c.limit,
          IF c.tool = "slow" /\ c.age = None THEN ShortAge ELSE c.age)
  BY ParamsOf DEF Entries
<1>. QED  BY <1>1, <1>2, <1>3, <1>4

-----------------------------------------------------------------------------
LEMMA InitInv == Init => IInv
<1>. SUFFICES ASSUME Init PROVE IInv
  OBVIOUS
<1>1. TypeOK
  BY CallAssumption DEF Init, TypeOK, Statements
<1>2. Meant /\ Short /\ InOrder /\ Kept
  BY FS_EmptySet DEF Init, Meant, Short, InOrder, Statements, Kept, SlowFound
<1>. QED  BY <1>1, <1>2 DEF IInv

LEMMA DatabaseTypes ==
  ASSUME IInv, Database
  PROVE  /\ now' \in 0..MaxTime /\ now <= now'
         /\ session' \in [Backends -> [state : {"idle", "active", "open"},
                                       query : Queries \cup {None}, since : 0..now']]
         /\ \A b \in Backends : session'[b].state # "idle" => session'[b].query # None
         /\ stats' \in [Queries -> [calls : Nat, total : Nat]]
         /\ begun' \in 0..MaxStatements
<1>. USE CallAssumption DEF IInv
<1>1. /\ now' \in 0..MaxTime /\ now <= now'
      /\ session' \in [Backends -> [state : {"idle", "active", "open"},
                                    query : Queries \cup {None}, since : 0..now']]
      /\ \A b \in Backends : session'[b].state # "idle" => session'[b].query # None
      /\ stats' \in [Queries -> [calls : Nat, total : Nat]]
      /\ begun' \in 0..MaxStatements
  <2>1. CASE Tick
    <3>1. now' \in 0..MaxTime /\ now <= now' /\ UNCHANGED <<session, stats, begun>>
      BY <2>1 DEF Tick, TypeOK
    <3>2. \A b \in Backends : session[b] \in [state : {"idle", "active", "open"},
                                              query : Queries \cup {None}, since : 0..now']
      BY <3>1 DEF TypeOK
    <3>. QED  BY <3>1, <3>2 DEF TypeOK
  <2>2. ASSUME NEW b \in Backends, NEW q \in Queries, Begin(b, q)
        PROVE  <1>1!:
    BY <2>2 DEF Begin, TypeOK
  <2>3. ASSUME NEW b \in Backends, NEW state \in {"idle", "open"}, NEW cancelled \in BOOLEAN,
               End(b, state, cancelled)
        PROVE  <1>1!:
    <3>. DEFINE q == session[b].query
    <3>1. q \in Queries /\ session[b].since \in 0..now
      BY <2>3 DEF End, TypeOK
    <3>2. UNCHANGED <<now, begun>> /\
          session' = [session EXCEPT ![b] = [state |-> state, query |-> q, since |-> @.since]]
      BY <2>3 DEF End
    <3>3. /\ session' \in [Backends -> [state : {"idle", "active", "open"},
                                        query : Queries \cup {None}, since : 0..now]]
          /\ \A x \in Backends : session'[x].state # "idle" => session'[x].query # None
      BY <3>1, <3>2 DEF TypeOK
    <3>4. stats' \in [Queries -> [calls : Nat, total : Nat]]
      <4>1. stats[q].calls \in Nat /\ stats[q].total + now - session[b].since \in Nat
        BY <3>1 DEF TypeOK
      <4>. DEFINE counted == [calls |-> stats[q].calls + 1,
                              total |-> stats[q].total + now - session[b].since]
      <4>2. stats' = stats \/ stats' = [stats EXCEPT ![q] = counted]
        BY <2>3 DEF End
      <4>3. counted \in [calls : Nat, total : Nat]
        BY <3>1, <4>1 DEF TypeOK
      <4>. HIDE DEF counted, q
      <4>. QED  BY <3>1, <4>2, <4>3 DEF TypeOK
    <3>. QED  BY <3>2, <3>3, <3>4 DEF TypeOK
  <2>. QED  BY <2>1, <2>2, <2>3 DEF Database
<1>. QED  BY <1>1

(* What the tool was asked for goes on running or is counted, unless it is *)
(* cancelled.                                                              *)
LEMMA DatabaseKeeps ==
  ASSUME IInv, Database
  PROVE  Kept' /\ asked' \subseteq asked
<1>1. UNCHANGED <<extension, call, params, pc, at, active, historic>> /\ Watched
  BY DEF Database, Tick, Begin, End
<1>2. pc # "answered"
  BY <1>1 DEF Watched
<1>3. asked' \subseteq asked
  BY DEF Database, Tick, Begin, End
<1>4. /\ now \in Int /\ now' \in Int /\ now <= now'
      /\ stats \in [Queries -> [calls : Nat, total : Nat]]
      /\ stats' \in [Queries -> [calls : Nat, total : Nat]]
      /\ session \in [Backends -> [state : {"idle", "active", "open"},
                                   query : Queries \cup {None}, since : 0..now]]
  <2>1. now \in 0..MaxTime /\ MaxTime \in Nat
    BY CallAssumption DEF IInv, TypeOK
  <2>. QED  BY <2>1, DatabaseTypes DEF IInv, TypeOK
<1>5. ASSUME NEW e \in asked', pc = "reading"
      PROVE  /\ stats'[e.row.query].calls >= stats[e.row.query].calls
             /\ Running(e) => Running(e)' \/ stats'[e.row.query].calls > stats[e.row.query].calls
  <2>. DEFINE p == e.row.pid
              q == e.row.query
  <2>1. p \in Backends /\ q \in Queries
    BY <1>3 DEF IInv, TypeOK, Rows
  <2>2. CASE Tick
    BY <1>4, <2>1, <2>2 DEF Tick, Running
  <2>3. ASSUME NEW b \in Backends, NEW k \in Queries, Begin(b, k)
        PROVE  stats' = stats /\ (Running(e) => Running(e)')
    BY <1>4, <2>1, <2>3 DEF Begin, Running
  <2>4. ASSUME NEW b \in Backends, NEW state \in {"idle", "open"}, NEW cancelled \in BOOLEAN,
               End(b, state, cancelled)
        PROVE  /\ stats'[q].calls >= stats[q].calls
               /\ Running(e) => Running(e)' \/ stats'[q].calls > stats[q].calls
    <3>1. /\ stats' = IF cancelled THEN stats
                      ELSE [stats EXCEPT ![session[b].query] =
                              [calls |-> @.calls + 1, total |-> @.total + now - session[b].since]]
          /\ session' = [session EXCEPT ![b] = [state |-> state, query |-> session[b].query,
                                               since |-> @.since]]
          /\ asked' = {x \in asked : ~(cancelled /\ x.row.pid = b /\ x.row.since = session[b].since)}
      BY <2>4 DEF End
    <3>2. stats[q].calls \in Nat /\ stats'[q].calls \in {stats[q].calls, stats[q].calls + 1}
      BY <1>4, <2>1, <3>1
    <3>3. CASE b # p
      <4>1. session'[p] = session[p]
        BY <1>4, <2>1, <3>1, <3>3
      <4>. QED  BY <3>2, <4>1 DEF Running
    <3>4. CASE b = p
      <4>. SUFFICES ASSUME Running(e) PROVE stats'[q].calls > stats[q].calls
        BY <3>2
      <4>1. session[b].query = q /\ session[b].since = e.row.since
        BY <3>4 DEF Running
      <4>2. ~cancelled
        BY <3>1, <3>4, <4>1
      <4>3. stats'[q].calls = stats[q].calls + 1
        BY <1>4, <2>1, <3>1, <4>1, <4>2
      <4>. QED  BY <3>2, <4>3
    <3>. QED  BY <3>3, <3>4
  <2>5. stats[q].calls \in Nat
    BY <1>4, <2>1
  <2>. HIDE DEF p, q
  <2>6. stats' = stats => stats'[q].calls >= stats[q].calls
    BY <2>5
  <2>7. UNCHANGED <<stats, session>> => (Running(e) => Running(e)')
    BY DEF Running
  <2>8. Tick => UNCHANGED <<stats, session>>
    BY DEF Tick
  <2>. QED  BY <2>3, <2>4, <2>6, <2>7, <2>8 DEF Database, q
<1>6. ASSUME NEW e \in asked', pc = "reading" PROVE Followed(e)'
  <2>1. /\ e \in asked /\ e.row.query \in Queries
        /\ e.row.since \in Int /\ e.calls \in Int /\ params.age \in Int
    BY <1>3, <1>6, CallAssumption DEF IInv, TypeOK, Rows
  <2>2. /\ stats[e.row.query].calls \in Int /\ stats'[e.row.query].calls \in Int
    BY <1>4, <2>1
  <2>3. Followed(e)
    BY <1>6, <2>1 DEF IInv, Kept
  <2>4. InActive(e) => InActive(e)'
    BY <1>1 DEF InActive
  <2>5. Counted(e) => Counted(e)'
    BY <1>5, <1>6, <2>1, <2>2 DEF Counted
  <2>6. ASSUME at = 1
        PROVE  (Running(e)' /\ now' - e.row.since >= params'.age) \/ Counted(e)'
    <3>1. stats[e.row.query].calls >= e.calls =>
            (Running(e) => Running(e)' \/ Counted(e)')
      BY <1>5, <1>6, <2>1, <2>2 DEF Counted
    <3>2. now - e.row.since >= params.age => now' - e.row.since >= params'.age
      BY <1>1, <1>4, <2>1
    <3>3. /\ stats[e.row.query].calls >= e.calls
          /\ (Running(e) /\ now - e.row.since >= params.age) \/ Counted(e)
      BY <2>3, <2>6 DEF Followed
    <3>. QED  BY <2>5, <3>1, <3>2, <3>3
  <2>7. stats[e.row.query].calls >= e.calls => stats'[e.row.query].calls >= e.calls
    BY <1>5, <1>6, <2>1, <2>2
  <2>. QED  BY <1>1, <2>3, <2>4, <2>5, <2>6, <2>7 DEF Followed
<1>7. SlowFound'
  BY <1>1, <1>2 DEF SlowFound
<1>8. Kept'
  BY <1>1, <1>3, <1>6, <1>7 DEF IInv, Kept
<1>. QED  BY <1>3, <1>8

(* The database disturbs nothing but its own variables.                    *)
LEMMA DatabaseStep ==
  ASSUME IInv, Database
  PROVE  IInv'
<1>1. UNCHANGED <<cap, extension, call, params, pc, at, active, historic, found>>
  BY DEF Database, Tick, Begin, End
<1>2. Meant' /\ Short' /\ InOrder'
  BY <1>1 DEF IInv, Meant, Short, InOrder
<1>3. Kept' /\ asked' \subseteq asked
  BY DatabaseKeeps
<1>4. TypeOK'
  BY <1>1, <1>3, DatabaseTypes DEF IInv, TypeOK, Rows
<1>. QED  BY <1>2, <1>3, <1>4 DEF IInv

(* What a call asks for is running, and has been for long enough.          *)
LEMMA CallKeeps ==
  ASSUME IInv, NEW c \in Calls, NEW via \in Entries, Call(c, via),
         params' # None => params' \in [limit : Nat \ {0}, age : 0..LongAge]
  PROVE  Kept' /\ asked' \subseteq [row : Rows, calls : Nat]
<1>1. /\ pc = "idle" /\ at = 1 /\ call' = [args |-> c, via |-> via]
      /\ pc' = IF params' = None THEN "refused" ELSE "reading"
      /\ UNCHANGED <<extension, now, session, stats, at, active, historic>>
  BY DEF Call, database, IInv, InOrder
<1>2. c.tool # "slow" \/ params' = None => asked' = {}
  BY DEF Call
<1>3. ASSUME NEW e \in asked'
      PROVE  e \in [row : Rows, calls : Nat] /\ Followed(e)'
  <2>0. c.tool = "slow" /\ params' # None
    BY <1>2, <1>3
  <2>1. PICK b \in Backends :
          /\ session[b].state = "active" /\ Slow(b, params'.age)
          /\ e = [row |-> Row(b), calls |-> stats[session[b].query].calls]
    BY <2>0 DEF Call
  <2>2. /\ session[b].query \in Queries /\ session[b].since \in 0..now /\ now \in 0..MaxTime
        /\ MaxTime \in Nat /\ stats[session[b].query].calls \in Nat
    BY <2>1, CallAssumption DEF IInv, TypeOK
  <2>3. /\ e.row.pid = b /\ e.row.query = session[b].query /\ e.row.since = session[b].since
        /\ e.calls = stats[session[b].query].calls
    BY <2>1 DEF Row
  <2>4. Row(b) \in Rows
    <3>1. session[b].since \in 0..MaxTime
      BY <2>2
    <3>. QED  BY <2>1, <2>2, <3>1 DEF Row, Rows
  <2>5. now - session[b].since >= params'.age
    BY <2>1 DEF Slow
  <2>6. Running(e)'
    BY <1>1, <2>1, <2>3 DEF Running
  <2>7. Followed(e)'
    BY <1>1, <2>2, <2>3, <2>5, <2>6 DEF Followed
  <2>. QED  BY <2>1, <2>2, <2>4, <2>7
<1>4. Kept'
  BY <1>1, <1>2, <1>3 DEF Kept, SlowFound
<1>. QED  BY <1>3, <1>4

LEMMA CallStep ==
  ASSUME IInv, NEW c \in Calls, NEW via \in Entries, Call(c, via)
  PROVE  IInv'
<1>1. /\ pc = "idle" /\ cap' \in Caps
      /\ call' = [args |-> c, via |-> via]
      /\ params' = Params(cap', via, c)
      /\ pc' = IF params' = None THEN "refused" ELSE "reading"
      /\ UNCHANGED <<extension, now, session, stats, begun, at, active, historic, found>>
  BY DEF Call, database
<1>2. params' # None => params' \in [limit : Nat \ {0}, age : 0..LongAge]
  BY <1>1, ParamsType
<1>3. cap' # None
  BY <1>1, CallAssumption
<1>4. call' \in [args : Calls, via : Entries]
  BY <1>1
<1>. DEFINE Asked == [row : Rows, calls : Nat]
<1>5. Kept' /\ asked' \subseteq Asked
  BY <1>2, CallKeeps
<1>6. TypeOK'
  <2>. HIDE DEF Asked
  <2>1. Rows' = Rows
    BY DEF Rows
  <2>2. asked' \subseteq Asked
    BY <1>5
  <2>. QED  BY <1>1, <1>2, <1>3, <1>4, <2>1, <2>2 DEF IInv, TypeOK, Asked
<1>7. Meant' /\ InOrder'
  BY <1>1 DEF IInv, Meant, InOrder
<1>8. Short'
  BY <1>1, <1>2, FS_EmptySet DEF IInv, Short
<1>. QED  BY <1>5, <1>6, <1>7, <1>8 DEF IInv

(* LIMIT n selects no more than n.                                         *)
LEMMA Limited ==
  ASSUME NEW S, IsFiniteSet(S), NEW n \in Nat, NEW T \in SUBSET S,
         Cardinality(T) = IF Cardinality(S) < n THEN Cardinality(S) ELSE n
  PROVE  Cardinality(T) <= n
  BY FS_CardinalityType

(* What the first statement does not show has had to make room for it.     *)
LEMMA ActiveShows ==
  ASSUME IInv, ReadActive, NEW e, e.row.pid \in Backends, Running(e),
         now - e.row.since >= params.age, params.limit \in Nat
  PROVE  InActive(e)'
<1>. DEFINE S == {b \in Backends : Slow(b, params.age)}
            p == e.row.pid
<1>1. PICK T \in OldestOf(S, params.limit) : active' = {Row(b) : b \in T}
  BY DEF ReadActive
<1>2. /\ T \in SUBSET S /\ UNCHANGED <<session, params>>
      /\ Cardinality(T) = IF Cardinality(S) < params.limit THEN Cardinality(S) ELSE params.limit
      /\ \A x \in T, y \in S \ T : session[x].since <= session[y].since
  BY <1>1 DEF OldestOf, ReadActive, Reading, database
<1>3. p \in S /\ session[p].since = e.row.since
  BY DEF Running, Slow
<1>4. CASE p \in T
  <2>1. Row(p) \in active' /\ Row(p).pid = e.row.pid /\ Row(p).since = e.row.since
    BY <1>1, <1>3, <1>4 DEF Row
  <2>. QED  BY <2>1 DEF InActive
<1>5. CASE p \notin T
  <2>1. IsFiniteSet(S) /\ IsFiniteSet(T) /\ Cardinality(T) # Cardinality(S)
    <3>1. IsFiniteSet(S) /\ IsFiniteSet(T)
      BY <1>2, FS_Subset, CallAssumption
    <3>2. Cardinality(S) = Cardinality(T) => S = T
      BY <1>2, <3>1, FS_Subset
    <3>. QED  BY <1>3, <1>5, <3>1, <3>2
  <2>2. Cardinality(T) = params.limit
    BY <1>2, <2>1
  <2>3. Cardinality(active') = Cardinality(T)
    <3>. DEFINE f == [b \in T |-> Row(b)]
    <3>1. f \in Surjection(T, active')
      BY <1>1 DEF Surjection
    <3>2. f \in Injection(T, active')
      BY <1>1 DEF Injection, IsInjective, Row
    <3>. HIDE DEF f
    <3>. QED  BY <2>1, <3>1, <3>2, FS_Surjection
  <2>4. ASSUME NEW x \in active' PROVE x.since <= e.row.since
    <3>1. PICK b \in T : x = Row(b)
      BY <1>1, <2>4
    <3>2. session[b].since <= session[p].since
      BY <1>2, <1>3, <1>5
    <3>. QED  BY <1>3, <3>1, <3>2 DEF Row
  <2>. QED  BY <1>2, <2>2, <2>3, <2>4 DEF InActive
<1>. QED  BY <1>4, <1>5

(* So has what the last statement does not show, or it is not slow any     *)
(* more on average.                                                        *)
LEMMA HistoricShows ==
  ASSUME IInv, ReadHistoric, extension = TRUE, NEW e, e.row.query \in Queries, Counted(e),
         params.limit \in Nat
  PROVE  InHistoric(e)'
<1>. DEFINE S == {q \in Queries : SlowOnAverage(q, params.age)}
            k == e.row.query
<1>1. PICK T \in WorstOf(S, params.limit) : historic' = T
  BY DEF ReadHistoric
<1>2. /\ T \in SUBSET S /\ UNCHANGED <<stats, params>>
      /\ Cardinality(T) = IF Cardinality(S) < params.limit THEN Cardinality(S) ELSE params.limit
      /\ \A x \in T, y \in S \ T : stats[x].total * stats[y].calls >= stats[y].total * stats[x].calls
  BY <1>1 DEF WorstOf, ReadHistoric, Reading, database
<1>3. ASSUME k \in S, k \notin T PROVE Cardinality(T) = params.limit
  <2>1. IsFiniteSet(S) /\ IsFiniteSet(T)
    BY <1>2, FS_Subset, CallAssumption
  <2>2. Cardinality(T) # Cardinality(S)
    BY <1>2, <1>3, <2>1, FS_Subset
  <2>. QED  BY <1>2, <2>2
<1>4. /\ stats[k].calls > e.calls
      /\ \/ k \in T
         \/ ~SlowOnAverage(k, params.age)
         \/ /\ Cardinality(T) = params.limit
            /\ \A h \in T : stats[h].total * stats[k].calls >= stats[k].total * stats[h].calls
  BY <1>2, <1>3 DEF Counted
<1>. QED  BY <1>1, <1>2, <1>4 DEF InHistoric, SlowOnAverage

LEMMA ToolKeeps ==
  ASSUME IInv, Tool
  PROVE  Kept'
<1>1. /\ pc = "reading" /\ params.limit \in Nat /\ asked \subseteq [row : Rows, calls : Nat]
      /\ UNCHANGED <<now, session, stats, call, params, asked>>
  BY DEF IInv, TypeOK, Tool, ReadActive, ReadExtension, ReadHistoric, ReadRows, Reading, database
<1>2. \A e \in asked : e.row.pid \in Backends /\ e.row.query \in Queries /\ Followed(e)
                       /\ (Counted(e) => Counted(e)')
  BY <1>1 DEF IInv, Kept, Rows, Counted
<1>3. at \in 1..3 /\ Len(Statements) = 3 /\ Statements[1] = "active"
      /\ Statements[2] = "extension" /\ Statements[3] = "historic"
  BY <1>1 DEF IInv, TypeOK, InOrder, Statements
<1>4. CASE ReadRows
  BY <1>1, <1>4 DEF ReadRows, IInv, Kept, SlowFound
<1>5. CASE ReadActive
  <2>1. at = 1 /\ at' = 2 /\ pc' = "reading"
    BY <1>3, <1>5 DEF ReadActive, Reading
  <2>2. ASSUME NEW e \in asked PROVE InActive(e)' \/ Counted(e)'
    <3>1. (Running(e) /\ now - e.row.since >= params.age) \/ Counted(e)
      BY <1>2, <2>1 DEF Followed
    <3>. QED  BY <1>1, <1>2, <1>5, <3>1, ActiveShows
  <2>3. \A e \in asked' : Followed(e)'
    BY <1>1, <2>1, <2>2 DEF Followed
  <2>. QED  BY <1>1, <2>1, <2>3 DEF IInv, Kept, SlowFound
<1>6. CASE ReadExtension
  <2>1. at = 2 /\ at' = 3 /\ pc' = "reading" /\ UNCHANGED active
    BY <1>3, <1>6 DEF ReadExtension, Reading
  <2>2. \A e \in asked : InActive(e) => InActive(e)'
    BY <1>1, <2>1 DEF InActive
  <2>3. \A e \in asked' : Followed(e)'
    BY <1>1, <1>2, <2>1, <2>2 DEF Followed
  <2>. QED  BY <1>1, <2>1, <2>3 DEF IInv, Kept, SlowFound
<1>7. CASE ReadHistoric
  <2>1. at = 3 /\ pc' = "answered" /\ UNCHANGED <<active, extension>>
    BY <1>3, <1>7 DEF ReadHistoric, Reading
  <2>2. \A e \in asked : InActive(e) => InActive(e)'
    BY <1>1, <2>1 DEF InActive
  <2>3. ASSUME extension = TRUE, NEW e \in asked PROVE InActive(e)' \/ InHistoric(e)'
    <3>1. InActive(e) \/ Counted(e)
      BY <1>2, <2>1 DEF Followed
    <3>. QED  BY <1>1, <1>2, <1>7, <2>2, <2>3, <3>1, HistoricShows
  <2>4. SlowFound'
    BY <1>1, <2>1, <2>3 DEF SlowFound
  <2>. QED  BY <1>1, <2>1, <2>4 DEF IInv, Kept
<1>. QED  BY <1>4, <1>5, <1>6, <1>7 DEF Tool

LEMMA ToolStep ==
  ASSUME IInv, Tool
  PROVE  IInv'
<1>1. pc = "reading" /\ params.limit \in Nat /\ UNCHANGED <<cap, now, session, stats, begun, call, params, asked>>
  BY DEF IInv, TypeOK, Tool, ReadActive, ReadExtension, ReadHistoric, ReadRows, Reading, database
<1>2. pc' \in {"reading", "answered"} /\ at' \in 1..(Len(Statements) + 1) /\ InOrder'
  <2>1. CASE \E statement : Reading(statement)
    <3>1. Len(Statements) = 3
      BY DEF Statements
    <3>2. at \in 1..3
      BY <1>1, <3>1 DEF IInv, TypeOK, InOrder
    <3>. QED  BY <2>1, <3>1, <3>2 DEF Reading, InOrder
  <2>2. CASE ReadRows
    BY <2>2 DEF ReadRows, IInv, TypeOK, InOrder
  <2>. QED  BY <2>1, <2>2 DEF Tool, ReadActive, ReadExtension, ReadHistoric
<1>3. /\ found' \in Nat /\ extension' \in BOOLEAN \cup {None}
      /\ historic' \subseteq Queries /\ active' \subseteq Rows
      /\ found' <= params.limit
      /\ Cardinality(active') <= params.limit /\ Cardinality(historic') <= params.limit
      /\ IsFiniteSet(active') /\ IsFiniteSet(historic')
  <2>0. /\ found \in Nat /\ extension \in BOOLEAN \cup {None}
        /\ historic \subseteq Queries /\ active \subseteq Rows
        /\ found <= params.limit
        /\ Cardinality(active) <= params.limit /\ Cardinality(historic) <= params.limit
        /\ IsFiniteSet(active) /\ IsFiniteSet(historic)
    BY <1>1 DEF IInv, TypeOK, Short
  <2>1. CASE ReadActive
    <3>. DEFINE S == {b \in Backends : Slow(b, params.age)}
    <3>1. PICK T \in OldestOf(S, params.limit) : active' = {Row(b) : b \in T}
      BY <2>1 DEF ReadActive
    <3>2. T \in SUBSET S /\ Cardinality(T) = IF Cardinality(S) < params.limit
                                            THEN Cardinality(S) ELSE params.limit
      BY <3>1 DEF OldestOf
    <3>3. IsFiniteSet(S) /\ IsFiniteSet(T)
      BY <3>2, FS_Subset, CallAssumption
    <3>4. Cardinality(T) <= params.limit /\ Cardinality(T) \in Nat
      BY <3>2, <3>3, <1>1, Limited, FS_CardinalityType
    <3>5. /\ Cardinality(active') <= Cardinality(T) /\ Cardinality(active') \in Nat
          /\ IsFiniteSet(active')
      <4>. DEFINE f == [b \in T |-> Row(b)]
      <4>1. f \in Surjection(T, active')
        BY <3>1 DEF Surjection
      <4>. HIDE DEF f
      <4>. QED  BY <4>1, <3>3, FS_Surjection, FS_CardinalityType
    <3>6. active' \subseteq Rows
      <4>1. ASSUME NEW b \in T
            PROVE  Row(b) \in Rows
        <5>1. b \in Backends /\ session[b].state # "idle"
          BY <3>2 DEF Slow
        <5>2. now \in 0..MaxTime /\ session[b].since \in 0..MaxTime
          BY <5>1, CallAssumption DEF IInv, TypeOK
        <5>. QED  BY <5>1, <5>2 DEF IInv, TypeOK, Row, Rows
      <4>. QED  BY <3>1, <4>1
    <3>7. UNCHANGED <<found, extension, historic>>
      BY <2>1 DEF ReadActive, Reading
    <3>. QED  BY <1>1, <2>0, <3>4, <3>5, <3>6, <3>7
  <2>2. CASE ReadExtension
    BY <2>0, <2>2 DEF ReadExtension, Reading
  <2>3. CASE ReadHistoric
    <3>. DEFINE S == {q \in Queries : SlowOnAverage(q, params.age)}
    <3>1. PICK T \in WorstOf(S, params.limit) : historic' = IF extension THEN T ELSE {}
      BY <2>3 DEF ReadHistoric
    <3>2. T \in SUBSET S /\ Cardinality(T) = IF Cardinality(S) < params.limit
                                            THEN Cardinality(S) ELSE params.limit
      BY <3>1 DEF WorstOf
    <3>3. IsFiniteSet(S) /\ IsFiniteSet(T) /\ IsFiniteSet({})
      BY <3>2, FS_Subset, FS_EmptySet, CallAssumption
    <3>4. Cardinality(T) <= params.limit /\ Cardinality({}) <= params.limit
      BY <3>2, <3>3, <1>1, Limited, FS_EmptySet
    <3>. QED  BY <2>0, <2>3, <3>1, <3>2, <3>3, <3>4 DEF ReadHistoric, Reading
  <2>4. CASE ReadRows
    <3>1. PICK n \in Sizes : found' = IF n < params.limit THEN n ELSE params.limit
      BY <2>4 DEF ReadRows
    <3>2. n \in Nat
      BY CallAssumption
    <3>. QED  BY <1>1, <2>0, <2>4, <3>1, <3>2 DEF ReadRows
  <2>. QED  BY <2>1, <2>2, <2>3, <2>4 DEF Tool
<1>4. TypeOK'
  <2>1. Rows' = Rows
    BY DEF Rows
  <2>. QED  BY <1>1, <1>2, <1>3, <2>1 DEF IInv, TypeOK
<1>5. Meant'
  BY <1>1, <1>2 DEF IInv, Meant
<1>6. Short'
  BY <1>1, <1>2, <1>3 DEF Short
<1>. QED  BY <1>2, <1>4, <1>5, <1>6, ToolKeeps DEF IInv

(* The invariant holds in every reachable state of a call.                 *)
THEOREM Invariance == Spec => []IInv
<1>1. IInv /\ [Next]_vars => IInv'
  <2>. SUFFICES ASSUME IInv, [Next]_vars PROVE IInv'
    OBVIOUS
  <2>1. CASE UNCHANGED vars
    <3>1. UNCHANGED <<cap, extension, now, session, stats, begun, call, params, pc, at, active,
                      historic, found, asked>>
      BY <2>1 DEF vars, database
    <3>2. TypeOK' /\ Meant' /\ Short' /\ InOrder'
      BY <3>1 DEF IInv, TypeOK, Meant, Short, InOrder, Rows
    <3>3. SlowFound' /\ \A e \in asked : Followed(e) => Followed(e)'
      BY <3>1 DEF IInv, Kept, SlowFound, InActive, InHistoric, SlowOnAverage, Followed, Running, Counted
    <3>4. Kept'
      BY <3>1, <3>3 DEF IInv, Kept
    <3>. QED  BY <3>2, <3>4 DEF IInv
  <2>. QED  BY <2>1, DatabaseStep, CallStep, ToolStep DEF Next
<1>. QED  BY <1>1, InitInv, PTL DEF Spec

(* Type correctness of a call, whatever its arguments: its parameters fit  *)
(* the input model (tools/*.py, the input classes).                        *)
THEOREM TypeCorrect == Spec => []TypeOK
<1>1. IInv => TypeOK
  BY DEF IInv
<1>. QED  BY <1>1, Invariance, PTL

(* config.py:37-38, for any number of rows: no list is longer than         *)
(* MAX_ROWS where the limit is validated, nor longer than the default of   *)
(* the input model where it is not.                                        *)
THEOREM RowsCapped == Spec => []RowCap
<1>1. IInv => RowCap
  <2>. SUFFICES ASSUME IInv, pc = "answered" PROVE RowCap
    BY DEF RowCap
  <2>. DEFINE c == call.args
              most == IF call.via = "process" /\ c.limit = None THEN DefaultLimit[c.tool] ELSE cap
  <2>1. cap \in Caps /\ c \in Calls /\ call.via \in Entries /\ params # None
        /\ params = Params(cap, call.via, c)
    BY DEF IInv, TypeOK, Meant
  <2>2. params.limit <= most /\ params.limit \in Nat
    BY <2>1, ParamsType
  <2>3. /\ found \in Nat /\ found <= params.limit
        /\ Cardinality(active) <= params.limit /\ Cardinality(historic) <= params.limit
    BY DEF IInv, TypeOK, Short
  <2>4. Cardinality(active) \in Nat /\ Cardinality(historic) \in Nat
    BY FS_CardinalityType DEF IInv, Short
  <2>5. most \in Int
    <3>1. c.tool \in Tools /\ cap \in Nat
      BY <2>1, CallAssumption DEF Calls
    <3>. QED  BY <3>1, Defaults
  <2>6. found <= most /\ Cardinality(active) <= most /\ Cardinality(historic) <= most
    <3>. HIDE DEF most
    <3>. QED  BY <2>2, <2>3, <2>4, <2>5
  <2>. QED  BY <2>6 DEF RowCap
<1>. QED  BY <1>1, Invariance, PTL

(* The tools (tools/*.py), the stdio server (server.py) and the            *)
(* definitions shown to the model (mcp_client.py) describe one interface,  *)
(* for every argument.                                                     *)
THEOREM InterfaceIsOne == Spec => []OneInterface
<1>1. IInv => OneInterface
  <2>. SUFFICES ASSUME IInv, pc # "idle"
                PROVE  LET c == call.args
                       IN  /\ Params(cap, "stdio", c) =
                                IF c.limit = None /\ AdvertisedLimit[c.tool] > cap THEN None
                                ELSE Params(cap, "process", c)
                           /\ params # None /\ c.limit = None => params.limit = AdvertisedLimit[c.tool]
                           /\ cap = AdvertisedMax =>
                                ((pc = "refused") <=>
                                   \/ c.limit # None /\ c.limit \notin 1..AdvertisedMax
                                   \/ c.age # None /\ (c.age < AdvertisedMin \/ c.age > LongAge))
    BY DEF OneInterface
  <2>. DEFINE c == call.args
              via == call.via
              limit == IF via = "stdio" /\ c.limit = None THEN ServerLimit[c.tool] ELSE c.limit
              age   == IF via = "stdio" /\ c.tool = "slow" /\ c.age = None THEN ShortAge ELSE c.age
              fits  == /\ limit # None => 1 <= limit /\ limit <= cap
                       /\ c.tool = "slow" /\ age # None => 0 <= age /\ age <= LongAge
              made  == [limit |-> IF limit = None THEN DefaultLimit[c.tool] ELSE limit,
                        age |-> IF age = None THEN ShortAge ELSE age]
  <2>1. cap \in Caps /\ c \in Calls /\ via \in Entries
        /\ params = Params(cap, via, c) /\ (pc = "refused" <=> params = None)
    BY DEF IInv, TypeOK, Meant
  <2>2. /\ c.tool \in Tools /\ c.limit \in Int \cup {None} /\ c.age \in Int \cup {None}
        /\ c.tool # "slow" => c.age = None
        /\ cap \in Nat \ {0} /\ ShortAge \in Nat /\ LongAge \in Nat /\ ShortAge <= LongAge
        /\ None \notin Int
    BY <2>1, CallAssumption DEF Calls
  <2>3. params = IF fits THEN made ELSE None
    BY <2>1, ParamsOf
  <2>4. /\ DefaultLimit[c.tool] \in 1..100 /\ ServerLimit[c.tool] = DefaultLimit[c.tool]
        /\ AdvertisedLimit[c.tool] = DefaultLimit[c.tool]
    BY <2>2, Defaults
  <2>5. Params(cap, "stdio", c) = IF c.limit = None /\ AdvertisedLimit[c.tool] > cap THEN None
                                  ELSE Params(cap, "process", c)
    BY <2>1, <2>4, SameThroughEither
  <2>6. params # None /\ c.limit = None => params.limit = AdvertisedLimit[c.tool]
    BY <2>3, <2>4
  <2>. DEFINE excluded == \/ c.limit # None /\ c.limit \notin 1..AdvertisedMax
                          \/ c.age # None /\ (c.age < AdvertisedMin \/ c.age > LongAge)
  <2>7. ASSUME cap = AdvertisedMax
        PROVE  pc = "refused" <=> excluded
    <3>1. (limit # None => 1 <= limit /\ limit <= cap) <=> ~(c.limit # None /\ c.limit \notin 1..AdvertisedMax)
      BY <2>2, <2>4, <2>7 DEF AdvertisedMax
    <3>4. (c.tool = "slow" /\ age # None => 0 <= age /\ age <= LongAge)
            <=> ~(c.age # None /\ (c.age < AdvertisedMin \/ c.age > LongAge))
      BY <2>2 DEF AdvertisedMin
    <3>2. fits <=> ~excluded
      <4>. HIDE DEF limit, age, c
      <4>. QED  BY <3>1, <3>4
    <3>3. fits => made # None
      <4>1. fits => made \in [limit : Nat, age : Nat]
        BY <2>2, <2>4
      <4>. HIDE DEF fits, made
      <4>. QED  BY <4>1, CallAssumption
    <3>. QED  BY <3>2, <3>3, <2>1, <2>3
  <2>. HIDE DEF c
  <2>. QED  BY <2>5, <2>6, <2>7 DEF c
<1>. QED  BY <1>1, Invariance, PTL

(* get_slow_queries asks for the sessions before it asks for the history:  *)
(* no statement is lost by ending in between, for any number of sessions,  *)
(* of statements and of steps they take.                                   *)
THEOREM NothingSlowIsLost == Spec => []SlowFound
<1>1. IInv => SlowFound
  BY DEF IInv, Kept
<1>. QED  BY <1>1, Invariance, PTL
=============================================================================
