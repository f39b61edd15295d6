---------------------------- MODULE ChaosProofs ----------------------------
(***************************************************************************)
(* Proofs about the chaos demos and the evaluation, for any number of      *)
(* overlapping demos of each kind, of idle sessions and of planned runs.   *)
(*                                                                         *)
(* The demos: type correctness, and what one may leave behind when it      *)
(* answers.  A thread that stop() has joined is closed, and stays so, or   *)
(* the database kept it busy (Joined).  It can only have been asleep,      *)
(* which makes the demo a slow one, or waiting for the row: then the row   *)
(* had a holder whose demo was not stopped (Held), while its own was       *)
(* (Stopped) - a second lock demo, and one that has begun (Begun).         *)
(*                                                                         *)
(* The evaluation runs demos and does nothing else to the database: its    *)
(* steps are theirs (EvalRefines), so what is proved of them holds under   *)
(* it.  That a failure in place is named rests on Found: while the         *)
(* injector runs, no step of a session takes the failure away (Standing),  *)
(* except that a pg_sleep may end, and then it is on record as slow; once  *)
(* the tool for it has answered, the failure has been found.  What an exit *)
(* code is worth is counted from Scored: a run has two of three keywords   *)
(* exactly when it has named its failure.                                  *)
(***************************************************************************)
EXTENDS EvalRun, FiniteSetTheorems, SequenceTheorems, TLAPS

Threading(d) == IF d \in SlowDemos THEN 1 ELSE IF d \in LockDemos THEN 2 ELSE IdleSessions

Shared(d) == d \in LockDemos /\ \E e \in LockDemos \ {d} : pc[e] # "idle"

Progress ==
  \A d \in Demos :
    /\ pc[d] \in {"idle", "starting", "agent", "failed"} => joined[d] = 0
    /\ pc[d] = "joining" => joined[d] < Threading(d)
    /\ pc[d] = "answered" => joined[d] = Threading(d)

Joined ==
  \A d \in Demos : \A i \in 1..joined[d] :
    worker[<<d, i>>] = "closed" \/ d \in SlowDemos \/ Shared(d)

Begun == \A x \in Workers : worker[x] # "none" => pc[x[1]] # "idle"

Stopped == \A d \in Demos : d \in stopped <=> pc[d] \in {"joining", "answered"}

Held ==
  /\ row # None => worker[row] \in {"holding", "finished"}
  /\ \A x \in Contenders : worker[x] \in {"holding", "finished"} => row = x

Asleep ==
  \A x \in Workers : /\ worker[x] = "sleeping" => x[1] \in SlowDemos
                     /\ worker[x] = "holding" => x[1] \notin SlowDemos

IInv == TypeOK /\ Progress /\ Joined /\ Begun /\ Stopped /\ Held /\ Asleep

-----------------------------------------------------------------------------
(* The threads of a demo are numbered from one.                            *)
LEMMA ThreadsOf ==
  ASSUME NEW d \in Demos
  PROVE  /\ Threads(d) = 1..Threading(d) /\ Threading(d) \in Nat \ {0}
         /\ Cardinality(Threads(d)) = Threading(d)
         /\ \A i \in Threads(d) : <<d, i>> \in Workers
<1>1. Threads(d) = 1..Threading(d) /\ Threading(d) \in Nat \ {0}
  BY ChaosAssumption DEF Threads, Threading
<1>2. Cardinality(1..Threading(d)) = Threading(d)
  BY <1>1, FS_Interval
<1>3. \A i \in Threads(d) : <<d, i>> \in Workers
  BY DEF Workers
<1>. QED  BY <1>1, <1>2, <1>3

(* A session is a demo and a number.                                       *)
LEMMA WorkersOf ==
  ASSUME NEW x \in Workers
  PROVE  x[1] \in Demos /\ x[2] \in Threads(x[1]) /\ x = <<x[1], x[2]>>
  BY DEF Workers

LEMMA InitInv == Init => IInv
<1>. SUFFICES ASSUME Init PROVE IInv
  OBVIOUS
<1>1. TypeOK
  <2>1. \A d \in Demos : joined[d] <= Cardinality(Threads(d))
    BY ThreadsOf DEF Init
  <2>. QED  BY <2>1, ChaosAssumption DEF Init, TypeOK
<1>2. Progress /\ Joined /\ Begun /\ Stopped /\ Held /\ Asleep
  BY WorkersOf DEF Init, Contenders, Progress, Joined, Begun, Stopped, Held, Asleep
<1>. QED  BY <1>1, <1>2 DEF IInv

(* What a step of a request leaves alone: threads and the row; and whoever *)
(* has begun stays so.                                                     *)
LEMMA RequestKeeps ==
  ASSUME IInv, NEW d \in Demos, NEW label \in {"starting", "agent", "joining", "answered", "failed"},
         pc' = [pc EXCEPT ![d] = label], row' = row,
         \A x \in Workers : worker'[x] = worker[x] \/ (worker[x] = "none" /\ worker'[x] = "begun")
  PROVE  /\ \A e \in Demos : pc'[e] = IF e = d THEN label ELSE pc[e]
         /\ \A e \in Demos : Shared(e) => Shared(e)'
         /\ Held'
<1>1. \A e \in Demos : pc'[e] = IF e = d THEN label ELSE pc[e]
  BY DEF IInv, TypeOK
<1>2. \A e \in Demos : Shared(e) => Shared(e)'
  BY <1>1 DEF Shared, Demos
<1>3. Held'
  BY DEF IInv, Held, TypeOK, Contenders
<1>. QED  BY <1>1, <1>2, <1>3

(* Steps of a request that change no thread and join none.                 *)
LEMMA PlainStep ==
  ASSUME IInv, NEW d \in Demos, Request(d) \/ SpawnFails(d) \/ AgentEnds(d)
  PROVE  IInv'
<1>1. PICK label \in {"starting", "failed", "joining"} :
        /\ pc' = [pc EXCEPT ![d] = label]
        /\ pc[d] \in {"idle", "starting", "agent"}
        /\ label = "joining" => stopped' = stopped \cup {d}
        /\ label # "joining" => stopped' = stopped
        /\ failures' \in 0..MaxFailures
        /\ UNCHANGED <<joined, started, worker, row>>
  <2>1. CASE Request(d)
    BY <2>1 DEF Request, Goto, IInv, TypeOK
  <2>2. CASE SpawnFails(d)
    BY <2>2, ChaosAssumption DEF SpawnFails, Goto, IInv, TypeOK
  <2>3. CASE AgentEnds(d)
    BY <2>3 DEF AgentEnds, Goto, IInv, TypeOK
  <2>. QED  BY <2>1, <2>2, <2>3
<1>2. /\ \A e \in Demos : pc'[e] = IF e = d THEN label ELSE pc[e]
      /\ \A e \in Demos : Shared(e) => Shared(e)'
      /\ Held'
  <2>1. pc' = [pc EXCEPT ![d] = label] /\ row' = row /\ worker' = worker
    BY <1>1
  <2>2. label \in {"starting", "agent", "joining", "answered", "failed"}
    OBVIOUS
  <2>3. \A x \in Workers : worker'[x] = worker[x] \/ (worker[x] = "none" /\ worker'[x] = "begun")
    BY <2>1
  <2>. QED  BY <2>1, <2>2, <2>3, RequestKeeps
<1>3. TypeOK'
  BY <1>1 DEF IInv, TypeOK
<1>4. Progress'
  BY <1>1, <1>2, ThreadsOf DEF IInv, Progress
<1>5. Joined'
  BY <1>1, <1>2 DEF IInv, Joined
<1>6. Begun' /\ Asleep'
  BY <1>1, <1>2, WorkersOf DEF IInv, Begun, Asleep
<1>7. Stopped'
  BY <1>1, <1>2 DEF IInv, Stopped
<1>. QED  BY <1>2, <1>3, <1>4, <1>5, <1>6, <1>7 DEF IInv

LEMMA SpawnStep ==
  ASSUME IInv, NEW d \in Demos, Spawn(d)
  PROVE  IInv'
<1>1. PICK i \in Unspawned(d) :
        /\ worker' = [worker EXCEPT ![<<d, i>>] = "begun"]
        /\ pc' = [pc EXCEPT ![d] = IF Unspawned(d) = {i} THEN "agent" ELSE "starting"]
  BY DEF Spawn, Become, Goto
<1>2. pc[d] = "starting" /\ UNCHANGED <<joined, stopped, started, row, failures>>
  BY DEF Spawn
<1>3. <<d, i>> \in Workers /\ worker[<<d, i>>] = "none"
  BY ThreadsOf DEF Unspawned
<1>. DEFINE label == IF Unspawned(d) = {i} THEN "agent" ELSE "starting"
<1>4. /\ label \in {"starting", "agent"} /\ pc' = [pc EXCEPT ![d] = label]
      /\ \A x \in Workers : worker'[x] = IF x = <<d, i>> THEN "begun" ELSE worker[x]
  BY <1>1, <1>3 DEF IInv, TypeOK
<1>. HIDE DEF label
<1>5. /\ \A e \in Demos : pc'[e] = IF e = d THEN label ELSE pc[e]
      /\ \A e \in Demos : Shared(e) => Shared(e)'
      /\ Held'
  <2>1. pc' = [pc EXCEPT ![d] = label] /\ row' = row
    BY <1>2, <1>4
  <2>2. label \in {"starting", "agent", "joining", "answered", "failed"}
    BY <1>4
  <2>3. \A x \in Workers : worker'[x] = worker[x] \/ (worker[x] = "none" /\ worker'[x] = "begun")
    BY <1>3, <1>4
  <2>. QED  BY <2>1, <2>2, <2>3, RequestKeeps
<1>6. TypeOK'
  BY <1>1, <1>2, <1>4 DEF IInv, TypeOK
<1>7. Progress'
  BY <1>2, <1>4, <1>5 DEF IInv, Progress
<1>8. Joined'
  <2>1. ASSUME NEW e \in Demos, NEW j \in 1..joined[e]
        PROVE  worker'[<<e, j>>] = "closed" \/ e \in SlowDemos \/ Shared(e)'
    <3>1. joined[e] \in 0..Threading(e)
      BY ThreadsOf DEF IInv, TypeOK
    <3>2. j \in Threads(e) /\ <<e, j>> \in Workers
      BY <3>1, ThreadsOf
    <3>. QED  BY <1>3, <1>4, <1>5, <3>2 DEF IInv, Joined
  <2>. QED  BY <1>2, <2>1 DEF Joined
<1>9. Begun' /\ Asleep'
  BY <1>3, <1>4, <1>5, WorkersOf DEF IInv, Begun, Asleep
<1>10. Stopped'
  BY <1>2, <1>4, <1>5 DEF IInv, Stopped
<1>. QED  BY <1>5, <1>6, <1>7, <1>8, <1>9, <1>10 DEF IInv

(* Why a thread that join() gives up on is excused.                        *)
LEMMA BusyExcused ==
  ASSUME IInv, NEW d \in Demos, d \in stopped, NEW i \in Threads(d), Busy(<<d, i>>)
  PROVE  d \in SlowDemos \/ Shared(d)
<1>0. <<d, i>> \in Workers
  BY ThreadsOf
<1>1. CASE worker[<<d, i>>] = "sleeping"
  BY <1>0, <1>1 DEF IInv, Asleep
<1>2. ASSUME <<d, i>> \in Contenders, row \in Workers \ Waiters, row[1] \notin stopped
      PROVE  Shared(d)
  <2>1. d \in LockDemos
    BY <1>2 DEF Contenders
  <2>2. row # None
    BY <1>2, ChaosAssumption, WorkersOf, ThreadsOf
  <2>3. row \in Contenders /\ row[1] \in LockDemos
    BY <2>2 DEF IInv, TypeOK, Contenders
  <2>4. pc[row[1]] # "idle"
    BY <1>2, <2>2 DEF IInv, Held, Begun
  <2>. QED  BY <1>2, <2>1, <2>3, <2>4 DEF Shared
<1>. QED  BY <1>1, <1>2 DEF Busy

LEMMA JoinStep ==
  ASSUME IInv, NEW d \in Demos, Join(d)
  PROVE  IInv'
<1>. DEFINE n == joined[d] + 1
            label == IF joined[d] + 2 \in Threads(d) THEN "joining" ELSE "answered"
<1>1. /\ pc[d] = "joining" /\ (worker[<<d, n>>] = "closed" \/ Busy(<<d, n>>))
      /\ joined' = [joined EXCEPT ![d] = n]
      /\ pc' = [pc EXCEPT ![d] = label]
      /\ UNCHANGED <<stopped, started, worker, row, failures>>
  BY DEF Join, Goto
<1>2. joined[d] \in Nat /\ joined[d] < Threading(d) /\ Threads(d) = 1..Threading(d)
      /\ Threading(d) \in Nat /\ Cardinality(Threads(d)) = Threading(d)
  BY <1>1, ThreadsOf DEF IInv, TypeOK, Progress
<1>3. n \in Threads(d) /\ n \in 1..Threading(d)
      /\ (label = "joining" => n < Threading(d)) /\ (label = "answered" => n = Threading(d))
  BY <1>2
<1>4. label \in {"joining", "answered"}
  OBVIOUS
<1>. HIDE DEF n, label
<1>5. /\ \A e \in Demos : pc'[e] = IF e = d THEN label ELSE pc[e]
      /\ \A e \in Demos : Shared(e) => Shared(e)'
      /\ Held'
  <2>1. pc' = [pc EXCEPT ![d] = label] /\ row' = row /\ worker' = worker
    BY <1>1
  <2>2. label \in {"starting", "agent", "joining", "answered", "failed"}
    BY <1>4
  <2>3. \A x \in Workers : worker'[x] = worker[x] \/ (worker[x] = "none" /\ worker'[x] = "begun")
    BY <2>1
  <2>. QED  BY <2>1, <2>2, <2>3, RequestKeeps
<1>6. \A e \in Demos : joined'[e] = IF e = d THEN n ELSE joined[e]
  BY <1>1 DEF IInv, TypeOK
<1>7. TypeOK'
  <2>1. joined' \in [Demos -> Nat] /\ \A e \in Demos : joined'[e] <= Cardinality(Threads(e))
    BY <1>1, <1>2, <1>3, <1>6 DEF IInv, TypeOK
  <2>. QED  BY <1>1, <1>4, <2>1 DEF IInv, TypeOK
<1>8. Progress'
  BY <1>1, <1>3, <1>4, <1>5, <1>6 DEF IInv, Progress
<1>9. Joined'
  <2>1. worker[<<d, n>>] = "closed" \/ d \in SlowDemos \/ Shared(d)
    BY <1>1, <1>3, BusyExcused DEF IInv, Stopped
  <2>2. ASSUME NEW e \in Demos, NEW j \in 1..joined'[e]
        PROVE  worker[<<e, j>>] = "closed" \/ e \in SlowDemos \/ Shared(e)
    <3>1. j \in 1..joined[e] \/ (e = d /\ j = n)
      BY <1>2, <1>6 DEF n
    <3>. QED  BY <2>1, <3>1 DEF IInv, Joined
  <2>. QED  BY <1>1, <1>5, <2>2 DEF Joined
<1>10. Begun' /\ Asleep' /\ Stopped'
  BY <1>1, <1>4, <1>5, WorkersOf DEF IInv, Begun, Asleep, Stopped
<1>. QED  BY <1>5, <1>7, <1>8, <1>9, <1>10 DEF IInv

-----------------------------------------------------------------------------
(* A step of a thread: it is not closed before, and has begun.             *)
LEMMA WorkStep ==
  ASSUME IInv, NEW x \in Workers, Work(x)
  PROVE  IInv'
<1>0. x[1] \in Demos /\ x # None
  BY WorkersOf, ThreadsOf, ChaosAssumption
<1>1. PICK label \in {"connected", "sleeping", "holding", "finished", "closing", "closed"} :
        /\ worker' = [worker EXCEPT ![x] = label]
        /\ worker[x] \notin {"none", "closed"}
        /\ label = "sleeping" => x[1] \in SlowDemos
        /\ label = "holding" => x[1] \notin SlowDemos
        /\ x \in Contenders /\ label \in {"holding", "finished"} => row' = x
        /\ row \notin {x, None} => row' = row
        /\ worker[x] \in {"holding", "finished"} /\ row = x =>
             label = "finished" \/ row' = None
        /\ row' \in {row, None} \/ (row' = x /\ label \in {"holding", "finished"})
        /\ row' \in Contenders \cup {None}
        /\ started' \subseteq LockDemos
        /\ UNCHANGED <<pc, joined, stopped, failures>>
  <2>1. CASE Connect(x) \/ ConnectFails(x)
    BY <2>1 DEF Connect, ConnectFails, Become, IInv, TypeOK
  <2>2. CASE Settle(x)
    BY <2>2 DEF Settle, Sleeps, Become, IInv, TypeOK
  <2>3. CASE Lock(x)
    BY <2>3, ChaosAssumption DEF Lock, Become, IInv, TypeOK, Contenders
  <2>4. CASE LetGo(x)
    <3>1. x \in Contenders => row = x
      BY <2>4, ChaosAssumption DEF LetGo, IInv, Held, Asleep, Contenders
    <3>. QED  BY <2>4, <3>1 DEF LetGo, Become, IInv, TypeOK
  <2>5. CASE Rollback(x)
    BY <2>5 DEF Rollback, Become, IInv, TypeOK
  <2>6. CASE Close(x)
    BY <2>6 DEF Close, Become, IInv, TypeOK
  <2>. QED  BY <2>1, <2>2, <2>3, <2>4, <2>5, <2>6 DEF Work
<1>2. \A y \in Workers : worker'[y] = IF y = x THEN label ELSE worker[y]
  BY <1>1 DEF IInv, TypeOK
<1>3. TypeOK'
  BY <1>1 DEF IInv, TypeOK
<1>4. Progress' /\ Stopped'
  BY <1>1 DEF IInv, Progress, Stopped
<1>5. Joined'
  <2>1. ASSUME NEW e \in Demos, NEW j \in 1..joined[e]
        PROVE  worker'[<<e, j>>] = "closed" \/ e \in SlowDemos \/ Shared(e)
    <3>1. joined[e] \in 0..Threading(e)
      BY ThreadsOf DEF IInv, TypeOK
    <3>2. <<e, j>> \in Workers
      BY <3>1, ThreadsOf
    <3>. QED  BY <1>1, <1>2, <3>2 DEF IInv, Joined
  <2>. QED  BY <1>1, <2>1 DEF Joined, Shared
<1>6. Begun' /\ Asleep'
  BY <1>1, <1>2 DEF IInv, Begun, Asleep
<1>7. Held'
  <2>1. ASSUME row' # None PROVE worker'[row'] \in {"holding", "finished"}
    <3>1. CASE row' = x /\ label \in {"holding", "finished"}
      BY <1>2, <3>1
    <3>2. CASE row' = row
      <4>1. row \in Workers /\ worker[row] \in {"holding", "finished"}
        BY <2>1, <3>2 DEF IInv, TypeOK, Held, Contenders
      <4>. QED  BY <1>1, <1>2, <2>1, <3>2, <4>1
    <3>. QED  BY <1>1, <2>1, <3>1, <3>2
  <2>2. ASSUME NEW y \in Contenders, worker'[y] \in {"holding", "finished"} PROVE row' = y
    <3>1. CASE y = x
      BY <1>1, <1>2, <2>2, <3>1
    <3>2. CASE y # x
      <4>1. row = y /\ y # None
        BY <1>2, <2>2, <3>2, WorkersOf, ThreadsOf, ChaosAssumption DEF IInv, Held, Contenders
      <4>. QED  BY <1>1, <3>2, <4>1
    <3>. QED  BY <3>1, <3>2
  <2>. QED  BY <2>1, <2>2 DEF Held
<1>. QED  BY <1>3, <1>4, <1>5, <1>6, <1>7 DEF IInv

(* The invariant holds in every reachable state of the demos.              *)
THEOREM Invariance == Spec => []IInv
<1>1. IInv /\ [Next]_vars => IInv'
  <2>. SUFFICES ASSUME IInv, [Next]_vars PROVE IInv'
    OBVIOUS
  <2>1. CASE UNCHANGED vars
    BY <2>1 DEF vars, IInv, TypeOK, Progress, Joined, Shared, Begun, Stopped, Held, Asleep
  <2>. QED  BY <2>1, PlainStep, SpawnStep, JoinStep, WorkStep DEF Next, Serve
<1>. QED  BY <1>1, InitInv, PTL DEF Spec

(* Type correctness of the demos, however many overlap (chaos.py).         *)
THEOREM TypeCorrect == Spec => []TypeOK
<1>1. IInv => TypeOK
  BY DEF IInv
<1>. QED  BY <1>1, Invariance, PTL

(* backend.py:145-147, a demo never leaves sessions dangling: true, for    *)
(* any number of demos, of idle demos, and of lock demos that shared the   *)
(* row with no other.                                                      *)
THEOREM LittleLeftBehind == Spec => []LeftBehind
<1>1. IInv => LeftBehind
  <2>. SUFFICES ASSUME IInv, NEW d \in Demos, pc[d] = "answered", d \notin SlowDemos, ~Shared(d),
                       NEW i \in Threads(d)
                PROVE  worker[<<d, i>>] = "closed" /\ row # <<d, i>>
    BY DEF LeftBehind, Shared
  <2>1. i \in 1..joined[d] /\ <<d, i>> \in Workers
    BY ThreadsOf DEF IInv, Progress
  <2>2. worker[<<d, i>>] = "closed"
    BY <2>1 DEF IInv, Joined
  <2>3. <<d, i>> # None
    BY <2>1, ThreadsOf, ChaosAssumption
  <2>. QED  BY <2>2, <2>3 DEF IInv, Held
<1>. QED  BY <1>1, Invariance, PTL

-----------------------------------------------------------------------------
(* The evaluation.  A run of it is a demo like any other.                  *)

LEMMA PlanOf ==
  ASSUME NEW i \in 1..Len(Plan)
  PROVE  Plan[i] \in Planned /\ Plan[i] \in Demos
<1>1. Plan[i] \in Planned
  BY DEF Planned
<1>2. Plan \in Seq(Demos)
  BY PlanAssumption
<1>3. Plan[i] \in Demos
  BY <1>2, ElementOfSeq
<1>. QED  BY <1>1, <1>3

(* No run is planned twice.                                                *)
LEMMA PlanOnce ==
  ASSUME NEW i \in 1..Len(Plan), NEW j \in 1..Len(Plan), Plan[i] = Plan[j]
  PROVE  i = j
<1>. DEFINE N == 1..Len(Plan)
<1>0. Plan \in Seq(Demos) /\ Cardinality(Planned) = Len(Plan)
  BY PlanAssumption
<1>1. Len(Plan) \in Nat /\ IsFiniteSet(N) /\ Cardinality(N) = Len(Plan)
  <2>1. Len(Plan) \in Nat
    BY <1>0
  <2>2. IsFiniteSet(1..Len(Plan))
        /\ Cardinality(1..Len(Plan)) = IF 1 > Len(Plan) THEN 0 ELSE Len(Plan) - 1 + 1
    BY <2>1, FS_Interval
  <2>. QED  BY <2>1, <2>2
<1>2. Plan \in Surjection(N, Planned)
  <2>1. Plan = [k \in N |-> Plan[k]]
    BY <1>0
  <2>2. Plan \in [N -> Planned] /\ \A y \in Planned : \E k \in N : Plan[k] = y
    BY <2>1, PlanOf DEF Planned
  <2>. QED  BY <2>2 DEF Surjection
<1>3. IsFiniteSet(Planned) /\ Cardinality(Planned) = Cardinality(N)
  BY <1>1, <1>2, <1>0, FS_Surjection
<1>4. Plan \in Injection(N, Planned)
  BY <1>1, <1>2, <1>3, FS_SurjSameCardinalityImpliesInj
<1>. QED  BY <1>4 DEF Injection, IsInjective

(* Every step of an evaluation is a step of the demos, or none of theirs.  *)
THEOREM EvalRefines == EvalSpec => Spec
<1>1. EvalInit => Init
  BY DEF EvalInit
<1>2. ASSUME [EvalNext]_allVars PROVE [Next]_vars
  <2>1. ASSUME NEW i \in 1..Len(Plan), Begin(i) PROVE Next
    BY <2>1, PlanOf DEF Begin, Next
  <2>2. ASSUME NEW d \in Planned, Wake(d) \/ Look(d) \/ Conclude(d) PROVE [Next]_vars
    <3>1. d \in Demos
      BY PlanOf DEF Planned
    <3>. QED  BY <2>2, <3>1 DEF Wake, Look, Conclude, Next, Serve
  <2>3. ASSUME NEW d \in Planned, Spawn(d) \/ Join(d) PROVE Next
    <3>1. d \in Demos
      BY PlanOf DEF Planned
    <3>. QED  BY <2>3, <3>1 DEF Next, Serve
  <2>4. ASSUME Summarise PROVE UNCHANGED vars
    BY <2>4 DEF Summarise
  <2>5. ASSUME NEW d \in Demos, Request(d) \/ Serve(d) \/ SpawnFails(d) PROVE Next
    BY <2>5 DEF Next
  <2>6. ASSUME NEW x \in Workers, Session(x) PROVE Next
    BY <2>6 DEF Session, Next
  <2>7. UNCHANGED allVars => UNCHANGED vars
    BY DEF allVars
  <2>. QED  BY <1>2, <2>1, <2>2, <2>3, <2>4, <2>5, <2>6, <2>7 DEF EvalNext
<1>. QED  BY <1>1, <1>2, PTL DEF EvalSpec, Spec

(* The runs are taken in order, one at a time.                             *)
Order ==
  \A i \in 1..Len(Plan) :
    /\ i <= Len(scores) <=> pc[Plan[i]] \in {"joining", "answered"}
    /\ i > Len(scores) + 1 => pc[Plan[i]] = "idle"

Looking ==
  IF looks > 0 THEN Len(scores) < Len(Plan) /\ pc[Plan[Len(scores) + 1]] = "agent"
  ELSE credit = {} /\ ~settled

Scored == \A i \in 1..Len(scores) : scores[i].named <=> scores[i].hits >= 2

Verdict == exit \in {"ok", "failed"} => Len(scores) = Len(Plan) /\ exit = Summary

(* What is left of a failure in place while its injector runs.             *)
Standing(d) ==
  /\ d \in SlowDemos => worker[<<d, 1>>] = "sleeping" \/ slowly
  /\ d \in LockDemos => worker[<<d, 1>>] = "holding" /\ worker[<<d, 2>>] = "connected"
  /\ d \in IdleDemos => \A i \in Threads(d) : worker[<<d, i>>] = "holding"

RuleOf(d) == IF d \in IdleDemos THEN 1 ELSE IF d \in SlowDemos THEN 2 ELSE 3

Found ==
  settled => LET d == Plan[Len(scores) + 1]
             IN  Standing(d) /\ (looks > RuleOf(d) => credit # {} /\ Telling(d) \subseteq credit)

EInv == IInv /\ EvalTypeOK /\ Order /\ Looking /\ Scored /\ Verdict /\ Found

LEMMA Lengths ==
  ASSUME EvalTypeOK
  PROVE  /\ Len(Plan) \in Nat /\ Len(scores) \in Nat /\ Len(scores) <= Len(Plan)
         /\ looks \in 0..4
<1>1. Plan \in Seq(Demos) /\ scores \in Seq([hits : 0..3, named : BOOLEAN])
  BY PlanAssumption DEF EvalTypeOK
<1>2. Len(Plan) \in Nat /\ Len(scores) \in Nat
  BY <1>1
<1>3. looks \in 0..4
  BY DEF EvalTypeOK, Playbook
<1>. QED  BY <1>2, <1>3 DEF EvalTypeOK

(* The run that is under way is the first without a score.                 *)
LEMMA Current ==
  ASSUME EvalTypeOK, Order, NEW d \in Planned, pc[d] \in {"starting", "agent", "failed"}
  PROVE  Len(scores) + 1 \in 1..Len(Plan) /\ d = Plan[Len(scores) + 1]
<1>1. PICK i \in 1..Len(Plan) : d = Plan[i]
  BY DEF Planned
<1>2. ~(i <= Len(scores)) /\ ~(i > Len(scores) + 1)
  BY <1>1 DEF Order
<1>. QED  BY <1>1, <1>2, Lengths

LEMMA EvalInitInv == EvalInit => EInv
<1>. SUFFICES ASSUME EvalInit PROVE EInv
  OBVIOUS
<1>1. IInv
  BY InitInv DEF EvalInit
<1>2. /\ scores = << >> /\ looks = 0 /\ credit = {} /\ others = FALSE /\ settled = FALSE
      /\ slowly \in BOOLEAN /\ exit = None /\ pc = [d \in Demos |-> "idle"]
  BY DEF EvalInit, Init
<1>3. Plan \in Seq(Demos) /\ Len(Plan) \in Nat
  BY PlanAssumption
<1>4. EvalTypeOK
  <2>1. scores \in Seq([hits : 0..3, named : BOOLEAN]) /\ Len(scores) = 0
    BY <1>2
  <2>2. looks \in 0..(Len(Playbook) + 1)
    BY <1>2 DEF Playbook
  <2>3. TypeOK /\ Len(scores) <= Len(Plan)
    BY <1>1, <1>3, <2>1 DEF IInv
  <2>. QED  BY <1>2, <2>1, <2>2, <2>3 DEF EvalTypeOK
<1>5. Order
  BY <1>2, <1>3, PlanOf DEF Order
<1>6. Looking /\ Scored /\ Verdict /\ Found
  BY <1>2, PlanAssumption DEF Looking, Scored, Verdict, Found
<1>. QED  BY <1>1, <1>4, <1>5, <1>6 DEF EInv

(* Steps that leave the runner alone keep the invariant if the failure     *)
(* stays and the requests stay in order.                                   *)
LEMMA RunnerKeeps ==
  ASSUME EInv, IInv', UNCHANGED <<scores, engine, exit>>, slowly' \in BOOLEAN,
         Order', looks > 0 => pc'[Plan[Len(scores) + 1]] = "agent",
         \A d \in Demos : settled /\ d = Plan[Len(scores) + 1] => Standing(d)'
  PROVE  EInv'
<1>1. UNCHANGED <<scores, looks, credit, others, settled, exit>>
  BY DEF engine
<1>2. EvalTypeOK'
  BY <1>1 DEF EInv, EvalTypeOK, IInv
<1>3. Looking' /\ Scored'
  BY <1>1 DEF EInv, Looking, Scored
<1>4. Verdict'
  <2>1. Summary' = Summary
    BY <1>1 DEF Summary
  <2>. QED  BY <1>1, <2>1 DEF EInv, Verdict
<1>5. ASSUME settled PROVE Found'
  <2>1. EvalTypeOK /\ Found /\ Len(scores) < Len(Plan)
    BY <1>5 DEF EInv, Looking
  <2>2. Plan[Len(scores) + 1] \in Demos
    <3>1. Len(scores) + 1 \in 1..Len(Plan)
      BY <2>1, Lengths
    <3>. QED  BY <3>1, PlanOf
  <2>3. PICK d \in Demos : d = Plan[Len(scores) + 1]
    BY <2>2
  <2>4. Standing(d)' /\ (looks > RuleOf(d) => credit # {} /\ Telling(d) \subseteq credit)
    BY <1>5, <2>1, <2>3 DEF Found
  <2>5. settled' => /\ d = Plan[Len(scores') + 1]
                    /\ looks' > RuleOf(d) => credit' # {} /\ Telling(d) \subseteq credit'
    BY <1>1, <2>3, <2>4
  <2>. QED  BY <2>4, <2>5 DEF Found, Standing
<1>6. Found'
  BY <1>1, <1>5 DEF Found
<1>. QED  BY <1>2, <1>3, <1>4, <1>6 DEF EInv

(* The steps of requests that keep the order of the runs.                  *)
LEMMA OrderKept ==
  ASSUME EInv, NEW d \in Demos, NEW label, pc' = [pc EXCEPT ![d] = label], scores' = scores,
         \/ d \notin Planned
         \/ /\ Len(scores) < Len(Plan) /\ d = Plan[Len(scores) + 1]
            /\ pc[d] = "idle" /\ label = "starting"
         \/ pc[d] = "starting" /\ label \in {"starting", "agent", "failed"}
         \/ pc[d] = "joining" /\ label \in {"joining", "answered"}
  PROVE  Order' /\ (looks > 0 => pc'[Plan[Len(scores) + 1]] = "agent")
<1>0. \A e \in Demos : pc'[e] = IF e = d THEN label ELSE pc[e]
  BY DEF EInv, IInv, TypeOK
<1>1. EvalTypeOK /\ Order /\ Looking
  BY DEF EInv
<1>2. ASSUME NEW i \in 1..Len(Plan)
      PROVE  /\ i <= Len(scores) <=> pc'[Plan[i]] \in {"joining", "answered"}
             /\ i > Len(scores) + 1 => pc'[Plan[i]] = "idle"
  <2>1. CASE Plan[i] # d
    BY <1>0, <1>1, <2>1, PlanOf DEF Order
  <2>2. CASE Plan[i] = d /\ pc[d] = "idle" /\ d = Plan[Len(scores) + 1] /\ Len(scores) < Len(Plan)
             /\ label = "starting"
    <3>1. i = Len(scores) + 1
      BY <1>1, <2>2, Lengths, PlanOnce
    <3>. QED  BY <1>0, <1>1, <2>2, <3>1, Lengths
  <2>3. CASE Plan[i] = d /\ pc[d] = "starting" /\ label \in {"starting", "agent", "failed"}
    <3>1. ~(i <= Len(scores)) /\ ~(i > Len(scores) + 1)
      BY <1>1, <2>3 DEF Order
    <3>. QED  BY <1>0, <2>3, <3>1
  <2>4. CASE Plan[i] = d /\ pc[d] = "joining" /\ label \in {"joining", "answered"}
    <3>1. i <= Len(scores) /\ ~(i > Len(scores) + 1)
      BY <1>1, <2>4, Lengths DEF Order
    <3>. QED  BY <1>0, <2>4, <3>1
  <2>5. Plan[i] \in Planned
    BY PlanOf
  <2>. QED  BY <2>1, <2>2, <2>3, <2>4, <2>5
<1>3. Order'
  BY <1>2 DEF Order
<1>4. ASSUME looks > 0 PROVE pc'[Plan[Len(scores) + 1]] = "agent"
  <2>1. Len(scores) < Len(Plan) /\ pc[Plan[Len(scores) + 1]] = "agent"
    BY <1>1, <1>4 DEF Looking
  <2>2. Len(scores) + 1 \in 1..Len(Plan)
    BY <1>1, <2>1, Lengths
  <2>3. Plan[Len(scores) + 1] \in Planned \cap Demos
    BY <2>2, PlanOf
  <2>4. Plan[Len(scores) + 1] # d
    BY <2>1, <2>3
  <2>. QED  BY <1>0, <2>1, <2>3, <2>4
<1>. QED  BY <1>3, <1>4

-----------------------------------------------------------------------------
(* What the tools see of a failure that is in place.                       *)

LEMMA Sessions == IsFiniteSet(Workers)
<1>1. IsFiniteSet(Demos) /\ IdleSessions \in Nat
  BY PlanAssumption, ChaosAssumption
<1>2. IsFiniteSet(1..(IdleSessions + 2))
  BY <1>1, FS_Interval
<1>3. IsFiniteSet(Demos \X (1..(IdleSessions + 2)))
  BY <1>1, <1>2, FS_Product
<1>4. Workers \subseteq Demos \X (1..(IdleSessions + 2))
  <2>. SUFFICES ASSUME NEW x \in Workers PROVE x \in Demos \X (1..(IdleSessions + 2))
    OBVIOUS
  <2>1. x[1] \in Demos /\ x[2] \in Threads(x[1]) /\ x = <<x[1], x[2]>>
    BY WorkersOf
  <2>2. Threads(x[1]) \subseteq 1..(IdleSessions + 2)
    BY <1>1 DEF Threads
  <2>. QED  BY <2>1, <2>2
<1>. QED  BY <1>3, <1>4, FS_Subset

(* The sessions of an idle run are enough to alarm the engine.             *)
LEMMA IdleAlarms ==
  ASSUME NEW d \in IdleDemos, Standing(d)
  PROVE  /\ Alarming(Cardinality(Selected("idle")))
         /\ SessionsOf(d) \subseteq Selected("idle") /\ <<d, 1>> \in Selected("idle")
<1>0. d \in Demos /\ Threading(d) = IdleSessions
  BY ChaosAssumption DEF Demos, Threading
<1>1. /\ Threads(d) = 1..Threading(d) /\ Threading(d) \in Nat \ {0}
      /\ Cardinality(Threads(d)) = Threading(d)
      /\ \A i \in Threads(d) : <<d, i>> \in Workers
  BY <1>0, ThreadsOf
<1>. DEFINE mine == {d} \X Threads(d)
<1>2. mine \subseteq Selected("idle") /\ Selected("idle") \subseteq Workers
  BY <1>1 DEF Selected, Standing, Open
<1>3. IsFiniteSet(Threads(d)) /\ IsFiniteSet({d}) /\ Cardinality({d}) = 1
  <2>1. IsFiniteSet(1..Threading(d))
    BY <1>1, FS_Interval
  <2>. QED  BY <1>1, <2>1, FS_Singleton
<1>4. Cardinality(mine) = Cardinality({d}) * Cardinality(Threads(d))
  BY <1>3, FS_Product
<1>5. IsFiniteSet(Selected("idle"))
  BY <1>2, Sessions, FS_Subset
<1>6. Cardinality(mine) <= Cardinality(Selected("idle")) /\ Cardinality(Selected("idle")) \in Nat
  BY <1>2, <1>5, FS_Subset, FS_CardinalityType
<1>7. Cardinality(mine) = IdleSessions
  BY <1>0, <1>1, <1>3, <1>4
<1>8. Alarming(Cardinality(Selected("idle")))
  <2>1. IdleAlarm \in Int /\ IdleAlarm <= IdleSessions /\ IdleSessions \in Nat
    BY PlanAssumption, ChaosAssumption
  <2>. QED  BY <1>6, <1>7, <2>1 DEF Alarming
<1>9. <<d, 1>> \in Selected("idle")
  BY <1>1, <1>2
<1>. QED  BY <1>2, <1>8, <1>9 DEF SessionsOf

(* While the failure of a run stands, the tool for it shows the sessions   *)
(* that tell of it, or what they have left in pg_stat_statements.          *)
LEMMA ToolShows ==
  ASSUME EInv, NEW d \in Demos, settled, Standing(d), NEW shown \in Answers(d, Kind(d))
  PROVE  shown # {} /\ Telling(d) \subseteq shown
<1>0. <<d, 1>> \in Workers /\ (d \in LockDemos => <<d, 2>> \in Workers)
  <2>1. 1 \in Threads(d) /\ (d \in LockDemos => 2 \in Threads(d))
    BY ChaosAssumption DEF Threads
  <2>. QED  BY <2>1, ThreadsOf
<1>1. CASE d \in IdleDemos
  <2>1. Kind(d) = "idle"
    BY <1>1, ChaosAssumption DEF Kind
  <2>2. /\ shown = Selected("idle") /\ SessionsOf(d) \subseteq Selected("idle")
        /\ <<d, 1>> \in Selected("idle")
    BY <1>1, <2>1, IdleAlarms DEF Answers
  <2>. QED  BY <2>2 DEF Telling
<1>2. CASE d \in SlowDemos
  <2>1. Kind(d) = "slow" /\ Telling(d) = {}
    BY <1>2 DEF Kind, Telling
  <2>2. Selected("slow") \cap SessionsOf(d) \subseteq shown /\ (slowly => Past \in shown)
    BY <2>1 DEF Answers
  <2>3. CASE slowly
    BY <2>1, <2>2, <2>3
  <2>4. CASE worker[<<d, 1>>] = "sleeping"
    <3>1. <<d, 1>> \in Selected("slow")
      BY <1>0, <2>4 DEF Selected, NotIdle
    <3>2. <<d, 1>> \in SessionsOf(d)
      BY <1>2 DEF SessionsOf, Threads
    <3>. QED  BY <2>1, <2>2, <3>1, <3>2
  <2>. QED  BY <1>2, <2>3, <2>4 DEF Standing
<1>3. CASE d \in LockDemos
  <2>1. Kind(d) = "lock"
    BY <1>3, ChaosAssumption DEF Kind
  <2>2. Selected("lock") \cap SessionsOf(d) \subseteq shown
    BY <2>1 DEF Answers
  <2>3. worker[<<d, 1>>] = "holding" /\ worker[<<d, 2>>] = "connected"
    BY <1>3 DEF Standing
  <2>4. <<d, 1>> \in Contenders /\ <<d, 2>> \in Contenders /\ <<d, 1>> # None
    BY <1>0, <1>3, ThreadsOf, WorkersOf, ChaosAssumption DEF Contenders
  <2>5. row # None
    BY <2>3, <2>4 DEF EInv, IInv, Held
  <2>6. <<d, 2>> \in Selected("lock")
    BY <1>0, <1>3, <2>3, <2>4, <2>5 DEF Selected, Blocked
  <2>7. <<d, 2>> \in SessionsOf(d)
    BY <1>3, ChaosAssumption DEF SessionsOf, Threads
  <2>8. ASSUME NEW x \in Telling(d) PROVE x = <<d, 2>>
    <3>1. x \in SessionsOf(d) /\ (x \in Contenders => x \in Waiters)
      BY <2>8 DEF Telling
    <3>2. x[1] = d /\ x = <<d, x[2]>> /\ x[2] \in Threads(d)
      BY <3>1 DEF SessionsOf
    <3>3. x \in Contenders
      BY <1>3, <3>2, ThreadsOf DEF Contenders
    <3>. QED  BY <3>1, <3>2, <3>3 DEF Waiters
  <2>. QED  BY <2>2, <2>6, <2>7, <2>8
<1>. QED  BY <1>1, <1>2, <1>3 DEF Demos

(* A failure in place stands, and no step of a session takes it away while *)
(* its injector runs: what ends is recorded as slow.                       *)
LEMMA InPlaceStands ==
  ASSUME EInv, NEW d \in Demos, InPlace(d)
  PROVE  Standing(d)
<1>1. \A i \in Threads(d) :
        IF <<d, i>> \in Waiters THEN Blocked(<<d, i>>)
        ELSE worker[<<d, i>>] \in {"sleeping", "holding"}
  BY DEF InPlace
<1>2. \A i \in Threads(d) : <<d, i>> \in Workers /\ (worker[<<d, i>>] = "sleeping" => d \in SlowDemos)
  BY ThreadsOf DEF EInv, IInv, Asleep
<1>3. ASSUME d \in SlowDemos PROVE worker[<<d, 1>>] = "sleeping" \/ slowly
  <2>1. 1 \in Threads(d) /\ <<d, 1>> \notin Waiters
    BY <1>3 DEF Threads, Waiters
  <2>2. worker[<<d, 1>>] \in {"sleeping", "holding"}
    BY <1>1, <2>1
  <2>. QED  BY <1>2, <1>3, <2>1, <2>2 DEF EInv, IInv, Asleep
<1>4. ASSUME d \in LockDemos PROVE worker[<<d, 1>>] = "holding" /\ worker[<<d, 2>>] = "connected"
  <2>1. d \notin SlowDemos /\ 1 \in Threads(d) /\ 2 \in Threads(d)
    BY <1>4, ChaosAssumption DEF Threads
  <2>2. <<d, 1>> \notin Waiters /\ <<d, 2>> \in Waiters
    BY <1>2, <1>4, <2>1 DEF Waiters, Contenders
  <2>. QED  BY <1>1, <1>2, <2>1, <2>2 DEF Blocked
<1>5. ASSUME d \in IdleDemos, NEW i \in Threads(d) PROVE worker[<<d, i>>] = "holding"
  <2>1. d \notin SlowDemos /\ <<d, i>> \notin Waiters
    BY <1>5, ChaosAssumption DEF Waiters, Contenders
  <2>. QED  BY <1>1, <1>2, <2>1, <1>5
<1>. QED  BY <1>3, <1>4, <1>5 DEF Standing

LEMMA StandsStill ==
  ASSUME EInv, NEW d \in Demos, Standing(d), pc[d] = "agent",
         NEW x \in Workers, Work(x), Recorded(x)
  PROVE  Standing(d)'
<1>1. PICK label : worker' = [worker EXCEPT ![x] = label]
        /\ (worker[x] = "sleeping" => label = "finished")
        /\ (worker[x] = "holding" => x[1] \in stopped)
        /\ (worker[x] = "connected" /\ x \in Contenders => row = None)
  <2>1. CASE Connect(x) \/ ConnectFails(x) \/ Settle(x) \/ Rollback(x) \/ Close(x)
    BY <2>1 DEF Connect, ConnectFails, Settle, Rollback, Close, Become
  <2>2. CASE Lock(x)
    BY <2>2 DEF Lock, Become
  <2>3. CASE LetGo(x)
    BY <2>3 DEF LetGo, SeesStop, Become
  <2>. QED  BY <2>1, <2>2, <2>3 DEF Work
<1>2. \A y \in Workers : worker'[y] = IF y = x THEN label ELSE worker[y]
  BY <1>1 DEF EInv, IInv, TypeOK
<1>3. d \notin stopped /\ \A i \in Threads(d) : <<d, i>> \in Workers
  BY ThreadsOf DEF EInv, IInv, Stopped
<1>4. ASSUME NEW i \in Threads(d), worker[<<d, i>>] = "holding"
      PROVE  worker'[<<d, i>>] = "holding"
  BY <1>1, <1>2, <1>3, <1>4
<1>5. ASSUME d \in SlowDemos PROVE worker'[<<d, 1>>] = "sleeping" \/ slowly'
  <2>1. <<d, 1>> \in Workers
    BY <1>3, <1>5 DEF Threads
  <2>2. slowly => slowly'
    BY DEF Recorded
  <2>3. CASE worker[<<d, 1>>] = "sleeping" /\ x = <<d, 1>>
    BY <1>1, <1>2, <2>1, <2>3 DEF Recorded
  <2>. QED  BY <1>2, <1>5, <2>1, <2>2, <2>3 DEF Standing
<1>6. ASSUME d \in LockDemos PROVE worker'[<<d, 1>>] = "holding" /\ worker'[<<d, 2>>] = "connected"
  <2>1. 1 \in Threads(d) /\ 2 \in Threads(d)
    BY <1>6, ChaosAssumption DEF Threads
  <2>2. worker[<<d, 1>>] = "holding" /\ worker[<<d, 2>>] = "connected"
    BY <1>6 DEF Standing
  <2>3. <<d, 1>> \in Contenders /\ <<d, 2>> \in Contenders /\ <<d, 1>> # None
    BY <1>3, <1>6, <2>1, ThreadsOf, ChaosAssumption DEF Contenders
  <2>4. row # None
    BY <2>2, <2>3 DEF EInv, IInv, Held
  <2>. QED  BY <1>1, <1>2, <1>4, <2>1, <2>2, <2>3, <2>4
<1>. QED  BY <1>4, <1>5, <1>6 DEF Standing

LEMMA SessionStep ==
  ASSUME EInv, IInv', NEW x \in Workers, Session(x)
  PROVE  EInv'
<1>1. /\ Work(x) /\ Recorded(x) /\ UNCHANGED <<scores, engine, exit>>
      /\ pc' = pc
  BY DEF Session, Work, Connect, ConnectFails, Settle, Lock, LetGo, Rollback, Close
<1>2. slowly' \in BOOLEAN
  BY <1>1 DEF Recorded, EInv, EvalTypeOK
<1>3. EvalTypeOK /\ Order /\ Looking /\ Found
  BY DEF EInv
<1>4. Order' /\ (looks > 0 => pc'[Plan[Len(scores) + 1]] = "agent")
  BY <1>1, <1>3 DEF Order, Looking
<1>5. ASSUME settled, NEW d \in Demos, d = Plan[Len(scores) + 1] PROVE Standing(d)'
  <2>1. pc[d] = "agent"
    BY <1>3, <1>5 DEF Looking
  <2>2. Standing(d)
    BY <1>3, <1>5 DEF Found
  <2>. QED  BY <1>1, <2>1, <2>2, StandsStill
<1>. QED  BY <1>1, <1>2, <1>4, <1>5, RunnerKeeps

(* A step of a request that is not the end of a run.                       *)
LEMMA RequestStep ==
  ASSUME EInv, IInv', NEW d \in Demos, UNCHANGED evalVars,
         \/ d \notin Planned /\ (Request(d) \/ AgentEnds(d))
         \/ Len(scores) < Len(Plan) /\ d = Plan[Len(scores) + 1] /\ Request(d)
         \/ Spawn(d) \/ SpawnFails(d) \/ Join(d)
  PROVE  EInv'
<1>1. UNCHANGED <<scores, engine, exit, slowly>>
  BY DEF evalVars
<1>2. PICK label :
        /\ pc' = [pc EXCEPT ![d] = label]
        /\ \/ d \notin Planned
           \/ /\ Len(scores) < Len(Plan) /\ d = Plan[Len(scores) + 1]
              /\ pc[d] = "idle" /\ label = "starting"
           \/ pc[d] = "starting" /\ label \in {"starting", "agent", "failed"}
           \/ pc[d] = "joining" /\ label \in {"joining", "answered"}
  <2>1. CASE Request(d)
    BY <2>1 DEF Request, Goto, Spawn, SpawnFails, Join
  <2>2. CASE AgentEnds(d) /\ d \notin Planned
    BY <2>2 DEF AgentEnds, Goto
  <2>3. CASE Spawn(d)
    BY <2>3 DEF Spawn, Goto
  <2>4. CASE SpawnFails(d)
    BY <2>4 DEF SpawnFails, Goto
  <2>5. CASE Join(d)
    BY <2>5 DEF Join, Goto
  <2>. QED  BY <2>1, <2>2, <2>3, <2>4, <2>5
<1>3. Order' /\ (looks > 0 => pc'[Plan[Len(scores) + 1]] = "agent")
  <2>1. scores' = scores /\ pc' = [pc EXCEPT ![d] = label]
    BY <1>1, <1>2
  <2>. QED  BY <1>2, <2>1, OrderKept
<1>4. \A x \in Workers : worker'[x] = worker[x] \/ (worker[x] = "none" /\ worker'[x] = "begun")
  <2>1. CASE Spawn(d)
    <3>1. PICK i \in Unspawned(d) : worker' = [worker EXCEPT ![<<d, i>>] = "begun"]
      BY <2>1 DEF Spawn, Become
    <3>2. worker[<<d, i>>] = "none"
      BY DEF Unspawned
    <3>. QED  BY <3>1, <3>2 DEF EInv, IInv, TypeOK
  <2>2. CASE worker' = worker
    BY <2>2
  <2>. QED  BY <2>1, <2>2 DEF Request, AgentEnds, SpawnFails, Join
<1>5. ASSUME settled, NEW e \in Demos, e = Plan[Len(scores) + 1] PROVE Standing(e)'
  <2>1. Standing(e)
    BY <1>5 DEF EInv, Found
  <2>2. \A i \in Threads(e) : <<e, i>> \in Workers
    BY ThreadsOf
  <2>3. (e \in SlowDemos => 1 \in Threads(e)) /\ (e \in LockDemos => 1 \in Threads(e) /\ 2 \in Threads(e))
    BY ChaosAssumption DEF Threads
  <2>. QED  BY <1>1, <1>4, <2>1, <2>2, <2>3 DEF Standing
<1>6. slowly' \in BOOLEAN
  BY <1>1 DEF EInv, EvalTypeOK
<1>. QED  BY <1>1, <1>3, <1>5, <1>6, RunnerKeeps

LEMMA BeginStep ==
  ASSUME EInv, IInv', NEW i \in 1..Len(Plan), Begin(i)
  PROVE  EInv'
<1>1. /\ i = Len(scores) + 1 /\ Request(Plan[i]) /\ UNCHANGED evalVars
      /\ Plan[i] \in Demos
  BY PlanOf DEF Begin
<1>2. Len(scores) < Len(Plan)
  BY <1>1, Lengths DEF EInv
<1>3. PICK d \in Demos : d = Plan[Len(scores) + 1] /\ Request(d)
  BY <1>1
<1>. QED  BY <1>1, <1>2, <1>3, RequestStep

LEMMA WakeStep ==
  ASSUME EInv, IInv', NEW d \in Planned, Wake(d)
  PROVE  EInv'
<1>1. /\ pc[d] = "agent" /\ looks = 0 /\ looks' = 1 /\ settled' \in {FALSE, InPlace(d)}
      /\ UNCHANGED <<vars, scores, credit, others, slowly, exit>>
  BY DEF Wake
<1>2. UNCHANGED <<pc, worker>> /\ IInv /\ EvalTypeOK /\ Order /\ Looking /\ Scored /\ Verdict
  BY <1>1 DEF EInv, vars
<1>3. Len(scores) + 1 \in 1..Len(Plan) /\ d = Plan[Len(scores) + 1]
  BY <1>1, <1>2, Current
<1>4. settled' => Standing(d)
  <2>1. d \in Demos
    BY <1>3, PlanOf
  <2>2. settled' => InPlace(d)
    BY <1>1
  <2>. QED  BY <2>1, <2>2, InPlaceStands
<1>5. EvalTypeOK'
  <2>1. TypeOK' /\ settled' \in BOOLEAN
    BY <1>1 DEF IInv, InPlace
  <2>. QED  BY <1>1, <1>2, <2>1 DEF EvalTypeOK, Playbook
<1>6. Order' /\ Scored'
  BY <1>1, <1>2 DEF Order, Scored
<1>7. Looking'
  BY <1>1, <1>2, <1>3, Lengths DEF Looking
<1>8. Verdict'
  BY <1>1, <1>2 DEF Verdict, Summary
<1>9. Found'
  <2>1. settled' => Standing(d)' /\ d = Plan[Len(scores') + 1] /\ ~(looks' > RuleOf(d))
    BY <1>1, <1>2, <1>3, <1>4 DEF Standing, RuleOf
  <2>. QED  BY <2>1 DEF Found, Standing
<1>. QED  BY <1>5, <1>6, <1>7, <1>8, <1>9 DEF EInv

(* The tool of index RuleOf(d) is the one for the failure of d.            *)
LEMMA RuleOfKind ==
  ASSUME NEW d \in Demos, NEW k \in 1..3
  PROVE  (Playbook[k] = Kind(d) <=> k = RuleOf(d)) /\ RuleOf(d) \in 1..3 /\ Len(Playbook) = 3
<1>1. Playbook[1] = "idle" /\ Playbook[2] = "slow" /\ Playbook[3] = "lock" /\ Len(Playbook) = 3
  BY DEF Playbook
<1>2. k = 1 \/ k = 2 \/ k = 3
  OBVIOUS
<1>3. CASE d \in IdleDemos
  BY <1>1, <1>2, <1>3, ChaosAssumption DEF Kind, RuleOf
<1>4. CASE d \in SlowDemos
  BY <1>1, <1>2, <1>4, ChaosAssumption DEF Kind, RuleOf
<1>5. CASE d \in LockDemos
  BY <1>1, <1>2, <1>5, ChaosAssumption DEF Kind, RuleOf
<1>. QED  BY <1>3, <1>4, <1>5 DEF Demos

LEMMA LookStep ==
  ASSUME EInv, IInv', NEW d \in Planned, Look(d)
  PROVE  EInv'
<1>1. /\ pc[d] = "agent" /\ looks \in 1..3 /\ looks' = looks + 1
      /\ UNCHANGED <<vars, scores, slowly, exit>>
      /\ \/ /\ \E shown \in Answers(d, Playbook[looks]) :
                 /\ credit' = IF Playbook[looks] = Kind(d) THEN shown ELSE credit
                 /\ others' = (others \/ (Playbook[looks] # Kind(d) /\ shown # {}))
            /\ settled' = settled
         \/ settled' = FALSE /\ credit' = credit /\ others' = others
  BY DEF Look, Playbook
<1>2. UNCHANGED <<pc, worker>> /\ IInv /\ EvalTypeOK /\ Order /\ Looking /\ Scored /\ Verdict /\ Found
  BY <1>1 DEF EInv, vars
<1>3. Len(scores) + 1 \in 1..Len(Plan) /\ d = Plan[Len(scores) + 1] /\ d \in Demos
  <2>1. Len(scores) + 1 \in 1..Len(Plan) /\ d = Plan[Len(scores) + 1]
    BY <1>1, <1>2, Current
  <2>. QED  BY <2>1, PlanOf
<1>4. EvalTypeOK'
  <2>1. TypeOK' /\ looks' \in 0..(Len(Playbook) + 1)
    BY <1>1 DEF IInv, Playbook
  <2>2. \A shown \in Answers(d, Playbook[looks]) : shown \subseteq Workers \cup {Past}
    BY DEF Answers, Selected
  <2>3. credit' \subseteq Workers \cup {Past} /\ others' \in BOOLEAN /\ settled' \in BOOLEAN
    BY <1>1, <1>2, <2>2 DEF EvalTypeOK
  <2>. QED  BY <1>1, <1>2, <2>1, <2>3 DEF EvalTypeOK
<1>5. Order' /\ Scored'
  BY <1>1, <1>2 DEF Order, Scored
<1>6. Looking'
  BY <1>1, <1>2, <1>3, Lengths DEF Looking
<1>7. Verdict'
  BY <1>1, <1>2 DEF Verdict, Summary
<1>8. ASSUME settled', looks' > RuleOf(d)
      PROVE  credit' # {} /\ Telling(d) \subseteq credit'
  <2>1. settled /\ Standing(d)
    BY <1>1, <1>2, <1>3, <1>8 DEF Found
  <2>2. PICK shown \in Answers(d, Playbook[looks]) :
          credit' = IF Playbook[looks] = Kind(d) THEN shown ELSE credit
    BY <1>1, <1>8
  <2>3. (Playbook[looks] = Kind(d) <=> looks = RuleOf(d)) /\ RuleOf(d) \in 1..3
    BY <1>1, <1>3, RuleOfKind
  <2>4. CASE looks = RuleOf(d)
    <3>1. shown \in Answers(d, Kind(d)) /\ credit' = shown
      BY <2>2, <2>3, <2>4
    <3>. QED  BY <1>3, <2>1, <3>1, ToolShows
  <2>5. CASE looks # RuleOf(d)
    BY <1>1, <1>2, <1>3, <1>8, <2>1, <2>2, <2>3, <2>5 DEF Found
  <2>. QED  BY <2>4, <2>5
<1>9. Found'
  <2>1. settled' => /\ Standing(d)' /\ d = Plan[Len(scores') + 1]
                    /\ looks' > RuleOf(d) => credit' # {} /\ Telling(d) \subseteq credit'
    BY <1>1, <1>2, <1>3, <1>8 DEF Found, Standing
  <2>. QED  BY <2>1 DEF Found, Standing
<1>. QED  BY <1>4, <1>5, <1>6, <1>7, <1>9 DEF EInv

(* What the end of a run adds to the scores.                               *)
LEMMA ConcludeScores ==
  ASSUME EInv, NEW d \in Planned, Conclude(d)
  PROVE  /\ scores' = Append(scores, [hits |-> Hits(d), named |-> credit # {}])
         /\ scores' \in Seq([hits : 0..3, named : BOOLEAN]) /\ Len(scores') = Len(scores) + 1
         /\ \A i \in 1..Len(scores) : scores'[i] = scores[i]
         /\ scores'[Len(scores) + 1] = [hits |-> Hits(d), named |-> credit # {}]
         /\ Hits(d) \in 0..3 /\ (credit # {} <=> Hits(d) >= 2)
<1>1. Hits(d) \in 0..3 /\ (credit # {} <=> Hits(d) >= 2)
  BY DEF Hits
<1>. DEFINE S == [hits : 0..3, named : BOOLEAN]
            e == [hits |-> Hits(d), named |-> credit # {}]
<1>2. e \in S
  BY <1>1
<1>3. scores \in Seq(S)
  BY DEF EInv, EvalTypeOK
<1>4. scores' = Append(scores, e)
  BY DEF Conclude
<1>. HIDE DEF S, e
<1>5. /\ Append(scores, e) \in Seq(S) /\ Len(Append(scores, e)) = Len(scores) + 1
      /\ \A i \in 1..Len(scores) : Append(scores, e)[i] = scores[i]
      /\ Append(scores, e)[Len(scores) + 1] = e
  BY <1>2, <1>3, AppendProperties
<1>. QED  BY <1>1, <1>4, <1>5 DEF S, e

LEMMA ConcludeStep ==
  ASSUME EInv, IInv', NEW d \in Planned, Conclude(d)
  PROVE  EInv'
<1>1. /\ looks = 4 /\ pc[d] = "agent" /\ pc' = [pc EXCEPT ![d] = "joining"]
      /\ looks' = 0 /\ credit' = {} /\ others' = FALSE /\ settled' = FALSE
      /\ UNCHANGED <<slowly, exit>>
  BY DEF Conclude, AgentEnds, Goto, Playbook
<1>2. IInv /\ EvalTypeOK /\ Order /\ Looking /\ Scored /\ Verdict
  BY DEF EInv
<1>3. Len(scores) + 1 \in 1..Len(Plan) /\ d = Plan[Len(scores) + 1] /\ d \in Demos
      /\ Len(scores) < Len(Plan)
  <2>1. Len(scores) + 1 \in 1..Len(Plan) /\ d = Plan[Len(scores) + 1]
    BY <1>1, <1>2, Current
  <2>. QED  BY <1>2, <2>1, PlanOf, Lengths
<1>4. /\ scores' \in Seq([hits : 0..3, named : BOOLEAN]) /\ Len(scores') = Len(scores) + 1
      /\ \A i \in 1..Len(scores) : scores'[i] = scores[i]
      /\ scores'[Len(scores) + 1] = [hits |-> Hits(d), named |-> credit # {}]
      /\ (credit # {} <=> Hits(d) >= 2)
  BY ConcludeScores
<1>5. EvalTypeOK'
  <2>1. TypeOK' /\ looks' \in 0..(Len(Playbook) + 1)
    BY <1>1 DEF IInv, Playbook
  <2>2. Len(scores') <= Len(Plan)
    BY <1>2, <1>3, <1>4, Lengths
  <2>. QED  BY <1>1, <1>2, <1>4, <2>1, <2>2 DEF EvalTypeOK
<1>6. Order'
  <2>1. \A e \in Demos : pc'[e] = IF e = d THEN "joining" ELSE pc[e]
    BY <1>1, <1>2 DEF IInv, TypeOK
  <2>2. ASSUME NEW i \in 1..Len(Plan)
        PROVE  /\ i <= Len(scores) + 1 <=> pc'[Plan[i]] \in {"joining", "answered"}
               /\ i > Len(scores) + 2 => pc'[Plan[i]] = "idle"
    <3>1. CASE Plan[i] = d
      <4>1. i = Len(scores) + 1
        BY <1>3, <3>1, PlanOnce
      <4>. QED  BY <1>2, <1>3, <2>1, <3>1, <4>1, Lengths
    <3>2. CASE Plan[i] # d
      <4>1. i # Len(scores) + 1 /\ Plan[i] \in Demos
        BY <1>3, <3>2, PlanOf
      <4>. QED  BY <1>2, <2>1, <3>2, <4>1, Lengths DEF Order
    <3>. QED  BY <3>1, <3>2
  <2>. QED  BY <1>2, <1>4, <2>2, Lengths DEF Order
<1>7. Looking' /\ Found'
  BY <1>1 DEF Looking, Found
<1>8. Scored'
  <2>1. ASSUME NEW i \in 1..(Len(scores) + 1) PROVE scores'[i].named <=> scores'[i].hits >= 2
    <3>1. CASE i = Len(scores) + 1
      BY <1>4, <3>1
    <3>2. i \in 1..Len(scores) \/ i = Len(scores) + 1
      BY <1>2, Lengths
    <3>. QED  BY <1>2, <1>4, <3>1, <3>2 DEF Scored
  <2>. QED  BY <1>4, <2>1 DEF Scored
<1>9. Verdict'
  <2>1. exit \notin {"ok", "failed"}
    BY <1>2, <1>3, Lengths DEF Verdict
  <2>. QED  BY <1>1, <2>1 DEF Verdict
<1>. QED  BY <1>5, <1>6, <1>7, <1>8, <1>9 DEF EInv

LEMMA SummariseStep ==
  ASSUME EInv, IInv', Summarise
  PROVE  EInv'
<1>1. exit' = Summary /\ UNCHANGED <<vars, scores, looks, credit, others, settled, slowly>>
  BY DEF Summarise, engine
<1>2. EvalTypeOK /\ Order /\ Looking /\ Scored /\ Found /\ UNCHANGED <<pc, worker>>
  BY <1>1 DEF EInv, vars
<1>3. Summary \in {"ok", "failed", "raised"}
      /\ (Summary \in {"ok", "failed"} => ~(Len(scores) < Len(Plan)))
  BY DEF Summary
<1>4. EvalTypeOK'
  <2>1. TypeOK'
    BY DEF IInv
  <2>. QED  BY <1>1, <1>2, <1>3, <2>1 DEF EvalTypeOK
<1>5. Order' /\ Looking' /\ Scored'
  BY <1>1, <1>2 DEF Order, Looking, Scored
<1>6. Verdict'
  <2>1. Summary' = Summary
    BY <1>1 DEF Summary
  <2>2. exit' \in {"ok", "failed"} => Len(scores) = Len(Plan)
    BY <1>1, <1>2, <1>3, Lengths
  <2>. QED  BY <1>1, <2>1, <2>2 DEF Verdict
<1>7. Found'
  BY <1>1, <1>2 DEF Found, Standing
<1>. QED  BY <1>4, <1>5, <1>6, <1>7 DEF EInv

(* The invariant holds in every reachable state of an evaluation.          *)
THEOREM EvalInvariance == EvalSpec => []EInv
<1>1. EInv /\ IInv' /\ [EvalNext]_allVars => EInv'
  <2>. SUFFICES ASSUME EInv, IInv', [EvalNext]_allVars PROVE EInv'
    OBVIOUS
  <2>1. ASSUME NEW i \in 1..Len(Plan), Begin(i) PROVE EInv'
    BY <2>1, BeginStep
  <2>2. ASSUME NEW d \in Planned, Wake(d) \/ Look(d) \/ Conclude(d) PROVE EInv'
    BY <2>2, WakeStep, LookStep, ConcludeStep
  <2>3. ASSUME NEW d \in Planned, Spawn(d) \/ Join(d), UNCHANGED evalVars PROVE EInv'
    <3>1. d \in Demos
      BY PlanOf DEF Planned
    <3>. QED  BY <2>3, <3>1, RequestStep
  <2>4. ASSUME Summarise PROVE EInv'
    BY <2>4, SummariseStep
  <2>5. ASSUME NEW d \in Demos \ Planned, Request(d) \/ Serve(d), UNCHANGED evalVars PROVE EInv'
    BY <2>5, RequestStep DEF Serve
  <2>6. ASSUME NEW d \in Demos, SpawnFails(d), UNCHANGED evalVars PROVE EInv'
    BY <2>6, RequestStep
  <2>7. ASSUME NEW x \in Workers, Session(x) PROVE EInv'
    BY <2>7, SessionStep
  <2>8. ASSUME UNCHANGED allVars PROVE EInv'
    <3>1. UNCHANGED <<vars, scores, engine, slowly, exit>>
      BY <2>8 DEF allVars, evalVars
    <3>2. UNCHANGED <<pc, worker>>
      BY <3>1 DEF vars
    <3>3. Order' /\ (looks > 0 => pc'[Plan[Len(scores) + 1]] = "agent")
      BY <3>1, <3>2 DEF EInv, Order, Looking
    <3>4. ASSUME settled, NEW d \in Demos, d = Plan[Len(scores) + 1] PROVE Standing(d)'
      BY <3>1, <3>2, <3>4 DEF EInv, Found, Standing
    <3>5. slowly' \in BOOLEAN
      BY <3>1 DEF EInv, EvalTypeOK
    <3>. QED  BY <3>1, <3>3, <3>4, <3>5, RunnerKeeps
  <2>. QED  BY <2>1, <2>2, <2>3, <2>4, <2>5, <2>6, <2>7, <2>8 DEF EvalNext
<1>. QED  BY <1>1, EvalInitInv, EvalRefines, Invariance, PTL DEF EvalSpec

(* Type correctness of the runner and of the demos under it (runner.py).   *)
THEOREM EvalTypeCorrect == EvalSpec => []EvalTypeOK
<1>1. EInv => EvalTypeOK
  BY DEF EInv
<1>. QED  BY <1>1, EvalInvariance, PTL

(* chaos.py, stop(): what a run of the evaluation leaves behind is no more *)
(* than what a demo may.                                                   *)
THEOREM EvalLittleLeftBehind == EvalSpec => []LeftBehind
BY EvalRefines, LittleLeftBehind, PTL

(* runner.py and scorer.py: a failure in place that no tool failed to look *)
(* at passes, whatever else goes on in the database.                       *)
THEOREM FailuresAreNamed == EvalSpec => Detected
<1>1. EInv /\ [EvalNext]_allVars => [DetectedStep]_allVars
  <2>. SUFFICES ASSUME EInv, EvalNext, scores' # scores, settled
                PROVE  2 * scores'[Len(scores')].hits >= 3
    BY DEF DetectedStep
  <2>1. PICK d \in Planned : Conclude(d)
    BY DEF EvalNext, Begin, Wake, Look, Summarise, Session, evalVars
  <2>2. looks = 4 /\ pc[d] = "agent"
    BY <2>1 DEF Conclude, AgentEnds, Playbook
  <2>3. d = Plan[Len(scores) + 1] /\ Len(scores) \in Nat
    BY <2>2, Current, Lengths DEF EInv
  <2>4. credit # {}
    BY <2>2, <2>3 DEF EInv, Found, RuleOf
  <2>5. Hits(d) \in {2, 3} /\ scores'[Len(scores')] = [hits |-> Hits(d), named |-> credit # {}]
    BY <2>1, <2>3, <2>4, ConcludeScores DEF Hits
  <2>. QED  BY <2>5
<1>. QED  BY <1>1, EvalInvariance, PTL DEF EvalSpec, Detected

(* Of the runs that were scored, those that named their failure weigh two  *)
(* or three hits each, and the others one at most.                         *)
LEMMA Weights ==
  ASSUME EvalTypeOK, Scored
  PROVE  LET With(k) == Cardinality({i \in 1..Len(scores) : scores[i].hits = k})
             named == Cardinality({i \in 1..Len(scores) : scores[i].named})
             total == With(1) + 2 * With(2) + 3 * With(3)
         IN  /\ named \in Nat /\ total \in Nat
             /\ 2 * named <= total /\ total <= Len(scores) + 2 * named
<1>. DEFINE N == 1..Len(scores)
            H(k) == {i \in N : scores[i].hits = k}
            M == {i \in N : scores[i].named}
<1>1. IsFiniteSet(N) /\ Cardinality(N) = Len(scores) /\ Len(scores) \in Nat
  <2>1. Len(scores) \in Nat
    BY Lengths
  <2>2. IsFiniteSet(1..Len(scores))
        /\ Cardinality(1..Len(scores)) = IF 1 > Len(scores) THEN 0 ELSE Len(scores) - 1 + 1
    BY <2>1, FS_Interval
  <2>. QED  BY <2>1, <2>2
<1>2. \A i \in N : scores[i].hits \in 0..3 /\ (scores[i].named <=> scores[i].hits >= 2)
  <2>1. scores \in Seq([hits : 0..3, named : BOOLEAN])
    BY DEF EvalTypeOK
  <2>2. \A i \in N : scores[i] \in [hits : 0..3, named : BOOLEAN]
    BY <2>1, ElementOfSeq
  <2>. QED  BY <2>2 DEF Scored
<1>3. M = H(2) \cup H(3) /\ H(2) \cap H(3) = {} /\ M \cap H(1) = {} /\ M \cup H(1) \subseteq N
  BY <1>2
<1>4. H(1) \subseteq N /\ H(2) \subseteq N /\ H(3) \subseteq N /\ M \subseteq N
  OBVIOUS
<1>. HIDE DEF N, H, M
<1>5. IsFiniteSet(H(1)) /\ IsFiniteSet(H(2)) /\ IsFiniteSet(H(3)) /\ IsFiniteSet(M)
  BY <1>1, <1>4, FS_Subset
<1>6. /\ Cardinality(H(1)) \in Nat /\ Cardinality(H(2)) \in Nat /\ Cardinality(H(3)) \in Nat
      /\ Cardinality(M) \in Nat
  BY <1>5, FS_CardinalityType
<1>7. Cardinality({}) = 0
  BY FS_EmptySet
<1>8. Cardinality(M) = Cardinality(H(2)) + Cardinality(H(3))
  <2>1. Cardinality(H(2) \cup H(3)) = Cardinality(H(2)) + Cardinality(H(3)) - Cardinality(H(2) \cap H(3))
    BY <1>5, FS_Union
  <2>2. Cardinality(H(2) \cap H(3)) = 0 /\ Cardinality(M) = Cardinality(H(2) \cup H(3))
    BY <1>3, <1>7, Zenon
  <2>. QED  BY <1>6, <2>1, <2>2
<1>9. Cardinality(M \cup H(1)) = Cardinality(M) + Cardinality(H(1))
  <2>1. Cardinality(M \cup H(1)) = Cardinality(M) + Cardinality(H(1)) - Cardinality(M \cap H(1))
    BY <1>5, FS_Union
  <2>2. Cardinality(M \cap H(1)) = 0
    BY <1>3, <1>7, Zenon
  <2>. QED  BY <1>6, <2>1, <2>2
<1>10. Cardinality(M \cup H(1)) <= Len(scores)
  BY <1>1, <1>3, FS_Subset
<1>. DEFINE total == Cardinality(H(1)) + 2 * Cardinality(H(2)) + 3 * Cardinality(H(3))
<1>11. /\ Cardinality(M) \in Nat /\ total \in Nat
       /\ 2 * Cardinality(M) <= total /\ total <= Len(scores) + 2 * Cardinality(M)
  <2>1. Cardinality(M) + Cardinality(H(1)) <= Len(scores)
    BY <1>9, <1>10, Zenon
  <2>2. \A a, b, c, m, n \in Nat :
          m = b + c /\ m + a <= n =>
            /\ a + 2 * b + 3 * c \in Nat
            /\ 2 * m <= a + 2 * b + 3 * c /\ a + 2 * b + 3 * c <= n + 2 * m
    OBVIOUS
  <2>. QED  BY <1>1, <1>6, <1>8, <2>1, <2>2, Zenon DEF total
<1>. QED  BY <1>11 DEF H, M, N

(* README.md:328-329, runner.py: what the exit code says of the runs.      *)
THEOREM ExitIsHonest == EvalSpec => []ExitHonest
<1>1. EInv => ExitHonest
  <2>. SUFFICES ASSUME EInv PROVE ExitHonest
    OBVIOUS
  <2>. DEFINE With(k) == Cardinality({i \in 1..Len(scores) : scores[i].hits = k})
              named == Cardinality({i \in 1..Len(scores) : scores[i].named})
              total == With(1) + 2 * With(2) + 3 * With(3)
  <2>1. /\ named \in Nat /\ total \in Nat
        /\ 2 * named <= total /\ total <= Len(scores) + 2 * named
    BY Weights DEF EInv
  <2>2. Summary = IF Len(scores) < Len(Plan) \/ Plan = << >> THEN "raised"
                  ELSE IF 2 * total >= 3 * Len(Plan) THEN "ok" ELSE "failed"
    BY DEF Summary
  <2>3. Len(Plan) \in Nat /\ Len(scores) \in Nat
    BY Lengths DEF EInv
  <2>4. exit \in {"ok", "failed"} => Len(scores) = Len(Plan) /\ exit = Summary
    BY DEF EInv, Verdict
  <2>5. (exit = "ok" => 4 * named >= Len(Plan)) /\ (exit = "failed" => 4 * named < 3 * Len(Plan))
    <3>. HIDE DEF named, total
    <3>. QED  BY <2>1, <2>2, <2>3, <2>4
  <2>. QED  BY <2>5 DEF ExitHonest
<1>. QED  BY <1>1, EvalInvariance, PTL

-----------------------------------------------------------------------------
(* An evaluation that has the database for itself.                         *)

Alone == \A e \in Demos \ Planned : pc[e] = "idle"

(* A run begins when the ones before it have been answered.                *)
InTurn ==
  \A i, j \in 1..Len(Plan) : i < j /\ pc[Plan[j]] # "idle" => pc[Plan[i]] = "answered"

(* Then stop() leaves nothing of a lock or an idle run behind.             *)
Tidy ==
  Alone => \A d \in Planned \ SlowDemos : \A i \in 1..joined[d] : worker[<<d, i>>] = "closed"

(* Whose sessions may be credited to the run of index n.                   *)
OwnOnly(n, shown) ==
  /\ Plan[n] \in LockDemos => shown \subseteq SessionsOf(Plan[n])
  /\ Plan[n] \in IdleDemos => shown \subseteq SessionsOf(Plan[n]) \cup Sleepers(n - 1)

Credited == Alone => OwnOnly(Len(scores) + 1, credit)

AInv == InTurn /\ Tidy /\ Credited

(* No request goes back, and a planned one begins in its turn only.        *)
LEMMA Onward ==
  ASSUME EInv, EvalNext
  PROVE  /\ \A d \in Demos : /\ pc[d] # "idle" => pc'[d] # "idle"
                             /\ pc[d] = "answered" => pc'[d] = "answered"
         /\ \A i \in 1..Len(Plan) : pc[Plan[i]] = "idle" /\ pc'[Plan[i]] # "idle" => Begin(i)
<1>. DEFINE Moves(d, from, to) == pc[d] = from /\ pc' = [pc EXCEPT ![d] = to]
<1>0. pc \in [Demos -> {"idle", "starting", "agent", "joining", "answered", "failed"}]
  BY DEF EInv, IInv, TypeOK
<1>1. ASSUME NEW d \in Demos, NEW from \in {"starting", "agent", "joining"},
             NEW to \in {"starting", "agent", "joining", "answered", "failed"}, Moves(d, from, to)
      PROVE  \A e \in Demos : /\ pc[e] # "idle" => pc'[e] # "idle"
                              /\ pc[e] = "answered" => pc'[e] = "answered"
                              /\ pc[e] = "idle" => pc'[e] = "idle"
  BY <1>0, <1>1
<1>2. ASSUME NEW d \in Demos, Spawn(d) \/ SpawnFails(d) \/ AgentEnds(d) \/ Join(d)
      PROVE  \E from \in {"starting", "agent", "joining"} :
               \E to \in {"starting", "agent", "joining", "answered", "failed"} : Moves(d, from, to)
  BY <1>2 DEF Spawn, SpawnFails, AgentEnds, Join, Goto
<1>3. ASSUME NEW d \in Demos, Spawn(d) \/ SpawnFails(d) \/ AgentEnds(d) \/ Join(d)
      PROVE  \A e \in Demos : /\ pc[e] # "idle" => pc'[e] # "idle"
                              /\ pc[e] = "answered" => pc'[e] = "answered"
                              /\ pc[e] = "idle" => pc'[e] = "idle"
  <2>. HIDE DEF Moves
  <2>. QED  BY <1>1, <1>2, <1>3
<1>4. ASSUME NEW d \in Demos, Request(d)
      PROVE  \A e \in Demos : /\ pc[e] # "idle" => pc'[e] # "idle"
                              /\ pc[e] = "answered" => pc'[e] = "answered"
                              /\ pc[e] = "idle" /\ pc'[e] # "idle" => e = d
  BY <1>0, <1>4 DEF Request, Goto
<1>5. ASSUME NEW k \in 1..Len(Plan), Begin(k)
      PROVE  /\ \A d \in Demos : /\ pc[d] # "idle" => pc'[d] # "idle"
                                 /\ pc[d] = "answered" => pc'[d] = "answered"
             /\ \A i \in 1..Len(Plan) : pc[Plan[i]] = "idle" /\ pc'[Plan[i]] # "idle" => Begin(i)
  <2>1. Plan[k] \in Demos /\ Request(Plan[k])
    BY <1>5, PlanOf DEF Begin
  <2>2. ASSUME NEW i \in 1..Len(Plan), pc[Plan[i]] = "idle", pc'[Plan[i]] # "idle" PROVE Begin(i)
    <3>1. Plan[i] = Plan[k]
      BY <1>4, <2>1, <2>2, PlanOf
    <3>2. i = k
      BY <3>1, PlanOnce
    <3>. QED  BY <1>5, <3>2
  <2>. QED  BY <1>4, <2>1, <2>2
<1>6. ASSUME NEW d \in Demos \ Planned, Request(d)
      PROVE  /\ \A e \in Demos : /\ pc[e] # "idle" => pc'[e] # "idle"
                                 /\ pc[e] = "answered" => pc'[e] = "answered"
             /\ \A i \in 1..Len(Plan) : ~(pc[Plan[i]] = "idle" /\ pc'[Plan[i]] # "idle")
  BY <1>4, <1>6, PlanOf
<1>7. (\E d \in Planned : Wake(d) \/ Look(d)) \/ Summarise \/ (\E x \in Workers : Session(x))
        => pc' = pc
  BY DEF Wake, Look, Summarise, Session, Work, vars,
         Connect, ConnectFails, Settle, Lock, LetGo, Rollback, Close
<1>8. Planned \subseteq Demos
  BY PlanOf DEF Planned
<1>. QED  BY <1>3, <1>5, <1>6, <1>7, <1>8, PlanOf DEF EvalNext, Serve, Conclude

LEMMA InTurnStep ==
  ASSUME EInv, InTurn, EvalNext
  PROVE  InTurn'
<1>. SUFFICES ASSUME NEW i \in 1..Len(Plan), NEW j \in 1..Len(Plan), i < j, pc'[Plan[j]] # "idle"
              PROVE  pc'[Plan[i]] = "answered"
  BY DEF InTurn
<1>1. Plan[i] \in Demos /\ Plan[j] \in Demos
  BY PlanOf
<1>2. CASE pc[Plan[j]] # "idle"
  BY <1>1, <1>2, Onward DEF InTurn
<1>3. CASE pc[Plan[j]] = "idle"
  <2>1. Begin(j)
    BY <1>3, Onward
  <2>2. j - 1 \in 1..Len(Plan) /\ pc[Plan[j - 1]] = "answered"
    BY <2>1 DEF Begin
  <2>3. i = j - 1 \/ i < j - 1
    OBVIOUS
  <2>4. pc[Plan[i]] = "answered"
    BY <2>2, <2>3 DEF InTurn
  <2>. QED  BY <1>1, <2>4, Onward
<1>. QED  BY <1>2, <1>3

LEMMA AloneStays ==
  ASSUME EInv, EvalNext, Alone'
  PROVE  Alone
  BY Onward DEF Alone

(* Where another demo may have got to, seen from a run under way.          *)
LEMMA OtherRuns ==
  ASSUME EInv, InTurn, Tidy, Alone, NEW d \in Planned, pc[d] \in {"agent", "joining"},
         NEW x \in Workers, x[1] # d, worker[x] # "none"
  PROVE  x[1] \in Planned /\ pc[x[1]] = "answered" /\ (x[1] \notin SlowDemos => worker[x] = "closed")
<1>. DEFINE e == x[1]
<1>1. e \in Demos /\ x[2] \in Threads(e) /\ x = <<e, x[2]>> /\ pc[e] # "idle"
  BY WorkersOf DEF EInv, IInv, Begun
<1>2. e \in Planned
  BY <1>1 DEF Alone
<1>3. PICK i \in 1..Len(Plan), j \in 1..Len(Plan) : d = Plan[i] /\ e = Plan[j]
  BY <1>2 DEF Planned
<1>4. i # j /\ i \in Int /\ j \in Int
  BY <1>3
<1>5. ~(i < j)
  BY <1>1, <1>3 DEF InTurn
<1>6. pc[e] = "answered"
  BY <1>3, <1>4, <1>5 DEF InTurn
<1>7. x[2] \in 1..joined[e]
  BY <1>1, <1>6, ThreadsOf DEF EInv, IInv, Progress
<1>8. ASSUME e \notin SlowDemos PROVE worker[x] = "closed"
  <2>. HIDE DEF e
  <2>1. worker[<<e, x[2]>>] = "closed"
    BY <1>2, <1>7, <1>8 DEF Tidy
  <2>. QED  BY <1>1, <2>1
<1>. QED  BY <1>2, <1>6, <1>8

(* So whoever has the row while a run is being stopped is that run itself, *)
(* and nothing keeps its threads from ending.                              *)
LEMMA NoneBusy ==
  ASSUME EInv, InTurn, Tidy, Alone, NEW d \in Planned \ SlowDemos, pc[d] = "joining",
         NEW i \in Threads(d)
  PROVE  ~Busy(<<d, i>>)
<1>1. d \in Demos /\ <<d, i>> \in Workers /\ d \in stopped
  BY PlanOf, ThreadsOf DEF Planned, EInv, IInv, Stopped
<1>2. worker[<<d, i>>] # "sleeping"
  BY <1>1 DEF EInv, IInv, Asleep
<1>3. ASSUME row \in Workers \ Waiters, row[1] \notin stopped PROVE FALSE
  <2>1. row # None
    BY <1>3, WorkersOf, ThreadsOf, ChaosAssumption
  <2>2. worker[row] \in {"holding", "finished"} /\ row[1] # d /\ row[1] \in LockDemos
    BY <1>1, <1>3, <2>1 DEF EInv, IInv, Held, TypeOK, Contenders
  <2>3. row[1] \notin SlowDemos
    BY <2>2, ChaosAssumption
  <2>. QED  BY <1>3, <2>2, <2>3, OtherRuns
<1>. QED  BY <1>2, <1>3 DEF Busy

LEMMA TidyStep ==
  ASSUME EInv, InTurn, Tidy, EvalNext
  PROVE  Tidy'
<1>. SUFFICES ASSUME Alone', NEW d \in Planned \ SlowDemos, NEW i \in 1..joined'[d]
              PROVE  worker'[<<d, i>>] = "closed"
  BY DEF Tidy
<1>1. Alone /\ d \in Demos
  BY AloneStays, PlanOf DEF Planned
<1>2. \A j \in 1..joined[d] : <<d, j>> \in Workers /\ worker[<<d, j>>] = "closed"
  <2>1. joined[d] \in Nat /\ joined[d] <= Threading(d) /\ Threads(d) = 1..Threading(d)
    BY <1>1, ThreadsOf DEF EInv, IInv, TypeOK
  <2>2. \A j \in 1..joined[d] : <<d, j>> \in Workers
    BY <1>1, <2>1, ThreadsOf
  <2>. QED  BY <1>1, <2>2 DEF Tidy
<1>3. CASE \E e \in Demos : Join(e)
  <2>1. PICK e \in Demos : Join(e)
    BY <1>3
  <2>2. /\ worker' = worker /\ joined' = [joined EXCEPT ![e] = joined[e] + 1]
        /\ pc[e] = "joining"
        /\ worker[<<e, joined[e] + 1>>] = "closed" \/ Busy(<<e, joined[e] + 1>>)
    BY <2>1 DEF Join
  <2>3. joined \in [Demos -> Nat]
    BY DEF EInv, IInv, TypeOK
  <2>4. CASE i \in 1..joined[d]
    BY <1>2, <2>2, <2>4
  <2>5. CASE e = d /\ i = joined[d] + 1
    <3>1. i \in Threads(d)
      BY <1>1, <2>2, <2>5, ThreadsOf DEF EInv, IInv, TypeOK, Progress
    <3>2. ~Busy(<<d, i>>)
      BY <1>1, <2>2, <2>5, <3>1, NoneBusy
    <3>. QED  BY <2>2, <2>5, <3>2
  <2>. QED  BY <1>1, <2>2, <2>3, <2>4, <2>5
<1>4. ASSUME joined' = joined, NEW x \in Workers, NEW label, worker[x] # "closed",
             worker' = [worker EXCEPT ![x] = label]
      PROVE  worker'[<<d, i>>] = "closed"
  <2>1. worker \in [Workers -> {"none", "begun", "connected", "sleeping", "holding",
                                "finished", "closing", "closed"}]
    BY DEF EInv, IInv, TypeOK
  <2>2. i \in 1..joined[d]
    BY <1>4
  <2>. QED  BY <1>2, <1>4, <2>1, <2>2
<1>5. CASE \E x \in Workers : Session(x)
  <2>1. PICK x \in Workers : Work(x)
    BY <1>5 DEF Session
  <2>2. joined' = joined /\ worker[x] # "closed" /\ \E label : worker' = [worker EXCEPT ![x] = label]
    BY <2>1 DEF Work, Connect, ConnectFails, Settle, Lock, LetGo, Rollback, Close, Become
  <2>. QED  BY <1>4, <2>2
<1>6. CASE \E e \in Demos : Spawn(e)
  <2>1. PICK e \in Demos : Spawn(e)
    BY <1>6
  <2>2. PICK j \in Unspawned(e) : worker' = [worker EXCEPT ![<<e, j>>] = "begun"]
    BY <2>1 DEF Spawn, Become
  <2>3. joined' = joined /\ <<e, j>> \in Workers /\ worker[<<e, j>>] # "closed"
    BY <2>1, ThreadsOf DEF Spawn, Unspawned
  <2>. QED  BY <1>4, <2>2, <2>3
<1>7. CASE UNCHANGED <<joined, worker>>
  BY <1>2, <1>7
<1>8. Planned \subseteq Demos
  BY PlanOf DEF Planned
<1>9. ASSUME EvalNext
      PROVE  \/ \E e \in Demos : Join(e) \/ Spawn(e)
             \/ \E x \in Workers : Session(x)
             \/ UNCHANGED <<joined, worker>>
  <2>1. ASSUME NEW k \in 1..Len(Plan), Begin(k) PROVE UNCHANGED <<joined, worker>>
    BY <2>1 DEF Begin, Request
  <2>2. ASSUME NEW e \in Planned, Wake(e) \/ Look(e) \/ Conclude(e) PROVE UNCHANGED <<joined, worker>>
    BY <2>2 DEF Wake, Look, Conclude, AgentEnds, vars
  <2>3. Summarise => UNCHANGED <<joined, worker>>
    BY DEF Summarise, vars
  <2>4. ASSUME NEW e \in Demos, Request(e) \/ SpawnFails(e) \/ AgentEnds(e)
        PROVE  UNCHANGED <<joined, worker>>
    BY <2>4 DEF Request, SpawnFails, AgentEnds
  <2>. QED  BY <1>8, <1>9, <2>1, <2>2, <2>3, <2>4 DEF EvalNext, Serve
<1>. QED  BY <1>3, <1>5, <1>6, <1>7, <1>9

(* What a tool shows of others, to a run that has the database to itself:  *)
(* all that is left of earlier runs is sleepers.                           *)
LEMMA OwnAnswers ==
  ASSUME EInv, InTurn, Tidy, Alone, NEW n \in 1..Len(Plan), pc[Plan[n]] = "agent",
         NEW shown \in Answers(Plan[n], Kind(Plan[n]))
  PROVE  OwnOnly(n, shown)
<1>. DEFINE d == Plan[n]
<1>0. d \in Demos /\ d \in Planned
  BY PlanOf
<1>1. ASSUME NEW x \in Workers, worker[x] \notin {"none", "closed"}
      PROVE  x \in SessionsOf(d) \/ (x \in Sleepers(n - 1) /\ x[1] \in SlowDemos)
  <2>1. CASE x[1] = d
    BY <2>1, WorkersOf DEF SessionsOf
  <2>2. CASE x[1] # d
    <3>. HIDE DEF d
    <3>1. x[1] \in Planned /\ pc[x[1]] = "answered" /\ x[1] \in SlowDemos
      BY <1>0, <1>1, <2>2, OtherRuns DEF d
    <3>2. PICK j \in 1..Len(Plan) : x[1] = Plan[j]
      BY <3>1 DEF Planned
    <3>3. j # n /\ ~(n < j)
      BY <3>1, <3>2 DEF InTurn
    <3>4. Len(Plan) \in Nat
      BY PlanAssumption
    <3>5. j \in 1..(n - 1)
      BY <3>3, <3>4
    <3>. QED  BY <3>1, <3>2, <3>5 DEF Sleepers
  <2>. QED  BY <2>1, <2>2
<1>2. ASSUME d \in LockDemos PROVE shown \subseteq SessionsOf(d)
  <2>1. Kind(d) = "lock"
    BY <1>2, ChaosAssumption DEF Kind
  <2>2. shown \subseteq Selected("lock")
    BY <2>1 DEF Answers
  <2>3. ASSUME NEW x \in shown PROVE x \in SessionsOf(d)
    <3>1. x \in Workers /\ worker[x] = "connected" /\ x[1] \notin SlowDemos
      BY <2>2, ChaosAssumption DEF Selected, Blocked, Contenders
    <3>. QED  BY <1>1, <3>1
  <2>. QED  BY <2>3
<1>3. ASSUME d \in IdleDemos PROVE shown \subseteq SessionsOf(d) \cup Sleepers(n - 1)
  <2>1. Kind(d) = "idle"
    BY <1>3, ChaosAssumption DEF Kind
  <2>2. shown \subseteq Selected("idle")
    BY <2>1 DEF Answers
  <2>3. ASSUME NEW x \in shown PROVE x \in SessionsOf(d) \cup Sleepers(n - 1)
    <3>1. x \in Workers /\ worker[x] \notin {"none", "closed"}
      BY <2>2 DEF Selected, Open
    <3>. QED  BY <1>1, <3>1
  <2>. QED  BY <2>3
<1>. QED  BY <1>2, <1>3 DEF OwnOnly

LEMMA CreditedStep ==
  ASSUME EInv, InTurn, Tidy, Credited, EvalNext
  PROVE  Credited'
<1>. SUFFICES ASSUME Alone' PROVE OwnOnly(Len(scores') + 1, credit')
  BY DEF Credited, OwnOnly
<1>1. Alone /\ OwnOnly(Len(scores) + 1, credit)
  BY AloneStays DEF Credited
<1>2. CASE \E d \in Planned : Look(d)
  <2>1. PICK d \in Planned : Look(d)
    BY <1>2
  <2>2. pc[d] = "agent" /\ scores' = scores
    BY <2>1 DEF Look
  <2>3. PICK n \in 1..Len(Plan) : n = Len(scores) + 1
    BY <2>2, Current DEF EInv
  <2>4. d = Plan[n]
    BY <2>2, <2>3, Current DEF EInv
  <2>5. credit' = credit \/ credit' \in Answers(d, Kind(d))
    BY <2>1 DEF Look
  <2>6. ASSUME credit' \in Answers(d, Kind(d)) PROVE OwnOnly(n, credit')
    <3>1. PICK shown \in Answers(d, Kind(d)) : shown = credit'
      BY <2>6
    <3>2. OwnOnly(n, shown)
      BY <1>1, <2>2, <2>4, OwnAnswers
    <3>. QED  BY <3>1, <3>2
  <2>. QED  BY <1>1, <2>2, <2>3, <2>5, <2>6
<1>3. CASE UNCHANGED <<credit, scores>>
  BY <1>1, <1>3
<1>4. ASSUME credit' = {} PROVE OwnOnly(Len(scores') + 1, credit')
  BY <1>4 DEF OwnOnly
<1>5. \/ \E d \in Planned : Look(d)
      \/ credit' = {}
      \/ UNCHANGED <<credit, scores>>
  BY DEF EvalNext, Begin, Wake, Conclude, Summarise, Session, evalVars, engine
<1>. QED  BY <1>2, <1>3, <1>4, <1>5

(* runner.py, _run_once(): stop() before the next injection, and           *)
(* rule_llm.py, which counts the sessions of everybody.  Whatever the      *)
(* plan: a run whose failure had settled is credited for its own sessions; *)
(* and in an evaluation that has the database for itself a lock run is     *)
(* credited for no other, an idle run for none but its own and sleepers    *)
(* that earlier slow runs gave up on.                                      *)
THEOREM CreditIsOwn == EvalSpec => OwnCredit
<1>1. EvalInit => AInv
  <2>. SUFFICES ASSUME EvalInit PROVE AInv
    OBVIOUS
  <2>1. pc = [d \in Demos |-> "idle"] /\ joined = [d \in Demos |-> 0] /\ credit = {}
    BY DEF EvalInit, Init
  <2>2. Planned \subseteq Demos
    BY PlanOf DEF Planned
  <2>3. Credited
    BY <2>1 DEF Credited, OwnOnly
  <2>. QED  BY <2>1, <2>2, <2>3, PlanOf DEF AInv, InTurn, Tidy
<1>2. EInv /\ AInv /\ [EvalNext]_allVars => AInv'
  <2>. SUFFICES ASSUME EInv, AInv, [EvalNext]_allVars PROVE AInv'
    OBVIOUS
  <2>1. CASE EvalNext
    BY <2>1, InTurnStep, TidyStep, CreditedStep DEF AInv
  <2>2. CASE UNCHANGED allVars
    <3>1. UNCHANGED <<pc, joined, worker, scores, credit>>
      BY <2>2 DEF allVars, evalVars, engine, vars
    <3>. QED  BY <3>1 DEF AInv, InTurn, Tidy, Credited, Alone, OwnOnly
  <2>. QED  BY <2>1, <2>2
<1>3. EInv /\ AInv /\ [EvalNext]_allVars => [OwnCreditStep]_allVars
  <2>. SUFFICES ASSUME EInv, AInv, EvalNext, scores' # scores PROVE OwnCreditStep
    BY DEF OwnCreditStep
  <2>1. PICK d \in Planned : Conclude(d)
    BY DEF EvalNext, Begin, Wake, Look, Summarise, Session, evalVars
  <2>2. looks = 4 /\ pc[d] = "agent" /\ Len(scores') = Len(scores) + 1
    BY <2>1, ConcludeScores DEF Conclude, AgentEnds, Playbook
  <2>3. d = Plan[Len(scores) + 1]
    BY <2>2, Current DEF EInv
  <2>4. settled => Telling(Plan[Len(scores')]) \subseteq credit
    BY <2>2, <2>3 DEF EInv, Found, RuleOf
  <2>5. Alone => OwnOnly(Len(scores'), credit)
    BY <2>2 DEF AInv, Credited
  <2>. QED  BY <2>4, <2>5 DEF OwnCreditStep, Alone, OwnOnly
<1>. QED  BY <1>1, <1>2, <1>3, EvalInvariance, PTL DEF EvalSpec, OwnCredit
=============================================================================
