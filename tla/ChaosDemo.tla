----------------------------- MODULE ChaosDemo -----------------------------
(***************************************************************************)
(* Demo mode: web/backend.py demo(), and _run_once() of eval/runner.py,    *)
(* around the failure injectors of eval/chaos.py.  A request starts an     *)
(* injector, whose threads open admin sessions that misbehave; it waits a  *)
(* second, runs the agent, and stops the injector in a finally clause.     *)
(*                                                                         *)
(* Requests are served by threads of their own: demos overlap, and the     *)
(* lock scenario of all of them fights over the same row.  Time enters in  *)
(* one place only: join(timeout=5) gives up on a thread that the database  *)
(* keeps busy, never on one that has merely not been scheduled.            *)
(***************************************************************************)
EXTENDS Integers, Sequences, FiniteSets

CONSTANTS
  SlowDemos, LockDemos, IdleDemos,  \* the requests, by scenario
  IdleSessions,                     \* sessions of the idle scenario (n)
  None,
  MaxFailures                       \* bound on threads that cannot be started

Demos == SlowDemos \cup LockDemos \cup IdleDemos

ASSUME ChaosAssumption ==
  /\ SlowDemos \cap LockDemos = {} /\ SlowDemos \cap IdleDemos = {}
  /\ LockDemos \cap IdleDemos = {}
  /\ IdleSessions \in Nat \ {0} /\ MaxFailures \in Nat
  /\ None \notin Demos \X Nat

(* The threads start() spawns, in order: the sleeper; the holder and the   *)
(* waiter; the idlers.                                                     *)
Threads(d) ==
  1..(IF d \in SlowDemos THEN 1 ELSE IF d \in LockDemos THEN 2 ELSE IdleSessions)

Workers == UNION {{d} \X Threads(d) : d \in Demos}
Contenders == {x \in Workers : x[1] \in LockDemos}
Waiters == {x \in Contenders : x[2] = 2}
HolderOf(x) == <<x[1], 1>>

VARIABLES
  pc,       \* where each request is
  joined,   \* how many threads of its injector it has joined, or given up on
  stopped,  \* the injectors whose _stop event is set
  started,  \* the lock injectors whose holder has announced its lock
  worker,   \* where each background thread is
  row,      \* the session that has customers.customer_id = 1 locked
  failures  \* threads that could not be started

vars == <<pc, joined, stopped, started, worker, row, failures>>

Init ==
  /\ pc = [d \in Demos |-> "idle"]
  /\ joined = [d \in Demos |-> 0]
  /\ stopped = {}
  /\ started = {}
  /\ worker = [x \in Workers |-> "none"]
  /\ row = None
  /\ failures = 0

Goto(d, label) == pc' = [pc EXCEPT ![d] = label]
Become(x, label) == worker' = [worker EXCEPT ![x] = label]

-----------------------------------------------------------------------------
(* The request.                                                            *)

Request(d) ==
  /\ pc[d] = "idle"
  /\ Goto(d, "starting")
  /\ UNCHANGED <<joined, stopped, started, worker, row, failures>>

Unspawned(d) == {i \in Threads(d) : worker[<<d, i>>] = "none"}

Spawn(d) ==
  /\ pc[d] = "starting"
  /\ \E i \in Unspawned(d) :
       /\ \A j \in Unspawned(d) : i <= j
       /\ Become(<<d, i>>, "begun")
       /\ Goto(d, IF Unspawned(d) = {i} THEN "agent" ELSE "starting")
  /\ UNCHANGED <<joined, stopped, started, row, failures>>

(* Thread.start() raises.  start() is called before the try: the request   *)
(* fails and stop() is never called.                                       *)
SpawnFails(d) ==
  /\ pc[d] = "starting" /\ Unspawned(d) # {}
  /\ failures < MaxFailures
  /\ failures' = failures + 1
  /\ Goto(d, "failed")
  /\ UNCHANGED <<joined, stopped, started, worker, row>>

\* Mutant: stop() is not in a finally clause, and the agent may raise.
AgentEndsUnguarded(d) ==
  /\ pc[d] = "agent"
  /\ Goto(d, "failed")
  /\ UNCHANGED <<joined, stopped, started, worker, row, failures>>

(* The agent returns, or raises, or cannot be built: stop() either way.    *)
AgentEnds(d) ==
  /\ pc[d] = "agent"
  /\ stopped' = stopped \cup {d}
  /\ Goto(d, "joining")
  /\ UNCHANGED <<joined, started, worker, row, failures>>

(* The database keeps x busy for longer than the five seconds of join: it  *)
(* sleeps, or it waits for the row that the holder of a demo still running *)
(* has locked.                                                             *)
Busy(x) ==
  \/ worker[x] = "sleeping"
  \/ /\ worker[x] = "connected" /\ x \in Contenders
     /\ row \in Workers \ Waiters /\ row[1] \notin stopped

\* Mutant: stop() does not wait for the threads.
JoinNone(d) ==
  /\ pc[d] = "joining"
  /\ joined' = [joined EXCEPT ![d] = @ + 1]
  /\ Goto(d, IF joined[d] + 1 \in Threads(d) /\ joined[d] + 2 \in Threads(d)
             THEN "joining" ELSE "answered")
  /\ UNCHANGED <<stopped, started, worker, row, failures>>

(* join(timeout=5) of the next thread; after the last one, the answer.     *)
Join(d) ==
  LET x == <<d, joined[d] + 1>>
  IN  /\ pc[d] = "joining"
      /\ worker[x] = "closed" \/ Busy(x)
      /\ joined' = [joined EXCEPT ![d] = @ + 1]
      /\ Goto(d, IF joined[d] + 2 \in Threads(d) THEN "joining" ELSE "answered")
      /\ UNCHANGED <<stopped, started, worker, row, failures>>

-----------------------------------------------------------------------------
(* The background threads.                                                 *)

(* A waiter lets the holder of its demo go first, for at most 5 seconds:   *)
(* it goes ahead if the holder has died or is itself kept waiting.         *)
MayBegin(x) ==
  x \in Waiters =>
    \/ x[1] \in started
    \/ worker[HolderOf(x)] = "closed" \/ Busy(HolderOf(x))

Connect(x) ==
  /\ worker[x] = "begun" /\ MayBegin(x)
  /\ Become(x, "connected")
  /\ UNCHANGED <<pc, joined, stopped, started, row, failures>>

(* psycopg.connect raises, and the thread dies.                            *)
ConnectFails(x) ==
  /\ worker[x] = "begun" /\ MayBegin(x)
  /\ Become(x, "closed")
  /\ UNCHANGED <<pc, joined, stopped, started, row, failures>>

(* A slow demo executes SELECT pg_sleep(30).                               *)
Sleeps(x) == x[1] \in SlowDemos

\* Mutant: the idle session updates the row as well.
SettleLocked(x) ==
  /\ worker[x] = "connected" /\ x \notin Contenders
  /\ row = None
  /\ row' = x
  /\ Become(x, IF Sleeps(x) THEN "sleeping" ELSE "holding")
  /\ UNCHANGED <<pc, joined, stopped, started, failures>>

(* The sleeper sleeps; an idler executes SELECT 1 in a transaction that    *)
(* stays open.                                                             *)
Settle(x) ==
  /\ worker[x] = "connected" /\ x \notin Contenders
  /\ Become(x, IF Sleeps(x) THEN "sleeping" ELSE "holding")
  /\ UNCHANGED <<pc, joined, stopped, started, row, failures>>

(* The UPDATE of the row, once nobody else has it: the holder announces it *)
(* and keeps it, the waiter is done.                                       *)
Lock(x) ==
  /\ worker[x] = "connected" /\ x \in Contenders
  /\ row = None
  /\ row' = x
  /\ started' = IF x \in Waiters THEN started ELSE started \cup {x[1]}
  /\ Become(x, IF x \in Waiters THEN "finished" ELSE "holding")
  /\ UNCHANGED <<pc, joined, stopped, failures>>

\* Mutant: the loop does not look at the event.
SeesStopNever(x) == x \notin Workers

SeesStop(x) == x[1] \in stopped

(* The loop `while not self._stop.is_set()` ends; so does pg_sleep.        *)
LetGo(x) ==
  /\ worker[x] = "sleeping" \/ (worker[x] = "holding" /\ SeesStop(x))
  /\ Become(x, "finished")
  /\ UNCHANGED <<pc, joined, stopped, started, row, failures>>

(* rollback(), then the with statement closes the session.                 *)
Rollback(x) ==
  /\ worker[x] = "finished"
  /\ row' = IF row = x THEN None ELSE row
  /\ Become(x, "closing")
  /\ UNCHANGED <<pc, joined, stopped, started, failures>>

Close(x) ==
  /\ worker[x] = "closing"
  /\ Become(x, "closed")
  /\ UNCHANGED <<pc, joined, stopped, started, row, failures>>

Serve(d) == Spawn(d) \/ AgentEnds(d) \/ Join(d)
Work(x) ==
  \/ Connect(x) \/ ConnectFails(x) \/ Settle(x) \/ Lock(x) \/ LetGo(x) \/ Rollback(x)
  \/ Close(x)

Next ==
  \/ \E d \in Demos : Request(d) \/ SpawnFails(d) \/ Serve(d)
  \/ \E x \in Workers : Work(x)

Spec == Init /\ [][Next]_vars

(* Threads are scheduled, connections succeed or fail, the agent ends      *)
(* within its budget, and pg_sleep is over after 30 seconds.  A session    *)
(* that waits for the row is passed over finitely often: every other one   *)
(* takes the row once.                                                     *)
FairSpec ==
  /\ Spec
  /\ \A d \in Demos : WF_vars(Serve(d))
  /\ \A x \in Workers : WF_vars(Work(x))

-----------------------------------------------------------------------------
TypeOK ==
  /\ pc \in [Demos -> {"idle", "starting", "agent", "joining", "answered", "failed"}]
  /\ joined \in [Demos -> Nat]
  /\ \A d \in Demos : joined[d] <= Cardinality(Threads(d))
  /\ stopped \subseteq Demos
  /\ started \subseteq LockDemos
  /\ worker \in [Workers -> {"none", "begun", "connected", "sleeping", "holding",
                             "finished", "closing", "closed"}]
  /\ row \in Contenders \cup {None}
  /\ failures \in 0..MaxFailures

(* backend.py:145-147: a demo never leaves background sessions dangling.   *)
(* By the time a demo answers, all its threads have ended and nothing of   *)
(* it holds the row.                                                       *)
NothingDangles ==
  \A d \in Demos : pc[d] = "answered" =>
    /\ \A i \in Threads(d) : worker[<<d, i>>] = "closed"
    /\ row # None => row[1] # d

(* What is left of that in general: only a slow demo, or a lock demo that  *)
(* shared the row with another one, may answer before its threads ended.   *)
LeftBehind ==
  \A d \in Demos : pc[d] = "answered" =>
    \/ d \in SlowDemos
    \/ d \in LockDemos /\ \E e \in LockDemos \ {d} : pc[e] # "idle"
    \/ \A i \in Threads(d) : worker[<<d, i>>] = "closed" /\ row # <<d, i>>

(* No session outlives its demo for ever, however demos overlap: as long   *)
(* as every thread can be started, all of them end, and the row is free.   *)
SessionsEnd ==
  <>[](\/ failures > 0
       \/ row = None /\ \A x \in Workers : worker[x] \in {"none", "closed"})

(* A demo whose injector runs is answered with the injector stopped,       *)
(* however the agent ends: joining never blocks for good, not even on      *)
(* threads that wait for those of another demo, or for a session that a    *)
(* demo left behind when one of its threads could not be started.          *)
DemosAnswer ==
  <>[]\A d \in Demos : \/ pc[d] = "idle"
                       \/ pc[d] = "failed" /\ Unspawned(d) # {}
                       \/ pc[d] = "answered" /\ d \in stopped
=============================================================================
