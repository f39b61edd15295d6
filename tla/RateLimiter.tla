---------------------------- MODULE RateLimiter ----------------------------
(***************************************************************************)
(* The token-bucket rate limiter of mcp_server/rate_limit.py, shared by    *)
(* every thread that calls a tool.  try_acquire is taken apart into the    *)
(* steps between which the interpreter may switch threads or the clock     *)
(* may advance; only self._lock keeps the steps of one call together.      *)
(*                                                                         *)
(* Amounts are integers in fractions of a token (Unit = 1.0 token); the    *)
(* rounding of the float arithmetic is not modelled.                       *)
(***************************************************************************)
EXTENDS Integers, Sequences

CONSTANTS Threads, Keys, None, Capacity, RefillRate, Unit, MaxTime

ASSUME LimiterAssumption ==
  /\ None \notin Threads \cup Keys
  /\ Capacity \in Nat /\ RefillRate \in Nat
  /\ Unit \in Nat \ {0} /\ MaxTime \in Nat

VARIABLES
  clock,     \* time.monotonic()
  lock,      \* the holder of self._lock, or None
  pc,        \* where each thread is inside try_acquire
  request,   \* the key argument of each thread's call, None outside a call
  now,       \* the local variable `now' of each call
  known,     \* the keys of the dict self._buckets
  tokens,    \* b.tokens of each bucket
  last,      \* b.last of each bucket
  verdict,   \* what the thread's latest call returned
  granted    \* history: the times of the grants for each key

vars == <<clock, lock, pc, request, now, known, tokens, last, verdict, granted>>

Init ==
  /\ clock = 0
  /\ lock = None
  /\ pc = [t \in Threads |-> "idle"]
  /\ request = [t \in Threads |-> None]
  /\ now = [t \in Threads |-> 0]
  /\ known = {}
  /\ tokens = [k \in Keys |-> Capacity]
  /\ last = [k \in Keys |-> 0]
  /\ verdict = [t \in Threads |-> "none"]
  /\ granted = [k \in Keys |-> << >>]

Tick ==
  /\ clock < MaxTime
  /\ clock' = clock + 1
  /\ UNCHANGED <<lock, pc, request, now, known, tokens, last, verdict, granted>>

Goto(t, label) == pc' = [pc EXCEPT ![t] = label]

Call(t, k) ==
  /\ pc[t] = "idle"
  /\ Goto(t, "lock")
  /\ request' = [request EXCEPT ![t] = k]
  /\ verdict' = [verdict EXCEPT ![t] = "none"]
  /\ UNCHANGED <<clock, lock, now, known, tokens, last, granted>>

(* self._bucket(key): a key seen for the first time gets a full bucket.    *)
Bucket(k) ==
  /\ known' = known \cup {k}
  /\ tokens' = IF k \in known THEN tokens ELSE [tokens EXCEPT ![k] = Capacity]
  /\ last' = IF k \in known THEN last ELSE [last EXCEPT ![k] = clock]

\* Mutant: the lock is not waited for.
EnterUnlocked(t) ==
  /\ pc[t] = "lock"
  /\ lock' = t
  /\ Goto(t, "refill")
  /\ Bucket(request[t])
  /\ UNCHANGED <<clock, request, now, verdict, granted>>

Enter(t) ==
  /\ pc[t] = "lock"
  /\ lock = None
  /\ lock' = t
  /\ Goto(t, "refill")
  /\ Bucket(request[t])
  /\ UNCHANGED <<clock, request, now, verdict, granted>>

\* Mutant: the refill is not capped at the capacity of the bucket.
RefilledUncapped(k) == tokens[k] + (clock - last[k]) * RefillRate

Refilled(k) ==
  LET sum == tokens[k] + (clock - last[k]) * RefillRate
  IN  IF sum < Capacity THEN sum ELSE Capacity

Refill(t) ==
  /\ pc[t] = "refill"
  /\ Goto(t, "test")
  /\ now' = [now EXCEPT ![t] = clock]
  /\ tokens' = [tokens EXCEPT ![request[t]] = Refilled(request[t])]
  /\ last' = [last EXCEPT ![request[t]] = clock]
  /\ UNCHANGED <<clock, lock, request, known, verdict, granted>>

Return(t, v) ==
  /\ Goto(t, "idle")
  /\ request' = [request EXCEPT ![t] = None]
  /\ verdict' = [verdict EXCEPT ![t] = v]
  /\ lock' = None

\* Mutant: `b.tokens > 1.0' instead of `b.tokens >= 1.0'.
EnoughStrict(k) == tokens[k] > Unit

Enough(k) == tokens[k] >= Unit

Test(t) ==
  /\ pc[t] = "test"
  /\ IF Enough(request[t])
     THEN Goto(t, "take") /\ UNCHANGED <<request, verdict, lock>>
     ELSE Return(t, "denied")
  /\ UNCHANGED <<clock, now, known, tokens, last, granted>>

Take(t) ==
  /\ pc[t] = "take"
  /\ tokens' = [tokens EXCEPT ![request[t]] = @ - Unit]
  /\ granted' = [granted EXCEPT ![request[t]] = Append(@, now[t])]
  /\ Return(t, "granted")
  /\ UNCHANGED <<clock, now, known, last>>

Step(t) == Enter(t) \/ Refill(t) \/ Test(t) \/ Take(t)

Next ==
  \/ Tick
  \/ \E t \in Threads : Step(t) \/ \E k \in Keys : Call(t, k)

Spec == Init /\ [][Next]_vars

-----------------------------------------------------------------------------
(* Type correctness, with the range of the bucket: never below zero, never *)
(* above its capacity.                                                     *)
TypeOK ==
  /\ clock \in 0..MaxTime
  /\ lock \in Threads \cup {None}
  /\ pc \in [Threads -> {"idle", "lock", "refill", "test", "take"}]
  /\ request \in [Threads -> Keys \cup {None}]
  /\ now \in [Threads -> 0..MaxTime]
  /\ known \in SUBSET Keys
  /\ tokens \in [Keys -> 0..Capacity]
  /\ last \in [Keys -> 0..MaxTime]
  /\ verdict \in [Threads -> {"none", "granted", "denied"}]
  /\ granted \in [Keys -> Seq(0..MaxTime)]

(* The promise to the database: in no window of time, wherever it starts   *)
(* and ends, are more calls of a tool let through than a full bucket plus  *)
(* what is refilled during the window.                                     *)
WindowBound ==
  \A k \in Keys : \A j \in 1..Len(granted[k]) : \A i \in 1..j :
    (j - i + 1) * Unit <= Capacity + RefillRate * (granted[k][j] - granted[k][i])

(* Every interleaving of try_acquire answers as the contract does: grants  *)
(* exactly when every window allows it, one key never pays for another.    *)
Contract == INSTANCE RateLimitContract
ImplementsContract == Contract!Spec
=============================================================================
