------------------------- MODULE RateLimitContract -------------------------
(***************************************************************************)
(* What the per-tool rate limiter of mcp_server/rate_limit.py promises to  *)
(* its callers, with no bucket in sight: a request is granted exactly when *)
(* granting it keeps EVERY window that ends now within the budget          *)
(*                                                                         *)
(*     grants in the window  <=  capacity + refill rate * its length       *)
(*                                                                         *)
(* so a limiter can neither over-grant nor refuse without need.            *)
(*                                                                         *)
(* Amounts are integers in fractions of a token: Unit is one whole token,  *)
(* Capacity a full bucket, RefillRate what one clock tick adds.            *)
(***************************************************************************)
EXTENDS Integers, Sequences

CONSTANTS
  Threads,     \* the callers (server worker threads)
  Keys,        \* the rate-limited tools
  None,        \* "no request"
  Capacity, RefillRate, Unit,
  MaxTime      \* bound on the clock

VARIABLES
  clock,       \* time.monotonic(), in ticks
  request,     \* request[t]: the key thread t is asking for, or None
  verdict,     \* verdict[t]: the answer to t's latest request
  granted      \* granted[k]: the times of all grants for k, in order

vars == <<clock, request, verdict, granted>>

(* A further grant for k at time `at' keeps every window within budget.    *)
WithinBudget(k, at) ==
  /\ Unit <= Capacity
  /\ \A i \in 1..Len(granted[k]) :
       (Len(granted[k]) - i + 2) * Unit
          <= Capacity + RefillRate * (at - granted[k][i])

Init ==
  /\ clock = 0
  /\ request = [t \in Threads |-> None]
  /\ verdict = [t \in Threads |-> "none"]
  /\ granted = [k \in Keys |-> << >>]

Tick ==
  /\ clock < MaxTime
  /\ clock' = clock + 1
  /\ UNCHANGED <<request, verdict, granted>>

Ask(t, k) ==
  /\ request[t] = None
  /\ request' = [request EXCEPT ![t] = k]
  /\ verdict' = [verdict EXCEPT ![t] = "none"]
  /\ UNCHANGED <<clock, granted>>

(* The decision is taken at some instant since the last grant: the limiter *)
(* reads its clock before it answers.                                      *)
Answer(t, at, v) ==
  /\ request[t] # None
  /\ \A i \in 1..Len(granted[request[t]]) : granted[request[t]][i] <= at
  /\ request' = [request EXCEPT ![t] = None]
  /\ verdict' = [verdict EXCEPT ![t] = v]
  /\ UNCHANGED clock

Grant(t, at) ==
  /\ Answer(t, at, "granted")
  /\ WithinBudget(request[t], at)
  /\ granted' = [granted EXCEPT ![request[t]] = Append(@, at)]

Deny(t, at) ==
  /\ Answer(t, at, "denied")
  /\ ~WithinBudget(request[t], at)
  /\ UNCHANGED granted

Next ==
  \/ Tick
  \/ \E t \in Threads, k \in Keys : Ask(t, k)
  \/ \E t \in Threads, at \in 0..clock : Grant(t, at) \/ Deny(t, at)

Spec == Init /\ [][Next]_vars
=============================================================================
