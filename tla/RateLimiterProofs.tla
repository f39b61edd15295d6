------------------------- MODULE RateLimiterProofs -------------------------
(***************************************************************************)
(* Proofs about the token bucket, for every number of threads, keys, every *)
(* capacity and every refill rate: type correctness, the window bound and  *)
(* the refinement of RateLimitContract.                                    *)
(*                                                                         *)
(* The argument.  The lock makes refill, test and take of one call a unit  *)
(* (LockInv), so `now' is still the bucket's `last' when the token is      *)
(* taken.  A bucket then always holds what the tightest window that starts *)
(* at a grant and ends at `last' has left (Budget: no more than that;      *)
(* Tight: no less, unless the bucket is full).  A grant needs a whole      *)
(* token, hence every window has room for it, and a denial means that one  *)
(* of them has not.                                                        *)
(***************************************************************************)
EXTENDS RateLimiter, SequenceTheorems, TLAPS

Inside == {"refill", "test", "take"}

(* Who is inside the critical section holds the lock and names a bucket.   *)
LockInv ==
  \A t \in Threads :
    /\ pc[t] = "idle" <=> request[t] = None
    /\ pc[t] \in Inside => lock = t /\ request[t] \in known
    /\ pc[t] \in {"test", "take"} => now[t] = last[request[t]]
    /\ pc[t] = "take" => tokens[request[t]] >= Unit

Fresh(k) == k \notin known => tokens[k] = Capacity /\ granted[k] = << >>

Past(k) ==
  /\ last[k] <= clock
  /\ \A i \in 1..Len(granted[k]) : granted[k][i] <= last[k]

Used(k, i) == (Len(granted[k]) - i + 1) * Unit + tokens[k]

Allowed(k, i) == Capacity + RefillRate * (last[k] - granted[k][i])

Budget(k) == \A i \in 1..Len(granted[k]) : Used(k, i) <= Allowed(k, i)

Tight(k) ==
  \/ tokens[k] = Capacity
  \/ \E i \in 1..Len(granted[k]) : Used(k, i) = Allowed(k, i)

BucketInv(k) == Fresh(k) /\ Past(k) /\ Budget(k) /\ Tight(k)

BucketsInv == \A k \in Keys : BucketInv(k)

IInv == TypeOK /\ LockInv /\ BucketsInv /\ WindowBound

(* What an action that leaves the bucket of k alone cannot disturb.        *)
Untouched(k) ==
  /\ tokens'[k] = tokens[k] /\ granted'[k] = granted[k] /\ last'[k] = last[k]
  /\ k \in known' <=> k \in known
  /\ clock <= clock'

LEMMA UntouchedBucket ==
  ASSUME TypeOK, TypeOK', NEW k \in Keys, BucketInv(k), Untouched(k)
  PROVE  BucketInv(k)'
<1>1. Fresh(k)'
  BY DEF BucketInv, Fresh, Untouched
<1>2. Past(k)'
  <2>. last[k] \in Int /\ clock \in Int /\ clock' \in Int
    BY DEF TypeOK
  <2>. QED  BY DEF BucketInv, Past, Untouched
<1>3. Budget(k)' /\ Tight(k)'
  BY DEF BucketInv, Budget, Tight, Used, Allowed, Untouched
<1>. QED  BY <1>1, <1>2, <1>3 DEF BucketInv

(* The initial states satisfy the invariant. *)
LEMMA InitInv == Init => IInv
<1>. SUFFICES ASSUME Init PROVE IInv
  OBVIOUS
<1>. USE LimiterAssumption
<1>1. TypeOK
  BY DEF Init, TypeOK
<1>2. LockInv
  BY DEF Init, LockInv, Inside
<1>3. BucketsInv
  BY DEF Init, BucketsInv, BucketInv, Fresh, Past, Budget, Tight
<1>4. WindowBound
  BY DEF Init, WindowBound
<1>. QED  BY <1>1, <1>2, <1>3, <1>4 DEF IInv
(* Type correctness is inductive together with LockInv and BucketsInv: the *)
(* tokens stay above zero only because Take runs after a successful Test.  *)
LEMMA TypeStep ==
  ASSUME IInv, [Next]_vars
  PROVE  TypeOK'
<1>. USE LimiterAssumption DEF IInv, TypeOK
<1>1. CASE Tick
  BY <1>1 DEF Tick
<1>2. CASE \E t \in Threads, k \in Keys : Call(t, k)
  BY <1>2 DEF Call, Goto
<1>3. CASE \E t \in Threads : Enter(t)
  <2>. PICK t \in Threads : Enter(t)
    BY <1>3
  <2>1. request[t] \in Keys
    BY DEF LockInv, Enter
  <2>. QED  BY <2>1 DEF Enter, Goto, Bucket
<1>4. CASE \E t \in Threads : Refill(t)
  <2>. PICK t \in Threads : Refill(t)
    BY <1>4
  <2>. DEFINE k == request[t]
  <2>1. k \in Keys /\ last[k] <= clock
    BY DEF LockInv, BucketsInv, BucketInv, Past, Refill, Inside
  <2>2. Refilled(k) \in 0..Capacity
    <3>. DEFINE added == (clock - last[k]) * RefillRate
    <3>1. added \in Nat
      <4>. clock - last[k] \in Nat
        BY <2>1
      <4>. HIDE DEF k
      <4>. QED  BY SMT
    <3>2. tokens[k] + added \in Nat
      BY <2>1, <3>1
    <3>. QED  BY <2>1, <3>2 DEF Refilled
  <2>. QED  BY <2>1, <2>2 DEF Refill, Goto
<1>5. CASE \E t \in Threads : Test(t)
  BY <1>5 DEF Test, Goto, Return
<1>6. CASE \E t \in Threads : Take(t)
  <2>. PICK t \in Threads : Take(t)
    BY <1>6
  <2>. DEFINE k == request[t]
  <2>1. k \in Keys /\ tokens[k] >= Unit
    BY DEF LockInv, Take, Inside
  <2>2. tokens[k] - Unit \in 0..Capacity
    BY <2>1
  <2>3. Append(granted[k], now[t]) \in Seq(0..MaxTime)
    BY <2>1
  <2>. QED  BY <2>1, <2>2, <2>3 DEF Take, Goto, Return
<1>7. CASE UNCHANGED vars
  BY <1>7 DEF vars
<1>. QED  BY <1>1, <1>2, <1>3, <1>4, <1>5, <1>6, <1>7 DEF Next, Step

(* The lock excludes: a step of one thread inside the critical section     *)
(* finds every other thread outside it.                                    *)
LEMMA LockStep ==
  ASSUME IInv, [Next]_vars
  PROVE  LockInv'
<1>. USE LimiterAssumption DEF IInv, TypeOK, LockInv, Inside
<1>1. CASE Tick
  BY <1>1 DEF Tick
<1>2. CASE \E t \in Threads, k \in Keys : Call(t, k)
  BY <1>2 DEF Call, Goto
<1>3. CASE \E t \in Threads : Enter(t)
  BY <1>3 DEF Enter, Goto, Bucket
<1>4. CASE \E t \in Threads : Refill(t)
  BY <1>4 DEF Refill, Goto
<1>5. CASE \E t \in Threads : Test(t)
  BY <1>5 DEF Test, Goto, Return, Enough
<1>6. CASE \E t \in Threads : Take(t)
  BY <1>6 DEF Take, Goto, Return
<1>7. CASE UNCHANGED vars
  BY <1>7 DEF vars
<1>. QED  BY <1>1, <1>2, <1>3, <1>4, <1>5, <1>6, <1>7 DEF Next, Step
(* The arithmetic of one bucket is arithmetic on integers. *)
LEMMA BucketType ==
  ASSUME TypeOK, NEW k \in Keys
  PROVE  /\ clock \in Nat /\ last[k] \in Nat
         /\ tokens[k] \in Nat /\ tokens[k] <= Capacity
         /\ granted[k] \in Seq(0..MaxTime) /\ Len(granted[k]) \in Nat
         /\ \A i \in 1..Len(granted[k]) :
              /\ granted[k][i] \in Nat
              /\ Used(k, i) \in Int /\ Allowed(k, i) \in Int
<1>. USE LimiterAssumption DEF TypeOK
<1>1. /\ clock \in Nat /\ last[k] \in Nat /\ tokens[k] \in Nat /\ tokens[k] <= Capacity
      /\ granted[k] \in Seq(0..MaxTime) /\ Len(granted[k]) \in Nat
  OBVIOUS
<1>2. ASSUME NEW i \in 1..Len(granted[k])
      PROVE  granted[k][i] \in Nat /\ Used(k, i) \in Int /\ Allowed(k, i) \in Int
  <2>1. granted[k][i] \in Nat
    BY <1>1, ElementOfSeq
  <2>2. (Len(granted[k]) - i + 1) * Unit \in Int
    BY <1>1
  <2>3. RefillRate * (last[k] - granted[k][i]) \in Int
    <3>1. last[k] - granted[k][i] \in Int
      BY <1>1, <2>1
    <3>. QED  BY <3>1
  <2>4. Used(k, i) \in Int
    BY <1>1, <2>2 DEF Used
  <2>5. Allowed(k, i) \in Int
    BY <2>3 DEF Allowed
  <2>. QED  BY <2>1, <2>4, <2>5
<1>. QED  BY <1>1, <1>2

(* A grant in room of the tightest window: what the two halves of the      *)
(* bucket invariant say when a token is there, and when it is not.         *)
LEMMA Room ==
  ASSUME TypeOK, NEW k \in Keys, BucketInv(k)
  PROVE  tokens[k] >= Unit <=>
           /\ Unit <= Capacity
           /\ \A i \in 1..Len(granted[k]) : Used(k, i) - tokens[k] + Unit <= Allowed(k, i)
<1>. USE LimiterAssumption
<1>1. ASSUME NEW i \in 1..Len(granted[k])
      PROVE  Used(k, i) \in Int /\ Allowed(k, i) \in Int
  BY BucketType
<1>2. tokens[k] \in Nat /\ tokens[k] <= Capacity
  BY BucketType
<1>3. ASSUME tokens[k] >= Unit, NEW i \in 1..Len(granted[k])
      PROVE  Used(k, i) - tokens[k] + Unit <= Allowed(k, i)
  BY <1>1, <1>2, <1>3 DEF BucketInv, Budget
<1>4. ASSUME tokens[k] < Unit, Unit <= Capacity
      PROVE  \E i \in 1..Len(granted[k]) : Used(k, i) - tokens[k] + Unit > Allowed(k, i)
  <2>1. PICK i \in 1..Len(granted[k]) : Used(k, i) = Allowed(k, i)
    BY <1>2, <1>4 DEF BucketInv, Tight
  <2>. QED  BY <1>1, <1>2, <1>4, <2>1
<1>5. CASE tokens[k] >= Unit
  BY <1>2, <1>3, <1>5
<1>6. CASE tokens[k] < Unit
  <2>1. CASE Unit <= Capacity
    BY <1>1, <1>2, <1>4, <1>6, <2>1
  <2>. QED  BY <1>2, <1>6, <2>1
<1>. QED  BY <1>2, <1>5, <1>6

(* Refill moves the window's end and the bucket by the same amount.        *)
LEMMA RefillBucket ==
  ASSUME IInv, TypeOK', NEW t \in Threads, Refill(t), NEW k \in Keys, request[t] = k
  PROVE  BucketInv(k)'
<1>. DEFINE added == (clock - last[k]) * RefillRate
<1>. USE LimiterAssumption DEF IInv
<1>1. k \in Keys /\ k \in known /\ BucketInv(k)
  BY DEF LockInv, BucketsInv, Refill, Inside, TypeOK
<1>2. /\ tokens'[k] = Refilled(k) /\ last'[k] = clock /\ granted' = granted
      /\ known' = known /\ clock' = clock
  BY <1>1 DEF Refill, TypeOK
<1>3. /\ clock \in Nat /\ last[k] \in Nat /\ last[k] <= clock /\ tokens[k] \in Nat
      /\ Len(granted[k]) \in Nat
      /\ \A i \in 1..Len(granted[k]) : granted[k][i] \in Nat /\ granted[k][i] <= last[k]
  BY <1>1, BucketType DEF BucketInv, Past
<1>4. added \in Nat
  <2>. clock - last[k] \in Nat
    BY <1>3
  <2>. QED  BY SMT
<1>5. ASSUME NEW i \in 1..Len(granted[k])
      PROVE  /\ Allowed(k, i)' = Allowed(k, i) + added
             /\ Used(k, i)' = Used(k, i) - tokens[k] + Refilled(k)
             /\ Used(k, i) \in Int /\ Allowed(k, i) \in Int
  <2>. DEFINE g == granted[k][i]
              n == Len(granted[k])
  <2>1. g \in Nat /\ n \in Nat /\ i \in Nat
    BY <1>3
  <2>2. /\ Allowed(k, i)' = Capacity + RefillRate * (clock - g)
        /\ Used(k, i)' = (n - i + 1) * Unit + Refilled(k)
    BY <1>2 DEF Allowed, Used
  <2>3. Allowed(k, i) = Capacity + RefillRate * (last[k] - g)
    BY DEF Allowed
  <2>4. Used(k, i) = (n - i + 1) * Unit + tokens[k]
    BY DEF Used
  <2>5. RefillRate * (clock - g) = RefillRate * (last[k] - g) + added
    <3>. HIDE DEF g, n
    <3>. QED  BY <1>3, <2>1
  <2>6. /\ (n - i + 1) * Unit \in Int /\ RefillRate * (last[k] - g) \in Int
        /\ Refilled(k) \in Int
    BY <1>1, <1>3, <1>4, <2>1 DEF Refilled
  <2>7. Allowed(k, i)' = Allowed(k, i) + added
    BY <2>2, <2>3, <2>5, <1>4, <2>6
  <2>8. Used(k, i)' = Used(k, i) - tokens[k] + Refilled(k)
    <3>. DEFINE spent == (n - i + 1) * Unit
    <3>1. spent \in Int /\ Used(k, i)' = spent + Refilled(k) /\ Used(k, i) = spent + tokens[k]
      BY <2>2, <2>4, <2>6
    <3>. HIDE DEF spent
    <3>. QED  BY <1>3, <2>6, <3>1
  <2>. QED  BY <1>1, <2>7, <2>8, BucketType
<1>6. /\ Refilled(k) \in Int /\ Refilled(k) <= tokens[k] + added
      /\ Refilled(k) = tokens[k] + added \/ Refilled(k) = Capacity
  BY <1>3, <1>4 DEF Refilled
<1>. HIDE DEF added
<1>7. Budget(k)' /\ Tight(k)'
  <2>1. Budget(k)'
    BY <1>1, <1>2, <1>3, <1>4, <1>5, <1>6 DEF BucketInv, Budget
  <2>2. CASE Refilled(k) = Capacity
    BY <1>2, <2>1, <2>2 DEF Tight
  <2>3. CASE tokens[k] + added = Refilled(k)
    <3>1. CASE tokens[k] = Capacity
      BY <1>2, <1>3, <1>4, <3>1, <2>3, <2>2 DEF Refilled, added
    <3>2. CASE \E i \in 1..Len(granted[k]) : Used(k, i) = Allowed(k, i)
      BY <1>2, <1>3, <1>4, <1>5, <2>1, <2>3, <3>2 DEF Tight
    <3>. QED  BY <1>1, <3>1, <3>2 DEF BucketInv, Tight
  <2>. QED  BY <1>6, <2>1, <2>2, <2>3
<1>8. Fresh(k)' /\ Past(k)'
  <2>. ASSUME NEW i \in 1..Len(granted[k]) PROVE granted[k][i] <= clock
    BY <1>3
  <2>. QED  BY <1>1, <1>2, <1>3 DEF Fresh, Past
<1>. QED  BY <1>7, <1>8 DEF BucketInv
(* What Take does to its bucket: the new grant is the last one, and it is  *)
(* dated by the bucket's own clock.                                        *)
LEMMA TakeGrants ==
  ASSUME IInv, NEW t \in Threads, Take(t), NEW k \in Keys, request[t] = k
  PROVE  /\ Len(granted'[k]) = Len(granted[k]) + 1
         /\ \A i \in 1..Len(granted[k]) : granted'[k][i] = granted[k][i]
         /\ granted'[k][Len(granted[k]) + 1] = last[k]
         /\ now[t] = last[k] /\ k \in known /\ tokens[k] >= Unit
         /\ last' = last /\ clock' = clock /\ known' = known
         /\ tokens'[k] = tokens[k] - Unit
<1>1. now[t] = last[k] /\ k \in known /\ tokens[k] >= Unit
  BY DEF IInv, LockInv, Inside, Take
<1>2. granted[k] \in Seq(0..MaxTime) /\ now[t] \in 0..MaxTime
  BY DEF IInv, TypeOK
<1>3. granted'[k] = Append(granted[k], now[t])
  BY DEF IInv, TypeOK, Take
<1>. QED  BY <1>1, <1>2, <1>3, AppendProperties DEF Take, IInv, TypeOK

(* A token moves from the bucket to the grants: what is used up stays.     *)
LEMMA TakeBucket ==
  ASSUME IInv, TypeOK', NEW t \in Threads, Take(t), NEW k \in Keys, request[t] = k
  PROVE  BucketInv(k)'
<1>. USE LimiterAssumption DEF IInv
<1>. PICK n \in Nat : n = Len(granted[k])
  BY BucketType
<1>0. /\ Len(granted'[k]) = n + 1
      /\ \A i \in 1..n : granted'[k][i] = granted[k][i]
      /\ granted'[k][n + 1] = last[k]
      /\ now[t] = last[k] /\ k \in known /\ tokens[k] >= Unit
      /\ last' = last /\ clock' = clock /\ known' = known
      /\ tokens'[k] = tokens[k] - Unit
  BY TakeGrants
<1>1. /\ n \in Nat /\ tokens[k] \in Nat /\ tokens[k] <= Capacity /\ last[k] \in Nat
      /\ \A i \in 1..n : Used(k, i) \in Int /\ Allowed(k, i) \in Int
  BY BucketType
<1>2. BucketInv(k)
  BY DEF BucketsInv
<1>3. ASSUME NEW i \in 1..n
      PROVE  Used(k, i)' = Used(k, i) /\ Allowed(k, i)' = Allowed(k, i)
  <2>1. Allowed(k, i)' = Allowed(k, i)
    BY <1>0 DEF Allowed
  <2>2. Used(k, i)' = (n + 1 - i + 1) * Unit + (tokens[k] - Unit)
    BY <1>0 DEF Used
  <2>3. Used(k, i) = (n - i + 1) * Unit + tokens[k]
    BY DEF Used
  <2>4. (n + 1 - i + 1) * Unit = (n - i + 1) * Unit + Unit
    BY <1>1
  <2>5. (n - i + 1) * Unit \in Int
    BY <1>1
  <2>. DEFINE spent == (n - i + 1) * Unit
  <2>6. spent \in Int /\ Used(k, i)' = spent + Unit + (tokens[k] - Unit)
        /\ Used(k, i) = spent + tokens[k]
    BY <2>2, <2>3, <2>4, <2>5
  <2>. HIDE DEF spent
  <2>. QED  BY <1>1, <2>1, <2>6
<1>4. Used(k, n + 1)' = tokens[k] /\ Allowed(k, n + 1)' = Capacity
  <2>1. Used(k, n + 1)' = (n + 1 - (n + 1) + 1) * Unit + (tokens[k] - Unit)
    BY <1>0 DEF Used
  <2>2. Allowed(k, n + 1)' = Capacity + RefillRate * (last[k] - last[k])
    BY <1>0 DEF Allowed
  <2>. QED  BY <1>1, <2>1, <2>2
<1>5. Budget(k)'
  <2>. SUFFICES ASSUME NEW i \in 1..n + 1 PROVE Used(k, i)' <= Allowed(k, i)'
    BY <1>0 DEF Budget
  <2>1. CASE i = n + 1
    BY <1>1, <1>4, <2>1
  <2>2. CASE i \in 1..n
    BY <1>2, <1>3, <2>2 DEF BucketInv, Budget
  <2>3. i = n + 1 \/ i \in 1..n
    OBVIOUS
  <2>. QED  BY <2>1, <2>2, <2>3
<1>6. Tight(k)'
  <2>1. CASE tokens[k] = Capacity
    BY <1>0, <1>1, <1>4, <2>1 DEF Tight
  <2>2. CASE \E i \in 1..n : Used(k, i) = Allowed(k, i)
    <3>1. PICK i \in 1..n : Used(k, i) = Allowed(k, i)
      BY <2>2
    <3>. QED  BY <1>1, <1>3, <3>1, <1>0 DEF Tight
  <2>. QED  BY <1>2, <2>1, <2>2 DEF BucketInv, Tight
<1>7. Fresh(k)' /\ Past(k)'
  <2>1. Fresh(k)'
    BY <1>0 DEF Fresh
  <2>2. ASSUME NEW i \in 1..n + 1 PROVE granted'[k][i] <= last[k]
    <3>1. CASE i = n + 1
      BY <1>0, <1>1, <3>1
    <3>2. CASE i \in 1..n
      BY <1>0, <1>2, <3>2 DEF BucketInv, Past
    <3>3. i = n + 1 \/ i \in 1..n
      OBVIOUS
    <3>. QED  BY <3>1, <3>2, <3>3
  <2>. QED  BY <1>0, <1>2, <2>1, <2>2 DEF BucketInv, Past
<1>. QED  BY <1>5, <1>6, <1>7 DEF BucketInv

LEMMA BucketsStep ==
  ASSUME IInv, [Next]_vars, TypeOK'
  PROVE  BucketsInv'
<1>. SUFFICES ASSUME NEW k \in Keys PROVE BucketInv(k)'
  BY DEF BucketsInv
<1>. USE LimiterAssumption DEF IInv
<1>0. BucketInv(k)
  BY DEF BucketsInv
<1>a. last[k] \in Nat /\ clock \in Nat
  BY BucketType
<1>1. CASE Tick
  <2>. Untouched(k)
    BY <1>1, <1>a DEF Tick, Untouched
  <2>. QED  BY <1>0, UntouchedBucket
<1>2. CASE \E t \in Threads, l \in Keys : Call(t, l)
  <2>. Untouched(k)
    BY <1>2, <1>a DEF Call, Untouched
  <2>. QED  BY <1>0, UntouchedBucket
<1>3. CASE \E t \in Threads : Enter(t)
  <2>1. PICK t \in Threads : Enter(t)
    BY <1>3
  <2>2. CASE request[t] = k /\ k \notin known
    <3>1. /\ tokens'[k] = Capacity /\ granted'[k] = << >> /\ last'[k] = clock
          /\ clock' = clock /\ k \in known'
      BY <2>1, <2>2, <1>0 DEF Enter, Bucket, BucketInv, Fresh, TypeOK
    <3>. QED  BY <1>a, <3>1 DEF BucketInv, Fresh, Past, Budget, Tight
  <2>3. CASE request[t] # k \/ k \in known
    <3>. Untouched(k)
      BY <1>a, <2>1, <2>3 DEF Enter, Bucket, Untouched, TypeOK
    <3>. QED  BY <1>0, UntouchedBucket
  <2>. QED  BY <2>2, <2>3
<1>4. CASE \E t \in Threads : Refill(t)
  <2>1. PICK t \in Threads : Refill(t)
    BY <1>4
  <2>2. CASE request[t] = k
    BY <2>1, <2>2, RefillBucket
  <2>3. CASE request[t] # k
    <3>. Untouched(k)
      BY <1>a, <2>1, <2>3 DEF Refill, Untouched, TypeOK
    <3>. QED  BY <1>0, UntouchedBucket
  <2>. QED  BY <2>2, <2>3
<1>5. CASE \E t \in Threads : Test(t)
  <2>. Untouched(k)
    BY <1>5, <1>a DEF Test, Untouched
  <2>. QED  BY <1>0, UntouchedBucket
<1>6. CASE \E t \in Threads : Take(t)
  <2>1. PICK t \in Threads : Take(t)
    BY <1>6
  <2>2. CASE request[t] = k
    BY <2>1, <2>2, TakeBucket
  <2>3. CASE request[t] # k
    <3>. Untouched(k)
      BY <1>a, <2>1, <2>3 DEF Take, Untouched, TypeOK
    <3>. QED  BY <1>0, UntouchedBucket
  <2>. QED  BY <2>2, <2>3
<1>7. CASE UNCHANGED vars
  <2>. Untouched(k)
    BY <1>7, <1>a DEF vars, Untouched
  <2>. QED  BY <1>0, UntouchedBucket
<1>. QED  BY <1>1, <1>2, <1>3, <1>4, <1>5, <1>6, <1>7 DEF Next, Step
(* The windows that end at the new grant have room because its bucket had  *)
(* a token; the older windows are unchanged.                               *)
LEMMA WindowStep ==
  ASSUME IInv, [Next]_vars
  PROVE  WindowBound'
<1>. USE LimiterAssumption
<1>1. CASE granted' = granted
  BY <1>1 DEF IInv, WindowBound
<1>2. CASE \E t \in Threads : Take(t)
  <2>. PICK t \in Threads : Take(t)
    BY <1>2
  <2>. SUFFICES ASSUME NEW k \in Keys, NEW j \in 1..Len(granted'[k]), NEW i \in 1..j
                PROVE (j - i + 1) * Unit
                        <= Capacity + RefillRate * (granted'[k][j] - granted'[k][i])
    BY DEF WindowBound
  <2>. PICK n \in Nat : n = Len(granted[k])
    BY BucketType DEF IInv
  <2>1. CASE granted'[k] = granted[k]
    BY <2>1 DEF IInv, WindowBound
  <2>2. CASE request[t] = k
    <3>0. /\ Len(granted'[k]) = n + 1
          /\ \A l \in 1..n : granted'[k][l] = granted[k][l]
          /\ granted'[k][n + 1] = last[k] /\ tokens[k] >= Unit
      BY <2>2, TakeGrants
    <3>1. CASE j # n + 1
      <4>. j \in 1..n /\ i \in 1..n
        BY <3>0, <3>1
      <4>. QED  BY <3>0 DEF IInv, WindowBound
    <3>2. BucketInv(k)
      BY DEF IInv, BucketsInv
    <3>3. CASE j = n + 1 /\ i = n + 1
      <4>1. Unit <= Capacity
        BY <3>0, <3>2, Room DEF IInv
      <4>2. last[k] \in Nat
        BY BucketType DEF IInv
      <4>3. granted'[k][j] = last[k] /\ granted'[k][i] = last[k] /\ j - i + 1 = 1
        BY <3>0, <3>3
      <4>. QED  BY <4>1, <4>2, <4>3
    <3>4. CASE j = n + 1 /\ i \in 1..n
      <4>1. Used(k, i) - tokens[k] + Unit <= Allowed(k, i)
        BY <3>0, <3>2, <3>4, Room DEF IInv
      <4>2. Allowed(k, i) = Capacity + RefillRate * (granted'[k][j] - granted'[k][i])
        BY <3>0, <3>4 DEF Allowed
      <4>. DEFINE spent == (n - i + 1) * Unit
      <4>3. Used(k, i) = spent + tokens[k]
        BY DEF Used
      <4>4. spent \in Int /\ spent + Unit = (j - i + 1) * Unit
        BY <3>4
      <4>5. tokens[k] \in Nat /\ Allowed(k, i) \in Int
        BY <3>4, BucketType DEF IInv
      <4>. HIDE DEF spent
      <4>6. spent + Unit <= Allowed(k, i)
        BY <4>1, <4>3, <4>4, <4>5
      <4>. QED  BY <4>2, <4>4, <4>6
    <3>5. j = n + 1 \/ j # n + 1
      OBVIOUS
    <3>6. j = n + 1 => i = n + 1 \/ i \in 1..n
      OBVIOUS
    <3>. QED  BY <3>1, <3>3, <3>4, <3>5, <3>6
  <2>3. CASE request[t] # k
    BY <2>1, <2>3 DEF Take, IInv, TypeOK
  <2>. QED  BY <2>2, <2>3
<1>3. granted' = granted \/ \E t \in Threads : Take(t)
  BY DEF Next, vars, Tick, Call, Step, Enter, Refill, Test
<1>. QED  BY <1>1, <1>2, <1>3

(* The invariant holds throughout. *)
THEOREM Invariance == Spec => []IInv
<1>1. Init => IInv
  BY InitInv
<1>2. IInv /\ [Next]_vars => IInv'
  BY TypeStep, LockStep, BucketsStep, WindowStep DEF IInv
<1>. QED  BY <1>1, <1>2, PTL DEF Spec

(* Bucket levels stay between empty and full (rate_limit.py 40-43), and    *)
(* everything else has its type.                                           *)
THEOREM TypeCorrect == Spec => []TypeOK
<1>1. IInv => TypeOK
  BY DEF IInv
<1>. QED  BY <1>1, Invariance, PTL

(* No window of time sees more grants than a full bucket plus its refill,  *)
(* whatever the number of threads and however they interleave.             *)
THEOREM WindowsBounded == Spec => []WindowBound
<1>1. IInv => WindowBound
  BY DEF IInv
<1>. QED  BY <1>1, Invariance, PTL
(* A whole token in the bucket is the abstract "every window has room".    *)
LEMMA TokenIsRoom ==
  ASSUME IInv, NEW t \in Threads, pc[t] \in {"test", "take"}
  PROVE  /\ request[t] \in Keys /\ now[t] \in 0..clock
         /\ \A i \in 1..Len(granted[request[t]]) : granted[request[t]][i] <= now[t]
         /\ Enough(request[t]) <=> Contract!WithinBudget(request[t], now[t])
<1>. USE LimiterAssumption
<1>. PICK k \in Keys : request[t] = k
  BY DEF IInv, LockInv, Inside, TypeOK
<1>. PICK n \in Nat : n = Len(granted[k])
  BY BucketType DEF IInv
<1>1. now[t] = last[k] /\ BucketInv(k)
  BY DEF IInv, LockInv, BucketsInv
<1>2. /\ last[k] \in Nat /\ clock \in Nat /\ tokens[k] \in Nat
      /\ \A i \in 1..n : /\ granted[k][i] \in Nat
                         /\ Used(k, i) \in Int /\ Allowed(k, i) \in Int
  BY BucketType DEF IInv
<1>3. now[t] \in 0..clock /\ \A i \in 1..n : granted[k][i] <= now[t]
  BY <1>1, <1>2 DEF BucketInv, Past
<1>4. ASSUME NEW i \in 1..n
      PROVE  Used(k, i) - tokens[k] + Unit = (n - i + 2) * Unit
  <2>. DEFINE spent == (n - i + 1) * Unit
  <2>1. Used(k, i) = spent + tokens[k]
    BY DEF Used
  <2>2. spent \in Int /\ spent + Unit = (n - i + 2) * Unit
    OBVIOUS
  <2>. HIDE DEF spent
  <2>. QED  BY <1>2, <2>1, <2>2
<1>5. ASSUME NEW i \in 1..n
      PROVE  Allowed(k, i) = Capacity + RefillRate * (now[t] - granted[k][i])
  BY <1>1 DEF Allowed
<1>6. Contract!WithinBudget(k, now[t]) <=>
        /\ Unit <= Capacity
        /\ \A i \in 1..n : Used(k, i) - tokens[k] + Unit <= Allowed(k, i)
  BY <1>4, <1>5 DEF Contract!WithinBudget
<1>7. Enough(k) <=> Contract!WithinBudget(k, now[t])
  BY <1>1, <1>6, Room DEF IInv, Enough
<1>. QED  BY <1>3, <1>7

(* Every step of the bucket is a step of the contract or changes nothing   *)
(* the contract sees: only Take grants, only a failed Test denies.         *)
LEMMA StepRefines ==
  ASSUME IInv, [Next]_vars
  PROVE  [Contract!Next]_(Contract!vars)
<1>. USE LimiterAssumption
<1>1. CASE Tick
  BY <1>1 DEF Tick, Contract!Next, Contract!Tick
<1>2. CASE \E t \in Threads, k \in Keys : Call(t, k)
  <2>. PICK t \in Threads, k \in Keys : Call(t, k)
    BY <1>2
  <2>. Contract!Ask(t, k)
    BY DEF Call, Contract!Ask, IInv, LockInv
  <2>. QED  BY DEF Contract!Next
<1>3. CASE \E t \in Threads : Enter(t) \/ Refill(t)
  BY <1>3 DEF Enter, Refill, Contract!vars
<1>4. CASE \E t \in Threads : Test(t)
  <2>. PICK t \in Threads : Test(t)
    BY <1>4
  <2>1. CASE Enough(request[t])
    BY <2>1 DEF Test, Contract!vars
  <2>2. CASE ~Enough(request[t])
    <3>1. /\ request[t] # None
          /\ request' = [request EXCEPT ![t] = None]
          /\ verdict' = [verdict EXCEPT ![t] = "denied"]
          /\ UNCHANGED <<clock, granted>>
      BY <2>2, TokenIsRoom DEF Test, Return
    <3>2. Contract!Deny(t, now[t]) /\ now[t] \in 0..clock
      BY <2>2, <3>1, TokenIsRoom DEF Test, Contract!Deny, Contract!Answer
    <3>. QED  BY <3>2 DEF Contract!Next
  <2>. QED  BY <2>1, <2>2
<1>5. CASE \E t \in Threads : Take(t)
  <2>. PICK t \in Threads : Take(t)
    BY <1>5
  <2>1. Enough(request[t])
    BY DEF Take, IInv, LockInv, Enough
  <2>2. /\ request[t] # None
        /\ request' = [request EXCEPT ![t] = None]
        /\ verdict' = [verdict EXCEPT ![t] = "granted"]
        /\ granted' = [granted EXCEPT ![request[t]] = Append(@, now[t])]
        /\ UNCHANGED clock
    BY TokenIsRoom DEF Take, Return
  <2>3. Contract!Grant(t, now[t]) /\ now[t] \in 0..clock
    BY <2>1, <2>2, TokenIsRoom DEF Take, Contract!Grant, Contract!Answer
  <2>. QED  BY <2>3 DEF Contract!Next
<1>6. CASE UNCHANGED vars
  BY <1>6 DEF vars, Contract!vars
<1>. QED  BY <1>1, <1>2, <1>3, <1>4, <1>5, <1>6 DEF Next, Step

(* try_acquire, taken apart by any schedule of any number of threads,      *)
(* answers every call as RateLimitContract prescribes.                     *)
THEOREM Refinement == Spec => ImplementsContract
<1>1. Init => Contract!Init
  BY DEF Init, Contract!Init
<1>2. IInv /\ [Next]_vars => [Contract!Next]_(Contract!vars)
  BY StepRefines
<1>. QED  BY <1>1, <1>2, Invariance, PTL DEF Spec, ImplementsContract, Contract!Spec

=============================================================================
