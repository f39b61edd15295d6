\* One token is two fractions, so half-refilled buckets occur; a full bucket
\* holds two tokens and one tick refills half a token.
SPECIFICATION Spec
CONSTANTS
  Threads = {t1, t2}
  Keys = {k1, k2}
  None = None
  Capacity = 4
  RefillRate = 1
  Unit = 2
  MaxTime = 3
INVARIANTS TypeOK WindowBound
PROPERTIES ImplementsContract
CHECK_DEADLOCK FALSE
