\* Two request threads share a checked and an unchecked tool; the bucket of a
\* tool holds one token, so the second call of a tool is refused until a tick.
SPECIFICATION FairSpec
CONSTANTS
  Threads = {t1, t2}
  Tools = {checked, unchecked}
  Checked = {checked}
  None = None
  Capacity = 2
  RefillRate = 1
  Unit = 2
  MaxTime = 1
  MaxCalls = 3
INVARIANTS TypeOK AuditedOnce GaugeExact MetricsMatchLog TokensAccounted
PROPERTIES Answered
CHECK_DEADLOCK FALSE
