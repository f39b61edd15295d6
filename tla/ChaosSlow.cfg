SPECIFICATION Spec
CONSTANTS
  SlowDemos = {d1}
  LockDemos = {}
  IdleDemos = {}
  IdleSessions = 1
  None = None
  MaxFailures = 0
INVARIANTS NothingDangles
CHECK_DEADLOCK FALSE
