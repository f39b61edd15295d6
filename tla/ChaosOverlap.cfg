SPECIFICATION FairSpec
CONSTANTS
  SlowDemos = {d3}
  LockDemos = {d1, d2}
  IdleDemos = {}
  IdleSessions = 1
  None = None
  MaxFailures = 1
PROPERTIES SessionsEnd DemosAnswer
CHECK_DEADLOCK FALSE
