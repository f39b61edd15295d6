SPECIFICATION EvalSpec
CONSTANTS
  d1 = d1
  d2 = d2
  d3 = d3
  d4 = d4
  SlowDemos = {d1, d4}
  LockDemos = {d2}
  IdleDemos = {d3}
  IdleSessions = 3
  IdleAlarm = 2
  None = None
  Past = Past
  MaxFailures = 1
  Plan <- ThePlan
INVARIANTS EvalTypeOK ExitHonest LeftBehind
PROPERTIES Detected OwnCredit
CHECK_DEADLOCK FALSE
