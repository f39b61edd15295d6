SPECIFICATION FairSpec
CONSTANTS
  r1 = r1
  r2 = r2
  Runs = {r1, r2}
  None = None
  Invented = Invented
  MaxSteps <- Budgets
INVARIANTS TypeOK NothingMissed HonestClaim
PROPERTIES Implements VerdictReached
CHECK_DEADLOCK FALSE
