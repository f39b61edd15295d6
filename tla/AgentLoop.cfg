SPECIFICATION TSpec
CONSTANTS
  r1 = r1
  r2 = r2
  Runs = {r1, r2}
  Providers <- Engines
  None = None
  Invented = Invented
  MaxSteps <- Budgets
  MaxBatch <- Batch
  MaxFindings = 2
INVARIANTS TypeOK GroundTruth CrossCheckSound Paired Resumable
PROPERTIES RunsEnd
CHECK_DEADLOCK FALSE
