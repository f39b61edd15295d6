SPECIFICATION Spec
CONSTANTS
  Requests = {q1, q2}
  None = None
INVARIANTS NoStaleDiagnosis
CHECK_DEADLOCK FALSE
