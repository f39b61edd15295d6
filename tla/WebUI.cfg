\* Requests one after the other and overlapping, answered in any order.
SPECIFICATION AppSpec
CONSTANTS
  Requests = {q1, q2, q3}
  None = None
  Shown = {"rule", "anthropic", "ollama"}
  MaxFlips = 1
INVARIANTS NothingStaleAlone OnePicture ButtonReturns OfferKept AutoOffered
SYMMETRY Symmetry
CHECK_DEADLOCK FALSE
