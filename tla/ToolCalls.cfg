\* Two sessions and a limit of one: the cap binds.  The caps are one below every
\* default, one between the defaults, and the one the program is delivered with.
SPECIFICATION Spec
CONSTANTS
  Backends = {b1, b2}
  Queries = {q1, q2}
  Caps = {1, 60, 200}
  Limits = {0, 1, 200, 201}
  Ages <- GivenAges
  ShortAge = 1
  LongAge = 2
  Sizes = {0, 1, 300}
  None = None
  MaxTime = 2
  MaxStatements = 3
INVARIANTS OneInterface RowCap SlowFound
SYMMETRY Symmetry
CHECK_DEADLOCK FALSE
