SPECIFICATION Spec
CONSTANTS
  Key = {k1}
  Request = {r1}
  Apart = {}
  Worker = {w1}
  Spelling = {plain, wide}
  SharedCache = TRUE
  StepLength = 2
  UsedTTL = 4
  MaxTime = 6
  None = None
SYMMETRY Symmetry
PROPERTIES AcceptedOnce
CHECK_DEADLOCK FALSE
