SPECIFICATION Spec
CONSTANTS
  Key = {k1, k2}
  Request = {r1, r2}
  Apart = {{"setup", "activate"}, {"setup", "secrets"}, {"setup", "me"}, {"me", "anonymize"}}
  Worker = {w1, w2}
  Spelling = {plain}
  SharedCache = TRUE
  StepLength = 1
  UsedTTL = 2
  MaxTime = 2
  None = None
SYMMETRY Symmetry
INVARIANTS TypeOK ActiveKeyIsConfirmed
PROPERTIES RefusedForAMinute
CHECK_DEADLOCK FALSE
