SPECIFICATION Spec
CONSTANTS
  User = {a}
  Request = {r1, r2}
  Name = {n1, n2}
  Spelling = {"lower", "mixed"}
  Dni = {d1}
  Null = Null
  Ops = {"me", "profile", "secrets", "setup", "verify", "anonymize"}
  Apart = {}
  Crashes = FALSE
  MaxAudits = 1
SYMMETRY Symmetry
CHECK_DEADLOCK FALSE
PROPERTIES ClosedIsFinal
