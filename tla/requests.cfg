SPECIFICATION Spec
CONSTANTS
  User = {a, b}
  Request = {r1, r2}
  Name = {n1, n2}
  Spelling = {"lower"}
  Dni = {d1}
  Null = Null
  Ops = {"me", "profile", "secrets", "setup", "verify", "anonymize"}
  Apart = {{"me", "anonymize"}, {"profile", "anonymize"}, {"secrets", "anonymize"}, {"setup", "anonymize"}, {"setup", "secrets"}}
  Crashes = TRUE
  MaxAudits = 2
SYMMETRY Symmetry
CHECK_DEADLOCK FALSE
INVARIANTS TypeOK 
PROPERTIES ClosedIsFinal VerifiedIsKept
