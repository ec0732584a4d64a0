SPECIFICATION Spec
CONSTANTS
  User = {a, b}
  Request = {r1, r2}
  v1 = v1
  v2 = v2
  k1 = k1
  k2 = k2
  p1 = p1
  p2 = p2
  Value = {v1, v2}
  Key = {k1, k2}
  Pepper = {p1, p2}
  Conf <- MCConf
  Submissions <- MCSubmissions
  Absent = Absent
  Null = Null
SYMMETRY Symmetry
INVARIANTS TypeOK IndexMatchesValue OneHolder StoredIsAnnounced
CHECK_DEADLOCK FALSE
