SPECIFICATION Spec
CONSTANTS
  User = {u1}
  Txn = {t1, t2}
  Stamp = {s1, s2}
  Null = Null
  NoRow = NoRow
  Clean = Clean
  Isolation = "read_committed"
  Lookups = {"id", "dead"}
  Ops = {"create", "delete", "restore", "anonymize", "hard_delete"}
SYMMETRY Symmetry
INVARIANTS SatellitesComplete AnonymizedIsErased AnonymizedIsDead
PROPERTIES PurgedWereLive
