SPECIFICATION Spec
CONSTANTS
  User = {u1, u2}
  Txn = {t1}
  Stamp = {s1, s2}
  Null = Null
  NoRow = NoRow
  Clean = Clean
  Isolation = "serial"
  Lookups = {"id", "dead"}
  Ops = {"create", "delete", "restore", "anonymize", "hard_delete", "save"}
SYMMETRY Symmetry
INVARIANTS TypeOK SatellitesComplete AnonymizedIsErased AnonymizedIsDead DeletionPropagated
PROPERTIES AnonymizationIsFinal ImplementsContract
