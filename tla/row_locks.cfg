SPECIFICATION Spec
CONSTANTS
  User = {a, b}
  Txn = {t1, t2, t3}
  Handler = {t3}
  Null = Null
SYMMETRY Symmetry
INVARIANTS TypeOK DeadlockNeedsBulkOrForm
