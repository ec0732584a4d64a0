SPECIFICATION Spec
CONSTANTS
  Mailbox = {m1}
  Request = {r1, r2}
  Code = {c1, c2}
  TTL = 1
  MaxTime = 2
  None = None
SYMMETRY Symmetry
INVARIANTS TypeOK UnverifiedHasCode AccountsAreAnnounced VerifiedInTime
PROPERTIES VerifiedForGood
