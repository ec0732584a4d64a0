SPECIFICATION LiveSpec
CONSTANTS
  alice = alice
  bob = bob
  browser = browser
  other = other
  User = {alice, bob}
  Client = {browser, other}
  Owner <- Owners
  SessionClient = {browser}
  Worker = {w1, w2}
  SharedCache = TRUE
  Request = {r1, r2}
  Windows = {1, 2}
  MaxFlight = 1
  MaxAge = 4
  FailureLimit = 1
  None = None
INVARIANTS TypeOK GrantNeedsRecentPassword
PROPERTIES AdmittedOnlyByReauth AccessIsNotCutShort GrantLapses
