SPECIFICATION Spec
CONSTANTS
  r1 = r1
  r2 = r2
  r3 = r3
  r4 = r4
  e1 = e1
  e2 = e2
  Email = {e1, e2}
  Req = {r1, r2, r3, r4}
  Earlier = {r1}
  Requests <- AllRequests
  RefreshTtl = 2
  MaxTime = 3
  MaxFaults = 1
  NoToken = NoToken
  NoCookie = NoCookie
SYMMETRY LateAlike
CHECK_DEADLOCK FALSE
INVARIANTS
  TypeOK
  OneAccountPerEmail
  OkMeansSession
  RevokedIsRefused
  RotationIsComplete
  LogoutRevokes
PROPERTIES
  RevokedForGood
