SPECIFICATION FairWebSpec
CONSTANTS
  r0 = r0
  f1 = f1
  f2 = f2
  f3 = f3
  x1 = x1
  x2 = x2
  x3 = x3
  x4 = x4
  x5 = x5
  e1 = e1
  t1 = t1
  t2 = t2
  load1 = load1
  load2 = load2
  load3 = load3
  get1 = get1
  in1 = in1
  in2 = in2
  out1 = out1
  out2 = out2
  Email = {e1}
  Req = {r0, f1, f2, f3, x1, x2, x3, x4, x5}
  Earlier = {r0}
  Requests <- AllAsks
  Scripts <- MCScripts
  First = r0
  Tab = {t1, t2}
  Call = {load1, load2, load3, get1, in1, in2, out1, out2}
  TabOf <- MCTabOf
  Asks <- MCAsks
  RefreshTtl = 2
  AccessTtl = 1
  MaxTime = 1
  MaxFaults = 0
  MaxLost = 1
  NoToken = NoToken
  NoCookie = NoCookie
  NoUser = NoUser
ACTION_CONSTRAINT OnlyCast
CHECK_DEADLOCK FALSE
INVARIANTS
  WebTypeOK
  NotExpiredByItself
  ShownWithToken
PROPERTIES
  OnlyLateTokens
  EveryCallSettles
