CONSTANTS
  Requests = {r1, r2}
  Sessions = {s1, s2}
  maxSessions = 2
  maxIdleSessions = 1
  maxConcurrentDials = 1
  minIdleSession = 0
  MaxWrites = 1
  MaxEvents = 1
  c1 = c1  c2 = c2
  Carriers = {c1, c2}
  Breakable = {c1, c2}
  NoX = NoX
  NoMux = NoMux
  NoLink = NoLink
  NoLock = NoLock
SPECIFICATION MCSpec
INVARIANTS IdleIsFree ExclusiveUse CountedUntilClosed NoneStranded ClosedIsFinal NoLinkLeaks ExpiringIsClosed
SYMMETRY PoolSymmetry
