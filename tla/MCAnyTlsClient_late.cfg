CONSTANTS
  Requests = {r1, r2}
  Sessions = {s1, s2}
  maxSessions = 2
  maxIdleSessions = 1
  maxConcurrentDials = 1
  minIdleSession = 0
  MaxWrites = 1
  MaxEvents = 1
SPECIFICATION PoolSpec
INVARIANT LateCancelSparesIdle
CHECK_DEADLOCK FALSE
