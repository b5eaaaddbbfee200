CONSTANTS
    N = 3
    SendBuffer = 1
    InFlight = 2
    CwndMultiplier = 1
    RecvWindow = 2
    FirstRemote = 2
    Mod = 16
    ToRecvCap = 2
    ToSendCap = 1
    Duplicates = TRUE
    p1 = p1  p2 = p2  s1 = s1  s2 = s2  t1 = t1  t2 = t2
    NoTimer = NoTimer
    NoTask = NoTask
    NoOwner = NoOwner
    Tasks = {p1, p2}
    Starters = {s1, s2}
    Timers = {t1, t2}
    MaxUpdates = 3
SPECIFICATION MCSpec
INVARIANTS NothingForgotten AckRemembered FiresOnce
PROPERTIES StreamDelivers ActivityCounts IdleExpires
CHECK_DEADLOCK FALSE
