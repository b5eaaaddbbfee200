CONSTANTS
    c1 = c1  c2 = c2  c3 = c3  i1 = i1  i2 = i2  k1 = k1  k2 = k2
    t1 = t1  t2 = t2  t3 = t3  checkTask = checkTask  rx = rx
    NoTimer = NoTimer
    NoConn = NoConn
    Tasks = {checkTask}
    Starters = {rx}
    Timers = {t1, t2, t3}
    Ids = {i1, i2}
    Conns = {c1, c2, c3}
    CloseCallers = {k1, k2}
SPECIFICATION Spec
SYMMETRY MCSymmetry
INVARIANTS Owned CloseIsFinal
CHECK_DEADLOCK FALSE
