CONSTANTS
    N = 2
    c1 = c1  c2 = c2  s1 = s1  h1 = h1  k1 = k1
    Conns = {c1, c2}
    NeedProxy = {c2}
    OrigDest = {c1}
    Starters = {s1}
    Closers = {h1}
    WorkerClosers = {k1}
    NoTag = NoTag
    NoState = NoState
    NoHandler = NoHandler
    Configs <- MCConfigs
    Inbounds = {"ext"}
SPECIFICATION MCSpec
INVARIANTS CloseIsFinal LoopCheckSeesListener GuardsSilent
PROPERTIES NoAddAfterWait CallsReturn Settles
CHECK_DEADLOCK FALSE
