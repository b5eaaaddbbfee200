CONSTANTS
    a1 = a1  a2 = a2  r1 = r1  q1 = q1  k1 = k1
    NoTag = NoTag
    NoState = NoState
    NoHandler = NoHandler
    NoOwner = NoOwner
    Handlers <- MCHandlers
    Retiring <- MCRetiring
    Routings <- MCRoutings
    Adders = {a1, a2}
    Removers = {r1}
    Routers = {q1}
    Closers = {k1}
SPECIFICATION Spec
INVARIANTS NoLoop
CHECK_DEADLOCK FALSE
