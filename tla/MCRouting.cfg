CONSTANTS
    a1 = a1  a2 = a2  r1 = r1  q1 = q1  k1 = k1
    l1 = l1  v1 = v1  o1 = o1  p1 = p1  k2 = k2
    NoTag = NoTag
    NoState = NoState
    NoHandler = NoHandler
    NoOwner = NoOwner
    Handlers <- MCHandlers
    Retiring <- MCRetiring
    Routings <- MCRoutings
    Adders = {a1, a2}
    Removers = {r1}
    Routers = {q1}
    Closers = {k1}
    Unlocked = Unlocked
    NoMap = NoMap
    NoBalancer = NoBalancer
    Boot = Boot
    Changes <- MCChanges
    Reloaders = {l1}
    RuleRemovers = {v1}
    Overriders = {o1}
    Pickers = {p1}
    RouterClosers = {k2}
SPECIFICATION MCSpec
INVARIANTS NoUncheckedLoop CloseIsComplete OneMap RulesResolve HooksFreed
SYMMETRY MCSymmetry
CHECK_DEADLOCK FALSE
