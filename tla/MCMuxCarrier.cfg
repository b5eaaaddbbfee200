CONSTANTS
    o1 = o1  o2 = o2
    Objs = {o1, o2}
    MaxConcurrency = 1
    MaxConnection = 2
    LinkSize = 2
    MaxUp = 1
    MaxDown = 1
    Events = {"output", "fail"}
    NoObj = NoObj
SPECIFICATION Spec
INVARIANT StreamPrefix
PROPERTY EndAfterData
SYMMETRY Symmetry
CHECK_DEADLOCK FALSE
