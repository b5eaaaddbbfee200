CONSTANTS
    o1 = o1  o2 = o2
    Objs = {o1, o2}
    MaxConcurrency = 1
    MaxConnection = 2
    LinkSize = 1
    MaxUp = 1
    MaxDown = 0
    Events = {"tick"}
    NoObj = NoObj
SPECIFICATION FairSpec
INVARIANT IdleCloseSparesSessions
 
CHECK_DEADLOCK FALSE
