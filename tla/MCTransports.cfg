CONSTANTS
    Updaters = {"ping"}
    ConnClosers = {"app"}
    MaxBytes = 3
    segmentBytes = 2
    concurrency = 2
    maxCoalescedTicks = 1
    MaxFaults = 1
SPECIFICATION MCSpec
INVARIANTS WalInOrder  CloseReports
PROPERTIES ConnectionEnds WalSettles
CHECK_DEADLOCK FALSE
