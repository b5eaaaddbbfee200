SPECIFICATION FairSpec
CONSTANTS
    Writers = {w1, w2}
    Readers = {r1}
    Options <- MCOptions
    MaxMB = 2
    MaxBytes = 2
INVARIANTS
    StreamIntegrity
    NoLostWakeup
    OneOwner
PROPERTIES
    CallsReturn
    Refinement
CHECK_DEADLOCK FALSE
