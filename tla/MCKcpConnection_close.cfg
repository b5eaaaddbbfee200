CONSTANTS
    Updaters = {"ping"}
    ConnClosers = {"app"}
SPECIFICATION ConnFairSpec
PROPERTY CloseCloses
CHECK_DEADLOCK FALSE
