SPECIFICATION Spec
CONSTANTS
    Conns = {c1, c2}
    NoConn = NoConn
    MaxBatch = 2
    MaxGrowth = 1
INVARIANTS WatcherInsideCall OnlyCancelledIsCut ContextErrorLeavesNoTrace
PROPERTIES CancelledReturns
CHECK_DEADLOCK FALSE
