SPECIFICATION OwnSpec
CONSTANTS
    Users = {u1, u2}
    MaxEngines = 2
    LogicalTypes = {}
    MaxNesting = 0
    Columns = {}
INVARIANTS FailedOpenHoldsNothing
CHECK_DEADLOCK FALSE
