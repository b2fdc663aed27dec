SPECIFICATION Spec
CONSTANTS
    Excs = {e1, e2}
    base = base
    derived = derived
    Types = {base, derived}
    Catches <- Hierarchy
    Clauses <- Pads
    CatchAll = CatchAll
    NoExc = NoExc
    NoType = NoType
    MaxDepth = 4
    MaxPtrs = 1
INVARIANTS CaughtIsHandlers NoneDestroyedEarly NoneLeaks
PROPERTIES HandlerIsRight
CHECK_DEADLOCK FALSE
