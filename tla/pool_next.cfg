SPECIFICATION Spec
CONSTANTS
    Conns = {c1, c2}
    Engines = {e1, e2, e3}
    Closer = closer
    Nobody = nobody
    NoEngine = noEngine
    Ops = {"Connect", "Exec", "Query", "Next", "RowsClose", "StmtClose", "Close", "Shutdown"}
    PanicOps = {"Next"}
    LateConnect = FALSE
    FileBacked = FALSE
INVARIANTS SharedEngine ClosedPoolHoldsNothing
PROPERTIES NoEntryAfterPanic
SYMMETRY Symmetry
CHECK_DEADLOCK FALSE
