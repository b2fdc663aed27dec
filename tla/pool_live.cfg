SPECIFICATION FairSpec
CONSTANTS
    Conns = {c1, c2}
    Engines = {e1, e2}
    Closer = closer
    Nobody = nobody
    NoEngine = noEngine
    Ops = {"Connect", "Query", "RowsClose", "StmtClose", "Close", "Shutdown"}
    PanicOps = {"Query", "StmtClose"}
    LateConnect = FALSE
    FileBacked = FALSE
PROPERTIES CallsReturn 
CHECK_DEADLOCK FALSE
