SPECIFICATION Spec
CONSTANTS
    Conns = {c1, c2}
    Engines = {e1, e2, e3}
    Closer = closer
    Nobody = nobody
    NoEngine = noEngine
    Ops = {"Connect", "Exec", "Query", "Prepare", "StmtExec", "Ping", "Tx", "Register", "ExecConn", "RowsClose", "StmtClose", "Close", "Next", "Shutdown"}
    PanicOps = {"Connect", "Exec", "Query", "Prepare", "StmtExec", "Ping", "Tx", "Register", "ExecConn", "RowsClose", "StmtClose", "Close", "Next", "Shutdown"}
    LateConnect = TRUE
    FileBacked = TRUE
INVARIANTS TypeOK EngineExclusive NeverInsidePoisoned HandlesOwned
 
SYMMETRY Symmetry
CHECK_DEADLOCK FALSE
