----------------------------- MODULE DriverPool -----------------------------
(***************************************************************************)
(* The database/sql driver of converge/duckdb: one connector, the engines  *)
(* it creates, the pooled connections that share them, and the single      *)
(* mutex that lets one goroutine at a time into the single-threaded wasm   *)
(* engine (driver.go, result.go, udf_register.go, appender.go).            *)
(*                                                                         *)
(* A pooled connection is used by one goroutine at a time (database/sql    *)
(* locks its driverConn), so a member of Conns stands for a pool slot, the *)
(* driver.conn in it, and the goroutine using it.  Closer is the goroutine *)
(* of sql.DB.Close.  Between acquiring the mutex and leaving the engine a  *)
(* caller is "inside"; the checks the code makes right after Lock() are    *)
(* part of the acquiring action.                                           *)
(***************************************************************************)
EXTENDS Naturals, FiniteSets

CONSTANTS
    Conns,        \* pool slots
    Engines,      \* engine instances newModule may still create (a bound)
    Closer,       \* the goroutine of sql.DB.Close
    Nobody,       \* the mutex is free
    NoEngine,     \* a nil *module
    Ops,          \* the operations callers use in this instance
    PanicOps,     \* the operations during which a Go panic may escape the engine
    LateConnect,  \* sql.DB.Close does not wait for a Connect under way
    FileBacked    \* the DSN names a file: an open database locks it

(* Statement entry points with `defer guardEnginePanic` before the lock.   *)
Guarded == {"Exec", "Query", "Prepare", "StmtExec", "Ping"}
(* Entry points that test badLocked but have no guard: BeginTx,            *)
(* simpleExec (Commit, Rollback) and NumInput.                             *)
Tested  == Guarded \cup {"Tx"}
(* withConn: Register*Conn test nothing, ExecConn and the Appender test    *)
(* conn.closed only.                                                       *)
Bridges == {"Register", "ExecConn"}
Closings == {"RowsClose", "StmtClose", "Close"}
AllOps  == Tested \cup Bridges \cup Closings \cup {"Connect", "Next", "Shutdown"}

Callers == Conns \cup {Closer}
NoOp    == "none"

ASSUME PoolAssumption ==
    /\ Closer \notin Conns
    /\ Nobody \notin Callers
    /\ NoEngine \notin Engines
    /\ Ops \subseteq AllOps /\ PanicOps \subseteq AllOps
    /\ {LateConnect, FileBacked} \subseteq BOOLEAN

VARIABLES
    mu,         \* connector.mu, the mutex every conn of the connector shares
    connector,  \* the other fields of connector; db # 0 exactly when mod # nil
    engine,     \* the modules, and what happened in the engines behind them
    cons,       \* per engine: the open duckdb_connection handles
    results,    \* per engine: the live duckdb_result handles
    stmts,      \* per engine: the live duckdb_prepared_statement handles
    conn,       \* the driver.conn in each slot, its rows and its statement
    pc, op, at, \* per caller: where it is, in which operation, in which engine
    ret         \* per caller: what its last call returned

handles == <<cons, results, stmts>>
callers == <<pc, op, at, ret>>
vars    == <<mu, connector, engine, handles, conn, callers>>

NoConn   == [mod |-> NoEngine, closed |-> FALSE, rows |-> "none", stmt |-> FALSE]
Unmade   == [made |-> FALSE, poisoned |-> FALSE, broken |-> FALSE, orphan |-> FALSE, db |-> "none"]
NoModule == [mod |-> NoEngine, init |-> FALSE, poisoned |-> FALSE]

(* sql.DB.Close marks the DB closed before it calls connector.Close.       *)
sqlClosed == pc[Closer] # "idle"

badLocked(c) == conn[c].closed \/ engine[conn[c].mod].poisoned

(* Of an engine: made, by newModule; poisoned, module.poisoned; broken, a   *)
(* panic has escaped from it; orphan, its open failed after duckdb_open    *)
(* had succeeded, and nobody remembers it; db, the database behind it.     *)

(* The database file stays locked while the database object lives: until   *)
(* duckdb_close and the disconnection of every connection to it.           *)
HoldsFile(e) ==
    \/ engine[e].db = "open"
    \/ engine[e].db = "closed" /\ cons[e] # {}

Connectors == [mod: Engines \cup {NoEngine}, init: BOOLEAN, poisoned: BOOLEAN]
Modules == [made: BOOLEAN, poisoned: BOOLEAN, broken: BOOLEAN, orphan: BOOLEAN,
            db: {"none", "open", "closed"}]
DriverConns == [mod: Engines \cup {NoEngine}, closed: BOOLEAN,
                rows: {"none", "open", "owning"}, stmt: BOOLEAN]

(* Every variable has its type, and whoever is in an engine, or unwinds    *)
(* from one, is in one that exists: a Connect never joins a nil *module.   *)
TypeOK ==
    /\ mu \in Callers \cup {Nobody}
    /\ connector \in Connectors
    /\ engine \in [Engines -> Modules]
    /\ cons \in [Engines -> SUBSET Conns]
    /\ results \in [Engines -> SUBSET Conns]
    /\ stmts \in [Engines -> SUBSET Conns]
    /\ conn \in [Conns -> DriverConns]
    /\ pc \in [Callers -> {"idle", "wait", "inside", "unwinding", "crashed", "done"}]
    /\ op \in [Callers -> AllOps \cup {NoOp}]
    /\ at \in [Callers -> Engines \cup {NoEngine}]
    /\ ret \in [Callers -> {"ok", "err", "bad"}]
    /\ \A c \in Callers : pc[c] \in {"inside", "unwinding"} => at[c] \in Engines

Init ==
    /\ mu = Nobody
    /\ connector = NoModule
    /\ engine = [e \in Engines |-> Unmade]
    /\ cons = [e \in Engines |-> {}]
    /\ results = [e \in Engines |-> {}]
    /\ stmts = [e \in Engines |-> {}]
    /\ conn = [c \in Conns |-> NoConn]
    /\ pc = [c \in Callers |-> "idle"]
    /\ op = [c \in Callers |-> NoOp]
    /\ at = [c \in Callers |-> NoEngine]
    /\ ret = [c \in Callers |-> "ok"]

-----------------------------------------------------------------------------
(* Steps of a caller through one operation.                                *)

Waits(c, o)  == pc[c] = "wait" /\ op[c] = o
Inside(c, o) == pc[c] = "inside" /\ op[c] = o

(* Mutant of EnterEngine: the operation forgets to take the mutex.         *)
EnterEngineUnlocked(c, e) ==
    /\ UNCHANGED mu
    /\ pc' = [pc EXCEPT ![c] = "inside"]
    /\ at' = [at EXCEPT ![c] = e]
    /\ UNCHANGED <<op, ret>>

(* Lock() succeeds and the operation calls into engine e.                  *)
EnterEngine(c, e) ==
    /\ mu = Nobody
    /\ mu' = c
    /\ pc' = [pc EXCEPT ![c] = "inside"]
    /\ at' = [at EXCEPT ![c] = e]
    /\ UNCHANGED <<op, ret>>

(* The operation returns r to its caller; c may start another one.         *)
Finish(c, r) ==
    /\ pc' = [pc EXCEPT ![c] = IF c = Closer THEN "done" ELSE "idle"]
    /\ op' = [op EXCEPT ![c] = NoOp]
    /\ at' = [at EXCEPT ![c] = NoEngine]
    /\ ret' = [ret EXCEPT ![c] = r]

(* The deferred Unlock, then the return.                                   *)
Leave(c, r) == mu' = Nobody /\ Finish(c, r)

(* The operation takes the mutex, sees it has nothing to do in the engine, *)
(* and gives the mutex back.                                               *)
Skip(c, r) == mu = Nobody /\ UNCHANGED mu /\ Finish(c, r)

-----------------------------------------------------------------------------
(* What database/sql calls on a connection, and when.                      *)

Callable(c, o) ==
    CASE o = "Connect"   -> conn[c].mod = NoEngine /\ ~sqlClosed
      [] o = "Query"     -> conn[c].mod # NoEngine /\ conn[c].rows = "none"
      [] o = "Prepare"   -> conn[c].mod # NoEngine /\ ~conn[c].stmt
      [] o \in {"StmtExec", "StmtClose"}
                         -> conn[c].stmt /\ conn[c].rows # "owning"
      [] o \in {"Next", "RowsClose"}
                         -> conn[c].rows # "none"
      [] o = "Close"     -> conn[c].mod # NoEngine /\ conn[c].rows = "none" /\ ~conn[c].stmt
      [] o = "Shutdown"  -> FALSE
      [] OTHER           -> conn[c].mod # NoEngine

Call(c, o) ==
    /\ pc[c] = "idle"
    /\ Callable(c, o)
    /\ pc' = [pc EXCEPT ![c] = "wait"]
    /\ op' = [op EXCEPT ![c] = o]
    /\ UNCHANGED <<mu, connector, engine, handles, conn, at, ret>>

CallShutdown ==
    /\ "Shutdown" \in Ops
    /\ pc[Closer] = "idle"
    /\ LateConnect \/ \A c \in Conns : op[c] = "Connect" => pc[c] = "crashed"
    /\ pc' = [pc EXCEPT ![Closer] = "wait"]
    /\ op' = [op EXCEPT ![Closer] = "Shutdown"]
    /\ UNCHANGED <<mu, connector, engine, handles, conn, at, ret>>

-----------------------------------------------------------------------------
(* connector.Connect                                                       *)

(* The engine in the connector is unusable: forget it (without closing     *)
(* it) and start over.                                                     *)
ResetNeeded ==
    \/ connector.poisoned
    \/ connector.mod # NoEngine /\ engine[connector.mod].poisoned

ConnectOpening(c) ==
    /\ Waits(c, "Connect")
    /\ ResetNeeded \/ ~connector.init
    /\ \E e \in Engines :
          /\ ~engine[e].made
          /\ engine' = [engine EXCEPT ![e] = [Unmade EXCEPT !.made = TRUE]]
          /\ EnterEngine(c, e)
    /\ connector' = NoModule
    /\ UNCHANGED <<handles, conn>>

ConnectJoining(c) ==
    /\ Waits(c, "Connect")
    /\ ~ResetNeeded /\ connector.init
    /\ EnterEngine(c, connector.mod)
    /\ UNCHANGED <<connector, engine, handles, conn>>

(* Mutant of ConnectReturn: Connect never sets connector.init.             *)
ConnectReturnUnlatched(c) ==
    /\ Inside(c, "Connect")
    /\ connector' = [connector EXCEPT !.mod = at[c]]
    /\ engine' = [engine EXCEPT ![at[c]].db = "open"]
    /\ cons' = [cons EXCEPT ![at[c]] = @ \cup {c}]
    /\ conn' = [conn EXCEPT ![c] = [NoConn EXCEPT !.mod = at[c]]]
    /\ Leave(c, "ok")
    /\ UNCHANGED <<results, stmts>>

ConnectReturn(c) ==
    /\ Inside(c, "Connect")
    /\ IF connector.init
       THEN UNCHANGED <<connector, engine>>
       ELSE /\ FileBacked => \A f \in Engines : ~HoldsFile(f)
            /\ connector' = [mod |-> at[c], init |-> TRUE, poisoned |-> FALSE]
            /\ engine' = [engine EXCEPT ![at[c]].db = "open"]
    /\ cons' = [cons EXCEPT ![at[c]] = @ \cup {c}]
    /\ conn' = [conn EXCEPT ![c] = [NoConn EXCEPT !.mod = at[c]]]
    /\ Leave(c, "ok")
    /\ UNCHANGED <<results, stmts>>

(* The failure is not latched.  An open that fails before the database is  *)
(* open leaves nothing: the engine is garbage.  One that fails afterwards  *)
(* leaves the database, and the connection if it had one: its returns zero *)
(* the results that the deferred cleanup tests.                            *)
ConnectFail(c) ==
    /\ Inside(c, "Connect")
    /\ \/ connector.init /\ UNCHANGED <<engine, cons>>
       \/ /\ ~connector.init
          /\ engine' = [engine EXCEPT ![at[c]] = Unmade]
          /\ UNCHANGED cons
       \/ /\ ~connector.init
          /\ FileBacked => \A f \in Engines : ~HoldsFile(f)
          /\ engine' = [engine EXCEPT ![at[c]].db = "open", ![at[c]].orphan = TRUE]
          /\ cons' \in {cons, [cons EXCEPT ![at[c]] = @ \cup {c}]}
    /\ Leave(c, "err")
    /\ UNCHANGED <<connector, results, stmts, conn>>

-----------------------------------------------------------------------------
(* Statements, transactions, registrations: operations on an open conn.    *)

(* Mutant of MayEnter: statements do not ask for the poisoned flag of the  *)
(* shared module, only for the closed flag of their own connection.        *)
MayEnterUnlessClosed(c) ==
    CASE op[c] \in Tested \cup {"ExecConn", "StmtClose", "Close"} -> ~conn[c].closed
      [] op[c] \in {"Next", "RowsClose"} -> ~engine[conn[c].mod].poisoned
      [] OTHER -> TRUE

MayEnter(c) ==
    CASE op[c] \in Tested    -> ~badLocked(c)
      [] op[c] = "ExecConn"  -> ~conn[c].closed
      [] op[c] = "Next"      -> ~engine[conn[c].mod].poisoned
      [] op[c] = "RowsClose" -> ~engine[conn[c].mod].poisoned
      [] op[c] = "StmtClose" -> ~badLocked(c)
      [] op[c] = "Close"     -> ~badLocked(c)
      [] OTHER               -> TRUE

Enter(c) ==
    /\ pc[c] = "wait" /\ op[c] # "Connect"
    /\ MayEnter(c)
    /\ EnterEngine(c, conn[c].mod)
    /\ UNCHANGED <<connector, engine, handles, conn>>

(* driver.ErrBadConn without entering the engine.                          *)
Refuse(c) ==
    /\ pc[c] = "wait" /\ op[c] \in Tested \cup {"ExecConn", "Next"}
    /\ ~MayEnter(c)
    /\ Skip(c, "bad")
    /\ UNCHANGED <<connector, engine, handles, conn>>

(* Operations that leave no handle behind, and the failures of those that  *)
(* would: a failed Prepare or Query destroys the statement it compiled.    *)
Return(c) ==
    /\ pc[c] = "inside" /\ op[c] \in Tested \cup Bridges \cup {"Next"}
    /\ \/ op[c] \notin {"Query", "Prepare"} /\ Leave(c, "ok")
       \/ Leave(c, "err")
    /\ UNCHANGED <<connector, engine, handles, conn>>

PrepareReturn(c) ==
    /\ Inside(c, "Prepare")
    /\ stmts' = [stmts EXCEPT ![at[c]] = @ \cup {c}]
    /\ conn' = [conn EXCEPT ![c].stmt = TRUE]
    /\ Leave(c, "ok")
    /\ UNCHANGED <<connector, engine, cons, results>>

(* Without arguments the Rows own the result only; with arguments they own *)
(* the one-shot statement too (stmtRows).                                  *)
QueryReturn(c) ==
    /\ Inside(c, "Query")
    /\ results' = [results EXCEPT ![at[c]] = @ \cup {c}]
    /\ \/ /\ conn' = [conn EXCEPT ![c].rows = "open"]
          /\ UNCHANGED stmts
       \/ /\ ~conn[c].stmt
          /\ conn' = [conn EXCEPT ![c].rows = "owning", ![c].stmt = TRUE]
          /\ stmts' = [stmts EXCEPT ![at[c]] = @ \cup {c}]
    /\ Leave(c, "ok")
    /\ UNCHANGED <<connector, engine, cons>>

-----------------------------------------------------------------------------
(* Teardown.                                                               *)

(* stmtRows.Close goes on, with the mutex released, to close its statement *)
AfterRowsClose(c) ==
    IF conn[c].rows = "owning"
    THEN /\ pc' = [pc EXCEPT ![c] = "wait"]
         /\ op' = [op EXCEPT ![c] = "StmtClose"]
         /\ at' = [at EXCEPT ![c] = NoEngine]
         /\ UNCHANGED ret
    ELSE Finish(c, ret[c])

(* Mutant of RowsCloseReturn: the result is destroyed, the Rows not closed.*)
RowsCloseReturnTwice(c) ==
    /\ Inside(c, "RowsClose")
    /\ results' = [results EXCEPT ![at[c]] = @ \ {c}]
    /\ mu' = Nobody /\ AfterRowsClose(c)
    /\ UNCHANGED <<connector, engine, conn, cons, stmts>>

RowsCloseReturn(c) ==
    /\ Inside(c, "RowsClose")
    /\ results' = [results EXCEPT ![at[c]] = @ \ {c}]
    /\ conn' = [conn EXCEPT ![c].rows = "none"]
    /\ mu' = Nobody /\ AfterRowsClose(c)
    /\ UNCHANGED <<connector, engine, cons, stmts>>

RowsCloseSkip(c) ==
    /\ Waits(c, "RowsClose") /\ ~MayEnter(c)
    /\ mu = Nobody /\ UNCHANGED mu
    /\ conn' = [conn EXCEPT ![c].rows = "none"]
    /\ AfterRowsClose(c)
    /\ UNCHANGED <<connector, engine, handles>>

(* Mutant of StmtCloseReturn: the prepared statement is not destroyed.     *)
StmtCloseReturnLeaks(c) ==
    /\ Inside(c, "StmtClose")
    /\ conn' = [conn EXCEPT ![c].stmt = FALSE]
    /\ Leave(c, ret[c])
    /\ UNCHANGED <<connector, engine, handles>>

StmtCloseReturn(c) ==
    /\ Inside(c, "StmtClose")
    /\ stmts' = [stmts EXCEPT ![at[c]] = @ \ {c}]
    /\ conn' = [conn EXCEPT ![c].stmt = FALSE]
    /\ Leave(c, ret[c])
    /\ UNCHANGED <<connector, engine, cons, results>>

StmtCloseSkip(c) ==
    /\ Waits(c, "StmtClose") /\ ~MayEnter(c)
    /\ conn' = [conn EXCEPT ![c].stmt = FALSE]
    /\ Skip(c, ret[c])
    /\ UNCHANGED <<connector, engine, handles>>

(* The slot is empty again afterwards: the pool drops a closed conn.       *)
CloseReturn(c) ==
    /\ Inside(c, "Close")
    /\ cons' = [cons EXCEPT ![at[c]] = @ \ {c}]
    /\ conn' = [conn EXCEPT ![c] = NoConn]
    /\ Leave(c, "ok")
    /\ UNCHANGED <<connector, engine, results, stmts>>

CloseSkip(c) ==
    /\ Waits(c, "Close") /\ ~MayEnter(c)
    /\ conn' = [conn EXCEPT ![c] = NoConn]
    /\ Skip(c, "ok")
    /\ UNCHANGED <<connector, engine, handles>>

(* connector.Close, from sql.DB.Close.                                     *)
ShutdownNeeded == connector.mod # NoEngine /\ ~engine[connector.mod].poisoned

ShutdownEnter ==
    /\ Waits(Closer, "Shutdown") /\ ShutdownNeeded
    /\ EnterEngine(Closer, connector.mod)
    /\ UNCHANGED <<connector, engine, handles, conn>>

(* Mutant of ShutdownReturn: connector.init stays set.                     *)
ShutdownReturnLatched ==
    /\ Inside(Closer, "Shutdown")
    /\ engine' = [engine EXCEPT ![at[Closer]].db = "closed"]
    /\ connector' = [NoModule EXCEPT !.init = TRUE]
    /\ Leave(Closer, "ok")
    /\ UNCHANGED <<handles, conn>>

(* Mutant of ShutdownReturn: duckdb_close is not called.                   *)
ShutdownReturnOpen ==
    /\ Inside(Closer, "Shutdown")
    /\ connector' = NoModule
    /\ Leave(Closer, "ok")
    /\ UNCHANGED <<engine, handles, conn>>

ShutdownReturn ==
    /\ Inside(Closer, "Shutdown")
    /\ engine' = [engine EXCEPT ![at[Closer]].db = "closed"]
    /\ connector' = NoModule
    /\ Leave(Closer, "ok")
    /\ UNCHANGED <<handles, conn>>

ShutdownSkip ==
    /\ Waits(Closer, "Shutdown") /\ ~ShutdownNeeded
    /\ connector' = NoModule
    /\ Skip(Closer, "ok")
    /\ UNCHANGED <<engine, handles, conn>>

-----------------------------------------------------------------------------
(* A panic escapes the engine.                                             *)

(* Mutant of PanicGuarded: the mutex is not released by a deferred call.   *)
PanicGuardedLocked(c) ==
    /\ pc[c] = "inside" /\ op[c] \in PanicOps \cap Guarded
    /\ engine' = [engine EXCEPT ![at[c]].broken = TRUE]
    /\ pc' = [pc EXCEPT ![c] = "unwinding"]
    /\ UNCHANGED <<mu, connector, handles, conn, op, at, ret>>

(* The deferred calls run last-in first-out: Unlock, and only then the     *)
(* guard, which has to lock again to poison.                               *)
PanicGuarded(c) ==
    /\ pc[c] = "inside" /\ op[c] \in PanicOps \cap Guarded
    /\ engine' = [engine EXCEPT ![at[c]].broken = TRUE]
    /\ mu' = Nobody
    /\ pc' = [pc EXCEPT ![c] = "unwinding"]
    /\ UNCHANGED <<connector, handles, conn, op, at, ret>>

(* Mutant of Poison: module.poisoned is not set.                           *)
PoisonConnOnly(c) ==
    /\ pc[c] = "unwinding" /\ mu = Nobody
    /\ conn' = [conn EXCEPT ![c].closed = TRUE]
    /\ connector' = [mod |-> NoEngine, init |-> FALSE, poisoned |-> TRUE]
    /\ Finish(c, IF op[c] = "Ping" THEN "ok" ELSE "bad")
    /\ UNCHANGED <<mu, engine, handles>>

(* poisonAfterPanic.  Ping's result is not a named one, so the error the   *)
(* guard assigns is lost and Ping returns nil.                             *)
Poison(c) ==
    /\ pc[c] = "unwinding" /\ mu = Nobody
    /\ conn' = [conn EXCEPT ![c].closed = TRUE]
    /\ engine' = [engine EXCEPT ![at[c]].poisoned = TRUE]
    /\ connector' = [mod |-> NoEngine, init |-> FALSE, poisoned |-> TRUE]
    /\ Finish(c, IF op[c] = "Ping" THEN "ok" ELSE "bad")
    /\ UNCHANGED <<mu, handles>>

(* Mutant of PanicInNext: the panic becomes an error, the engine stays in  *)
(* use.                                                                    *)
PanicInNextForgiven(c) ==
    /\ Inside(c, "Next") /\ "Next" \in PanicOps
    /\ engine' = [engine EXCEPT ![at[c]].broken = TRUE]
    /\ conn' = [conn EXCEPT ![c].rows = "none"]
    /\ Leave(c, "bad")
    /\ UNCHANGED <<connector, handles>>

(* rows.Next defers its guard after Lock: it poisons under the mutex, and  *)
(* marks the rows closed, so that rows.Close has nothing to do.            *)
PanicInNext(c) ==
    /\ Inside(c, "Next") /\ "Next" \in PanicOps
    /\ engine' = [engine EXCEPT ![at[c]].broken = TRUE, ![at[c]].poisoned = TRUE]
    /\ conn' = [conn EXCEPT ![c].rows = "none"]
    /\ Leave(c, "bad")
    /\ UNCHANGED <<connector, handles>>

(* No guard: the mutex is released, nothing is poisoned, and the goroutine *)
(* unwinds through database/sql with its connection still in use.  A       *)
(* database that was being opened may or may not hold its file by then.    *)
PanicUnguarded(c) ==
    /\ pc[c] = "inside" /\ op[c] \in PanicOps \ (Guarded \cup {"Next"})
    /\ \E db \in {engine[at[c]].db} \cup
                 (IF op[c] = "Connect" /\ ~connector.init
                     /\ (FileBacked => \A f \in Engines : ~HoldsFile(f))
                  THEN {"open"} ELSE {}) :
          engine' = [engine EXCEPT ![at[c]].broken = TRUE, ![at[c]].db = db]
    /\ mu' = Nobody
    /\ pc' = [pc EXCEPT ![c] = "crashed"]
    /\ UNCHANGED <<connector, handles, conn, op, at, ret>>

-----------------------------------------------------------------------------
ConnectStep(c) ==
    ConnectOpening(c) \/ ConnectJoining(c) \/ ConnectReturn(c) \/ ConnectFail(c)
EngineStep(c) ==
    Enter(c) \/ Refuse(c) \/ Return(c) \/ PrepareReturn(c) \/ QueryReturn(c)
TeardownStep(c) ==
    \/ RowsCloseReturn(c) \/ RowsCloseSkip(c)
    \/ StmtCloseReturn(c) \/ StmtCloseSkip(c)
    \/ CloseReturn(c) \/ CloseSkip(c)
ShutdownStep == ShutdownEnter \/ ShutdownReturn \/ ShutdownSkip
PanicStep(c) == PanicGuarded(c) \/ PanicInNext(c) \/ PanicUnguarded(c)

Next ==
    \/ \E c \in Conns :
          \/ \E o \in Ops : Call(c, o)
          \/ ConnectStep(c) \/ EngineStep(c) \/ TeardownStep(c)
          \/ PanicStep(c) \/ Poison(c)
    \/ CallShutdown \/ ShutdownStep \/ PanicUnguarded(Closer)

Spec == Init /\ [][Next]_vars

(* Engine calls return (a runaway one is interrupted), and sync.Mutex      *)
(* hands itself to a goroutine that has waited too long, so a waiter gets  *)
(* in although others keep taking the mutex in between.                    *)
Fairness ==
    /\ \A c \in Conns : /\ SF_vars(ConnectStep(c) \/ EngineStep(c) \/ TeardownStep(c))
                        /\ SF_vars(Poison(c))
    /\ SF_vars(ShutdownStep)

FairSpec == Spec /\ Fairness

-----------------------------------------------------------------------------
(* Properties.                                                             *)

(* Two goroutines are never inside one engine: rows, statements, Connect,  *)
(* teardown and UDF registration all serialize on the shared mutex.        *)
EngineExclusive ==
    \A c, d \in Callers :
        pc[c] = "inside" /\ pc[d] = "inside" /\ c # d => at[c] # at[d]

(* Every operation but the withConn bridges is in an engine only while the *)
(* engine is not marked poisoned: no sibling can poison it meanwhile.      *)
NeverInsidePoisoned ==
    \A c \in Callers :
        pc[c] = "inside" /\ op[c] \notin Bridges => ~engine[at[c]].poisoned

(* In an engine that never panicked, the handles alive are exactly those   *)
(* some Go object still refers to: no handle is used after its release or  *)
(* released twice, and none is lost when rows, statements and connections  *)
(* close in the orders database/sql uses.  The exception is an open that   *)
(* failed half-way: its connection stays, and nobody refers to its engine. *)
HandlesOwned ==
    \A e \in Engines : ~engine[e].broken =>
        /\ IF engine[e].orphan
           THEN /\ \A c \in Conns : conn[c].mod # e
                /\ \E c \in Conns : cons[e] \subseteq {c}
           ELSE cons[e] = {c \in Conns : conn[c].mod = e}
        /\ results[e] = {c \in Conns : conn[c].mod = e /\ conn[c].rows # "none"}
        /\ stmts[e] = {c \in Conns : conn[c].mod = e /\ conn[c].stmt}

(* All usable connections of a connector share one engine, hence one       *)
(* in-memory database: what one creates the others see.                    *)
Usable(c) ==
    /\ conn[c].mod # NoEngine
    /\ ~conn[c].closed
    /\ ~engine[conn[c].mod].poisoned /\ ~engine[conn[c].mod].broken
SharedEngine ==
    \A c, d \in Conns : Usable(c) /\ Usable(d) => conn[c].mod = conn[d].mod

(* Once sql.DB.Close is done and every slot is empty, no engine keeps its  *)
(* database (and the file, and its lock) open, but for those a panic has   *)
(* escaped from and those whose open failed half-way.                      *)
ClosedPoolHoldsNothing ==
    pc[Closer] = "done" /\ (\A c \in Conns : pc[c] = "idle" /\ conn[c].mod = NoEngine)
        => \A e \in Engines : HoldsFile(e) => engine[e].broken \/ engine[e].orphan

(* The one way for a checked operation into an engine a panic has escaped  *)
(* from is to be faster than the panicking goroutine: its guard is still   *)
(* to come, or it has none.                                                *)
BrokenEntryIsRaced ==
    [][\A c \in Callers :
          pc[c] = "wait" /\ pc'[c] = "inside" /\ engine[at'[c]].broken
          => \/ op[c] \in Bridges
             \/ \E d \in Callers : at[d] = at'[c] /\ pc[d] \in {"unwinding", "crashed"}]_vars

(* No operation enters an engine a panic has escaped from.                 *)
NoEntryAfterPanic ==
    [][\A c \in Callers :
          pc[c] = "wait" /\ pc'[c] = "inside" => ~engine[at'[c]].broken]_vars

(* A call during which the engine panicked reports an error.               *)
PanicReported ==
    [][\A c \in Callers :
          pc[c] = "unwinding" /\ pc'[c] # "unwinding" => ret'[c] = "bad"]_vars

(* An engine given up as poisoned does not keep the database file locked   *)
(* once no connection refers to it any more.                               *)
PoisonedReleasesFile ==
    \A e \in Engines :
        engine[e].poisoned /\ (\A c \in Conns : conn[c].mod # e) => ~HoldsFile(e)

(* Every call gets the mutex and returns (or its goroutine dies of a       *)
(* panic); only a Connect may wait for good, when this instance has no     *)
(* engine left to create.                                                  *)
CallsReturn ==
    \A c \in Callers :
        pc[c] = "wait" ~> \/ pc[c] \in {"idle", "crashed", "done"}
                          \/ op[c] = "Connect" /\ \A e \in Engines : engine[e].made

(* A panic in a guarded operation ends with its engine marked poisoned and *)
(* out of the connector, for good: no sibling that opens, joins or poisons *)
(* meanwhile brings it back.                                               *)
PanicQuarantined ==
    \A e \in Engines :
        (\E c \in Conns : pc[c] = "unwinding" /\ at[c] = e)
            ~> [](engine[e].poisoned /\ connector.mod # e)

=============================================================================
