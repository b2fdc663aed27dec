------------------------------ MODULE Ownership ------------------------------
(***************************************************************************)
(* What the driver owns inside an engine: blocks it allocates in linear     *)
(* memory and handles the C API gives it.  The garbage collector knows      *)
(* nothing of them, so every way out of a function has to give back what it *)
(* took, except what goes into a Go object that a later Close empties.      *)
(*                                                                         *)
(* An operation is the trace of what it takes ("get"), reads ("use") and    *)
(* gives back ("put"), in the order of its statements and defers, with the  *)
(* place where it fails.  The engine fails wherever it likes.  The state is *)
(* what is live between calls, and the Go objects; a panic ends an engine   *)
(* and is left to DriverPool.                                               *)
(***************************************************************************)
EXTENDS Integers, Sequences, SequencesExt, FiniteSets

CONSTANTS
    Users,        \* connections, each with at most one statement and one result
    MaxEngines,   \* bound: databases ever opened
    LogicalTypes, \* the column types there are: [k, kids, depth], trees of one another
    MaxNesting,   \* bound: how deep they nest
    Columns       \* the columns results, functions and tables may have

(* A "list" is a LIST or an ARRAY, "json" a VARCHAR with an alias.          *)
Kinds == {"flat", "json", "enum", "list", "map", "struct", "union"}

ASSUME OwnershipAssumption ==
    /\ MaxEngines \in Nat /\ MaxNesting \in Nat
    /\ Columns \subseteq Seq(LogicalTypes)
    /\ \A type \in LogicalTypes :
          /\ type.k \in Kinds /\ type.kids \in Seq(LogicalTypes) /\ type.depth \in 0 .. MaxNesting
          /\ type.k = "list" => Len(type.kids) = 1
          /\ type.k = "map" => Len(type.kids) = 2
          /\ \A i \in DOMAIN type.kids : type.kids[i].depth < type.depth

VARIABLES
    alive,   \* blocks and handles alive in the engines
    wrong,   \* something was given back twice, or read when it was gone
    opened,  \* engines made so far
    failed,  \* engines whose open failed
    db,      \* connector.mod and db: the engine, or 0
    con,     \* user -> the conn: [engine, ownsDB, closed], or NoObject
    stmt,    \* user -> the prepared statement the program holds is open
    results  \* user -> the result: [chunk, oneShot], or NoObject

ownvars == <<alive, wrong, opened, failed, db, con, stmt, results>>

NoObject == <<>>

OwnInit ==
    /\ alive = {} /\ wrong = FALSE /\ opened = 0 /\ failed = {} /\ db = 0
    /\ con = [u \in Users |-> NoObject] /\ stmt = [u \in Users |-> FALSE]
    /\ results = [u \in Users |-> NoObject]

-----------------------------------------------------------------------------
(* Traces.                                                                 *)
Get(b) == <<[ev |-> "get", block |-> b]>>
Put(b) == <<[ev |-> "put", block |-> b]>>
Use(b) == <<[ev |-> "use", block |-> b]>>

(* malloc, and a free that comes on every way out of what is between.      *)
With(b, body) == Get(b) \o body \o Put(b)

After(event, mem) ==
    LET there == event.block \in mem.live
    IN  [live  |-> IF event.ev = "get" THEN mem.live \cup {event.block}
                   ELSE IF event.ev = "put" THEN mem.live \ {event.block} ELSE mem.live,
         wrong |-> mem.wrong \/ (event.ev = "get") = there]

Play(trace, mem) ==
    LET t == trace
        at[i \in 0 .. Len(t)] == IF i = 0 THEN mem ELSE After(t[i], at[i - 1])
    IN  at[Len(t)]

Run(trace) ==
    LET end == Play(trace, [live |-> alive, wrong |-> wrong])
    IN  alive' = end.live /\ wrong' = end.wrong

cstring == <<"text">>
DbOf(e) == <<"db", e>>
ConOf(e, u) == <<"con", e, u>>
StmtOf(u) == <<"stmt", u>>
OneShot(u) == <<"oneshot", u>>
Temporary == <<"temporary">>
ResPtr(u) == <<"rowsPtr", u>>
ResultOf(u) == <<"rowsResult", u>>    \* what duckdb_destroy_result frees, of a failed query too
ChunkOf(u) == <<"chunk", u>>
Handle(u) == ConOf(con[u].engine, u)
Usable(u) == con[u] # NoObject /\ ~con[u].closed

(* A handle is destroyed through a slot it is staged in.                   *)
destroyHandle(h) == With(<<"slot">>, Put(h))

-----------------------------------------------------------------------------
(* Statements.  A failure is followed by a ROLLBACK or not (TxRecovery).   *)
DestroyResult(res, buffer) == Put(res) \o Put(buffer)

(* The engine executes a text or a statement; its result is read and given *)
(* back.                                                                   *)
executed(h) == Get(<<"resPtr">>) \o Use(h) \o Get(<<"result">>) \o Use(<<"result">>)
               \o DestroyResult(<<"result">>, <<"resPtr">>)

queryRaw(h) == With(<<"sql">>, executed(h))

recoverTx(h, rollback) == IF rollback THEN queryRaw(h) ELSE <<>>

(* Mutant of prepareLocked: a statement that failed to compile is dropped. *)
prepareLockedDrops(h, st, how, rollback) ==
    With(cstring, With(<<"stmtSlot">>, Use(h) \o
        (IF how = "no handle" THEN <<>> ELSE Get(st) \o Use(st))
        \o (IF how = "ok" THEN <<>> ELSE recoverTx(h, rollback))))

(* A statement that does not compile comes with a handle, for its message. *)
prepareLocked(h, st, how, rollback) ==
    With(cstring, With(<<"stmtSlot">>, Use(h) \o
        (CASE how = "ok"        -> Get(st)
           [] how = "no handle" -> recoverTx(h, rollback)
           [] OTHER -> Get(st) \o Use(st) \o destroyHandle(st) \o recoverTx(h, rollback))))

(* bindAll with one text and one other argument.                           *)
bindAll(st, how) == Use(st) \o
    (IF how = "unbound" THEN <<>> ELSE With(<<"param">>, Use(st)) \o Use(st))

(* stmt.execLocked: binding fails, executing fails, or neither.             *)
execLocked(h, st, how, rollback) ==
    bindAll(st, how) \o
    (IF how \in {"unbound", "bad value"} THEN <<>>
     ELSE executed(st) \o (IF how = "failed" THEN recoverTx(h, rollback) ELSE <<>>))

ExecOutcomes == {"unbound", "bad value", "failed", "ok"}
PrepareFailures == {"no handle", "not compiled"}

Alias == With(<<"alias">>, Use(<<"alias">>))
FieldName == With(<<"name">>, Use(<<"name">>))
readEnumMeta(lt) == Use(lt) \o With(<<"value">>, Use(<<"value">>)) \o With(<<"value">>, Use(<<"value">>))
Dictionary(type, lt) == IF type.k = "enum" THEN readEnumMeta(lt) ELSE <<>>

(* The handle of a type under another.  Two that are held at once have      *)
(* different names.                                                        *)
Child(type, i) == <<"type", type.depth, i>>

(* What typeName does once it has read which type it is.  A map takes both  *)
(* its child types before it names either.                                 *)
typeNames[type \in LogicalTypes] ==
    LET one(i) == Use(Child(type, i)) \o typeNames[type.kids[i]]
        named(i) == FieldName \o Get(Child(type, i)) \o one(i) \o destroyHandle(Child(type, i))
    IN  CASE type.k = "json" -> Alias
          [] type.k = "map" -> Get(Child(type, 1)) \o Get(Child(type, 2)) \o one(1) \o one(2)
                               \o destroyHandle(Child(type, 1)) \o destroyHandle(Child(type, 2))
          [] type.k = "list" -> Get(Child(type, 1)) \o one(1) \o destroyHandle(Child(type, 1))
          [] type.k \in {"struct", "union"} -> FlattenSeq([i \in 1 .. Len(type.kids) |-> named(i)])
          [] OTHER -> <<>>
typeName(type, lt) == Use(lt) \o typeNames[type]

ColumnHandle == <<"column">>
ColumnMeta(type, res) ==
    Use(res) \o Get(ColumnHandle) \o typeName(type, ColumnHandle)
    \o (IF type.k = "json" THEN Alias ELSE <<>>)
    \o Dictionary(type, ColumnHandle) \o destroyHandle(ColumnHandle)
newRows(cols, res) == FlattenSeq([i \in 1 .. Len(cols) |-> ColumnMeta(cols[i], res)])

(* What newVecDecoder does while it holds the type of its vector, for the   *)
(* vectors under it: a map is a list of structs, a union a struct with a tag *)
(* of its own.  All of them are read while the types above are held.        *)
decoders(chunk) ==
    LET inner[type \in LogicalTypes] ==
            LET vector(i, body) == Use(chunk) \o With(Child(type, i), body)
                below(i) == vector(i, Dictionary(type.kids[i], Child(type, i)) \o inner[type.kids[i]])
                fields == FlattenSeq([i \in 1 .. Len(type.kids) |-> FieldName \o below(i)])
            IN  CASE type.k = "json" -> Alias
                  [] type.k = "struct" -> fields
                  [] type.k = "map" -> vector(0, fields)
                  [] type.k = "union" -> vector(0, <<>>) \o FlattenSeq([i \in 1 .. Len(type.kids) |-> below(i)])
                  [] type.k = "list" -> below(1)
                  [] OTHER -> <<>>
    IN  inner
newVecDecoder(type, chunk) ==
    Use(chunk) \o With(<<"vectorType">>, Dictionary(type, <<"vectorType">>) \o decoders(chunk)[type])
newDecoders(cols, chunk) == FlattenSeq([i \in 1 .. Len(cols) |-> newVecDecoder(cols[i], chunk)])

-----------------------------------------------------------------------------
(* Registration of functions.  An appender registers its feed once it has   *)
(* read the columns of its table.                                          *)
Parameter == With(<<"paramType">>, Use(<<"function">>))
Register(h, params) ==
    Get(<<"function">>) \o With(cstring, Use(<<"function">>))
    \o FlattenSeq([i \in 1 .. params |-> Parameter]) \o Use(h) \o destroyHandle(<<"function">>)

(* The functions of a band go into a set one by one; addFails is the arity  *)
(* that is refused, or none.  A function that was added is kept.            *)
Overload(p) == <<"overload", p>>
registerAggregateBand(h, max, addFails) ==
    LET one(p) == Get(Overload(p)) \o With(cstring, Use(Overload(p)))
                  \o FlattenSeq([i \in 1 .. p + 1 |-> With(<<"paramType">>, Use(Overload(p)))])
                  \o Use(<<"set">>) \o (IF p = addFails THEN destroyHandle(Overload(p)) ELSE <<>>)
        last == IF addFails \in 1 .. max THEN addFails ELSE max
    IN  With(cstring, Get(<<"set">>)) \o FlattenSeq([p \in 1 .. last |-> one(p)])
        \o (IF last = addFails THEN <<>> ELSE Use(h)) \o destroyHandle(<<"set">>)

registerScalarEx(h, params, variadic) == Register(h, params + (IF variadic THEN 2 ELSE 1))
RegisterAggregateUDF(h, params) == Register(h, params + 1)
registerFeedLocked(h) == Register(h, 0)

(* Callbacks: the feed's bind; a row of arguments and its result or error.  *)
bindFn(cols) == FlattenSeq([i \in 1 .. Len(cols) |->
                    With(<<"columnType">>, With(<<"name">>, Use(<<"columnType">>)))])
setScalarFunctionError == With(<<"message">>, Use(<<"message">>))
cb(cols, fails) ==
    With(<<"input">>, newDecoders(cols, <<"input">>)
                      \o (IF fails THEN setScalarFunctionError ELSE With(<<"cell">>, Use(<<"cell">>))))

tableColumns(h, st, how) ==
    IF how \in PrepareFailures THEN prepareLocked(h, st, how, FALSE)
    ELSE prepareLocked(h, st, "ok", FALSE) \o executed(st) \o destroyHandle(st)

-----------------------------------------------------------------------------
(* Opening and closing.                                                    *)

OpenPlaces == {"config", "open", "open message", "connect", "limit", "none"}

(* What the deferred cleanup of open finds in con and db, its named         *)
(* results: the handles on success; every failing return has set them to 0. *)
SeenByDefer(at, e, u) == IF at = "none" THEN {DbOf(e), ConOf(e, u)} ELSE {}

open(at, e, u) ==
    LET opens == Get(<<"config">>) \o Use(<<"config">>) \o Get(<<"path">>) \o Get(<<"dbSlot">>)
                 \o Get(<<"errSlot">>) \o Use(<<"path">>) \o Put(<<"config">>)
        connects == Get(DbOf(e)) \o Use(DbOf(e)) \o Get(<<"conSlot">>) \o Use(DbOf(e))
        connected == Get(ConOf(e, u)) \o queryRaw(ConOf(e, u))
        cleanup == (IF ConOf(e, u) \in SeenByDefer(at, e, u) THEN destroyHandle(ConOf(e, u)) ELSE <<>>)
                   \o (IF DbOf(e) \in SeenByDefer(at, e, u) THEN destroyHandle(DbOf(e)) ELSE <<>>)
        undo == IF at = "none" THEN <<>> ELSE cleanup
        frees == Put(<<"path">>) \o Put(<<"dbSlot">>) \o Put(<<"errSlot">>)
    IN  Get(<<"cfgSlot">>) \o
        CASE at = "config" -> undo \o Put(<<"cfgSlot">>)
          [] at = "open" -> opens \o undo \o Put(<<"cfgSlot">>) \o frees
          [] at = "open message" -> opens \o With(<<"message">>, Use(<<"message">>))
                                    \o undo \o Put(<<"cfgSlot">>) \o frees
          [] OTHER -> opens \o connects \o (IF at = "connect" THEN <<>> ELSE connected)
                      \o undo \o Put(<<"cfgSlot">>) \o frees \o Put(<<"conSlot">>)

(* Driver.Open and a connector's first Connect: an engine and its database. *)
Open(u, own, at) ==
    /\ con[u] = NoObject /\ opened < MaxEngines /\ (own \/ db = 0)
    /\ opened' = opened + 1
    /\ Run(open(at, opened', u))
    /\ failed' = IF at = "none" THEN failed ELSE failed \cup {opened'}
    /\ db' = IF at = "none" /\ ~own THEN opened' ELSE db
    /\ con' = IF at = "none" THEN [con EXCEPT ![u] = [engine |-> opened', ownsDB |-> own, closed |-> FALSE]]
              ELSE con
    /\ UNCHANGED <<stmt, results>>

(* connector.Connect once the database is open; it may fail.                *)
Connect(u, ok) ==
    /\ con[u] = NoObject /\ db # 0
    /\ Run(With(<<"conSlot">>, Use(DbOf(db)) \o (IF ok THEN Get(ConOf(db, u)) ELSE <<>>)))
    /\ con' = IF ok THEN [con EXCEPT ![u] = [engine |-> db, ownsDB |-> FALSE, closed |-> FALSE]] ELSE con
    /\ UNCHANGED <<opened, failed, db, stmt, results>>

(* Mutant of Close: the database goes with any connection.                 *)
CloseAll(u) ==
    /\ con[u] # NoObject /\ ~stmt[u] /\ results[u] = NoObject
    /\ Run(IF con[u].closed THEN <<>> ELSE destroyHandle(Handle(u)) \o destroyHandle(DbOf(con[u].engine)))
    /\ con' = [con EXCEPT ![u] = IF @.closed THEN NoObject ELSE [@ EXCEPT !.closed = TRUE]]
    /\ UNCHANGED <<opened, failed, db, stmt, results>>

(* conn.Close, which may be called twice; then the slot is free again.     *)
Close(u) ==
    /\ con[u] # NoObject /\ ~stmt[u] /\ results[u] = NoObject
    /\ Run(IF con[u].closed THEN <<>>
           ELSE destroyHandle(Handle(u))
                \o (IF con[u].ownsDB THEN destroyHandle(DbOf(con[u].engine)) ELSE <<>>))
    /\ con' = [con EXCEPT ![u] = IF @.closed THEN NoObject ELSE [@ EXCEPT !.closed = TRUE]]
    /\ UNCHANGED <<opened, failed, db, stmt, results>>

(* connector.Close, from sql.DB.Close, which does not wait for connections  *)
(* in use.                                                                 *)
Shutdown ==
    /\ db # 0
    /\ Run(destroyHandle(DbOf(db)))
    /\ db' = 0
    /\ UNCHANGED <<opened, failed, con, stmt, results>>

-----------------------------------------------------------------------------
(* Calls on a connection.                                                  *)

Call(trace) == Run(trace) /\ UNCHANGED <<opened, failed, db, con>>

(* Exec: without arguments, or as a statement of its own.                  *)
Exec(u) ==
    /\ Usable(u)
    /\ \E rollback \in BOOLEAN :
          \/ Call(queryRaw(Handle(u)) \o recoverTx(Handle(u), rollback))
          \/ \E how \in PrepareFailures : Call(prepareLocked(Handle(u), Temporary, how, rollback))
          \/ \E how \in ExecOutcomes :
                Call(prepareLocked(Handle(u), Temporary, "ok", FALSE)
                     \o execLocked(Handle(u), Temporary, how, rollback) \o destroyHandle(Temporary))
    /\ UNCHANGED <<stmt, results>>

Prepare(u, how, rollback) ==
    /\ Usable(u) /\ ~stmt[u] /\ results[u] = NoObject
    /\ Call(prepareLocked(Handle(u), StmtOf(u), how, rollback))
    /\ stmt' = [stmt EXCEPT ![u] = how = "ok"]
    /\ UNCHANGED results

StmtExec(u, how, rollback) ==
    /\ Usable(u) /\ stmt[u]
    /\ Call(execLocked(Handle(u), StmtOf(u), how, rollback))
    /\ UNCHANGED <<stmt, results>>

StmtClose(u) ==
    /\ Usable(u) /\ stmt[u] /\ results[u] = NoObject
    /\ Call(destroyHandle(StmtOf(u)))
    /\ stmt' = [stmt EXCEPT ![u] = FALSE]
    /\ UNCHANGED results

(* A query's result goes to the Rows; a query that fails gives it back.     *)
ResultTrace(u, asks, cols, ok, rollback) ==
    Get(ResPtr(u)) \o asks \o Get(ResultOf(u))
    \o (IF ok THEN newRows(cols, ResultOf(u))
        ELSE Use(ResultOf(u)) \o DestroyResult(ResultOf(u), ResPtr(u)) \o recoverTx(Handle(u), rollback))

(* queryLocked: binding may fail before there is a result.                  *)
queryLocked(u, st, how, cols, rollback) ==
    bindAll(st, how)
    \o (IF how \in {"unbound", "bad value"} THEN <<>>
        ELSE ResultTrace(u, Use(st), cols, how = "ok", rollback))

QueryRows(u, how, cols, rollback) ==
    /\ Usable(u) /\ results[u] = NoObject
    /\ results' = [results EXCEPT ![u] = IF how = "ok" THEN [chunk |-> FALSE, oneShot |-> FALSE] ELSE NoObject]
    /\ UNCHANGED stmt
    /\ \/ /\ ~stmt[u] /\ how \in {"failed", "ok"}
          /\ Call(With(cstring, ResultTrace(u, Use(Handle(u)), cols, how = "ok", rollback)))
       \/ stmt[u] /\ Call(queryLocked(u, StmtOf(u), how, cols, rollback))

(* Mutant of QueryArgs: a statement that cannot be executed stays.          *)
QueryArgsKeeps(u, how, cols, rollback) ==
    /\ Usable(u) /\ results[u] = NoObject /\ ~stmt[u]
    /\ results' = [results EXCEPT ![u] = IF how = "ok" THEN [chunk |-> FALSE, oneShot |-> TRUE] ELSE NoObject]
    /\ UNCHANGED stmt
    /\ Call(prepareLocked(Handle(u), OneShot(u), "ok", FALSE)
            \o queryLocked(u, OneShot(u), how, cols, rollback))

(* QueryContext with arguments: the statement goes with the rows.           *)
QueryArgs(u, how, cols, rollback) ==
    /\ Usable(u) /\ results[u] = NoObject /\ ~stmt[u]
    /\ results' = [results EXCEPT ![u] = IF how = "ok" THEN [chunk |-> FALSE, oneShot |-> TRUE] ELSE NoObject]
    /\ UNCHANGED stmt
    /\ Call(prepareLocked(Handle(u), OneShot(u), "ok", FALSE)
            \o queryLocked(u, OneShot(u), how, cols, rollback)
            \o (IF how = "ok" THEN <<>> ELSE destroyHandle(OneShot(u))))

releaseChunk(u) == IF results[u].chunk THEN destroyHandle(ChunkOf(u)) ELSE <<>>

(* rows.Next with no row left in the chunk: past empty chunks, to one that  *)
(* has rows or to the end.  Cells of nested columns are read with decoders. *)
NextChunk(u, empty, more, cols) ==
    /\ results[u] # NoObject
    /\ LET fetch == Use(ResultOf(u))
       IN  Call(releaseChunk(u)
                \o (IF empty THEN fetch \o Get(ChunkOf(u)) \o destroyHandle(ChunkOf(u)) ELSE <<>>) \o fetch
                \o (IF more THEN Get(ChunkOf(u)) \o newDecoders(cols, ChunkOf(u)) ELSE <<>>))
    /\ results' = [results EXCEPT ![u].chunk = more]
    /\ UNCHANGED stmt

RowsClose(u) ==
    /\ results[u] # NoObject
    /\ Call(releaseChunk(u) \o DestroyResult(ResultOf(u), ResPtr(u))
            \o (IF results[u].oneShot THEN destroyHandle(OneShot(u)) ELSE <<>>))
    /\ results' = [results EXCEPT ![u] = NoObject]
    /\ UNCHANGED stmt

(* Functions are registered, and called back by a statement that runs.     *)
Extend(u) ==
    /\ Usable(u)
    /\ \/ \E variadic \in BOOLEAN : Call(registerScalarEx(Handle(u), 1, variadic))
       \/ Call(RegisterAggregateUDF(Handle(u), 1))
       \/ \E addFails \in 0 .. 2 :
             /\ \A p \in 1 .. 2 : Overload(p) \notin alive
             /\ Call(registerAggregateBand(Handle(u), 2, addFails))
       \/ \E how \in PrepareFailures : Call(tableColumns(Handle(u), Temporary, how))
       \/ Call(tableColumns(Handle(u), Temporary, "ok") \o registerFeedLocked(Handle(u)))
       \/ \E cols \in Columns, fails \in BOOLEAN : Call(With(cstring, bindFn(cols) \o cb(cols, fails)))
    /\ UNCHANGED <<stmt, results>>

OwnNext ==
    \/ Shutdown
    \/ \E u \in Users :
          \/ \E at \in OpenPlaces, own \in BOOLEAN : Open(u, own, at)
          \/ \E ok \in BOOLEAN : Connect(u, ok)
          \/ Close(u) \/ Exec(u) \/ StmtClose(u) \/ RowsClose(u) \/ Extend(u)
          \/ \E how \in PrepareFailures \cup {"ok"}, rollback \in BOOLEAN : Prepare(u, how, rollback)
          \/ \E how \in ExecOutcomes, rollback \in BOOLEAN :
                \/ StmtExec(u, how, rollback)
                \/ \E cols \in Columns : QueryRows(u, how, cols, rollback) \/ QueryArgs(u, how, cols, rollback)
          \/ \E empty, more \in BOOLEAN, cols \in Columns : NextChunk(u, empty, more, cols)

OwnSpec == OwnInit /\ [][OwnNext]_ownvars

-----------------------------------------------------------------------------
OwnedDbs == {DbOf(e) : e \in {d \in {db} : d # 0}}
            \cup {DbOf(con[u].engine) : u \in {v \in Users : Usable(v) /\ con[v].ownsDB}}
OwnedCons == {Handle(u) : u \in {v \in Users : Usable(v)}}
OwnedStmts == {StmtOf(u) : u \in {v \in Users : stmt[v]}}
OwnedResults == UNION {{ResPtr(u), ResultOf(u)} : u \in {v \in Users : results[v] # NoObject}}
OwnedChunks == {ChunkOf(u) : u \in {v \in Users : results[v] # NoObject /\ results[v].chunk}}
OwnedShots == {OneShot(u) : u \in {v \in Users : results[v] # NoObject /\ results[v].oneShot}}
Owned == OwnedDbs \cup OwnedCons \cup OwnedStmts \cup OwnedResults \cup OwnedChunks \cup OwnedShots

OfFailedOpens == {DbOf(e) : e \in failed} \cup {ConOf(e, u) : e \in failed, u \in Users}
Overloads == {Overload(p) : p \in 1 .. 2}

(* Between calls, what is alive in the engines is what the open Go objects  *)
(* hold, whichever error paths were taken; and nothing was read after it    *)
(* was gone or given back twice.  Two leaks of the code are excepted: the   *)
(* database of an open that failed (see FailedOpenHoldsNothing) and the     *)
(* functions that were added to an arity band (udf_agg_band.go:173).        *)
OwnedExactly == alive \ (OfFailedOpens \cup Overloads) = Owned /\ ~wrong

(* connector.Connect, driver.go:102: "A failed open can succeed later": so  *)
(* an open that failed has closed what it opened, as module.open's deferred *)
(* cleanup sets out to do (module.go:310-326).                              *)
FailedOpenHoldsNothing == alive \cap OfFailedOpens = {}
=============================================================================
