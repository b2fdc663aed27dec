------------------------------ MODULE Appender ------------------------------
(***************************************************************************)
(* The bulk appender (converge/duckdb/appender.go): rows are buffered in   *)
(* Go, and a flush runs INSERT INTO t SELECT * FROM feed(), where feed is  *)
(* a table function whose callbacks read the buffer chunk by chunk.        *)
(*                                                                         *)
(* The engine is external: it binds the statement (or refuses it), calls   *)
(* init once and function until it gets an empty chunk, and inserts all    *)
(* the rows or none.  Anybody may also SELECT from the feed function,      *)
(* which is the only way to look at a buffer that a failed flush has kept. *)
(***************************************************************************)
EXTENDS Integers, Sequences, SequencesExt

CONSTANTS
    Groups,       \* a value of the row the aggregates group by
    MaxRows,      \* rows the caller appends in all
    VectorSize,   \* duckdb_vector_size(): 2048 in the build
    MaxCalls      \* flushes and inspections of a non-empty buffer

ASSUME AppenderAssumption ==
    MaxRows \in Nat /\ VectorSize \in Nat \ {0} /\ MaxCalls \in Nat

VARIABLES
    rows,      \* Appender.rows
    cursor,    \* Appender.cursor
    scanErr,   \* Appender.scanErr # nil
    closed,    \* Appender.closed
    op,        \* what the appender's goroutine is doing
    out,       \* rows the feed function has handed to the present scan
    table,     \* the rows of the target table
    usable,    \* the table exists and the connection is open
    accepted,  \* rows AppendRow has taken
    lost,      \* rows given up by a Close that returned an error
    calls      \* flushes and inspections so far, bounded by MaxCalls

appenderVars == <<rows, cursor, scanErr, closed, op, out, table, usable,
                  accepted, lost, calls>>

(* A row is what writeCell can encode; or it violates a constraint of the  *)
(* table; or its slice was changed after AppendRow, to values of a wrong   *)
(* type ("do not mutate it after" is all that forbids it).                 *)
Rows == [n : 1 .. MaxRows, g : Groups, is : {"good", "violating", "spoiled"}]

Idle == [step |-> "idle", want |-> 0, closing |-> FALSE]

AppenderInit ==
    /\ rows = <<>> /\ cursor = 0 /\ scanErr = FALSE /\ closed = FALSE
    /\ op = [Idle EXCEPT !.step = "new"] /\ out = <<>> /\ table = <<>> /\ usable = TRUE
    /\ accepted = 0 /\ lost = {} /\ calls = 0

-----------------------------------------------------------------------------
(* NewAppender reads the columns of the table and registers the feed        *)
(* function; when it fails there is no appender.                           *)
NewAppender ==
    /\ op.step = "new" /\ usable
    /\ op' = Idle
    /\ UNCHANGED <<rows, cursor, scanErr, closed, out, table, usable, accepted,
                   lost, calls>>

AppendRow(g, is) ==
    /\ op = Idle /\ ~closed /\ accepted < MaxRows
    /\ accepted' = accepted + 1
    /\ rows' = Append(rows, [n |-> accepted', g |-> g, is |-> is])
    /\ UNCHANGED <<cursor, scanErr, closed, op, out, table, usable, lost, calls>>

(* The caller writes to a slice it has handed over.                        *)
Spoil(i) ==
    /\ op = Idle /\ rows[i].is = "good"
    /\ rows' = [rows EXCEPT ![i].is = "spoiled"]
    /\ UNCHANGED <<cursor, scanErr, closed, op, out, table, usable, accepted,
                   lost, calls>>

(* The way out of flush and of the Close around it: a flush that succeeded *)
(* empties the buffer, one that failed keeps it, and Close drops it.       *)
Finish(ok, closing) ==
    /\ closed' = (closed \/ closing)
    /\ rows' = IF ok \/ closing THEN <<>> ELSE rows
    /\ lost' = IF closing /\ ~ok THEN lost \cup Range(rows) ELSE lost

(* Flush and Close, up to the start of the scan: nothing to do; or the     *)
(* connection is closed or the statement cannot be prepared.               *)
FlushNothing(closing) ==
    /\ op = Idle /\ ~closed /\ closing /\ rows = <<>>
    /\ Finish(TRUE, closing)
    /\ UNCHANGED <<cursor, scanErr, op, out, table, usable, accepted, calls>>

FlushRefused(closing) ==
    /\ op = Idle /\ ~closed /\ rows # <<>> /\ ~usable /\ calls < MaxCalls
    /\ calls' = calls + 1
    /\ scanErr' \in {FALSE, scanErr}   \* withConn may fail before it is reset
    /\ Finish(FALSE, closing)
    /\ UNCHANGED <<cursor, op, out, table, usable, accepted>>

(* Mutant of InitScan: the scan is not rewound.                            *)
InitScanOn == out' = <<>> /\ UNCHANGED cursor

(* initFn, once per execution.                                             *)
InitScan == out' = <<>> /\ cursor' = 0

Flush(closing) ==
    /\ op = Idle /\ ~closed /\ rows # <<>> /\ usable /\ calls < MaxCalls
    /\ calls' = calls + 1
    /\ op' = [step |-> "scan", want |-> Len(rows), closing |-> closing]
    /\ scanErr' = FALSE
    /\ InitScan
    /\ UNCHANGED <<rows, closed, table, usable, accepted, lost>>

(* SELECT * FROM feed(), on any connection of the engine; rows may be      *)
(* nil, and the appender closed.                                           *)
Inspect ==
    /\ op = Idle /\ calls < MaxCalls
    /\ calls' = calls + 1
    /\ op' = [step |-> "inspect", want |-> 0, closing |-> FALSE]
    /\ InitScan
    /\ UNCHANGED <<rows, scanErr, closed, table, usable, accepted, lost>>

Chunk == SubSeq(rows, cursor + 1, IF Len(rows) - cursor < VectorSize
                                  THEN Len(rows) ELSE cursor + VectorSize)

(* fillFn: the next chunk, or an empty one at the end ...                  *)
Fill ==
    /\ op.step \in {"scan", "inspect"}
    /\ ~ \E i \in DOMAIN Chunk : Chunk[i].is = "spoiled"
    /\ out' = IF Len(Chunk) = 0 /\ op.step = "inspect" THEN <<>> ELSE out \o Chunk
    /\ cursor' = cursor + Len(Chunk)
    /\ op' = IF Len(Chunk) > 0 THEN op
             ELSE IF op.step = "inspect" THEN Idle ELSE [op EXCEPT !.step = "insert"]
    /\ UNCHANGED <<rows, scanErr, closed, table, usable, accepted, lost, calls>>

(* ... or a cell that writeCell cannot encode ends the statement: scanErr  *)
(* is what flush reports, and the cursor stays where it was.               *)
FillFails ==
    /\ op.step \in {"scan", "inspect"}
    /\ \E i \in DOMAIN Chunk : Chunk[i].is = "spoiled"
    /\ scanErr' = TRUE
    /\ op' = Idle /\ out' = <<>>
    /\ IF op.step = "scan" THEN Finish(FALSE, op.closing)
                           ELSE UNCHANGED <<rows, closed, lost>>
    /\ UNCHANGED <<cursor, table, usable, accepted, calls>>

(* The engine inserts all the rows it was fed, and flush compares their    *)
(* number with the buffer's; or it refuses a row, and inserts none.        *)
Insert ==
    /\ op.step = "insert"
    /\ ~ \E i \in DOMAIN out : out[i].is = "violating"
    /\ table' = table \o out
    /\ op' = Idle /\ out' = <<>>
    /\ Finish(Len(out) = op.want, op.closing)
    /\ UNCHANGED <<cursor, scanErr, usable, accepted, calls>>

InsertFails ==
    /\ op.step = "insert"
    /\ \E i \in DOMAIN out : out[i].is = "violating"
    /\ op' = Idle /\ out' = <<>>
    /\ Finish(FALSE, op.closing)
    /\ UNCHANGED <<cursor, scanErr, table, usable, accepted, calls>>

(* Another connection drops or alters the table, or this one is closed;    *)
(* or the table comes back.  Once the appender is closed it does not care. *)
Unusable ==
    /\ op = Idle /\ ~closed
    /\ usable' = ~usable
    /\ UNCHANGED <<rows, cursor, scanErr, closed, op, out, table, accepted, lost, calls>>

AppenderNext ==
    \/ NewAppender
    \/ \E g \in Groups, is \in {"good", "violating"} : AppendRow(g, is)
    \/ \E i \in DOMAIN rows : Spoil(i)
    \/ \E closing \in BOOLEAN :
          FlushNothing(closing) \/ FlushRefused(closing) \/ Flush(closing)
    \/ Inspect
    \/ Fill \/ FillFails
    \/ Insert \/ InsertFails
    \/ Unusable

-----------------------------------------------------------------------------
AppenderTypeOK ==
    /\ rows \in Seq(Rows) /\ out \in Seq(Rows) /\ table \in Seq(Rows)
    /\ cursor \in 0 .. MaxRows /\ accepted \in 0 .. MaxRows
    /\ scanErr \in BOOLEAN /\ closed \in BOOLEAN /\ usable \in BOOLEAN
    /\ op \in [step : {"new", "idle", "scan", "inspect", "insert"}, want : 0 .. MaxRows,
               closing : BOOLEAN]
    /\ lost \subseteq Rows /\ calls \in 0 .. MaxCalls

(* A row AppendRow has taken is exactly once in the table, in the buffer,  *)
(* or among those a failing Close gave up, and the table has them in the   *)
(* order they came: a failed flush can be retried without inserting a row  *)
(* twice, whatever was scanned in between (appender.go 121-135, 145-180).  *)
EachRowOnce ==
    LET kept == table \o rows IN
    /\ \A i, j \in DOMAIN kept : i < j => kept[i].n < kept[j].n
    /\ {kept[i].n : i \in DOMAIN kept} \cup {r.n : r \in lost} = 1 .. accepted
    /\ {kept[i].n : i \in DOMAIN kept} \cap {r.n : r \in lost} = {}

=============================================================================
