------------------------------ MODULE ResultSet ------------------------------
(***************************************************************************)
(* A streamed result (converge/duckdb/result.go, rows): chunks fetched one  *)
(* at a time, a cursor in the current one, and a decoder per nested column  *)
(* that is kept for as long as the chunk.  Two columns of the same values,  *)
(* so that two decoders exist side by side.  The engine's mutex serializes  *)
(* the calls (DriverPool); a sibling may poison the engine between them.    *)
(* How a decoder reads the vector of a chunk is a parameter: Vectors.       *)
(***************************************************************************)
EXTENDS Integers, Sequences, SequencesExt, FiniteSets

CONSTANTS
    Values,            \* the values a row may have
    Results,           \* the results a query may have: [type, chunks, reversed]
    CellRead(_, _, _), \* what the decoder reads: of a result, chunk k, row (from 0)
    UserValue(_)       \* what a value of the engine is for the user

ASSUME ResultSetAssumption == \A r \in Results : r.chunks \in Seq(Seq(Values))

VARIABLES
    result,    \* the result: its type, and its chunks of values
    fetched,   \* how many chunks the engine has handed out
    chunk,     \* r.chunk: 0, or the number of the chunk held
    cursor,    \* r.cursor
    decs,      \* r.nestedDecs: column |-> the chunk its decoder was made for
    live,      \* the chunks not destroyed yet
    rowsState, \* "open", "eof", "failed", "closed"
    poisoned,
    got        \* the rows delivered

rowsvars == <<result, fetched, chunk, cursor, decs, live, rowsState, poisoned, got>>

Cols == {1, 2}
NoDec == 0
Garbage == [is |-> "garbage"]

RowsInit ==
    /\ result \in Results
    /\ fetched = 0 /\ chunk = 0 /\ cursor = 0
    /\ decs = [c \in Cols |-> NoDec]
    /\ live = {}
    /\ rowsState = "open" /\ poisoned = FALSE /\ got = <<>>

ChunkLen(k) == Len(result.chunks[k])

(* The decoder of a column: the one kept, or a new one.  One made for a    *)
(* chunk that is gone reads freed memory.                                  *)
DecoderOf(c, ds, k) == IF ds[c] = NoDec THEN k ELSE ds[c]
CellOf(c, ds, k, row) ==
    IF DecoderOf(c, ds, k) # k THEN Garbage ELSE CellRead(result, k, row)

(* Mutant of KeptDecs: they outlive their chunk.                           *)
KeptDecsForever(released) == decs

(* nestedDecs after the chunk was or was not released.                     *)
KeptDecs(released) == IF released THEN [c \in Cols |-> NoDec] ELSE decs

(* rows.Next: on to a chunk that has rows, destroying the ones that are    *)
(* through or empty, then one row of it.                                   *)
NextRow ==
    /\ rowsState = "open" /\ ~poisoned
    /\ LET stays == chunk # 0 /\ cursor < ChunkLen(chunk)
           full  == {k \in fetched + 1 .. Len(result.chunks) : ChunkLen(k) > 0}
           k     == IF stays THEN chunk ELSE Min(full)
           at    == IF stays THEN cursor ELSE 0
           ds    == KeptDecs(~stays)
       IN  IF stays \/ full # {}
           THEN /\ chunk' = k /\ fetched' = (IF stays THEN fetched ELSE k)
                /\ live' = {k} /\ cursor' = at + 1
                /\ decs' = [c \in Cols |-> DecoderOf(c, ds, k)]
                /\ got' = Append(got, [c \in Cols |-> CellOf(c, ds, k, at)])
                /\ UNCHANGED rowsState
           ELSE /\ chunk' = 0 /\ fetched' = Len(result.chunks) /\ live' = {} /\ cursor' = 0
                /\ decs' = ds /\ rowsState' = "eof" /\ UNCHANGED got
    /\ UNCHANGED <<result, poisoned>>

(* rows.Next on an engine a sibling has poisoned: ErrBadConn.              *)
NextPoisoned ==
    /\ rowsState = "open" /\ poisoned
    /\ rowsState' = "failed"
    /\ UNCHANGED <<result, fetched, chunk, cursor, decs, live, poisoned, got>>

(* The engine panics while a row is fetched: the guard closes the rows.    *)
NextPanics ==
    /\ rowsState = "open" /\ ~poisoned
    /\ poisoned' = TRUE /\ rowsState' = "closed"
    /\ UNCHANGED <<result, fetched, chunk, cursor, decs, live, got>>

(* rows.Close: a sound engine destroys the chunk held.                     *)
CloseRows ==
    /\ rowsState \in {"open", "eof", "failed"}
    /\ rowsState' = "closed" /\ chunk' = 0
    /\ IF poisoned THEN UNCHANGED <<live, cursor, decs>>
       ELSE live' = {} /\ cursor' = 0 /\ decs' = KeptDecs(TRUE)
    /\ UNCHANGED <<result, fetched, poisoned, got>>

SiblingPoisons ==
    /\ rowsState # "closed" /\ ~poisoned
    /\ poisoned' = TRUE
    /\ UNCHANGED <<result, fetched, chunk, cursor, decs, live, rowsState, got>>

RowsNext == NextRow \/ NextPoisoned \/ NextPanics \/ CloseRows \/ SiblingPoisons

RowsSpec == RowsInit /\ [][RowsNext]_rowsvars

-----------------------------------------------------------------------------
Produced == FlattenSeq(result.chunks)

(* rows.Next and vecDecoder.cell: the rows delivered are the engine's, in  *)
(* order and with nothing of another row, list or chunk in them, whatever  *)
(* the type and wherever the chunk boundaries lie; the end is told only    *)
(* after all of them, and no chunk of a sound engine outlives the rows.    *)
RowsAsProduced ==
    /\ Len(got) <= Len(Produced)
    /\ \A i \in DOMAIN got, c \in Cols : got[i][c] = UserValue(Produced[i])
    /\ rowsState = "eof" => Len(got) = Len(Produced)
    /\ rowsState \in {"eof", "closed"} /\ ~poisoned => live = {}

(* vecDecoder.cell: the decoder of a chunk reads each of its values as     *)
(* what it is for the user.                                                *)
CellsExact ==
    \A r \in Results : \A k \in 1 .. Len(r.chunks) : \A row \in 0 .. Len(r.chunks[k]) - 1 :
        CellRead(r, k, row) = UserValue(r.chunks[k][row + 1])
=============================================================================
