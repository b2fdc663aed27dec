--------------------------- MODULE BulkLoadProofs ---------------------------
(***************************************************************************)
(* What holds of the bulk appender for every number of rows, every chunk   *)
(* size and every number of failed flushes and inspections; and of the     *)
(* aggregates over what it loaded, for every table, every set of blobs and *)
(* every way the engine spreads rows over partial states.                  *)
(***************************************************************************)
EXTENDS MCBulkLoad, SequenceTheorems, TLAPS

(* The appender alone; a query that runs beside it leaves all this alone.  *)
AppenderSpec == AppenderInit /\ [][AppenderNext]_appenderVars

(* The buffer holds rows AppendRow has taken and no flush has taken away.  *)
BufferBounded == Len(rows) <= accepted

(* A scan has handed out the rows in front of the cursor, and the          *)
(* statement that is about to insert has seen the whole buffer, which      *)
(* nothing changes in the meantime.                                        *)
ScanInStep ==
    /\ op.step \in {"scan", "inspect"} => cursor <= Len(rows)
    /\ op.step = "scan" => out = SubSeq(rows, 1, cursor)
    /\ op.step = "insert" => out = rows
    /\ op.step \in {"scan", "insert"} => op.want = Len(rows)

AppenderInv == AppenderTypeOK /\ BufferBounded /\ ScanInStep /\ EachRowOnce
-----------------------------------------------------------------------------
(* Sequences of rows, and the numbers they carry.                          *)
Numbers(s) == {s[i].n : i \in DOMAIN s}
Ascending(s) == \A i, j \in DOMAIN s : i < j => s[i].n < s[j].n

LEMMA NumberTyped ==
  ASSUME NEW s \in Seq(Rows), NEW i \in DOMAIN s
  PROVE  s[i] \in Rows /\ s[i].n \in 1 .. MaxRows
<1>1. s[i] \in Rows
  BY ElementOfSeq, LenProperties
<1> QED BY <1>1 DEF Rows

(* A row with a higher number than those in front of it.                   *)
LEMMA AppendAscends ==
  ASSUME NEW s \in Seq(Rows), NEW r \in Rows, Ascending(s),
         \A i \in DOMAIN s : s[i].n < r.n
  PROVE  Ascending(Append(s, r)) /\ Numbers(Append(s, r)) = Numbers(s) \cup {r.n}
<1> DEFINE t == Append(s, r)
<1>1. Len(s) \in Nat /\ DOMAIN s = 1 .. Len(s)
  BY LenProperties
<1>2. /\ t \in Seq(Rows) /\ Len(t) = Len(s) + 1
      /\ \A i \in 1 .. Len(s) : t[i] = s[i]
      /\ t[Len(s) + 1] = r
  BY AppendProperties
<1>3. DOMAIN t = 1 .. Len(s) + 1
  BY <1>2, LenProperties
<1>4. DOMAIN t = DOMAIN s \cup {Len(s) + 1}
  BY <1>1, <1>3
<1>5. Numbers(t) = Numbers(s) \cup {r.n}
  BY <1>1, <1>2, <1>4 DEF Numbers
<1>6. Ascending(t)
  <2> SUFFICES ASSUME NEW i \in DOMAIN t, NEW j \in DOMAIN t, i < j
               PROVE  t[i].n < t[j].n
    BY DEF Ascending
  <2>1. i \in DOMAIN s /\ t[i] = s[i]
    BY <1>1, <1>2, <1>3
  <2>2. CASE j \in DOMAIN s
    BY <2>1, <2>2, <1>1, <1>2 DEF Ascending
  <2>3. CASE j = Len(s) + 1
    BY <2>1, <2>3, <1>2
  <2> QED BY <2>2, <2>3, <1>4
<1> QED BY <1>5, <1>6

LEMMA ConcatAppend ==
  ASSUME NEW s \in Seq(Rows), NEW t \in Seq(Rows), NEW r \in Rows
  PROVE  s \o Append(t, r) = Append(s \o t, r)
<1>1. <<r>> \in Seq(Rows) /\ Append(t, r) = t \o <<r>>
  BY AppendIsConcat
<1>2. s \o t \in Seq(Rows)
  BY ConcatProperties
<1>3. Append(s \o t, r) = (s \o t) \o <<r>>
  BY <1>2, AppendIsConcat
<1> QED BY <1>1, <1>3, ConcatAssociative

(* Numbers that ascend over two sequences are apart in each.               *)
LEMMA SplitNumbers ==
  ASSUME NEW s \in Seq(Rows), NEW t \in Seq(Rows)
  PROVE  /\ Numbers(s \o t) = Numbers(s) \cup Numbers(t)
         /\ Ascending(s \o t) => Ascending(s) /\ Numbers(s) \cap Numbers(t) = {}
<1> DEFINE u == s \o t
<1>1. /\ Len(s) \in Nat /\ DOMAIN s = 1 .. Len(s)
      /\ Len(t) \in Nat /\ DOMAIN t = 1 .. Len(t)
  BY LenProperties
<1>2. /\ u \in Seq(Rows) /\ Len(u) = Len(s) + Len(t)
      /\ \A i \in 1 .. Len(s) + Len(t) :
            u[i] = IF i <= Len(s) THEN s[i] ELSE t[i - Len(s)]
  BY ConcatProperties
<1>3. DOMAIN u = 1 .. Len(s) + Len(t)
  BY <1>2, LenProperties
<1>4. \A i \in DOMAIN s : i \in DOMAIN u /\ u[i] = s[i]
  BY <1>1, <1>2, <1>3
<1>5. \A i \in DOMAIN t : Len(s) + i \in DOMAIN u /\ u[Len(s) + i] = t[i]
  BY <1>1, <1>2, <1>3
<1>6. \A i \in DOMAIN u : \/ i \in DOMAIN s /\ u[i] = s[i]
                          \/ i - Len(s) \in DOMAIN t /\ u[i] = t[i - Len(s)]
  BY <1>1, <1>2, <1>3
<1> HIDE DEF u
<1>7. Numbers(u) = Numbers(s) \cup Numbers(t)
  <2>1. Numbers(s) \subseteq Numbers(u)
    BY <1>4 DEF Numbers
  <2>2. Numbers(t) \subseteq Numbers(u)
    BY <1>5 DEF Numbers
  <2>3. Numbers(u) \subseteq Numbers(s) \cup Numbers(t)
    BY <1>6 DEF Numbers
  <2> QED BY <2>1, <2>2, <2>3
<1>8. ASSUME Ascending(u) PROVE Ascending(s) /\ Numbers(s) \cap Numbers(t) = {}
  <2>1. Ascending(s)
    BY <1>8, <1>4 DEF Ascending
  <2>2. ASSUME NEW i \in DOMAIN s, NEW j \in DOMAIN t PROVE s[i].n # t[j].n
    <3>1. i < Len(s) + j
      BY <1>1
    <3>2. u[i].n < u[Len(s) + j].n
      BY <3>1, <1>8, <1>4, <1>5 DEF Ascending
    <3>3. s[i].n < t[j].n
      BY <3>2, <1>4, <1>5
    <3> QED BY <3>3, NumberTyped
  <2> QED BY <2>1, <2>2 DEF Numbers
<1> QED BY <1>7, <1>8 DEF u

(* The next chunk takes up where the cursor stands, and is empty only at   *)
(* the end of the buffer.                                                  *)
LEMMA ChunkFollows ==
  ASSUME AppenderTypeOK, cursor <= Len(rows)
  PROVE  /\ Chunk \in Seq(Rows) /\ Len(Chunk) \in Nat
         /\ cursor + Len(Chunk) <= Len(rows)
         /\ Len(Chunk) = 0 => cursor = Len(rows)
         /\ SubSeq(rows, 1, cursor) \o Chunk = SubSeq(rows, 1, cursor + Len(Chunk))
<1> DEFINE last == IF Len(rows) - cursor < VectorSize THEN Len(rows) ELSE cursor + VectorSize
<1>1. /\ rows \in Seq(Rows) /\ Len(rows) \in Nat /\ cursor \in Nat
      /\ VectorSize \in Nat \ {0}
  BY AppenderAssumption, LenProperties DEF AppenderTypeOK
<1>2. /\ last \in Int /\ last <= Len(rows) /\ cursor <= last
      /\ last = cursor => cursor = Len(rows)
  BY <1>1
<1>3. Chunk = SubSeq(rows, cursor + 1, last)
  BY DEF Chunk
<1> HIDE DEF last
<1>4. \A i \in 1 .. Len(rows) : rows[i] \in Rows
  BY <1>1, ElementOfSeq
<1>5. /\ Chunk \in Seq(Rows)
      /\ Len(Chunk) = last - cursor
      /\ \A i \in 1 .. last - cursor : Chunk[i] = rows[cursor + i]
  <2>1. \A i \in cursor + 1 .. last : rows[i] \in Rows
    BY <1>1, <1>2, <1>4
  <2>2. /\ Chunk \in Seq(Rows)
        /\ Len(Chunk) = IF cursor + 1 <= last THEN last - (cursor + 1) + 1 ELSE 0
        /\ \A i \in 1 .. last - (cursor + 1) + 1 : Chunk[i] = rows[(cursor + 1) + i - 1]
    BY <2>1, <1>1, <1>2, <1>3, SubSeqProperties
  <2>3. last - (cursor + 1) + 1 = last - cursor
    BY <1>1, <1>2
  <2>4. \A i \in 1 .. last - cursor : (cursor + 1) + i - 1 = cursor + i
    BY <1>1, <1>2
  <2>5. Len(Chunk) = last - cursor
    BY <2>2, <1>1, <1>2
  <2> QED BY <2>2, <2>3, <2>4, <2>5
<1>6. ASSUME NEW k \in Int, 0 <= k, k <= Len(rows)
      PROVE  /\ SubSeq(rows, 1, k) \in Seq(Rows) /\ Len(SubSeq(rows, 1, k)) = k
             /\ \A i \in 1 .. k : SubSeq(rows, 1, k)[i] = rows[i]
  <2>1. \A i \in 1 .. k : rows[i] \in Rows
    BY <1>6, <1>1, <1>4
  <2>2. /\ SubSeq(rows, 1, k) \in Seq(Rows)
        /\ Len(SubSeq(rows, 1, k)) = IF 1 <= k THEN k - 1 + 1 ELSE 0
        /\ \A i \in 1 .. k - 1 + 1 : SubSeq(rows, 1, k)[i] = rows[1 + i - 1]
    BY <2>1, SubSeqProperties
  <2> QED BY <2>2, <1>6
<1> DEFINE u == SubSeq(rows, 1, cursor) \o Chunk
<1>7. /\ u \in Seq(Rows) /\ Len(u) = cursor + (last - cursor)
      /\ \A i \in 1 .. cursor + (last - cursor) :
            u[i] = IF i <= cursor THEN SubSeq(rows, 1, cursor)[i] ELSE Chunk[i - cursor]
  <2> DEFINE p == SubSeq(rows, 1, cursor)
  <2>1. p \in Seq(Rows) /\ Len(p) = cursor
    BY <1>1, <1>6
  <2>2. u = p \o Chunk
    OBVIOUS
  <2> HIDE DEF p, u
  <2>3. /\ p \o Chunk \in Seq(Rows) /\ Len(p \o Chunk) = Len(p) + Len(Chunk)
        /\ \A i \in 1 .. Len(p) + Len(Chunk) :
              (p \o Chunk)[i] = IF i <= Len(p) THEN p[i] ELSE Chunk[i - Len(p)]
    BY <2>1, <1>5, ConcatProperties
  <2>4. /\ u \in Seq(Rows) /\ Len(u) = cursor + (last - cursor)
        /\ \A i \in 1 .. cursor + (last - cursor) :
              u[i] = IF i <= cursor THEN p[i] ELSE Chunk[i - cursor]
    BY <2>1, <2>2, <2>3, <1>5
  <2> QED BY <2>4 DEF p
<1>8. Len(u) = last /\ \A i \in 1 .. last : u[i] = rows[i]
  BY <1>1, <1>2, <1>5, <1>6, <1>7
<1> HIDE DEF u
<1>9. u = SubSeq(rows, 1, last)
  <2>1. /\ SubSeq(rows, 1, last) \in Seq(Rows) /\ Len(SubSeq(rows, 1, last)) = last
        /\ \A i \in 1 .. last : SubSeq(rows, 1, last)[i] = rows[i]
    BY <1>1, <1>2, <1>6
  <2> QED BY <2>1, <1>7, <1>8, SeqEqual
<1>10. cursor + Len(Chunk) = last
  BY <1>1, <1>2, <1>5
<1> QED BY <1>1, <1>2, <1>5, <1>9, <1>10 DEF u
-----------------------------------------------------------------------------
(* EachRowOnce on the numbers alone.                                       *)
LEMMA OnNumbers ==
  EachRowOnce <=> /\ Ascending(table \o rows)
                  /\ Numbers(table \o rows) \cup {r.n : r \in lost} = 1 .. accepted
                  /\ Numbers(table \o rows) \cap {r.n : r \in lost} = {}
  BY DEF EachRowOnce, Ascending, Numbers

LEMMA OnNumbersNext ==
  EachRowOnce' <=> /\ Ascending(table' \o rows')
                   /\ Numbers(table' \o rows') \cup {r.n : r \in lost'} = 1 .. accepted'
                   /\ Numbers(table' \o rows') \cap {r.n : r \in lost'} = {}
  BY DEF EachRowOnce, Ascending, Numbers

LEMMA KeptSame ==
  ASSUME EachRowOnce, table' \o rows' = table \o rows, UNCHANGED <<lost, accepted>>
  PROVE  EachRowOnce'
  BY OnNumbers, OnNumbersNext

(* The table and the buffer after another, as the step starts.             *)
LEMMA KeptTyped == AppenderTypeOK => table \o rows \in Seq(Rows)
  BY ConcatProperties DEF AppenderTypeOK

(* A statement that failed keeps the buffer for a retry, or gives it up    *)
(* where a Close was waiting for it.                                       *)
LEMMA FailureKeepsCount ==
  ASSUME AppenderTypeOK, EachRowOnce, NEW closing \in BOOLEAN,
         Finish(FALSE, closing), UNCHANGED <<table, accepted>>
  PROVE  EachRowOnce'
<1>1. CASE ~closing
  BY <1>1, KeptSame DEF Finish
<1>2. CASE closing
  <2>1. /\ rows' = <<>> /\ lost' = lost \cup Range(rows)
        /\ table \in Seq(Rows) /\ rows \in Seq(Rows)
    BY <1>2 DEF Finish, AppenderTypeOK
  <2>2. table' \o rows' = table
    BY <2>1, ConcatEmptySeq
  <2>3. /\ Numbers(table \o rows) = Numbers(table) \cup Numbers(rows)
        /\ Ascending(table) /\ Numbers(table) \cap Numbers(rows) = {}
    BY <2>1, SplitNumbers, OnNumbers
  <2>4. {r.n : r \in lost'} = {r.n : r \in lost} \cup Numbers(rows)
    BY <2>1 DEF Numbers, Range
  <2> QED BY <2>2, <2>3, <2>4, OnNumbers, OnNumbersNext
<1> QED BY <1>1, <1>2

(* Whatever way a statement ends, the buffer is what it was or empty.      *)
LEMMA FinishTyped ==
  ASSUME AppenderTypeOK, BufferBounded, NEW ok \in BOOLEAN, NEW closing \in BOOLEAN,
         Finish(ok, closing)
  PROVE  /\ rows' \in Seq(Rows) /\ closed' \in BOOLEAN /\ lost' \subseteq Rows
         /\ Len(rows') <= accepted
<1>1. rows \in Seq(Rows) /\ DOMAIN rows = 1 .. Len(rows)
  BY LenProperties DEF AppenderTypeOK
<1>2. Range(rows) \subseteq Rows
  BY <1>1, ElementOfSeq DEF Range
<1>3. <<>> \in Seq(Rows) /\ Len(<<>>) = 0 /\ 0 <= accepted
  BY EmptySeq DEF AppenderTypeOK
<1> QED BY <1>1, <1>2, <1>3 DEF Finish, AppenderTypeOK, BufferBounded
-----------------------------------------------------------------------------
(* The first state, and each action in turn.                               *)
LEMMA AppenderStarts == AppenderInit => AppenderInv
<1> SUFFICES ASSUME AppenderInit PROVE AppenderInv
  OBVIOUS
<1>1. <<>> \in Seq(Rows) /\ Len(<<>>) = 0
  BY EmptySeq
<1>2. AppenderTypeOK /\ BufferBounded /\ ScanInStep
  <2>1. op = [step |-> "new", want |-> 0, closing |-> FALSE]
    BY DEF AppenderInit, Idle
  <2>2. /\ rows = <<>> /\ out = <<>> /\ table = <<>> /\ cursor = 0 /\ accepted = 0
        /\ scanErr = FALSE /\ closed = FALSE /\ usable = TRUE /\ lost = {} /\ calls = 0
    BY DEF AppenderInit
  <2>3. AppenderTypeOK
    <3>1. /\ cursor \in 0 .. MaxRows /\ accepted \in 0 .. MaxRows /\ calls \in 0 .. MaxCalls
          /\ op \in [step : {"new", "idle", "scan", "inspect", "insert"}, want : 0 .. MaxRows,
                     closing : BOOLEAN]
      BY <2>1, <2>2, AppenderAssumption
    <3> QED BY <1>1, <2>2, <3>1 DEF AppenderTypeOK
  <2> QED BY <1>1, <2>1, <2>2, <2>3 DEF BufferBounded, ScanInStep
<1>3. table \o rows = <<>>
  BY <1>1, ConcatEmptySeq DEF AppenderInit
<1>4. EachRowOnce
  BY <1>3 DEF AppenderInit, EachRowOnce
<1> QED BY <1>2, <1>4 DEF AppenderInv

LEMMA AppendStep ==
  ASSUME AppenderInv, NEW g \in Groups, NEW is \in {"good", "violating"}, AppendRow(g, is)
  PROVE  AppenderInv'
<1> DEFINE r == [n |-> accepted + 1, g |-> g, is |-> is]
<1>1. /\ r \in Rows /\ r.n = accepted + 1 /\ rows \in Seq(Rows) /\ table \in Seq(Rows)
      /\ accepted' = accepted + 1 /\ rows' = Append(rows, r) /\ op = Idle
      /\ accepted' \in 0 .. MaxRows /\ accepted \in Nat
      /\ UNCHANGED <<cursor, scanErr, closed, op, out, table, usable, lost, calls>>
  BY AppenderAssumption DEF AppendRow, AppenderInv, AppenderTypeOK, Rows
<1> HIDE DEF r
<1>2. rows' \in Seq(Rows) /\ Len(rows') = Len(rows) + 1 /\ Len(rows) \in Nat
  BY <1>1, AppendProperties, LenProperties
<1>3. AppenderTypeOK' /\ BufferBounded' /\ ScanInStep'
  BY <1>1, <1>2 DEF AppenderInv, AppenderTypeOK, BufferBounded, ScanInStep, Idle
<1>4. EachRowOnce'
  <2> DEFINE kept == table \o rows
  <2>1. table' \o rows' = Append(kept, r) /\ kept \in Seq(Rows)
    BY <1>1, ConcatAppend, KeptTyped DEF AppenderInv
  <2>2. /\ Ascending(kept)
        /\ Numbers(kept) \cup {q.n : q \in lost} = 1 .. accepted
        /\ Numbers(kept) \cap {q.n : q \in lost} = {}
    BY OnNumbers DEF AppenderInv
  <2> HIDE DEF kept
  <2>3. \A i \in DOMAIN kept : kept[i].n < r.n
    <3> SUFFICES ASSUME NEW i \in DOMAIN kept PROVE kept[i].n < r.n
      OBVIOUS
    <3>1. kept[i].n \in 1 .. accepted
      BY <2>2 DEF Numbers
    <3> QED BY <3>1, <1>1
  <2>4. /\ Ascending(Append(kept, r))
        /\ Numbers(Append(kept, r)) = Numbers(kept) \cup {accepted + 1}
    BY <2>1, <2>2, <2>3, <1>1, AppendAscends
  <2>5. 1 .. accepted' = (1 .. accepted) \cup {accepted + 1} /\ accepted + 1 \notin 1 .. accepted
    BY <1>1
  <2>6. lost' = lost
    BY <1>1
  <2> QED BY <2>1, <2>2, <2>4, <2>5, <2>6, OnNumbersNext
<1> QED BY <1>3, <1>4 DEF AppenderInv

(* A row that the caller spoils keeps its place and its number.            *)
LEMMA SpoilStep ==
  ASSUME AppenderInv, NEW i \in DOMAIN rows, Spoil(i)
  PROVE  AppenderInv'
<1> DEFINE r == [rows[i] EXCEPT !.is = "spoiled"]
<1>1. /\ rows \in Seq(Rows) /\ table \in Seq(Rows) /\ op = Idle
      /\ UNCHANGED <<cursor, scanErr, closed, op, out, table, usable, accepted, lost, calls>>
  BY DEF Spoil, AppenderInv, AppenderTypeOK
<1>2. DOMAIN rows = 1 .. Len(rows) /\ Len(rows) \in Nat /\ i \in 1 .. Len(rows)
  BY <1>1, LenProperties
<1>3. rows[i] \in Rows
  BY <1>1, <1>2, ElementOfSeq
<1>4. r \in Rows /\ r.n = rows[i].n
  BY <1>3 DEF Rows
<1>5. rows' = [rows EXCEPT ![i] = r]
  BY DEF Spoil
<1> HIDE DEF r
<1>6. /\ rows' \in Seq(Rows) /\ Len(rows') = Len(rows)
      /\ \A j \in 1 .. Len(rows) : rows'[j] = IF j = i THEN r ELSE rows[j]
  BY <1>1, <1>2, <1>4, <1>5, ExceptSeq
<1>7. AppenderTypeOK' /\ BufferBounded' /\ ScanInStep'
  BY <1>1, <1>6 DEF AppenderInv, AppenderTypeOK, BufferBounded, ScanInStep, Idle
<1>8. EachRowOnce'
  <2> DEFINE kept == table \o rows
             then == table \o rows'
  <2>1. Len(table) \in Nat
    BY <1>1, LenProperties
  <2>2. /\ kept \in Seq(Rows) /\ Len(kept) = Len(table) + Len(rows)
        /\ \A j \in 1 .. Len(table) + Len(rows) :
              kept[j] = IF j <= Len(table) THEN table[j] ELSE rows[j - Len(table)]
    BY <1>1, ConcatProperties
  <2>3. /\ then \in Seq(Rows) /\ Len(then) = Len(table) + Len(rows')
        /\ \A j \in 1 .. Len(table) + Len(rows') :
              then[j] = IF j <= Len(table) THEN table[j] ELSE rows'[j - Len(table)]
    BY <1>1, <1>6, ConcatProperties
  <2>4. DOMAIN kept = 1 .. Len(table) + Len(rows) /\ DOMAIN then = DOMAIN kept
    BY <1>6, <2>2, <2>3, LenProperties
  <2> HIDE DEF kept, then
  <2>5. \A j \in DOMAIN kept : then[j].n = kept[j].n
    <3> SUFFICES ASSUME NEW j \in DOMAIN kept PROVE then[j].n = kept[j].n
      OBVIOUS
    <3>1. CASE j <= Len(table)
      BY <3>1, <1>6, <2>2, <2>3, <2>4
    <3>2. CASE ~(j <= Len(table))
      <4>1. j - Len(table) \in 1 .. Len(rows)
        BY <3>2, <1>2, <2>1, <2>4
      <4>2. then[j] = rows'[j - Len(table)] /\ kept[j] = rows[j - Len(table)]
        BY <3>2, <1>6, <2>2, <2>3, <2>4
      <4> QED BY <4>1, <4>2, <1>4, <1>6
    <3> QED BY <3>1, <3>2
  <2>6. (Ascending(then) <=> Ascending(kept)) /\ Numbers(then) = Numbers(kept)
    BY <2>4, <2>5 DEF Ascending, Numbers
  <2>7. table' \o rows' = then
    BY <1>1 DEF then
  <2> QED BY <2>6, <2>7, <1>1, OnNumbers, OnNumbersNext DEF AppenderInv, kept
<1> QED BY <1>7, <1>8 DEF AppenderInv

LEMMA FlushStep ==
  ASSUME AppenderInv, NEW closing \in BOOLEAN,
         FlushNothing(closing) \/ FlushRefused(closing) \/ Flush(closing)
  PROVE  AppenderInv'
<1>1. CASE FlushNothing(closing)
  <2>1. /\ Finish(TRUE, closing) /\ rows = <<>> /\ rows' = rows /\ op = Idle /\ lost' = lost
        /\ UNCHANGED <<cursor, scanErr, op, out, table, usable, accepted, calls>>
    BY <1>1 DEF FlushNothing, Finish
  <2>2. AppenderTypeOK' /\ BufferBounded' /\ ScanInStep'
    BY <2>1, FinishTyped DEF AppenderInv, AppenderTypeOK, BufferBounded, ScanInStep, Idle
  <2>3. EachRowOnce'
    BY <2>1, KeptSame DEF AppenderInv
  <2> QED BY <2>2, <2>3 DEF AppenderInv
<1>2. CASE FlushRefused(closing)
  <2>1. /\ Finish(FALSE, closing) /\ op = Idle /\ calls' \in 0 .. MaxCalls
        /\ scanErr' \in BOOLEAN
        /\ UNCHANGED <<cursor, op, out, table, usable, accepted>>
    <3>1. calls \in 0 .. MaxCalls /\ scanErr \in BOOLEAN
      BY DEF AppenderInv, AppenderTypeOK
    <3>2. /\ calls < MaxCalls /\ calls' = calls + 1
          /\ scanErr' = FALSE \/ scanErr' = scanErr
          /\ Finish(FALSE, closing) /\ op = Idle
          /\ UNCHANGED <<cursor, op, out, table, usable, accepted>>
      BY <1>2 DEF FlushRefused
    <3>3. calls' \in 0 .. MaxCalls
      BY <3>1, <3>2, AppenderAssumption
    <3>4. scanErr' \in BOOLEAN
      BY <3>1, <3>2
    <3> QED BY <3>2, <3>3, <3>4
  <2>2. AppenderTypeOK' /\ BufferBounded' /\ ScanInStep'
    BY <2>1, FinishTyped DEF AppenderInv, AppenderTypeOK, BufferBounded, ScanInStep, Idle
  <2>3. EachRowOnce'
    BY <2>1, FailureKeepsCount DEF AppenderInv
  <2> QED BY <2>2, <2>3 DEF AppenderInv
<1>3. CASE Flush(closing)
  <2>1. /\ op' = [step |-> "scan", want |-> Len(rows), closing |-> closing]
        /\ scanErr' = FALSE /\ out' = <<>> /\ cursor' = 0 /\ calls' \in 0 .. MaxCalls
        /\ UNCHANGED <<rows, closed, table, usable, accepted, lost>>
    BY <1>3, AppenderAssumption DEF Flush, InitScan, AppenderInv, AppenderTypeOK
  <2>2. /\ Len(rows) \in Nat /\ <<>> \in Seq(Rows) /\ SubSeq(rows, 1, 0) = <<>>
        /\ Len(rows) \in 0 .. MaxRows
    BY LenProperties, EmptySeq, SubSeqEmpty, AppenderAssumption
       DEF AppenderInv, AppenderTypeOK, BufferBounded
  <2>3. op' \in [step : {"new", "idle", "scan", "inspect", "insert"}, want : 0 .. MaxRows,
                 closing : BOOLEAN]
    BY <2>1, <2>2
  <2>4. AppenderTypeOK' /\ BufferBounded' /\ ScanInStep'
    <3>1. op'.step = "scan" /\ op'.want = Len(rows)
      BY <2>1
    <3>2. AppenderTypeOK' /\ BufferBounded'
      <4>1. cursor' \in 0 .. MaxRows /\ scanErr' \in BOOLEAN /\ out' \in Seq(Rows)
        <5>1. cursor' = 0 /\ out' = <<>> /\ scanErr' = FALSE
          BY <2>1
        <5>2. 0 \in 0 .. MaxRows
          BY AppenderAssumption
        <5> QED BY <5>1, <5>2, <2>2
      <4> QED BY <2>1, <2>3, <4>1 DEF AppenderInv, AppenderTypeOK, BufferBounded
    <3>3. rows' = rows /\ out' = SubSeq(rows', 1, cursor') /\ cursor' <= Len(rows')
      BY <2>1, <2>2
    <3> QED BY <3>1, <3>2, <3>3 DEF ScanInStep
  <2>5. EachRowOnce'
    BY <2>1, KeptSame DEF AppenderInv
  <2> QED BY <2>4, <2>5 DEF AppenderInv
<1> QED BY <1>1, <1>2, <1>3

LEMMA InspectStep ==
  ASSUME AppenderInv, Inspect
  PROVE  AppenderInv'
<1>1. /\ op' = [step |-> "inspect", want |-> 0, closing |-> FALSE]
      /\ out' = <<>> /\ cursor' = 0 /\ calls' \in 0 .. MaxCalls
      /\ UNCHANGED <<rows, scanErr, closed, table, usable, accepted, lost>>
  BY AppenderAssumption DEF Inspect, InitScan, AppenderInv, AppenderTypeOK
<1>2. Len(rows) \in Nat /\ <<>> \in Seq(Rows)
  BY LenProperties, EmptySeq DEF AppenderInv, AppenderTypeOK
<1>3. AppenderTypeOK' /\ BufferBounded' /\ ScanInStep'
  BY <1>1, <1>2, AppenderAssumption
     DEF AppenderInv, AppenderTypeOK, BufferBounded, ScanInStep
<1>4. EachRowOnce'
  BY <1>1, KeptSame DEF AppenderInv
<1> QED BY <1>3, <1>4 DEF AppenderInv

(* A chunk more, or none and the scan is over.                             *)
LEMMA FillStep ==
  ASSUME AppenderInv, Fill
  PROVE  AppenderInv'
<1>1. /\ op.step \in {"scan", "inspect"} /\ cursor' = cursor + Len(Chunk)
      /\ out' = IF Len(Chunk) = 0 /\ op.step = "inspect" THEN <<>> ELSE out \o Chunk
      /\ op' = IF Len(Chunk) > 0 THEN op
               ELSE IF op.step = "inspect" THEN Idle ELSE [op EXCEPT !.step = "insert"]
      /\ UNCHANGED <<rows, scanErr, closed, table, usable, accepted, lost, calls>>
  BY DEF Fill
<1>2. /\ AppenderTypeOK /\ cursor <= Len(rows) /\ Len(rows) <= accepted
      /\ rows \in Seq(Rows) /\ out \in Seq(Rows) /\ Len(rows) \in Nat
      /\ cursor \in Nat /\ accepted \in Nat /\ accepted <= MaxRows
  BY <1>1, LenProperties, AppenderAssumption
     DEF AppenderInv, BufferBounded, ScanInStep, AppenderTypeOK
<1>3. /\ Chunk \in Seq(Rows) /\ Len(Chunk) \in Nat
      /\ cursor + Len(Chunk) <= Len(rows)
      /\ Len(Chunk) = 0 => cursor = Len(rows)
      /\ SubSeq(rows, 1, cursor) \o Chunk = SubSeq(rows, 1, cursor + Len(Chunk))
  BY <1>2, ChunkFollows
<1>4. out' \in Seq(Rows)
  <2>1. out \o Chunk \in Seq(Rows)
    BY <1>2, <1>3, ConcatProperties
  <2> QED BY <2>1, <1>1, EmptySeq
<1>5. op' \in [step : {"new", "idle", "scan", "inspect", "insert"}, want : 0 .. MaxRows,
               closing : BOOLEAN]
  <2>1. op \in [step : {"new", "idle", "scan", "inspect", "insert"}, want : 0 .. MaxRows,
                closing : BOOLEAN]
    BY <1>2 DEF AppenderTypeOK
  <2>2. Idle \in [step : {"new", "idle", "scan", "inspect", "insert"}, want : 0 .. MaxRows,
                  closing : BOOLEAN]
    BY AppenderAssumption DEF Idle
  <2>3. [op EXCEPT !.step = "insert"]
           \in [step : {"new", "idle", "scan", "inspect", "insert"}, want : 0 .. MaxRows,
               closing : BOOLEAN]
    BY <2>1
  <2> QED BY <2>1, <2>2, <2>3, <1>1
<1>6. cursor' \in 0 .. MaxRows /\ cursor' <= Len(rows)
  BY <1>1, <1>2, <1>3, AppenderAssumption
<1>7. AppenderTypeOK' /\ BufferBounded'
  BY <1>1, <1>2, <1>4, <1>5, <1>6 DEF AppenderInv, AppenderTypeOK, BufferBounded
<1>8. ScanInStep'
  <2>1. op.step = "scan" => out \o Chunk = SubSeq(rows, 1, cursor') /\ op.want = Len(rows)
    BY <1>1, <1>3 DEF AppenderInv, ScanInStep
  <2>2. CASE Len(Chunk) > 0
    BY <2>1, <2>2, <1>1, <1>3, <1>6 DEF ScanInStep
  <2>3. CASE Len(Chunk) = 0 /\ op.step = "inspect"
    BY <2>3, <1>1 DEF ScanInStep, Idle
  <2>4. CASE Len(Chunk) = 0 /\ op.step = "scan"
    <3>1. out' = rows
      <4>1. cursor' = Len(rows)
        BY <2>4, <1>1, <1>2, <1>3
      <4> QED BY <4>1, <2>1, <2>4, <1>1, <1>2, SubSeqFull
    <3>2. op'.step = "insert" /\ op'.want = op.want
      BY <2>4, <1>1, <1>2 DEF AppenderTypeOK
    <3> QED BY <3>1, <3>2, <2>1, <2>4, <1>1 DEF ScanInStep
  <2> QED BY <2>2, <2>3, <2>4, <1>1, <1>3
<1>9. EachRowOnce'
  BY <1>1, KeptSame DEF AppenderInv
<1> QED BY <1>7, <1>8, <1>9 DEF AppenderInv

(* The scan stops at a row that cannot be encoded.                         *)
LEMMA FillFailsStep ==
  ASSUME AppenderInv, FillFails
  PROVE  AppenderInv'
<1>1. /\ scanErr' = TRUE /\ op' = Idle /\ out' = <<>>
      /\ IF op.step = "scan" THEN Finish(FALSE, op.closing) ELSE UNCHANGED <<rows, closed, lost>>
      /\ UNCHANGED <<cursor, table, usable, accepted, calls>>
      /\ op.closing \in BOOLEAN /\ <<>> \in Seq(Rows)
  BY EmptySeq DEF FillFails, AppenderInv, AppenderTypeOK
<1>2. AppenderTypeOK' /\ BufferBounded' /\ ScanInStep'
  <2>1. Idle \in [step : {"new", "idle", "scan", "inspect", "insert"}, want : 0 .. MaxRows,
                  closing : BOOLEAN]
    BY AppenderAssumption DEF Idle
  <2>2. /\ rows' \in Seq(Rows) /\ closed' \in BOOLEAN /\ lost' \subseteq Rows
        /\ Len(rows') <= accepted
    BY <1>1, FinishTyped DEF AppenderInv, AppenderTypeOK, BufferBounded
  <2> QED BY <1>1, <2>1, <2>2 DEF AppenderInv, AppenderTypeOK, BufferBounded, ScanInStep, Idle
<1>3. EachRowOnce'
  BY <1>1, KeptSame, FailureKeepsCount DEF AppenderInv
<1> QED BY <1>2, <1>3 DEF AppenderInv

(* All the rows of the buffer move to the table at once, or none does.     *)
LEMMA InsertStep ==
  ASSUME AppenderInv, Insert \/ InsertFails
  PROVE  AppenderInv'
<1>1. /\ op.step = "insert" /\ out = rows /\ op.want = Len(rows) /\ op.closing \in BOOLEAN
      /\ rows \in Seq(Rows) /\ table \in Seq(Rows) /\ <<>> \in Seq(Rows)
  BY EmptySeq DEF Insert, InsertFails, AppenderInv, AppenderTypeOK, ScanInStep
<1>2. Idle \in [step : {"new", "idle", "scan", "inspect", "insert"}, want : 0 .. MaxRows,
                closing : BOOLEAN]
  BY AppenderAssumption DEF Idle
<1>3. CASE Insert
  <2>1. /\ table' = table \o rows /\ op' = Idle /\ out' = <<>>
        /\ Finish(TRUE, op.closing)
        /\ UNCHANGED <<cursor, scanErr, usable, accepted, calls>>
    BY <1>1, <1>3 DEF Insert
  <2>2. /\ rows' \in Seq(Rows) /\ closed' \in BOOLEAN /\ lost' \subseteq Rows
        /\ Len(rows') <= accepted
    BY <1>1, <2>1, FinishTyped DEF AppenderInv
  <2>3. rows' = <<>> /\ lost' = lost /\ table' \in Seq(Rows)
    BY <1>1, <2>1, ConcatProperties DEF Finish
  <2>4. AppenderTypeOK' /\ BufferBounded' /\ ScanInStep'
    BY <1>1, <1>2, <2>1, <2>2, <2>3
       DEF AppenderInv, AppenderTypeOK, BufferBounded, ScanInStep, Idle
  <2>5. table' \o rows' = table \o rows
    BY <2>1, <2>3, ConcatEmptySeq
  <2>6. EachRowOnce'
    BY <2>1, <2>3, <2>5, KeptSame DEF AppenderInv
  <2> QED BY <2>4, <2>6 DEF AppenderInv
<1>4. CASE InsertFails
  <2>1. /\ op' = Idle /\ out' = <<>> /\ Finish(FALSE, op.closing)
        /\ UNCHANGED <<cursor, scanErr, table, usable, accepted, calls>>
    BY <1>4 DEF InsertFails
  <2>2. /\ rows' \in Seq(Rows) /\ closed' \in BOOLEAN /\ lost' \subseteq Rows
        /\ Len(rows') <= accepted
    BY <1>1, <2>1, FinishTyped DEF AppenderInv
  <2>3. AppenderTypeOK' /\ BufferBounded' /\ ScanInStep'
    BY <1>1, <1>2, <2>1, <2>2
       DEF AppenderInv, AppenderTypeOK, BufferBounded, ScanInStep, Idle
  <2>4. EachRowOnce'
    BY <1>1, <2>1, FailureKeepsCount DEF AppenderInv
  <2> QED BY <2>3, <2>4 DEF AppenderInv
<1> QED BY <1>3, <1>4

LEMMA AppenderKeeps == AppenderInv /\ [AppenderNext]_appenderVars => AppenderInv'
<1> SUFFICES ASSUME AppenderInv, [AppenderNext]_appenderVars PROVE AppenderInv'
  OBVIOUS
<1>1. CASE NewAppender
  <2>1. Idle \in [step : {"new", "idle", "scan", "inspect", "insert"}, want : 0 .. MaxRows,
                  closing : BOOLEAN]
    BY AppenderAssumption DEF Idle
  <2>2. EachRowOnce'
    BY <1>1, KeptSame DEF NewAppender, AppenderInv
  <2> QED BY <1>1, <2>1, <2>2
          DEF NewAppender, AppenderInv, AppenderTypeOK, BufferBounded, ScanInStep, Idle
<1>2. CASE \E g \in Groups, is \in {"good", "violating"} : AppendRow(g, is)
  BY <1>2, AppendStep
<1>3. CASE \E i \in DOMAIN rows : Spoil(i)
  BY <1>3, SpoilStep
<1>4. CASE \E closing \in BOOLEAN :
             FlushNothing(closing) \/ FlushRefused(closing) \/ Flush(closing)
  BY <1>4, FlushStep
<1>5. CASE Inspect
  BY <1>5, InspectStep
<1>6. CASE Fill
  BY <1>6, FillStep
<1>7. CASE FillFails
  BY <1>7, FillFailsStep
<1>8. CASE Insert \/ InsertFails
  BY <1>8, InsertStep
<1>9. CASE Unusable
  <2>1. EachRowOnce'
    BY <1>9, KeptSame DEF Unusable, AppenderInv
  <2> QED BY <1>9, <2>1
          DEF Unusable, AppenderInv, AppenderTypeOK, BufferBounded, ScanInStep
<1>10. CASE UNCHANGED appenderVars
  <2>1. EachRowOnce'
    BY <1>10, KeptSame DEF appenderVars, AppenderInv
  <2> QED BY <1>10, <2>1
          DEF appenderVars, AppenderInv, AppenderTypeOK, BufferBounded, ScanInStep
<1> QED BY <1>1, <1>2, <1>3, <1>4, <1>5, <1>6, <1>7, <1>8, <1>9, <1>10 DEF AppenderNext
-----------------------------------------------------------------------------
(* The appender's variables keep their types, however many rows, chunks    *)
(* and retries there are (Appender, appender.go 53-62).                    *)
THEOREM AppenderTypeCorrect == AppenderSpec => []AppenderTypeOK
<1>1. AppenderInv => AppenderTypeOK
  BY DEF AppenderInv
<1> QED BY <1>1, AppenderStarts, AppenderKeeps, PTL DEF AppenderSpec

(* A flush that failed can be retried, and a failing Close gives rows up,  *)
(* but none is ever inserted twice, lost unseen or put out of order        *)
(* (Flush, Close and flush, appender.go 125-180).                          *)
THEOREM RowsAreKeptOnce == AppenderSpec => []EachRowOnce
<1>1. AppenderInv => EachRowOnce
  BY DEF AppenderInv
<1> QED BY <1>1, AppenderStarts, AppenderKeeps, PTL DEF AppenderSpec

(* The check flush makes of the number of rows it has inserted never       *)
(* fails: a scan feeds the whole buffer, whatever was scanned before it    *)
(* and however often (flush, initFn, fillFn: appender.go 146-180, 207-235).*)
THEOREM ScanFeedsTheBuffer ==
  AppenderSpec => [](op.step = "insert" => out = rows /\ Len(out) = op.want)
<1>1. AppenderInv => (op.step = "insert" => out = rows /\ Len(out) = op.want)
  BY DEF AppenderInv, ScanInStep
<1> QED BY <1>1, AppenderStarts, AppenderKeeps, PTL DEF AppenderSpec

-----------------------------------------------------------------------------
(* Aggregate states.                                                       *)

(* Between queries, the table may become any other.                        *)
Load == phase = "idle" /\ source' \subseteq RowSet /\ UNCHANGED aggVars

Step == (AggNext /\ UNCHANGED source) \/ Load
AggSpec == AggInit /\ source \subseteq RowSet /\ [][Step]_<<aggVars, source>>

Plans == [g : Keys \cup {AllRows}, rows : SUBSET RowSet]

(* Types, and that a query has blobs, rows to come and answers only while  *)
(* it runs.                                                                *)
Typed ==
    /\ phase \in {"idle", "running", "failing", "freeing", "broken"}
    /\ single \in BOOLEAN /\ next \in Nat
    /\ source \subseteq RowSet /\ pending \subseteq RowSet
    /\ plan \in [Blobs -> Plans \cup {None}]
    /\ blob \in [Blobs -> 0 .. next]
    /\ phase = "idle" => Live = {} /\ DOMAIN answers = {}

(* The handles of the table are those of the blobs in use, one for each,   *)
(* and none that initFn has still to give out.                             *)
HandlesExact ==
    /\ DOMAIN states = {blob[b] : b \in Live}
    /\ \A b \in Live : blob[b] # 0
    /\ \A b, c \in Live : blob[b] = blob[c] => b = c

(* The state behind a blob holds what the engine folded into that blob,    *)
(* each row once, and nothing that it has still to fold.                   *)
StatesExact ==
    \A b \in Live : /\ states[blob[b]] = SetToBag(plan[b].rows)
                    /\ plan[b].rows \cap pending = {}

AnswersExact == \A g \in DOMAIN answers : answers[g] = SetToBag(RowsOf(g))

AggInv == Typed /\ HandlesExact /\ StatesExact /\ AnswersExact
-----------------------------------------------------------------------------
(* Bags of rows in which no row is twice.                                  *)
LEMMA BagOfUnion ==
  ASSUME NEW S, NEW T, S \cap T = {}
  PROVE  SetToBag(S) (+) SetToBag(T) = SetToBag(S \cup T)
<1>1. SetToBag(S) (+) SetToBag(T) =
        [e \in S \cup T |-> (IF e \in S THEN 1 ELSE 0) + (IF e \in T THEN 1 ELSE 0)]
  BY DEF SetToBag, (+)
<1>2. \A e \in S \cup T : (IF e \in S THEN 1 ELSE 0) + (IF e \in T THEN 1 ELSE 0) = 1
  OBVIOUS
<1> QED BY <1>1, <1>2 DEF SetToBag

(* A blob in use has a plan, and its handle is in the table.               *)
LEMMA LiveBlob ==
  ASSUME Typed, HandlesExact, NEW b \in Live
  PROVE  /\ b \in Blobs /\ plan[b] \in Plans
         /\ blob[b] \in DOMAIN states /\ blob[b] \in 1 .. next
<1>1. b \in Blobs /\ plan[b] \in Plans
  BY DEF Live, Typed
<1>2. blob[b] \in DOMAIN states /\ blob[b] \in 0 .. next /\ blob[b] # 0
  BY <1>1 DEF HandlesExact, Typed
<1> QED BY <1>1, <1>2 DEF Typed

LEMMA LiveSame == plan' = plan => Live' = Live
  BY DEF Live

LEMMA RowsSame == source' = source /\ single' = single => \A g : RowsOf(g)' = RowsOf(g)
  BY DEF RowsOf, GroupOf

(* Steps that touch neither the table of states nor the engine's plans.    *)
LEMMA HandlesSame ==
  ASSUME HandlesExact, UNCHANGED <<states, blob, plan>>
  PROVE  HandlesExact'
  BY LiveSame DEF HandlesExact

LEMMA StatesSame ==
  ASSUME StatesExact, UNCHANGED <<states, blob, plan>>, pending' \subseteq pending
  PROVE  StatesExact'
  BY LiveSame DEF StatesExact

LEMMA AnswersSame ==
  ASSUME AnswersExact, UNCHANGED <<answers, source, single>>
  PROVE  AnswersExact'
  BY RowsSame DEF AnswersExact

LEMMA NoAnswers == DOMAIN answers' = {} => AnswersExact'
  BY DEF AnswersExact
-----------------------------------------------------------------------------
(* The first state, and each action in turn.                               *)
LEMMA AggStarts == AggInit /\ source \subseteq RowSet => AggInv
<1> SUFFICES ASSUME AggInit, source \subseteq RowSet PROVE AggInv
  OBVIOUS
<1>1. Live = {} /\ DOMAIN states = {} /\ DOMAIN answers = {}
  BY DEF AggInit, Live
<1>2. plan \in [Blobs -> Plans \cup {None}] /\ blob \in [Blobs -> 0 .. next]
  BY DEF AggInit
<1>3. Typed
  BY <1>1, <1>2 DEF AggInit, Typed
<1> QED BY <1>1, <1>3 DEF AggInv, HandlesExact, StatesExact, AnswersExact

LEMMA LoadStep ==
  ASSUME AggInv, Load
  PROVE  AggInv'
<1>1. /\ phase = "idle" /\ source' \subseteq RowSet /\ Live = {} /\ DOMAIN answers = {}
      /\ UNCHANGED <<phase, single, next, states, blob, plan, pending, answers>>
  BY DEF Load, AggInv, Typed, aggVars
<1>2. Typed'
  BY <1>1, LiveSame DEF AggInv, Typed
<1> QED BY <1>1, <1>2, HandlesSame, StatesSame, NoAnswers DEF AggInv

(* A query starts with every row to be folded and no state.                *)
LEMMA QueryStep ==
  ASSUME AggInv, Query, UNCHANGED source
  PROVE  AggInv'
<1>1. /\ phase' = "running" /\ single' \in BOOLEAN /\ pending' = source
      /\ DOMAIN answers' = {} /\ Live = {}
      /\ UNCHANGED <<next, states, blob, plan, source>>
  BY DEF Query, AggInv, Typed
<1>2. Typed'
  BY <1>1, LiveSame DEF AggInv, Typed
<1>3. StatesExact'
  BY <1>1, LiveSame DEF StatesExact
<1> QED BY <1>1, <1>2, <1>3, HandlesSame, NoAnswers DEF AggInv

(* The phases in which the engine gives its states back, or nothing more.  *)
LEMMA PhaseStep ==
  ASSUME AggInv, UNCHANGED source,
         Answered \/ End \/ ImplPanics \/ (\E b \in Blobs : FinalizeFails(b))
  PROVE  AggInv'
<1>1. UNCHANGED <<next, states, blob, plan, pending, source>>
  BY DEF Answered, End, ImplPanics, FinalizeFails
<1>2. /\ phase' \in {"idle", "running", "failing", "freeing", "broken"} /\ single' \in BOOLEAN
      /\ phase' = "idle" => Live = {} /\ DOMAIN answers' = {}
  <2>1. /\ phase \in {"idle", "running", "failing", "freeing", "broken"} /\ single \in BOOLEAN
        /\ phase = "idle" => Live = {} /\ DOMAIN answers = {}
    BY DEF AggInv, Typed
  <2>2. CASE Answered
    BY <2>1, <2>2 DEF Answered
  <2>3. CASE End
    <3>1. phase' = "idle" /\ single' = FALSE /\ answers' = <<>> /\ Live = {}
      BY <2>3 DEF End
    <3>2. DOMAIN answers' = {} /\ Live = {}
      BY <3>1
    <3> QED BY <3>1, <3>2
  <2>4. CASE ImplPanics
    BY <2>1, <2>4 DEF ImplPanics
  <2>5. CASE \E b \in Blobs : FinalizeFails(b)
    BY <2>1, <2>5 DEF FinalizeFails
  <2> QED BY <2>2, <2>3, <2>4, <2>5
<1>3. Typed'
  BY <1>1, <1>2, LiveSame DEF AggInv, Typed
<1>4. AnswersExact'
  <2>1. DOMAIN answers' = {} \/ UNCHANGED <<answers, single>>
    BY DEF Answered, End, ImplPanics, FinalizeFails
  <2> QED BY <2>1, <1>1, NoAnswers, AnswersSame DEF AggInv
<1> QED BY <1>1, <1>3, <1>4, HandlesSame, StatesSame DEF AggInv

(* A new state has a handle that no other has or had.                      *)
LEMMA InitStep ==
  ASSUME NoneIsApart, AggInv, UNCHANGED source, NEW b \in Blobs,
         NEW g \in Keys \cup {AllRows}, initFn(b, g)
  PROVE  AggInv'
<1> DEFINE h == next + 1
           p == [g |-> g, rows |-> {}]
<1>1. /\ phase = "running" /\ plan[b] = None
      /\ next' = h /\ blob' = [blob EXCEPT ![b] = h] /\ plan' = [plan EXCEPT ![b] = p]
      /\ states' = [k \in DOMAIN states \cup {h} |-> IF k = h THEN EmptyBag ELSE states[k]]
      /\ UNCHANGED <<phase, single, pending, answers, source>>
  BY DEF initFn, put, newHandle
<1>2. /\ Typed /\ HandlesExact /\ StatesExact /\ AnswersExact
      /\ plan \in [Blobs -> Plans \cup {None}] /\ blob \in [Blobs -> 0 .. next] /\ next \in Nat
  BY DEF AggInv, Typed
<1>3. p \in Plans /\ p # None /\ p.rows = {} /\ h \in Nat /\ h # 0
  BY <1>2 DEF Plans, NoneIsApart
<1> HIDE DEF h, p
<1>4. Live' = Live \cup {b} /\ b \notin Live
  BY <1>1, <1>2, <1>3 DEF Live
<1>5. \A c \in Live : /\ c # b /\ c \in Blobs /\ blob'[c] = blob[c] /\ plan'[c] = plan[c]
                      /\ blob[c] # h /\ blob[c] \in DOMAIN states /\ blob[c] # 0
  <2> SUFFICES ASSUME NEW c \in Live
               PROVE  /\ c # b /\ c \in Blobs /\ blob'[c] = blob[c] /\ plan'[c] = plan[c]
                      /\ blob[c] # h /\ blob[c] \in DOMAIN states /\ blob[c] # 0
    OBVIOUS
  <2>1. c \in Blobs /\ blob[c] \in DOMAIN states /\ blob[c] \in 1 .. next
    BY <1>2, LiveBlob
  <2>2. blob[c] # h /\ blob[c] # 0
    BY <2>1, <1>2 DEF h
  <2> QED BY <2>1, <2>2, <1>1, <1>2, <1>4
<1>6. blob'[b] = h /\ plan'[b] = p
  BY <1>1, <1>2
<1>7. Typed'
  <2>1. blob' \in [Blobs -> 0 .. next']
    <3>1. blob \in [Blobs -> 0 .. h] /\ h \in 0 .. h
      BY <1>2, <1>3 DEF h
    <3> QED BY <3>1, <1>1
  <2>2. plan' \in [Blobs -> Plans \cup {None}]
    BY <1>1, <1>2, <1>3
  <2> QED BY <2>1, <2>2, <1>1, <1>2, <1>3 DEF Typed
<1>8. HandlesExact'
  <2>1. DOMAIN states' = {blob'[c] : c \in Live'}
    <3>1. DOMAIN states' = DOMAIN states \cup {h}
      BY <1>1
    <3>2. DOMAIN states = {blob[c] : c \in Live}
      BY <1>2 DEF HandlesExact
    <3> QED BY <3>1, <3>2, <1>4, <1>5, <1>6
  <2>2. \A c \in Live' : blob'[c] # 0
    BY <1>3, <1>4, <1>5, <1>6
  <2>3. \A c, d \in Live' : blob'[c] = blob'[d] => c = d
    BY <1>2, <1>4, <1>5, <1>6 DEF HandlesExact
  <2> QED BY <2>1, <2>2, <2>3 DEF HandlesExact
<1>9. StatesExact'
  <2>1. states'[h] = SetToBag({})
    BY <1>1 DEF EmptyBag
  <2>2. \A c \in Live : states'[blob[c]] = states[blob[c]]
    BY <1>1, <1>5
  <2> QED BY <2>1, <2>2, <1>1, <1>2, <1>3, <1>4, <1>5, <1>6 DEF StatesExact
<1>10. AnswersExact'
  BY <1>1, <1>2, AnswersSame
<1> QED BY <1>7, <1>8, <1>9, <1>10 DEF AggInv

(* More rows for one blob, which go to that blob's state alone.            *)
LEMMA FoldRows ==
  ASSUME NoneIsApart, AggInv, UNCHANGED <<phase, source, single, next, blob, answers>>,
         phase = "running", NEW b \in Live, NEW R \in SUBSET RowSet,
         R \cap plan[b].rows = {}, pending' \subseteq pending, R \cap pending' = {},
         states' = [states EXCEPT ![blob[b]] = @ (+) SetToBag(R)],
         plan' = [plan EXCEPT ![b].rows = @ \cup R]
  PROVE  AggInv'
<1> DEFINE p == [plan[b] EXCEPT !.rows = @ \cup R]
<1>1. /\ Typed /\ HandlesExact /\ StatesExact /\ AnswersExact
      /\ plan \in [Blobs -> Plans \cup {None}]
  BY DEF AggInv, Typed
<1>2. b \in Blobs /\ plan[b] \in Plans /\ blob[b] \in DOMAIN states
  BY <1>1, LiveBlob
<1>3. plan' = [plan EXCEPT ![b] = p]
  OBVIOUS
<1>4. p \in Plans /\ p.rows = plan[b].rows \cup R /\ p # None
  BY <1>2 DEF Plans, NoneIsApart
<1> HIDE DEF p
<1>5. plan'[b] = p /\ \A c \in Blobs \ {b} : plan'[c] = plan[c]
  BY <1>1, <1>2, <1>3
<1>6. Live' = Live
  BY <1>2, <1>4, <1>5 DEF Live
<1>7. Typed'
  <2>1. plan' \in [Blobs -> Plans \cup {None}]
    BY <1>1, <1>3, <1>4
  <2>2. pending' \subseteq RowSet /\ phase' # "idle"
    BY <1>1 DEF Typed
  <2> QED BY <2>1, <2>2, <1>1 DEF Typed
<1>8. HandlesExact'
  BY <1>1, <1>6 DEF HandlesExact
<1>9. StatesExact'
  <2>1. states'[blob[b]] = SetToBag(p.rows) /\ p.rows \cap pending' = {}
    <3>1. states[blob[b]] = SetToBag(plan[b].rows) /\ plan[b].rows \cap pending = {}
      BY <1>1 DEF StatesExact
    <3>2. states'[blob[b]] = SetToBag(plan[b].rows) (+) SetToBag(R)
      BY <3>1, <1>2
    <3> QED BY <3>1, <3>2, <1>4, BagOfUnion
  <2>2. ASSUME NEW c \in Live, c # b
        PROVE  states'[blob[c]] = SetToBag(plan'[c].rows) /\ plan'[c].rows \cap pending' = {}
    <3>1. blob[c] # blob[b] /\ c \in Blobs
      BY <2>2, <1>1 DEF HandlesExact, Live
    <3>2. states'[blob[c]] = states[blob[c]] /\ plan'[c] = plan[c]
      BY <3>1, <2>2, <1>2, <1>5, <1>1, LiveBlob
    <3> QED BY <3>2, <1>1 DEF StatesExact
  <2> QED BY <2>1, <2>2, <1>5, <1>6 DEF StatesExact
<1>10. AnswersExact'
  BY <1>1, AnswersSame
<1> QED BY <1>7, <1>8, <1>9, <1>10 DEF AggInv

LEMMA UpdateStep ==
  ASSUME NoneIsApart, AggInv, UNCHANGED source, NEW b \in Blobs, NEW r \in pending,
         updateFn(b, r)
  PROVE  AggInv'
<1>1. /\ phase = "running" /\ b \in Live
      /\ states' = [states EXCEPT ![blob[b]] = @ (+) SetToBag({r})]
      /\ plan' = [plan EXCEPT ![b].rows = @ \cup {r}]
      /\ pending' = pending \ {r}
      /\ UNCHANGED <<phase, single, next, blob, answers>>
  BY DEF updateFn
<1>2. {r} \in SUBSET RowSet /\ {r} \cap plan[b].rows = {}
  BY <1>1 DEF AggInv, Typed, StatesExact
<1> QED BY <1>1, <1>2, FoldRows

LEMMA CombineStep ==
  ASSUME NoneIsApart, AggInv, UNCHANGED source, NEW src \in Blobs, NEW b \in Blobs,
         combineFn(src, b)
  PROVE  AggInv'
<1>1. /\ phase = "running" /\ src \in Live /\ b \in Live
      /\ plan[src].rows \cap plan[b].rows = {}
      /\ states' = [states EXCEPT ![blob[b]] = @ (+) states[blob[src]]]
      /\ plan' = [plan EXCEPT ![b].rows = @ \cup plan[src].rows]
      /\ UNCHANGED <<phase, single, next, blob, pending, answers>>
  BY DEF combineFn, Combined
<1>2. plan[src].rows \in SUBSET RowSet
  BY <1>1, LiveBlob DEF AggInv, Plans
<1>3. /\ states[blob[src]] = SetToBag(plan[src].rows)
      /\ plan[src].rows \cap pending' = {} /\ pending' \subseteq pending
  BY <1>1 DEF AggInv, StatesExact
<1>4. states' = [states EXCEPT ![blob[b]] = @ (+) SetToBag(plan[src].rows)]
  BY <1>1, <1>3
<1> QED BY <1>1, <1>2, <1>3, <1>4, FoldRows

(* The state that covers its group has all its rows.                       *)
LEMMA FinalizeStep ==
  ASSUME AggInv, UNCHANGED source, NEW b \in Blobs, finalizeFn(b)
  PROVE  AggInv'
<1>1. /\ phase = "running" /\ b \in Live /\ plan[b].rows = RowsOf(plan[b].g)
      /\ answers' = [g \in DOMAIN answers \cup {plan[b].g} |->
                        IF g = plan[b].g THEN states[blob[b]] ELSE answers[g]]
      /\ UNCHANGED <<phase, single, next, states, blob, plan, pending, source>>
  BY DEF finalizeFn
<1>2. Typed'
  BY <1>1, LiveSame DEF AggInv, Typed
<1>3. AnswersExact'
  <2>1. states[blob[b]] = SetToBag(RowsOf(plan[b].g))
    BY <1>1 DEF AggInv, StatesExact
  <2>2. \A g \in DOMAIN answers' : answers'[g] = SetToBag(RowsOf(g))
    BY <2>1, <1>1 DEF AggInv, AnswersExact
  <2> QED BY <2>2, <1>1, RowsSame DEF AnswersExact
<1> QED BY <1>1, <1>2, <1>3, HandlesSame, StatesSame DEF AggInv

(* The state of a blob leaves the table with the blob, and no other does.  *)
LEMMA DestroyStep ==
  ASSUME NoneIsApart, AggInv, UNCHANGED source, NEW b \in Blobs, destroyFn(b)
  PROVE  AggInv'
<1>1. /\ Typed /\ HandlesExact /\ StatesExact /\ AnswersExact
      /\ plan \in [Blobs -> Plans \cup {None}] /\ b \in Live
      /\ plan' = [plan EXCEPT ![b] = None]
      /\ UNCHANGED <<phase, single, next, blob, pending, answers, source>>
  BY DEF AggInv, Typed, destroyFn
<1>2. states' = [k \in DOMAIN states \ {blob[b]} |-> states[k]]
  BY <1>1 DEF destroyFn, drop, HandlesExact
<1>3. Live' = Live \ {b}
  BY <1>1 DEF Live
<1>4. \A c \in Live' : /\ c \in Live /\ plan'[c] = plan[c] /\ blob[c] # blob[b]
                       /\ blob[c] \in DOMAIN states
  <2> SUFFICES ASSUME NEW c \in Live'
               PROVE  /\ c \in Live /\ plan'[c] = plan[c] /\ blob[c] # blob[b]
                      /\ blob[c] \in DOMAIN states
    OBVIOUS
  <2>1. c \in Live /\ c # b /\ c \in Blobs
    BY <1>3 DEF Live
  <2> QED BY <2>1, <1>1, LiveBlob DEF HandlesExact
<1>5. Typed'
  <2>1. plan' \in [Blobs -> Plans \cup {None}]
    BY <1>1
  <2> QED BY <2>1, <1>1, <1>3 DEF Typed
<1>6. HandlesExact'
  <2>1. DOMAIN states' = {blob[c] : c \in Live'}
    <3>1. DOMAIN states = {blob[c] : c \in Live}
      BY <1>1 DEF HandlesExact
    <3> QED BY <3>1, <1>2, <1>3, <1>4
  <2> QED BY <2>1, <1>1, <1>4 DEF HandlesExact
<1>7. StatesExact'
  <2>1. \A c \in Live' : states'[blob[c]] = states[blob[c]]
    BY <1>2, <1>4
  <2> QED BY <2>1, <1>1, <1>4 DEF StatesExact
<1>8. AnswersExact'
  BY <1>1, AnswersSame
<1> QED BY <1>5, <1>6, <1>7, <1>8 DEF AggInv

LEMMA AggKeeps == NoneIsApart /\ AggInv /\ [Step]_<<aggVars, source>> => AggInv'
<1> SUFFICES ASSUME NoneIsApart, AggInv, [Step]_<<aggVars, source>> PROVE AggInv'
  OBVIOUS
<1>1. CASE Load
  BY <1>1, LoadStep
<1>2. CASE AggNext /\ UNCHANGED source
  <2>1. CASE Query
    BY <2>1, <1>2, QueryStep
  <2>2. CASE Answered \/ End \/ ImplPanics
    BY <2>2, <1>2, PhaseStep
  <2>3. ASSUME NEW b \in Blobs, NEW g \in (IF single THEN {AllRows} ELSE Keys), initFn(b, g)
        PROVE  AggInv'
    <3>1. g \in Keys \cup {AllRows}
      OBVIOUS
    <3> QED BY <3>1, <2>3, <1>2, InitStep
  <2>4. ASSUME NEW b \in Blobs, NEW r \in pending, updateFn(b, r) PROVE AggInv'
    BY <2>4, <1>2, UpdateStep
  <2>5. ASSUME NEW b \in Blobs, NEW src \in Blobs, combineFn(src, b) PROVE AggInv'
    BY <2>5, <1>2, CombineStep
  <2>6. ASSUME NEW b \in Blobs, finalizeFn(b) PROVE AggInv'
    BY <2>6, <1>2, FinalizeStep
  <2>7. ASSUME NEW b \in Blobs, FinalizeFails(b) PROVE AggInv'
    BY <2>7, <1>2, PhaseStep
  <2>8. ASSUME NEW b \in Blobs, destroyFn(b) PROVE AggInv'
    BY <2>8, <1>2, DestroyStep
  <2> QED BY <2>1, <2>2, <2>3, <2>4, <2>5, <2>6, <2>7, <2>8, <1>2 DEF AggNext
<1>3. CASE UNCHANGED <<aggVars, source>>
  <2>1. UNCHANGED <<phase, single, next, states, blob, plan, pending, answers, source>>
    BY <1>3 DEF aggVars
  <2>2. Typed'
    BY <2>1, LiveSame DEF AggInv, Typed
  <2> QED BY <2>1, <2>2, HandlesSame, StatesSame, AnswersSame DEF AggInv
<1> QED BY <1>1, <1>2, <1>3 DEF Step
-----------------------------------------------------------------------------
(* A query that succeeds has folded every row of a group into its answer   *)
(* exactly once, for any table and any number of partial states            *)
(* (udf_aggregate.go 135-194, udf_agg_band.go 98-157).                     *)
THEOREM RowsAreFoldedOnce ==
  ASSUME NoneIsApart PROVE AggSpec => []EachRowFoldedOnce
<1>1. AggInv => EachRowFoldedOnce
  BY DEF AggInv, AnswersExact, EachRowFoldedOnce
<1> QED BY <1>1, AggStarts, AggKeeps, PTL DEF AggSpec

(* Between queries the table of states is empty, however queries end       *)
(* (destroyFn, udf_aggregate.go 196-210).                                  *)
THEOREM StatesAreFreed ==
  ASSUME NoneIsApart PROVE AggSpec => []NoStateLeaks
<1>1. AggInv => NoStateLeaks
  BY DEF AggInv, Typed, HandlesExact, NoStateLeaks
<1> QED BY <1>1, AggStarts, AggKeeps, PTL DEF AggSpec

(* Each live blob has a state of its own, whatever states were dropped,    *)
(* merged or started meanwhile: no two hold the same handle, the handle is *)
(* in the table, and what it names has the rows the engine folded into     *)
(* that blob, each once (udf_aggregate.go 9-21, 71-86, 135-176).           *)
OwnStates ==
    /\ \A b, c \in Live : blob[b] = blob[c] => b = c
    /\ \A b \in Live : blob[b] \in DOMAIN states /\ states[blob[b]] = SetToBag(plan[b].rows)

THEOREM StatesAreOwn == ASSUME NoneIsApart PROVE AggSpec => []OwnStates
<1>1. AggInv => OwnStates
  BY DEF AggInv, HandlesExact, StatesExact, OwnStates
<1> QED BY <1>1, AggStarts, AggKeeps, PTL DEF AggSpec

-----------------------------------------------------------------------------
(* The refinement: what the engine sees in its blobs.                      *)
Cell == [b \in Blobs |-> IF b \in Live THEN states[blob[b]] ELSE None]

LEMMA CellTyped ==
  ASSUME NoneIsApart, AggInv
  PROVE  \A b \in Blobs : Cell[b] # None <=> b \in Live
<1> SUFFICES ASSUME NEW b \in Blobs, b \in Live PROVE states[blob[b]] # None
  BY DEF Cell
<1>1. plan[b].rows \in SUBSET RowSet
  BY LiveBlob DEF AggInv, Plans
<1> QED BY <1>1 DEF AggInv, StatesExact, NoneIsApart

LEMMA CellSame == UNCHANGED <<states, blob, plan>> => Cell' = Cell
  BY LiveSame DEF Cell

LEMMA InitRefines ==
  ASSUME NoneIsApart, AggInv, NEW b \in Blobs, NEW g \in Keys \cup {AllRows}, initFn(b, g)
  PROVE  Cell[b] = None /\ Cell' = [Cell EXCEPT ![b] = EmptyBag]
<1> DEFINE h == next + 1
           p == [g |-> g, rows |-> {}]
<1>1. /\ plan[b] = None
      /\ blob' = [blob EXCEPT ![b] = h] /\ plan' = [plan EXCEPT ![b] = p]
      /\ states' = [k \in DOMAIN states \cup {h} |-> IF k = h THEN EmptyBag ELSE states[k]]
  BY DEF initFn, put, newHandle
<1>2. plan \in [Blobs -> Plans \cup {None}] /\ blob \in [Blobs -> 0 .. next] /\ next \in Nat
  BY DEF AggInv, Typed
<1>3. p # None
  BY DEF NoneIsApart
<1>4. \A c \in Live : blob[c] \in DOMAIN states /\ blob[c] # h
  <2> SUFFICES ASSUME NEW c \in Live PROVE blob[c] \in DOMAIN states /\ blob[c] # h
    OBVIOUS
  <2>1. blob[c] \in DOMAIN states /\ blob[c] \in 1 .. next
    BY LiveBlob DEF AggInv
  <2> QED BY <2>1, <1>2
<1> HIDE DEF h, p
<1>5. Live' = Live \cup {b} /\ b \notin Live
  BY <1>1, <1>2, <1>3 DEF Live
<1>6. \A c \in Live : c # b /\ blob'[c] = blob[c] /\ states'[blob[c]] = states[blob[c]]
  BY <1>1, <1>2, <1>4, <1>5 DEF Live
<1>7. states'[blob'[b]] = EmptyBag
  BY <1>1, <1>2
<1>8. \A c \in Blobs : Cell'[c] = IF c = b THEN EmptyBag ELSE Cell[c]
  BY <1>5, <1>6, <1>7 DEF Cell
<1> QED BY <1>5, <1>8 DEF Cell

LEMMA FoldRefines ==
  ASSUME NoneIsApart, AggInv, NEW b \in Live, NEW B, NEW R, blob' = blob,
         states' = [states EXCEPT ![blob[b]] = @ (+) B],
         plan' = [plan EXCEPT ![b].rows = @ \cup R], R \subseteq RowSet
  PROVE  Cell' = [Cell EXCEPT ![b] = @ (+) B]
<1> DEFINE p == [plan[b] EXCEPT !.rows = @ \cup R]
<1>1. plan' = [plan EXCEPT ![b] = p] /\ plan \in [Blobs -> Plans \cup {None}]
  BY DEF AggInv, Typed
<1>2. b \in Blobs /\ plan[b] \in Plans /\ blob[b] \in DOMAIN states
  BY LiveBlob DEF AggInv
<1>3. p \in Plans /\ p # None
  BY <1>2 DEF Plans, NoneIsApart
<1> HIDE DEF p
<1>4. Live' = Live
  BY <1>1, <1>2, <1>3 DEF Live
<1>5. states'[blob[b]] = states[blob[b]] (+) B
  BY <1>2
<1>6. \A c \in Live : c # b => states'[blob[c]] = states[blob[c]]
  BY LiveBlob DEF AggInv, HandlesExact
<1>7. \A c \in Blobs : Cell'[c] = IF c = b THEN Cell[b] (+) B ELSE Cell[c]
  BY <1>2, <1>4, <1>5, <1>6 DEF Cell
<1> QED BY <1>2, <1>7 DEF Cell

LEMMA DestroyRefines ==
  ASSUME AggInv, NEW b \in Blobs, destroyFn(b)
  PROVE  Cell' = [Cell EXCEPT ![b] = None]
<1>1. /\ HandlesExact /\ b \in Live /\ blob' = blob /\ plan' = [plan EXCEPT ![b] = None]
      /\ plan \in [Blobs -> Plans \cup {None}]
  BY DEF AggInv, Typed, destroyFn
<1>2. states' = [k \in DOMAIN states \ {blob[b]} |-> states[k]]
  BY <1>1 DEF destroyFn, drop, HandlesExact
<1>3. Live' = Live \ {b}
  BY <1>1 DEF Live
<1>4. \A c \in Live' : c \in Live /\ states'[blob[c]] = states[blob[c]]
  BY <1>1, <1>2, <1>3, LiveBlob DEF AggInv, HandlesExact
<1>5. \A c \in Blobs : Cell'[c] = IF c = b THEN None ELSE Cell[c]
  BY <1>1, <1>3, <1>4 DEF Cell
<1> QED BY <1>5 DEF Cell

LEMMA AggStepRefines ==
  NoneIsApart /\ AggInv /\ [Step]_<<aggVars, source>> => [Inline!Next]_Cell
<1> SUFFICES ASSUME NoneIsApart, AggInv, [Step]_<<aggVars, source>>, Cell' # Cell
             PROVE  Inline!Next
  OBVIOUS
<1>1. ASSUME NEW b \in Blobs, NEW g \in Keys \cup {AllRows}, initFn(b, g)
      PROVE  Inline!Next
  <2>1. Inline!Start(b)
    BY <1>1, InitRefines DEF Inline!Start, Inline!EmptyBag, Inline!SetToBag, EmptyBag, SetToBag, Cell
  <2> QED BY <2>1 DEF Inline!Next
<1>2. ASSUME NEW b \in Blobs, NEW r \in pending, updateFn(b, r)
      PROVE  Inline!Next
  <2>1. r \in RowSet /\ b \in Live
    BY <1>2 DEF AggInv, Typed, updateFn
  <2>2. Cell' = [Cell EXCEPT ![b] = @ (+) SetToBag({r})]
    <3> DEFINE B == SetToBag({r})
               R == {r}
    <3>1. /\ states' = [states EXCEPT ![blob[b]] = @ (+) B]
          /\ plan' = [plan EXCEPT ![b].rows = @ \cup R] /\ blob' = blob
      BY <1>2 DEF updateFn
    <3>2. R \subseteq RowSet
      BY <2>1
    <3> HIDE DEF B, R
    <3>3. Cell' = [Cell EXCEPT ![b] = @ (+) B]
      BY <3>1, <3>2, <2>1, FoldRefines
    <3> QED BY <3>3 DEF B
  <2>3. Cell[b] # None
    BY <2>1, CellTyped
  <2>4. Inline!Fold(b, r)
    BY <2>2, <2>3 DEF Inline!Fold, Inline!(+), Inline!SetToBag, SetToBag, (+), Cell
  <2> QED BY <2>1, <2>4 DEF Inline!Next
<1>3. ASSUME NEW b \in Blobs, NEW src \in Blobs, combineFn(src, b)
      PROVE  Inline!Next
  <2>1. /\ src \in Live /\ b \in Live /\ src # b
        /\ states' = [states EXCEPT ![blob[b]] = @ (+) states[blob[src]]]
        /\ plan' = [plan EXCEPT ![b].rows = @ \cup plan[src].rows] /\ blob' = blob
    BY <1>3 DEF combineFn, Combined
  <2>2. plan[src].rows \subseteq RowSet
    BY <2>1, LiveBlob DEF AggInv, Plans
  <2>3. Cell' = [Cell EXCEPT ![b] = @ (+) states[blob[src]]]
    BY <2>1, <2>2, FoldRefines
  <2>4. Cell[src] = states[blob[src]] /\ Cell[src] # None /\ Cell[b] # None
    BY <2>1, CellTyped DEF Cell
  <2>5. Inline!Merge(src, b)
    BY <2>1, <2>3, <2>4 DEF Inline!Merge, Inline!(+), (+), Cell
  <2> QED BY <2>5 DEF Inline!Next
<1>4. ASSUME NEW b \in Blobs, destroyFn(b)
      PROVE  Inline!Next
  <2>1. Cell[b] # None
    BY <1>4, CellTyped DEF destroyFn
  <2>2. Inline!Free(b)
    BY <1>4, <2>1, DestroyRefines DEF Inline!Free, Cell
  <2> QED BY <2>2 DEF Inline!Next
<1>5. CASE \/ Query \/ Answered \/ End \/ ImplPanics \/ Load
           \/ \E b \in Blobs : finalizeFn(b) \/ FinalizeFails(b)
  <2>1. UNCHANGED <<states, blob, plan>>
    BY <1>5 DEF Query, Answered, End, ImplPanics, Load, aggVars, finalizeFn, FinalizeFails
  <2> QED BY <2>1, CellSame
<1>6. CASE UNCHANGED <<aggVars, source>>
  BY <1>6, CellSame DEF aggVars
<1>7. \A g \in (IF single THEN {AllRows} ELSE Keys) : g \in Keys \cup {AllRows}
  OBVIOUS
<1> QED BY <1>1, <1>2, <1>3, <1>4, <1>5, <1>6, <1>7 DEF Step, AggNext

(* To the engine the table of states looks like states kept in its blobs:  *)
(* what it starts, folds, merges and frees acts on that blob alone, for    *)
(* any number of blobs and rows (udf_aggregate.go 9-21).                   *)
THEOREM HandlesLookInline ==
  ASSUME NoneIsApart PROVE AggSpec => LooksInline
<1>1. AggInit => Inline!Init
  BY DEF AggInit, Inline!Init, Live
<1>2. NoneIsApart /\ AggInv /\ [Step]_<<aggVars, source>>
        => [Inline!Next]_([b \in Blobs |-> IF b \in Live THEN states[blob[b]] ELSE None])
  BY AggStepRefines DEF Cell
<1> QED BY <1>1, <1>2, AggStarts, AggKeeps, PTL DEF AggSpec, LooksInline, Inline!Spec

-----------------------------------------------------------------------------
(* Both together (MCBulkLoad): queries read the table that the appender    *)
(* fills, and start once it is closed.                                     *)

(* A closed appender has no rows; a query runs over a closed one, and      *)
(* begins to free its states when each of its groups has an answer.        *)
QueryAfterClose ==
    /\ source = Contents
    /\ closed => rows = <<>>
    /\ phase # "idle" => closed
    /\ phase = "freeing" => DOMAIN answers = {GroupOf(r) : r \in source}

BulkInv == AppenderInv /\ AggInv /\ QueryAfterClose

LEMMA ContentsTyped == AppenderTypeOK => Contents \subseteq RowSet
<1> SUFFICES ASSUME AppenderTypeOK, NEW i \in DOMAIN table
             PROVE  [n |-> table[i].n, g |-> table[i].g] \in RowSet
  BY DEF Contents
<1>1. table[i] \in Rows
  BY NumberTyped DEF AppenderTypeOK
<1> QED BY <1>1, SameRows DEF Rows, NumberedRows

LEMMA BulkStarts == Init => BulkInv
<1> SUFFICES ASSUME Init PROVE BulkInv
  OBVIOUS
<1>1. AppenderInv
  BY AppenderStarts DEF Init
<1>2. source \subseteq RowSet
  BY <1>1, ContentsTyped DEF Init, AppenderInv
<1>3. AggInv
  BY <1>2, AggStarts DEF Init
<1>4. QueryAfterClose
  BY DEF Init, AppenderInit, AggInit, QueryAfterClose
<1> QED BY <1>1, <1>3, <1>4 DEF BulkInv

(* A step of the whole is one of each part, or leaves it alone.            *)
LEMMA BulkStepsApart ==
  ASSUME BulkInv, [Next]_vars, AppenderTypeOK'
  PROVE  [AppenderNext]_appenderVars /\ [Step]_<<aggVars, source>>
<1>1. CASE source' = Contents' /\ phase = "idle" /\ AppenderNext /\ UNCHANGED aggVars
  <2>1. source' \subseteq RowSet
    <3>1. \A i \in DOMAIN table' : table'[i] \in Rows
      BY NumberTyped DEF AppenderTypeOK
    <3>2. Contents' = {[n |-> table'[i].n, g |-> table'[i].g] : i \in DOMAIN table'}
      BY DEF Contents
    <3> QED BY <1>1, <3>1, <3>2, SameRows DEF Rows, NumberedRows
  <2> QED BY <1>1, <2>1 DEF Step, Load
<1>2. CASE source' = Contents' /\ AggNext /\ UNCHANGED appenderVars
  <2>1. Contents' = Contents
    BY <1>2 DEF appenderVars, Contents
  <2> QED BY <1>2, <2>1 DEF Step, BulkInv, QueryAfterClose
<1>3. CASE UNCHANGED vars
  BY <1>3 DEF vars
<1> QED BY <1>1, <1>2, <1>3 DEF Next

LEMMA ClosedStaysEmpty ==
  ASSUME AppenderTypeOK, closed => rows = <<>>, [AppenderNext]_appenderVars
  PROVE  closed' => rows' = <<>>
<1>1. CASE \E closing \in BOOLEAN : FlushNothing(closing) \/ FlushRefused(closing) \/ Flush(closing)
  BY <1>1 DEF FlushNothing, FlushRefused, Flush, Finish
<1>2. CASE FillFails \/ Insert \/ InsertFails
  BY <1>2 DEF FillFails, Insert, InsertFails, Finish
<1>3. CASE NewAppender \/ Inspect \/ Fill \/ Unusable
  BY <1>3 DEF NewAppender, Inspect, Fill, Unusable
<1>4. CASE \E g \in Groups, is \in {"good", "violating"} : AppendRow(g, is)
  BY <1>4 DEF AppendRow
<1>5. ASSUME NEW i \in DOMAIN rows, Spoil(i) PROVE closed' => rows' = <<>>
  <2>1. rows # <<>>
    BY <1>5, EmptySeq, LenProperties DEF AppenderTypeOK
  <2> QED BY <1>5, <2>1 DEF Spoil
<1>6. CASE UNCHANGED appenderVars
  BY <1>6 DEF appenderVars
<1> QED BY <1>1, <1>2, <1>3, <1>4, <1>5, <1>6 DEF AppenderNext

LEMMA FreeingIsAnswered ==
  ASSUME AggNext, source' = source,
         phase = "freeing" => DOMAIN answers = {GroupOf(r) : r \in source}
  PROVE  phase' = "freeing" => DOMAIN answers' = {GroupOf(r) : r \in source}'
<1> SUFFICES ASSUME phase' = "freeing"
             PROVE  DOMAIN answers' = {GroupOf(r) : r \in source}'
  OBVIOUS
<1>1. answers' = answers /\ single' = single /\ DOMAIN answers = {GroupOf(r) : r \in source}
  <2>1. CASE Query \/ Answered \/ End \/ ImplPanics
    BY <2>1 DEF Query, Answered, End, ImplPanics
  <2>2. ASSUME NEW b \in Blobs,
               \/ \E g \in (IF single THEN {AllRows} ELSE Keys) : initFn(b, g)
               \/ \E r \in pending : updateFn(b, r)
               \/ \E src \in Blobs : combineFn(src, b)
        PROVE  FALSE
    BY <2>2 DEF initFn, updateFn, combineFn
  <2>3. ASSUME NEW b \in Blobs, finalizeFn(b) \/ FinalizeFails(b)
        PROVE  FALSE
    BY <2>3 DEF finalizeFn, FinalizeFails
  <2>4. ASSUME NEW b \in Blobs, destroyFn(b)
        PROVE  answers' = answers /\ single' = single /\ phase = "freeing"
    BY <2>4 DEF destroyFn
  <2> QED BY <2>1, <2>2, <2>3, <2>4 DEF AggNext
<1>2. {GroupOf(r) : r \in source}' = {GroupOf(r) : r \in source}
  BY <1>1 DEF GroupOf
<1> QED BY <1>1, <1>2

LEMMA BulkKeeps == BulkInv /\ [Next]_vars => BulkInv'
<1> SUFFICES ASSUME BulkInv, [Next]_vars PROVE BulkInv'
  OBVIOUS
<1>1. [AppenderNext]_appenderVars
  BY DEF Next, vars
<1>2. AppenderInv'
  BY <1>1, AppenderKeeps DEF BulkInv
<1>3. AppenderTypeOK'
  BY <1>2 DEF AppenderInv
<1>4. AggInv'
  BY <1>3, BulkStepsApart, AggKeeps, AggAssumption DEF BulkInv
<1>5. source' = Contents'
  BY DEF BulkInv, QueryAfterClose, Next, vars, appenderVars, Contents
<1>6. closed' => rows' = <<>>
  BY <1>1, ClosedStaysEmpty DEF BulkInv, AppenderInv, QueryAfterClose
<1>7. (phase' # "idle" => closed')
      /\ (phase' = "freeing" => DOMAIN answers' = {GroupOf(r) : r \in source}')
  <2>1. CASE phase = "idle" /\ UNCHANGED aggVars
    BY <2>1 DEF aggVars
  <2>2. CASE closed /\ AggNext /\ UNCHANGED appenderVars
    <3>1. source' = source
      BY <1>5, <2>2 DEF BulkInv, QueryAfterClose, appenderVars, Contents
    <3> QED BY <2>2, <3>1, FreeingIsAnswered DEF BulkInv, QueryAfterClose, appenderVars
  <2>3. CASE UNCHANGED vars
    <3>1. {GroupOf(r) : r \in source}' = {GroupOf(r) : r \in source}
      BY <2>3 DEF GroupOf, vars, aggVars
    <3> QED BY <2>3, <3>1 DEF vars, aggVars, appenderVars, BulkInv, QueryAfterClose
  <2> QED BY <2>1, <2>2, <2>3 DEF Next
<1> QED BY <1>2, <1>4, <1>5, <1>6, <1>7 DEF BulkInv, QueryAfterClose

(* Appender and aggregates composed are each what they are alone, so what  *)
(* is proved above of either holds of both together.                       *)
THEOREM PartsOfTheWhole == Spec => AppenderSpec /\ AggSpec
<1>1. Init => AppenderInit /\ AggInit /\ source \subseteq RowSet
  BY BulkStarts DEF Init, BulkInv, AggInv, Typed
<1>2. BulkInv /\ BulkInv' /\ [Next]_vars => [AppenderNext]_appenderVars /\ [Step]_<<aggVars, source>>
  BY BulkStepsApart DEF BulkInv, AppenderInv
<1> QED BY <1>1, <1>2, BulkStarts, BulkKeeps, PTL DEF Spec, AppenderSpec, AggSpec

(* From AppendRow to the answer of a query: when a query over the filled   *)
(* table is done, each row that AppendRow took was given up by a Close     *)
(* that said so, or is in the answer of one group, there once and under no *)
(* other form (appender.go 103-180, udf_aggregate.go 135-210).             *)
AnswersHoldAll ==
    phase = "freeing" => \A n \in 1 .. accepted :
        \/ n \in {r.n : r \in lost}
        \/ \E g \in DOMAIN answers : \E r \in DOMAIN answers[g] :
              /\ r.n = n /\ answers[g][r] = 1
              /\ \A h \in DOMAIN answers : \A s \in DOMAIN answers[h] :
                    s.n = n => h = g /\ s = r

THEOREM AcceptedRowsAreAnswered == Spec => []AnswersHoldAll
<1>1. ASSUME BulkInv PROVE AnswersHoldAll
  <2> SUFFICES ASSUME phase = "freeing", NEW m \in 1 .. accepted, m \notin {r.n : r \in lost}
               PROVE  \E g \in DOMAIN answers : \E r \in DOMAIN answers[g] :
                         /\ r.n = m /\ answers[g][r] = 1
                         /\ \A h \in DOMAIN answers : \A s \in DOMAIN answers[h] :
                               s.n = m => h = g /\ s = r
    BY DEF AnswersHoldAll
  <2>1. /\ source = Contents /\ rows = <<>> /\ table \in Seq(Rows)
        /\ DOMAIN answers = {GroupOf(r) : r \in source}
    BY <1>1 DEF BulkInv, QueryAfterClose, AppenderInv, AppenderTypeOK
  <2>2. table \o rows = table
    BY <2>1, ConcatEmptySeq
  <2>3. Ascending(table) /\ m \in Numbers(table)
    BY <1>1, <2>2, OnNumbers DEF BulkInv, AppenderInv
  <2>4. PICK i \in DOMAIN table : table[i].n = m
    BY <2>3 DEF Numbers
  <2>5. PICK r : r = [n |-> table[i].n, g |-> table[i].g]
    OBVIOUS
  <2>6. r \in source /\ r.n = m
    BY <2>1, <2>4, <2>5 DEF Contents
  <2>7. \A s \in source : s.n = m => s = r
    <3> SUFFICES ASSUME NEW j \in DOMAIN table, table[j].n = m PROVE j = i
      BY <2>1, <2>5 DEF Contents
    <3>1. i \in Nat /\ j \in Nat /\ m \in Nat
      BY <2>1, LenProperties DEF BulkInv
    <3> QED BY <2>3, <2>4, <3>1 DEF Ascending
  <2>8. \A h \in DOMAIN answers :
           answers[h] = SetToBag({s \in source : GroupOf(s) = h})
    BY <1>1 DEF BulkInv, AggInv, AnswersExact, RowsOf
  <2>9. \A h \in DOMAIN answers :
           /\ DOMAIN answers[h] = {s \in source : GroupOf(s) = h}
           /\ \A s \in DOMAIN answers[h] : answers[h][s] = 1
    BY <2>8 DEF SetToBag
  <2>10. GroupOf(r) \in DOMAIN answers
    BY <2>1, <2>6
  <2>11. r \in DOMAIN answers[GroupOf(r)] /\ answers[GroupOf(r)][r] = 1
    BY <2>6, <2>9, <2>10
  <2>12. \A h \in DOMAIN answers : \A s \in DOMAIN answers[h] :
            s.n = m => h = GroupOf(r) /\ s = r
    <3> SUFFICES ASSUME NEW h \in DOMAIN answers, NEW s \in DOMAIN answers[h], s.n = m
                 PROVE  h = GroupOf(r) /\ s = r
      OBVIOUS
    <3>1. s \in source /\ GroupOf(s) = h
      BY <2>9
    <3>2. s = r
      BY <2>7, <3>1
    <3> QED BY <3>1, <3>2
  <2> QED BY <2>6, <2>10, <2>11, <2>12
<1>2. BulkInv => AnswersHoldAll
  BY <1>1
<1> QED BY <1>2, BulkStarts, BulkKeeps, PTL DEF Spec
=============================================================================
