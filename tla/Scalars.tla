------------------------------- MODULE Scalars -------------------------------
(***************************************************************************)
(* Scalar cells as values and texts (converge/duckdb/result.go, exotic.go,  *)
(* variant.go, udf_codec.go), with machine integers of bounded width.  The  *)
(* widths are CONSTANTS and the time units too, so that every value of a    *)
(* type can be tried; Go's division truncates toward zero.                  *)
(***************************************************************************)
EXTENDS Integers, Sequences, SequencesExt, Folds

CONSTANTS
    W,          \* bits of a word: 64
    Half,       \* bits of the narrow words, in order: <<8, 16, 32>>
    Group,      \* bits of a varint group: 7
    FracDigits, \* digits of a second's fraction: 6
    Sexa,       \* minutes of an hour, seconds of a minute: 60
    Hours,      \* hours of a day: 24
    MaxOffset,  \* the bias of a time-zone offset: 57599
    OffsetBits  \* bits of the stored offset: 24

Pow(b, n) == FoldLeft(LAMBDA acc, x : acc * b, 1, [i \in 1 .. n |-> i])
Signed(w, x) == LET u == x % Pow(2, w) IN IF u >= Pow(2, w - 1) THEN u - Pow(2, w) ELSE u
Unsigned(w, x) == x % Pow(2, w)
SRange(w) == -Pow(2, w - 1) .. Pow(2, w - 1) - 1
URange(w) == 0 .. Pow(2, w) - 1
Abs(x) == IF x < 0 THEN -x ELSE x
Quo(a, b) == IF a < 0 THEN -((-a) \div b) ELSE a \div b
Rem(a, b) == a - b * Quo(a, b)

(* Digits of a number, most significant first; Value reads them back.      *)
Fixed(base, n, x) == [i \in 1 .. n |-> (x \div Pow(base, n - i)) % base]
Value(base, ds) == FoldLeft(LAMBDA acc, d : acc * base + d, 0, ds)
Shown(x) == LET n == CHOOSE k \in 1 .. 12 : (k = 1 \/ x >= Pow(10, k - 1)) /\ x < Pow(10, k) IN Fixed(10, n, x)
Trimmed(ds) == LET n == CHOOSE k \in 1 .. Len(ds) : (\A j \in k + 1 .. Len(ds) : ds[j] = 0) /\ (k = 1 \/ ds[k] # 0)
               IN  SubSeq(ds, 1, n)

-----------------------------------------------------------------------------
(* Wide integers                                                           *)

(* Mutant of hugeintValue: the lower word is read as signed.               *)
hugeintSignedLow(lower, upper, signed) ==
    (IF signed THEN Signed(W, upper) ELSE Unsigned(W, upper)) * Pow(2, W) + Signed(W, lower)

(* hugeintValue, bigFrom128: two words as one number.                      *)
hugeintValue(lower, upper, signed) ==
    (IF signed THEN Signed(W, upper) ELSE Unsigned(W, upper)) * Pow(2, W) + Unsigned(W, lower)

(* uuidFromWords: the words' digits, the sign of the upper one flipped.    *)
uuidFromWords(lower, upper) ==
    Fixed(2, W, Unsigned(W, upper + Pow(2, W - 1))) \o Fixed(2, W, Unsigned(W, lower))

(* bignumString: three header bytes, then the magnitude, complemented      *)
(* when negative.                                                          *)
Byte == Pow(2, Group + 1)
bignumString(blob) ==
    LET negative == blob[1] < Byte \div 2
        mag == [i \in 1 .. Len(blob) - 3 |-> IF negative THEN Byte - 1 - blob[i + 3] ELSE blob[i + 3]]
    IN  IF Len(blob) < 4 THEN 0 ELSE IF negative THEN -Value(Byte, mag) ELSE Value(Byte, mag)
Bignum(x) ==
    LET mag  == Fixed(Byte, 2, Abs(x))
        head == <<Byte \div 2, 0, 2>>
        all  == head \o mag
    IN  IF x < 0 THEN [i \in DOMAIN all |-> Byte - 1 - all[i]] ELSE all

(* uvarint: at most as many groups as the word of 32 bits takes, here the  *)
(* last of Half.  The result is [v, n], the number and the bytes read.     *)
U32 == Last(Half)
uvarint(p) ==
    LET groups == CHOOSE k \in 1 .. U32 + 1 : (k - 1) * Group <= U32 /\ k * Group > U32
        ends   == {i \in DOMAIN p : p[i] < Byte \div 2}
        last   == IF ends = {} THEN Len(p) ELSE CHOOSE i \in ends : \A j \in ends : i <= j
        used   == IF last <= groups THEN last ELSE groups
        v      == FoldLeft(LAMBDA acc, i : acc + ((p[i] % (Byte \div 2)) * Pow(2, Group * (i - 1))), 0, [i \in 1 .. used |-> i])
    IN  [v |-> Unsigned(U32, v), n |-> IF last <= groups /\ ends # {} THEN last ELSE Len(p)]
Varint(x) ==
    LET n == CHOOSE k \in 1 .. U32 : x < Pow(2, Group * k) /\ (k = 1 \/ x >= Pow(2, Group * (k - 1)))
    IN  [i \in 1 .. n |-> ((x \div Pow(2, Group * (i - 1))) % (Byte \div 2)) + (IF i < n THEN Byte \div 2 ELSE 0)]

(* varintBytes: the run after its length, cut where the blob ends.         *)
varintBytes(p) ==
    LET len == uvarint(p) IN SubSeq(p, len.n + 1, IF len.n + len.v > Len(p) THEN Len(p) ELSE len.n + len.v)

(* bitString: the first byte tells how many bits of the second are filler. *)
bitString(blob) ==
    IF Len(blob) < 2 \/ blob[1] > Group + 1 THEN <<>>
    ELSE SubSeq(FlattenSeq([i \in 1 .. Len(blob) - 1 |-> Fixed(2, Group + 1, blob[i + 1])]), blob[1] + 1,
                (Len(blob) - 1) * (Group + 1))
Bits(bs) ==
    LET pad  == (-Len(bs)) % (Group + 1)
        full == [i \in 1 .. pad |-> 1] \o bs
    IN  <<pad>> \o [i \in 1 .. Len(full) \div (Group + 1) |->
                      Value(2, SubSeq(full, (i - 1) * (Group + 1) + 1, i * (Group + 1)))]

-----------------------------------------------------------------------------
(* formatDecimal and Decimal.String: sign, whole digits, fraction digits.  *)
formatDecimal(x, scale) ==
    LET ds  == Shown(Abs(x))
        all == IF Len(ds) <= scale THEN [i \in 1 .. scale + 1 - Len(ds) |-> 0] \o ds ELSE ds
    IN  [neg |-> x < 0, whole |-> SubSeq(all, 1, Len(all) - scale), frac |-> SubSeq(all, Len(all) - scale + 1, Len(all))]

-----------------------------------------------------------------------------
(* Times.  Ticks are the microseconds of the code.                         *)

Tick == Pow(10, FracDigits)
Minute == Sexa * Tick
Hour == Sexa * Minute
Day == Hours * Hour

(* timeStringMicros, and the time part of timeTZString: a clock face.      *)
Clock(ticks) ==
    LET h == Quo(ticks, Hour)
        m == Quo(ticks - h * Hour, Minute)
        s == Quo(ticks - h * Hour - m * Minute, Tick)
        f == ticks - h * Hour - m * Minute - s * Tick
    IN  [h |-> h, m |-> m, s |-> s, frac |-> IF f = 0 THEN <<>> ELSE Trimmed(Fixed(10, FracDigits, f))]

(* Mutant of Negated: the magnitude is taken where the code keeps negative.*)
NegatedUp(micros) == -Signed(W, Abs(micros))

(* Interval.String works below zero, where the least word has room.        *)
Negated(micros) == IF micros < 0 THEN micros ELSE -micros

IntervalString(months, days, micros) ==
    LET n    == Negated(micros)
        h    == Signed(W, -Quo(n, Hour))
        n1   == Signed(W, n + h * Hour)
        m    == -Quo(n1, Minute)
        n2   == n1 + m * Minute
        s    == -Quo(n2, Tick)
        f    == -(n2 + s * Tick)
    IN  [years |-> Quo(months, 12), months |-> months - Quo(months, 12) * 12, days |-> days,
         neg |-> micros < 0,
         clock |-> IF micros = 0 THEN <<>>
                   ELSE <<h, m, s, IF f = 0 THEN <<>> ELSE Trimmed(Fixed(10, FracDigits, f))>>]

(* timeTZString: the offset is stored reversed and biased.                 *)
timeTZString(bits) ==
    LET offset == MaxOffset - (bits % Pow(2, OffsetBits))
        o == Abs(offset)
    IN  [time |-> Clock(bits \div Pow(2, OffsetBits)), neg |-> offset < 0,
         hh |-> o \div (Sexa * Sexa), mm |-> (o % (Sexa * Sexa)) \div Sexa, ss |-> o % Sexa]

Infinity == Pow(2, W - 1) - 1

(* Mutant of DayOf: the day is truncated toward the epoch.                 *)
DayOfTruncated(raw, perDay) == Quo(raw, perDay)

(* timestampString, and writeCell of a DATE: days are floored.             *)
DayOf(raw, perDay) == IF Rem(raw, perDay) < 0 THEN Quo(raw, perDay) - 1 ELSE Quo(raw, perDay)

(* unit is the ticks of one raw step: a second, a tick, or between.        *)
timestampString(raw, unit) ==
    LET perDay == Day \div unit
    IN  IF Abs(raw) = Infinity THEN [is |-> "infinity", neg |-> raw < 0]
        ELSE [is |-> "time", day |-> DayOf(raw, perDay), clock |-> Clock((raw - DayOf(raw, perDay) * perDay) * unit)]

(* timestampValue: whole seconds and a remainder that time.Unix carries.   *)
timestampValue(raw, unit) ==
    LET perSec == Tick \div unit
        nsec   == Rem(raw, perSec) * unit
    IN  IF Abs(raw) = Infinity THEN [is |-> "infinity", neg |-> raw < 0]
        ELSE [is |-> "time", sec |-> Quo(raw, perSec) + nsec \div Tick, tick |-> nsec % Tick]

-----------------------------------------------------------------------------
(* Cells: writeCell, readCellT (what a UDF is given) and rows.decode (what *)
(* a query delivers).  A type is [signed, w]; a cell holds its bits.       *)

(* Mutant of Stored: the value is clamped to the type.                     *)
StoredClamped(type, i) ==
    LET top == IF type.signed THEN Pow(2, type.w - 1) - 1 ELSE Pow(2, type.w) - 1
    IN  Unsigned(type.w, IF i > top THEN top ELSE i)

(* writeCell: the low bits of an int64.                                    *)
Stored(type, i) == Unsigned(type.w, i)

readCellT(type, bits) == IF type.signed THEN Signed(type.w, bits) ELSE Signed(W, Unsigned(type.w, bits))
(* rows.decode gives the widest unsigned type as text beyond int64.        *)
decode(type, bits) ==
    IF type.signed THEN [is |-> "int", n |-> Signed(type.w, bits)]
    ELSE [is |-> IF bits > Infinity THEN "text" ELSE "int", n |-> Unsigned(type.w, bits)]

(* clearValid: one bit of one word; a mask is a sequence of words.         *)
clearValid(mask, row) == [mask EXCEPT ![(row \div W) + 1] = @ \ {row % W}]
readValid(mask, row) == (row % W) \in mask[(row \div W) + 1]

(* The Go value a UDF returns, as an integer: asInt64, asBool.             *)
asInt64(v) ==
    CASE v.go \in {"int64", "int", "int32", "int16", "int8", "uint", "uint32"} -> <<v.n>>
      [] v.go = "uint64" -> <<Signed(W, v.n)>>
      [] v.go \in {"float64", "float32"} -> <<Quo(v.n, 2)>>
      [] v.go = "bool" -> <<v.n>>
      [] OTHER -> <<>>

-----------------------------------------------------------------------------
(* The shim's linear memory in wasm pages, sizes in 32 bits: the last of   *)
(* Half.  The engine's request is unsigned, the shim's argument is not.    *)
(* Xemscripten_resize_heap: [ok, grow].                                    *)
resize_heap(requested, cur, page, free) ==
    LET asked == Signed(U32, requested)
        need  == Signed(U32, asked - cur)
        pages == Quo(Signed(U32, need + page - 1), page)
    IN  IF asked <= cur THEN [ok |-> TRUE, grow |-> 0]
        ELSE [ok |-> pages <= free, grow |-> IF pages <= free THEN pages ELSE 0]
=============================================================================
