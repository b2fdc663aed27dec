------------------------------ MODULE Rendering ------------------------------
(***************************************************************************)
(* Texts of values (duckdb/exotic.go, cmd/sqllogic/main.go): blobs,         *)
(* floating-point numbers, times whose column type is not known; and what   *)
(* the sqllogictest runner reads and keeps besides results: the blocks of a *)
(* record, the session's settings, the keys failures are counted under,    *)
(* and its calendars.                                                      *)
(***************************************************************************)
EXTENDS Scalars, FiniteSetsExt

(* Bytes as they are, but for quotes, backslashes and what is not printable.*)
Printable(c) == c \in 32 .. 126 /\ c \notin {34, 39, 92}
HexDigit(d) == IF d < 10 THEN 48 + d ELSE 55 + d
Escaped(c) == <<92, 120, HexDigit(c \div 16), HexDigit(c % 16)>>

(* Mutant of blobLiteral: the backslash stands for itself.                 *)
blobLiteralBare(b) == FlattenSeq([i \in DOMAIN b |-> IF Printable(b[i]) \/ b[i] = 92 THEN <<b[i]>> ELSE Escaped(b[i])])

blobLiteral(b) ==
    FlattenSeq([i \in DOMAIN b |-> IF Printable(b[i]) THEN <<b[i]>> ELSE Escaped(b[i])])
blobToString(b) == blobLiteral(b)   \* the runner's

HexOf(c) == CHOOSE d \in 0 .. 15 : HexDigit(d) = c
RECURSIVE BytesOf(_)
BytesOf(text) ==
    IF text = <<>> THEN <<>>
    ELSE IF Head(text) = 92
    THEN IF Len(text) < 4 \/ text[2] # 120 THEN <<>> ELSE <<16 * HexOf(text[3]) + HexOf(text[4])>> \o BytesOf(SubSeq(text, 5, Len(text)))
    ELSE <<Head(text)>> \o BytesOf(Tail(text))
BlobDue(b, text) == BytesOf(text) = b /\ \A i \in DOMAIN text : text[i] \in 32 .. 126 \ {34, 39}

(* A finite number is d.dd.. times ten to the e, in as few digits ds as     *)
(* tell it from its neighbours (strconv); [is, neg, ds, e].                *)
Zeros(n) == [i \in 1 .. n |-> 0]
Numeral(form, x, whole, frac) == [form |-> form, neg |-> x.neg /\ x.is # "nan", whole |-> whole, frac |-> frac, e |-> IF form = "exponent" THEN x.e ELSE 0]
FixedFrom == -4
FixedTo == 16
formatFloatBits(x) ==
    CASE x.is # "finite" -> Numeral(x.is, x, <<>>, <<>>)
      [] x.is = "finite" /\ x.e \notin FixedFrom .. FixedTo - 1 -> Numeral("exponent", x, <<x.ds[1]>>, Tail(x.ds))
      [] x.is = "finite" /\ x.e \in FixedFrom .. -1 -> Numeral("fixed", x, <<0>>, Zeros(-x.e - 1) \o x.ds)
      [] OTHER -> Numeral("fixed", x, SubSeq(x.ds \o Zeros(x.e), 1, x.e + 1),
                          IF Len(x.ds) <= x.e + 1 THEN <<0>> ELSE SubSeq(x.ds, x.e + 2, Len(x.ds)))

(* Reading the numeral gives the number; a fixed one has a point.          *)
FloatDue(x, out) ==
    LET all   == out.whole \o out.frac
        first == {i \in DOMAIN all : all[i] # 0}
        lead  == IF first = {} THEN Len(out.whole) - 1 ELSE Min(first) - 1
    IN  IF x.is # "finite" THEN out.form = x.is /\ out.neg = (x.neg /\ x.is = "inf")
        ELSE /\ out.neg = x.neg
             /\ Trimmed(SubSeq(all, lead + 1, Len(all))) = x.ds /\ Len(out.whole) - 1 - lead + out.e = x.e
             /\ out.form = "fixed" => out.frac # <<>> /\ Len(out.whole) <= FixedTo /\ (Len(out.whole) = 1 \/ out.whole[1] # 0)

(* Times in ticks since the epoch.  LastDay (5881580-07-11) and its         *)
(* opposite are the infinities of DATE.                                    *)
LastDay == 7   \* bound
specialDate(t) ==
    IF t % Day # 0 THEN "" ELSE IF t \div Day = LastDay THEN "infinity" ELSE IF t \div Day = -LastDay THEN "-infinity" ELSE ""
fracStr(f) == IF f = 0 THEN <<>> ELSE Trimmed(Fixed(10, FracDigits, f))
timeOfDayString(t) == LET ticks == IF t \in 0 .. Day THEN t ELSE t % Day IN [Clock(ticks) EXCEPT !.frac = fracStr(ticks % Tick)]
formatTimeValue(t) ==
    IF specialDate(t) # "" THEN [is |-> specialDate(t), day |-> 0, clock |-> <<>>]
    ELSE [is |-> "time", day |-> t \div Day, clock |-> IF t % Day = 0 THEN <<>> ELSE <<[Clock(t % Day) EXCEPT !.frac = fracStr(t % Tick)]>>]

-----------------------------------------------------------------------------
(* The lines of a record: its statement, then "----" and its result lines   *)
(* or, without it, none (<<>>, not an empty result).                       *)
emptyOrComment(l) == l \in {"", "#"}
Until(lines, from, Stop(_)) ==
    LET stops == {i \in from .. Len(lines) : Stop(lines[i])} IN IF stops = {} THEN Len(lines) + 1 ELSE Min(stops)
extractStatement(lines, pos) ==
    LET end == Until(lines, pos, LAMBDA l : emptyOrComment(l) \/ l = "----") IN [text |-> SubSeq(lines, pos, end - 1), pos |-> end]

(* Mutant of extractResultLines: an empty block is taken for none.         *)
extractResultLinesNil(lines, pos) ==
    LET end == Until(lines, pos + 1, LAMBDA l : l = "")
    IN  IF pos >= Len(lines) \/ lines[pos] # "----" \/ end = pos + 1 THEN [out |-> <<>>, pos |-> pos]
        ELSE [out |-> <<SubSeq(lines, pos + 1, end - 1)>>, pos |-> end]

extractResultLines(lines, pos) ==
    IF pos > Len(lines) \/ lines[pos] # "----" THEN [out |-> <<>>, pos |-> pos]
    ELSE LET end == Until(lines, pos + 1, LAMBDA l : l = "") IN [out |-> <<SubSeq(lines, pos + 1, end - 1)>>, pos |-> end]
Record(lines, pos) ==
    LET s == extractStatement(lines, pos)
        r == extractResultLines(lines, s.pos)
    IN  [sql |-> s.text, expected |-> r.out, pos |-> r.pos]
WrittenRecord(sql, expected) == sql \o (IF expected = <<>> THEN <<>> ELSE <<"----">> \o expected[1]) \o <<"">>

(* The session's TimeZone and Calendar, followed through the statements     *)
(* that succeeded: [ok, sets, val]; a zone is one of the time zone          *)
(* database, a fixed offset (fixedUTCZone) or not known.                   *)
Session(tz, calendar) == [tz |-> tz, calendar |-> calendar]
NoSession == Session("", "")
trackSession(st, stmt) ==
    CASE stmt.ok /\ stmt.sets = "timezone" -> [st EXCEPT !.tz = IF stmt.val = "unknown" THEN "" ELSE stmt.val]
      [] stmt.ok /\ stmt.sets = "reset timezone" -> [st EXCEPT !.tz = ""]
      [] stmt.ok /\ stmt.sets = "calendar" -> [st EXCEPT !.calendar = IF stmt.val = "gregorian" THEN "" ELSE stmt.val]
      [] OTHER -> st
SessionDue(stmts, out) ==
    LET Sets(what) == {i \in DOMAIN stmts : stmts[i].ok /\ stmts[i].sets \in what}
        tz == Sets({"timezone", "reset timezone"})
        cal == Sets({"calendar"})
    IN  /\ out.tz = (IF tz = {} \/ stmts[Max(tz)].val \in {"", "unknown"} THEN "" ELSE stmts[Max(tz)].val)
        /\ out.calendar = (IF cal = {} \/ stmts[Max(cal)].val = "gregorian" THEN "" ELSE stmts[Max(cal)].val)

-----------------------------------------------------------------------------
(* The key of a failure: the class of the error and its message without     *)
(* names and numbers.  A message is a sequence of lexemes, and the bounds    *)
(* count lexemes where the code counts characters.                         *)
ClassMax == 3     \* bound: 40 characters in the code
BucketMax == 4    \* bound: 60
Digits == {"1", "2"}
Quotes == {"\"", "'"}

RECURSIVE Unquoted(_)
Unquoted(s) ==
    LET closing == IF s = <<>> THEN {} ELSE {j \in 2 .. Len(s) : s[j] = Head(s)}
    IN  IF s = <<>> THEN <<>>
        ELSE IF Head(s) \in Quotes /\ closing # {} THEN <<"?">> \o Unquoted(SubSeq(s, Min(closing) + 1, Len(s)))
        ELSE <<Head(s)>> \o Unquoted(Tail(s))
Numberless(s) ==
    LET kept == SelectSeq([i \in DOMAIN s |-> i], LAMBDA i : ~(s[i] \in Digits /\ i > 1 /\ s[i - 1] \in Digits))
    IN  [k \in DOMAIN kept |-> IF s[kept[k]] \in Digits THEN "#" ELSE s[kept[k]]]
FirstLine(s) == SubSeq(s, 1, Until(s, 1, LAMBDA l : l = "\n") - 1)

(* Mutant of normalizeMsg: cut before the names and numbers are taken out. *)
normalizeMsgCutFirst(s, n) == LET t == FirstLine(s) IN Numberless(Unquoted(SubSeq(t, 1, IF Len(t) < n THEN Len(t) ELSE n)))

normalizeMsg(s, n) == LET t == Numberless(Unquoted(FirstLine(s))) IN SubSeq(t, 1, IF Len(t) < n THEN Len(t) ELSE n)

TrimPrefix(s, p) == IF IsPrefix(p, s) THEN SubSeq(s, Len(p) + 1, Len(s)) ELSE s
errorBucket(msg) ==
    LET m == TrimPrefix(TrimPrefix(msg, <<"duckdb prepare: ">>), <<"duckdb execute: ">>)
        i == Until(m, 1, LAMBDA l : l = " Error: ")
    IN  IF i \in 2 .. ClassMax /\ i <= Len(m) /\ FirstLine(SubSeq(m, 1, i)) = SubSeq(m, 1, i)
        THEN [class |-> SubSeq(m, 1, i - 1), rest |-> normalizeMsg(SubSeq(m, i + 1, Len(m)), BucketMax)]
        ELSE [class |-> <<>>, rest |-> normalizeMsg(m, BucketMax)]

(* A failure as it came about: where, the class (or none) and the items of  *)
(* its message, each with the lexeme it is to leave in the key.            *)
Message(f) == f.prefix \o (IF f.class = <<>> THEN <<>> ELSE f.class \o <<" Error: ">>) \o FlattenSeq([i \in DOMAIN f.items |-> f.items[i].says])
BucketDue(f, out) ==
    LET line == SubSeq(f.items, 1, Until(f.items, 1, LAMBDA x : x.leaves = "\n") - 1)
        kept == SelectSeq([i \in DOMAIN line |-> i], LAMBDA i : ~(line[i].leaves = "#" /\ i > 1 /\ line[i - 1].leaves = "#"))
    IN  out = [class |-> f.class, rest |-> SubSeq([k \in DOMAIN kept |-> line[kept[k]].leaves], 1, IF Len(kept) < BucketMax THEN Len(kept) ELSE BucketMax)]

-----------------------------------------------------------------------------
(* The runner's calendars and zones.  A date is [y, m, d] with astronomical *)
(* years; a text of a date is [bc, y, m, d].                               *)

(* floorDiv and isGregorianLeap's mod; a \div b is floorDiv for b > 0.     *)
floorDiv(a, b) == a \div b
isGregorianLeap(y) == y % 4 = 0 /\ (y % 100 # 0 \/ y % 400 = 0)

Sum(s) == FoldLeft(LAMBDA acc, x : acc + x, 0, s)
Text(y, m, d) == [bc |-> y <= 0, y |-> IF y <= 0 THEN 1 - y ELSE y, m |-> m, d |-> d]

(* formatYMD, ymdString                                                    *)
formatYMD(t) == Text(t.y, t.m, t.d)

JulianDayNumber(t) ==
    LET a == floorDiv(14 - t.m, 12)
        y == t.y + 4800 - a
        m == t.m + 12 * a - 3
    IN  t.d + floorDiv(153 * m + 2, 5) + 365 * y + floorDiv(y, 4) - floorDiv(y, 100) + floorDiv(y, 400) - 32045

Cutover == 2299161   \* 1582-10-15

(* Mutant of formatYMDHybrid: Gregorian before the cutover too.            *)
formatYMDProleptic(t) == formatYMD(t)

formatYMDHybrid(t) ==
    LET c     == JulianDayNumber(t) + 32082
        y     == floorDiv(4 * c + 3, 1461)
        e     == c - floorDiv(1461 * y, 4)
        m     == floorDiv(5 * e + 2, 153)
    IN  IF JulianDayNumber(t) >= Cutover THEN formatYMD(t)
        ELSE Text(y - 4800 + floorDiv(m, 10), m + 3 - 12 * floorDiv(m, 10), e - floorDiv(153 * m + 2, 5) + 1)

MonthDays(leap) == <<31, IF leap THEN 29 ELSE 28, 31, 30, 31, 30, 31, 31, 30, 31, 30, 31>>
YearDay(t) == Sum(SubSeq(MonthDays(isGregorianLeap(t.y)), 1, t.m - 1)) + t.d - 1

formatYMDIndian(t) ==
    LET before    == YearDay(t) < 80
        leapMonth == IF isGregorianLeap(IF before THEN t.y - 1 ELSE t.y) THEN 31 ELSE 30
        year      == t.y - 78 - (IF before THEN 1 ELSE 0)
        yday      == IF before THEN YearDay(t) + leapMonth + 31 * 5 + 30 * 3 + 10 ELSE YearDay(t) - 80
        mday      == yday - leapMonth
        late      == mday - 31 * 5
    IN  CASE yday < leapMonth -> Text(year, 1, yday + 1)
          [] yday >= leapMonth /\ late < 0 -> Text(year, (mday \div 31) + 2, (mday % 31) + 1)
          [] OTHER -> Text(year, (late \div 30) + 7, (late % 30) + 1)

(* offsetSuffix: an offset in seconds, cut to minutes toward zero.         *)
offsetSuffix(off) ==
    LET mins == (IF off < 0 THEN -off ELSE off) \div 60
    IN  [neg |-> off < 0 /\ mins # 0, h |-> mins \div 60, m |-> mins % 60]

(* fixedUTCZone: a zone's name is a prefix, a sign and digits with or      *)
(* without a colon; the offset in seconds, or <<>>.                        *)
Colon == -1
fixedUTCZone(name) ==
    LET ds == SelectSeq(name.rest, LAMBDA c : c # Colon)
        n  == Len(ds)
        Number(s) == FoldLeft(LAMBDA acc, c : 10 * acc + c, 0, s)
        hh == Number(IF n <= 2 THEN ds ELSE SubSeq(ds, 1, n - 2))
        mm == IF n <= 2 THEN 0 ELSE Number(SubSeq(ds, n - 1, n))
        off == hh * 3600 + mm * 60
    IN  IF name.prefix \notin {"UTC", "GMT"} \/ name.sign \notin {"+", "-"} \/ n \notin 1 .. 4 \/ hh > 15 \/ mm > 59
        THEN <<>> ELSE <<IF name.sign = "-" THEN -off ELSE off>>

(* The calendars as a calendar is defined: the day a date falls on, counted*)
(* from the lengths of the years and months before it.                     *)

Astronomical(text) == IF text.bc THEN 1 - text.y ELSE text.y
LeapsBefore(y, Per) == Sum([i \in DOMAIN Per |-> Per[i][2] * ((y - 1) \div Per[i][1])])
FirstDay(y, Per, first) == 365 * (y - 1) + LeapsBefore(y, Per) + first
GregorianLeaps == <<<<4, 1>>, <<100, -1>>, <<400, 1>>>>
JulianLeaps == <<<<4, 1>>>>
DayIn(text, y, months, first) ==
    IF text.m \in DOMAIN months /\ text.d \in 1 .. months[text.m]
    THEN <<first + Sum(SubSeq(months, 1, text.m - 1)) + text.d - 1>> ELSE <<>>

(* 0001-01-01 of the Gregorian calendar is day number 1721426, of the      *)
(* Julian calendar 1721424.                                                *)
GregorianDay(text) ==
    LET y == Astronomical(text) IN DayIn(text, y, MonthDays(isGregorianLeap(y)), FirstDay(y, GregorianLeaps, 1721426))
JulianDay(text) ==
    LET y == Astronomical(text) IN DayIn(text, y, MonthDays(y % 4 = 0), FirstDay(y, JulianLeaps, 1721424))

(* The Saka year y starts on the 22nd of March of y + 78, the 21st in leap *)
(* years.                                                                  *)
SakaDay(text) ==
    LET y    == Astronomical(text)
        leap == isGregorianLeap(y + 78)
    IN  DayIn(text, y, <<IF leap THEN 31 ELSE 30, 31, 31, 31, 31, 31, 30, 30, 30, 30, 30, 30>>,
              GregorianDay([bc |-> y + 78 <= 0, y |-> IF y + 78 <= 0 THEN -77 - y ELSE y + 78, m |-> 3,
                            d |-> IF leap THEN 21 ELSE 22])[1])
=============================================================================
