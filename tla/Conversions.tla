---------------------------- MODULE Conversions ----------------------------
(***************************************************************************)
(* Everything the program turns from one form into another without         *)
(* keeping state, called once on each input tried: column types, TYPE and   *)
(* GEOMETRY cells, scalar cells, calendar dates, batches, expected blocks,  *)
(* sorted results, containers, comparisons, scripts' words, file patterns,  *)
(* answers to imported calls, stored columns, arguments, errors and texts.  *)
(***************************************************************************)
EXTENDS Integers, Sequences, SequencesExt, FiniteSets

CONSTANTS
    Tried,      \* the inputs, a set for each conversion
    MaxDepth, W, Half, Group, FracDigits, Sexa, Hours, MaxOffset, OffsetBits, Dirs, Files

ASSUME ConversionAssumption ==
    /\ {W, Group, FracDigits, Sexa, Hours, OffsetBits} \subseteq Nat \ {0} /\ {MaxDepth, MaxOffset} \subseteq Nat
    /\ \A i \in DOMAIN Half : Half[i] \in 1 .. W

Types == INSTANCE TypeText
Geo == INSTANCE Geometry
Num == INSTANCE Scalars
Sql == INSTANCE SqlText
Query == INSTANCE SqlCheck
Inp == INSTANCE SqlInputs
Paths == INSTANCE HostGlob
Abi == INSTANCE ShimAbi
Car == INSTANCE Carriers
Rend == INSTANCE Rendering

VARIABLE delivered   \* the conversion made: [fn, in, out]

ConvInit == delivered = [fn |-> "none"]
Deliver(fn, in, out) == delivered' = [fn |-> fn, in |-> in, out |-> out]

-----------------------------------------------------------------------------
(* A column's type, spelled by the driver and parsed by the runner; a TYPE  *)
(* cell and a GEOMETRY cell, whole or cut short.                           *)
ColumnType == \E t \in Tried.types : Deliver("type", t, Types!parseColType(Types!typeName(t)))
TypeCell == \E t \in Tried.cells : \E n \in 0 .. Len(Types!Ser(t)) :
    Deliver("cell", [type |-> t, n |-> n], Types!typeBlobString(SubSeq(Types!Ser(t), 1, n)))
GeometryCell == \E g \in Tried.geometries : \E n \in 0 .. Len(Geo!Wkb(g)) :
    Deliver("geometry", [of |-> g, n |-> n], Geo!geometryString(SubSeq(Geo!Wkb(g), 1, n)))

(* Cells of scalars.                                                       *)
Hugeint == \E lo \in Num!URange(W), up \in Tried.uppers, signed \in BOOLEAN :
    Deliver("hugeint", [lo |-> lo, up |-> up, signed |-> signed], Num!hugeintValue(lo, up, signed))
Uuid == \E lo \in Num!URange(W), up \in Tried.uppers :
    Deliver("uuid", [lo |-> lo, up |-> up], Num!uuidFromWords(lo, up))
BignumCell == \E x \in Tried.bignums : Deliver("bignum", x, Num!bignumString(Num!Bignum(x)))
BitCell == \E bs \in Tried.bits : Deliver("bit", bs, Num!bitString(Num!Bits(bs)))
VariantRun == \E run \in Tried.runs, tail \in {<<>>, <<1>>} :
    Deliver("run", run, Num!varintBytes(Num!Varint(Len(run)) \o run \o tail))
VariantVarint == \E x \in Num!URange(Num!U32), tail \in {<<>>, <<1>>} :
    Deliver("varint", x, Num!uvarint(Num!Varint(x) \o tail))
Decimal == \E x \in Tried.decimals, scale \in 0 .. 3 : Deliver("decimal", [x |-> x, scale |-> scale], Num!formatDecimal(x, scale))
IntervalCell == \E months \in Tried.months, days \in {0, 1}, micros \in Num!SRange(W) :
    Deliver("interval", [months |-> months, micros |-> micros], Num!IntervalString(months, days, micros))
TimeTz == \E bits \in Tried.timetz : Deliver("timetz", bits, Num!timeTZString(bits))
Timestamp == \E raw \in Num!SRange(W), unit \in Tried.units :
    Deliver("timestamp", [raw |-> raw, unit |-> unit],
            [text |-> Num!timestampString(raw, unit), time |-> Num!timestampValue(raw, unit)])
(* A value a user function returns, stored and read again: by a function   *)
(* it is passed to, and by a query.                                        *)
FunctionCell == \E v \in Tried.values, type \in Tried.ints :
    LET bits == Num!Stored(type, Num!asInt64(v)[1])
    IN  Deliver("function", [v |-> v, type |-> type], [arg |-> Num!readCellT(type, bits), cell |-> Num!decode(type, bits)])
FunctionNulls == \E rows \in Tried.nulls :
    LET full == [i \in 1 .. 2 |-> 0 .. W - 1]
        mask == FoldLeft(LAMBDA m, r : Num!clearValid(m, r), full, SetToSeq(rows))
    IN  Deliver("nulls", rows, {r \in 0 .. 2 * W - 1 : ~Num!readValid(mask, r)})
ResizeHeap == \E requested \in Tried.requests, cur \in Tried.sizes, free \in 0 .. 3 :
    Deliver("heap", [requested |-> requested, cur |-> cur, free |-> free], Num!resize_heap(requested, cur, Tried.page, free))

(* The runner's dates, zones, batches, blocks, orders and containers.      *)
Date == \E t \in Tried.dates :
    Deliver("date", t, [civil |-> Rend!formatYMD(t), hybrid |-> Rend!formatYMDHybrid(t), indian |-> Rend!formatYMDIndian(t)])
Zone == \E name \in Tried.zones :
    Deliver("zone", name, LET off == Rend!fixedUTCZone(name) IN IF off = <<>> THEN <<>> ELSE <<Rend!offsetSuffix(off[1])>>)
Batch == \E lexemes \in Tried.batches : Deliver("batch", lexemes, Sql!splitStatements(FlattenSeq(lexemes)))
Block == \E rows \in Tried.blocks, layout \in {"rows", "aligned", "values"} :
    Deliver("block", [rows |-> rows, layout |-> layout],
            Sql!normalizeExpected(Sql!Written(rows, layout), Len(rows[1]), Len(rows)))
Sort == \E strs \in Tried.orders, style \in {"nosort", "valuesort", "rowsort"}, ncols \in {1, 2} :
    Deliver("sort", [strs |-> strs, style |-> style, ncols |-> ncols],
            [flat |-> Sql!applySort(style, strs, ncols), both |-> Sql!applySortVals(style, strs, [i \in DOMAIN strs |-> i], ncols)])
Container == \E k \in DOMAIN Tried.containers : \E v \in Tried.containers[k] :
    Deliver("container", [v |-> v, family |-> k], Sql!containerToString(v))
Pattern == \E p \in Tried.patterns, absolute \in BOOLEAN, search \in Tried.searches :
    Deliver("pattern", [p |-> p, absolute |-> absolute, search |-> search], Paths!Glob(p, absolute, search))

(* A cell against a token, a result against its block or its hash.         *)
CheckedCell == \E v \in DOMAIN Tried.accepted, k \in DOMAIN Query!Lexicon :
    Deliver("checked", [v |-> v, token |-> Query!Lexicon[k]],
            Query!compareValue(v, Query!valueToString(v), Query!Lexicon[k]))
CheckedQuery == \E q \in Tried.queries, rows \in Tried.results :
    Deliver("query", [rec |-> q, rows |-> rows, ncols |-> Len(rows[1])], Query!execQuery(q, rows, Len(rows[1])))
HashedQuery == \E rows, before \in Tried.results, style \in {"", "valuesort", "rowsort"} :
    Deliver("hash", [rows |-> rows, before |-> before, style |-> style],
            Query!HashQuery(style, rows, Len(rows[1]), Query!Digest(style, before, Len(before[1]))))
Placeholders == \E words \in Tried.texts, subs \in Tried.subs :
    Deliver("text", [words |-> words, subs |-> subs], Inp!substitute(FlattenSeq(words), subs))
Condition == \E l, r \in Tried.operands, k \in DOMAIN Inp!condOps, subs \in Tried.subs :
    Deliver("condition", [l |-> l, op |-> Inp!condOps[k], r |-> r, subs |-> subs],
            Inp!evalCond(<<<<l>> \o Inp!condOps[k] \o <<r>>>>, subs))
Foreach == \E params \in Tried.foreachs : Deliver("foreach", params, Inp!expandForeachTokens(params))
Sleep == \E n \in 0 .. 40, unit \in {"second", "millisecond", "nanosecond", "fortnight"} :
    Deliver("sleep", [n |-> n, unit |-> unit], Inp!parseSleep(n, unit))
Require == \E r \in Tried.requires : Deliver("require", r, Inp!checkRequire(r))
Reported == \E results \in Tried.reports : Deliver("report", results, Query!report(results))

(* What the engine's C reads of the answers of imported calls.             *)
Stat == \E fi \in Tried.infos, buf \in {0, 3} :
    Deliver("stat", [fi |-> fi, buf |-> buf],
            [em |-> Abi!writeEmStat(Abi!Memory(100), buf, fi), wasi |-> Abi!writeFilestat(Abi!Memory(70), buf, fi)])
Fdstat == \E e \in Tried.entries, fd \in {0, 2, 3, 5} : (fd < 3 => e = "none") /\
    Deliver("fdstat", [e |-> e, fd |-> fd], Abi!fdstat_get(e, fd, Abi!Memory(30), 3))
Prestat == \E name \in Tried.names, e4 \in Tried.entries \ {"preopen"} :
    Deliver("prestat", name, Abi!Scan(3 :> "preopen" @@ 4 :> e4, name))
Errno == \E err \in DOMAIN Abi!HostNumber :
    Deliver("errno", err, [wasi |-> Abi!errno(err), syscall |-> -Abi!emErrnoOf(err), host |-> -Abi!errnoOf(err)])
Unsupported == \E family \in DOMAIN Abi!Unsupported : \E name \in Abi!Unsupported[family] :
    Deliver("stub", [family |-> family, name |-> name], Abi!Stub(family))
Cwd == \E cwd \in Tried.names \cup {<<>>}, size \in 0 .. 5 :
    Deliver("cwd", [cwd |-> cwd, size |-> size], Abi!getcwd(Abi!Memory(9), 2, size, cwd))
Environ == \E home \in Tried.names \cup {<<>>} : Deliver("environ", home, Abi!Environment(home))
Path == \E p \in Tried.names, next \in Tried.names :
    LET mem == Abi!Put(Abi!Put(Abi!Memory(12), 1, Abi!Terminated(next)), 5, Abi!Terminated(p))
    IN  Deliver("path", p, {Abi!cString(mem, 5), Abi!Counted(mem, 5, Len(p))})
Memcpy == \E dest, src \in 0 .. 3, n \in 0 .. 3 :
    Deliver("memcpy", [dest |-> dest, src |-> src, n |-> n],
            Abi!memcpy_js([a \in 0 .. 6 |-> Abi!Byte(a + 1, 0)], dest, src, n))
Answered == \E stat \in {"regular", "dir"} \cup DOMAIN Abi!HostNumber, secs \in {-1, 0, 7} :
    Deliver("answered", [stat |-> stat, secs |-> secs],
            [file |-> Abi!FileExists(stat), dir |-> Abi!DirectoryExists(stat), time |-> Abi!GetLastModifiedTime(stat, secs)])
Listing == \E ents \in Tried.listings, cap \in 0 .. 8 :
    Deliver("listing", [ents |-> ents, cap |-> cap], Abi!ListFiles(Abi!host_listdir(Abi!Memory(12), 2, cap, ents), 2))
SetTimes == \E flags \in SUBSET {"ATIM", "ATIM_NOW", "MTIM", "MTIM_NOW"}, old \in Tried.times :
    Deliver("times", [flags |-> flags, old |-> old], Abi!set_times(flags, [atime |-> 1, mtime |-> 2], old, 9))
Clock == \E t, u \in Tried.instants, started \in {0, 1} :
    started <= t.mono /\ t.mono <= u.mono /\ Deliver("clock", [t |-> t, u |-> u], Abi!Clocks(t, u, started))

(* Columns of narrow storages, strings, dates, what a column takes,         *)
(* arguments of user functions, errors and registrations.                  *)
DecimalColumn == \E internal \in {"SMALLINT", "INTEGER", "BIGINT", "HUGEINT"} :
    \E xs \in Tried.columns[Car!StorageWidth[internal]] : Deliver("stored", xs, Car!Decimals(internal, xs))
EnumColumn == \E internal \in DOMAIN Car!EnumWidth : \E xs \in Tried.indexes[Car!EnumWidth[internal]] :
    Deliver("stored", xs, LET vs == Car!Enums(internal, Tried.dict, xs) IN [i \in DOMAIN xs |-> vs[i][1]])
StringCell == \E type \in {"VARCHAR", "BLOB"}, s \in Tried.strings :
    Deliver("string", [type |-> type, s |-> s], Car!readStringT(Car!Assign(type, s)))
DateCell == \E t \in -24 .. 23 : Deliver("day", t, Car!dateValue(Car!writeDate(t)))
Appended == \E type \in Car!ColumnTypes, kind \in Car!Kinds :
    Deliver("appended", [type |-> type, kind |-> kind],
            IF type \notin Car!appendableType THEN "refused" ELSE IF Car!checkAppendValue(type, kind) THEN "taken" ELSE "rejected")
Argument == \E k \in DOMAIN Tried.arguments : \E v \in Tried.arguments[k] : Deliver("argument", v, Car!normalizeJSONArg(v))
ErrorText == \E e \in Tried.errors : \E cut \in 0 .. Len(Car!Thrown(e.pre, e.class, e.msg)) :
    Deliver("error", [result |-> e.result, pre |-> e.pre, class |-> e.class, msg |-> e.msg, cut |-> cut],
            Car!engineErr("query", Car!resultError(e.result, Car!Thrown(e.pre, e.class, e.msg), cut)))
TableFunction == \E t \in Tried.tables : Deliver("table", t, Car!Created(Car!RegisterTableUDF(t.name, t.cols)))
ScalarFunction == \E n \in 0 .. 2, rest \in {0, 1, 34}, args \in 0 .. 4 :
    Deliver("call", [n |-> n, variadic |-> rest # 0, args |-> args],
            Car!Binds(Car!RegisterScalarUDF([InputTypeInfos |-> [i \in 1 .. n |-> 5], VariadicTypeInfo |-> rest]), args))
Dsn == \E dsn \in Tried.dsns : Deliver("dsn", dsn, Car!parseDSN(dsn))
ShadowStack == \E base \in 0 .. 40 : Deliver("stack", base, Car!relocateShadowStack(base))
CellKinds == \E type \in Car!CellTypes : Deliver("kinds", type, [arg |-> Car!readCellKinds(type), cell |-> Car!decodeKinds(type)])

(* Texts of values, the lines of a record, the session, the keys of        *)
(* failures; directories made, and the trampolines generated.              *)
Blob == \E b \in Tried.blobs : Deliver("blob", b, {Rend!blobLiteral(b), Rend!blobToString(b)})
Float == \E x \in Tried.floats : Deliver("float", x, Rend!formatFloatBits(x))
TimeOfDay == \E t \in 0 .. Num!Day : Deliver("timeofday", t, Rend!timeOfDayString(t))
Facelessly == \E t \in Tried.ticks : Deliver("faceless", t, Rend!formatTimeValue(t))
RecordLines == \E r \in Tried.records, next \in Tried.records :
    Deliver("record", [sql |-> r[1], expected |-> r[2]],
            Rend!Record(Rend!WrittenRecord(r[1], r[2]) \o Rend!WrittenRecord(next[1], next[2]), 1))
SessionSettings == \E stmts \in Tried.settings : Deliver("session", stmts, FoldLeft(LAMBDA st, s : Rend!trackSession(st, s), Rend!NoSession, stmts))
FailureKey == \E f \in Tried.failures : Deliver("failure", f, Rend!errorBucket(Rend!Message(f)))
Mkdir == \E dirFd \in {Abi!AtFdCwd, 3}, path \in Tried.names \cup {<<>>}, made \in {"made"} \cup DOMAIN Abi!HostNumber :
    Deliver("mkdir", [fd |-> dirFd, path |-> path, made |-> made], Abi!mkdirat(dirFd, path, made))
Trampolines == \E i32 \in {0, 2, 16}, wide \in 0 .. 2, total \in {1, 3, 6} :
    Deliver("trampolines", [i32 |-> i32, wide |-> wide, total |-> total], Abi!sigs(i32, wide, total))

ConvNext ==
    /\ delivered.fn = "none"
    /\ \/ ColumnType \/ TypeCell \/ GeometryCell
       \/ Hugeint \/ Uuid \/ BignumCell \/ BitCell \/ VariantRun \/ VariantVarint \/ Decimal
       \/ IntervalCell \/ TimeTz \/ Timestamp \/ FunctionCell \/ FunctionNulls \/ ResizeHeap
       \/ Date \/ Zone \/ Batch \/ Block \/ Sort \/ Container \/ Pattern
       \/ CheckedCell \/ CheckedQuery \/ HashedQuery \/ Reported
       \/ Placeholders \/ Condition \/ Foreach \/ Sleep \/ Require
       \/ Stat \/ Fdstat \/ Prestat \/ Errno \/ Unsupported \/ Cwd \/ Environ \/ Path \/ Memcpy
       \/ Answered \/ Listing \/ SetTimes \/ Clock
       \/ DecimalColumn \/ EnumColumn \/ StringCell \/ DateCell \/ Appended \/ Argument
       \/ ErrorText \/ TableFunction \/ ScalarFunction \/ Dsn \/ ShadowStack \/ CellKinds
       \/ Blob \/ Float \/ TimeOfDay \/ Facelessly \/ RecordLines \/ SessionSettings \/ FailureKey \/ Mkdir \/ Trampolines

-----------------------------------------------------------------------------
(* What each output owes its input.                                        *)

CellDue(in) ==
    IF in.n < Len(Types!Ser(in.type)) \/ ~Types!Decodes(in.type) THEN <<>> ELSE Types!Spelled(in.type)
GeometryDue(in) ==
    IF in.n < Len(Geo!Wkb(in.of)) \/ Geo!DepthOf(in.of) > MaxDepth THEN <<>> ELSE Geo!Wkt(in.of)

Wide(in) == Num!Unsigned(W, in.up) * Num!Pow(2, W) + in.lo
HugeintDue(in, out) ==
    out \in (IF in.signed THEN Num!SRange(2 * W) ELSE Num!URange(2 * W)) /\ out % Num!Pow(2, 2 * W) = Wide(in)
UuidDue(in, out) == Len(out) = 2 * W /\ Num!Value(2, out) = Num!Signed(2 * W, Wide(in)) + Num!Pow(2, 2 * W - 1)
DecimalDue(in, out) ==
    /\ out.neg = (in.x < 0) /\ Len(out.frac) = in.scale
    /\ Num!Value(10, out.whole \o out.frac) = Num!Abs(in.x)
    /\ Len(out.whole) = 1 \/ (out.whole # <<>> /\ out.whole[1] # 0)

(* A clock face stands for as many ticks, its fields within their bounds    *)
(* and its fraction without trailing zeros.                                *)
Fraction(ds) == Num!Value(10, ds) * Num!Pow(10, FracDigits - Len(ds))
Face(h, m, s, frac, ticks) ==
    /\ h * Num!Hour + m * Num!Minute + s * Num!Tick + Fraction(frac) = ticks
    /\ h >= 0 /\ {m, s} \subseteq 0 .. Sexa - 1 /\ Len(frac) <= FracDigits
    /\ frac = <<>> \/ (Fraction(frac) > 0 /\ Last(frac) # 0)
IntervalDue(in, out) ==
    /\ out.years * 12 + out.months = in.months /\ Num!Abs(out.months) < 12 /\ out.years * in.months >= 0 /\ out.months * in.months >= 0
    /\ out.neg = (in.micros < 0)
    /\ IF in.micros = 0 THEN out.clock = <<>>
       ELSE Face(out.clock[1], out.clock[2], out.clock[3], out.clock[4], Num!Abs(in.micros))
TimeTzDue(in, out) ==
    LET offset == (IF out.neg THEN -1 ELSE 1) * ((out.hh * Sexa + out.mm) * Sexa + out.ss)
    IN  /\ {out.mm, out.ss} \subseteq 0 .. Sexa - 1
        /\ in = (out.time.h * Num!Hour + out.time.m * Num!Minute + out.time.s * Num!Tick + Fraction(out.time.frac))
                * Num!Pow(2, OffsetBits) + MaxOffset - offset
        /\ Face(out.time.h, out.time.m, out.time.s, out.time.frac, in \div Num!Pow(2, OffsetBits))
TimestampDue(in, out) ==
    LET ticks == in.raw * in.unit
    IN  IF Num!Abs(in.raw) = Num!Infinity
        THEN {out.text, out.time} = {[is |-> "infinity", neg |-> in.raw < 0]}
        ELSE /\ Face(out.text.clock.h, out.text.clock.m, out.text.clock.s, out.text.clock.frac, ticks - out.text.day * Num!Day)
             /\ out.text.clock.h < Hours
             /\ out.time.sec * Num!Tick + out.time.tick = ticks /\ out.time.tick \in 0 .. Num!Tick - 1
FunctionDue(in, out) ==
    LET i == IF in.v.go = "float64" THEN Num!Quo(in.v.n, 2) ELSE in.v.n
        m == Num!Pow(2, in.type.w)
        fits == IF in.type.signed THEN Num!SRange(in.type.w) ELSE Num!URange(in.type.w)
    IN  /\ out.cell.n \in fits /\ out.cell.n % m = i % m /\ (i \in fits => out.cell.n = i)
        /\ (out.cell.is = "text") = (out.cell.n > Num!Infinity)
        /\ out.arg = Num!Signed(W, out.cell.n)
HeapDue(in, out) ==
    LET room == in.cur + in.free * Tried.page
    IN  IF in.requested >= Num!Pow(2, Num!U32 - 1) THEN out.ok /\ out.grow = 0
        ELSE IF in.requested > room THEN ~out.ok /\ out.grow = 0
        ELSE out.ok /\ in.cur + out.grow * Tried.page >= in.requested
             /\ out.grow \in 0 .. in.free /\ (in.requested <= in.cur => out.grow = 0)

DateDue(in, out) ==
    LET day == Rend!GregorianDay(out.civil)
    IN  /\ (IF day[1] < Rend!Cutover THEN Rend!JulianDay(out.hybrid) ELSE Rend!GregorianDay(out.hybrid)) = day
        /\ Rend!SakaDay(out.indian) = day /\ out.civil.y >= 1
ZoneDue(in) ==
    LET ds == SelectSeq(in.rest, LAMBDA c : c # Rend!Colon)
        hh == IF Len(ds) % 2 = 1 THEN ds[1] ELSE 10 * ds[1] + ds[2]
        mm == IF Len(ds) < 3 THEN 0 ELSE 10 * ds[Len(ds) - 1] + ds[Len(ds)]
    IN  IF in.prefix \notin {"UTC", "GMT"} \/ hh > 15 \/ mm > 59 THEN <<>>
        ELSE <<[neg |-> in.sign = "-" /\ hh + mm > 0, h |-> hh, m |-> mm]>>
SortDue(in, out) ==
    LET n    == IF in.style = "rowsort" THEN in.ncols ELSE 1
        rows == Sql!RowsOf(out.both.strs, n)
        from == Sql!RowsOf(out.both.vals, n)
    IN  /\ out.flat = out.both.strs
        /\ {out.both.vals[i] : i \in DOMAIN in.strs} = DOMAIN in.strs
        /\ \A i \in DOMAIN in.strs : out.both.strs[i] = in.strs[out.both.vals[i]]
        /\ \A i \in DOMAIN from : \A c \in 1 .. n : from[i][c] = from[i][1] + c - 1
        /\ \A i \in 1 .. Len(rows) - 1 :
             IF in.style = "nosort" THEN from[i][1] < from[i + 1][1]
             ELSE Sql!rowLess(rows[i], rows[i + 1]) \/ (rows[i] = rows[i + 1] /\ from[i][1] < from[i + 1][1])
PatternDue(in, out) ==
    IF Cardinality({i \in DOMAIN in.p : in.p[i] = Paths!Crawl}) > 1 THEN out = <<"refused">>
    ELSE ToSet(out) = Paths!GlobDue(in.p, in.absolute, in.search) /\ Cardinality(ToSet(out)) = Len(out)

HashDue(in) ==
    \E vs \in Query!Answers(in.style, in.rows), ws \in Query!Answers(in.style, in.before) :
        [i \in DOMAIN vs |-> Query!valueToString(vs[i])] = [i \in DOMAIN ws |-> Query!valueToString(ws[i])]
ReportDue(in, out) ==
    LET Of(o) == {i \in DOMAIN in : in[i].outcome = o}
    IN  /\ out.pass = Cardinality(Of("PASS")) /\ out.skip = Cardinality(Of("SKIP")) /\ out.fail = Cardinality(Of("FAIL"))
        /\ \A b \in ToSet(out.buckets) : b.count = Cardinality({i \in Of("FAIL") : in[i].reason = b.reason})
        /\ Cardinality({k.reason : k \in ToSet(out.buckets)}) = Len(out.buckets)
        /\ out.more + Len(out.buckets) = Cardinality({in[i].reason : i \in Of("FAIL")})
        /\ \A i \in Of("FAIL"), b \in ToSet(out.buckets) :
              (\A k \in ToSet(out.buckets) : k.reason # in[i].reason) =>
                 b.count >= Cardinality({j \in Of("FAIL") : in[j].reason = in[i].reason})
FacelessDue(in, out) ==
    IF out.is # "time" THEN in = (IF out.is = "infinity" THEN Rend!LastDay ELSE -Rend!LastDay) * Num!Day
    ELSE IF out.clock = <<>> THEN in = out.day * Num!Day
    ELSE LET c == out.clock[1] IN Face(c.h, c.m, c.s, c.frac, in - out.day * Num!Day) /\ c.h < Hours /\ in % Num!Day # 0
SleepDue(in, out) ==
    LET ticks == in.n * (IF in.unit \in DOMAIN Inp!TicksOf THEN Inp!TicksOf[in.unit] ELSE Inp!Second)
    IN  out <= 2 * Inp!Second /\ (ticks < 128 => out = (IF ticks < 20 THEN ticks ELSE 20))
RequireDue(r) ==
    CASE r.param = "ram" -> r.unit \notin {"mb", "gb", "tb"} \/ r.n <= 0 \/ (r.unit = "mb" /\ r.n <= 512)
      [] r.param \in {"vector_size", "exact_vector_size"} -> r.n = 2048 \/ (r.n \in 0 .. 2048 /\ r.param = "vector_size")
      [] r.param = "block_size" -> r.n = 262144
      [] OTHER -> r.param # "httpfs"

ListingDue(in) ==
    IF FoldLeft(LAMBDA n, e : n + Len(e.name) + 1 + (IF e.dir THEN 1 ELSE 0), 0, in.ents) > in.cap THEN <<"false">> ELSE in.ents

(* Every conversion delivers what its input stands for.  A type the driver *)
(* spells is parsed back to its shape, whatever the names of its fields; a *)
(* TYPE or GEOMETRY cell is spelled as the engine would, and one cut short  *)
(* anywhere gives no text (typedecode.go, exotic.go); a number, an          *)
(* interval or a timestamp and the fields it is shown with stand for the    *)
(* same value, the least of a width and those before the epoch included     *)
(* (result.go, exotic.go, variant.go, udf_codec.go); growing the heap gives *)
(* what was asked or nothing, but that a request of 2 GiB or more is said   *)
(* to be met and is not (shim.go); the runner's dates fall on the day of   *)
(* the value, its batches split where statements end, its blocks hold       *)
(* the result they were written from, values stay with their words when     *)
(* sorted, two containers never read alike, a query passes exactly when its *)
(* block or its hash describes the result, placeholders, conditions,        *)
(* collections, requirements and sleeps mean what they say, and the report  *)
(* counts every file once (cmd/sqllogic/main.go); a pattern finds each path *)
(* it names once (host_fs.cpp).  The engine's C code finds in its memory    *)
(* what the host holds, and an error it can tell from every other           *)
(* (shim.go, fs.go, hostfs.go).  A column gives back the cells stored in    *)
(* it, AppendRow refuses exactly what the flush could not encode, a user    *)
(* function's arguments hold Go values with each entry under its key        *)
(* (udf_codec.go, appender.go, duckdbcompat), and an error names its class  *)
(* however much of it was cut (errjson.go).  A blob and a number are read   *)
(* back from their texts, a script's record ends where it was written to,   *)
(* and failures that differ in names and numbers count as one.             *)
ConversionsExact ==
    LET in == delivered.in
        out == delivered.out
    IN  CASE delivered.fn = "none" -> TRUE
          [] delivered.fn = "type" -> out = Types!ShapeOf(in)
          [] delivered.fn = "cell" -> out = CellDue(in)
          [] delivered.fn = "geometry" -> out = GeometryDue(in)
          [] delivered.fn = "hugeint" -> HugeintDue(in, out)
          [] delivered.fn = "uuid" -> UuidDue(in, out)
          [] delivered.fn \in {"bignum", "bit", "run"} -> out = in
          [] delivered.fn = "varint" -> out = [v |-> in, n |-> Len(Num!Varint(in))]
          [] delivered.fn = "decimal" -> DecimalDue(in, out)
          [] delivered.fn = "interval" -> IntervalDue(in, out)
          [] delivered.fn = "timetz" -> TimeTzDue(in, out)
          [] delivered.fn = "timestamp" -> TimestampDue(in, out)
          [] delivered.fn = "function" -> FunctionDue(in, out)
          [] delivered.fn = "nulls" -> out = in
          [] delivered.fn = "heap" -> HeapDue(in, out)
          [] delivered.fn = "date" -> DateDue(in, out)
          [] delivered.fn = "zone" -> out = ZoneDue(in)
          [] delivered.fn = "batch" -> out = Sql!Statements(in)
          [] delivered.fn = "block" -> out = FlattenSeq(in.rows)
          [] delivered.fn = "sort" -> SortDue(in, out)
          [] delivered.fn = "container" -> \A v \in Tried.containers[in.family] : Sql!containerToString(v) = out => v = in.v
          [] delivered.fn = "pattern" -> PatternDue(in, out)
          [] delivered.fn = "checked" -> out = (in.token \in Tried.accepted[in.v])
          [] delivered.fn = "query" -> (out = "pass") = Query!QueryDue(in.rec, in.rows, in.ncols)
          [] delivered.fn = "hash" -> (out = "pass") = HashDue(in)
          [] delivered.fn = "report" -> ReportDue(in, out)
          [] delivered.fn = "text" -> out = Inp!Meant(in.words, in.subs)
          [] delivered.fn = "condition" -> out = Inp!TermDue(in.l, in.op, in.r, in.subs)
          [] delivered.fn = "foreach" -> out = Inp!ForeachDue(in)
          [] delivered.fn = "sleep" -> SleepDue(in, out)
          [] delivered.fn = "require" -> out = RequireDue(in)
          [] delivered.fn = "stat" -> Abi!StatDue(out.em, in.buf, in.fi) /\ Abi!FilestatDue(out.wasi, in.buf, in.fi)
          [] delivered.fn = "fdstat" -> Abi!FdstatDue(in.e, in.fd, out, 3)
          [] delivered.fn = "prestat" -> out = [ends |-> 8, ret |-> <<0, 0>>, tag |-> 0, name |-> in, tidy |-> TRUE]
          [] delivered.fn = "errno" -> Abi!ErrnoDue(in, out)
          [] delivered.fn = "stub" -> Abi!UnsupportedDue(in.family, out)
          [] delivered.fn = "cwd" -> Abi!CwdDue(2, in.size, in.cwd, out)
          [] delivered.fn = "environ" -> out = [vars |-> IF in = <<>> THEN <<>> ELSE <<in>>, tidy |-> TRUE]
          [] delivered.fn = "path" -> out = {in}
          [] delivered.fn = "memcpy" ->
               \A a \in 0 .. 6 : out[a] = Abi!Byte(IF a - in.dest \in 0 .. in.n - 1 THEN in.src + a - in.dest + 1 ELSE a + 1, 0)
          [] delivered.fn = "answered" ->
               out = [file |-> in.stat = "regular", dir |-> in.stat = "dir",
                      time |-> IF in.stat \in {"regular", "dir"} /\ in.secs > 0 THEN in.secs ELSE 0]
          [] delivered.fn = "listing" -> out = ListingDue(in)
          [] delivered.fn = "times" -> Abi!TimesDue(in.flags, [atime |-> 1, mtime |-> 2], in.old, 9, out)
          [] delivered.fn = "clock" -> Abi!ClocksDue(in.t, in.u, out)
          [] delivered.fn = "stored" -> out = in
          [] delivered.fn = "string" -> out = (IF in.type = "BLOB" THEN in.s ELSE Car!CString(in.s))
          [] delivered.fn = "day" -> Car!DateDue(in, out)
          [] delivered.fn = "appended" ->
               out = (IF Car!elemSize(in.type) = 0 THEN "refused" ELSE IF Car!Encodes(in.type, in.kind) THEN "taken" ELSE "rejected")
          [] delivered.fn = "argument" -> Car!Native(out) /\ Car!Kept(in, out)
          [] delivered.fn = "error" -> Car!ErrorDue(in, out)
          [] delivered.fn = "table" -> Car!TableDue(in, out)
          [] delivered.fn = "call" -> out = (IF in.variadic THEN in.args >= in.n ELSE in.args = in.n)
          [] delivered.fn = "dsn" -> Car!DsnDue(in, out)
          [] delivered.fn = "stack" -> out % Car!Align = 0 /\ in + Car!ShadowStack - out \in 0 .. Car!Align - 1
          [] delivered.fn = "kinds" -> Car!EchoDue(in, out)
          [] delivered.fn = "blob" -> \A text \in out : Rend!BlobDue(in, text)
          [] delivered.fn = "float" -> Rend!FloatDue(in, out)
          [] delivered.fn = "timeofday" -> Face(out.h, out.m, out.s, out.frac, in)
          [] delivered.fn = "faceless" -> FacelessDue(in, out)
          [] delivered.fn = "record" ->
               out = in @@ ("pos" :> Len(Rend!WrittenRecord(in.sql, in.expected)))
          [] delivered.fn = "session" -> Rend!SessionDue(in, out)
          [] delivered.fn = "failure" -> Rend!BucketDue(in, out)
          [] delivered.fn = "mkdir" -> Abi!MkdirDue(in.fd, in.path, in.made, out)
          [] delivered.fn = "trampolines" -> Abi!SigsDue(in.i32, in.wide, in.total, out)
=============================================================================
