------------------------------- MODULE Carriers -------------------------------
(***************************************************************************)
(* Values between Go and the engine: cells laid out in a column's memory,   *)
(* JSON and nested values as Go values (converge/duckdb, duckdbcompat), the *)
(* text of errors, and the statements the compatibility layer writes.      *)
(*                                                                         *)
(* A byte of a column has one bit, a cell's cell width its real number of   *)
(* bytes up to 8, and an inlined string at most Inlined characters.        *)
(***************************************************************************)
EXTENDS Integers, Sequences, SequencesExt, FiniteSetsExt, TLC

-----------------------------------------------------------------------------
(* Cells of a column.  Memory is a sequence of bytes; reads are at offsets. *)
TwoTo(n) == 2 ^ n
Le(n, x) == [i \in 1 .. n |-> (x \div TwoTo(i - 1)) % 2]
Column(width, xs) == FlattenSeq([i \in DOMAIN xs |-> Le(width, xs[i])])

readU(mem, at, n) == FoldLeft(LAMBDA v, i : v + mem[at + i] * TwoTo(i - 1), 0, [i \in 1 .. n |-> i])
readU32(mem, at) == readU(mem, at, 4)
readI64(mem, at) == LET u == readU(mem, at, 8) IN IF u >= TwoTo(7) THEN u - TwoTo(8) ELSE u
SignedOf(w, u) == LET low == u % TwoTo(w) IN IF low >= TwoTo(w - 1) THEN low - TwoTo(w) ELSE low

elemSize(type) ==
    CASE type \in {"BOOLEAN", "TINYINT", "UTINYINT"} -> 1 [] type \in {"SMALLINT", "USMALLINT"} -> 2
      [] type \in {"INTEGER", "UINTEGER", "FLOAT", "DATE"} -> 4
      [] type \in {"BIGINT", "UBIGINT", "DOUBLE", "TIMESTAMP", "TIMESTAMPTZ"} -> 8
      [] type \in {"VARCHAR", "BLOB"} -> 16 [] OTHER -> 0

(* Mutant of decimalValue: the narrow storages read without their sign.    *)
decimalUnsigned(mem, internal, row) ==
    CASE internal = "SMALLINT" -> readU32(mem, row * 2) % TwoTo(2) [] internal = "INTEGER" -> readU32(mem, row * 4)
      [] internal = "BIGINT" -> readI64(mem, row * 8) [] OTHER -> readI64(mem, row * 16 + 8) * TwoTo(8) + readU(mem, row * 16, 8)

(* decimalValue and readDecimalUnscaled, by the storage of the type: a      *)
(* SMALLINT is the low half of the four bytes at its place.                *)
decimalValue(mem, internal, row) ==
    CASE internal = "SMALLINT" -> SignedOf(2, readU32(mem, row * 2)) [] internal = "INTEGER" -> SignedOf(4, readU32(mem, row * 4))
      [] internal = "BIGINT" -> readI64(mem, row * 8) [] OTHER -> readI64(mem, row * 16 + 8) * TwoTo(8) + readU(mem, row * 16, 8)

enumValue(mem, internal, dict, row) ==
    LET idx == CASE internal = "UTINYINT" -> mem[row + 1] [] internal = "USMALLINT" -> readU32(mem, row * 2) % TwoTo(2)
                 [] OTHER -> readU32(mem, row * 4)
    IN  IF idx < Len(dict) THEN <<dict[idx + 1]>> ELSE <<>>

StorageWidth == [SMALLINT |-> 2, INTEGER |-> 4, BIGINT |-> 8, HUGEINT |-> 16]
Slack == <<1, 1, 1>>                     \* memory after the column: never part of a cell
Decimals(internal, xs) ==
    LET mem == Column(StorageWidth[internal], xs) \o Slack
    IN  [i \in DOMAIN xs |-> decimalValue(mem, internal, i - 1)]
EnumWidth == [UTINYINT |-> 1, USMALLINT |-> 2, UINTEGER |-> 4]
Enums(internal, dict, xs) ==
    LET mem == Column(EnumWidth[internal], xs) \o Slack
    IN  [i \in DOMAIN xs |-> enumValue(mem, internal, dict, i - 1)]

(* Strings: short ones inside the cell, long ones behind a pointer.  The    *)
(* engine takes a VARCHAR from a C string, a BLOB with its length.         *)
Inlined == 2
Nul == 0
CString(s) == LET ends == {i \in DOMAIN s : s[i] = Nul} IN IF ends = {} THEN s ELSE SubSeq(s, 1, Min(ends) - 1)
Assign(type, s) ==
    LET kept == IF type = "VARCHAR" THEN CString(s) ELSE s
    IN  IF Len(kept) <= Inlined THEN [length |-> Len(kept), inlined |-> kept, heap |-> <<>>]
        ELSE [length |-> Len(kept), inlined |-> SubSeq(kept, 1, 1), heap |-> kept]
readStringT(cell) == IF cell.length <= Inlined THEN SubSeq(cell.inlined, 1, cell.length) ELSE SubSeq(cell.heap, 1, cell.length)

(* Times: a DATE is the day a time falls on, the first and the last but one *)
(* day of the type being the infinities.                                   *)
Day == 3
DateBits == 4
dateInfinity == TwoTo(DateBits - 1) - 1
Trunc(t) == IF t < 0 THEN -((-t) \div Day) ELSE t \div Day
writeDate(t) == SignedOf(DateBits, Trunc(t) - (IF t < Day * Trunc(t) THEN 1 ELSE 0))
dateValue(days) == [is |-> IF days = dateInfinity THEN "infinity" ELSE IF days = -dateInfinity THEN "-infinity" ELSE "time", t |-> days * Day]
DateDue(t, out) == IF out.is = "time" THEN out.t <= t /\ t < out.t + Day ELSE t \div Day \in {dateInfinity, -dateInfinity}

(* The kinds of Go values each coercion takes, and what a column takes.    *)
Kinds == {"bool", "int", "int8", "int16", "int32", "int64", "uint", "uint8", "uint16", "uint32", "uint64",
          "float32", "float64", "string", "bytes", "time", "list"}
asInt64 == Kinds \ {"uint8", "uint16", "string", "bytes", "time", "list"}
asFloat64 == {"float64", "float32", "int64", "int", "int32"}
asBool == {"bool", "int64", "int"}
asString == {"string", "bytes"}
asBytes == {"bytes", "string"}

IntTypes == {"TINYINT", "SMALLINT", "INTEGER", "BIGINT", "UTINYINT", "USMALLINT", "UINTEGER", "UBIGINT"}
TimeTypes == {"DATE", "TIMESTAMP", "TIMESTAMPTZ"}
ColumnTypes == IntTypes \cup TimeTypes \cup {"BOOLEAN", "FLOAT", "DOUBLE", "VARCHAR", "BLOB", "DECIMAL", "TIME", "HUGEINT", "LIST"}
appendableType == IntTypes \cup TimeTypes \cup {"BOOLEAN", "FLOAT", "DOUBLE", "VARCHAR", "BLOB"}
checkAppendValue(type, kind) ==
    kind \in (CASE type = "BOOLEAN" -> asBool [] type \in IntTypes -> asInt64 [] type \in {"FLOAT", "DOUBLE"} -> asFloat64
                [] type = "VARCHAR" -> asString [] type = "BLOB" -> asBytes [] type \in TimeTypes -> {"time"} [] OTHER -> {})
Encodes(type, kind) ==
    CASE kind = "time" -> type \in TimeTypes
      [] kind \in {"string", "bytes"} -> type \in {"VARCHAR", "BLOB"}
      [] kind = "bool" -> type \in IntTypes \cup {"BOOLEAN"}
      [] kind \in {"int", "int64"} -> type \in IntTypes \cup {"BOOLEAN", "FLOAT", "DOUBLE"}
      [] kind \in {"int32", "float32", "float64"} -> type \in IntTypes \cup {"FLOAT", "DOUBLE"}
      [] kind \in {"int8", "int16", "uint", "uint32", "uint64"} -> type \in IntTypes
      [] OTHER -> FALSE

(* What a cell arrives as: an argument of a user function (readCellT), a     *)
(* cell of a result (rows.decode).                                         *)
CellTypes == (ColumnTypes \ {"LIST"})
             \cup {"TIMESTAMP_NS", "TIME_NS", "TIMETZ", "INTERVAL", "BIT", "UUID", "BIGNUM", "GEOMETRY", "ENUM", "TYPE"}
readCellKinds(type) ==
    CASE type \in IntTypes -> {"int64"} [] type = "BOOLEAN" -> {"bool"} [] type \in {"FLOAT", "DOUBLE"} -> {"float64"}
      [] type \in TimeTypes \cup {"TIMESTAMP_NS"} -> {"time", "infinity"} [] type \in {"TIME", "TIME_NS"} -> {"time"}
      [] type = "BLOB" -> {"bytes"} [] type = "HUGEINT" -> {"int64", "string"} [] type = "INTERVAL" -> {"Interval"}
      [] type \in {"ENUM", "TYPE"} -> {"nil"} [] OTHER -> {"string"}
decodeKinds(type) ==
    CASE type = "UBIGINT" -> {"int64", "string"} [] type = "DECIMAL" -> {"Decimal"} [] type = "VARCHAR" -> {"string", "JSONValue"}
      [] type = "ENUM" -> {"string", "nil"} [] type = "TYPE" -> {"string", "nil"} [] OTHER -> readCellKinds(type)

(* A function may return its argument, whatever its type, the infinities   *)
(* apart; and sees what a query would, decimals apart.                     *)
EchoDue(type, out) ==
    /\ type \in appendableType => \A kind \in out.arg \ {"infinity"} : checkAppendValue(type, kind)
    /\ out.arg \subseteq out.cell \/ (type = "DECIMAL" /\ out = [arg |-> {"string"}, cell |-> {"Decimal"}])

-----------------------------------------------------------------------------
(* Nested values.  A JSON value is null, a Boolean, a text, a number with   *)
(* how it is written, an array or an object whose names may repeat:        *)
(* [is, n, s, names, of].                                                  *)
Go(is, v) == [is |-> is, v |-> v]
LastOf(names, vals) == [n \in ToSet(names) |-> vals[Max({i \in DOMAIN names : names[i] = n})]]

MaxInt64 == 7
RECURSIVE coerceJSONNumbers(_)
coerceJSONNumbers(v) ==
    CASE v.is = "number" -> IF v.s = "integer" /\ v.n \in -MaxInt64 - 1 .. MaxInt64 THEN Go("int64", ToString(v.n))
                            ELSE IF v.s = "huge" THEN Go("string", ToString(v.n)) ELSE Go("float64", ToString(v.n))
      [] v.is = "array" -> Go("slice", [i \in DOMAIN v.of |-> coerceJSONNumbers(v.of[i])])
      [] v.is = "object" -> LET m == LastOf(v.names, v.of) IN Go("map", [n \in DOMAIN m |-> coerceJSONNumbers(m[n])])
      [] OTHER -> Go(v.is, v.s)

(* DecodeJSONNative: the first value of the text; a text without one stays. *)
DecodeJSONNative(text) == IF text.values = <<>> THEN Go("string", text.raw) ELSE coerceJSONNumbers(Head(text.values))

(* A Go map cannot look up a key that holds a slice or a map: it panics.   *)
hashableKey(k) == k.is \notin {"slice", "map", "gomap", "MapValue", "bytes"}

(* Mutant of normalizeMap: every map becomes a Go map.                     *)
normalizeMapAlways(keys, vals) ==
    IF \E i \in DOMAIN keys : ~hashableKey(keys[i]) THEN Go("panic", "") ELSE Go("gomap", LastOf(keys, vals))

normalizeMap(keys, vals) ==
    IF \E i \in DOMAIN keys : ~hashableKey(keys[i]) THEN [is |-> "MapValue", keys |-> keys, vals |-> vals]
    ELSE Go("gomap", LastOf(keys, vals))

(* An argument of a user function: [is, s, text, names, keys, vals].       *)
RECURSIVE normalizeJSONArg(_)
normalizeJSONArg(v) ==
    LET All(q) == [i \in DOMAIN q |-> normalizeJSONArg(q[i])]
    IN  CASE v.is = "JSONValue" -> DecodeJSONNative(v.text)
          [] v.is = "slice" -> Go("slice", All(v.vals))
          [] v.is = "Struct" -> Go("map", LastOf(v.names, All(v.vals)))
          [] v.is = "MapValue" -> normalizeMap(All(v.keys), All(v.vals))
          [] OTHER -> Go(v.is, v.s)

(* Numbers keep their value, whole ones within reach their type.           *)
RECURSIVE JsonKept(_, _)
JsonKept(v, out) ==
    CASE v.is = "number" -> out.v = ToString(v.n) /\ (out.is = "int64" <=> v.s = "integer" /\ v.n \in -8 .. 7)
      [] v.is = "array" -> DOMAIN out.v = DOMAIN v.of /\ \A i \in DOMAIN v.of : JsonKept(v.of[i], out.v[i])
      [] v.is = "object" ->
           /\ DOMAIN out.v = ToSet(v.names)
           /\ \A i \in DOMAIN v.of : (\E j \in i + 1 .. Len(v.of) : v.names[j] = v.names[i]) \/ JsonKept(v.of[i], out.v[v.names[i]])
      [] OTHER -> out = Go(v.is, v.s)

(* No carrier is left but a map whose keys Go cannot hold.                 *)
RECURSIVE Native(_)
Native(v) ==
    CASE v.is \in {"JSONValue", "Struct", "panic"} -> FALSE
      [] v.is = "slice" -> \A i \in DOMAIN v.v : Native(v.v[i])
      [] v.is = "map" -> \A n \in DOMAIN v.v : Native(v.v[n])
      [] v.is = "gomap" -> \A k \in DOMAIN v.v : hashableKey(k) /\ Native(v.v[k])
      [] v.is = "MapValue" ->
           /\ \E i \in DOMAIN v.keys : v.keys[i].is \in {"slice", "map", "gomap", "MapValue", "bytes"}
           /\ \A i \in DOMAIN v.keys : Native(v.keys[i]) /\ Native(v.vals[i])
      [] OTHER -> TRUE
(* And each value is where its key says.                                   *)
Kept(v, out) ==
    CASE v.is = "MapValue" ->
           \A i \in DOMAIN v.keys :
               LET k == normalizeJSONArg(v.keys[i])
                   x == normalizeJSONArg(v.vals[i])
                   shadowed == \E j \in i + 1 .. Len(v.keys) : normalizeJSONArg(v.keys[j]) = k
               IN  IF out.is = "gomap" THEN k \in DOMAIN out.v /\ (shadowed \/ out.v[k] = x)
                   ELSE out.keys[i] = k /\ out.vals[i] = x
      [] v.is = "Struct" -> DOMAIN out.v = ToSet(v.names)
      [] v.is = "JSONValue" /\ v.text.values # <<>> -> JsonKept(Head(v.text.values), out)
      [] OTHER -> TRUE

-----------------------------------------------------------------------------
(* Errors.  A thrown exception carries its class and message as JSON, of    *)
(* which the host keeps the first Cut characters.                          *)
Quo == "\""
Back == "\\"
Escaped(s) == FlattenSeq([i \in DOMAIN s |-> IF s[i] \in {Quo, Back} THEN <<Back, s[i]>> ELSE <<s[i]>>])
Field(key, s) == <<Quo, key, Quo, ":", Quo>> \o Escaped(s) \o <<Quo>>
Thrown(pre, class, msg) == pre \o <<"{">> \o Field("type", class) \o <<",">> \o Field("message", msg) \o <<"}">>

cstrU32(text, cut) == SubSeq(text, 1, Min({Len(text), cut}))

(* The string that starts after place i, up to its closing quote.          *)
Ends(p, i) == {j \in i + 1 .. Len(p) : p[j] = Quo /\ Cardinality({k \in i + 1 .. j - 1 : \A x \in k .. j - 1 : p[x] = Back}) % 2 = 0}
Unescaped(s) ==
    FoldLeft(LAMBDA a, c : IF ~a.esc /\ c = Back THEN [a EXCEPT !.esc = TRUE] ELSE [out |-> Append(a.out, c), esc |-> FALSE],
             [out |-> <<>>, esc |-> FALSE], s).out
extractJSONField(p, key) ==
    LET starts == {i \in DOMAIN p : i > 4 /\ SubSeq(p, i - 4, i) = <<Quo, key, Quo, ":", Quo>> /\ Ends(p, i) # {}}
    IN  IF starts = {} THEN <<>> ELSE LET i == Min(starts) IN Unescaped(SubSeq(p, i + 1, Min(Ends(p, i)) - 1))

(* Mutant of decodeExceptionJSON: what does not parse is passed on.        *)
decodeWholeOnly(msg) ==
    LET j == SelectInSeq(msg, LAMBDA c : c = "{")
        class == extractJSONField(msg, "type")
    IN  IF j = 0 \/ Last(msg) # "}" THEN msg
        ELSE SubSeq(msg, 1, j - 1) \o class \o <<" Error", ": ">> \o extractJSONField(msg, "message")

(* An object that parses has the fields its text has; else each field is    *)
(* looked for.                                                             *)
decodeExceptionJSON(msg) ==
    LET j       == SelectInSeq(msg, LAMBDA c : c = "{")
        payload == SubSeq(msg, j, Len(msg))
        class   == extractJSONField(payload, "type")
    IN  IF j = 0 \/ class = <<>> THEN msg
        ELSE SubSeq(msg, 1, j - 1) \o class \o (IF class[1] = "TypeError" THEN <<>> ELSE <<" Error">>)
             \o <<": ">> \o extractJSONField(payload, "message")

lastError(thrown, cut) == decodeExceptionJSON(cstrU32(thrown, cut))
resultError(result, thrown, cut) == IF result = <<>> THEN lastError(thrown, cut) ELSE result
engineErr(op, msg) == IF msg = <<>> THEN <<op, "unknown error">> ELSE msg

ErrorDue(in, out) ==
    LET thrown == Thrown(in.pre, in.class, in.msg)
        named  == in.pre \o in.class \o (IF in.class = <<"TypeError">> THEN <<>> ELSE <<" Error">>) \o <<": ">>
    IN  IF in.result # <<>> THEN out = in.result
        ELSE IF in.cut = 0 THEN out = <<"query", "unknown error">>
        ELSE IF in.cut <= Len(in.pre \o <<"{">> \o Field("type", in.class)) - 1 THEN out = cstrU32(thrown, in.cut)
        ELSE out = named \o (IF in.cut >= Len(thrown) - 1 THEN in.msg ELSE <<>>)

-----------------------------------------------------------------------------
(* The compatibility layer's registrations.                                *)
RegisterScalarUDF(cfg) ==
    [params |-> cfg.InputTypeInfos, varargs |-> IF cfg.VariadicTypeInfo > 0 THEN cfg.VariadicTypeInfo ELSE -1]
(* The engine binds a call of n arguments: fixed parameters, then any       *)
(* number of the type of the rest when varargs is one.                     *)
Binds(sig, n) == IF sig.varargs >= 0 THEN n >= Len(sig.params) ELSE n = Len(sig.params)
sqlTypeName(type) == IF type \in {"BOOLEAN", "BIGINT", "DOUBLE", "TIMESTAMP", "BLOB", "VARCHAR"} THEN type ELSE "VARCHAR"
quoteIdent(s) == <<Quo>> \o FlattenSeq([i \in DOMAIN s |-> IF s[i] = Quo THEN <<Quo, Quo>> ELSE <<s[i]>>]) \o <<Quo>>

RegisterTableUDF(name, cols) ==
    IF cols = <<>> THEN <<"refused">>
    ELSE <<"CREATE TABLE IF NOT EXISTS ">> \o quoteIdent(name) \o <<" (">>
         \o FlattenSeq([i \in DOMAIN cols |-> (IF i > 1 THEN <<", ">> ELSE <<>>)
                                              \o quoteIdent(cols[i].name) \o <<" ", sqlTypeName(cols[i].type)>>])
         \o <<")">>

(* The engine's reading of a quoted name: up to a quote that is not one of  *)
(* two, and what follows.                                                  *)
RECURSIVE QuotedName(_, _)
QuotedName(text, name) ==
    IF text[1] # Quo THEN QuotedName(Tail(text), Append(name, text[1]))
    ELSE IF Len(text) > 1 /\ text[2] = Quo THEN QuotedName(SubSeq(text, 3, Len(text)), Append(name, Quo))
    ELSE [name |-> name, rest |-> Tail(text)]
RECURSIVE ColumnsOf(_)
ColumnsOf(text) ==
    LET q == QuotedName(Tail(text), <<>>)
        more == SubSeq(q.rest, 4, Len(q.rest))
    IN  <<[name |-> q.name, type |-> q.rest[2]]>> \o (IF q.rest[3] = ", " THEN ColumnsOf(more) ELSE <<>>)
Created(text) ==
    IF text = <<"refused">> THEN text
    ELSE LET q == QuotedName(SubSeq(text, 3, Len(text)), <<>>) IN <<q.name, ColumnsOf(SubSeq(q.rest, 2, Len(q.rest)))>>
TableDue(in, out) ==
    out = IF in.cols = <<>> THEN <<"refused">> ELSE <<in.name, [i \in DOMAIN in.cols |-> [in.cols[i] EXCEPT !.type = sqlTypeName(@)]]>>

(* parseDSN: the last of the two spellings gives way; parameters that do    *)
(* not parse are as none.                                                  *)
parseDSN(dsn) ==
    LET Given(k) == dsn.parses /\ k \in DOMAIN dsn.params /\ dsn.params[k] # ""
    IN  [path |-> IF dsn.path = "" THEN ":memory:" ELSE dsn.path,
         limit |-> IF Given("max_memory") THEN dsn.params["max_memory"]
                   ELSE IF Given("memory_limit") THEN dsn.params["memory_limit"] ELSE "1GiB"]

DsnDue(dsn, out) ==
    /\ out.path # "" /\ (dsn.path # "" => out.path = dsn.path)
    /\ out.limit # "" /\ (out.limit = "1GiB" <=> ~dsn.parses \/ \A k \in DOMAIN dsn.params : dsn.params[k] = "")
    /\ dsn.parses /\ "max_memory" \in DOMAIN dsn.params => out.limit = dsn.params["max_memory"] \/ dsn.params["max_memory"] = ""

(* relocateShadowStack: the highest multiple of Align in the block.        *)
Align == 4
ShadowStack == 8
relocateShadowStack(base) == ((base + ShadowStack) \div Align) * Align
=============================================================================
