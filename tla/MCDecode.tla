------------------------------ MODULE MCDecode ------------------------------
EXTENDS ResultSet, Vectors, Conversions, Ownership

T(k) == [k |-> k]
ListOf(t) == [k |-> "list", of |-> t]
StructOf(ts) == [k |-> "struct", fields |-> ts]
MapOf(a, b) == [k |-> "map", key |-> a, val |-> b]
UnionOf(ts) == [k |-> "union", members |-> ts]
ArrayOf(t, n) == [k |-> "array", of |-> t, size |-> n]

One == Flat(1)
Two == Flat(2)
Node(k, s, first, count) == [k |-> k, s |-> s, first |-> first, count |-> count]
Kid(key, value) == [key |-> key, value |-> value]
VariantOf(nodes, kids, keys) == [is |-> "variant", nodes |-> nodes, kids |-> kids, keys |-> keys]

(* The types tried, each with the values a row may have.                   *)
Cases ==
    {<<T("flat"), {Null, One}>>,
     <<[k |-> "enum", dict |-> <<1, 2>>], {Null, One, Two}>>,
     <<ListOf(T("flat")), {Null, List(<<>>), List(<<One>>), List(<<Two, Null>>)}>>,
     <<ListOf(ListOf(T("flat"))), {List(<<Null, List(<<One>>)>>), List(<<List(<<Two, One>>), List(<<>>)>>)}>>,
     <<StructOf(<<T("flat"), ListOf(T("flat"))>>), {Null, Struct(<<One, List(<<One, Two>>)>>), Struct(<<Null, Null>>)}>>,
     <<ListOf(StructOf(<<T("flat"), T("flat")>>)), {Null, List(<<Struct(<<One, Two>>), Null>>), List(<<Struct(<<Two, Null>>)>>)}>>,
     <<MapOf(ListOf(T("flat")), T("flat")), {Null, MapValue(<<List(<<One>>), List(<<>>)>>, <<One, Null>>), MapValue(<<List(<<Two>>)>>, <<Two>>)}>>,
     <<UnionOf(<<T("flat"), ListOf(T("flat"))>>), {Null, Member(0, One), Member(1, List(<<One, Two>>)), Member(1, Null)}>>,
     <<ArrayOf(T("flat"), 2), {Null, List(<<One, Null>>), List(<<Two, One>>)}>>,
     <<ArrayOf(ListOf(T("flat")), 2), {Null, List(<<List(<<One>>), List(<<One, Two>>)>>)}>>,
     <<T("variant"), {Null,
        VariantOf(<<Node("scalar", "a,b", 0, 0)>>, <<>>, <<>>),
        VariantOf(<<Node("array", "", 0, 2), Node("scalar", "a,b", 0, 0), Node("null", "", 0, 0)>>,
                  <<Kid(0, 1), Kid(0, 2)>>, <<>>),
        VariantOf(<<Node("object", "", 1, 2), Node("scalar", "a,b", 0, 0), Node("array", "", 0, 1)>>,
                  <<Kid(0, 1), Kid(1, 2), Kid(0, 1)>>, <<"x", "y">>)}>>}

AllValues == UNION {tv[2] : tv \in Cases}
Shapes == {<<2, 0, 2>>, <<3, 1>>, <<0, 1>>, <<>>}   \* bound: up to four rows
RowsUpTo(n, V) == [1 .. n -> V]
ChunksOf(shape, V) == {c \in [DOMAIN shape -> UNION {RowsUpTo(n, V) : n \in 0 .. 3}] :
                          \A i \in DOMAIN shape : Len(c[i]) = shape[i]}
AllResults == UNION {{[type |-> tv[1], chunks |-> c, reversed |-> r] :
                         c \in UNION {ChunksOf(s, tv[2]) : s \in Shapes}, r \in BOOLEAN} : tv \in Cases}


-----------------------------------------------------------------------------
(* The inputs of the conversions.                                          *)

UpTo(n, S) == UNION {[1 .. k -> S] : k \in 0 .. n}
Scalar(name) == [k |-> "scalar", name |-> name]
FieldOf(name, t) == [name |-> name, type |-> t]
Quote == "\""
Leaves == {Scalar("DATE"), Scalar("INTEGER"), Scalar("VARIANT"), [k |-> "decimal", width |-> "18", scale |-> "2"],
           [k |-> "alias", name |-> "JSON"], [k |-> "enum"]}
Nested(ts, small) ==
    {[k |-> "list", of |-> t] : t \in ts} \cup {[k |-> "array", of |-> t, size |-> "2"] : t \in ts}
    \cup {[k |-> "map", key |-> s, val |-> t] : s \in small, t \in ts}
    \cup UNION {{[k |-> "struct", fields |-> <<FieldOf(n, t), FieldOf(m, s)>>] : t \in ts, s \in small}
                   : n \in {<<"a">>, <<Quote, ",", ")">>}, m \in {<<"[", Quote, Quote, " ">>}}
    \cup {[k |-> "struct", fields |-> <<FieldOf(<<>>, t)>>] : t \in ts}
    \cup {[k |-> "union", fields |-> <<FieldOf(<<"b">>, t)>>] : t \in ts}
Types1 == Leaves \cup Nested(Leaves, {Scalar("DATE"), Scalar("INTEGER")})
Types2 == Types1 \cup Nested(Types1, {Scalar("DATE")})
TypesCut == Types1 \cup Nested({t \in Types1 : t.k \in {"list", "map", "struct"} /\ t \notin Leaves}, {Scalar("DATE")})

G(t, z, m, of) == [t |-> t, z |-> z, m |-> m, of |-> of]
Coords4 == [i \in 1 .. 4 |-> "c"]
P(z, m) == SubSeq(Coords4, 1, 2 + (IF z THEN 1 ELSE 0) + (IF m THEN 1 ELSE 0))
SimpleOf(z, m) ==
    LET p == P(z, m)
        half == [p EXCEPT ![1] = "nan"]
        lines == {<<>>, <<p>>, <<p, half>>}
        polys == {<<>>, <<<<p>>>>, <<<<p, p>>, <<>>>>}
    IN  {G(1, z, m, x) : x \in {<<>>, p, half}} \cup {G(2, z, m, x) : x \in lines} \cup {G(3, z, m, x) : x \in polys}
        \cup {G(4, z, m, x) : x \in {<<>>, <<p, <<>>>>}} \cup {G(5, z, m, x) : x \in {<<>>, <<<<p, p>>, <<>>>>}}
        \cup {G(6, z, m, x) : x \in {<<>>, <<<<<<p>>>>, <<>>>>}}
Simple == UNION {SimpleOf(z, m) : z \in BOOLEAN, m \in BOOLEAN}
Coll(of) == G(7, FALSE, FALSE, of)
Colls1 == {Coll(<<>>)} \cup {Coll(<<g>>) : g \in Simple} \cup {Coll(<<g, G(1, FALSE, FALSE, <<>>)>>) : g \in Simple}
Colls2 == {Coll(<<c>>) : c \in Colls1}
Colls3 == {Coll(<<c>>) : c \in Colls2}

Lexemes == {<<"w">>, <<" ">>, <<";">>, <<"'", ";", "'">>, <<"'", "'", "'", "-", "-", "'">>,
            <<"-", "-", "'", ";", "\n">>, <<"$", "$", ";", "'", "$", "$">>}
Days == {t \in [y : {-401, -400, -4, -1, 0, 1, 4, 77, 78, 79, 100, 1500, 1582, 1583, 1600, 1900, 2023, 2024}, m : 1 .. 12,
                d : {1, 4, 5, 14, 15, 20, 21, 22, 28, 29, 30, 31}] : t.d <= Rend!MonthDays(Rend!isGregorianLeap(t.y))[t.m]}
Rest(h, m, colon) == h \o (IF colon /\ m # <<>> THEN <<Rend!Colon>> ELSE <<>>) \o m
Zones == {[prefix |-> p, sign |-> s, rest |-> Rest(h, m, c)] : p \in {"UTC", "GMT", "EST"}, s \in {"+", "-"},
             h \in {<<0>>, <<9>>, <<0, 0>>, <<0, 8>>, <<1, 5>>, <<1, 6>>}, m \in {<<>>, <<0, 0>>, <<3, 0>>, <<5, 9>>, <<6, 0>>},
             c \in BOOLEAN}

NullCell == [is |-> "null"]
Word(s) == [is |-> "string", s |-> s]
Words == {<<>>, <<"NULL">>, <<"a">>, <<" ">>, <<"a", " ">>, <<"'">>, <<"\\">>, <<"\\", "'">>, <<",", " ", "a">>, <<"a", ",", " ", "a">>}
Cells == {NullCell} \cup {Word(w) : w \in Words}
Few == {NullCell, Word(<<"a">>), Word(<<"\\">>), Word(<<"'", "\\">>), Word(<<"a", ",", " ", "a">>)}
Box(is, names, keys, vals) == [is |-> is, names |-> names, keys |-> keys, vals |-> vals]
ListsOf(cells, n) == {Box("list", <<>>, <<>>, vs) : vs \in UpTo(n, cells)}
StructsOf(names, cells) == {Box("struct", names, <<>>, vs) : vs \in [DOMAIN names -> cells]}
MapsOf(cells, n) == UNION {{Box("map", <<>>, ks, vs) : ks \in [1 .. k -> cells], vs \in [1 .. k -> cells]} : k \in 0 .. n}
Families == <<ListsOf(Cells, 2), ListsOf(ListsOf(Few, 1), 2), StructsOf(<<<<"a">>, <<"'", ":">>>>, Cells),
              StructsOf(<<<<>>, <<>>>>, Cells), MapsOf(Few, 2), StructsOf(<<<<"a">>>>, ListsOf(Few, 2))>>

Components == {Paths!Lit("d"), Paths!Lit("f"), Paths!Star({"f", "g"}), Paths!Star({"d", "e", "f"}), Paths!Crawl}

(* Values with the tokens the runner takes for each.                       *)
N(go, n) == [go |-> go, n |-> n]
S(go, s) == [go |-> go, s |-> s]
NotAB == {"<!REGEX>:a|b"}
AcceptedOf ==
    N("nil", 0) :> {"NULL", "null"} \cup NotAB
    @@ N("bool", 100) :> {"1", " 1", "true"} \cup NotAB @@ N("bool", 0) :> {"0", "false"} \cup NotAB
    @@ N("int64", 100) :> {"1", " 1", "1.0", "true"} \cup NotAB @@ N("int64", 0) :> {"0", "false"} \cup NotAB
    @@ N("float64", 10000) :> {"100.0", "101.0"} \cup NotAB @@ N("float64", 10100) :> {"100.0", "101.0", "102.0"} \cup NotAB
    @@ N("float64", 50) :> {"50e-2"} \cup NotAB @@ N("float64", 100) :> {"1", " 1", "1.0"} \cup NotAB
    @@ N("float64", 300000) :> {"1e300", "1e301", "inf"} \cup NotAB   \* the reading as a FLOAT: infinite
    @@ N("float64", Query!Inf) :> {"1e300", "1e301", "inf"} \cup NotAB @@ N("float64", Query!NaN) :> {"nan"} \cup NotAB
    @@ S("string", "") :> {"(empty)"} \cup NotAB @@ S("string", "a") :> {"a", "\"a\"", "<REGEX>:a|b"}
    @@ S("string", "b") :> {"b", "<REGEX>:a|b"} @@ S("string", "50e-2") :> {"50e-2", "1/2"} \cup NotAB
    @@ S("string", "1.0") :> {"1.0", "1", " 1"} \cup NotAB @@ S("json", "{}") :> {"{}", "{ }"} \cup NotAB

Bits == {N("int64", 0), N("int64", 100)}
TablesOf(V, r, c) == [1 .. r -> [1 .. c -> V]]
Results12 == UNION {TablesOf(Bits, r, c) : r \in 1 .. 2, c \in 1 .. 2} \cup TablesOf(Bits, 3, 1)
Blocks == UNION {TablesOf({<<"0">>, <<"1">>}, r, c) : r \in 0 .. 2, c \in 1 .. 2} \cup TablesOf({<<"0">>, <<"1">>}, 3, 1)
QueriesTried == {[lines |-> Sql!Written(b, l), style |-> s, width |-> w] :
                    b \in Blocks, l \in {"rows", "aligned", "values"}, s \in {"", "valuesort", "rowsort"}, w \in 1 .. 2}
Subs1 == {[name |-> "i", val |-> "1"], [name |-> "i", val |-> "x"], [name |-> "j", val |-> "10"], [name |-> "j", val |-> "i"]}
TextWords == {<<"$">>, <<"/">>, <<"x">>, Inp!Braced("i"), Inp!Braced("j"), Inp!Braced("WORKING_DIR"), <<"__TEST_DIR__">>}
ReportsTried == UpTo(5, {[outcome |-> "PASS", reason |-> 0], [outcome |-> "SKIP", reason |-> 1]}
                        \cup {[outcome |-> "FAIL", reason |-> r] : r \in 1 .. 3})
RequiresTried == [param : {"vector_size", "exact_vector_size", "block_size"}, n : {-1, 512, 2048, 4096, 262144}, unit : {""}]
                 \cup [param : {"ram"}, n : {-1, 0, 1, 512, 513}, unit : {"mb", "gb", "tb", ""}]
                 \cup [param : {"json", "icu", "httpfs"}, n : {-1}, unit : {""}]

InfosTried == {[dev |-> 101, ino |-> 102, nlink |-> 103, uid |-> 104, gid |-> 105, kind |-> k, mode |-> Abi!ModeOf[k] + 420,
                size |-> s, sec |-> 300, nsec |-> n] : k \in DOMAIN Abi!ModeOf, s \in {0, 1, 512, 513}, n \in {0, 7}}
ListingsTried == UpTo(3, [name : {<<1>>, <<2, 3>>}, dir : BOOLEAN])

(* JSON values and the arguments of user functions, each a record of its   *)
(* own shape throughout.                                                   *)
J(is, n, s, names, of) == [is |-> is, n |-> n, s |-> s, names |-> names, of |-> of]
JLeaves == {J("null", 0, "", <<>>, <<>>), J("string", 0, "a", <<>>, <<>>), J("number", 7, "integer", <<>>, <<>>),
            J("number", 8, "integer", <<>>, <<>>), J("number", 1, "float", <<>>, <<>>), J("number", 99, "huge", <<>>, <<>>)}
JBoxes(vs) == {J("array", 0, "", <<>>, of) : of \in UpTo(2, vs)} \cup {J("object", 0, "", ns, of) : ns \in [1 .. 2 -> {"x", "y"}], of \in [1 .. 2 -> vs]}
JSmall == {J("number", 7, "integer", <<>>, <<>>), J("array", 0, "", <<>>, <<J("number", 1, "integer", <<>>, <<>>)>>)}
JValues == JLeaves \cup JBoxes(JLeaves) \cup JBoxes(JBoxes(JSmall))
TextOf(values, raw) == [values |-> values, raw |-> raw]
NoText == TextOf(<<>>, "")
ArgOf(is, s, text, names, keys, vals) == [is |-> is, s |-> s, text |-> text, names |-> names, keys |-> keys, vals |-> vals]
ArgLeaf(is, s) == ArgOf(is, s, NoText, <<>>, <<>>, <<>>)
JsonArg(text) == ArgOf("JSONValue", "", text, <<>>, <<>>, <<>>)
JsonArgs == {JsonArg(TextOf(<<v>>, "")) : v \in JValues} \cup {JsonArg(TextOf(<<>>, "no json")),
             JsonArg(TextOf(<<J("number", 1, "integer", <<>>, <<>>), J("null", 0, "", <<>>, <<>>)>>, ""))}
KeyArgs == {ArgLeaf("int64", "1"), ArgLeaf("bytes", "a"), ArgLeaf("nil", ""), JsonArg(TextOf(<<J("number", 1, "integer", <<>>, <<>>)>>, "")),
            JsonArg(TextOf(<<J("array", 0, "", <<>>, <<>>)>>, "")), ArgOf("slice", "", NoText, <<>>, <<>>, <<ArgLeaf("int64", "1")>>)}
BoxArgs(vs) ==
    {ArgOf("slice", "", NoText, <<>>, <<>>, of) : of \in UpTo(2, vs)}
    \cup {ArgOf("Struct", "", NoText, ns, <<>>, of) : ns \in {<<"x", "y">>, <<"", "">>}, of \in [1 .. 2 -> vs]}
    \cup UNION {{ArgOf("MapValue", "", NoText, <<>>, ks, of) : ks \in [1 .. n -> KeyArgs], of \in [1 .. n -> vs]} : n \in 0 .. 2}
FewArgs == {ArgLeaf("int64", "2"), ArgOf("Struct", "", NoText, <<"x">>, <<>>, <<ArgLeaf("nil", "")>>),
            ArgOf("MapValue", "", NoText, <<>>, <<ArgLeaf("bytes", "a")>>, <<ArgLeaf("int64", "1")>>)}
ArgumentsTried == <<JsonArgs, BoxArgs(FewArgs), BoxArgs({ArgOf("slice", "", NoText, <<>>, <<>>, <<a>>) : a \in FewArgs})>>

ErrorsTried == [result : {<<>>, <<"Binder Error">>}, pre : {<<>>, <<"IO: ">>}, class : {<<"Binder">>, <<"TypeError">>, <<"a", "b">>},
                msg : UpTo(3, {"m", Quote, "\\", "{", "\n"})]
ColumnNames == {<<"a">>, <<Quote>>, <<",", " ">>, <<"a", Quote, Quote>>, <<>>}
TablesTried == [name : ColumnNames, cols : UpTo(2, [name : ColumnNames, type : {"BIGINT", "ANY", ""}])]
Limits == {"", "256MB"}
DsnsTried == [path : {"", "f.db"}, parses : BOOLEAN,
              params : {<<>>} \cup [{"max_memory"} -> Limits] \cup [{"memory_limit"} -> {"", "1GB"}]
                       \cup [{"max_memory", "memory_limit"} -> Limits \cup {"1GB"}] \cup [{"threads"} -> {""}]]

RecordsTried == {<<sql, expected>> : sql \in UpTo(2, {"s"}) \ {<<>>}, expected \in {<<>>} \cup {<<ls>> : ls \in UpTo(2, {"r", "#", "----"})}}
SettingsTried == UpTo(4, {[ok |-> ok, sets |-> "timezone", val |-> v] : ok \in BOOLEAN, v \in {"UTC-8", "unknown"}}
                         \cup {[ok |-> TRUE, sets |-> "calendar", val |-> v] : v \in {"gregorian", "japanese"}}
                         \cup {[ok |-> TRUE, sets |-> x, val |-> ""] : x \in {"reset timezone", "other"}})
ItemsTried == {[says |-> <<"w">>, leaves |-> "w"], [says |-> <<"1", "2">>, leaves |-> "#"], [says |-> <<Quote, "1", Quote>>, leaves |-> "?"],
               [says |-> <<"'", Quote, "'">>, leaves |-> "?"], [says |-> <<"\n">>, leaves |-> "\n"]}
FailuresTried == [prefix : {<<>>, <<"duckdb prepare: ">>, <<"duckdb execute: ">>}, class : {<<>>, <<"Binder">>, <<"Not", "implemented">>},
                  items : UpTo(5, ItemsTried)]
FloatsTried == {x \in [is : {"finite", "nan", "inf"}, neg : BOOLEAN, ds : UpTo(3, {0, 1, 9}) \ {<<>>}, e : -6 .. 18] :
                   (x.ds = <<0>> /\ x.e = 0) \/ (x.ds[1] # 0 /\ Last(x.ds) # 0)}
BlobsTried == UpTo(2, {0, 10, 31, 32, 34, 39, 48, 65, 92, 120, 126, 127, 159, 255})

AllTried ==
    [accepted |-> AcceptedOf, queries |-> QueriesTried, results |-> Results12,
     subs |-> UpTo(2, Subs1), texts |-> UpTo(4, TextWords), operands |-> {"i", "j", "1", "2", "x"},
     foreachs |-> UpTo(4, DOMAIN Inp!Collections \cup DOMAIN Inp!Removed \cup {"tinyint", "<compression>"}),
     reports |-> ReportsTried, requires |-> RequiresTried,
     types |-> Types2, cells |-> TypesCut, geometries |-> Simple \cup Colls1 \cup Colls2 \cup Colls3,
     uppers |-> {0, 1, 127, 128, 255}, bignums |-> -63 .. 63, bits |-> UpTo(7, {0, 1}) \ {<<>>}, runs |-> UpTo(5, {0, 7}),
     decimals |-> -120 .. 120, months |-> {-25, -12, -1, 0, 11, 13}, timetz |-> 0 .. 1295, units |-> {1, 2, 5, 10},
     values |-> {[go |-> g, n |-> n] : g \in {"int64", "float64"}, n \in -128 .. 127} \cup {[go |-> "uint64", n |-> n] : n \in 0 .. 255}
                \cup {[go |-> "bool", n |-> n] : n \in {0, 1}},
     ints |-> {[signed |-> s, w |-> w] : s \in BOOLEAN, w \in {2, 3, 4, 8}}, nulls |-> SUBSET {0, 1, 7, 8, 9, 15},
     requests |-> 0 .. 15, sizes |-> {2, 4, 6}, page |-> 2,
     dates |-> Days, zones |-> Zones, batches |-> UpTo(4, Lexemes),
     blocks |-> UNION {[1 .. r -> [1 .. c -> {<<"a">>, <<"b", "c">>}]] : r \in {1, 2, 3}, c \in {1, 2}},
     orders |-> [1 .. 4 -> 1 .. 3], containers |-> Families, patterns |-> UpTo(3, Components) \ {<<>>},
     infos |-> InfosTried, entries |-> {"none", "preopen", "dir", "file", "append"}, names |-> {<<47>>, <<1, 2>>, <<1, 47, 3>>},
     listings |-> ListingsTried, times |-> [atime : {3, 4}, mtime : {4, 5}], instants |-> [mono : 1 .. 3, wall : 1 .. 3],
     columns |-> 2 :> UpTo(3, -2 .. 1) @@ 4 :> UpTo(3, -8 .. 7) @@ 8 :> UpTo(2, {-128, -1, 0, 5, 127})
                @@ 16 :> UpTo(2, {-32768, -129, -1, 0, 255, 256, 32767}),
     indexes |-> 1 :> UpTo(4, 0 .. 1) @@ 2 :> UpTo(4, 0 .. 3) @@ 4 :> UpTo(2, 0 .. 15), dict |-> [i \in 1 .. 16 |-> i - 1],
     strings |-> UpTo(4, {0, 1, 2}), arguments |-> ArgumentsTried, errors |-> ErrorsTried, tables |-> TablesTried, dsns |-> DsnsTried,
     blobs |-> BlobsTried, floats |-> FloatsTried, ticks |-> -1100 .. 1100, records |-> RecordsTried, settings |-> SettingsTried,
     failures |-> FailuresTried, searches |-> {<<>>, <<<<"d">>>>, <<<<"x">>, <<"d">>>>}]

NarrowWords == <<2, 3, 4>>
TheDirs == {<<>>, <<"d">>, <<"d", "e">>, <<"d", "e", "d">>, <<"e">>}
TheFiles == {<<"f">>, <<"d", "f">>, <<"d", "g">>, <<"d", "e", "f">>, <<"d", "e", "d", "g">>}

-----------------------------------------------------------------------------
(* The column types whose handles are taken and given back.                *)
TypeTree(k, kids) == [k |-> k, kids |-> kids, depth |->
                     Max({0} \cup {kids[i].depth + 1 : i \in DOMAIN kids})]
ALeaf(k) == TypeTree(k, <<>>)
JsonAndEnum == TypeTree("struct", <<ALeaf("json"), ALeaf("enum")>>)
JsonOrFlat == TypeTree("union", <<ALeaf("json"), ALeaf("flat")>>)
TheColumns == {<<ALeaf("flat"), ALeaf("json"), ALeaf("enum"), TypeTree("list", <<JsonAndEnum>>)>>,
               <<TypeTree("map", <<ALeaf("flat"), JsonOrFlat>>)>>}
TheTypes == {ALeaf("flat"), ALeaf("json"), ALeaf("enum"), JsonAndEnum, JsonOrFlat} \cup UNION {Range(cols) : cols \in TheColumns}

-----------------------------------------------------------------------------
(* Beside results and conversions, what the calls around them take of the   *)
(* engine's memory: three sides that share no state.                       *)
VARIABLE side

NoRows == [type |-> T("flat"), chunks |-> <<>>, reversed |-> FALSE]
MCInit ==
    /\ ConvInit /\ OwnInit /\ RowsInit
    /\ \/ side = "rows"
       \/ side \in {"conversions", "memory"} /\ result = NoRows
MCNext ==
    /\ UNCHANGED side
    /\ \/ side = "rows" /\ RowsNext /\ UNCHANGED <<delivered, ownvars>>
       \/ side = "conversions" /\ ConvNext /\ UNCHANGED <<rowsvars, ownvars>>
       \/ side = "memory" /\ OwnNext /\ UNCHANGED <<rowsvars, delivered>>
MCSpec == MCInit /\ [][MCNext]_<<rowsvars, delivered, ownvars, side>>

Symmetry == Permutations(Users)
=============================================================================
