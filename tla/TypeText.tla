------------------------------ MODULE TypeText ------------------------------
(***************************************************************************)
(* A column's type as text: how the driver spells it (typename.go), how the *)
(* sqllogictest runner parses that spelling back (parseColType in           *)
(* cmd/sqllogic/main.go), and how a TYPE cell, the engine's serialized      *)
(* LogicalType, becomes a spelling too (typedecode.go).  A text is a        *)
(* sequence of tokens, one for a word or a delimiter; names are texts that  *)
(* may hold any of them.  A blob is a sequence of [is, v], one for each     *)
(* number, string or flag the serializer wrote.                            *)
(***************************************************************************)
EXTENDS Integers, Sequences, SequencesExt, FiniteSets

Q == "\""
Joined(parts) ==
    FlattenSeq([i \in DOMAIN parts |-> IF i = 1 THEN parts[i] ELSE <<",", " ">> \o parts[i]])
Doubled(name) == FlattenSeq([i \in DOMAIN name |-> IF name[i] = Q THEN <<Q, Q>> ELSE <<name[i]>>])

-----------------------------------------------------------------------------
(* typename.go                                                             *)

(* Mutant of quoteTypeIdent: embedded quotes are not doubled.              *)
quoteTypeIdentOnce(name) == <<Q>> \o name \o <<Q>>

quoteTypeIdent(name) == <<Q>> \o Doubled(name) \o <<Q>>

RECURSIVE typeName(_)
Fields(type) == [i \in DOMAIN type.fields |->
                   quoteTypeIdent(type.fields[i].name) \o <<" ">> \o typeName(type.fields[i].type)]
typeName(type) ==
    CASE type.k \in {"scalar", "alias"} -> <<type.name>>
      [] type.k = "enum" -> <<"ENUM">>
      [] type.k = "decimal" -> <<"DECIMAL", "(", type.width, ",", type.scale, ")">>
      [] type.k = "list" -> typeName(type.of) \o <<"[", "]">>
      [] type.k = "array" -> typeName(type.of) \o <<"[", type.size, "]">>
      [] type.k = "map" -> <<"MAP", "(">> \o Joined(<<typeName(type.key), typeName(type.val)>>) \o <<")">>
      [] type.k = "struct" -> <<"STRUCT", "(">> \o Joined(Fields(type)) \o <<")">>
      [] type.k = "union" -> <<"UNION", "(">> \o Joined(Fields(type)) \o <<")">>

-----------------------------------------------------------------------------
(* parseColType: a face for a scalar, else the shape to recurse in.        *)

Faceless == [is |-> "scalar", face |-> "none"]
Digits == {"1", "2", "18"}
faceOf == [t \in {"DATE", "TIME", "TIMESTAMP", "TIMESTAMP WITH TIME ZONE", "FLOAT", "VARIANT"} |-> t]

TrimSpace(s) ==
    LET words == {i \in DOMAIN s : s[i] # " "}
    IN  IF words = {} THEN <<>>
        ELSE SubSeq(s, CHOOSE i \in words : \A j \in words : i <= j,
                       CHOOSE i \in words : \A j \in words : i >= j)

(* splitTopLevel: a doubled quote closes and opens again.                  *)
Inside(s, i) == Len(SelectSeq(SubSeq(s, 1, i), LAMBDA c : c = Q)) % 2 = 1
Depth(s, i) ==
    LET Count(C) == Cardinality({j \in 1 .. i : s[j] \in C /\ ~Inside(s, j)})
    IN  Count({"(", "["}) - Count({")", "]"})
splitTopLevel(s) ==
    LET cuts == {0, Len(s) + 1} \cup {i \in DOMAIN s : s[i] = "," /\ ~Inside(s, i) /\ Depth(s, i) = 0}
        at   == SetToSortSeq(cuts, <)
    IN  [n \in 1 .. Len(at) - 1 |-> TrimSpace(SubSeq(s, at[n] + 1, at[n + 1] - 1))]

stripFieldName(p) ==
    LET ends == {i \in 2 .. Len(p) : p[i] = Q /\ ~Inside(p, i) /\ ~(i < Len(p) /\ p[i + 1] = Q)}
    IN  IF ends = {} THEN <<>>
        ELSE TrimSpace(SubSeq(p, (CHOOSE i \in ends : \A j \in ends : i <= j) + 1, Len(p)))

RECURSIVE parseColType(_)
parseColType(text) ==
    LET s      == TrimSpace(text)
        opens  == {i \in DOMAIN s : s[i] = "["}
        open   == CHOOSE i \in opens : \A j \in opens : i >= j
        Ends(c) == s # <<>> /\ Last(s) = c
        Call(w) == Ends(")") /\ Len(s) >= 3 /\ s[1] = w /\ s[2] = "("
        inner  == splitTopLevel(SubSeq(s, 3, Len(s) - 1))
    IN  CASE Ends("]") /\ opens # {} /\ open > 1 /\ \A i \in open + 1 .. Len(s) - 1 : s[i] \in Digits ->
               [is |-> "elem", of |-> parseColType(SubSeq(s, 1, open - 1))]
          [] Call("MAP") /\ Len(inner) = 2 ->
               [is |-> "map", key |-> parseColType(inner[1]), val |-> parseColType(inner[2])]
          [] Call("STRUCT") ->
               [is |-> "struct", fields |-> [i \in DOMAIN inner |-> parseColType(stripFieldName(inner[i]))]]
          [] Len(s) = 1 /\ s[1] \in DOMAIN faceOf -> [is |-> "scalar", face |-> faceOf[s[1]]]
          [] OTHER -> Faceless

-----------------------------------------------------------------------------
(* typedecode.go.  A reader is [toks, pos, bad, val].                       *)

Field(id) == [is |-> "field", v |-> id]
Num(n) == [is |-> "num", v |-> n]
Count(n) == [is |-> "count", v |-> n]   \* a number too
Str(s) == [is |-> "str", v |-> s]
Flag(b) == [is |-> "flag", v |-> b]
terminator == 65535
End == Field(terminator)

(* u16, varint, str and boolByte                                           *)
Take(d, is, none) ==
    IF d.pos <= Len(d.toks) /\ d.toks[d.pos].is = is
    THEN [d EXCEPT !.pos = @ + 1, !.val = d.toks[d.pos].v] ELSE [d EXCEPT !.bad = TRUE, !.val = none]
varint(d) == Take(d, "num", "0")
countOf(d) == Take(d, "count", 0)
str(d) == Take(d, "str", <<>>)
boolByte(d) == Take(d, "flag", FALSE)
Peek(d, id) == d.pos <= Len(d.toks) /\ d.toks[d.pos] = Field(id)
expectField(d, id) == LET e == Take(d, "field", terminator) IN [e EXCEPT !.bad = @ \/ e.val # id]

(* Mutant of objectEnd: a blob that stops where a terminator is due passes. *)
objectEndPeeked(d) == IF Peek(d, terminator) THEN [d EXCEPT !.pos = @ + 1]
                      ELSE [d EXCEPT !.bad = @ \/ d.pos <= Len(d.toks)]

objectEnd(d) == LET e == expectField(d, terminator) IN [e EXCEPT !.val = d.val]

Optional(d, id, Read(_), none) == IF Peek(d, id) THEN Read(expectField(d, id)) ELSE [d EXCEPT !.val = none]
Failed(d) == [d EXCEPT !.bad = TRUE]
Ended(d, v) == objectEnd([d EXCEPT !.val = v])

RECURSIVE readLogicalType(_), readChildren(_, _, _)

readChildren(d, n, children) ==
    IF n = 0 \/ d.bad THEN [d EXCEPT !.val = children]
    ELSE LET name  == str(expectField(d, 0))
             child == readLogicalType(expectField(name, 1))
         IN  readChildren(objectEnd(child), n - 1, Append(children, [name |-> name.val, type |-> child.val]))

readTypeInfo(d, t) ==
    LET kind  == varint(expectField(d, 100))
        alias == Optional(kind, 101, str, <<>>)
        ext   == Optional(alias, 103, boolByte, FALSE)
        named == [t EXCEPT !.hasInfo = TRUE, !.alias = alias.val]
        Single(e) == LET c == readLogicalType(e) IN [c EXCEPT !.val = <<[name |-> <<>>, type |-> c.val]>>]
        Counted(e) == LET n == countOf(e) IN readChildren(n, n.val, <<>>)
        width == Optional(ext, 200, varint, "0")
        scale == Optional(width, 201, varint, "0")
        child == Optional(ext, 200, Single, <<>>)
        size  == Optional(child, 201, varint, "0")
        many  == Optional(ext, 200, Counted, <<>>)
    IN  CASE ext.val -> Failed(ext)
          [] ~ext.val /\ kind.val = "decimal" -> Ended(scale, [named EXCEPT !.width = width.val, !.scale = scale.val])
          [] ~ext.val /\ kind.val = "list" -> Ended(child, [named EXCEPT !.children = child.val])
          [] ~ext.val /\ kind.val = "struct" -> Ended(many, [named EXCEPT !.children = many.val])
          [] ~ext.val /\ kind.val = "array" -> Ended(size, [named EXCEPT !.children = child.val, !.size = size.val])
          [] OTHER -> Failed(ext)

readLogicalType(d) ==
    LET id   == varint(expectField(d, 100))
        t    == [id |-> id.val, alias |-> <<>>, children |-> <<>>, width |-> "0", scale |-> "0",
                 size |-> "0", hasInfo |-> FALSE]
        Info(e) == LET there == boolByte(e)
                   IN  IF there.val THEN readTypeInfo(there, t) ELSE [there EXCEPT !.val = t]
    IN  objectEnd(Optional(id, 101, Info, t))

(* sqlIdentifier, decodedType.String                                       *)
plain == {"a", "b"}
sqlIdentifier(name) ==
    IF name # <<>> /\ \A i \in DOMAIN name : name[i] \in plain THEN name ELSE quoteTypeIdent(name)

RECURSIVE String(_)
String(t) ==
    LET cs == t.children
        Child(i) == String(cs[i].type)
        named == \E i \in DOMAIN cs : cs[i].name # <<>>
        known == t.hasInfo /\ cs # <<>>
    IN  CASE t.alias # <<>> -> t.alias
          [] t.alias = <<>> /\ t.id = "STRUCT" /\ t.hasInfo ->
               <<"STRUCT", "(">> \o
               Joined([i \in DOMAIN cs |->
                         (IF named THEN sqlIdentifier(cs[i].name) \o <<" ">> ELSE <<>>) \o Child(i)]) \o <<")">>
          [] t.alias = <<>> /\ t.id = "LIST" /\ known -> Child(1) \o <<"[", "]">>
          [] t.alias = <<>> /\ t.id = "MAP" /\ known /\ cs[1].type.id = "STRUCT" /\ Len(cs[1].type.children) = 2 ->
               LET kv == cs[1].type.children
               IN  <<"MAP", "(">> \o Joined(<<String(kv[1].type), String(kv[2].type)>>) \o <<")">>
          [] t.alias = <<>> /\ t.id = "ARRAY" /\ known ->
               Child(1) \o <<"[", IF t.size = "0" THEN "ANY" ELSE t.size, "]">>
          [] t.alias = <<>> /\ t.id = "DECIMAL" /\ t.hasInfo /\ t.width # "0" ->
               <<"DECIMAL", "(", t.width, ",", t.scale, ")">>
          [] OTHER -> <<t.id>>

(* typeBlobString: <<>> for a blob that does not decode.                   *)
typeBlobString(toks) ==
    LET d == readLogicalType([toks |-> toks, pos |-> 1, bad |-> FALSE, val |-> 0])
    IN  IF d.bad THEN <<>> ELSE String(d.val)

-----------------------------------------------------------------------------
(* What the engine's serializer writes, as the comments of typedecode.go   *)
(* give it: fields at their default are left out.                          *)
RECURSIVE Ser(_)
TypeOf(id, info) == <<Field(100), Num(id)>> \o
                    (IF info = <<>> THEN <<>> ELSE <<Field(101), Flag(TRUE)>> \o info) \o <<End>>
Info(kind, more) == <<Field(100), Num(kind)>> \o more \o <<End>>
Members(names, types) ==
    <<Field(200), Count(Len(types))>> \o
    FlattenSeq([i \in DOMAIN types |-> <<Field(0), Str(names[i]), Field(1)>> \o Ser(types[i]) \o <<End>>])
NotZero(id, v) == IF v = "0" THEN <<>> ELSE <<Field(id), Num(v)>>
Ser(type) ==
    CASE type.k = "scalar" -> TypeOf(type.name, <<>>)
      [] type.k = "alias" -> TypeOf("VARCHAR", Info("generic", <<Field(101), Str(<<type.name>>)>>))
      [] type.k = "enum" -> TypeOf("ENUM", Info("enum", <<Field(200), Num("2")>>))
      [] type.k = "decimal" -> TypeOf("DECIMAL", Info("decimal", NotZero(200, type.width) \o NotZero(201, type.scale)))
      [] type.k = "list" -> TypeOf("LIST", Info("list", <<Field(200)>> \o Ser(type.of)))
      [] type.k = "array" -> TypeOf("ARRAY", Info("array", <<Field(200)>> \o Ser(type.of) \o NotZero(201, type.size)))
      [] type.k = "map" ->
           TypeOf("MAP", Info("list", <<Field(200)>> \o
                    TypeOf("STRUCT", Info("struct", Members(<<<<"k">>, <<"v">>>>, <<type.key, type.val>>)))))
      [] type.k \in {"struct", "union"} ->
           TypeOf(IF type.k = "struct" THEN "STRUCT" ELSE "UNION",
                  Info("struct", Members([i \in DOMAIN type.fields |-> type.fields[i].name],
                                         [i \in DOMAIN type.fields |-> type.fields[i].type])))

-----------------------------------------------------------------------------
(* The shape a column has for the runner, straight from its type.  Under a *)
(* UNION nothing is known.                                                 *)
RECURSIVE ShapeOf(_)
ShapeOf(type) ==
    CASE type.k = "scalar" /\ type.name \in DOMAIN faceOf -> [is |-> "scalar", face |-> type.name]
      [] type.k \in {"list", "array"} -> [is |-> "elem", of |-> ShapeOf(type.of)]
      [] type.k = "map" -> [is |-> "map", key |-> ShapeOf(type.key), val |-> ShapeOf(type.val)]
      [] type.k = "struct" -> [is |-> "struct", fields |-> [i \in DOMAIN type.fields |-> ShapeOf(type.fields[i].type)]]
      [] OTHER -> Faceless

(* The text of a type for the engine's cast of TYPE to VARCHAR, and        *)
(* whether the decoder reaches that far.                                   *)
RECURSIVE Spelled(_), Decodes(_)
Spelled(type) ==
    CASE type.k = "list" -> Spelled(type.of) \o <<"[", "]">>
      [] type.k = "array" -> Spelled(type.of) \o <<"[", type.size, "]">>
      [] type.k = "map" -> <<"MAP", "(">> \o Joined(<<Spelled(type.key), Spelled(type.val)>>) \o <<")">>
      [] type.k = "struct" ->
           <<"STRUCT", "(">> \o
           Joined([i \in DOMAIN type.fields |->
                     (IF type.fields[i].name \in {<<>>, <<"a">>} THEN type.fields[i].name
                      ELSE quoteTypeIdent(type.fields[i].name)) \o
                     (IF type.fields[i].name = <<>> THEN <<>> ELSE <<" ">>) \o Spelled(type.fields[i].type)]) \o <<")">>
      [] type.k = "union" -> <<"UNION">>
      [] OTHER -> typeName(type)
Decodes(type) ==
    CASE type.k \in {"enum", "alias"} -> FALSE
      [] type.k \in {"list", "array"} -> Decodes(type.of)
      [] type.k = "map" -> Decodes(type.key) /\ Decodes(type.val)
      [] type.k \in {"struct", "union"} -> \A i \in DOMAIN type.fields : Decodes(type.fields[i].type)
      [] OTHER -> TRUE
=============================================================================
