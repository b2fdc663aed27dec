------------------------------- MODULE Vectors -------------------------------
(***************************************************************************)
(* The engine's column vectors and how the driver reads a cell of one       *)
(* (converge/duckdb/udf_vec.go, variant.go, result.go, udf_codec.go).  A    *)
(* vector is [type, data, mask, kids]: the rows' own data, the validity     *)
(* mask and the child vectors; rows count from 0.  What the engine writes   *)
(* is Lay, from the comments of those files; what the driver reads is cell. *)
(*                                                                         *)
(* A value is a record by what it is: null, flat (any scalar), list (ARRAY  *)
(* too), struct, map, or text, the rendering of a VARIANT.                  *)
(***************************************************************************)
EXTENDS Integers, Sequences, SequencesExt, FiniteSets

CONSTANT WordBits   \* rows per word of a validity mask: 64

ASSUME WordAssumption == WordBits \in Nat \ {0}

Null == [is |-> "null"]
Flat(n) == [is |-> "flat", n |-> n]
List(items) == [is |-> "list", items |-> items]
Struct(fields) == [is |-> "struct", fields |-> fields]
MapValue(keys, values) == [is |-> "map", keys |-> keys, values |-> values]
Member(tag, v) == [is |-> "member", tag |-> tag, v |-> v]

NoMask == <<>>

Rows(n) == 0 .. n - 1
Elem(s, i) == s[i + 1]

-----------------------------------------------------------------------------
(* The layout the engine writes for a column of values.                    *)

MaskOf(col) ==
    IF \A i \in DOMAIN col : col[i] # Null THEN NoMask
    ELSE [w \in 1 .. (Len(col) + WordBits - 1) \div WordBits |->
             {b \in Rows(WordBits) :
                (w - 1) * WordBits + b < Len(col) /\ Elem(col, (w - 1) * WordBits + b) # Null}]

(* The lists of a column lie in one child vector, in any order.            *)
ItemsOf(v) == IF v = Null THEN <<>> ELSE v.items
Placed(col, reversed) ==
    FlattenSeq(IF reversed THEN Reverse([i \in DOMAIN col |-> ItemsOf(col[i])])
                           ELSE [i \in DOMAIN col |-> ItemsOf(col[i])])
Before(col, i, reversed) == IF reversed THEN SubSeq(col, i + 1, Len(col)) ELSE SubSeq(col, 1, i - 1)
Entry(col, i, reversed) ==
    [offset |-> Len(Placed(Before(col, i, reversed), reversed)), length |-> Len(ItemsOf(col[i]))]
Entries(col, reversed) == [i \in DOMAIN col |-> Entry(col, i, reversed)]

Column(col, F(_)) == [i \in DOMAIN col |-> IF col[i] = Null THEN Null ELSE F(col[i])]
Pairs(v) == List([i \in DOMAIN v.keys |-> Struct(<<v.keys[i], v.values[i]>>)])
Vector(type, data, col, kids) == [type |-> type, data |-> data, mask |-> MaskOf(col), kids |-> kids]

(* The value tree of a VARIANT, numbered: node 1 is the root, and the      *)
(* children of a node lie side by side in the children list.               *)
RECURSIVE Lay(_, _, _)
Lay(type, col, reversed) ==
    CASE type.k \in {"flat", "decimal", "json"} ->
            Vector(type, [i \in DOMAIN col |-> IF col[i] = Null THEN 0 ELSE col[i].n], col, <<>>)
      [] type.k = "enum" ->
            Vector(type, [i \in DOMAIN col |-> IF col[i] = Null THEN 0
                                               ELSE IndexFirstSubSeq(<<col[i].n>>, type.dict) - 1],
                   col, <<>>)
      [] type.k = "list" ->
            Vector(type, Entries(col, reversed), col, <<Lay(type.of, Placed(col, reversed), reversed)>>)
      [] type.k = "struct" ->
            Vector(type, <<>>, col,
                   [j \in DOMAIN type.fields |->
                      Lay(type.fields[j], Column(col, LAMBDA v : v.fields[j]), reversed)])
      [] type.k = "map" ->
            LET lists == Column(col, Pairs)
            IN  Vector(type, Entries(lists, reversed), col,
                       <<Lay([k |-> "struct", fields |-> <<type.key, type.val>>],
                             Placed(lists, reversed), reversed)>>)
      [] type.k = "union" ->
            Vector(type, <<>>, col,
                   <<Lay([k |-> "flat"], Column(col, LAMBDA v : Flat(v.tag)), reversed)>> \o
                   [j \in DOMAIN type.members |->
                      Lay(type.members[j],
                          [i \in DOMAIN col |-> IF col[i] # Null /\ col[i].tag = j - 1 THEN col[i].v ELSE Null],
                          reversed)])
      [] type.k = "array" ->
            Vector(type, <<>>, col,
                   <<Lay(type.of,
                         FlattenSeq([i \in DOMAIN col |->
                            IF col[i] = Null THEN [j \in 1 .. type.size |-> Null] ELSE col[i].items]),
                         reversed)>>)
      [] type.k = "variant" ->
            LET nodes == Column(col, LAMBDA v : List(v.nodes))
                kids  == Column(col, LAMBDA v : List(v.kids))
                keys  == Column(col, LAMBDA v : List(v.keys))
            IN  Vector(type, [i \in DOMAIN col |-> [keys     |-> Entry(keys, i, reversed),
                                                   children |-> Entry(kids, i, reversed),
                                                   values   |-> Entry(nodes, i, reversed)]], col,
                       <<Placed(keys, reversed), Placed(kids, reversed), Placed(nodes, reversed)>>)

-----------------------------------------------------------------------------
(* What the driver reads.                                                  *)

(* rowValid, readValid                                                     *)
rowValid(mask, row) == mask = NoMask \/ (row % WordBits) \in Elem(mask, row \div WordBits)

(* Mutant of ListItem: the entry's offset is left out.                     *)
ListItemFromStart(entry, i) == i

(* Which row of the child vector is item i of a list.                      *)
ListItem(entry, i) == entry.offset + i

(* variantDec.renderValue: value idx of the row whose lists start at the   *)
(* entry's offsets.  The items of an ARRAY come as they are; in an OBJECT  *)
(* a scalar that needs it is quoted, a container or NULL never.            *)
Text(s) == [is |-> "text", s |-> s, raw |-> FALSE]
RawText(s) == [is |-> "text", s |-> s, raw |-> TRUE]
Quoted(t) == IF t.raw \/ t.s \notin {"a,b", ""} THEN t.s ELSE <<"quoted", t.s>>

RECURSIVE renderValue(_, _, _)
renderValue(vec, entry, idx) ==
    LET node == Elem(vec.kids[3], entry.values.offset + idx)
        Child(i) == Elem(vec.kids[2], entry.children.offset + node.first + i)
        Value(i) == renderValue(vec, entry, Child(i).value)
        Key(i) == Elem(vec.kids[1], entry.keys.offset + Child(i).key)
    IN  CASE node.k = "null" -> RawText("NULL")
          [] node.k = "scalar" -> Text(node.s)
          [] node.k = "array" -> RawText([i \in 1 .. node.count |-> Value(i - 1).s])
          [] node.k = "object" -> RawText([i \in 1 .. node.count |-> <<Key(i - 1), Quoted(Value(i - 1))>>])

(* vecDecoder.cell                                                         *)
RECURSIVE cell(_, _)
cell(vec, row) ==
    IF ~rowValid(vec.mask, row) THEN Null
    ELSE CASE vec.type.k \in {"flat", "decimal", "json"} -> Flat(Elem(vec.data, row))
           [] vec.type.k = "enum" ->
                IF Elem(vec.data, row) < Len(vec.type.dict)
                THEN Flat(Elem(vec.type.dict, Elem(vec.data, row))) ELSE Null
           [] vec.type.k = "list" ->
                LET e == Elem(vec.data, row)
                IN  List([i \in 1 .. e.length |-> cell(vec.kids[1], ListItem(e, i - 1))])
           [] vec.type.k = "struct" ->
                Struct([j \in DOMAIN vec.kids |-> cell(vec.kids[j], row)])
           [] vec.type.k = "map" ->
                LET e == Elem(vec.data, row)
                    Col(c) == [i \in 1 .. e.length |-> cell(vec.kids[1].kids[c], ListItem(e, i - 1))]
                IN  MapValue(Col(1), Col(2))
           [] vec.type.k = "union" ->
                LET t == cell(vec.kids[1], row)
                IN  IF t = Null \/ t.n >= Len(vec.type.members) THEN Null
                    ELSE cell(vec.kids[t.n + 2], row)
           [] vec.type.k = "array" ->
                List([i \in 1 .. vec.type.size |-> cell(vec.kids[1], row * vec.type.size + i - 1)])
           [] vec.type.k = "variant" ->
                LET e == Elem(vec.data, row)
                IN  IF e.values.length = 0 THEN Text("NULL") ELSE renderValue(vec, e, 0)

(* A row of a chunk of a result.                                           *)
VectorOf(result, k) == Lay(result.type, result.chunks[k], result.reversed)
CellAt(result, k, row) == cell(VectorOf(result, k), row)

-----------------------------------------------------------------------------
(* What a value of the engine is for the user: a union is its member, a    *)
(* VARIANT its text.                                                       *)

RECURSIVE Shown(_), Tree(_, _)
Tree(v, n) ==
    LET node == v.nodes[n]
        Kid(i) == v.kids[node.first + i]
        Sub(i) == Tree(v, Kid(i).value + 1)
    IN  CASE node.k = "null" -> RawText("NULL")
          [] node.k = "scalar" -> Text(node.s)
          [] node.k = "array" -> RawText([i \in 1 .. node.count |-> Sub(i).s])
          [] node.k = "object" ->
               RawText([i \in 1 .. node.count |->
                  <<v.keys[Kid(i).key + 1],
                    IF v.nodes[Kid(i).value + 1].k = "scalar" /\ Sub(i).s \in {"a,b", ""}
                    THEN <<"quoted", Sub(i).s>> ELSE Sub(i).s>>])
Shown(v) ==
    CASE v.is \in {"null", "flat"} -> v
      [] v.is = "list" -> List([i \in DOMAIN v.items |-> Shown(v.items[i])])
      [] v.is = "struct" -> Struct([i \in DOMAIN v.fields |-> Shown(v.fields[i])])
      [] v.is = "map" -> MapValue([i \in DOMAIN v.keys |-> Shown(v.keys[i])],
                                  [i \in DOMAIN v.values |-> Shown(v.values[i])])
      [] v.is = "member" -> Shown(v.v)
      [] v.is = "variant" -> Tree(v, 1)
=============================================================================
