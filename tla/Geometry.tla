------------------------------ MODULE Geometry ------------------------------
(***************************************************************************)
(* A GEOMETRY cell's binary form as text (wkbReader and wktRecursive in     *)
(* converge/duckdb/exotic.go).  A blob is a sequence of [is, v]: a byte     *)
(* order, a type word [t, z, m], a count or a coordinate.  A reader is      *)
(* [toks, pos, bad, val]; a cut blob makes it bad and the text is dropped.  *)
(***************************************************************************)
EXTENDS Integers, Sequences, SequencesExt, FiniteSetsExt

CONSTANT MaxDepth   \* how deep collections may nest: 16

NaN == "nan"
NoText == <<>>
Names == [t \in 1 .. 7 |-> <<"POINT", "LINESTRING", "POLYGON", "MULTIPOINT", "MULTILINESTRING",
                             "MULTIPOLYGON", "GEOMETRYCOLLECTION">>[t]]
Empty == <<"EMPTY">>
Paren(parts) ==
    <<"(">> \o FlattenSeq([i \in DOMAIN parts |-> IF i = 1 THEN parts[i] ELSE <<",">> \o parts[i]]) \o <<")">>

(* u8, u32 and f64: 0 and bad at the end of the blob.                      *)
Take(r, is, none) ==
    IF r.pos <= Len(r.toks) /\ r.toks[r.pos].is = is
    THEN [r EXCEPT !.pos = @ + 1, !.val = r.toks[r.pos].v] ELSE [r EXCEPT !.bad = TRUE, !.val = none]
Count(r) == Take(r, "count", 0)
Meta == [t |-> 0, z |-> FALSE, m |-> FALSE]
wkbHeader(r) ==
    LET order == Take(r, "order", 0)
    IN  IF order.val # 1 THEN [order EXCEPT !.bad = TRUE, !.val = Meta] ELSE Take(order, "meta", Meta)

(* Mutant of dims: the measure is not read.                                *)
dimsFlat(h) == 2 + (IF h.z THEN 1 ELSE 0)

dims(h) == 2 + (IF h.z THEN 1 ELSE 0) + (IF h.m THEN 1 ELSE 0)

RECURSIVE Coords(_, _, _)
Coords(r, n, got) ==
    IF n = 0 THEN [r EXCEPT !.val = got]
    ELSE LET f == Take(r, "coord", "0") IN Coords(f, n - 1, Append(got, f.val))

(* readPoint: a point of NaNs is empty.                                    *)
readPoint(r, h) ==
    LET p == Coords(r, dims(h), <<>>)
    IN  [p EXCEPT !.val = IF \A i \in DOMAIN p.val : p.val[i] = NaN THEN NoText ELSE p.val]

(* n parts read one after the other, each giving its text; a part that is  *)
(* refused ends the list.                                                  *)
RECURSIVE Parts(_, _, _, _)
Parts(r, n, Read(_), got) ==
    IF n = 0 \/ r.stop THEN [r EXCEPT !.val = got]
    ELSE LET p == Read(r) IN Parts(p, n - 1, Read, Append(got, p.val))

(* A counted list: EMPTY, or the parts in parentheses.                     *)
Counted(r, Read(_)) ==
    LET n    == Count(r)
        list == Parts(n, n.val, Read, <<>>)
    IN  IF n.val = 0 THEN [n EXCEPT !.val = Empty] ELSE [list EXCEPT !.val = Paren(list.val)]

wktVerts(r, h) == Counted(r, LAMBDA e : Coords(e, dims(h), <<>>))
polyBody(r, h) == Counted(r, LAMBDA e : wktVerts(e, h))

(* A member of a MULTI geometry has a header of its own, of the single     *)
(* type and with the same dimensions; anything else is refused.            *)
Member(r, h, Body(_)) ==
    LET own == wkbHeader(r)
    IN  IF own.bad \/ own.val # [h EXCEPT !.t = @ - 3] THEN [own EXCEPT !.stop = TRUE, !.val = NoText]
        ELSE Body(own)

PointText(r, h) == LET p == readPoint(r, h) IN [p EXCEPT !.val = IF @ = NoText THEN Empty ELSE @]
Flags(h) == <<IF h.z /\ h.m THEN "ZM" ELSE IF h.z THEN "Z" ELSE IF h.m THEN "M" ELSE "">>

RECURSIVE wktRecursive(_, _)
wktRecursive(r, depth) ==
    LET h    == wkbHeader(r)
        g    == h.val
        one  == readPoint(h, g)
        body == CASE g.t = 1 -> [one EXCEPT !.val = IF @ = NoText THEN Empty ELSE Paren(<<@>>)]
                  [] g.t = 2 -> wktVerts(h, g)
                  [] g.t = 3 -> polyBody(h, g)
                  [] g.t = 4 -> Counted(h, LAMBDA e : Member(e, g, LAMBDA o : PointText(o, g)))
                  [] g.t = 5 -> Counted(h, LAMBDA e : Member(e, g, LAMBDA o : wktVerts(o, g)))
                  [] g.t = 6 -> Counted(h, LAMBDA e : Member(e, g, LAMBDA o : polyBody(o, g)))
                  [] g.t = 7 -> Counted(h, LAMBDA e : wktRecursive(e, depth + 1))
                  [] OTHER -> [h EXCEPT !.stop = TRUE]
    IN  IF depth > MaxDepth \/ r.bad \/ h.bad \/ g.t \notin DOMAIN Names
        THEN [h EXCEPT !.stop = TRUE, !.val = NoText]
        ELSE [body EXCEPT !.stop = @ \/ body.bad, !.val = <<Names[g.t]>> \o Flags(g) \o body.val]

geometryString(toks) ==
    LET r == wktRecursive([toks |-> toks, pos |-> 1, bad |-> FALSE, stop |-> FALSE, val |-> NoText], 0)
    IN  IF r.stop THEN NoText ELSE r.val

-----------------------------------------------------------------------------
(* A geometry is [t, z, m, of]: a point's coordinates, a line's points, a   *)
(* polygon's rings, or the members.  Its binary form, as geometry.cpp's    *)
(* writer leaves it, and the text a reader of the standard expects.        *)

Tok(is, v) == [is |-> is, v |-> v]
Flat(parts) == FlattenSeq(parts)
Width(g) == IF g.z /\ g.m THEN 4 ELSE IF g.z \/ g.m THEN 3 ELSE 2
Point(g, p) == [i \in 1 .. Width(g) |-> Tok("coord", IF p = <<>> THEN NaN ELSE p[i])]
Line(g, ps) == <<Tok("count", Len(ps))>> \o Flat([i \in DOMAIN ps |-> Point(g, ps[i])])
Poly(g, rs) == <<Tok("count", Len(rs))>> \o Flat([i \in DOMAIN rs |-> Line(g, rs[i])])

RECURSIVE Wkb(_), Wkt(_), DepthOf(_)
Sub(g, x) == [t |-> g.t - 3, z |-> g.z, m |-> g.m, of |-> x]
Wkb(g) ==
    <<Tok("order", 1), Tok("meta", [t |-> g.t, z |-> g.z, m |-> g.m])>> \o
    CASE g.t = 1 -> Point(g, g.of)
      [] g.t = 2 -> Line(g, g.of)
      [] g.t = 3 -> Poly(g, g.of)
      [] g.t \in 4 .. 6 -> <<Tok("count", Len(g.of))>> \o Flat([i \in DOMAIN g.of |-> Wkb(Sub(g, g.of[i]))])
      [] g.t = 7 -> <<Tok("count", Len(g.of))>> \o Flat([i \in DOMAIN g.of |-> Wkb(g.of[i])])

List(xs, T(_)) == IF xs = <<>> THEN Empty ELSE Paren([i \in DOMAIN xs |-> T(xs[i])])
LineText(ps) == List(ps, LAMBDA p : p)
Wkt(g) ==
    <<Names[g.t], IF g.z THEN (IF g.m THEN "ZM" ELSE "Z") ELSE (IF g.m THEN "M" ELSE "")>> \o
    CASE g.t = 1 -> IF g.of = <<>> THEN Empty ELSE Paren(<<g.of>>)
      [] g.t \in {2, 4} -> List(g.of, LAMBDA p : IF p = <<>> THEN Empty ELSE p)
      [] g.t \in {3, 5} -> List(g.of, LineText)
      [] g.t = 6 -> List(g.of, LAMBDA poly : List(poly, LineText))
      [] g.t = 7 -> List(g.of, Wkt)
DepthOf(g) == IF g.t # 7 \/ g.of = <<>> THEN 0
              ELSE 1 + Max({DepthOf(g.of[i]) : i \in DOMAIN g.of})
=============================================================================
