------------------------------ MODULE SqlText ------------------------------
(***************************************************************************)
(* The texts of the sqllogictest runner (cmd/sqllogic/main.go): batches     *)
(* split into statements, expected blocks read, results sorted, containers *)
(* spelled.  A text is a sequence of characters; a line may hold any.      *)
(***************************************************************************)
EXTENDS Integers, Sequences, SequencesExt, FiniteSets, FiniteSetsExt, Functions

Blank == {" ", "\t", "\n"}
TrimLeft(s) ==
    LET at == {i \in DOMAIN s : s[i] \notin Blank} IN IF at = {} THEN <<>> ELSE SubSeq(s, Min(at), Len(s))
TrimRight(s) ==
    LET at == {i \in DOMAIN s : s[i] \notin Blank} IN IF at = {} THEN <<>> ELSE SubSeq(s, 1, Max(at))
TrimSpace(s) == TrimLeft(TrimRight(s))
(* The first place from i on where P holds, else just past the end.        *)
First(s, i, P(_)) == LET at == {j \in i .. Len(s) : P(j)} IN IF at = {} THEN Len(s) + 1 ELSE Min(at)
Past(n, i) == IF i > n THEN n + 1 ELSE i

-----------------------------------------------------------------------------
(* splitStatements                                                         *)

RECURSIVE stripLeadingComments(_)
stripLeadingComments(s) ==
    LET t  == TrimLeft(s)
        nl == First(t, 1, LAMBDA j : t[j] = "\n")
    IN  IF Len(t) >= 2 /\ t[1] = "-" /\ t[2] = "-"
        THEN IF nl > Len(t) THEN <<>> ELSE stripLeadingComments(SubSeq(t, nl + 1, Len(t)))
        ELSE t

Twice(s, i, c) == i < Len(s) /\ s[i] = c /\ s[i + 1] = c
Opens(s, i) == s[i] \in {"'", "\""} \/ Twice(s, i, "$")

(* Mutant of After: line comments are not skipped.                         *)
AfterNoComments(s, i) ==
    IF s[i] \in {"'", "\""} THEN Past(Len(s), First(s, i + 1, LAMBDA j : s[j] = s[i]) + 1)
    ELSE IF Twice(s, i, "$") THEN Past(Len(s), First(s, i + 2, LAMBDA j : Twice(s, j, "$")) + 2)
    ELSE i + 1

(* Where the scan goes on from i: past a quoted run (a doubled quote ends  *)
(* one and starts the next), past a dollar-quoted block, to the end of a   *)
(* line comment, or on by one.                                             *)
After(s, i) ==
    IF s[i] \in {"'", "\""} THEN Past(Len(s), First(s, i + 1, LAMBDA j : s[j] = s[i]) + 1)
    ELSE IF Twice(s, i, "$") THEN Past(Len(s), First(s, i + 2, LAMBDA j : Twice(s, j, "$")) + 2)
    ELSE IF Twice(s, i, "-") THEN First(s, i, LAMBDA j : s[j] = "\n")
    ELSE i + 1

(* The pieces [start, end, meaningful] of the text; end is the place of    *)
(* the semicolon.                                                          *)
RECURSIVE Pieces(_, _, _, _, _)
Pieces(s, i, start, meaningful, pieces) ==
    LET Piece == Append(pieces, [start |-> start, end |-> i, meaningful |-> meaningful])
        plain == s[i] \notin Blank /\ ~Twice(s, i, "-")
    IN  IF i > Len(s) THEN Piece
        ELSE IF s[i] = ";" THEN Pieces(s, i + 1, i + 1, FALSE, Piece)
        ELSE Pieces(s, After(s, i), start, meaningful \/ Opens(s, i) \/ plain, pieces)

splitStatements(s) ==
    LET pieces == Pieces(s, 1, 1, FALSE, <<>>)
        kept   == {n \in DOMAIN pieces : pieces[n].meaningful}
        last   == Max(kept)
        Inner  == [n \in 1 .. last - 1 |->
                     IF pieces[n].meaningful
                     THEN TrimSpace(stripLeadingComments(SubSeq(s, pieces[n].start, pieces[n].end - 1))) ELSE <<>>]
        Verbatim == stripLeadingComments(SubSeq(s, pieces[last].start, Len(s)))
    IN  IF kept = {} THEN <<>>
        ELSE SelectSeq(Inner, LAMBDA t : t # <<>>) \o (IF TrimSpace(Verbatim) = <<>> THEN <<>> ELSE <<Verbatim>>)

(* The statements of a batch that is known by its lexemes: the semicolons  *)
(* among them end statements, blanks and comments alone make none, and the *)
(* last statement keeps all that follows.                                  *)
Silent == {<<" ">>, <<"-", "-", "'", ";", "\n">>}
Statements(lexemes) ==
    LET ends   == {i \in DOMAIN lexemes : lexemes[i] = <<";">>} \cup {Len(lexemes) + 1}
        at     == SetToSortSeq(ends, <)
        Start(n) == IF n = 1 THEN 1 ELSE at[n - 1] + 1
        Said(n) == {i \in Start(n) .. at[n] - 1 : lexemes[i] \notin Silent}
        kept   == SetToSortSeq({n \in DOMAIN at : Said(n) # {}}, <)
        Text(k, to) == FlattenSeq(SubSeq(lexemes, Min(Said(kept[k])), to))
    IN  [k \in DOMAIN kept |-> IF k = Len(kept) THEN Text(k, Len(lexemes)) ELSE TrimRight(Text(k, at[kept[k]] - 1))]

-----------------------------------------------------------------------------
(* normalizeExpected: one value per entry, from lines of rows or of values.*)

Split(line) ==
    LET cuts == SetToSortSeq({0, Len(line) + 1} \cup {i \in DOMAIN line : line[i] = "\t"}, <)
    IN  [n \in 1 .. Len(cuts) - 1 |-> SubSeq(line, cuts[n] + 1, cuts[n + 1] - 1)]

(* Mutant of dropEmpty: empty fields stay.                                 *)
dropNone(parts) == parts

dropEmpty(parts) == SelectSeq(parts, LAMBDA p : p # <<>>)

Refused == <<"refused">>
normalizeExpected(lines, ncols, nrows) ==
    LET rowWise == (ncols > 1 /\ Len(lines) = nrows) \/ \A i \in DOMAIN lines : "\t" \in Range(lines[i])
        parts == [i \in DOMAIN lines |-> IF Len(Split(lines[i])) = ncols THEN Split(lines[i]) ELSE dropEmpty(Split(lines[i]))]
    IN  IF lines = <<>> THEN <<>>
        ELSE IF rowWise THEN (IF \A i \in DOMAIN parts : Len(parts[i]) = ncols THEN FlattenSeq(parts) ELSE Refused)
        ELSE IF ncols > 0 /\ Len(lines) % ncols # 0 THEN Refused ELSE lines

(* A result of rows of words, written with a tab or two between cells or   *)
(* one cell a line.                                                        *)
Written(rows, layout) ==
    IF layout = "values" THEN FlattenSeq(rows)
    ELSE [i \in DOMAIN rows |-> FlattenSeq([j \in DOMAIN rows[i] |->
            IF j = 1 THEN rows[i][j] ELSE (IF layout = "aligned" /\ i = 1 THEN <<"\t", "\t">> ELSE <<"\t">>) \o rows[i][j]])]

-----------------------------------------------------------------------------
(* applySort, applySortVals: words are numbers, the values travel with     *)
(* their words.                                                            *)

rowLess(a, b) == \E i \in DOMAIN a : a[i] < b[i] /\ \A j \in 1 .. i - 1 : a[j] = b[j]
RowsOf(vals, n) == [i \in 1 .. Len(vals) \div n |-> SubSeq(vals, (i - 1) * n + 1, i * n)]
applySort(style, vals, ncols) ==
    CASE style = "valuesort" -> SortSeq(vals, <)
      [] style = "rowsort" /\ ncols > 0 -> FlattenSeq(SortSeq(RowsOf(vals, ncols), rowLess))
      [] OTHER -> vals

(* Mutant of reorder: the typed values keep their places.                  *)
reorderStrs(strs, vals, idx) == [strs |-> [i \in DOMAIN strs |-> strs[idx[i]]], vals |-> vals]

reorder(strs, vals, idx) == [strs |-> [i \in DOMAIN strs |-> strs[idx[i]]], vals |-> [i \in DOMAIN vals |-> vals[idx[i]]]]

applySortVals(style, strs, vals, ncols) ==
    LET Stable(n, Less(_, _)) == SortSeq([i \in 1 .. n |-> i], LAMBDA a, b : Less(a, b) \/ (~Less(b, a) /\ a < b))
        rows   == RowsOf(strs, ncols)
        rowIdx == Stable(Len(rows), LAMBDA a, b : rowLess(rows[a], rows[b]))
    IN  CASE style = "valuesort" -> reorder(strs, vals, Stable(Len(strs), LAMBDA a, b : strs[a] < strs[b]))
          [] style = "rowsort" ->
               reorder(strs, vals, FlattenSeq([i \in DOMAIN rowIdx |-> [c \in 1 .. ncols |-> (rowIdx[i] - 1) * ncols + c]]))
          [] OTHER -> [strs |-> strs, vals |-> vals]

-----------------------------------------------------------------------------
(* containerToString: lists, structs and maps as the engine's VARCHAR cast *)
(* spells them.                                                            *)

Comma(parts) == FlattenSeq([i \in DOMAIN parts |-> IF i = 1 THEN parts[i] ELSE <<",", " ">> \o parts[i]])

escapeNestedQuoted(s) ==
    <<"'">> \o FlattenSeq([i \in DOMAIN s |-> IF s[i] \in {"'", "\\"} THEN <<"\\", s[i]>> ELSE <<s[i]>>]) \o <<"'">>

(* Mutant of nestedNeedsQuotes: the word NULL is left as it is.            *)
nestedNeedsQuotesButNull(s) ==
    \/ s = <<>> \/ s[1] \in Blank \/ (Len(s) >= 2 /\ Last(s) \in Blank)
    \/ \E i \in DOMAIN s : s[i] \in {"\"", "'", "(", ")", ",", ":", "=", "[", "]", "{", "}"}

nestedNeedsQuotes(s) ==
    \/ s = <<>> \/ s[1] \in Blank \/ (Len(s) >= 2 /\ Last(s) \in Blank) \/ s = <<"NULL">>
    \/ \E i \in DOMAIN s : s[i] \in {"\"", "'", "(", ")", ",", ":", "=", "[", "]", "{", "}"}

quoteNested(s) == IF nestedNeedsQuotes(s) THEN escapeNestedQuoted(s) ELSE s

RECURSIVE containerToString(_)
nestedToString(v) ==
    CASE v.is = "null" -> <<"NULL">>
      [] v.is = "string" -> quoteNested(v.s)
      [] OTHER -> containerToString(v)
containerToString(v) ==
    LET unnamed == v.names # <<>> /\ \A i \in DOMAIN v.names : v.names[i] = <<>>
        Cell(i) == nestedToString(v.vals[i])
    IN  CASE v.is = "list" -> <<"[">> \o Comma([i \in DOMAIN v.vals |-> Cell(i)]) \o <<"]">>
          [] v.is = "struct" /\ unnamed -> <<"(">> \o Comma([i \in DOMAIN v.vals |-> Cell(i)]) \o <<")">>
          [] v.is = "struct" /\ ~unnamed ->
               <<"{">> \o Comma([i \in DOMAIN v.vals |-> escapeNestedQuoted(v.names[i]) \o <<":", " ">> \o Cell(i)]) \o <<"}">>
          [] v.is = "map" ->
               <<"{">> \o Comma([i \in DOMAIN v.vals |-> nestedToString(v.keys[i]) \o <<"=">> \o Cell(i)]) \o <<"}">>
=============================================================================
