------------------------------ MODULE SqlCheck ------------------------------
(***************************************************************************)
(* What the sqllogictest runner says of a query's result                   *)
(* (cmd/sqllogic/main.go, execQuery and compareValue).  A word of the       *)
(* result or of the expected block is a string; what Go's parsers read in   *)
(* it is in the tables below.  Numbers are hundredfold where a word is a    *)
(* fraction of one; Inf and NaN stand for themselves.                       *)
(***************************************************************************)
EXTENDS Integers, Sequences, SequencesExt, FiniteSets, TLC

Text == INSTANCE SqlText

-----------------------------------------------------------------------------
(* Words, in their order as strings, and what they are read as.            *)

Lexicon == <<" 1", "\"a\"", "(empty)", "0", "1", "1.0", "1/2", "100.0", "101.0", "102.0", "1e300", "1e301",
             "50e-2", "<!REGEX>:a|b", "<REGEX>:a|b", "NULL", "a", "b", "false", "inf", "nan", "null", "true", "{}", "{ }">>
Rank(w) == CHOOSE i \in DOMAIN Lexicon : Lexicon[i] = w
Inf == 100000000
NaN == 200000000
IntOf == "0" :> 0 @@ "1" :> 100                                             \* strconv.ParseInt
RatOf == IntOf @@ "1.0" :> 100 @@ "1/2" :> 50 @@ "50e-2" :> 50 @@ "100.0" :> 10000 @@ "101.0" :> 10100 @@ "102.0" :> 10200
         @@ "1e300" :> 300000 @@ "1e301" :> 3000000                         \* big.Rat.SetString
RealOf == [w \in DOMAIN RatOf \ {"1/2"} |-> RatOf[w]] @@ "inf" :> Inf @@ "nan" :> NaN   \* strconv.ParseFloat
JsonOf == "{}" :> "object" @@ "{ }" :> "object" @@ "\"a\"" :> "string a"   \* json.Unmarshal
Marshalled == "a" :> "string a"                                             \* json.Marshal, then Unmarshal
Regex == "<REGEX>:a|b" :> TRUE @@ "<!REGEX>:a|b" :> FALSE
RegexMatches == {"a", "b"}
Trim(w) == IF w = " 1" THEN "1" ELSE w
WordOf(table, n) == CHOOSE w \in DOMAIN table : table[w] = n

-----------------------------------------------------------------------------
(* One value: [go |-> its Go type, and n or s].                             *)

formatFloat(n) == IF n = 100 THEN "1.0" ELSE IF n = 50 THEN "50e-2" ELSE WordOf(RealOf, n)

valueToString(v) ==
    CASE v.go = "nil" -> "NULL"
      [] v.go = "bool" -> IF v.n = 100 THEN "1" ELSE "0"
      [] v.go = "int64" -> WordOf(IntOf, v.n)
      [] v.go = "float64" -> formatFloat(v.n)
      [] v.go \in {"string", "json"} -> IF v.s = "" THEN "(empty)" ELSE v.s

approxEqual(l, r) ==
    IF l >= Inf \/ r >= Inf THEN l = r ELSE LET d == IF l > r THEN l - r ELSE r - l IN d * 100 <= r

(* float64(float32(x)): the doubles beyond FLOAT's range are infinite.     *)
Float32Max == 200000
float32(n) == IF n > Float32Max /\ n # NaN THEN Inf ELSE n

jsonEquivalent(v, token) ==
    token \in DOMAIN JsonOf
    /\ IF v.go = "json" THEN v.s \in DOMAIN JsonOf /\ JsonOf[v.s] = JsonOf[token]
       ELSE v.s \in DOMAIN Marshalled /\ Marshalled[v.s] = JsonOf[token]

EqualText(v, word, token) ==
    IF word \in DOMAIN RatOf /\ token \in DOMAIN RatOf THEN RatOf[word] = RatOf[token] ELSE jsonEquivalent(v, token)

(* Mutant of EqualTyped: a float is compared exactly.                      *)
EqualTypedExactly(v, word, token) ==
    CASE v.go = "nil" -> token \in {"NULL", "null"}
      [] v.go = "bool" -> token \in (IF v.n = 100 THEN {"true", "1"} ELSE {"false", "0"})
      [] v.go = "int64" -> IF token \in DOMAIN RealOf THEN RealOf[token] = v.n ELSE token = (IF v.n = 100 THEN "true" ELSE "false")
      [] v.go = "float64" -> token \in DOMAIN RealOf /\ v.n = RealOf[token]
      [] OTHER -> EqualText(v, word, token)

EqualTyped(v, word, token) ==
    CASE v.go = "nil" -> token \in {"NULL", "null"}
      [] v.go = "bool" -> token \in (IF v.n = 100 THEN {"true", "1"} ELSE {"false", "0"})
      [] v.go = "int64" -> IF token \in DOMAIN RealOf THEN RealOf[token] = v.n
                           ELSE token = (IF v.n = 100 THEN "true" ELSE IF v.n = 0 THEN "false" ELSE "")
      [] v.go = "float64" -> /\ token \in DOMAIN RealOf
                             /\ \/ approxEqual(v.n, RealOf[token])
                                \/ approxEqual(float32(v.n), float32(RealOf[token]))
      [] OTHER -> EqualText(v, word, token)

compareValue(v, word, token) ==
    \/ word = token
    \/ token \in DOMAIN Regex /\ (word \in RegexMatches) = Regex[token]
    \/ token \notin DOMAIN Regex /\ EqualTyped(v, word, Trim(token))

-----------------------------------------------------------------------------
(* One result: rows of values; the record's style and declared width.      *)

(* The words and values of the result in the order the record asks for.    *)
Arranged(style, rows, ncols) ==
    LET vals == FlattenSeq(rows)
        ranks == [i \in DOMAIN vals |-> Rank(valueToString(vals[i]))]
    IN  Text!applySortVals(style, ranks, vals, ncols)

(* Mutant of RowsDiffer: only a shorter block is refused.                  *)
RowsDifferShort(expected, ncols, nrows) == ncols > 0 /\ Len(expected) \div ncols < nrows

RowsDiffer(expected, ncols, nrows) == (IF ncols > 0 THEN Len(expected) \div ncols ELSE 0) # nrows

execQuery(rec, rows, ncols) ==
    LET expected == Text!normalizeExpected(rec.lines, ncols, Len(rows))
        actual == Arranged(rec.style, rows, ncols)
    IN  IF expected = Text!Refused \/ RowsDiffer(expected, ncols, Len(rows)) THEN "wrong row count"
        ELSE IF \E i \in DOMAIN expected \cap DOMAIN actual.vals : ~compareValue(actual.vals[i], Lexicon[actual.strs[i]], expected[i][1]) THEN "wrong result"
        ELSE IF rec.width # ncols THEN "wrong column count"
        ELSE "pass"

(* A block "<count> values hashing to <digest>", or a label seen before:   *)
(* digests are of all the words in order.                                   *)
Digest(style, rows, ncols) ==
    LET vals == FlattenSeq(rows)
    IN  Text!applySort(style, [i \in DOMAIN vals |-> Rank(valueToString(vals[i]))], ncols)
HashQuery(style, rows, ncols, want) == IF Digest(style, rows, ncols) = want THEN "pass" ELSE "hash mismatch"

-----------------------------------------------------------------------------
(* report: the outcomes counted, the failures by reason, the largest        *)
(* buckets first; a reason is a number, as reasons sort.                    *)

TopBuckets == 2   \* bound: for 20

(* Mutant of Shown: the buckets are listed by their reason.                *)
ShownByReason(buckets) == SetToSortSeq(buckets, LAMBDA a, b : a.reason < b.reason)

Shown(buckets) == SetToSortSeq(buckets, LAMBDA a, b : a.count > b.count \/ (a.count = b.count /\ a.reason < b.reason))

report(results) ==
    LET Count(o) == Len(SelectSeq(results, LAMBDA r : r.outcome = o))
        fails == SelectSeq(results, LAMBDA r : r.outcome = "FAIL")
        buckets == {[reason |-> fails[i].reason, count |-> Len(SelectSeq(fails, LAMBDA r : r.reason = fails[i].reason))] : i \in DOMAIN fails}
        shown == Shown(buckets)
    IN  [pass |-> Count("PASS"), fail |-> Count("FAIL"), skip |-> Count("SKIP"),
         buckets |-> SubSeq(shown, 1, IF Len(shown) > TopBuckets THEN TopBuckets ELSE Len(shown)),
         more |-> IF Len(shown) > TopBuckets THEN Len(shown) - TopBuckets ELSE 0]

-----------------------------------------------------------------------------
(* The result the record asks for: some arrangement of the rows, or of the *)
(* values, in the order of their words.                                    *)
Orders(n) == {p \in [1 .. n -> 1 .. n] : \A i, j \in 1 .. n : i # j => p[i] # p[j]}
Ascending(seq, Below(_, _)) == \A i \in 1 .. Len(seq) - 1 : ~Below(seq[i + 1], seq[i])
Answers(style, rows) ==
    LET flat == FlattenSeq(rows)
        R(v) == Rank(valueToString(v))
        Before(a, b) == \E k \in DOMAIN a : R(a[k]) < R(b[k]) /\ \A h \in 1 .. k - 1 : R(a[h]) = R(b[h])
    IN  CASE style = "rowsort" ->
               {FlattenSeq(ps) : ps \in {qs \in {[i \in DOMAIN rows |-> rows[p[i]]] : p \in Orders(Len(rows))} : Ascending(qs, Before)}}
          [] style = "valuesort" ->
               {vs \in {[i \in DOMAIN flat |-> flat[p[i]]] : p \in Orders(Len(flat))} : Ascending(vs, LAMBDA a, b : R(a) < R(b))}
          [] OTHER -> {flat}

(* A query passes exactly when its block lays out as many rows of as many  *)
(* columns, cell for cell values the runner takes for those of the result. *)
QueryDue(rec, rows, ncols) ==
    LET tokens == FlattenSeq([i \in DOMAIN rec.lines |-> SelectSeq(rec.lines[i], LAMBDA t : t # "\t")])
        Wide(n) == \A i \in DOMAIN rec.lines : Len(SelectSeq(rec.lines[i], LAMBDA t : t # "\t")) = n
    IN  /\ Len(tokens) = Len(rows) * ncols /\ (Wide(1) \/ Wide(ncols)) /\ rec.width = ncols
        /\ \E vs \in Answers(rec.style, rows) : \A i \in DOMAIN vs : compareValue(vs[i], valueToString(vs[i]), tokens[i])
=============================================================================
