------------------------------ MODULE SqlInputs ------------------------------
(***************************************************************************)
(* What the sqllogictest runner makes of the words of a file before it      *)
(* executes anything (cmd/sqllogic/main.go): placeholders, the conditions   *)
(* of skipif and onlyif, the collections of a foreach, requirements, sleeps.*)
(* A text is a sequence of lexemes.                                        *)
(***************************************************************************)
EXTENDS Integers, Sequences, SequencesExt, FiniteSets, TLC

(* strings.ReplaceAll                                                      *)
RECURSIVE Subst(_, _, _)
Subst(s, key, val) ==
    IF Len(s) < Len(key) THEN s
    ELSE IF IsPrefix(key, s) THEN val \o Subst(SubSeq(s, Len(key) + 1, Len(s)), key, val)
    ELSE <<Head(s)>> \o Subst(Tail(s), key, val)
Braced(name) == <<"{", name, "}">>
(* Both spellings of one placeholder.                                      *)
Replace(s, name, val) == Subst(Subst(s, <<"$">> \o Braced(name), val), Braced(name), val)

Env == <<<<"TEST_DIR", <<"T">>>>, <<"WORKING_DIR", <<"W">>>>>>   \* bound: two of the nine keywords
Combined == Braced("WORKING_DIR") \o <<"/", "__TEST_DIR__">>
ReplaceEnv(s) == FoldLeft(LAMBDA t, kv : Replace(t, kv[1], kv[2]), s, Env)
ReplaceCombined(s) == Subst(Subst(s, <<"$">> \o Combined, <<"T">>), Combined, <<"T">>)

(* Mutant of substitute: the keywords go before the combined path.         *)
substituteEnvFirst(s, subs) ==
    LET vars == FoldLeft(LAMBDA t, b : Replace(t, b.name, <<b.val>>), s, subs)
    IN  Subst(ReplaceCombined(ReplaceEnv(vars)), <<"__TEST_DIR__">>, <<"T">>)

substitute(s, subs) ==
    LET vars == FoldLeft(LAMBDA t, b : Replace(t, b.name, <<b.val>>), s, subs)
    IN  Subst(ReplaceEnv(ReplaceCombined(vars)), <<"__TEST_DIR__">>, <<"T">>)

(* What a text of whole placeholders stands for, read once from the left:  *)
(* the outermost loop binds a name, a $ belongs to the brace after it, and  *)
(* the test directory is absolute even below the working directory.        *)
Bound(name, subs) == SelectSeq(subs \o <<[name |-> "TEST_DIR", val |-> "T"], [name |-> "WORKING_DIR", val |-> "W"]>>,
                               LAMBDA b : b.name = name)
RECURSIVE Meant(_, _)
Meant(words, subs) ==
    LET w == Head(words)
        BelowWorkingDir == Len(words) >= 3 /\ SubSeq(words, 1, 3) = <<Braced("WORKING_DIR"), <<"/">>, <<"__TEST_DIR__">>>>
    IN  IF words = <<>> THEN <<>>
        ELSE IF BelowWorkingDir THEN <<"T">> \o Meant(SubSeq(words, 4, Len(words)), subs)
        ELSE IF w = <<"$">> /\ Len(words) > 1 /\ Len(words[2]) = 3 /\ Bound(words[2][2], subs) # <<>> THEN Meant(Tail(words), subs)
        ELSE IF w = <<"__TEST_DIR__">> THEN <<"T">> \o Meant(Tail(words), subs)
        ELSE IF Len(w) = 3 /\ Bound(w[2], subs) # <<>> THEN <<Head(Bound(w[2], subs)).val>> \o Meant(Tail(words), subs)
        ELSE w \o Meant(Tail(words), subs)

-----------------------------------------------------------------------------
(* Conditions: terms joined by &&, an operator of one or two characters    *)
(* between two operands.                                                   *)

condOps == <<<<"<", ">">>, <<">", "=">>, <<"<", "=">>, <<"=">>, <<">">>, <<"<">>>>
NumberOf == "1" :> 1 @@ "2" :> 2 @@ "10" :> 10     \* strconv.ParseFloat

(* Mutant of opIn: the single characters are tried first.                  *)
opInSingle(term) ==
    LET found == SelectSeq(Reverse(condOps), LAMBDA op : op \in SubSeqs(term)) IN IF found = <<>> THEN <<>> ELSE Head(found)

(* The operator found in a term, <<>> when there is none.                  *)
opIn(term) ==
    LET found == SelectSeq(condOps, LAMBDA op : op \in SubSeqs(term)) IN IF found = <<>> THEN <<>> ELSE Head(found)

Left(term) == SubSeq(term, 1, (CHOOSE i \in DOMAIN term : /\ IsPrefix(opIn(term), SubSeq(term, i, Len(term)))
                                                           /\ \A j \in 1 .. i - 1 : ~IsPrefix(opIn(term), SubSeq(term, j, Len(term)))) - 1)
Right(term) == SubSeq(term, Len(Left(term)) + Len(opIn(term)) + 1, Len(term))

(* Each loop variable in turn, so a value may be replaced once more.       *)
bareLoopVar(operand, subs) == FoldLeft(LAMBDA o, b : IF o = <<b.name>> THEN <<b.val>> ELSE o, operand, subs)
substituteBareLoopVars(term, subs) ==
    IF opIn(term) = <<>> THEN term ELSE bareLoopVar(Left(term), subs) \o opIn(term) \o bareLoopVar(Right(term), subs)

Compare(op, l, r) ==
    CASE op = <<"=">> -> l = r
      [] op = <<"<", ">">> -> l # r
      [] op = <<">">> -> l > r
      [] op = <<"<">> -> l < r
      [] op = <<">", "=">> -> l >= r
      [] op = <<"<", "=">> -> l <= r
IsNumber(operand) == Len(operand) = 1 /\ operand[1] \in DOMAIN NumberOf
evalCondTerm(term) ==
    LET op == opIn(term) IN
    IF op = <<>> THEN term = <<"duckdb">>
    ELSE IF IsNumber(Left(term)) /\ IsNumber(Right(term)) THEN Compare(op, NumberOf[Left(term)[1]], NumberOf[Right(term)[1]])
    ELSE op \in {<<"=">>, <<"<", ">">>} /\ Compare(op, Left(term), Right(term))
evalCond(terms, subs) == \A i \in DOMAIN terms : evalCondTerm(substituteBareLoopVars(terms[i], subs))

(* A term of two words compares their values.                              *)
TermDue(l, op, r, subs) ==
    LET Val(w) == bareLoopVar(<<w>>, subs)
    IN  IF IsNumber(Val(l)) /\ IsNumber(Val(r)) THEN Compare(op, NumberOf[Val(l)[1]], NumberOf[Val(r)[1]])
        ELSE (op = <<"=">> /\ Val(l) = Val(r)) \/ (op = <<"<", ">">> /\ Val(l) # Val(r))

-----------------------------------------------------------------------------
(* The collections of a foreach; bound: two types of each sign.            *)

Signed == <<"tinyint", "integer">>
Unsigned == <<"utinyint", "uinteger">>
Integral == Signed \o Unsigned
Collections == "<signed>" :> Signed @@ "<unsigned>" :> Unsigned @@ "<integral>" :> Integral
               @@ "<numeric>" :> Integral \o <<"float">> @@ "<alltypes>" :> Integral \o <<"float", "bool">>
Removed == "!tinyint" :> "tinyint" @@ "!bool" :> "bool" @@ "!word" :> "word"
Unsupported == {"<compression>", "<all_types_columns>"}
Members(t) == IF t \in DOMAIN Collections THEN Collections[t] ELSE <<t>>

(* Mutant of expandToken: a removal takes out the first occurrence only.   *)
expandTokenOnce(out, t) ==
    IF t \in DOMAIN Removed
    THEN IF Contains(out, Removed[t]) THEN RemoveAt(out, CHOOSE i \in DOMAIN out : out[i] = Removed[t]
                                                        /\ \A j \in 1 .. i - 1 : out[j] # Removed[t]) ELSE out
    ELSE out \o Members(t)

expandToken(out, t) ==
    IF t \in DOMAIN Removed THEN SelectSeq(out, LAMBDA v : v # Removed[t]) ELSE out \o Members(t)

expandForeachTokens(params) ==
    IF ToSet(params) \cap Unsupported # {} THEN <<"skip">> ELSE FoldLeft(LAMBDA out, t : expandToken(out, t), <<>>, params)

(* The members of each token that no later token removes.                  *)
ForeachDue(params) ==
    LET Gone(k) == {Removed[params[j]] : j \in {i \in k + 1 .. Len(params) : params[i] \in DOMAIN Removed}}
        Kept(k) == IF params[k] \in DOMAIN Removed THEN <<>> ELSE SelectSeq(Members(params[k]), LAMBDA v : v \notin Gone(k))
    IN  IF ToSet(params) \cap Unsupported # {} THEN <<"skip">> ELSE FlattenSeq([k \in DOMAIN params |-> Kept(k)])

-----------------------------------------------------------------------------
(* Requirements and sleeps.                                                *)

Present == {"notwindows", "json", "icu", "disk_space"}   \* requirePresent, builtinExtensions: a few of each
VectorSize == 2048
BlockSize == 262144
CapMB == 512
MBs == "mb" :> 1 @@ "gb" :> 1024 @@ "tb" :> 1048576

(* The size an argument names, 0 when it names none.                       *)
parseRam(arg) == IF arg.unit \in DOMAIN MBs THEN arg.n * MBs[arg.unit] ELSE 0

(* A requirement [param, n, unit] that is met; else the file is skipped.   *)
checkRequire(r) ==
    \/ r.param \in Present
    \/ r.param = "vector_size" /\ r.n # -1 /\ r.n <= VectorSize
    \/ r.param = "exact_vector_size" /\ r.n = VectorSize
    \/ r.param = "block_size" /\ r.n = BlockSize
    \/ r.param = "ram" /\ parseRam(r) <= CapMB

(* parseSleep, in ticks of which a second has 10: the product wraps around *)
(* at the width of a Duration (2^8), and two seconds are the most.         *)
TicksOf == "second" :> 10 @@ "millisecond" :> 5 @@ "microsecond" :> 2 @@ "nanosecond" :> 1
Second == 10
Wrapped(n) == ((n + 128) % 256) - 128
(* Mutant of Capped: nothing is.                                           *)
CappedNever(d) == d

Capped(d) == IF d > 2 * Second THEN 2 * Second ELSE d
parseSleep(n, unit) == Capped(Wrapped(n * (IF unit \in DOMAIN TicksOf THEN TicksOf[unit] ELSE Second)))
=============================================================================
