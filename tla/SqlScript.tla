------------------------------ MODULE SqlScript ------------------------------
(***************************************************************************)
(* The control flow of one sqllogictest file (converge/cmd/sqllogic/main.go *)
(* parseFile, execRecords).  The parser turns the lines into a tree of      *)
(* records with a stack of open loops; a condition waits for the next       *)
(* record, of whatever kind.  The interpreter walks the tree with the loop  *)
(* variables bound so far.  A record of the tree is kept here with the      *)
(* number of the loop record whose body it is in (0: the file).             *)
(*                                                                         *)
(* A line is [d |-> its directive, ...]: a loop has its variable and its    *)
(* values; a foreach has tokens that may not fit its variables; a condition *)
(* compares the loop variable i.                                            *)
(***************************************************************************)
EXTENDS Integers, Sequences, SequencesExt

CONSTANTS
    Lines,     \* the lines a file may have
    MaxLines   \* bound: lines in a file

VARIABLES
    lines,      \* the lines read
    recs,       \* the records, in the order they were appended
    open,       \* stack: the loops whose body is being read
    pending,    \* pendingConds
    verdict,    \* "parsing", "running", then the outcome
    frames,     \* the calls of execRecords under way, innermost last
    skipMode,
    hash,       \* labelHashes of the one label; 0 when it has none
    counts,     \* [run, passed, skipped]
    trace       \* history: what was executed, with the variables it saw

scriptvars == <<lines, recs, open, pending, verdict, frames, skipMode, hash, counts, trace>>
runvars == <<frames, skipMode, hash, counts, trace>>
treevars == <<lines, recs, open, pending>>

ScriptInit ==
    /\ lines = <<>> /\ recs = <<>> /\ open = <<>> /\ pending = <<>>
    /\ verdict = "parsing"
    /\ frames = <<>> /\ skipMode = FALSE /\ hash = 0
    /\ counts = [run |-> 0, passed |-> 0, skipped |-> 0]
    /\ trace = <<>>

Loops == {"loop", "foreach"}
Innermost == IF open = <<>> THEN 0 ELSE Last(open)

-----------------------------------------------------------------------------
(* parseFile: one directive.                                               *)

(* Mutant of appendRec: the conditions are not used up.                    *)
appendRecKeeps(line) ==
    /\ recs' = Append(recs, [line |-> Len(lines) + 1, in |-> Innermost, conds |-> pending])
    /\ pending' = pending

(* appendRec                                                               *)
appendRec(line) ==
    /\ recs' = Append(recs, [line |-> Len(lines) + 1, in |-> Innermost, conds |-> pending])
    /\ pending' = <<>>

SkipFile == verdict' = "SKIP" /\ UNCHANGED <<recs, open, pending>>

ParseLine(line) ==
    /\ verdict = "parsing" /\ Len(lines) < MaxLines
    /\ lines' = Append(lines, line)
    /\ CASE line.d = "cond" -> pending' = Append(pending, line) /\ UNCHANGED <<recs, open, verdict>>
         [] line.d = "endloop" -> IF open = <<>> THEN SkipFile
                                  ELSE open' = Front(open) /\ UNCHANGED <<recs, pending, verdict>>
         [] line.d \in Loops -> appendRec(line) /\ open' = Append(open, Len(recs) + 1) /\ UNCHANGED verdict
         [] OTHER -> appendRec(line) /\ UNCHANGED <<open, verdict>>
    /\ UNCHANGED runvars

Frame(loop, turn, subs) == [loop |-> loop, turn |-> turn, at |-> 1, subs |-> subs]

(* The file ends: an open loop skips it, else execRecords starts.          *)
ParseEnd ==
    /\ verdict = "parsing"
    /\ verdict' = IF open # <<>> THEN "SKIP" ELSE "running"
    /\ frames' = IF open # <<>> THEN <<>> ELSE <<Frame(0, 1, <<>>)>>
    /\ UNCHANGED <<lines, recs, open, pending, skipMode, hash, counts, trace>>

-----------------------------------------------------------------------------
(* execRecords.                                                            *)

Body(loop) == SelectSeq([i \in DOMAIN recs |-> i], LAMBDA i : recs[i].in = loop)
LineOf(rec) == lines[rec.line]
Top == Last(frames)
Current == recs[Body(Top.loop)[Top.at]]
Runs == verdict = "running"
AtRecord(d) == Runs /\ Top.at <= Len(Body(Top.loop)) /\ LineOf(Current).d = d

Advanced == [frames EXCEPT ![Len(frames)].at = @ + 1]

Bound(subs, var) == SelectSeq(subs, LAMBDA s : s.name = var)

(* evalCond of "i=<val>" after substituteBareLoopVars: the outermost loop  *)
(* with that variable binds it; unbound, the word i is no number.          *)
evalCond(cond, subs) ==
    Bound(subs, cond.var) # <<>> /\ Head(Bound(subs, cond.var)).val = cond.val

(* condsPass                                                               *)
condsPass(conds, subs) ==
    \A i \in DOMAIN conds : evalCond(conds[i], subs) # conds[i].skipIf

RecMode ==
    /\ AtRecord("mode")
    /\ skipMode' = LineOf(Current).skip
    /\ frames' = Advanced
    /\ UNCHANGED <<hash, counts, trace, verdict>> /\ UNCHANGED treevars

(* halt leaves every loop; the file passes.                                *)
RecHalt ==
    /\ AtRecord("halt")
    /\ verdict' = "PASS"
    /\ UNCHANGED runvars /\ UNCHANGED treevars

Executed(seen) == trace' = Append(trace, [line |-> Current.line, subs |-> Top.subs, saw |-> seen])

RecReset ==
    /\ AtRecord("reset")
    /\ hash' = 0 /\ Executed(0)
    /\ frames' = Advanced
    /\ UNCHANGED <<skipMode, counts, verdict>> /\ UNCHANGED treevars

(* The value of a loop's turn-th pass; NoFit where a token of a foreach    *)
(* has not as many parts as there are variables.                           *)
NoFit == -1
Sub(line, turn) == [name |-> line.var, val |-> line.vals[turn]]

(* A loop is entered, or its next pass begins: Pass(line, turn, ...).      *)
Pass(line, loop, turn, outer, subs) ==
    IF turn > Len(line.vals) THEN frames' = outer /\ UNCHANGED verdict
    ELSE IF line.vals[turn] = NoFit THEN verdict' = "FAIL" /\ UNCHANGED frames
    ELSE frames' = Append(outer, Frame(loop, turn, Append(subs, Sub(line, turn)))) /\ UNCHANGED verdict

EnterLoop ==
    /\ AtRecord("loop") \/ AtRecord("foreach")
    /\ Pass(LineOf(Current), Body(Top.loop)[Top.at], 1, Advanced, Top.subs)
    /\ UNCHANGED <<skipMode, hash, counts, trace>> /\ UNCHANGED treevars

(* The body is through: the next pass, or the record after the loop.       *)
BodyEnds ==
    /\ Runs /\ Top.at > Len(Body(Top.loop)) /\ Top.loop # 0
    /\ Pass(LineOf(recs[Top.loop]), Top.loop, Top.turn + 1, Front(frames), Front(Top.subs))
    /\ UNCHANGED <<skipMode, hash, counts, trace>> /\ UNCHANGED treevars

FileEnds ==
    /\ Runs /\ Top.at > Len(Body(Top.loop)) /\ Top.loop = 0
    /\ verdict' = "PASS"
    /\ UNCHANGED runvars /\ UNCHANGED treevars

Skipped == skipMode \/ ~condsPass(Current.conds, Top.subs)

SkipRecord ==
    /\ AtRecord("statement") \/ AtRecord("query")
    /\ Skipped
    /\ counts' = [counts EXCEPT !.skipped = @ + 1]
    /\ frames' = Advanced
    /\ UNCHANGED <<skipMode, hash, trace, verdict>> /\ UNCHANGED treevars

Counted(ok) ==
    /\ counts' = [counts EXCEPT !.run = @ + 1, !.passed = @ + (IF ok THEN 1 ELSE 0)]
    /\ IF ok THEN frames' = Advanced /\ UNCHANGED verdict
             ELSE verdict' = "FAIL" /\ UNCHANGED frames

RecStatement(ok) ==
    /\ AtRecord("statement") /\ ~Skipped
    /\ Executed(0) /\ Counted(ok)
    /\ UNCHANGED <<skipMode, hash>> /\ UNCHANGED treevars

(* A query with a label: its first result is kept, later ones must be the  *)
(* same.                                                                   *)
RecQuery(result) ==
    /\ AtRecord("query") /\ ~Skipped
    /\ Executed(result)
    /\ Counted(hash \in {0, result})
    /\ hash' = IF hash = 0 THEN result ELSE hash
    /\ UNCHANGED skipMode /\ UNCHANGED treevars

(* The context ends between two records.                                   *)
ContextEnds ==
    /\ Runs /\ Top.at <= Len(Body(Top.loop))
    /\ verdict' = "FAIL"
    /\ UNCHANGED runvars /\ UNCHANGED treevars

ScriptNext ==
    \/ \E line \in Lines : ParseLine(line)
    \/ ParseEnd
    \/ RecMode \/ RecHalt \/ RecReset \/ EnterLoop \/ BodyEnds \/ FileEnds \/ SkipRecord
    \/ \E ok \in BOOLEAN : RecStatement(ok)
    \/ \E result \in {1, 2} : RecQuery(result)
    \/ ContextEnds

-----------------------------------------------------------------------------
(* What the lines say, read without a tree: an interval of lines is played *)
(* from first to last, a loop by playing the lines up to its endloop once  *)
(* for each value.                                                         *)

CountOf(D, a, b) == Len(SelectSeq(SubSeq(lines, a, b), LAMBDA l : l.d \in D))
EndOf(a) == CHOOSE b \in a .. Len(lines) :
                /\ CountOf(Loops, a, b) = CountOf({"endloop"}, a, b)
                /\ \A c \in a .. b - 1 : CountOf(Loops, a, c) > CountOf({"endloop"}, a, c)
GuardsOf(a) == {c \in 1 .. a - 1 : /\ lines[c].d = "cond"
                                   /\ \A k \in c .. a - 1 : lines[k].d \in {"cond", "endloop"}}

RECURSIVE Play(_, _, _, _), Turns(_, _, _, _)
Play(a, b, subs, st) ==
    IF a > b \/ st.over THEN st
    ELSE CASE lines[a].d \in Loops -> Play(EndOf(a) + 1, b, subs, Turns(a, 1, subs, st))
           [] lines[a].d = "mode" -> Play(a + 1, b, subs, [st EXCEPT !.skip = lines[a].skip])
           [] lines[a].d = "halt" -> [st EXCEPT !.over = TRUE]
           [] lines[a].d = "reset" \/
              (lines[a].d \in {"statement", "query"} /\ ~st.skip
               /\ \A c \in GuardsOf(a) : evalCond(lines[c], subs) # lines[c].skipIf) ->
                 Play(a + 1, b, subs, [st EXCEPT !.acts = Append(@, <<a, subs>>)])
           [] OTHER -> Play(a + 1, b, subs, st)
Turns(a, t, subs, st) ==
    IF t > Len(lines[a].vals) \/ st.over THEN st
    ELSE IF lines[a].vals[t] = NoFit THEN [st EXCEPT !.over = TRUE, !.fails = TRUE]
    ELSE Turns(a, t + 1, subs,
               Play(a + 1, EndOf(a) - 1, Append(subs, Sub(lines[a], t)), st))

Script == Play(1, Len(lines), <<>>, [acts |-> <<>>, skip |-> FALSE, over |-> FALSE, fails |-> FALSE])
Acts == [i \in DOMAIN trace |-> <<trace[i].line, trace[i].subs>>]
IsQuery(i) == lines[trace[i].line].d = "query"

(* parseFile's stack of loop bodies and execRecords' recursion do what the *)
(* lines say: a file that passes has executed exactly the statements its   *)
(* lines unroll to, in order, each with its loop values and under its own  *)
(* conditions; one that fails, the first of them; and between two resets   *)
(* every query of a label that passed gave the label's one result.         *)
RunsTheScript ==
    /\ verdict \in {"PASS", "FAIL"} =>
          /\ IsPrefix(Acts, Script.acts)
          /\ verdict = "PASS" => Acts = Script.acts /\ ~Script.fails
    /\ verdict = "PASS" => counts.passed = counts.run
    /\ verdict = "PASS" =>
          \A i, j \in DOMAIN trace :
             i < j /\ IsQuery(i) /\ IsQuery(j) /\ trace[i].saw # trace[j].saw =>
                \E k \in i .. j : lines[trace[k].line].d = "reset"
=============================================================================
