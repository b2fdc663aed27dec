----------------------------- MODULE TxRecovery -----------------------------
(***************************************************************************)
(* Transactions of one driver.conn (converge/duckdb/driver.go, "transaction *)
(* -leak recovery").  In this build of the engine a failed statement leaves *)
(* the connection's autocommit transaction open.  The driver clears it with *)
(* a ROLLBACK of its own, but must not touch a transaction the user began;  *)
(* it tells the two apart by conn.inTx, which it maintains from the text of *)
(* the statements, not from the engine.                                     *)
(*                                                                         *)
(* A text is what one call passes to the engine: its statements; whether    *)
(* its first word touches a ";" ("COMMIT;"); whether the engine can parse   *)
(* it.  Of a statement matters what it does to the transaction, which the   *)
(* engine knows, and what it shows to the driver's scanner, which knows     *)
(* neither comments nor dollar quotes: the words that may decide something, *)
(* every ";" and every quote mark, wherever they stand.  The calls on one   *)
(* conn run one after the other, under the engine's mutex.                  *)
(***************************************************************************)
EXTENDS Integers, Sequences, FiniteSets

CONSTANTS
    Texts,    \* the texts callers use in this instance
    NoText    \* no call under way

Does  == {"begin", "commit", "rollback", "work"}

(* BEGIN or START; COMMIT, ROLLBACK or ABORT; another word, END or the     *)
(* mark of a comment among them; a ";"; a quote mark (of one kind: ' and " *)
(* do not mix here).                                                       *)
Marks == {"begin", "end", "word", "semi", "quote"}
Statements == [does: Does, shows: Seq(Marks)]

ASSUME TextsAssumption ==
    /\ NoText \notin Texts
    /\ \A t \in Texts :
          /\ DOMAIN t = {"stmts", "glued", "parses"}
          /\ t.stmts \in Seq(Statements) /\ t.stmts # <<>>
          /\ \A i \in DOMAIN t.stmts :
                LET s == t.stmts[i]
                IN  /\ s.shows # <<>>
                    /\ s.shows[1] = "begin" => s.does = "begin"
                    /\ s.shows[1] = "end" => s.does \in {"commit", "rollback"}
          /\ {t.glued, t.parses} \subseteq BOOLEAN

VARIABLES
    inTx,   \* conn.inTx
    eng,    \* the engine's transaction on this connection
    pc,     \* where the call under way is
    text,   \* its text
    how,    \* "raw": duckdb_query; "args": prepare, bind, execute; "stmt":
            \* bind and execute a statement prepared earlier
    next,   \* the statement of the text the engine runs next
    strayed \* history: some text so far was not a tidy one

vars == <<inTx, eng, pc, text, how, next, strayed>>

Explicit == {"tx", "invalid"}   \* begun by the user; "invalid" after a failure
Transactions == {"auto", "dangling"} \cup Explicit

TypeOK ==
    /\ inTx \in BOOLEAN
    /\ eng \in Transactions
    /\ pc \in {"idle", "running", "succeeded", "failed", "recovering"}
    /\ text \in Texts \cup {NoText} /\ (text = NoText <=> pc = "idle")
    /\ how \in {"raw", "args", "stmt"}
    /\ next \in Nat /\ (pc = "running" => next \in 1 .. Len(text.stmts))
    /\ strayed \in BOOLEAN

Init ==
    /\ inTx = FALSE
    /\ eng = "auto"
    /\ pc = "idle" /\ text = NoText /\ how = "raw" /\ next = 1
    /\ strayed = FALSE

-----------------------------------------------------------------------------
(* The text as the driver reads it.  A place is a mark of a statement, or  *)
(* the ";" (at last, the end of the text) behind it.                       *)

Places(t) == UNION {{i} \X (1 .. Len(t.stmts[i].shows) + 1) : i \in DOMAIN t.stmts}
Mark(t, p) ==
    LET shows == t.stmts[p[1]].shows IN IF p[2] <= Len(shows) THEN shows[p[2]] ELSE "semi"
Before(p, q) == p[1] < q[1] \/ (p[1] = q[1] /\ p[2] < q[2])
Following(t, p) ==
    IF p[2] <= Len(t.stmts[p[1]].shows) THEN <<p[1], p[2] + 1>> ELSE <<p[1] + 1, 1>>

Odd(S) == Cardinality(S) % 2 = 1
Quoted(t, p) == Odd({q \in Places(t) : Before(q, p) /\ Mark(t, q) = "quote"})

(* Mutant of forEachStatement: it splits at a ";" in quotes too.           *)
forEachStatementUnquoted(t) ==
    ({<<1, 1>>} \cup {Following(t, p) : p \in {q \in Places(t) : Mark(t, q) = "semi"}})
        \cap Places(t)

(* forEachStatement: where the pieces it delivers start.                   *)
forEachStatement(t) ==
    ({<<1, 1>>} \cup {Following(t, p) :
                          p \in {q \in Places(t) : Mark(t, q) = "semi" /\ ~Quoted(t, q)}})
        \cap Places(t)

(* txBoundary of a piece, by its first word.                               *)
txBoundary(mark) == CASE mark = "begin" -> 1 [] mark = "end" -> -1 [] OTHER -> 0

(* txBoundary of a whole text: a ";" right after the keyword hides it.     *)
textBoundary(t) == IF t.glued THEN 0 ELSE txBoundary(Mark(t, <<1, 1>>))

(* The pieces that move the hint.                                          *)
Recognized(t) == {p \in forEachStatement(t) : txBoundary(Mark(t, p)) # 0}

Ends(stmt) == stmt.does \in {"commit", "rollback"}

(* A text the hint can follow: the driver finds the statements that begin  *)
(* and end transactions, and only these; no ";" at the first word, no      *)
(* statement that ends a transaction in a batch that did not begin with    *)
(* one that starts it, and none that fails to parse but looks like ending  *)
(* one.                                                                    *)
Tidy(t) ==
    /\ ~t.glued
    /\ Recognized(t) = {<<i, 1>> : i \in {j \in DOMAIN t.stmts : t.stmts[j].does # "work"}}
    /\ \/ t.stmts[1].does = "begin"
       \/ \A i \in DOMAIN t.stmts : ~Ends(t.stmts[i])
       \/ Len(t.stmts) = 1 /\ t.parses

-----------------------------------------------------------------------------
(* What one statement does in the engine: it succeeds or not, and leaves a *)
(* transaction behind.                                                     *)

Effects ==   \* the transaction before, the statement, its success, the transaction after
    {<<"auto", "work", TRUE, "auto">>,       <<"auto", "work", FALSE, "dangling">>,
     <<"auto", "begin", TRUE, "tx">>,
     <<"auto", "commit", FALSE, "auto">>,    <<"auto", "rollback", FALSE, "auto">>,
     <<"dangling", "work", FALSE, "auto">>,  <<"dangling", "begin", FALSE, "auto">>,
     <<"dangling", "commit", FALSE, "auto">>,
     <<"dangling", "rollback", FALSE, "auto">>, <<"dangling", "rollback", TRUE, "auto">>,
     <<"tx", "work", TRUE, "tx">>,           <<"tx", "work", FALSE, "tx">>,
     <<"tx", "work", FALSE, "invalid">>,
     <<"tx", "begin", FALSE, "tx">>,         <<"tx", "begin", FALSE, "invalid">>,
     <<"tx", "commit", TRUE, "auto">>,       <<"tx", "commit", FALSE, "auto">>,
     <<"tx", "rollback", TRUE, "auto">>,
     <<"invalid", "work", FALSE, "invalid">>, <<"invalid", "begin", FALSE, "invalid">>,
     <<"invalid", "commit", FALSE, "auto">>, <<"invalid", "rollback", TRUE, "auto">>}

Outcomes(does) == {o \in [ok: BOOLEAN, eng: Transactions] : <<eng, does, o.ok, o.eng>> \in Effects}

(* A text that does not parse, or does not prepare, fails like a statement *)
(* that does.                                                              *)
Rejections == {o \in Outcomes("work") : ~o.ok}

-----------------------------------------------------------------------------
Call(t, h) ==
    /\ pc = "idle"
    /\ h = "stmt" => t.parses /\ Len(t.stmts) = 1
    /\ pc' = "running" /\ text' = t /\ how' = h /\ next' = 1
    /\ strayed' = (strayed \/ ~Tidy(t))
    /\ UNCHANGED <<inTx, eng>>

Finish == pc' = "idle" /\ text' = NoText /\ UNCHANGED <<how, next, strayed>>
Go(to) == pc' = to /\ UNCHANGED <<text, how, next, strayed>>

(* The text does not parse: nothing of it runs.                            *)
Unparsed ==
    /\ pc = "running" /\ how = "raw" /\ ~text.parses
    /\ \E o \in Rejections : eng' = o.eng
    /\ Go("failed")
    /\ UNCHANGED inTx

(* duckdb_prepare refuses it (a binder error, several statements): the     *)
(* driver recovers whatever the text says.                                 *)
PrepareFails ==
    /\ pc = "running" /\ how = "args"
    /\ \E o \in Rejections : eng' = o.eng
    /\ IF inTx THEN Finish ELSE Go("recovering")
    /\ UNCHANGED inTx

(* bindAll fails: the call ends, nothing was run.                          *)
BindFails ==
    /\ pc = "running" /\ how # "raw" /\ text.parses /\ Len(text.stmts) = 1
    /\ Finish
    /\ UNCHANGED <<inTx, eng>>

(* The engine runs the statements in order and stops at one that fails.    *)
RunStatement ==
    /\ pc = "running" /\ text.parses
    /\ how = "raw" \/ Len(text.stmts) = 1
    /\ \E o \in Outcomes(text.stmts[next].does) :
          /\ eng' = o.eng
          /\ IF o.ok /\ next < Len(text.stmts)
             THEN next' = next + 1 /\ UNCHANGED <<pc, text, how, strayed>>
             ELSE Go(IF o.ok THEN "succeeded" ELSE "failed")
    /\ UNCHANGED inTx

(* Mutant of noteTxSuccess: looks at the start of a batch only.            *)
noteTxSuccessFirst ==
    /\ pc = "succeeded"
    /\ LET b == txBoundary(Mark(text, <<1, 1>>)) IN inTx' = IF b # 0 THEN b > 0 ELSE inTx
    /\ Finish
    /\ UNCHANGED eng

(* noteTxSuccessLocked: the last boundary in the text decides.             *)
noteTxSuccess ==
    /\ pc = "succeeded"
    /\ LET found == Recognized(text)
       IN  inTx' = IF found = {} THEN inTx
                   ELSE \E p \in found : /\ Mark(text, p) = "begin"
                                         /\ \A q \in found : ~Before(p, q)
    /\ Finish
    /\ UNCHANGED eng

(* Mutant of noteTxFailure: the dangling transaction is left alone.        *)
noteTxFailureNoRecovery ==
    /\ pc = "failed"
    /\ inTx' = (inTx /\ textBoundary(text) >= 0)
    /\ Finish
    /\ UNCHANGED eng

(* Mutant of noteTxFailure: recovers in an explicit transaction too.       *)
noteTxFailureAlways ==
    /\ pc = "failed"
    /\ Go("recovering")
    /\ inTx' = FALSE
    /\ UNCHANGED eng

(* noteTxFailureLocked                                                     *)
noteTxFailure ==
    /\ pc = "failed"
    /\ \/ textBoundary(text) < 0 /\ inTx' = FALSE /\ Finish
       \/ textBoundary(text) >= 0 /\ inTx /\ UNCHANGED inTx /\ Finish
       \/ textBoundary(text) >= 0 /\ ~inTx /\ UNCHANGED inTx /\ Go("recovering")
    /\ UNCHANGED eng

(* recoverTxLocked outside an explicit transaction: ROLLBACK, and whatever *)
(* it reports is ignored.                                                  *)
recoverTx ==
    /\ pc = "recovering"
    /\ \E o \in Outcomes("rollback") : eng' = o.eng
    /\ Finish
    /\ UNCHANGED inTx

Next ==
    \/ \E t \in Texts, h \in {"raw", "args", "stmt"} : Call(t, h)
    \/ Unparsed \/ PrepareFails \/ BindFails \/ RunStatement
    \/ noteTxSuccess \/ noteTxFailure \/ recoverTx

Spec == Init /\ [][Next]_vars

-----------------------------------------------------------------------------
(* Properties.  The comments claim the first three of every text; they     *)
(* hold as long as all texts are tidy, which is what the Tidy... say.      *)

(* Between calls the driver's hint says what the engine knows: inTx means  *)
(* that the user's transaction is open, and nothing else does.             *)
HintExact == pc = "idle" => (inTx <=> eng \in Explicit)

(* No call, failed or not, leaves a dangling transaction for the next one  *)
(* to trip over.                                                           *)
AutocommitRestored == pc = "idle" => eng # "dangling"

(* The recovery's ROLLBACK ends no transaction of the user's, but for one  *)
(* begun in the text that failed.                                          *)
UserTxKept ==
    pc = "recovering" /\ eng \in Explicit =>
        \E i \in DOMAIN text.stmts : text.stmts[i].does = "begin"

(* With tidy texts only, the hint is exact between calls.                  *)
TidyHintExact == ~strayed => HintExact

(* With tidy texts only, no failure leaves a dangling transaction behind.  *)
TidyAutocommit == ~strayed => AutocommitRestored

(* With tidy texts only, recovery spares the user's transaction.           *)
TidyUserTxKept == ~strayed => UserTxKept

LastIsRecognized(t) ==
    LET found == Recognized(t)
    IN  \E i \in DOMAIN t.stmts :
            /\ <<i, 1>> \in found /\ \A p \in found : ~Before(<<i, 1>>, p)
            /\ \A j \in DOMAIN t.stmts : j > i => t.stmts[j].does = "work"

(* However far the hint was off, a text that runs to its end sets it       *)
(* right, if the driver recognizes the last statement on transactions in   *)
(* it and takes nothing behind that for another.                           *)
HintHeals ==
    [][pc = "succeeded" /\ LastIsRecognized(text) => HintExact']_vars

(* Where every quote is closed in its own statement and every ";" inside a *)
(* statement is in quotes, the pieces are the statements, whatever the     *)
(* quotes hold (forEachStatement's comment).                               *)
QuotedInside(s) ==
    LET before(k) == {j \in 1 .. k - 1 : s.shows[j] = "quote"}
    IN  /\ ~Odd(before(Len(s.shows) + 1))
        /\ \A j \in DOMAIN s.shows : s.shows[j] = "semi" => Odd(before(j))
SplitsAtStatements ==
    pc = "succeeded" /\ (\A i \in DOMAIN text.stmts : QuotedInside(text.stmts[i])) =>
        forEachStatement(text) = {<<i, 1>> : i \in DOMAIN text.stmts}
=============================================================================
