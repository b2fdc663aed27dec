------------------------------ MODULE SqlRecord ------------------------------
(***************************************************************************)
(* How the sqllogictest runner executes a record on a connection            *)
(* (converge/cmd/sqllogic/main.go execStatement, execQuery) on top of the   *)
(* driver's own transaction recovery (TxRecovery).  The runner splits the   *)
(* record into parts of one statement each, follows BEGIN and COMMIT itself *)
(* in inTxn, and answers a failure outside a transaction with a ROLLBACK of *)
(* its own, on top of the driver's.                                         *)
(***************************************************************************)
EXTENDS TxRecovery

CONSTANT
    Records   \* [kind, parts]: "ok", "error" or "query", and texts of one statement

ASSUME RecordsAssumption ==
    \A r \in Records :
        /\ DOMAIN r = {"kind", "parts"} /\ r.kind \in {"ok", "error", "query"}
        /\ r.parts \in Seq(Texts) /\ r.parts # <<>>
        /\ \A i \in DOMAIN r.parts : Len(r.parts[i].stmts) = 1

VARIABLES
    rpc,      \* where the runner is in the record
    rec,      \* the record
    part,     \* the part it executes
    rawErr,   \* some part failed
    inTxn,    \* the runner's inTxn of this connection
    unseen    \* history: a BEGIN was executed where the runner does not look

recordvars == <<vars, rpc, rec, part, rawErr, inTxn, unseen>>

NoRecord == [kind |-> "none", parts |-> <<>>]
Rollback == [stmts |-> <<[does |-> "rollback", shows |-> <<"end">>]>>, glued |-> FALSE, parses |-> TRUE]

RecordInit ==
    /\ Init
    /\ rpc = "idle" /\ rec = NoRecord /\ part = 1 /\ rawErr = FALSE
    /\ inTxn = FALSE /\ unseen = FALSE

StartRecord(r) ==
    /\ rpc = "idle"
    /\ rpc' = "execute" /\ rec' = r /\ part' = 1 /\ rawErr' = FALSE
    /\ UNCHANGED <<inTxn, unseen>> /\ UNCHANGED vars

(* conn.ExecContext or conn.QueryContext of the part.                      *)
ExecPart ==
    /\ rpc = "execute"
    /\ Call(rec.parts[part], "raw")
    /\ rpc' = "engine"
    /\ UNCHANGED <<rec, part, rawErr, inTxn, unseen>>

(* The driver at work, up to its return.                                   *)
DriverWorks ==
    /\ rpc \in {"engine", "absorb"}
    /\ \/ Unparsed \/ RunStatement \/ noteTxSuccess
       \/ noteTxFailure \/ recoverTx
    /\ rawErr' = (rawErr \/ pc' = "failed")
    /\ UNCHANGED <<rpc, rec, part, inTxn, unseen>>

DoesOf(p) == rec.parts[p].stmts[1].does

(* trackTxn sees the keyword at the start of a part it is shown: every     *)
(* part of a statement, all but the last of a query.                       *)
Shown(p) == rec.kind # "query" \/ p < Len(rec.parts)
Seen(p) == Shown(p) /\ rec.parts[p].stmts[1].shows[1] \in {"begin", "end"}

(* Mutant of trackTxn: what the last part was is all that counts.          *)
trackTxnLast ==
    /\ inTxn' = IF Seen(part) /\ DoesOf(part) # "work" /\ part = Len(rec.parts)
                THEN DoesOf(part) = "begin" ELSE inTxn
    /\ unseen' = (unseen \/ (DoesOf(part) = "begin" /\ ~Seen(part)))

(* trackTxn                                                                *)
trackTxn ==
    /\ inTxn' = IF Seen(part) /\ DoesOf(part) # "work" THEN DoesOf(part) = "begin" ELSE inTxn
    /\ unseen' = (unseen \/ (DoesOf(part) = "begin" /\ ~Seen(part)))

PartSucceeds ==
    /\ rpc = "engine" /\ pc = "idle" /\ ~rawErr
    /\ trackTxn
    /\ IF part < Len(rec.parts) THEN rpc' = "execute" /\ part' = part + 1
                                ELSE rpc' = "check" /\ UNCHANGED part
    /\ UNCHANGED <<rec, rawErr>> /\ UNCHANGED vars

(* The first failure ends the record: a query at once, a statement after   *)
(* the sacrificial ROLLBACK.                                               *)
PartFails ==
    /\ rpc = "engine" /\ pc = "idle" /\ rawErr
    /\ rpc' = IF rec.kind = "query" \/ inTxn THEN "check" ELSE "sacrifice"
    /\ UNCHANGED <<rec, part, rawErr, inTxn, unseen>> /\ UNCHANGED vars

Sacrifice ==
    /\ rpc = "sacrifice"
    /\ Call(Rollback, "raw")
    /\ rpc' = "absorb"
    /\ UNCHANGED <<rec, part, rawErr, inTxn, unseen>>

Absorbed ==
    /\ rpc = "absorb" /\ pc = "idle"
    /\ rpc' = "check"
    /\ UNCHANGED <<rec, part, rawErr, inTxn, unseen>> /\ UNCHANGED vars

(* The record's expectation: the file goes on, or ends here.               *)
Check ==
    /\ rpc = "check"
    /\ rpc' = IF rawErr = (rec.kind = "error") THEN "idle" ELSE "stopped"
    /\ rec' = NoRecord /\ part' = 1 /\ rawErr' = FALSE
    /\ UNCHANGED <<inTxn, unseen>> /\ UNCHANGED vars

RecordNext ==
    \/ \E r \in Records : StartRecord(r)
    \/ ExecPart \/ DriverWorks \/ PartSucceeds \/ PartFails \/ Sacrifice \/ Absorbed \/ Check

-----------------------------------------------------------------------------
(* "Track explicit transactions PER PART" (execStatement): the runner's    *)
(* sacrificial ROLLBACK never reaches a transaction the script opened and  *)
(* has not closed, also when the BEGIN is in the record that fails; a      *)
(* BEGIN it does not look at (behind a comment, or last in a query record) *)
(* is the only way to lose one.                                            *)
SacrificeSparesUser == rpc = "sacrifice" /\ ~unseen => eng \notin Explicit
=============================================================================
