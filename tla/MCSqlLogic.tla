----------------------------- MODULE MCSqlLogic -----------------------------
(* The three sides of the sqllogictest runner for TLC: the files and their *)
(* deadlines, the control flow of one file, the records of one connection. *)
(* They share no state within these bounds, so a behaviour is of one side, *)
(* chosen at the start.                                                    *)
EXTENDS SqlPool, SqlScript, SqlRecord

CONSTANT MaxParts   \* bound: parts of a record

VARIABLE side

Cond(skipIf) == [d |-> "cond", skipIf |-> skipIf, var |-> "i", val |-> 0]
FlowLines ==
    {[d |-> "loop", var |-> "i", vals |-> <<0, 1>>], [d |-> "foreach", var |-> "j", vals |-> <<0, 1>>],
     [d |-> "foreach", var |-> "i", vals |-> <<1, NoFit>>],
     [d |-> "endloop"], [d |-> "halt"], [d |-> "statement"], [d |-> "query"], [d |-> "reset"],
     [d |-> "mode", skip |-> TRUE], [d |-> "mode", skip |-> FALSE], Cond(TRUE), Cond(FALSE)}

Part(does, shows, glued, parses) ==
    [stmts |-> <<[does |-> does, shows |-> shows]>>, glued |-> glued, parses |-> parses]
Parts == {Part("begin", <<"begin">>, FALSE, TRUE), Part("begin", <<"word", "begin">>, FALSE, TRUE),
          Part("commit", <<"word", "quote">>, FALSE, TRUE),
          Part("work", <<"word">>, FALSE, TRUE), Part("work", <<"word">>, FALSE, FALSE)}
         \cup {Part(d, <<"end">>, g, TRUE) : d \in {"commit", "rollback"}, g \in BOOLEAN}

(* splitStatements leaves a ";" on the last part only.                     *)
SplitBatches ==
    {ps \in UNION {[1 .. n -> Parts] : n \in 1 .. MaxParts} :
        \A i \in 1 .. Len(ps) - 1 : ~ps[i].glued /\ ps[i].parses}
AllRecords == [kind : {"ok", "error", "query"}, parts : SplitBatches]

MCInit == side \in {"files", "script", "records"} /\ PoolInit /\ ScriptInit /\ RecordInit

MCNext ==
    \/ side = "files"   /\ PoolNext   /\ UNCHANGED <<scriptvars, recordvars, side>>
    \/ side = "script"  /\ ScriptNext /\ UNCHANGED <<poolvars, recordvars, side>>
    \/ side = "records" /\ RecordNext /\ UNCHANGED <<poolvars, scriptvars, side>>

MCSpec == MCInit /\ [][MCNext]_<<poolvars, scriptvars, recordvars, side>> /\ PoolFairness
=============================================================================
