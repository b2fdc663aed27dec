----------------------------- MODULE MCBulkLoad -----------------------------
(* One connection that fills a table through an appender, and queries that *)
(* aggregate what has arrived.  The engine's mutex keeps a query and a     *)
(* scan of the feed function apart; to keep the product small a query      *)
(* starts only once the appender is closed, which it does not look at.     *)
EXTENDS Appender, AggStates

Contents == {[n |-> table[i].n, g |-> table[i].g] : i \in DOMAIN table}
NumberedRows == [n : 1 .. MaxRows, g : Groups]
ASSUME SameRows == Keys = Groups /\ RowSet = NumberedRows
ASSUME AggAssumption == MaxHandles \in Nat /\ AllRows \notin Groups /\ NoneIsApart

vars == <<appenderVars, aggVars, source>>

Init == AppenderInit /\ AggInit /\ source = Contents

Next ==
    /\ \/ phase = "idle" /\ AppenderNext /\ UNCHANGED aggVars
       \/ op = Idle /\ closed /\ usable /\ AggNext /\ UNCHANGED appenderVars
    /\ source' = Contents'

Spec == Init /\ [][Next]_vars

Symmetry == Permutations(Blobs) \cup Permutations(Groups)
=============================================================================
