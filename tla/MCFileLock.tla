----------------------------- MODULE MCFileLock -----------------------------
(* The instance of FileLock that TLC checks: three engines, in one process *)
(* (a writer can meet two readers there), or one of them in another one.   *)
EXTENDS FileLock, TLC

CONSTANTS x, y, z, procA, procB

OneOrTwo ==
    {x :> procA @@ y :> procA @@ z :> p : p \in {procA, procB}}
=============================================================================
