---------------------------- MODULE MCDriverPool ----------------------------
(* Model values and symmetry for the TLC runs of DriverPool.               *)
EXTENDS DriverPool, TLC

(* Slots and engines are interchangeable: nothing orders or names them.    *)
Symmetry == Permutations(Conns) \cup Permutations(Engines)
=============================================================================
