------------------------------- MODULE RWLock -------------------------------
(***************************************************************************)
(* What the database-file lock promises to the engines that open database  *)
(* files: a file has any number of readers or one writer.  An attempt that *)
(* cannot be granted is refused at once; nobody waits.                     *)
(***************************************************************************)
CONSTANTS Openers, Files

VARIABLE holds   \* the granted locks: records [by, file, mode]

Modes == {"sh", "ex"}
Locks == [by: Openers, file: Files, mode: Modes]

Compatible(k, l) ==
    k.by # l.by /\ (k.file = l.file => k.mode = "sh" /\ l.mode = "sh")

Init == holds = {}

Acquire(l) ==
    /\ \A k \in holds : Compatible(k, l)
    /\ holds' = holds \cup {l}

(* One lock is given back, or, when a process dies, all it held.           *)
Release == \E gone \in SUBSET holds : holds' = holds \ gone

Next == Release \/ \E l \in Locks : Acquire(l)

Spec == Init /\ [][Next]_holds

Safe == \A k, l \in holds : k # l => Compatible(k, l)
=============================================================================
