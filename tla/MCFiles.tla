------------------------------ MODULE MCFiles ------------------------------
(***************************************************************************)
(* One tree under the WASI descriptors or under the engine's host file     *)
(* system, from the state in which the engine finds it.  The two never     *)
(* share a descriptor, so each run of the system exercises one side.       *)
(***************************************************************************)
EXTENDS WasiFs

CONSTANTS
    MaxHandle,            \* bound: host descriptors ever allocated
    FirstTree, FirstNodes \* the tree before the engine starts

ASSUME FirstAssumption ==
    /\ FirstNodes \in Seq({NewDir, NewFile})
    /\ FirstTree \in [Paths -> 0 .. Len(FirstNodes)]

VARIABLES hostFds, hostNextFd, side

H == INSTANCE HostFs

wasiOnly == <<fds, nextFd, dir>>
hostOnly == <<hostFds, hostNextFd>>
vars == <<tree, node, wasiOnly, hostOnly, log, side>>

Init ==
    /\ side \in {"walk", "file", "host"}
    /\ tree = FirstTree /\ node = FirstNodes
    /\ WasiInit
    /\ H!HostInit

Walk == side = "walk" /\ WalkNext /\ UNCHANGED <<hostOnly, side>>
File == side = "file" /\ FileNext /\ UNCHANGED <<hostOnly, side>>
Host == side = "host" /\ H!HostNext /\ UNCHANGED <<wasiOnly, side>>

Next == Walk \/ File \/ Host
Spec == Init /\ [][Next]_vars

AppendsAtEnd == WasiAppends /\ H!HostAppends

-----------------------------------------------------------------------------
(* A directory with one file in it, two names of different lengths.        *)
SmallPaths == {<<1>>, <<2>>, <<1, 1>>, <<1, 2>>}
SmallTree == [p \in SmallPaths |-> IF p = <<1>> THEN 1 ELSE IF p = <<1, 2>> THEN 2 ELSE 0]
SmallNodes == <<NewDir, NewFile>>
SmallNames == [s \in -1 .. 2 |-> IF s \in {-1, 2} THEN 2 ELSE 1]
=============================================================================
