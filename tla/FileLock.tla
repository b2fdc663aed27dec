------------------------------ MODULE FileLock ------------------------------
(***************************************************************************)
(* The lock an engine takes on its database file when it opens it          *)
(* (converge/wasishim/hostfs.go, hostfs_lockreg.go, hostfs_lock_unix.go,   *)
(* hostfs_lock_other.go): a registry of paths, one per process, in front   *)
(* of flock(2), which several processes share.                             *)
(*                                                                         *)
(* An opener is one engine instance opening one database file; engines of  *)
(* one process run in different goroutines, so the registry's critical     *)
(* sections and the system calls of different openers interleave.  A file  *)
(* stands for its canonical path (hostLockKey); opens without a lock flag  *)
(* never reach this code and are left out.                                 *)
(***************************************************************************)
EXTENDS Integers, FiniteSets

CONSTANTS
    Openers, Files, Procs,
    Layouts   \* the ways openers are spread over processes in this instance

ASSUME LockAssumption == IsFiniteSet(Openers) /\ Layouts \subseteq [Openers -> Procs]

(* What flock(2) does on the file system, or that there is none.           *)
Platforms ==
    {"flock",    \* one lock per open file, conflicting everywhere
     "merged",   \* emulated by record locks: no conflict in a process
     "nolocks",  \* ENOTSUP
     "other"}    \* not unix: hostfs_lock_other.go

VARIABLES
    fs,      \* the platform, and
    ProcOf,  \* the process each opener lives in: neither ever changes
    pc,      \* per opener: its place in Xhost_open or Xhost_close
    file,    \* the file it opens
    mode,    \* "ex" for HOSTO_WRLOCK, "sh" for HOSTO_RDLOCK
    code,    \* the result of its last Xhost_open
    table,   \* hostLockTable of each process: -1 a writer, n > 0 readers
    entry,   \* the openers whose *os.File is a key of hostLockPath and hostLockMode
    oslock   \* the flock on each opener's descriptor

world == <<fs, ProcOf>>
vars  == <<world, pc, file, mode, code, table, entry, oslock>>

PCs == {"idle", "opened", "registered", "denied", "errored", "probing", "probed",
        "rejected", "held", "unlocked"}
Codes == {"ok", "Conflict", "RdOK", "NotSup"}

TypeOK ==
    /\ fs \in Platforms
    /\ ProcOf \in Layouts
    /\ pc \in [Openers -> PCs]
    /\ file \in [Openers -> Files]
    /\ mode \in [Openers -> {"sh", "ex"}]
    /\ code \in [Openers -> Codes]
    /\ table \in [Procs -> [Files -> -1 .. Cardinality(Openers)]]
    /\ entry \subseteq Openers
    /\ oslock \in [Openers -> {"none", "sh", "ex"}]

Init ==
    /\ fs \in Platforms
    /\ ProcOf \in Layouts
    /\ pc = [h \in Openers |-> "idle"]
    /\ file \in [Openers -> Files]
    /\ mode = [h \in Openers |-> "sh"]
    /\ code = [h \in Openers |-> "ok"]
    /\ table = [p \in Procs |-> [f \in Files |-> 0]]
    /\ entry = {}
    /\ oslock = [h \in Openers |-> "none"]

-----------------------------------------------------------------------------
Goto(h, from, to) == pc[h] = from /\ pc' = [pc EXCEPT ![h] = to]

Count(h) == table[ProcOf[h]][file[h]]
SetCount(h, n) == table' = [table EXCEPT ![ProcOf[h]][file[h]] = n]

(* Mutant of Unregister: a writer is counted down like a reader.           *)
UnregisterCounts(h) ==
    IF h \in entry
    THEN entry' = entry \ {h} /\ SetCount(h, Count(h) - 1)
    ELSE UNCHANGED <<entry, table>>

(* Mutant of Unregister: a leaving reader clears the slot.                 *)
UnregisterAll(h) ==
    IF h \in entry
    THEN entry' = entry \ {h} /\ SetCount(h, 0)
    ELSE UNCHANGED <<entry, table>>

(* hostLockUnregister: by the mode recorded for the descriptor, and a      *)
(* no-op for one that never registered.                                    *)
Unregister(h) ==
    IF h \in entry
    THEN /\ entry' = entry \ {h}
         /\ SetCount(h, IF mode[h] = "ex" \/ Count(h) <= 1 THEN 0 ELSE Count(h) - 1)
    ELSE UNCHANGED <<entry, table>>

(* flock(LOCK_NB) in mode m on h's descriptor would succeed.               *)
Grantable(h, m) ==
    \A g \in Openers \ {h} :
        /\ file[g] = file[h]
        /\ oslock[g] # "none"
        /\ m = "ex" \/ oslock[g] = "ex"
        => fs = "merged" /\ ProcOf[g] = ProcOf[h]

-----------------------------------------------------------------------------
(* Xhost_open                                                              *)

Open(h, f, m) ==
    /\ Goto(h, "idle", "opened")
    /\ file' = [file EXCEPT ![h] = f]
    /\ mode' = [mode EXCEPT ![h] = m]
    /\ UNCHANGED <<world, code, table, entry, oslock>>

(* Mutant of Register: a reader does not look for a registered writer.     *)
RegisterReaderAlways(h) ==
    /\ Goto(h, "opened", IF fs = "other" THEN "held" ELSE "registered")
    /\ IF mode[h] = "ex" THEN Count(h) = 0 /\ SetCount(h, -1)
                         ELSE SetCount(h, Count(h) + 1)
    /\ entry' = entry \cup {h}
    /\ code' = [code EXCEPT ![h] = "ok"]
    /\ UNCHANGED <<world, file, mode, oslock>>

(* hostLockRegister grants.  Without flock the registry is the whole lock. *)
Register(h) ==
    /\ Goto(h, "opened", IF fs = "other" THEN "held" ELSE "registered")
    /\ IF mode[h] = "ex" THEN Count(h) = 0 /\ SetCount(h, -1)
                         ELSE Count(h) >= 0 /\ SetCount(h, Count(h) + 1)
    /\ entry' = entry \cup {h}
    /\ code' = [code EXCEPT ![h] = "ok"]
    /\ UNCHANGED <<world, file, mode, oslock>>

RegisterRefused(h) ==
    /\ Goto(h, "opened", "rejected")
    /\ IF mode[h] = "ex" THEN Count(h) # 0 ELSE Count(h) < 0
    /\ code' = [code EXCEPT ![h] = IF Count(h) > 0 THEN "RdOK" ELSE "Conflict"]
    /\ UNCHANGED <<world, file, mode, table, entry, oslock>>

(* Mutant of Flock: the lock asked for is always the shared one.           *)
FlockShared(h) ==
    /\ fs \in {"flock", "merged"}
    /\ Goto(h, "registered", "held")
    /\ Grantable(h, "sh")
    /\ oslock' = [oslock EXCEPT ![h] = "sh"]
    /\ UNCHANGED <<world, file, mode, code, table, entry>>

Flock(h) ==
    /\ fs \in {"flock", "merged"}
    /\ Goto(h, "registered", "held")
    /\ Grantable(h, mode[h])
    /\ oslock' = [oslock EXCEPT ![h] = mode[h]]
    /\ UNCHANGED <<world, file, mode, code, table, entry>>

(* EWOULDBLOCK.                                                            *)
FlockDenied(h) ==
    /\ fs \in {"flock", "merged"}
    /\ Goto(h, "registered", "denied")
    /\ ~Grantable(h, mode[h])
    /\ UNCHANGED <<world, file, mode, code, table, entry, oslock>>

(* "or anything else": EINTR, ENOLCK, EIO.  The code takes it for a denial.*)
FlockFails(h) ==
    /\ fs \in {"flock", "merged"}
    /\ Goto(h, "registered", "errored")
    /\ UNCHANGED <<world, file, mode, code, table, entry, oslock>>

(* Mutant of FlockUnsupported: writers are tolerated like readers.         *)
FlockUnsupportedWrites(h) ==
    /\ fs = "nolocks"
    /\ Goto(h, "registered", "held")
    /\ UNCHANGED <<world, file, mode, code, table, entry, oslock>>

(* ENOTSUP: tolerated for a reader, whose registry entry stays.            *)
FlockUnsupported(h) ==
    /\ fs = "nolocks"
    /\ IF mode[h] = "sh"
       THEN /\ Goto(h, "registered", "held")
            /\ UNCHANGED <<code, table, entry>>
       ELSE /\ Goto(h, "registered", "rejected")
            /\ code' = [code EXCEPT ![h] = "NotSup"]
            /\ Unregister(h)
    /\ UNCHANGED <<world, file, mode, oslock>>

(* Mutant of GiveUp: the registry entry stays.                             *)
GiveUpKeeps(h) ==
    /\ \E from \in {"denied", "errored"} :
          Goto(h, from, IF mode[h] = "ex" THEN "probing" ELSE "rejected")
    /\ code' = [code EXCEPT ![h] = "Conflict"]
    /\ UNCHANGED <<world, file, mode, table, entry, oslock>>

(* After a denied or failed flock: the registry entry goes, and a writer   *)
(* finds out whether a read lock would have been granted.                  *)
GiveUp(h) ==
    /\ \E from \in {"denied", "errored"} :
          Goto(h, from, IF mode[h] = "ex" THEN "probing" ELSE "rejected")
    /\ Unregister(h)
    /\ code' = [code EXCEPT ![h] = "Conflict"]
    /\ UNCHANGED <<world, file, mode, oslock>>

(* The probe may fail for its own reasons too.                             *)
Probe(h) ==
    /\ \/ /\ Grantable(h, "sh")
          /\ Goto(h, "probing", "probed")
          /\ oslock' = [oslock EXCEPT ![h] = "sh"]
       \/ /\ Goto(h, "probing", "rejected")
          /\ UNCHANGED oslock
    /\ UNCHANGED <<world, file, mode, code, table, entry>>

ProbeUndo(h) ==
    /\ Goto(h, "probed", "rejected")
    /\ oslock' = [oslock EXCEPT ![h] = "none"]
    /\ code' = [code EXCEPT ![h] = "RdOK"]
    /\ UNCHANGED <<world, file, mode, table, entry>>

-----------------------------------------------------------------------------
(* Mutant of Close: the entry is looked up after the handle is gone.       *)
CloseForgets(h) ==
    /\ Goto(h, "held", "unlocked")
    /\ entry' = entry \ {h}
    /\ UNCHANGED <<world, file, mode, code, table, oslock>>

(* Xhost_close gives the registry entry back before it closes the file.    *)
Close(h) ==
    /\ Goto(h, "held", "unlocked")
    /\ Unregister(h)
    /\ UNCHANGED <<world, file, mode, code, oslock>>

(* f.Close, of an open that was refused or of an open file: the descriptor *)
(* takes its flock along.                                                  *)
CloseFd(h) ==
    /\ \/ Goto(h, "rejected", "idle")
       \/ Goto(h, "unlocked", "idle")
    /\ oslock' = [oslock EXCEPT ![h] = "none"]
    /\ UNCHANGED <<world, file, mode, code, table, entry>>

(* A process dies: its descriptors close, its registry is gone.            *)
Exit(p) ==
    LET dead == {h \in Openers : ProcOf[h] = p}
    IN  /\ pc' = [h \in Openers |-> IF h \in dead THEN "idle" ELSE pc[h]]
        /\ oslock' = [h \in Openers |-> IF h \in dead THEN "none" ELSE oslock[h]]
        /\ entry' = entry \ dead
        /\ table' = [table EXCEPT ![p] = [f \in Files |-> 0]]
        /\ UNCHANGED <<world, file, mode, code>>

-----------------------------------------------------------------------------
OpenStep(h) ==
    \/ Register(h) \/ RegisterRefused(h)
    \/ Flock(h) \/ FlockDenied(h) \/ FlockFails(h) \/ FlockUnsupported(h)
    \/ GiveUp(h) \/ Probe(h) \/ ProbeUndo(h) \/ CloseFd(h)

Next ==
    \/ \E h \in Openers :
          \/ \E f \in Files, m \in {"sh", "ex"} : Open(h, f, m)
          \/ OpenStep(h)
          \/ Close(h)
    \/ \E p \in Procs : Exit(p)

Spec == Init /\ [][Next]_vars

-----------------------------------------------------------------------------
(* Properties.                                                             *)

Held(h) == pc[h] = "held"
Clash(g, h) == g # h /\ file[g] = file[h] /\ "ex" \in {mode[g], mode[h]}

(* A database file open for writing is open nowhere else: not in the same  *)
(* process, whatever flock does, and with flock in no other one either.    *)
Exclusive ==
    \A g, h \in Openers :
        Held(g) /\ Held(h) /\ Clash(g, h) => fs = "other" /\ ProcOf[g] # ProcOf[h]

(* The registry of a process says what its entries say: -1 for one writer  *)
(* and no reader, n for n readers and no writer.                           *)
EntriesOf(p, f) == {h \in entry : ProcOf[h] = p /\ file[h] = f}
RegistryExact ==
    \A p \in Procs, f \in Files :
        LET E == EntriesOf(p, f)
        IN  \/ table[p][f] = Cardinality(E) /\ \A h \in E : mode[h] = "sh"
            \/ table[p][f] = -1 /\ Cardinality(E) = 1 /\ \A h \in E : mode[h] = "ex"

(* An idle opener has left nothing behind, in the registry or the OS,      *)
(* however its open ended: a later open cannot meet a stale lock.          *)
NoStaleLock ==
    \A h \in Openers :
        pc[h] \in {"idle", "opened"} => h \notin entry /\ oslock[h] = "none"

(* Who is in the way of an open that is turned down.  The registry refuses *)
(* it for an opener of its process that is still registered, never for one *)
(* that closed its file.  flock denies it for an opener of another process,*)
(* or one of its own that has left the registry already (it is closing its *)
(* file, or probing).  Where flock fails otherwise nobody needs to be.     *)
RefusalJustified ==
    [][\A h \in Openers :
          /\ pc[h] = "opened" /\ pc'[h] = "rejected" =>
                \E g \in entry \ {h} : ProcOf[g] = ProcOf[h] /\ file[g] = file[h]
          /\ pc[h] = "registered" /\ pc'[h] = "denied" =>
                \E g \in Openers \ {h} :
                   /\ file[g] = file[h] /\ oslock[g] # "none"
                   /\ ProcOf[g] # ProcOf[h] \/ g \notin entry]_vars

(* The whole is a reader/writer lock per file; where there is no flock, a  *)
(* lock per file and process.                                              *)
Scope(h) == <<file[h], IF fs = "other" THEN {ProcOf[h]} ELSE Procs>>
Granted ==
    {[by |-> h, file |-> Scope(h), mode |-> mode[h]] : h \in {g \in Openers : Held(g)}}
Abstract == INSTANCE RWLock WITH holds <- Granted, Files <- Files \X SUBSET Procs
ImplementsRWLock == Abstract!Spec
=============================================================================
