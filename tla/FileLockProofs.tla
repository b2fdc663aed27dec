--------------------------- MODULE FileLockProofs ---------------------------
(***************************************************************************)
(* What holds of the database-file lock for every finite set of openers,   *)
(* however they are spread over processes, on every platform.              *)
(***************************************************************************)
EXTENDS FileLock, FiniteSetTheorems, TLAPS

(* A descriptor is in the registry from hostLockRegister to the first of   *)
(* hostLockUnregister and the death of its process.                        *)
EntryPlaced ==
    entry = {h \in Openers : pc[h] \in {"registered", "denied", "errored", "held"}}

(* The flock on a descriptor follows from its place, and there is none     *)
(* where the platform has none.                                            *)
Flocks == fs \in {"flock", "merged"}
FlockOf(h) ==
    IF pc[h] \in {"held", "unlocked"} /\ Flocks THEN mode[h]
    ELSE IF pc[h] = "probed" THEN "sh" ELSE "none"
FlockPlaced ==
    \A h \in Openers :
        /\ oslock[h] = FlockOf(h)
        /\ pc[h] \in {"denied", "errored", "probing", "probed"} => Flocks
        /\ fs = "other" => pc[h] # "registered"
        /\ fs = "nolocks" /\ pc[h] = "held" => mode[h] = "sh"

(* flock(2) has kept its promise: locks that conflict are not both held.   *)
FlocksAgree ==
    \A g, h \in Openers :
        /\ g # h /\ file[g] = file[h]
        /\ oslock[g] # "none" /\ oslock[h] # "none" /\ "ex" \in {oslock[g], oslock[h]}
        => fs = "merged" /\ ProcOf[g] = ProcOf[h]

LockInv == TypeOK /\ EntryPlaced /\ FlockPlaced /\ FlocksAgree /\ RegistryExact
-----------------------------------------------------------------------------
(* Types.                                                                  *)
Tables == [Procs -> [Files -> -1 .. Cardinality(Openers)]]

LEMMA Placed == TypeOK => \A h \in Openers : ProcOf[h] \in Procs /\ file[h] \in Files
  BY LockAssumption DEF TypeOK

LEMMA SetCountTyped ==
  ASSUME TypeOK, NEW h \in Openers, NEW n \in -1 .. Cardinality(Openers), SetCount(h, n)
  PROVE  table' \in Tables
  BY Placed DEF TypeOK, SetCount, Tables

LEMMA EntriesFinite ==
  ASSUME entry \subseteq Openers, NEW p, NEW f
  PROVE  /\ IsFiniteSet(EntriesOf(p, f))
         /\ Cardinality(EntriesOf(p, f)) \in 0 .. Cardinality(Openers)
<1>1. EntriesOf(p, f) \subseteq Openers
  BY DEF EntriesOf
<1>2. /\ IsFiniteSet(EntriesOf(p, f))
      /\ Cardinality(EntriesOf(p, f)) <= Cardinality(Openers)
  BY <1>1, LockAssumption, FS_Subset
<1> QED BY <1>2, LockAssumption, FS_CardinalityType

(* Counting a registered reader down never goes below nothing, counting a  *)
(* new one up stays within the number of openers.                          *)
LEMMA RoomForOne ==
  ASSUME TypeOK, RegistryExact, NEW h \in Openers, h \notin entry
  PROVE  Count(h) < Cardinality(Openers)
<1> DEFINE E == EntriesOf(ProcOf[h], file[h])
<1>1. E \subseteq Openers \ {h}
  BY DEF EntriesOf, TypeOK
<1>2. /\ IsFiniteSet(Openers \ {h})
      /\ Cardinality(Openers \ {h}) = Cardinality(Openers) - 1
  BY LockAssumption, FS_RemoveElement
<1>3. Cardinality(E) <= Cardinality(Openers \ {h})
  BY <1>1, <1>2, FS_Subset
<1>4. Cardinality(E) \in Nat /\ Cardinality(Openers) \in Nat
  BY EntriesFinite, LockAssumption, FS_CardinalityType DEF TypeOK
<1>5. table[ProcOf[h]][file[h]] \in {-1, Cardinality(E)}
  BY Placed DEF RegistryExact
<1> QED BY <1>2, <1>3, <1>4, <1>5 DEF Count

-----------------------------------------------------------------------------
(* The registry, when nobody registers or leaves, when one registers, and  *)
(* when one leaves.                                                        *)
LEMMA RegistryKept ==
  ASSUME RegistryExact, UNCHANGED <<world, table, entry>>,
         \A h \in entry : mode'[h] = mode[h] /\ file'[h] = file[h]
  PROVE  RegistryExact'
<1>1. \A p, f : EntriesOf(p, f)' = EntriesOf(p, f)
  BY DEF EntriesOf, world
<1>2. \A p, f : \A h \in EntriesOf(p, f) : mode'[h] = mode[h]
  BY DEF EntriesOf
<1> QED BY <1>1, <1>2 DEF RegistryExact

LEMMA Elsewhere ==
  ASSUME TypeOK, NEW h \in Openers, NEW n, SetCount(h, n),
         NEW p \in Procs, NEW f \in Files
  PROVE  table'[p][f] = IF p = ProcOf[h] /\ f = file[h] THEN n ELSE table[p][f]
  BY Placed DEF SetCount, TypeOK

LEMMA RegistryGains ==
  ASSUME TypeOK, RegistryExact, NEW h \in Openers, h \notin entry,
         IF mode[h] = "ex" THEN Count(h) = 0 /\ SetCount(h, -1)
                           ELSE Count(h) >= 0 /\ SetCount(h, Count(h) + 1),
         entry' = entry \cup {h}, UNCHANGED <<world, file, mode>>
  PROVE  RegistryExact' /\ table' \in Tables
<1> DEFINE n == IF mode[h] = "ex" THEN -1 ELSE Count(h) + 1
<1>0. SetCount(h, n) /\ Count(h) >= 0
  OBVIOUS
<1>1. Count(h) \in -1 .. Cardinality(Openers) /\ Cardinality(Openers) \in Nat
  BY Placed, LockAssumption, FS_CardinalityType DEF Count, TypeOK
<1>2. n \in -1 .. Cardinality(Openers)
  BY <1>0, <1>1, RoomForOne
<1>3. table' \in Tables
  BY <1>0, <1>2, SetCountTyped
<1>4. ASSUME NEW p \in Procs, NEW f \in Files
      PROVE  LET E == EntriesOf(p, f)'
             IN  \/ table'[p][f] = Cardinality(E) /\ \A g \in E : mode'[g] = "sh"
                 \/ table'[p][f] = -1 /\ Cardinality(E) = 1 /\ \A g \in E : mode'[g] = "ex"
  <2> DEFINE E == EntriesOf(p, f)
  <2>1. CASE p = ProcOf[h] /\ f = file[h]
    <3>1. EntriesOf(p, f)' = E \cup {h} /\ h \notin E
      BY <2>1 DEF EntriesOf, world
    <3>2. IsFiniteSet(E) /\ Cardinality(E) \in Nat
      BY EntriesFinite DEF TypeOK
    <3>3. Cardinality(E \cup {h}) = Cardinality(E) + 1
      BY <3>1, <3>2, FS_AddElement
    <3>4. Count(h) = Cardinality(E) /\ \A g \in E : mode[g] = "sh"
      BY <2>1, <1>0 DEF RegistryExact, Count
    <3>5. table'[p][f] = n
      BY <1>0, <2>1, Elsewhere
    <3>6. CASE mode[h] = "ex"
      <4>1. Cardinality(E) = 0
        BY <3>4, <3>6
      <4>2. E = {}
        BY <4>1, <3>2, FS_EmptySet
      <4> QED BY <4>1, <4>2, <3>1, <3>3, <3>5, <3>6
    <3>7. CASE mode[h] = "sh"
      BY <3>1, <3>3, <3>4, <3>5, <3>7
    <3> QED BY <3>6, <3>7 DEF TypeOK
  <2>2. CASE ~(p = ProcOf[h] /\ f = file[h])
    <3>1. EntriesOf(p, f)' = E
      BY <2>2 DEF EntriesOf, world
    <3>2. table'[p][f] = table[p][f]
      BY <1>0, <2>2, Elsewhere
    <3> QED BY <3>1, <3>2 DEF RegistryExact
  <2> QED BY <2>1, <2>2
<1> QED BY <1>3, <1>4 DEF RegistryExact

LEMMA RegistryLoses ==
  ASSUME TypeOK, RegistryExact, NEW h \in Openers, Unregister(h), UNCHANGED <<world, file, mode>>
  PROVE  RegistryExact' /\ table' \in Tables /\ entry' = entry \ {h}
<1>1. CASE h \notin entry
  <2>1. UNCHANGED <<world, table, entry, mode, file>>
    BY <1>1 DEF Unregister
  <2> QED BY <2>1, <1>1, RegistryKept DEF TypeOK, Tables
<1>2. CASE h \in entry
  <2> DEFINE n == IF mode[h] = "ex" \/ Count(h) <= 1 THEN 0 ELSE Count(h) - 1
  <2>0. entry' = entry \ {h} /\ SetCount(h, n)
    BY <1>2 DEF Unregister
  <2>1. Count(h) \in -1 .. Cardinality(Openers) /\ Cardinality(Openers) \in Nat
    BY Placed, LockAssumption, FS_CardinalityType DEF Count, TypeOK
  <2>2. table' \in Tables
    <3>1. n \in -1 .. Cardinality(Openers)
      BY <2>1
    <3> QED BY <2>0, <3>1, SetCountTyped
  <2>3. ASSUME NEW p \in Procs, NEW f \in Files
        PROVE  LET E == EntriesOf(p, f)'
               IN  \/ table'[p][f] = Cardinality(E) /\ \A g \in E : mode'[g] = "sh"
                   \/ table'[p][f] = -1 /\ Cardinality(E) = 1 /\ \A g \in E : mode'[g] = "ex"
    <3> DEFINE E == EntriesOf(p, f)
    <3>1. CASE p = ProcOf[h] /\ f = file[h]
      <4>1. EntriesOf(p, f)' = E \ {h} /\ h \in E
        BY <3>1, <2>0, <1>2 DEF EntriesOf, world
      <4>2. IsFiniteSet(E) /\ Cardinality(E) \in Nat
        BY EntriesFinite DEF TypeOK
      <4>3. /\ Cardinality(E \ {h}) = Cardinality(E) - 1
            /\ IsFiniteSet(E \ {h}) /\ Cardinality(E \ {h}) \in Nat
        BY <4>1, <4>2, FS_RemoveElement, FS_CardinalityType
      <4>4. table'[p][f] = n /\ Count(h) = table[p][f]
        BY <2>0, <3>1, Elsewhere DEF Count
      <4>5. CASE mode[h] = "ex"
        <5>1. Cardinality(E) = 1
          BY <4>1, <4>5 DEF RegistryExact
        <5>2. E \ {h} = {}
          BY <5>1, <4>3, FS_EmptySet
        <5> QED BY <5>1, <5>2, <4>1, <4>3, <4>4, <4>5
      <4>6. CASE mode[h] = "sh"
        <5>1. Count(h) = Cardinality(E) /\ \A g \in E : mode[g] = "sh"
          BY <4>1, <4>4, <4>6 DEF RegistryExact
        <5>2. n = Cardinality(E) - 1
          BY <5>1, <4>2, <4>3, <4>6
        <5> QED BY <5>1, <5>2, <4>1, <4>3, <4>4
      <4> QED BY <4>5, <4>6 DEF TypeOK
    <3>2. CASE ~(p = ProcOf[h] /\ f = file[h])
      <4>1. EntriesOf(p, f)' = E
        BY <3>2, <2>0 DEF EntriesOf, world
      <4>2. table'[p][f] = table[p][f]
        BY <2>0, <3>2, Elsewhere
      <4> QED BY <4>1, <4>2 DEF RegistryExact
    <3> QED BY <3>1, <3>2
  <2> QED BY <2>0, <2>2, <2>3 DEF RegistryExact
<1> QED BY <1>1, <1>2

LEMMA RegistryDies ==
  ASSUME TypeOK, RegistryExact, NEW q \in Procs, Exit(q)
  PROVE  RegistryExact' /\ table' \in Tables
<1>1. table' \in Tables
  <2>1. 0 \in -1 .. Cardinality(Openers)
    BY LockAssumption, FS_CardinalityType
  <2> QED BY <2>1 DEF Exit, TypeOK, Tables
<1>2. ASSUME NEW p \in Procs, NEW f \in Files
      PROVE  LET E == EntriesOf(p, f)'
             IN  \/ table'[p][f] = Cardinality(E) /\ \A g \in E : mode'[g] = "sh"
                 \/ table'[p][f] = -1 /\ Cardinality(E) = 1 /\ \A g \in E : mode'[g] = "ex"
  <2>1. CASE p = q
    <3>1. EntriesOf(p, f)' = {}
      BY <2>1 DEF EntriesOf, Exit, world, TypeOK
    <3>2. table'[p][f] = 0
      BY <2>1 DEF Exit, TypeOK
    <3> QED BY <3>1, <3>2, FS_EmptySet
  <2>2. CASE p # q
    <3>1. EntriesOf(p, f)' = EntriesOf(p, f) /\ \A g : mode'[g] = mode[g]
      BY <2>2 DEF EntriesOf, Exit, world, TypeOK
    <3>2. table'[p][f] = table[p][f]
      BY <2>2 DEF Exit, TypeOK
    <3> QED BY <3>1, <3>2 DEF RegistryExact
  <2> QED BY <2>1, <2>2
<1> QED BY <1>1, <1>2 DEF RegistryExact

-----------------------------------------------------------------------------
(* The invariant is inductive.                                             *)
LEMMA LockInit == Init => LockInv
<1> SUFFICES ASSUME Init PROVE LockInv
  OBVIOUS
<1>1. TypeOK
  BY LockAssumption, FS_CardinalityType DEF Init, TypeOK, PCs, Codes
<1>2. EntryPlaced /\ FlockPlaced /\ FlocksAgree
  BY DEF Init, EntryPlaced, FlockPlaced, FlockOf, FlocksAgree
<1>3. \A p, f : EntriesOf(p, f) = {}
  BY DEF Init, EntriesOf
<1>4. RegistryExact
  BY <1>3, FS_EmptySet DEF Init, RegistryExact
<1> QED BY <1>1, <1>2, <1>4 DEF LockInv

(* The registry is rewritten by Register, by the actions that give an      *)
(* entry back, and when a process dies.                                    *)
LEMMA RegistryNext == LockInv /\ [Next]_vars => RegistryExact' /\ table' \in Tables
<1> SUFFICES ASSUME LockInv, [Next]_vars PROVE RegistryExact' /\ table' \in Tables
  OBVIOUS
<1> USE DEF LockInv
<1>0. table \in Tables
  BY DEF TypeOK, Tables
<1>1. ASSUME NEW h \in Openers, NEW f \in Files, NEW m \in {"sh", "ex"}, Open(h, f, m)
      PROVE  RegistryExact' /\ table' \in Tables
  <2>1. h \notin entry
    BY <1>1 DEF Open, Goto, EntryPlaced
  <2>2. \A g \in entry : mode'[g] = mode[g] /\ file'[g] = file[g]
    BY <1>1, <2>1 DEF Open, TypeOK
  <2> QED BY <1>1, <2>2, <1>0, RegistryKept DEF Open
<1>2. ASSUME NEW h \in Openers, Register(h) PROVE RegistryExact' /\ table' \in Tables
  <2>1. h \notin entry
    BY <1>2 DEF Register, Goto, EntryPlaced
  <2> QED BY <1>2, <2>1, RegistryGains DEF Register
<1>3. ASSUME NEW h \in Openers, GiveUp(h) \/ Close(h) PROVE RegistryExact' /\ table' \in Tables
  <2>1. Unregister(h) /\ UNCHANGED <<world, file, mode>>
    BY <1>3 DEF GiveUp, Close
  <2> QED BY <2>1, RegistryLoses
<1>4. ASSUME NEW h \in Openers, FlockUnsupported(h) PROVE RegistryExact' /\ table' \in Tables
  <2>1. CASE Unregister(h) /\ UNCHANGED <<world, file, mode>>
    BY <2>1, RegistryLoses
  <2>2. CASE UNCHANGED <<world, table, entry, file, mode>>
    BY <2>2, <1>0, RegistryKept
  <2> QED BY <1>4, <2>1, <2>2 DEF FlockUnsupported
<1>5. ASSUME NEW h \in Openers,
             \/ RegisterRefused(h) \/ Flock(h) \/ FlockDenied(h) \/ FlockFails(h)
             \/ Probe(h) \/ ProbeUndo(h) \/ CloseFd(h)
      PROVE  RegistryExact' /\ table' \in Tables
  <2>1. UNCHANGED <<world, table, entry, file, mode>>
    BY <1>5 DEF RegisterRefused, Flock, FlockDenied, FlockFails, Probe, ProbeUndo, CloseFd
  <2> QED BY <2>1, <1>0, RegistryKept
<1>6. ASSUME NEW q \in Procs, Exit(q) PROVE RegistryExact' /\ table' \in Tables
  BY <1>6, RegistryDies
<1>7. CASE UNCHANGED vars
  <2>1. UNCHANGED <<world, table, entry, file, mode>>
    BY <1>7 DEF vars
  <2> QED BY <2>1, <1>0, RegistryKept
<1> QED BY <1>1, <1>2, <1>3, <1>4, <1>5, <1>6, <1>7 DEF Next, OpenStep

LEMMA TypeNext == LockInv /\ [Next]_vars => TypeOK'
<1> SUFFICES ASSUME LockInv, [Next]_vars PROVE TypeOK'
  OBVIOUS
<1>0. TypeOK /\ table' \in [Procs -> [Files -> -1 .. Cardinality(Openers)]]
  BY RegistryNext DEF LockInv, Tables
<1>1. entry' \subseteq Openers
  <2>1. ASSUME NEW h \in Openers, Unregister(h) PROVE entry' \subseteq Openers
    BY <2>1, <1>0 DEF Unregister, TypeOK
  <2> QED BY <2>1, <1>0 DEF Next, OpenStep, Open, Register, RegisterRefused, Flock, FlockDenied, FlockFails,
             FlockUnsupported, GiveUp, Probe, ProbeUndo, CloseFd, Close, Exit, vars, TypeOK
<1>2. ASSUME NEW h \in Openers, NEW f \in Files, NEW m \in {"sh", "ex"}, Open(h, f, m)
      PROVE  TypeOK'
  BY <1>0, <1>1, <1>2 DEF Open, Goto, TypeOK, PCs, world
<1>3. ASSUME NEW h \in Openers, Register(h) \/ RegisterRefused(h) PROVE TypeOK'
  BY <1>0, <1>1, <1>3 DEF Register, RegisterRefused, Goto, TypeOK, PCs, Codes, world
<1>4. ASSUME NEW h \in Openers, Flock(h) \/ FlockDenied(h) \/ FlockFails(h) PROVE TypeOK'
  BY <1>0, <1>1, <1>4 DEF Flock, FlockDenied, FlockFails, Goto, TypeOK, PCs, world
<1>5. ASSUME NEW h \in Openers, FlockUnsupported(h) PROVE TypeOK'
  BY <1>0, <1>1, <1>5 DEF FlockUnsupported, Goto, TypeOK, PCs, Codes, world
<1>6. ASSUME NEW h \in Openers, GiveUp(h) PROVE TypeOK'
  BY <1>0, <1>1, <1>6 DEF GiveUp, Goto, TypeOK, PCs, Codes, world
<1>7. ASSUME NEW h \in Openers, Probe(h) \/ ProbeUndo(h) \/ CloseFd(h) \/ Close(h) PROVE TypeOK'
  BY <1>0, <1>1, <1>7 DEF Probe, ProbeUndo, CloseFd, Close, Goto, TypeOK, PCs, Codes, world
<1>8. ASSUME NEW q \in Procs, Exit(q) PROVE TypeOK'
  BY <1>0, <1>1, <1>8 DEF Exit, TypeOK, PCs, world
<1>9. CASE UNCHANGED vars
  BY <1>0, <1>9 DEF vars, world, TypeOK
<1> QED BY <1>2, <1>3, <1>4, <1>5, <1>6, <1>7, <1>8, <1>9 DEF Next, OpenStep

LEMMA EntryNext == LockInv /\ [Next]_vars => EntryPlaced'
<1> SUFFICES ASSUME LockInv, [Next]_vars PROVE EntryPlaced'
  OBVIOUS
<1>0. TypeOK /\ EntryPlaced
  BY DEF LockInv
<1>1. ASSUME NEW h \in Openers, Unregister(h) PROVE entry' = entry \ {h}
  BY <1>1 DEF Unregister
<1>2. ASSUME NEW h \in Openers, GiveUp(h) \/ Close(h) PROVE EntryPlaced'
  BY <1>0, <1>1, <1>2 DEF GiveUp, Close, Goto, EntryPlaced, TypeOK
<1>3. ASSUME NEW h \in Openers, FlockUnsupported(h) PROVE EntryPlaced'
  BY <1>0, <1>1, <1>3 DEF FlockUnsupported, Goto, EntryPlaced, TypeOK
<1>4. ASSUME NEW h \in Openers, Register(h) PROVE EntryPlaced'
  BY <1>0, <1>4 DEF Register, Goto, EntryPlaced, TypeOK
<1>5. ASSUME NEW h \in Openers,
             \/ RegisterRefused(h) \/ Flock(h) \/ FlockDenied(h) \/ FlockFails(h)
             \/ Probe(h) \/ ProbeUndo(h) \/ CloseFd(h)
      PROVE  EntryPlaced'
  BY <1>0, <1>5 DEF RegisterRefused, Flock, FlockDenied, FlockFails, Probe, ProbeUndo, CloseFd, Goto,
     EntryPlaced, TypeOK
<1>6. ASSUME NEW h \in Openers, NEW f \in Files, NEW m \in {"sh", "ex"}, Open(h, f, m)
      PROVE  EntryPlaced'
  BY <1>0, <1>6 DEF Open, Goto, EntryPlaced, TypeOK
<1>7. ASSUME NEW q \in Procs, Exit(q) PROVE EntryPlaced'
  BY <1>0, <1>7 DEF Exit, EntryPlaced, TypeOK
<1>8. CASE UNCHANGED vars
  BY <1>0, <1>8 DEF vars, EntryPlaced
<1> QED BY <1>2, <1>3, <1>4, <1>5, <1>6, <1>7, <1>8 DEF Next, OpenStep

LEMMA FlockPlacedNext == LockInv /\ [Next]_vars => FlockPlaced'
<1> SUFFICES ASSUME LockInv, [Next]_vars, NEW g \in Openers
             PROVE  /\ oslock'[g] = FlockOf(g)'
                    /\ pc'[g] \in {"denied", "errored", "probing", "probed"} => Flocks'
                    /\ fs' = "other" => pc'[g] # "registered"
                    /\ fs' = "nolocks" /\ pc'[g] = "held" => mode'[g] = "sh"
  BY DEF FlockPlaced
<1>0. TypeOK /\ FlockPlaced
  BY DEF LockInv
<1> USE <1>0 DEF FlockOf, Flocks, FlockPlaced, TypeOK, Goto, PCs, Platforms, world
<1>1. ASSUME NEW h \in Openers, GiveUp(h) \/ Close(h) PROVE FlockPlaced'
  BY <1>1 DEF GiveUp, Close
<1>3. ASSUME NEW h \in Openers, FlockUnsupported(h) PROVE FlockPlaced'
  BY <1>3 DEF FlockUnsupported
<1>4. ASSUME NEW h \in Openers, Register(h) \/ RegisterRefused(h) PROVE FlockPlaced'
  BY <1>4 DEF Register, RegisterRefused
<1>5. ASSUME NEW h \in Openers, Flock(h) \/ FlockDenied(h) \/ FlockFails(h) PROVE FlockPlaced'
  BY <1>5 DEF Flock, FlockDenied, FlockFails
<1>6. ASSUME NEW h \in Openers, Probe(h) \/ ProbeUndo(h) PROVE FlockPlaced'
  BY <1>6 DEF Probe, ProbeUndo
<1>7. ASSUME NEW h \in Openers, CloseFd(h) PROVE FlockPlaced'
  BY <1>7 DEF CloseFd
<1>8. ASSUME NEW h \in Openers, NEW f \in Files, NEW m \in {"sh", "ex"}, Open(h, f, m)
      PROVE  FlockPlaced'
  BY <1>8 DEF Open
<1>9. ASSUME NEW q \in Procs, Exit(q) PROVE FlockPlaced'
  BY <1>9 DEF Exit
<1>10. CASE UNCHANGED vars
  BY <1>10 DEF vars
<1> QED BY <1>1, <1>3, <1>4, <1>5, <1>6, <1>7, <1>8, <1>9, <1>10 DEF Next, OpenStep

(* Locks appear by Flock and by Probe, both granted by flock(2); elsewhere *)
(* they only disappear, and no file changes under a lock.                  *)
LEMMA FlocksAgreeNext == LockInv /\ [Next]_vars => FlocksAgree'
<1> SUFFICES ASSUME LockInv, [Next]_vars PROVE FlocksAgree'
  OBVIOUS
<1>0. TypeOK /\ FlockPlaced /\ FlocksAgree
  BY DEF LockInv
<1>1. ASSUME NEW h \in Openers, NEW m \in {"sh", "ex"}, Grantable(h, m),
             oslock[h] = "none", oslock' = [oslock EXCEPT ![h] = m], UNCHANGED <<world, file>>
      PROVE  FlocksAgree'
  BY <1>0, <1>1 DEF Grantable, FlocksAgree, TypeOK, world
<1>2. ASSUME UNCHANGED world,
             \A g \in Openers : oslock'[g] # "none" => oslock'[g] = oslock[g] /\ file'[g] = file[g]
      PROVE  FlocksAgree'
  BY <1>0, <1>2 DEF FlocksAgree, world
<1>3. ASSUME NEW h \in Openers, Flock(h) PROVE FlocksAgree'
  <2>1. oslock[h] = "none" /\ mode[h] \in {"sh", "ex"}
    BY <1>0, <1>3 DEF Flock, Goto, FlockPlaced, FlockOf, TypeOK
  <2> QED BY <1>1, <1>3, <2>1 DEF Flock
<1>4. ASSUME NEW h \in Openers, Probe(h) PROVE FlocksAgree'
  <2>1. oslock[h] = "none"
    BY <1>0, <1>4 DEF Probe, Goto, FlockPlaced, FlockOf
  <2>2. CASE Grantable(h, "sh") /\ oslock' = [oslock EXCEPT ![h] = "sh"]
    BY <1>1, <1>4, <2>1, <2>2 DEF Probe
  <2>3. CASE UNCHANGED oslock
    BY <1>2, <1>4, <2>3 DEF Probe
  <2> QED BY <1>4, <2>2, <2>3 DEF Probe
<1>5. ASSUME NEW h \in Openers, ProbeUndo(h) \/ CloseFd(h) PROVE FlocksAgree'
  BY <1>0, <1>2, <1>5 DEF ProbeUndo, CloseFd, TypeOK
<1>6. ASSUME NEW h \in Openers, NEW f \in Files, NEW m \in {"sh", "ex"}, Open(h, f, m)
      PROVE  FlocksAgree'
  <2>1. oslock[h] = "none"
    BY <1>0, <1>6 DEF Open, Goto, FlockPlaced, FlockOf
  <2> QED BY <1>0, <1>2, <1>6, <2>1 DEF Open, TypeOK
<1>7. ASSUME NEW q \in Procs, Exit(q) PROVE FlocksAgree'
  BY <1>0, <1>2, <1>7 DEF Exit, TypeOK
<1>8. ASSUME NEW h \in Openers,
             \/ Register(h) \/ RegisterRefused(h) \/ FlockDenied(h) \/ FlockFails(h) \/ FlockUnsupported(h)
             \/ GiveUp(h) \/ Close(h)
      PROVE  FlocksAgree'
  BY <1>2, <1>8 DEF Register, RegisterRefused, FlockDenied, FlockFails, FlockUnsupported, GiveUp, Close
<1>9. CASE UNCHANGED vars
  BY <1>2, <1>9 DEF vars
<1> QED BY <1>3, <1>4, <1>5, <1>6, <1>7, <1>8, <1>9 DEF Next, OpenStep

LEMMA LockNext == LockInv /\ [Next]_vars => LockInv'
  BY TypeNext, EntryNext, FlockPlacedNext, FlocksAgreeNext, RegistryNext DEF LockInv

(* Every variable of the lock keeps its type.                              *)
THEOREM LockTypeCorrect == Spec => []TypeOK
<1>1. LockInv => TypeOK
  BY DEF LockInv
<1> QED BY <1>1, LockInit, LockNext, PTL DEF Spec

(* hostLockTable agrees with hostLockPath and hostLockMode in every state. *)
THEOREM RegistryIsExact == Spec => []RegistryExact
<1>1. LockInv => RegistryExact
  BY DEF LockInv
<1> QED BY <1>1, LockInit, LockNext, PTL DEF Spec

(* However its last open ended, an opener that starts over has neither an  *)
(* entry nor a flock.                                                      *)
THEOREM NothingLeftBehind == Spec => []NoStaleLock
<1>1. LockInv => NoStaleLock
  BY DEF LockInv, NoStaleLock, EntryPlaced, FlockPlaced, FlockOf
<1> QED BY <1>1, LockInit, LockNext, PTL DEF Spec

(* Two entries of one process that clash cannot be, by the count kept for  *)
(* their file: it says one writer alone, or readers only.                  *)
LEMMA NoClashInProcess ==
  ASSUME LockInv, NEW g \in entry, NEW h \in entry, ProcOf[g] = ProcOf[h], file[g] = file[h],
         mode[g] = "ex", g # h
  PROVE  FALSE
<1> DEFINE E == EntriesOf(ProcOf[g], file[g])
<1>1. g \in E /\ h \in E
  BY DEF EntriesOf
<1>2. IsFiniteSet(E)
  BY EntriesFinite DEF LockInv, TypeOK
<1>3. ProcOf[g] \in Procs /\ file[g] \in Files
  BY Placed DEF LockInv, TypeOK
<1>4. Cardinality(E) = 1
  BY <1>1, <1>3 DEF LockInv, RegistryExact
<1>5. \E x : E = {x}
  BY <1>2, <1>4, FS_Singleton
<1> QED BY <1>1, <1>5

LEMMA InvExclusive == LockInv => Exclusive
<1> SUFFICES ASSUME LockInv, NEW g \in Openers, NEW h \in Openers, Held(g), Held(h), Clash(g, h)
             PROVE  fs = "other" /\ ProcOf[g] # ProcOf[h]
  BY DEF Exclusive
<1>1. g \in entry /\ h \in entry
  BY DEF LockInv, EntryPlaced, Held
<1>2. g # h /\ file[g] = file[h] /\ (mode[g] = "ex" \/ mode[h] = "ex")
  BY DEF Clash
<1>3. ProcOf[g] # ProcOf[h]
  BY <1>1, <1>2, NoClashInProcess
<1>4. CASE Flocks
  <2>1. oslock[g] = mode[g] /\ oslock[h] = mode[h]
    BY <1>4 DEF LockInv, FlockPlaced, FlockOf, Held
  <2>2. mode[g] \in {"sh", "ex"} /\ mode[h] \in {"sh", "ex"}
    BY DEF LockInv, TypeOK
  <2> QED BY <1>2, <1>3, <2>1, <2>2 DEF LockInv, FlocksAgree
<1>5. CASE fs = "nolocks"
  BY <1>2, <1>5 DEF LockInv, FlockPlaced, Held
<1> QED BY <1>3, <1>4, <1>5 DEF LockInv, TypeOK, Platforms, Flocks

(* A database file open for writing is open nowhere else in its process,   *)
(* and, where there is flock, nowhere else at all.                         *)
THEOREM WriterIsAlone == Spec => []Exclusive
  BY InvExclusive, LockInit, LockNext, PTL DEF Spec

-----------------------------------------------------------------------------
(* Who is in the way of an open that is turned down.                       *)
LEMMA CountedIsThere ==
  ASSUME LockInv, NEW h \in Openers, pc[h] = "opened", Count(h) # 0
  PROVE  \E g \in entry \ {h} : ProcOf[g] = ProcOf[h] /\ file[g] = file[h]
<1> DEFINE E == EntriesOf(ProcOf[h], file[h])
<1>1. IsFiniteSet(E)
  BY EntriesFinite DEF LockInv, TypeOK
<1>2. Cardinality(E) # 0
  BY Placed DEF LockInv, RegistryExact, Count
<1>3. E # {}
  BY <1>1, <1>2, FS_EmptySet
<1>4. h \notin entry
  BY DEF LockInv, EntryPlaced
<1> QED BY <1>3, <1>4 DEF EntriesOf, LockInv, TypeOK

(* The two ways to be turned down, each by its only action.                *)
LEMMA TurnedDown ==
  ASSUME TypeOK, [Next]_vars, NEW h \in Openers
  PROVE  /\ pc[h] = "opened" /\ pc'[h] = "rejected" => RegisterRefused(h)
         /\ pc[h] = "registered" /\ pc'[h] = "denied" => FlockDenied(h)
<1>1. ASSUME NEW k \in Openers,
             \/ OpenStep(k) \/ Close(k) \/ \E f \in Files, m \in {"sh", "ex"} : Open(k, f, m)
      PROVE  /\ pc[h] = "opened" /\ pc'[h] = "rejected" => RegisterRefused(h)
             /\ pc[h] = "registered" /\ pc'[h] = "denied" => FlockDenied(h)
  BY <1>1 DEF OpenStep, Register, RegisterRefused, Flock, FlockUnsupported, FlockDenied, FlockFails,
     GiveUp, Probe, ProbeUndo, CloseFd, Close, Open, Goto, TypeOK
<1>2. ASSUME NEW q \in Procs, Exit(q)
      PROVE  pc'[h] \notin {"rejected", "denied"} \/ pc'[h] = pc[h]
  BY <1>2 DEF Exit, TypeOK
<1>3. CASE UNCHANGED vars
  BY <1>3 DEF vars
<1> QED BY <1>1, <1>2, <1>3 DEF Next

LEMMA RefusalStep ==
  ASSUME LockInv, [Next]_vars, NEW h \in Openers, pc[h] = "opened", pc'[h] = "rejected"
  PROVE  \E g \in entry \ {h} : ProcOf[g] = ProcOf[h] /\ file[g] = file[h]
<1>1. RegisterRefused(h) /\ TypeOK
  BY TurnedDown DEF LockInv
<1>2. Count(h) # 0
  BY <1>1, Placed DEF RegisterRefused, Count, TypeOK
<1> QED BY <1>2, CountedIsThere

LEMMA DenialStep ==
  ASSUME LockInv, [Next]_vars, NEW h \in Openers, pc[h] = "registered", pc'[h] = "denied"
  PROVE  \E g \in Openers \ {h} :
            /\ file[g] = file[h] /\ oslock[g] # "none"
            /\ ProcOf[g] # ProcOf[h] \/ g \notin entry
<1>0. FlockDenied(h) /\ TypeOK
  BY TurnedDown DEF LockInv
<1>1. PICK g \in Openers \ {h} :
         /\ file[g] = file[h] /\ oslock[g] # "none" /\ (mode[h] = "ex" \/ oslock[g] = "ex")
         /\ ~(fs = "merged" /\ ProcOf[g] = ProcOf[h])
  BY <1>0 DEF FlockDenied, Grantable
<1>2. CASE ProcOf[g] = ProcOf[h] /\ g \in entry
  <2>1. h \in entry
    BY DEF LockInv, EntryPlaced
  <2>2. pc[g] = "held"
    BY <1>1, <1>2 DEF LockInv, EntryPlaced, FlockPlaced, FlockOf
  <2>3. oslock[g] = mode[g]
    BY <1>1, <2>2 DEF LockInv, FlockPlaced, FlockOf
  <2> QED BY <1>1, <1>2, <2>1, <2>3, NoClashInProcess
<1> QED BY <1>1, <1>2

(* Who is in the way of an open that is turned down: for the registry, an  *)
(* opener of its process that has not closed its file; for flock, never    *)
(* two entries of one registry.                                            *)
THEOREM RefusalHasCause == Spec => RefusalJustified
<1>1. LockInv /\ [Next]_vars
      => [\A h \in Openers :
            /\ pc[h] = "opened" /\ pc'[h] = "rejected" =>
                  \E g \in entry \ {h} : ProcOf[g] = ProcOf[h] /\ file[g] = file[h]
            /\ pc[h] = "registered" /\ pc'[h] = "denied" =>
                  \E g \in Openers \ {h} :
                     /\ file[g] = file[h] /\ oslock[g] # "none"
                     /\ ProcOf[g] # ProcOf[h] \/ g \notin entry]_vars
  BY RefusalStep, DenialStep
<1> QED BY <1>1, LockInit, LockNext, PTL DEF Spec, RefusalJustified

-----------------------------------------------------------------------------
(* The lock implements RWLock: an opener acquires when its open succeeds,  *)
(* releases when its file is closed, and what is granted is compatible.    *)
LEMMA NothingGained ==
  ASSUME UNCHANGED world,
         \A g \in Openers : Held(g)' => Held(g) /\ file'[g] = file[g] /\ mode'[g] = mode[g]
  PROVE  Abstract!Next
<1>1. Granted' \subseteq Granted
  BY DEF Granted, Scope, world
<1>2. Granted' = Granted \ (Granted \ Granted')
  BY <1>1
<1>3. (Granted \ Granted') \in SUBSET Granted
  OBVIOUS
<1>4. Abstract!Release
  BY <1>2, <1>3 DEF Abstract!Release
<1> QED BY <1>4 DEF Abstract!Next

LEMMA OneGained ==
  ASSUME TypeOK, Exclusive', NEW h \in Openers, ~Held(h), pc' = [pc EXCEPT ![h] = "held"],
         UNCHANGED <<world, file, mode>>
  PROVE  Abstract!Next
<1> DEFINE l == [by |-> h, file |-> Scope(h), mode |-> mode[h]]
<1>0. ProcOf[h] \in Procs /\ file[h] \in Files /\ mode[h] \in {"sh", "ex"}
  BY Placed DEF TypeOK
<1>1. l \in Abstract!Locks
  <2>1. Scope(h) \in Files \X SUBSET Procs
    BY <1>0 DEF Scope
  <2> QED BY <2>1, <1>0 DEF Abstract!Locks, Abstract!Modes
<1>2. \A g \in Openers : Held(g)' <=> Held(g) \/ g = h
  BY DEF Held, TypeOK
<1>3. Granted' = Granted \cup {l}
  BY <1>2 DEF Granted, Scope, world
<1>4. ASSUME NEW k \in Granted PROVE Abstract!Compatible(k, l)
  <2>1. PICK g \in Openers : Held(g) /\ k = [by |-> g, file |-> Scope(g), mode |-> mode[g]]
    BY DEF Granted
  <2>2. g # h /\ Held(g)' /\ Held(h)'
    BY <2>1, <1>2
  <2>3. ASSUME Scope(g) = Scope(h) PROVE mode[g] = "sh" /\ mode[h] = "sh"
    <3>1. file[g] = file[h] /\ (fs = "other" => ProcOf[g] = ProcOf[h])
      BY <2>3 DEF Scope
    <3>2. ~Clash(g, h)'
      BY <2>2, <3>1 DEF Exclusive, world
    <3>3. mode[g] # "ex" /\ mode[h] # "ex"
      BY <2>2, <3>1, <3>2 DEF Clash
    <3> QED BY <3>3 DEF TypeOK
  <2> QED BY <2>1, <2>2, <2>3 DEF Abstract!Compatible
<1>5. Abstract!Acquire(l)
  BY <1>3, <1>4 DEF Abstract!Acquire
<1> QED BY <1>1, <1>5 DEF Abstract!Next

LEMMA StepRefines == LockInv /\ LockInv' /\ [Next]_vars => [Abstract!Next]_Granted
<1> SUFFICES ASSUME LockInv, LockInv', [Next]_vars PROVE Abstract!Next
  OBVIOUS
<1>0. TypeOK /\ Exclusive'
  <2>1. LockInv' => Exclusive'
    BY InvExclusive, PTL
  <2> QED BY <2>1 DEF LockInv
<1>1. ASSUME NEW h \in Openers, Register(h) PROVE Abstract!Next
  <2>1. CASE fs = "other"
    BY <1>0, <1>1, <2>1, OneGained DEF Register, Goto, Held
  <2>2. CASE fs # "other"
    BY <1>0, <1>1, <2>2, NothingGained DEF Register, Goto, Held, TypeOK
  <2> QED BY <2>1, <2>2
<1>2. ASSUME NEW h \in Openers, Flock(h) PROVE Abstract!Next
  BY <1>0, <1>2, OneGained DEF Flock, Goto, Held
<1>3. ASSUME NEW h \in Openers, FlockUnsupported(h) PROVE Abstract!Next
  <2>1. CASE mode[h] = "sh"
    BY <1>0, <1>3, <2>1, OneGained DEF FlockUnsupported, Goto, Held
  <2>2. CASE mode[h] # "sh"
    BY <1>0, <1>3, <2>2, NothingGained DEF FlockUnsupported, Goto, Held, TypeOK
  <2> QED BY <2>1, <2>2
<1>4. ASSUME NEW h \in Openers,
             \/ RegisterRefused(h) \/ FlockDenied(h) \/ FlockFails(h) \/ GiveUp(h) \/ ProbeUndo(h)
             \/ CloseFd(h) \/ Close(h)
      PROVE  Abstract!Next
  BY <1>0, <1>4, NothingGained DEF RegisterRefused, FlockDenied, FlockFails, GiveUp, ProbeUndo,
     CloseFd, Close, Goto, Held, TypeOK
<1>5. ASSUME NEW h \in Openers, Probe(h) PROVE Abstract!Next
  BY <1>0, <1>5, NothingGained DEF Probe, Goto, Held, TypeOK
<1>6. ASSUME NEW h \in Openers, NEW f \in Files, NEW m \in {"sh", "ex"}, Open(h, f, m)
      PROVE  Abstract!Next
  BY <1>0, <1>6, NothingGained DEF Open, Goto, Held, TypeOK
<1>7. ASSUME NEW q \in Procs, Exit(q) PROVE Abstract!Next
  BY <1>0, <1>7, NothingGained DEF Exit, Held, TypeOK
<1>8. CASE UNCHANGED vars
  BY <1>8, NothingGained DEF vars, Held
<1> QED BY <1>1, <1>2, <1>3, <1>4, <1>5, <1>6, <1>7, <1>8 DEF Next, OpenStep

(* The database-file lock is a reader/writer lock per file, and per file   *)
(* and process where there is no flock.                                    *)
THEOREM LockIsRWLock == Spec => ImplementsRWLock
<1>1. Init => Abstract!Init
  BY DEF Init, Granted, Held, Abstract!Init
<1> QED BY <1>1, StepRefines, LockInit, LockNext, PTL DEF Spec, ImplementsRWLock, Abstract!Spec
=============================================================================
