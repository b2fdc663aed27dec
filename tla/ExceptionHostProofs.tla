------------------------ MODULE ExceptionHostProofs -------------------------
(***************************************************************************)
(* What holds of the exception host for every program: any exceptions and  *)
(* types, clause lists of any length, any depth of nesting, any number of  *)
(* exception_ptrs.                                                         *)
(***************************************************************************)
EXTENDS ExceptionHost, FiniteSetTheorems, SequenceTheorems, WellFoundedInduction, TLAPS

(* Each frame holds the exceptions of its kind.  A landing pad is at work  *)
(* only while an exception unwinds, and has that one; the host remembers   *)
(* what unwinds.                                                           *)
Shaped(f) ==
    /\ f.kind = "try" => f.exc = NoExc /\ f.in = NoExc
    /\ f.kind = "pad" => f.exc \in Excs /\ f.in = NoExc
    /\ f.kind = "catch" => f.exc = NoExc /\ f.in \in Excs
    /\ f.kind = "cleanup" => f.exc \in Excs /\ f.in = NoExc
    /\ f.kind = "leave" => f.exc \in Excs /\ f.in \in Excs
FramesShaped ==
    /\ \A i \in 1 .. Depth : Shaped(frames[i])
    /\ \A i \in 1 .. Depth :
          frames[i].kind = "pad" => i = Depth /\ flight # NoExc /\ frames[i].exc = flight
    /\ flight # NoExc => last = flight

(* Between two destructors' frames, and above the innermost one when an    *)
(* exception unwinds, there is a catch (...): nothing leaves a destructor  *)
(* or the C API.                                                           *)
Barrier(i) == frames[i].kind \in {"cleanup", "leave"}
Catcher(i) ==
    /\ frames[i].kind \in {"try", "pad"}
    /\ \E k \in 1 .. Len(frames[i].clauses) : frames[i].clauses[k] = CatchAll
Contained ==
    \A i \in 0 .. Depth, k \in 1 .. Depth + 1 :
        /\ i = 0 \/ Barrier(i)
        /\ i < k
        /\ IF k = Depth + 1 THEN flight # NoExc ELSE Barrier(k)
        => \E j \in i + 1 .. k - 1 : Catcher(j)

(* In running code, "last" is either forgotten or the exception of the     *)
(* innermost handler or destructor.                                        *)
LastShown ==
    flight = NoExc /\ last # NoExc =>
        \E i \in 1 .. Depth :
            /\ frames[i].kind # "try" /\ last \in {frames[i].exc, frames[i].in}
            /\ \A j \in i + 1 .. Depth : frames[j].kind = "try"

(* An exception is on its way in one place at a time.                      *)
PassingOnce ==
    /\ \A i, j \in 1 .. Depth :
          frames[i].exc = frames[j].exc /\ frames[i].exc # NoExc => i = j
    /\ \A i \in 1 .. Depth :
          frames[i].exc = flight /\ flight # NoExc => frames[i].kind = "pad"

(* Every reference is a handler's or an exception_ptr's; an object is      *)
(* alive for them or because it is on its way, and if it is both, only     *)
(* its rethrown flag keeps it alive when the last reference goes.          *)
Underway(e) == e = flight \/ \E i \in 1 .. Depth : frames[i].exc = e
Holders(e) == {n \in 1 .. Len(caught) : caught[n] = e}
RefsCounted == \A e \in Excs : header[e].ref = Cardinality(Holders(e)) + ptrs[e]
AliveExact ==
    \A e \in Excs :
        /\ header[e].alive <=> header[e].ref > 0 \/ Underway(e)
        /\ header[e].rethrown => Underway(e)
        /\ Underway(e) /\ header[e].ref > 0 => header[e].rethrown

(* No two types share an id, and none has that of catch (...).             *)
IdsApart ==
    /\ nextType >= FirstId
    /\ \A t \in Types : typeIDs[t] # NoId => FirstId <= typeIDs[t] /\ typeIDs[t] < nextType
    /\ \A s, t \in Types : typeIDs[s] = typeIDs[t] /\ typeIDs[s] # NoId => s = t

(* A landing pad was told the id of the first clause that takes the        *)
(* exception, and has not gone past it.                                    *)
Known(c) == c = CatchAll \/ typeIDs[c] # NoId
PadOnCourse ==
    \A i \in 1 .. Depth :
        frames[i].kind = "pad" =>
            LET cs == frames[i].clauses
                c  == FirstClause(cs, header[flight].type)
            IN  /\ frames[i].at >= 1
                /\ c = NoType => tempRet0 = 0
                /\ c # NoType => Known(c) /\ tempRet0 = IdOf(c)
                /\ \A k \in 1 .. Len(cs) : k < frames[i].at => cs[k] # c /\ cs[k] # CatchAll

HostInv ==
    /\ TypeOK /\ FramesShaped /\ Contained /\ LastShown /\ PassingOnce
    /\ RefsCounted /\ AliveExact /\ CaughtIsHandlers /\ IdsApart /\ PadOnCourse
-----------------------------------------------------------------------------
(* Numbers and sequences.                                                  *)
LEMMA LeastOf ==
  ASSUME NEW S \in SUBSET Nat, S # {}
  PROVE  \E x \in S : \A y \in S : x <= y
<1>1. IsWellFoundedOn(OpToRel(<, Nat), Nat)
  BY NatLessThanWellFounded
<1>2. PICK x \in S : \A y \in S : ~ (<<y, x>> \in OpToRel(<, Nat))
  BY <1>1, WFMin
<1>3. \A y \in S : ~ (y < x)
  BY <1>2 DEF OpToRel
<1> QED BY <1>3

(* The first clause that takes a type, if one does.                        *)
LEMMA FirstClauseTakes ==
  ASSUME NEW cs \in Clauses \cup {<<>>}, NEW t
  PROVE  \/ FirstClause(cs, t) = NoType /\ \A i \in 1 .. Len(cs) : ~CanTake(cs[i], t)
         \/ \E i \in 1 .. Len(cs) :
               /\ FirstClause(cs, t) = cs[i] /\ cs[i] \in Types \cup {CatchAll}
               /\ CanTake(cs[i], t) /\ \A j \in 1 .. Len(cs) : CanTake(cs[j], t) => i <= j
<1> DEFINE takes == {i \in 1 .. Len(cs) : CanTake(cs[i], t)}
<1>1. cs \in Seq(Types \cup {CatchAll})
  BY ExcAssumption, EmptySeq
<1>2. Len(cs) \in Nat /\ \A i \in 1 .. Len(cs) : cs[i] \in Types \cup {CatchAll}
  BY <1>1, LenProperties, ElementOfSeq
<1>3. CASE takes = {}
  BY <1>3 DEF FirstClause
<1>4. CASE takes # {}
  <2>1. takes \in SUBSET Nat
    BY <1>2
  <2>2. \E i \in takes : \A j \in takes : i <= j
    BY <2>1, <1>4, LeastOf
  <2> DEFINE i == CHOOSE i \in takes : \A j \in takes : i <= j
  <2>3. i \in takes /\ \A j \in takes : i <= j
    BY <2>2
  <2>4. FirstClause(cs, t) = cs[i]
    BY <1>4 DEF FirstClause
  <2> HIDE DEF i
  <2> QED BY <2>3, <2>4, <1>2
<1> QED BY <1>3, <1>4

(* The three ways in which a step changes the stack.                       *)
Pushes(f) ==
    /\ Len(frames') = Depth + 1 /\ frames'[Depth + 1] = f
    /\ \A i \in 1 .. Depth : frames'[i] = frames[i]
Replaces(f) ==
    /\ Depth >= 1 /\ Len(frames') = Depth /\ frames'[Depth] = f
    /\ \A i \in 1 .. Depth - 1 : frames'[i] = frames[i]
Pops ==
    /\ Depth >= 1 /\ Len(frames') = Depth - 1
    /\ \A i \in 1 .. Depth - 1 : frames'[i] = frames[i]

LEMMA DepthTyped ==
  ASSUME TypeOK
  PROVE  /\ Depth \in Nat /\ Depth <= MaxDepth /\ MaxDepth \in Nat
         /\ \A i \in 1 .. Depth : frames[i] \in FrameTypes
         /\ Depth # 0 => Top = frames[Depth]
  BY LenProperties, ElementOfSeq, ExcAssumption DEF TypeOK, Depth, Top, TopOf

LEMMA PopSeq ==
  ASSUME NEW S, NEW s \in Seq(S), Len(s) >= 1
  PROVE  /\ Pop(s) \in Seq(S) /\ Len(Pop(s)) = Len(s) - 1
         /\ \A i \in 1 .. Len(s) - 1 : Pop(s)[i] = s[i]
<1>1. Len(s) \in Nat /\ \A i \in 1 .. Len(s) : s[i] \in S
  BY LenProperties, ElementOfSeq
<1>2. \A i \in 1 .. Len(s) - 1 : s[i] \in S
  BY <1>1
<1>3. /\ SubSeq(s, 1, Len(s) - 1) \in Seq(S)
      /\ Len(SubSeq(s, 1, Len(s) - 1))
           = IF 1 <= Len(s) - 1 THEN (Len(s) - 1) - 1 + 1 ELSE 0
      /\ \A i \in 1 .. (Len(s) - 1) - 1 + 1 :
            SubSeq(s, 1, Len(s) - 1)[i] = s[1 + i - 1]
  BY <1>1, <1>2, SubSeqProperties
<1>4. \A i \in 1 .. Len(s) - 1 : SubSeq(s, 1, Len(s) - 1)[i] = s[i]
  BY <1>1, <1>3
<1>5. Len(SubSeq(s, 1, Len(s) - 1)) = Len(s) - 1
  <2>1. \A n \in Nat : n >= 1 => (IF 1 <= n - 1 THEN (n - 1) - 1 + 1 ELSE 0) = n - 1
    OBVIOUS
  <2> QED BY <2>1, <1>1, <1>3
<1> QED BY <1>3, <1>4, <1>5 DEF Pop

LEMMA PopsTop ==
  ASSUME TypeOK, Depth >= 1, frames' = Pop(frames)
  PROVE  Pops /\ frames' \in Seq(FrameTypes)
  BY PopSeq DEF TypeOK, Depth, Pops

LEMMA ReplacesTop ==
  ASSUME TypeOK, Depth >= 1, NEW f \in FrameTypes, frames' = Append(Pop(frames), f)
  PROVE  Replaces(f) /\ frames' \in Seq(FrameTypes)
<1> DEFINE s == Pop(frames)
<1>1. /\ s \in Seq(FrameTypes) /\ Len(s) = Depth - 1
      /\ \A i \in 1 .. Depth - 1 : s[i] = frames[i]
  BY PopSeq DEF TypeOK, Depth
<1>2. Depth \in Nat
  BY DepthTyped
<1> HIDE DEF s
<1>3. /\ Append(s, f) \in Seq(FrameTypes) /\ Len(Append(s, f)) = Len(s) + 1
      /\ \A i \in 1 .. Len(s) : Append(s, f)[i] = s[i]
      /\ Append(s, f)[Len(s) + 1] = f
  BY <1>1, AppendProperties
<1>4. frames' = Append(s, f)
  BY DEF s
<1> QED BY <1>1, <1>2, <1>3, <1>4 DEF Replaces

LEMMA PushesTop ==
  ASSUME TypeOK, NEW f \in FrameTypes, frames' = Append(frames, f)
  PROVE  Pushes(f) /\ frames' \in Seq(FrameTypes)
  BY AppendProperties DEF TypeOK, Depth, Pushes
-----------------------------------------------------------------------------
(* What a part of the invariant needs of a step to stay true.              *)
LEMMA RefsSame ==
  ASSUME RefsCounted, UNCHANGED <<header, ptrs, caught>>
  PROVE  RefsCounted'
  BY DEF RefsCounted, Holders

LEMMA AliveSame ==
  ASSUME AliveExact, header' = header, \A e \in Excs : Underway(e)' <=> Underway(e)
  PROVE  AliveExact'
  BY DEF AliveExact

LEMMA IdsSame ==
  ASSUME IdsApart, UNCHANGED <<typeIDs, nextType>>
  PROVE  IdsApart'
  BY DEF IdsApart

LEMMA NoPads ==
  ASSUME FramesShaped, flight = NoExc
  PROVE  \A i \in 1 .. Depth : frames[i].kind # "pad"
  BY DEF FramesShaped

LEMMA PadsNone ==
  ASSUME \A i \in 1 .. Len(frames') : frames'[i].kind # "pad"
  PROVE  PadOnCourse'
  BY DEF PadOnCourse, Depth

LEMMA PadsGone ==
  ASSUME FramesShaped', flight' = NoExc
  PROVE  PadOnCourse'
  BY DEF FramesShaped, PadOnCourse

LEMMA HandlersSame ==
  ASSUME CaughtIsHandlers, caught' = caught, HandlerAt' = HandlerAt,
         \A i \in HandlerAt : frames'[i].in = frames[i].in
  PROVE  CaughtIsHandlers'
<1>1. PICK at \in [1 .. Len(caught) -> 1 .. Depth] :
        /\ {at[n] : n \in 1 .. Len(caught)} = HandlerAt
        /\ \A m, n \in 1 .. Len(caught) : m < n => at[m] < at[n]
        /\ \A n \in 1 .. Len(caught) : caught[n] = frames[at[n]].in
  BY DEF CaughtIsHandlers
<1>2. HandlerAt' \subseteq 1 .. Depth'
  BY DEF HandlerAt
<1>3. at \in [1 .. Len(caught') -> 1 .. Depth']
  BY <1>1, <1>2
<1>4. /\ {at[n] : n \in 1 .. Len(caught')} = HandlerAt'
      /\ \A m, n \in 1 .. Len(caught') : m < n => at[m] < at[n]
      /\ \A n \in 1 .. Len(caught') : caught'[n] = frames'[at[n]].in
  BY <1>1
<1> QED BY <1>3, <1>4 DEF CaughtIsHandlers

(* The frames of a program that may throw.                                 *)
LEMMA MayThrowCatchers ==
  ASSUME MayThrow, NEW i \in 0 .. Depth, i = 0 \/ Barrier(i)
  PROVE  \E j \in i + 1 .. Depth : Catcher(j)
<1>1. i \in {0} \cup {m \in 1 .. Depth : frames[m].kind \in {"cleanup", "leave"}}
  BY DEF Barrier
<1> QED BY <1>1 DEF MayThrow, Catcher

(* Something stands on the stack when an exception unwinds, and it can     *)
(* answer: no destructor does.                                             *)
LEMMA UnwindsInto ==
  ASSUME TypeOK, Contained, FramesShaped, flight # NoExc
  PROVE  /\ Depth >= 1 /\ Top = frames[Depth] /\ Top \in FrameTypes
         /\ Top.kind \in {"try", "pad", "catch"} /\ Shaped(Top)
<1>1. /\ Depth \in Nat /\ (Depth # 0 => Top = frames[Depth])
      /\ \A i \in 1 .. Depth : frames[i] \in FrameTypes
  BY DepthTyped
<1>2. \E j \in 0 + 1 .. (Depth + 1) - 1 : Catcher(j)
  BY <1>1 DEF Contained
<1>3. Depth >= 1 /\ Top = frames[Depth] /\ Top \in FrameTypes
  BY <1>1, <1>2
<1>4. ~Barrier(Depth)
  <2> SUFFICES ASSUME Barrier(Depth) PROVE FALSE
    OBVIOUS
  <2>1. \E j \in Depth + 1 .. (Depth + 1) - 1 : Catcher(j)
    BY <1>1, <1>3 DEF Contained
  <2> QED BY <2>1, <1>1
<1>5. Top.kind \in {"try", "pad", "catch"}
  <2>1. Top.kind \in {"try", "pad", "catch", "cleanup", "leave"}
    BY <1>3 DEF FrameTypes
  <2> QED BY <2>1, <1>3, <1>4 DEF Barrier
<1> QED BY <1>1, <1>3, <1>5 DEF FramesShaped

(* The innermost handler is the one on top of the host's stack.            *)
LEMMA HandlerOnTop ==
  ASSUME TypeOK, CaughtIsHandlers, Depth >= 1, Top.kind \in {"catch", "leave"}
  PROVE  caught # <<>> /\ Len(caught) \in Nat /\ Len(caught) >= 1
         /\ TopOf(caught) = Top.in /\ caught[Len(caught)] = Top.in
<1>1. Depth \in Nat /\ Top = frames[Depth] /\ Len(caught) \in Nat
  BY DepthTyped, LenProperties DEF TypeOK
<1>2. PICK at \in [1 .. Len(caught) -> 1 .. Depth] :
        /\ {at[n] : n \in 1 .. Len(caught)} = HandlerAt
        /\ \A m, n \in 1 .. Len(caught) : m < n => at[m] < at[n]
        /\ \A n \in 1 .. Len(caught) : caught[n] = frames[at[n]].in
  BY DEF CaughtIsHandlers
<1>3. Depth \in HandlerAt
  BY <1>1 DEF HandlerAt
<1>4. PICK n \in 1 .. Len(caught) : at[n] = Depth
  BY <1>2, <1>3
<1>5. n = Len(caught)
  BY <1>1, <1>2, <1>4
<1>6. caught # <<>>
  BY <1>1, <1>4, EmptySeq
<1> QED BY <1>1, <1>2, <1>4, <1>5, <1>6 DEF TopOf

LEMMA HoldersFinite ==
  ASSUME TypeOK, NEW e
  PROVE  IsFiniteSet(Holders(e)) /\ Cardinality(Holders(e)) \in Nat
         /\ (Cardinality(Holders(e)) = 0 <=> Holders(e) = {})
<1>1. Len(caught) \in Nat
  BY LenProperties DEF TypeOK
<1>2. IsFiniteSet(1 .. Len(caught))
  BY <1>1, FS_Interval
<1>3. IsFiniteSet(Holders(e))
  BY <1>2, FS_Subset DEF Holders
<1> QED BY <1>3, FS_CardinalityType, FS_EmptySet

LEMMA HoldersPush ==
  ASSUME TypeOK, NEW e \in Excs, caught' = Append(caught, e)
  PROVE  /\ caught' \in Seq(Excs) /\ Len(caught') = Len(caught) + 1
         /\ caught'[Len(caught) + 1] = e
         /\ \A n \in 1 .. Len(caught) : caught'[n] = caught[n]
         /\ Cardinality(Holders(e)') = Cardinality(Holders(e)) + 1
         /\ \A d \in Excs : d # e => Holders(d)' = Holders(d)
<1>1. /\ caught' \in Seq(Excs) /\ Len(caught') = Len(caught) + 1
      /\ caught'[Len(caught) + 1] = e /\ Len(caught) \in Nat
      /\ \A n \in 1 .. Len(caught) : caught'[n] = caught[n]
  BY AppendProperties, LenProperties DEF TypeOK
<1>2. /\ Holders(e)' = Holders(e) \cup {Len(caught) + 1}
      /\ Len(caught) + 1 \notin Holders(e)
  BY <1>1 DEF Holders
<1>3. Cardinality(Holders(e)') = Cardinality(Holders(e)) + 1
  BY <1>2, HoldersFinite, FS_AddElement
<1>4. \A d \in Excs : d # e => Holders(d)' = Holders(d)
  BY <1>1 DEF Holders
<1> QED BY <1>1, <1>3, <1>4

LEMMA HoldersPop ==
  ASSUME TypeOK, Len(caught) >= 1, NEW e, e = caught[Len(caught)], caught' = Pop(caught)
  PROVE  /\ caught' \in Seq(Excs) /\ Len(caught') = Len(caught) - 1 /\ e \in Excs
         /\ \A n \in 1 .. Len(caught) - 1 : caught'[n] = caught[n]
         /\ Cardinality(Holders(e)') = Cardinality(Holders(e)) - 1
         /\ Cardinality(Holders(e)) >= 1
         /\ \A d \in Excs : d # e => Holders(d)' = Holders(d)
<1>1. /\ caught' \in Seq(Excs) /\ Len(caught') = Len(caught) - 1
      /\ \A n \in 1 .. Len(caught) - 1 : caught'[n] = caught[n]
      /\ Len(caught) \in Nat /\ e \in Excs
  BY PopSeq, LenProperties, ElementOfSeq DEF TypeOK
<1>2. /\ Holders(e)' = Holders(e) \ {Len(caught)}
      /\ Len(caught) \in Holders(e)
  BY <1>1 DEF Holders
<1>3. Cardinality(Holders(e)') = Cardinality(Holders(e)) - 1
  BY <1>2, HoldersFinite, FS_RemoveElement
<1>4. \A d \in Excs : d # e => Holders(d)' = Holders(d)
  BY <1>1 DEF Holders
<1>5. Cardinality(Holders(e)) >= 1
  BY <1>2, HoldersFinite
<1> QED BY <1>1, <1>3, <1>4, <1>5

(* A handler's exception is alive, and so is one an exception_ptr owns.    *)
LEMMA HeldAlive ==
  ASSUME HostInv, NEW e \in Excs,
         \/ ptrs[e] > 0
         \/ \E n \in 1 .. Len(caught) : caught[n] = e
         \/ Underway(e)
  PROVE  header[e].alive /\ (~Underway(e) => header[e].ref > 0)
<1>1. /\ header[e].ref = Cardinality(Holders(e)) + ptrs[e] /\ ptrs[e] \in Nat
      /\ Cardinality(Holders(e)) \in Nat
      /\ Cardinality(Holders(e)) = 0 <=> Holders(e) = {}
  <2>1. TypeOK /\ RefsCounted
    BY DEF HostInv
  <2>2. header[e].ref = Cardinality(Holders(e)) + ptrs[e]
    BY <2>1 DEF RefsCounted
  <2>3. ptrs[e] \in Nat
    BY <2>1, ExcAssumption DEF TypeOK
  <2> QED BY <2>1, <2>2, <2>3, HoldersFinite
<1>2. (\E n \in 1 .. Len(caught) : caught[n] = e) => Holders(e) # {}
  BY DEF Holders
<1>3. header[e].alive <=> header[e].ref > 0 \/ Underway(e)
  BY DEF HostInv, AliveExact
<1>4. CASE Underway(e)
  BY <1>3, <1>4
<1>5. CASE ptrs[e] > 0 \/ \E n \in 1 .. Len(caught) : caught[n] = e
  BY <1>1, <1>2, <1>3, <1>5
<1> QED BY <1>4, <1>5

LEMMA HandledHeld ==
  ASSUME TypeOK, CaughtIsHandlers, NEW i \in HandlerAt
  PROVE  \E n \in 1 .. Len(caught) : caught[n] = frames[i].in
  BY DEF CaughtIsHandlers

(* Containment when the program goes on running ...                        *)
LEMMA ContainedRuns ==
  ASSUME TypeOK, Contained, flight' = NoExc, Len(frames') \in Nat,
         \A m \in 1 .. Len(frames') - 1 : m <= Depth /\ frames'[m] = frames[m],
         \A m \in 1 .. Len(frames') :
            m = Len(frames') /\ Barrier(m)' =>
               m <= Depth /\ (Barrier(m) \/ (m = Depth /\ flight # NoExc /\ ~Catcher(Depth)))
  PROVE  Contained'
<1>1. Depth \in Nat /\ Depth' = Len(frames')
  BY DepthTyped DEF Depth
<1>2. \A m \in 1 .. Len(frames') - 1 :
        m <= Depth /\ (Barrier(m)' <=> Barrier(m)) /\ (Catcher(m)' <=> Catcher(m))
  BY DEF Barrier, Catcher
<1> SUFFICES ASSUME NEW i \in 0 .. Len(frames'), NEW k \in 1 .. Len(frames'),
                    i = 0 \/ Barrier(i)', i < k, Barrier(k)'
             PROVE  \E j \in i + 1 .. k - 1 : Catcher(j)'
  BY <1>1 DEF Contained
<1>3. i \in 0 .. Depth /\ k \in 1 .. Depth /\ (i = 0 \/ Barrier(i))
  <2>1. i = 0 \/ i \in 1 .. Len(frames') - 1
    OBVIOUS
  <2>2. k = Len(frames') \/ k \in 1 .. Len(frames') - 1
    OBVIOUS
  <2>3. k <= Depth
    BY <2>2, <1>2
  <2> QED BY <2>1, <2>3, <1>1, <1>2
<1>4. \A j \in i + 1 .. k - 1 : Catcher(j)' <=> Catcher(j)
  BY <1>1, <1>2
<1>5. CASE Barrier(k)
  <2>1. k # Depth + 1 /\ k \in 1 .. Depth + 1
    BY <1>1, <1>3
  <2>2. \E j \in i + 1 .. k - 1 : Catcher(j)
    BY <2>1, <1>3, <1>5 DEF Contained
  <2> QED BY <2>2, <1>4
<1>6. CASE k = Len(frames') /\ Len(frames') = Depth /\ flight # NoExc /\ ~Catcher(Depth)
  <2>1. \E j \in i + 1 .. (Depth + 1) - 1 : Catcher(j)
    BY <1>1, <1>3, <1>6 DEF Contained
  <2>2. PICK j \in i + 1 .. Depth : Catcher(j)
    BY <2>1, <1>1
  <2>3. j \in i + 1 .. k - 1
    BY <2>2, <1>1, <1>3, <1>6
  <2> QED BY <2>2, <2>3, <1>4
<1>7. k = Len(frames') \/ k \in 1 .. Len(frames') - 1
  OBVIOUS
<1> QED BY <1>2, <1>5, <1>6, <1>7

(* ... when it throws ...                                                  *)
LEMMA ContainedThrows ==
  ASSUME TypeOK, Contained, frames' = frames, flight = NoExc, MayThrow
  PROVE  Contained'
<1>1. Depth \in Nat /\ Depth' = Depth
  BY DepthTyped DEF Depth
<1>2. \A m \in 1 .. Depth : (Barrier(m)' <=> Barrier(m)) /\ (Catcher(m)' <=> Catcher(m))
  BY DEF Barrier, Catcher
<1> SUFFICES ASSUME NEW i \in 0 .. Depth, NEW k \in 1 .. Depth + 1,
                    i = 0 \/ Barrier(i)', i < k, k # Depth + 1 => Barrier(k)'
             PROVE  \E j \in i + 1 .. k - 1 : Catcher(j)'
  BY <1>1 DEF Contained
<1>3. i = 0 \/ Barrier(i)
  BY <1>1, <1>2
<1>4. CASE k = Depth + 1
  <2>1. PICK j \in i + 1 .. Depth : Catcher(j)
    BY <1>3, MayThrowCatchers
  <2>2. j \in i + 1 .. k - 1 /\ j \in 1 .. Depth
    BY <2>1, <1>1, <1>4
  <2> QED BY <2>1, <2>2, <1>2
<1>5. CASE k # Depth + 1
  <2>1. k \in 1 .. Depth /\ Barrier(k)
    BY <1>1, <1>2, <1>5
  <2>2. PICK j \in i + 1 .. k - 1 : Catcher(j)
    BY <2>1, <1>3, <1>5 DEF Contained
  <2>3. j \in 1 .. Depth
    BY <2>2, <1>1
  <2> QED BY <2>2, <2>3, <1>2
<1> QED BY <1>4, <1>5

(* ... and when a landing pad takes the place of its block.                *)
LEMMA ContainedUnwinds ==
  ASSUME TypeOK, Contained, NEW f \in FrameTypes, Replaces(f), flight # NoExc, flight' = flight,
         f.kind = "pad", frames[Depth].kind \in {"try", "pad"}, f.clauses = frames[Depth].clauses
  PROVE  Contained'
<1>1. Depth \in Nat /\ Depth' = Depth /\ Depth >= 1
  BY DepthTyped DEF Depth, Replaces
<1>2. \A m \in 1 .. Depth : (Barrier(m)' <=> Barrier(m)) /\ (Catcher(m)' <=> Catcher(m))
  <2> SUFFICES ASSUME NEW m \in 1 .. Depth
               PROVE  (Barrier(m)' <=> Barrier(m)) /\ (Catcher(m)' <=> Catcher(m))
    OBVIOUS
  <2>1. CASE m = Depth
    <3>1. frames'[m].kind = "pad" /\ frames'[m].clauses = frames[m].clauses
      BY <2>1 DEF Replaces
    <3> QED BY <3>1, <2>1 DEF Barrier, Catcher
  <2>2. CASE m # Depth
    <3>1. frames'[m] = frames[m]
      BY <2>2, <1>1 DEF Replaces
    <3> QED BY <3>1 DEF Barrier, Catcher
  <2> QED BY <2>1, <2>2
<1> SUFFICES ASSUME NEW i \in 0 .. Depth, NEW k \in 1 .. Depth + 1,
                    i = 0 \/ Barrier(i)', i < k, k # Depth + 1 => Barrier(k)'
             PROVE  \E j \in i + 1 .. k - 1 : Catcher(j)'
  BY <1>1 DEF Contained
<1>3. (i = 0 \/ Barrier(i)) /\ (k # Depth + 1 => Barrier(k))
  BY <1>1, <1>2
<1>4. PICK j \in i + 1 .. k - 1 : Catcher(j)
  BY <1>3 DEF Contained
<1>5. j \in 1 .. Depth
  BY <1>1, <1>4
<1> QED BY <1>2, <1>4, <1>5
-----------------------------------------------------------------------------
(* The first state, and each action in turn.                               *)
LEMMA FrameTyped ==
  /\ \A cs \in Clauses : /\ Try(cs) \in FrameTypes /\ Try(cs).kind = "try" /\ Try(cs).clauses = cs
                         /\ Try(cs).exc = NoExc /\ Try(cs).in = NoExc
  /\ \A cs \in Clauses \cup {<<>>}, at \in Nat, e \in Excs \cup {NoExc} :
        /\ Pad(cs, at, e) \in FrameTypes /\ Pad(cs, at, e).kind = "pad" /\ Pad(cs, at, e).at = at
        /\ Pad(cs, at, e).clauses = cs /\ Pad(cs, at, e).exc = e /\ Pad(cs, at, e).in = NoExc
  /\ \A e \in Excs \cup {NoExc} :
        /\ Catch(e) \in FrameTypes /\ Catch(e).kind = "catch"
        /\ Catch(e).exc = NoExc /\ Catch(e).in = e
  /\ \A e \in Excs \cup {NoExc} :
        /\ Cleanup(e) \in FrameTypes /\ Cleanup(e).kind = "cleanup"
        /\ Cleanup(e).exc = e /\ Cleanup(e).in = NoExc
  /\ \A e, c \in Excs \cup {NoExc} :
        /\ LeaveCatch(e, c) \in FrameTypes /\ LeaveCatch(e, c).kind = "leave"
        /\ LeaveCatch(e, c).exc = e /\ LeaveCatch(e, c).in = c
  BY DEF Try, Pad, Catch, Cleanup, LeaveCatch, Frame, FrameTypes

LEMMA HostStarts == Init => HostInv
<1> SUFFICES ASSUME Init PROVE HostInv
  OBVIOUS
<1>1. frames = <<>> /\ Depth = 0 /\ <<>> \in Seq(FrameTypes) /\ <<>> \in Seq(Excs) /\ caught = <<>>
      /\ Len(caught) = 0
  BY EmptySeq DEF Init, Depth
<1>2. Fresh \in Headers
  BY DEF Fresh, Headers
<1>3. TypeOK
  <2>1. header \in [Excs -> Headers] /\ typeIDs \in [Types -> Nat]
    BY <1>2 DEF Init, NoId
  <2>2. ptrs \in [Excs -> 0 .. MaxPtrs]
    BY ExcAssumption DEF Init
  <2> QED BY <1>1, <2>1, <2>2, ExcAssumption DEF Init, TypeOK, FirstId, Depth
<1>4. FramesShaped /\ Contained /\ LastShown /\ PassingOnce /\ PadOnCourse
  BY <1>1 DEF Init, FramesShaped, Contained, LastShown, PassingOnce, PadOnCourse
<1>5. \A e \in Excs : Cardinality(Holders(e)) = 0 /\ ~Underway(e)
  BY <1>1, <1>3, HoldersFinite, ExcAssumption DEF Holders, Init, Underway
<1>6. RefsCounted /\ AliveExact
  BY <1>5 DEF Init, Fresh, RefsCounted, AliveExact
<1>7. CaughtIsHandlers
  <2>1. HandlerAt = {}
    BY <1>1 DEF HandlerAt
  <2>2. <<>> \in [1 .. Len(caught) -> 1 .. Depth]
    BY <1>1
  <2>3. /\ {<<>>[n] : n \in 1 .. Len(caught)} = HandlerAt
        /\ \A m, n \in 1 .. Len(caught) : m < n => <<>>[m] < <<>>[n]
        /\ \A n \in 1 .. Len(caught) : caught[n] = frames[<<>>[n]].in
    BY <1>1, <2>1
  <2> QED BY <2>2, <2>3 DEF CaughtIsHandlers
<1>8. IdsApart
  BY DEF Init, IdsApart, NoId, FirstId
<1> QED BY <1>3, <1>4, <1>6, <1>7, <1>8 DEF HostInv

LEMMA EnterTryStep ==
  ASSUME HostInv, NEW cs \in Clauses, EnterTry(cs)
  PROVE  HostInv'
<1> DEFINE f == Try(cs)
<1>1. /\ TypeOK /\ FramesShaped /\ Contained /\ LastShown /\ PassingOnce /\ RefsCounted
      /\ AliveExact /\ CaughtIsHandlers /\ IdsApart
  BY DEF HostInv
<1>2. /\ flight = NoExc /\ flight' = NoExc /\ Depth < MaxDepth /\ frames' = Append(frames, f)
      /\ UNCHANGED <<last, caught, typeIDs, nextType, tempRet0, uncaught, header, ptrs>>
  BY DEF EnterTry, Running, host
<1>3. /\ f \in FrameTypes /\ f.kind = "try" /\ f.exc = NoExc /\ f.in = NoExc
  BY FrameTyped
<1> HIDE DEF f
<1>4. /\ Pushes(f) /\ frames' \in Seq(FrameTypes)
      /\ Depth \in Nat /\ Depth' = Len(frames') /\ Depth' = Depth + 1
      /\ \A i \in 1 .. Depth : frames[i] \in FrameTypes
  BY <1>1, <1>2, <1>3, PushesTop, DepthTyped DEF Pushes, Depth
<1>5. \A i \in 1 .. Depth' : (i \in 1 .. Depth /\ frames'[i] = frames[i])
                            \/ (i = Depth + 1 /\ frames'[i] = f)
  BY <1>4 DEF Pushes
<1>6. \A i \in 1 .. Depth : i \in 1 .. Depth' /\ frames'[i] = frames[i]
  BY <1>4 DEF Pushes
<1>7. TypeOK'
  BY <1>1, <1>2, <1>4, ExcAssumption DEF TypeOK, Depth
<1>8. FramesShaped'
  <2>1. \A i \in 1 .. Depth' : Shaped(frames'[i]) /\ frames'[i].kind # "pad"
    BY <1>1, <1>2, <1>3, <1>5, NoPads DEF FramesShaped, Shaped
  <2> QED BY <2>1, <1>2 DEF FramesShaped, Shaped
<1>9. Contained'
  <2>1. Len(frames') \in Nat /\ Len(frames') - 1 = Depth
    BY <1>4
  <2>2. \A m \in 1 .. Len(frames') - 1 : m <= Depth /\ frames'[m] = frames[m]
    BY <2>1, <1>6
  <2>3. \A m \in 1 .. Len(frames') : m = Len(frames') => ~Barrier(m)'
    <3>1. frames'[Depth + 1].kind = "try" /\ Len(frames') = Depth + 1
      BY <1>3, <1>4 DEF Pushes
    <3>2. frames'[Len(frames')].kind = "try"
      BY <3>1
    <3> QED BY <3>2 DEF Barrier
  <2> QED BY <2>1, <2>2, <2>3, <1>1, <1>2, ContainedRuns
<1>10. LastShown'
  <2> SUFFICES ASSUME last # NoExc
               PROVE  \E i \in 1 .. Depth' :
                        /\ frames'[i].kind # "try" /\ last \in {frames'[i].exc, frames'[i].in}
                        /\ \A j \in i + 1 .. Depth' : frames'[j].kind = "try"
    BY <1>2 DEF LastShown
  <2>1. PICK i \in 1 .. Depth :
          /\ frames[i].kind # "try" /\ last \in {frames[i].exc, frames[i].in}
          /\ \A j \in i + 1 .. Depth : frames[j].kind = "try"
    BY <1>1, <1>2 DEF LastShown
  <2>2. i \in 1 .. Depth' /\ frames'[i] = frames[i]
    BY <1>6
  <2>3. \A j \in i + 1 .. Depth' : frames'[j].kind = "try"
    <3> SUFFICES ASSUME NEW j \in i + 1 .. Depth' PROVE frames'[j].kind = "try"
      OBVIOUS
    <3>1. CASE j = Depth + 1
      BY <3>1, <1>3, <1>4 DEF Pushes
    <3>2. CASE j # Depth + 1
      <4>1. j \in i + 1 .. Depth /\ j \in 1 .. Depth
        BY <3>2, <1>4
      <4> QED BY <4>1, <2>1, <1>6
    <3> QED BY <3>1, <3>2
  <2> QED BY <2>1, <2>2, <2>3
<1>11. PassingOnce'
  BY <1>1, <1>2, <1>3, <1>5 DEF PassingOnce
<1>12. \A e \in Excs : Underway(e)' <=> Underway(e)
  BY <1>2, <1>3, <1>5, <1>6, ExcAssumption DEF Underway
<1>13. HandlerAt' = HandlerAt /\ \A i \in HandlerAt : frames'[i].in = frames[i].in
  BY <1>3, <1>5, <1>6 DEF HandlerAt
<1> QED BY <1>1, <1>2, <1>7, <1>8, <1>9, <1>10, <1>11, <1>12, <1>13,
           RefsSame, AliveSame, HandlersSame, IdsSame, PadsGone DEF HostInv

LEMMA LeaveTryStep ==
  ASSUME HostInv, LeaveTry
  PROVE  HostInv'
<1>1. /\ TypeOK /\ FramesShaped /\ Contained /\ LastShown /\ PassingOnce /\ RefsCounted
      /\ AliveExact /\ CaughtIsHandlers /\ IdsApart
  BY DEF HostInv
<1>2. /\ flight = NoExc /\ flight' = NoExc /\ Depth > 0 /\ frames' = Pop(frames)
      /\ UNCHANGED <<last, caught, typeIDs, nextType, tempRet0, uncaught, header, ptrs>>
      /\ Top.kind = "try"
  BY DEF LeaveTry, Running, host
<1>3. Depth \in Nat /\ Depth >= 1 /\ Top = frames[Depth]
  BY <1>1, <1>2, DepthTyped
<1>4. /\ Pops /\ frames' \in Seq(FrameTypes) /\ Depth' = Len(frames') /\ Depth' = Depth - 1
  BY <1>1, <1>2, <1>3, PopsTop DEF Pops, Depth
<1>5. \A i \in 1 .. Depth' : i \in 1 .. Depth /\ i # Depth /\ frames'[i] = frames[i]
  BY <1>3, <1>4 DEF Pops
<1>6. \A i \in 1 .. Depth : i = Depth \/ i \in 1 .. Depth'
  BY <1>3, <1>4
<1>7. frames[Depth].kind = "try" /\ frames[Depth].exc = NoExc
  BY <1>1, <1>2, <1>3 DEF FramesShaped, Shaped
<1>8. TypeOK'
  <2>1. Len(frames') <= MaxDepth
    BY <1>1, <1>3, <1>4, DepthTyped
  <2> QED BY <2>1, <1>1, <1>2, <1>4, ExcAssumption DEF TypeOK
<1>9. FramesShaped'
  <2>1. \A i \in 1 .. Depth' : Shaped(frames'[i]) /\ frames'[i].kind # "pad"
    BY <1>1, <1>2, <1>5, NoPads DEF FramesShaped
  <2> QED BY <2>1, <1>2 DEF FramesShaped, Shaped
<1>10. Contained'
  BY <1>1, <1>2, <1>3, <1>4, <1>5, ContainedRuns DEF Barrier
<1>11. LastShown'
  <2> SUFFICES ASSUME last # NoExc
               PROVE  \E i \in 1 .. Depth' :
                        /\ frames'[i].kind # "try" /\ last \in {frames'[i].exc, frames'[i].in}
                        /\ \A j \in i + 1 .. Depth' : frames'[j].kind = "try"
    BY <1>2 DEF LastShown
  <2>1. PICK i \in 1 .. Depth :
          /\ frames[i].kind # "try" /\ last \in {frames[i].exc, frames[i].in}
          /\ \A j \in i + 1 .. Depth : frames[j].kind = "try"
    BY <1>1, <1>2 DEF LastShown
  <2>2. i \in 1 .. Depth' /\ frames'[i] = frames[i]
    BY <2>1, <1>5, <1>6, <1>7
  <2>3. \A j \in i + 1 .. Depth' : j \in i + 1 .. Depth /\ frames'[j] = frames[j]
    BY <2>2, <1>3, <1>4, <1>5
  <2> QED BY <2>1, <2>2, <2>3
<1>12. PassingOnce'
  BY <1>1, <1>2, <1>5 DEF PassingOnce
<1>13. \A e \in Excs : Underway(e)' <=> Underway(e)
  BY <1>2, <1>5, <1>6, <1>7, ExcAssumption DEF Underway
<1>14. HandlerAt' = HandlerAt /\ \A i \in HandlerAt : frames'[i].in = frames[i].in
  BY <1>5, <1>6, <1>7 DEF HandlerAt
<1> QED BY <1>1, <1>2, <1>8, <1>9, <1>10, <1>11, <1>12, <1>13, <1>14,
           RefsSame, AliveSame, HandlersSame, IdsSame, PadsGone DEF HostInv

(* Steps of running code that leave the stack alone.                       *)
LEMMA StackSame ==
  ASSUME HostInv, flight = NoExc, UNCHANGED <<flight, last, frames, caught, typeIDs, nextType>>
  PROVE  /\ FramesShaped' /\ Contained' /\ LastShown' /\ PassingOnce'
         /\ CaughtIsHandlers' /\ IdsApart' /\ PadOnCourse'
         /\ \A e \in Excs : Underway(e)' <=> Underway(e)
<1>1. FramesShaped' /\ LastShown' /\ PassingOnce' /\ CaughtIsHandlers' /\ IdsApart'
  BY DEF HostInv, FramesShaped, LastShown, PassingOnce, CaughtIsHandlers, IdsApart, Depth,
         HandlerAt
<1>2. Contained'
  <2>1. Contained /\ Depth' = Depth
    BY DEF HostInv, Depth
  <2>2. \A m : (Barrier(m)' <=> Barrier(m)) /\ (Catcher(m)' <=> Catcher(m))
    BY DEF Barrier, Catcher
  <2> QED BY <2>1, <2>2 DEF Contained
<1>3. PadOnCourse'
  BY <1>1, PadsGone
<1> QED BY <1>1, <1>2, <1>3 DEF Underway, Depth

(* The last reference destroys the object unless it is on its way.         *)
LEMMA DecRefKeeps ==
  ASSUME HostInv, NEW e \in Excs, header' = DecRef(header, e), header[e].ref >= 1,
         \A d \in Excs : Underway(d)' <=> Underway(d)
  PROVE  /\ AliveExact' /\ header' \in [Excs -> Headers] /\ header'[e].ref = header[e].ref - 1
         /\ \A d \in Excs : d # e => header'[d] = header[d]
<1> DEFINE h == [header[e] EXCEPT !.ref = @ - 1, !.alive = header[e].ref > 1 \/ header[e].rethrown]
<1>1. header \in [Excs -> Headers] /\ header[e] \in Headers
  BY DEF HostInv, TypeOK
<1>2. header' = [header EXCEPT ![e] = h]
  BY <1>1 DEF DecRef
<1>3. /\ h.ref = header[e].ref - 1 /\ h.rethrown = header[e].rethrown
      /\ h.alive = (header[e].ref > 1 \/ header[e].rethrown)
  BY <1>1 DEF Headers
<1>4. h \in Headers
  <2>1. header[e].ref \in Nat /\ header[e].ref - 1 \in Nat
    BY <1>1 DEF Headers
  <2>2. (header[e].ref > 1 \/ header[e].rethrown) \in BOOLEAN
    OBVIOUS
  <2> QED BY <1>1, <2>1, <2>2 DEF Headers
<1> HIDE DEF h
<1>5. header'[e] = h /\ \A d \in Excs : d # e => header'[d] = header[d]
  BY <1>1, <1>2
<1>6. AliveExact'
  <2> SUFFICES ASSUME NEW d \in Excs
               PROVE  /\ header'[d].alive <=> header'[d].ref > 0 \/ Underway(d)
                      /\ header'[d].rethrown => Underway(d)
                      /\ Underway(d) /\ header'[d].ref > 0 => header'[d].rethrown
    BY DEF AliveExact
  <2>1. /\ header[d].alive <=> header[d].ref > 0 \/ Underway(d)
        /\ header[d].rethrown => Underway(d)
        /\ Underway(d) /\ header[d].ref > 0 => header[d].rethrown
    BY DEF HostInv, AliveExact
  <2>2. CASE d # e
    BY <2>1, <2>2, <1>5
  <2>3. CASE d = e
    <3>1. header[e].ref \in Nat
      BY <1>1 DEF Headers
    <3>2. header[e].ref > 0
      BY <3>1
    <3>3. header'[e].ref > 0 <=> header[e].ref > 1
      BY <3>1, <1>3, <1>5
    <3>4. header'[e].alive <=> header[e].ref > 1 \/ header[e].rethrown
      BY <1>3, <1>5
    <3>5. header'[e].rethrown <=> header[e].rethrown
      BY <1>3, <1>5
    <3>6. header[e].ref > 1 => header[e].ref > 0
      BY <3>1
    <3> QED BY <3>2, <3>3, <3>4, <3>5, <3>6, <2>1, <2>3, Zenon
  <2> QED BY <2>2, <2>3
<1> QED BY <1>1, <1>2, <1>3, <1>4, <1>5, <1>6

LEMMA DropPtrStep ==
  ASSUME HostInv, NEW e \in Excs, DropPtr(e)
  PROVE  HostInv'
<1>1. /\ flight = NoExc /\ ptrs[e] > 0 /\ ptrs' = [ptrs EXCEPT ![e] = @ - 1]
      /\ header' = DecRef(header, e)
      /\ UNCHANGED <<last, caught, typeIDs, nextType, tempRet0, uncaught, frames, flight>>
  BY DEF DropPtr, Running, host
<1>2. /\ FramesShaped' /\ Contained' /\ LastShown' /\ PassingOnce'
      /\ CaughtIsHandlers' /\ IdsApart' /\ PadOnCourse'
      /\ \A d \in Excs : Underway(d)' <=> Underway(d)
  BY <1>1, StackSame
<1>3. /\ header[e].ref = Cardinality(Holders(e)) + ptrs[e] /\ Cardinality(Holders(e)) \in Nat
      /\ ptrs \in [Excs -> 0 .. MaxPtrs] /\ ptrs[e] \in 0 .. MaxPtrs
  <2>1. TypeOK /\ RefsCounted
    BY DEF HostInv
  <2>2. ptrs \in [Excs -> 0 .. MaxPtrs] /\ ptrs[e] \in 0 .. MaxPtrs
    BY <2>1 DEF TypeOK
  <2> QED BY <2>1, <2>2, HoldersFinite DEF RefsCounted
<1>4. header[e].ref >= 1
  BY <1>1, <1>3, ExcAssumption
<1>5. /\ AliveExact' /\ header' \in [Excs -> Headers] /\ header'[e].ref = header[e].ref - 1
      /\ \A d \in Excs : d # e => header'[d] = header[d]
  BY <1>1, <1>2, <1>4, DecRefKeeps
<1>6. ptrs'[e] = ptrs[e] - 1 /\ (\A d \in Excs : d # e => ptrs'[d] = ptrs[d])
      /\ ptrs' \in [Excs -> 0 .. MaxPtrs]
  <2>1. ptrs[e] - 1 \in 0 .. MaxPtrs
    BY <1>1, <1>3, ExcAssumption
  <2> QED BY <2>1, <1>1, <1>3
<1>7. TypeOK'
  BY <1>1, <1>5, <1>6 DEF HostInv, TypeOK, Depth
<1>8. RefsCounted'
  <2>1. \A d \in Excs : Holders(d)' = Holders(d)
    BY <1>1 DEF Holders
  <2> SUFFICES ASSUME NEW d \in Excs
               PROVE  header'[d].ref = Cardinality(Holders(d)) + ptrs'[d]
    BY <2>1 DEF RefsCounted
  <2>2. CASE d = e
    BY <2>2, <1>3, <1>5, <1>6, ExcAssumption
  <2>3. CASE d # e
    BY <2>3, <1>5, <1>6 DEF HostInv, RefsCounted
  <2> QED BY <2>2, <2>3
<1> QED BY <1>2, <1>5, <1>7, <1>8 DEF HostInv

LEMMA CurrentPrimaryStep ==
  ASSUME HostInv, CurrentPrimary
  PROVE  HostInv'
<1> DEFINE e == TopOf(caught)
<1>1. /\ flight = NoExc /\ ptrs[e] < MaxPtrs /\ ptrs' = [ptrs EXCEPT ![e] = @ + 1]
      /\ header' = [header EXCEPT ![e].ref = @ + 1] /\ caught # <<>>
      /\ UNCHANGED <<last, caught, typeIDs, nextType, tempRet0, uncaught, frames, flight>>
  BY DEF CurrentPrimary, IncRef, Running, host
<1>2. /\ FramesShaped' /\ Contained' /\ LastShown' /\ PassingOnce'
      /\ CaughtIsHandlers' /\ IdsApart' /\ PadOnCourse'
      /\ \A d \in Excs : Underway(d)' <=> Underway(d)
  BY <1>1, StackSame
<1>3. e \in Excs /\ \E n \in 1 .. Len(caught) : caught[n] = e
  <2>1. caught \in Seq(Excs) /\ Len(caught) \in Nat /\ Len(caught) # 0
    BY <1>1, LenProperties, EmptySeq DEF HostInv, TypeOK
  <2>2. Len(caught) \in 1 .. Len(caught)
    BY <2>1
  <2> QED BY <2>1, <2>2, ElementOfSeq DEF TopOf
<1> HIDE DEF e
<1>4. /\ header \in [Excs -> Headers] /\ header[e] \in Headers /\ header[e].ref \in Nat
      /\ ptrs \in [Excs -> 0 .. MaxPtrs] /\ ptrs[e] \in 0 .. MaxPtrs
  BY <1>3 DEF HostInv, TypeOK, Headers
<1>5. /\ header' \in [Excs -> Headers] /\ header'[e].ref = header[e].ref + 1
      /\ header'[e].alive = header[e].alive /\ header'[e].rethrown = header[e].rethrown
      /\ \A d \in Excs : d # e => header'[d] = header[d]
  BY <1>1, <1>3, <1>4 DEF Headers
<1>6. ptrs'[e] = ptrs[e] + 1 /\ (\A d \in Excs : d # e => ptrs'[d] = ptrs[d])
      /\ ptrs' \in [Excs -> 0 .. MaxPtrs]
  <2>1. ptrs[e] + 1 \in 0 .. MaxPtrs
    BY <1>1, <1>4, ExcAssumption
  <2> QED BY <2>1, <1>1, <1>3, <1>4
<1>7. TypeOK'
  BY <1>1, <1>5, <1>6 DEF HostInv, TypeOK, Depth
<1>8. RefsCounted'
  <2>1. \A d \in Excs : Holders(d)' = Holders(d)
    BY <1>1 DEF Holders
  <2>2. \A d \in Excs : header[d].ref = Cardinality(Holders(d)) + ptrs[d]
    BY DEF HostInv, RefsCounted
  <2>3. Cardinality(Holders(e)) \in Nat
    BY HoldersFinite DEF HostInv
  <2>4. header'[e].ref = Cardinality(Holders(e)) + ptrs'[e]
    BY <1>3, <1>4, <1>5, <1>6, <2>2, <2>3
  <2>5. \A d \in Excs : header'[d].ref = Cardinality(Holders(d)) + ptrs'[d]
    BY <1>5, <1>6, <2>2, <2>4
  <2> QED BY <2>1, <2>5 DEF RefsCounted
<1>9. AliveExact'
  <2>1. header[e].alive /\ (~Underway(e) => header[e].ref > 0)
    BY <1>3, HeldAlive
  <2>2. header'[e].ref > 0
    BY <1>4, <1>5
  <2>3. Underway(e) => header[e].ref > 0
    <3>1. header[e].ref = Cardinality(Holders(e)) + ptrs[e] /\ Cardinality(Holders(e)) \in Nat
          /\ (Cardinality(Holders(e)) = 0 <=> Holders(e) = {})
      BY <1>3, HoldersFinite DEF HostInv, RefsCounted
    <3>2. Holders(e) # {}
      BY <1>3 DEF Holders
    <3> QED BY <3>1, <3>2, <1>4
  <2>4. \A d \in Excs :
          /\ header[d].alive <=> header[d].ref > 0 \/ Underway(d)
          /\ header[d].rethrown => Underway(d)
          /\ Underway(d) /\ header[d].ref > 0 => header[d].rethrown
    BY DEF HostInv, AliveExact
  <2>5. \A d \in Excs :
          /\ header'[d].alive <=> header'[d].ref > 0 \/ Underway(d)
          /\ header'[d].rethrown => Underway(d)
          /\ Underway(d) /\ header'[d].ref > 0 => header'[d].rethrown
    BY <2>1, <2>2, <2>3, <2>4, <1>3, <1>5, Zenon
  <2> QED BY <2>5, <1>2 DEF AliveExact
<1> QED BY <1>2, <1>7, <1>8, <1>9 DEF HostInv

(* An exception sets out: what throw and both rethrows have in common.     *)
LEMMA SetsOut ==
  ASSUME HostInv, MayThrow, flight = NoExc, NEW e \in Excs, ~Passing(e),
         flight' = e, last' = e, UNCHANGED <<frames, caught, typeIDs, nextType>>
  PROVE  /\ FramesShaped' /\ Contained' /\ LastShown' /\ PassingOnce'
         /\ CaughtIsHandlers' /\ IdsApart' /\ PadOnCourse'
         /\ \A d \in Excs : Underway(d)' <=> Underway(d) \/ d = e
<1>1. TypeOK /\ FramesShaped /\ Contained /\ PassingOnce /\ CaughtIsHandlers /\ IdsApart
      /\ Depth' = Depth /\ e # NoExc
  BY ExcAssumption DEF HostInv, Depth
<1>2. \A i \in 1 .. Depth : frames[i].kind # "pad"
  BY <1>1, NoPads
<1>3. FramesShaped'
  BY <1>1, <1>2 DEF FramesShaped, Shaped
<1>4. PassingOnce'
  BY <1>1 DEF PassingOnce, Passing
<1>5. PadOnCourse'
  BY <1>1, <1>2 DEF PadOnCourse
<1>6. CaughtIsHandlers'
  BY <1>1 DEF CaughtIsHandlers, HandlerAt
<1>7. LastShown'
  BY <1>1 DEF LastShown
<1>8. \A d \in Excs : Underway(d)' <=> Underway(d) \/ d = e
  BY <1>1, ExcAssumption DEF Underway
<1> QED BY <1>1, <1>3, <1>4, <1>5, <1>6, <1>7, <1>8, ContainedThrows, IdsSame

LEMMA ThrowStep ==
  ASSUME HostInv, NEW e \in Excs, NEW t \in Types, Throw(e, t)
  PROVE  HostInv'
<1> DEFINE h == [Fresh EXCEPT !.alive = TRUE, !.type = t]
<1>1. /\ flight = NoExc /\ MayThrow /\ ~header[e].alive /\ header' = [header EXCEPT ![e] = h]
      /\ last' = e /\ flight' = e /\ uncaught' = uncaught + 1
      /\ UNCHANGED <<caught, typeIDs, nextType, tempRet0, frames, ptrs>>
  BY DEF Throw, Running, Unwind
<1>2. h \in Headers /\ h.ref = 0 /\ h.alive /\ ~h.rethrown
  BY DEF Fresh, Headers
<1> HIDE DEF h
<1>3. /\ header \in [Excs -> Headers] /\ header' \in [Excs -> Headers] /\ header'[e] = h
      /\ \A d \in Excs : d # e => header'[d] = header[d]
  BY <1>1, <1>2 DEF HostInv, TypeOK
<1>4. ~Underway(e) /\ ~(header[e].ref > 0)
  BY <1>1 DEF HostInv, AliveExact
<1>5. ~Passing(e)
  BY <1>4 DEF Underway, Passing
<1>6. /\ FramesShaped' /\ Contained' /\ LastShown' /\ PassingOnce'
      /\ CaughtIsHandlers' /\ IdsApart' /\ PadOnCourse'
      /\ \A d \in Excs : Underway(d)' <=> Underway(d) \/ d = e
  BY <1>1, <1>5, SetsOut
<1>7. TypeOK'
  BY <1>1, <1>3 DEF HostInv, TypeOK, Depth
<1>8. RefsCounted'
  <2>1. header[e].ref = 0
    BY <1>3, <1>4 DEF Headers
  <2>2. \A d \in Excs : header'[d].ref = header[d].ref /\ Holders(d)' = Holders(d)
    BY <1>1, <1>2, <1>3, <2>1 DEF Holders
  <2> QED BY <2>2, <1>1 DEF HostInv, RefsCounted
<1>9. AliveExact'
  <2>1. ~(header'[e].ref > 0)
    BY <1>2, <1>3
  <2> QED BY <2>1, <1>2, <1>3, <1>6 DEF HostInv, AliveExact
<1> QED BY <1>6, <1>7, <1>8, <1>9 DEF HostInv

LEMMA RethrownStep ==
  ASSUME HostInv, MayThrow, flight = NoExc, NEW e \in Excs, ~Passing(e), header[e].ref > 0,
         flight' = e, last' = e, uncaught' \in Nat,
         UNCHANGED <<frames, caught, typeIDs, nextType, tempRet0, ptrs>>,
         NEW h \in Headers, header' = [header EXCEPT ![e] = h],
         h.ref = header[e].ref, h.alive = header[e].alive, h.rethrown
  PROVE  HostInv'
<1>1. /\ header \in [Excs -> Headers] /\ header' \in [Excs -> Headers] /\ header'[e] = h
      /\ \A d \in Excs : d # e => header'[d] = header[d]
  BY DEF HostInv, TypeOK
<1>2. /\ FramesShaped' /\ Contained' /\ LastShown' /\ PassingOnce'
      /\ CaughtIsHandlers' /\ IdsApart' /\ PadOnCourse'
      /\ \A d \in Excs : Underway(d)' <=> Underway(d) \/ d = e
  BY SetsOut
<1>3. TypeOK'
  BY <1>1 DEF HostInv, TypeOK, Depth
<1>4. RefsCounted'
  <2>1. \A d \in Excs : header'[d].ref = header[d].ref /\ Holders(d)' = Holders(d)
    BY <1>1 DEF Holders
  <2> QED BY <2>1 DEF HostInv, RefsCounted
<1>5. AliveExact'
  <2>1. header[e].alive
    BY DEF HostInv, AliveExact
  <2> QED BY <2>1, <1>1, <1>2 DEF HostInv, AliveExact
<1> QED BY <1>2, <1>3, <1>4, <1>5 DEF HostInv

(* In running code an exception that passes nothing is not on its way.     *)
LEMMA StandsStill ==
  ASSUME HostInv, flight = NoExc, NEW e \in Excs, ~Passing(e)
  PROVE  ~Underway(e) /\ ~header[e].rethrown
  BY ExcAssumption DEF HostInv, AliveExact, Underway, Passing

(* throw; finds the flag down, and sets it.                                *)
LEMMA RethrowStep ==
  ASSUME HostInv, Rethrow
  PROVE  HostInv'
<1> DEFINE e == TopOf(caught)
           h == [header[e] EXCEPT !.rethrown = TRUE, !.caught = FALSE]
<1>1. /\ flight = NoExc /\ MayThrow /\ caught # <<>> /\ ~Passing(e) /\ rethrow(caught, header)
      /\ UNCHANGED <<typeIDs, nextType, tempRet0, frames, ptrs>>
  BY DEF Rethrow, Running
<1>2. e \in Excs /\ \E n \in 1 .. Len(caught) : caught[n] = e
  <2>1. caught \in Seq(Excs) /\ Len(caught) \in Nat /\ Len(caught) # 0
    BY <1>1, LenProperties, EmptySeq DEF HostInv, TypeOK
  <2>2. Len(caught) \in 1 .. Len(caught)
    BY <2>1
  <2> QED BY <2>1, <2>2, ElementOfSeq DEF TopOf
<1>3. ~Underway(e) /\ ~header[e].rethrown
  BY <1>1, <1>2, StandsStill
<1>4. header[e].ref > 0
  BY <1>2, <1>3, HeldAlive
<1>5. /\ caught' = caught /\ uncaught' = uncaught + 1 /\ last' = e /\ flight' = e
      /\ header' = [header EXCEPT ![e].rethrown = TRUE, ![e].caught = FALSE]
  BY <1>1, <1>3 DEF rethrow, Unwind
<1>6. header \in [Excs -> Headers] /\ header[e] \in Headers /\ uncaught \in Nat
  BY <1>2 DEF HostInv, TypeOK
<1>7. /\ h \in Headers /\ h.ref = header[e].ref /\ h.alive = header[e].alive /\ h.rethrown
      /\ header' = [header EXCEPT ![e] = h]
  BY <1>2, <1>5, <1>6 DEF Headers
<1> HIDE DEF e, h
<1>8. uncaught' \in Nat
  BY <1>5, <1>6
<1>9. UNCHANGED <<frames, caught, typeIDs, nextType, tempRet0, ptrs>>
  BY <1>1, <1>5
<1> QED BY <1>1, <1>2, <1>4, <1>5, <1>7, <1>8, <1>9, RethrownStep

LEMMA FrontOfAppended ==
  ASSUME NEW S, NEW s \in Seq(S), NEW e \in S
  PROVE  Pop(Append(s, e)) = s
<1> DEFINE a == Append(s, e)
<1>1. a \in Seq(S) /\ Len(a) = Len(s) + 1 /\ Len(s) \in Nat /\ \A i \in 1 .. Len(s) : a[i] = s[i]
  BY AppendProperties, LenProperties
<1> HIDE DEF a
<1>2. /\ Pop(a) \in Seq(S) /\ Len(Pop(a)) = Len(s)
      /\ \A i \in 1 .. Len(s) : Pop(a)[i] = s[i]
  BY <1>1, PopSeq
<1>3. Pop(a) = s
  BY <1>2, SeqEqual
<1> QED BY <1>3 DEF a

(* std::rethrow_exception pushes the exception and rethrow takes it away.  *)
LEMMA RethrowPrimaryStep ==
  ASSUME HostInv, NEW e \in Excs, RethrowPrimary(e)
  PROVE  HostInv'
<1> DEFINE stack == Append(caught, e)
           h == [header[e] EXCEPT !.rethrown = TRUE]
           hs == [header EXCEPT ![e].rethrown = TRUE]
<1>1. /\ flight = NoExc /\ MayThrow /\ ptrs[e] > 0 /\ ~Passing(e) /\ rethrow(stack, hs)
      /\ UNCHANGED <<typeIDs, nextType, tempRet0, frames, ptrs>>
  BY DEF RethrowPrimary, Running
<1>2. /\ header \in [Excs -> Headers] /\ header[e] \in Headers /\ uncaught \in Nat
      /\ caught \in Seq(Excs) /\ Len(caught) \in Nat
  BY LenProperties DEF HostInv, TypeOK
<1>3. ~Underway(e) /\ header[e].ref > 0
  BY <1>1, StandsStill, HeldAlive
<1>4. TopOf(stack) = e
  <2>1. Len(stack) = Len(caught) + 1 /\ stack[Len(caught) + 1] = e
    BY <1>2, AppendProperties
  <2> QED BY <2>1 DEF TopOf
<1>5. Pop(stack) = caught
  BY <1>2, FrontOfAppended
<1>6. /\ h \in Headers /\ h.ref = header[e].ref /\ h.alive = header[e].alive /\ h.rethrown
      /\ hs = [header EXCEPT ![e] = h] /\ hs[e].rethrown
  BY <1>2 DEF Headers
<1> HIDE DEF stack, hs, h
<1>7. caught' = caught /\ uncaught' = uncaught /\ last' = e /\ flight' = e /\ header' = hs
  BY <1>1, <1>4, <1>5, <1>6 DEF rethrow, Unwind
<1> QED BY <1>1, <1>2, <1>3, <1>6, <1>7, RethrownStep

(* A landing pad takes the place of its block, or moves on to its next     *)
(* clause, with the exception that unwinds.                                *)
LEMMA PadTakesPlace ==
  ASSUME HostInv, flight # NoExc, Top.kind \in {"try", "pad"}, NEW at \in Nat,
         frames' = Append(Pop(frames), Pad(Top.clauses, at, flight)),
         UNCHANGED <<flight, last, caught, header, ptrs>>
  PROVE  /\ FramesShaped' /\ Contained' /\ LastShown' /\ PassingOnce'
         /\ RefsCounted' /\ AliveExact' /\ CaughtIsHandlers'
         /\ frames' \in Seq(FrameTypes) /\ Len(frames') = Depth /\ Depth' = Depth
         /\ Depth \in Nat /\ Depth >= 1 /\ frames[Depth] = Top
         /\ Top \in FrameTypes /\ Top.clauses \in Clauses \cup {<<>>}
         /\ frames'[Depth].kind = "pad" /\ frames'[Depth].clauses = Top.clauses
         /\ frames'[Depth].at = at
         /\ \A i \in 1 .. Depth - 1 : frames'[i].kind # "pad"
<1> DEFINE f == Pad(Top.clauses, at, flight)
<1>1. /\ TypeOK /\ FramesShaped /\ Contained /\ PassingOnce /\ RefsCounted
      /\ AliveExact /\ CaughtIsHandlers /\ flight \in Excs
  BY DEF HostInv, TypeOK
<1>2. /\ Depth >= 1 /\ Top = frames[Depth] /\ Top \in FrameTypes /\ Shaped(Top) /\ Depth \in Nat
      /\ Top.clauses \in Clauses \cup {<<>>}
  BY <1>1, UnwindsInto, DepthTyped DEF FrameTypes
<1>3. /\ f \in FrameTypes /\ f.kind = "pad" /\ f.at = at
      /\ f.clauses = Top.clauses /\ f.exc = flight /\ f.in = NoExc
  BY <1>1, <1>2 DEF Pad, Frame, FrameTypes
<1> HIDE DEF f
<1>4. frames' = Append(Pop(frames), f)
  BY DEF f
<1>5. Replaces(f) /\ frames' \in Seq(FrameTypes)
  BY <1>1, <1>2, <1>3, <1>4, ReplacesTop
<1>6. /\ Depth' = Depth /\ Len(frames') = Depth /\ frames'[Depth] = f
      /\ \A i \in 1 .. Depth : i = Depth \/ (i # Depth /\ frames'[i] = frames[i])
  BY <1>2, <1>5 DEF Replaces, Depth
<1>7. \A i \in 1 .. Depth : frames[i].kind = "pad" => i = Depth
  BY <1>1 DEF FramesShaped
<1>8. FramesShaped'
  BY <1>1, <1>3, <1>6, <1>7 DEF FramesShaped, Shaped
<1>9. Contained'
  BY <1>1, <1>2, <1>3, <1>5, ContainedUnwinds
<1>10. LastShown'
  BY DEF LastShown
<1>11. PassingOnce'
  <2>1. \A i \in 1 .. Depth : frames[i].exc = flight => i = Depth
    BY <1>1, <1>7 DEF PassingOnce
  <2> QED BY <1>1, <1>3, <1>6, <2>1 DEF PassingOnce
<1>12. \A e \in Excs : Underway(e)' <=> Underway(e)
  <2>1. frames[Depth].exc \in {NoExc, flight}
    BY <1>1, <1>2 DEF FramesShaped, Shaped
  <2>2. \A e \in Excs : Underway(e) => Underway(e)'
    BY <2>1, <1>6, ExcAssumption DEF Underway
  <2>3. \A e \in Excs : Underway(e)' => Underway(e)
    BY <1>3, <1>6 DEF Underway
  <2> QED BY <2>2, <2>3
<1>13. HandlerAt' = HandlerAt /\ \A i \in HandlerAt : frames'[i].in = frames[i].in
  <2>1. \A i \in 1 .. Depth : frames'[i].kind \in {"catch", "leave"} <=>
                              frames[i].kind \in {"catch", "leave"}
    BY <1>2, <1>3, <1>6
  <2>2. \A i \in HandlerAt : i \in 1 .. Depth /\ i # Depth
    BY <1>2 DEF HandlerAt
  <2> QED BY <2>1, <2>2, <1>6 DEF HandlerAt
<1>14. \A i \in 1 .. Depth - 1 : frames'[i].kind # "pad"
  <2>1. \A i \in 1 .. Depth - 1 : i \in 1 .. Depth /\ i # Depth
    BY <1>2
  <2> QED BY <2>1, <1>6, <1>7
<1> QED BY <1>1, <1>2, <1>3, <1>5, <1>6, <1>8, <1>9, <1>10, <1>11, <1>12, <1>13, <1>14,
           RefsSame, AliveSame, HandlersSame

(* Ids are given once and never taken back.                                *)
LEMMA Registers ==
  ASSUME TypeOK, IdsApart, NEW c \in Types \cup {CatchAll}, RegisterType(c)
  PROVE  /\ IdsApart' /\ typeIDs' \in [Types -> Nat] /\ nextType' \in Nat
         /\ Known(c)' /\ IdOf(c)' = IdOf(c) /\ IdOf(c) \in Nat
         /\ \A d \in Types \cup {CatchAll} : Known(d) => Known(d)' /\ IdOf(d)' = IdOf(d)
<1>1. typeIDs \in [Types -> Nat] /\ nextType \in Nat /\ CatchAll \notin Types /\ nextType >= FirstId
  BY ExcAssumption DEF TypeOK, IdsApart
<1>2. CASE c = CatchAll \/ typeIDs[c] # NoId
  <2>1. typeIDs' = typeIDs /\ nextType' = nextType
    BY <1>2 DEF RegisterType
  <2> QED BY <1>1, <1>2, <2>1, IdsSame DEF Known, IdOf
<1>3. CASE ~(c = CatchAll \/ typeIDs[c] # NoId)
  <2>1. /\ c \in Types /\ typeIDs[c] = NoId /\ nextType' = nextType + 1
        /\ typeIDs' = [typeIDs EXCEPT ![c] = nextType]
    BY <1>3 DEF RegisterType
  <2>2. typeIDs'[c] = nextType /\ \A d \in Types : d # c => typeIDs'[d] = typeIDs[d]
    BY <1>1, <2>1
  <2>3. \A d \in Types : typeIDs[d] # nextType
    BY <1>1 DEF IdsApart, FirstId, NoId
  <2>4. IdsApart'
    <3>1. nextType' >= FirstId
      BY <1>1, <2>1 DEF FirstId
    <3>2. \A d \in Types : typeIDs'[d] # NoId => FirstId <= typeIDs'[d] /\ typeIDs'[d] < nextType'
      BY <1>1, <2>1, <2>2 DEF IdsApart, FirstId
    <3>3. \A d, e \in Types : typeIDs'[d] = typeIDs'[e] /\ typeIDs'[d] # NoId => d = e
      BY <2>2, <2>3 DEF IdsApart
    <3> QED BY <3>1, <3>2, <3>3 DEF IdsApart
  <2>5. typeIDs' \in [Types -> Nat] /\ nextType' \in Nat
    BY <1>1, <2>1
  <2>6. nextType # NoId
    BY <1>1 DEF FirstId, NoId
  <2>7. Known(c)' /\ IdOf(c)' = IdOf(c) /\ IdOf(c) \in Nat
    BY <1>1, <1>3, <2>1, <2>2, <2>6 DEF Known, IdOf
  <2>8. \A d \in Types \cup {CatchAll} : Known(d) => Known(d)' /\ IdOf(d)' = IdOf(d)
    BY <1>1, <1>3, <2>1, <2>2 DEF Known, IdOf
  <2> QED BY <2>4, <2>5, <2>7, <2>8
<1> QED BY <1>2, <1>3

LEMMA IdsTell ==
  ASSUME TypeOK, IdsApart, NEW c \in Types \cup {CatchAll}, NEW d \in Types \cup {CatchAll},
         Known(d), IdOf(c) = IdOf(d)
  PROVE  c = d
  BY ExcAssumption DEF TypeOK, IdsApart, Known, IdOf, FirstId, NoId

LEMMA IdsPositive ==
  ASSUME TypeOK, IdsApart, NEW c \in Types \cup {CatchAll}
  PROVE  IdOf(c) # 0
  BY ExcAssumption DEF TypeOK, IdsApart, IdOf, FirstId, NoId

LEMMA FindMatchStep ==
  ASSUME HostInv, FindMatch
  PROVE  HostInv'
<1> PICK cs : cs = Top.clauses
  OBVIOUS
<1> PICK c : c = FirstClause(cs, header[flight].type)
  OBVIOUS
<1>1. TypeOK /\ FramesShaped /\ IdsApart
  BY DEF HostInv
<1>2. flight # NoExc /\ last = flight /\ Top.kind = "try"
  BY <1>1 DEF FindMatch, FramesShaped
<1>3. /\ frames' = Append(Pop(frames), Pad(cs, 1, flight))
      /\ UNCHANGED <<last, caught, uncaught, header, flight, ptrs>>
      /\ c = NoType => tempRet0' = 0 /\ UNCHANGED <<typeIDs, nextType>>
      /\ c # NoType => tempRet0' = IdOf(c) /\ RegisterType(c)
  BY <1>2 DEF FindMatch
<1>4. 1 \in Nat
  OBVIOUS
<1>5. /\ FramesShaped' /\ Contained' /\ LastShown' /\ PassingOnce'
      /\ RefsCounted' /\ AliveExact' /\ CaughtIsHandlers'
      /\ frames' \in Seq(FrameTypes) /\ Len(frames') = Depth /\ Depth' = Depth
      /\ Depth \in Nat /\ Depth >= 1 /\ frames[Depth] = Top
      /\ cs \in Clauses \cup {<<>>}
      /\ frames'[Depth].kind = "pad" /\ frames'[Depth].clauses = cs
      /\ frames'[Depth].at = 1
      /\ \A i \in 1 .. Depth - 1 : frames'[i].kind # "pad"
  BY <1>2, <1>3, <1>4, PadTakesPlace
<1>6. c = NoType \/ c \in Types \cup {CatchAll}
  BY <1>5, FirstClauseTakes
<1>7. /\ IdsApart' /\ typeIDs' \in [Types -> Nat] /\ nextType' \in Nat /\ tempRet0' \in Nat
      /\ c # NoType => Known(c)' /\ tempRet0' = IdOf(c)'
  <2>1. CASE c = NoType
    BY <2>1, <1>1, <1>3, IdsSame DEF TypeOK
  <2>2. CASE c # NoType
    BY <2>2, <1>1, <1>3, <1>6, Registers
  <2> QED BY <2>1, <2>2
<1>8. TypeOK'
  BY <1>1, <1>3, <1>5, <1>7 DEF TypeOK, Depth
<1>9. PadOnCourse'
  <2>1. \A i \in 1 .. Depth' : frames'[i].kind = "pad" => i = Depth
    BY <1>5
  <2>2. FirstClause(frames'[Depth].clauses, header'[flight'].type) = c
    BY <1>3, <1>5
  <2>3. \A k \in 1 .. Len(frames'[Depth].clauses) : ~(k < frames'[Depth].at)
    BY <1>5
  <2> QED BY <2>1, <2>2, <2>3, <1>3, <1>5, <1>7 DEF PadOnCourse
<1> QED BY <1>5, <1>7, <1>8, <1>9 DEF HostInv

(* A clause that differs from the id the landing pad was told is not the   *)
(* one that takes the exception.                                           *)
LEMMA DiffersStep ==
  ASSUME HostInv, Differs
  PROVE  HostInv'
<1> PICK cs : cs = Top.clauses
  OBVIOUS
<1> PICK at : at = Top.at
  OBVIOUS
<1> PICK c : c = FirstClause(cs, header[flight].type)
  OBVIOUS
<1>1. TypeOK /\ FramesShaped /\ IdsApart /\ Contained
  BY DEF HostInv
<1>2. flight # NoExc /\ Top.kind = "pad" /\ at <= Len(cs) /\ cs[at] # CatchAll
  BY DEF Differs
<1>3. /\ Depth >= 1 /\ Top = frames[Depth] /\ Depth \in Nat /\ at \in Nat
      /\ cs \in Clauses \cup {<<>>}
  BY <1>1, <1>2, UnwindsInto, DepthTyped DEF FrameTypes
<1>4. Top.exc = flight
  BY <1>1, <1>2, <1>3 DEF FramesShaped
<1>5. /\ frames' = Append(Pop(frames), Pad(Top.clauses, at + 1, flight))
      /\ RegisterType(cs[at]) /\ IdOf(cs[at]) # tempRet0
      /\ UNCHANGED <<last, caught, tempRet0, uncaught, header, flight, ptrs>>
  BY <1>4 DEF Differs
<1>6. at + 1 \in Nat /\ Top.kind \in {"try", "pad"}
  BY <1>2, <1>3
<1>7. /\ FramesShaped' /\ Contained' /\ LastShown' /\ PassingOnce'
      /\ RefsCounted' /\ AliveExact' /\ CaughtIsHandlers'
      /\ frames' \in Seq(FrameTypes) /\ Len(frames') = Depth /\ Depth' = Depth
      /\ frames'[Depth].kind = "pad" /\ frames'[Depth].clauses = cs
      /\ frames'[Depth].at = at + 1
      /\ \A i \in 1 .. Depth - 1 : frames'[i].kind # "pad"
  BY <1>2, <1>5, <1>6, PadTakesPlace
<1>8. /\ at >= 1
      /\ c = NoType => tempRet0 = 0
      /\ c # NoType => Known(c) /\ tempRet0 = IdOf(c)
      /\ \A k \in 1 .. Len(cs) : k < at => cs[k] # c /\ cs[k] # CatchAll
  BY <1>2, <1>3 DEF HostInv, PadOnCourse
<1>9. c = NoType \/ c \in Types \cup {CatchAll}
  BY <1>3, FirstClauseTakes
<1>10. cs[at] \in Types \cup {CatchAll}
  <2>1. cs \in Seq(Types \cup {CatchAll})
    BY <1>3, ExcAssumption, EmptySeq
  <2>2. at \in 1 .. Len(cs)
    BY <1>2, <1>3, <1>8
  <2> QED BY <2>1, <2>2, ElementOfSeq
<1>11. /\ IdsApart' /\ typeIDs' \in [Types -> Nat] /\ nextType' \in Nat
       /\ \A d \in Types \cup {CatchAll} : Known(d) => Known(d)' /\ IdOf(d)' = IdOf(d)
  BY <1>1, <1>5, <1>10, Registers
<1>12. TypeOK'
  BY <1>1, <1>5, <1>7, <1>11 DEF TypeOK, Depth
<1>13. cs[at] # c
  <2> SUFFICES ASSUME cs[at] = c PROVE FALSE
    OBVIOUS
  <2>1. c # NoType
    BY <1>10, ExcAssumption
  <2> QED BY <2>1, <1>5, <1>8
<1>14. PadOnCourse'
  <2>1. \A i \in 1 .. Depth' : frames'[i].kind = "pad" => i = Depth
    BY <1>3, <1>7
  <2>2. FirstClause(frames'[Depth].clauses, header'[flight'].type) = c
    BY <1>5, <1>7
  <2>3. \A k \in 1 .. Len(cs) : k < at + 1 => cs[k] # c /\ cs[k] # CatchAll
    <3> SUFFICES ASSUME NEW k \in 1 .. Len(cs), k < at + 1
                 PROVE  cs[k] # c /\ cs[k] # CatchAll
      OBVIOUS
    <3>1. k = at \/ k < at
      BY <1>3
    <3> QED BY <3>1, <1>2, <1>8, <1>13
  <2>4. c # NoType => Known(c)' /\ tempRet0' = IdOf(c)'
    BY <1>5, <1>8, <1>9, <1>11
  <2>5. c = NoType => tempRet0' = 0
    BY <1>5, <1>8
  <2>6. at + 1 >= 1
    BY <1>3
  <2> QED BY <2>1, <2>2, <2>3, <2>4, <2>5, <2>6, <1>7 DEF PadOnCourse
<1> QED BY <1>7, <1>11, <1>12, <1>14 DEF HostInv

(* The exception arrives: a handler or destructors take over.              *)
LEMMA Arrives ==
  ASSUME HostInv, flight # NoExc, NEW f \in FrameTypes, frames' = Append(Pop(frames), f),
         f.kind \in {"catch", "cleanup", "leave"}, Shaped(f), f.exc \in {NoExc, flight},
         flight \in {f.exc, f.in}, f.kind # "catch" => ~Catcher(Depth),
         flight' = NoExc, last' = last
  PROVE  /\ FramesShaped' /\ Contained' /\ LastShown' /\ PassingOnce' /\ PadOnCourse'
         /\ frames' \in Seq(FrameTypes) /\ Len(frames') = Depth /\ Depth' = Depth
         /\ Depth \in Nat /\ Depth >= 1 /\ frames[Depth] = Top /\ frames'[Depth] = f
         /\ \A i \in 1 .. Depth : i = Depth \/ (i # Depth /\ frames'[i] = frames[i])
         /\ \A d \in Excs : Underway(d)' <=> Underway(d) /\ (d # flight \/ f.exc = flight)
<1>1. /\ TypeOK /\ FramesShaped /\ Contained /\ PassingOnce /\ flight \in Excs /\ last = flight
      /\ NoExc \notin Excs
  BY ExcAssumption DEF HostInv, TypeOK, FramesShaped
<1>2. Depth >= 1 /\ Top = frames[Depth] /\ Depth \in Nat
  BY <1>1, UnwindsInto, DepthTyped
<1>3. Replaces(f) /\ frames' \in Seq(FrameTypes)
  BY <1>1, <1>2, ReplacesTop
<1>4. /\ Depth' = Depth /\ Len(frames') = Depth /\ frames'[Depth] = f
      /\ \A i \in 1 .. Depth : i = Depth \/ (i # Depth /\ frames'[i] = frames[i])
  BY <1>2, <1>3 DEF Replaces, Depth
<1>5. \A i \in 1 .. Depth : frames[i].exc = flight => i = Depth
  BY <1>1 DEF PassingOnce, FramesShaped
<1>6. FramesShaped'
  BY <1>1, <1>4 DEF FramesShaped
<1>7. Contained'
  <2>1. \A m \in 1 .. Len(frames') - 1 : m <= Depth /\ frames'[m] = frames[m]
    BY <1>2, <1>4
  <2>2. \A m \in 1 .. Len(frames') :
          m = Len(frames') /\ Barrier(m)' =>
            m <= Depth /\ (Barrier(m) \/ (m = Depth /\ flight # NoExc /\ ~Catcher(Depth)))
    BY <1>2, <1>4 DEF Barrier
  <2>3. Len(frames') \in Nat
    BY <1>2, <1>4
  <2> QED BY <2>1, <2>2, <2>3, <1>1, ContainedRuns
<1>8. LastShown'
  <2>1. \A j \in Depth + 1 .. Depth' : frames'[j].kind = "try"
    BY <1>2, <1>4
  <2>2. Depth \in 1 .. Depth' /\ frames'[Depth].kind # "try"
    BY <1>2, <1>4
  <2>3. last' \in {frames'[Depth].exc, frames'[Depth].in}
    BY <1>1, <1>4
  <2> QED BY <2>1, <2>2, <2>3 DEF LastShown
<1>9. PassingOnce'
  BY <1>1, <1>4, <1>5 DEF PassingOnce
<1>10. \A d \in Excs : Underway(d)' <=> Underway(d) /\ (d # flight \/ f.exc = flight)
  <2> SUFFICES ASSUME NEW d \in Excs
               PROVE  Underway(d)' <=> Underway(d) /\ (d # flight \/ f.exc = flight)
    OBVIOUS
  <2>1. frames[Depth].exc \in {NoExc, flight}
    BY <1>1, <1>2, UnwindsInto DEF FramesShaped, Shaped
  <2>2. Depth \in 1 .. Depth
    BY <1>2
  <2>3. CASE d = flight
    BY <2>2, <2>3, <1>1, <1>4, <1>5 DEF Underway
  <2>4. CASE d # flight
    BY <2>1, <2>4, <1>1, <1>4 DEF Underway
  <2> QED BY <2>3, <2>4
<1> QED BY <1>2, <1>3, <1>4, <1>6, <1>7, <1>8, <1>9, <1>10, PadsGone

(* No clause: the landing pad has passed every clause, catch (...) among   *)
(* them, if it had one.                                                    *)
LEMMA NoClauseStep ==
  ASSUME HostInv, NoClause
  PROVE  HostInv'
<1> PICK f : f = Cleanup(flight)
  OBVIOUS
<1>1. /\ TypeOK /\ FramesShaped /\ Contained /\ RefsCounted /\ AliveExact /\ CaughtIsHandlers
      /\ IdsApart /\ flight \in Excs \cup {NoExc}
  BY DEF HostInv, TypeOK
<1>2. flight # NoExc /\ Top.kind = "pad" /\ Top.at > Len(Top.clauses)
  BY DEF NoClause
<1>3. /\ Depth >= 1 /\ Top = frames[Depth] /\ Depth \in Nat /\ Top.at \in Nat
      /\ Top.clauses \in Clauses \cup {<<>>} /\ Len(Top.clauses) \in Nat
  <2>1. /\ Depth >= 1 /\ Top = frames[Depth] /\ Depth \in Nat /\ Top.at \in Nat
        /\ Top.clauses \in Clauses \cup {<<>>}
    BY <1>1, <1>2, UnwindsInto, DepthTyped DEF FrameTypes
  <2>2. Top.clauses \in Seq(Types \cup {CatchAll})
    BY <2>1, ExcAssumption, EmptySeq
  <2> QED BY <2>1, <2>2, LenProperties
<1>4. Top.exc = flight
  BY <1>1, <1>2, <1>3 DEF FramesShaped
<1>5. /\ frames' = Append(Pop(frames), f) /\ flight' = NoExc
      /\ UNCHANGED <<last, caught, typeIDs, nextType, tempRet0, uncaught, header, ptrs>>
  BY <1>4 DEF NoClause, host
<1>6. /\ f \in FrameTypes /\ f.kind = "cleanup" /\ f.exc = flight /\ f.in = NoExc /\ Shaped(f)
  BY <1>1, <1>2, FrameTyped DEF Shaped
<1>7. ~Catcher(Depth)
  <2>1. \A k \in 1 .. Len(Top.clauses) : k < Top.at
    BY <1>2, <1>3
  <2>2. \A k \in 1 .. Len(Top.clauses) : Top.clauses[k] # CatchAll
    BY <2>1, <1>2, <1>3 DEF HostInv, PadOnCourse
  <2> QED BY <2>2, <1>3 DEF Catcher
<1>8. /\ FramesShaped' /\ Contained' /\ LastShown' /\ PassingOnce' /\ PadOnCourse'
      /\ frames' \in Seq(FrameTypes) /\ Len(frames') = Depth /\ Depth' = Depth
      /\ frames'[Depth] = f
      /\ \A i \in 1 .. Depth : i = Depth \/ (i # Depth /\ frames'[i] = frames[i])
      /\ \A d \in Excs : Underway(d)' <=> Underway(d) /\ (d # flight \/ f.exc = flight)
  BY <1>2, <1>5, <1>6, <1>7, Arrives
<1>9. TypeOK'
  BY <1>1, <1>5, <1>8 DEF TypeOK, Depth
<1>10. HandlerAt' = HandlerAt /\ \A i \in HandlerAt : frames'[i].in = frames[i].in
  <2>1. \A i \in 1 .. Depth : frames'[i].kind \in {"catch", "leave"} <=>
                              frames[i].kind \in {"catch", "leave"}
    BY <1>2, <1>3, <1>6, <1>8
  <2>2. \A i \in HandlerAt : i \in 1 .. Depth /\ i # Depth
    BY <1>2, <1>3 DEF HandlerAt
  <2> QED BY <2>1, <2>2, <1>8 DEF HandlerAt
<1>11. \A d \in Excs : Underway(d)' <=> Underway(d)
  BY <1>6, <1>8
<1> QED BY <1>1, <1>5, <1>8, <1>9, <1>10, <1>11, RefsSame, AliveSame, HandlersSame, IdsSame
        DEF HostInv

LEMMA PassHandlerStep ==
  ASSUME HostInv, PassHandler
  PROVE  HostInv'
<1> PICK f : f = LeaveCatch(flight, Top.in)
  OBVIOUS
<1>1. /\ TypeOK /\ FramesShaped /\ Contained /\ RefsCounted /\ AliveExact /\ CaughtIsHandlers
      /\ IdsApart /\ flight \in Excs \cup {NoExc}
  BY DEF HostInv, TypeOK
<1>2. flight # NoExc /\ Top.kind = "catch" /\ last = flight
  BY <1>1 DEF PassHandler, FramesShaped
<1>3. /\ Depth >= 1 /\ Top = frames[Depth] /\ Depth \in Nat /\ Top.in \in Excs
  BY <1>1, <1>2, UnwindsInto, DepthTyped DEF Shaped
<1>5. /\ frames' = Append(Pop(frames), f) /\ flight' = NoExc /\ tempRet0' = 1
      /\ UNCHANGED <<last, caught, typeIDs, nextType, uncaught, header, ptrs>>
  BY <1>2 DEF PassHandler, IdOf
<1>6. /\ f \in FrameTypes /\ f.kind = "leave" /\ f.exc = flight /\ f.in = Top.in /\ Shaped(f)
  BY <1>1, <1>2, <1>3, FrameTyped DEF Shaped
<1>7. ~Catcher(Depth)
  BY <1>2, <1>3 DEF Catcher
<1>8. /\ FramesShaped' /\ Contained' /\ LastShown' /\ PassingOnce' /\ PadOnCourse'
      /\ frames' \in Seq(FrameTypes) /\ Len(frames') = Depth /\ Depth' = Depth
      /\ frames'[Depth] = f
      /\ \A i \in 1 .. Depth : i = Depth \/ (i # Depth /\ frames'[i] = frames[i])
      /\ \A d \in Excs : Underway(d)' <=> Underway(d) /\ (d # flight \/ f.exc = flight)
  BY <1>2, <1>5, <1>6, <1>7, Arrives
<1>9. TypeOK'
  BY <1>1, <1>5, <1>8 DEF TypeOK, Depth
<1>10. HandlerAt' = HandlerAt /\ \A i \in HandlerAt : frames'[i].in = frames[i].in
  <2>1. \A i \in 1 .. Depth : /\ frames'[i].kind \in {"catch", "leave"} <=>
                                 frames[i].kind \in {"catch", "leave"}
                              /\ frames'[i].in = frames[i].in
    BY <1>2, <1>3, <1>6, <1>8
  <2> QED BY <2>1, <1>8 DEF HandlerAt
<1>11. \A d \in Excs : Underway(d)' <=> Underway(d)
  BY <1>6, <1>8
<1> QED BY <1>1, <1>5, <1>8, <1>9, <1>10, <1>11, RefsSame, AliveSame, HandlersSame, IdsSame
        DEF HostInv

(* A handler on top of the stack, and its exception on top of the host's.  *)
LEMMA HandlersPush ==
  ASSUME TypeOK, CaughtIsHandlers, NEW e \in Excs, caught' = Append(caught, e),
         Depth >= 1, Depth' = Depth, Depth \notin HandlerAt,
         \A i \in 1 .. Depth : i = Depth \/ (i # Depth /\ frames'[i] = frames[i]),
         frames'[Depth].kind = "catch", frames'[Depth].in = e
  PROVE  CaughtIsHandlers'
<1> PICK n : n = Len(caught)
  OBVIOUS
<1>1. PICK at \in [1 .. n -> 1 .. Depth] :
        /\ {at[m] : m \in 1 .. n} = HandlerAt
        /\ \A l, m \in 1 .. n : l < m => at[l] < at[m]
        /\ \A m \in 1 .. n : caught[m] = frames[at[m]].in
  BY DEF CaughtIsHandlers
<1>2. /\ n \in Nat /\ Depth \in Nat /\ Len(caught') = n + 1 /\ caught'[n + 1] = e
      /\ \A m \in 1 .. n : caught'[m] = caught[m]
  BY DepthTyped, LenProperties, HoldersPush DEF TypeOK
<1>3. HandlerAt' = HandlerAt \cup {Depth}
  BY <1>2 DEF HandlerAt
<1> PICK bt : bt = [m \in 1 .. n + 1 |-> IF m = n + 1 THEN Depth ELSE at[m]]
  OBVIOUS
<1>4. /\ \A m \in 1 .. n + 1 : m = n + 1 \/ m \in 1 .. n
      /\ \A m \in 1 .. n : m \in 1 .. n + 1 /\ m # n + 1
      /\ n + 1 \in 1 .. n + 1
  BY <1>2
<1>5. bt[n + 1] = Depth /\ \A m \in 1 .. n : bt[m] = at[m]
  BY <1>4
<1>6. \A m \in 1 .. n : at[m] \in HandlerAt /\ at[m] \in 1 .. Depth /\ at[m] # Depth /\ at[m] < Depth
  <2>1. \A m \in 1 .. n : at[m] \in HandlerAt /\ at[m] \in 1 .. Depth
    BY <1>1
  <2> QED BY <2>1, <1>2
<1>7. bt \in [1 .. n + 1 -> 1 .. Depth]
  BY <1>2, <1>4, <1>6
<1>8. {bt[m] : m \in 1 .. n + 1} = HandlerAt'
  <2>1. {bt[m] : m \in 1 .. n + 1} = {at[m] : m \in 1 .. n} \cup {Depth}
    BY <1>4, <1>5
  <2> QED BY <2>1, <1>1, <1>3
<1>9. \A l, m \in 1 .. n + 1 : l < m => bt[l] < bt[m]
  <2> SUFFICES ASSUME NEW l \in 1 .. n + 1, NEW m \in 1 .. n + 1, l < m
               PROVE  bt[l] < bt[m]
    OBVIOUS
  <2>1. l \in 1 .. n
    BY <1>2
  <2>2. CASE m = n + 1
    BY <2>1, <2>2, <1>5, <1>6
  <2>3. CASE m \in 1 .. n
    BY <2>1, <2>3, <1>1, <1>5
  <2> QED BY <2>2, <2>3, <1>4
<1>10. \A m \in 1 .. n + 1 : caught'[m] = frames'[bt[m]].in
  BY <1>1, <1>2, <1>4, <1>5, <1>6
<1>11. bt \in [1 .. Len(caught') -> 1 .. Depth']
  BY <1>2, <1>7
<1>12. /\ {bt[m] : m \in 1 .. Len(caught')} = HandlerAt'
       /\ \A l, m \in 1 .. Len(caught') : l < m => bt[l] < bt[m]
       /\ \A m \in 1 .. Len(caught') : caught'[m] = frames'[bt[m]].in
  BY <1>2, <1>8, <1>9, <1>10
<1> QED BY <1>11, <1>12 DEF CaughtIsHandlers

LEMMA HandlersPop ==
  ASSUME TypeOK, CaughtIsHandlers, Depth \in HandlerAt, Len(caught) >= 1,
         caught' = Pop(caught), HandlerAt' = HandlerAt \ {Depth},
         \A i \in HandlerAt \ {Depth} : frames'[i].in = frames[i].in
  PROVE  CaughtIsHandlers'
<1> PICK n : n = Len(caught)
  OBVIOUS
<1>1. PICK at \in [1 .. n -> 1 .. Depth] :
        /\ {at[m] : m \in 1 .. n} = HandlerAt
        /\ \A l, m \in 1 .. n : l < m => at[l] < at[m]
        /\ \A m \in 1 .. n : caught[m] = frames[at[m]].in
  BY DEF CaughtIsHandlers
<1>2. n \in Nat /\ Depth \in Nat /\ n >= 1 /\ Depth >= 1
  BY DepthTyped, LenProperties DEF TypeOK, HandlerAt
<1>3. Len(caught') = n - 1 /\ \A m \in 1 .. n - 1 : caught'[m] = caught[m]
  BY <1>2, PopSeq DEF TypeOK
<1>4. /\ \A m \in 1 .. n : m = n \/ m \in 1 .. n - 1
      /\ \A m \in 1 .. n - 1 : m \in 1 .. n /\ m < n
      /\ n \in 1 .. n
  BY <1>2
<1>5. at[n] = Depth
  <2>1. PICK m \in 1 .. n : at[m] = Depth
    BY <1>1
  <2>2. CASE m = n
    BY <2>1, <2>2
  <2>3. CASE m # n
    <3>1. at[m] < at[n] /\ at[n] \in 1 .. Depth
      BY <2>3, <1>1, <1>4
    <3> QED BY <3>1, <2>1, <1>2
  <2> QED BY <2>2, <2>3
<1>6. \A m \in 1 .. n - 1 : at[m] \in HandlerAt /\ at[m] # Depth
  <2> SUFFICES ASSUME NEW m \in 1 .. n - 1 PROVE at[m] \in HandlerAt /\ at[m] # Depth
    OBVIOUS
  <2>1. m \in 1 .. n /\ m < n
    BY <1>4
  <2>2. at[m] \in HandlerAt /\ at[m] < at[n]
    BY <2>1, <1>1, <1>4
  <2> QED BY <2>2, <1>2, <1>5
<1> PICK bt : bt = [m \in 1 .. n - 1 |-> at[m]]
  OBVIOUS
<1>7. \A m \in 1 .. n - 1 : bt[m] = at[m]
  OBVIOUS
<1>8. \A m \in 1 .. n - 1 : bt[m] \in HandlerAt'
  BY <1>6, <1>7
<1>9. bt \in [1 .. n - 1 -> 1 .. Depth']
  BY <1>8 DEF HandlerAt
<1>10. {bt[m] : m \in 1 .. n - 1} = HandlerAt'
  <2>1. HandlerAt' \subseteq {bt[m] : m \in 1 .. n - 1}
    BY <1>1, <1>4, <1>5, <1>7
  <2> QED BY <2>1, <1>8
<1>11. \A l, m \in 1 .. n - 1 : l < m => bt[l] < bt[m]
  BY <1>1, <1>4, <1>7
<1>12. \A m \in 1 .. n - 1 : caught'[m] = frames'[bt[m]].in
  BY <1>1, <1>3, <1>4, <1>6, <1>7
<1>13. bt \in [1 .. Len(caught') -> 1 .. Depth']
  BY <1>3, <1>9
<1>14. /\ {bt[m] : m \in 1 .. Len(caught')} = HandlerAt'
       /\ \A l, m \in 1 .. Len(caught') : l < m => bt[l] < bt[m]
       /\ \A m \in 1 .. Len(caught') : caught'[m] = frames'[bt[m]].in
  BY <1>3, <1>10, <1>11, <1>12
<1> QED BY <1>13, <1>14 DEF CaughtIsHandlers

LEMMA EnterHandlerStep ==
  ASSUME HostInv, EnterHandler
  PROVE  HostInv'
<1> PICK e : e = flight
  OBVIOUS
<1> PICK f : f = Catch(e)
  OBVIOUS
<1> PICK c : c = Top.clauses[Top.at]
  OBVIOUS
<1>1. /\ TypeOK /\ FramesShaped /\ Contained /\ RefsCounted /\ AliveExact /\ CaughtIsHandlers
      /\ IdsApart /\ flight \in Excs \cup {NoExc}
  BY DEF HostInv, TypeOK
<1>2. flight # NoExc /\ Top.kind = "pad" /\ Top.at <= Len(Top.clauses) /\ e \in Excs
  BY <1>1 DEF EnterHandler
<1>3. /\ Depth >= 1 /\ Top = frames[Depth] /\ Depth \in Nat /\ Top.at \in Nat
      /\ Top.clauses \in Clauses \cup {<<>>}
  BY <1>1, <1>2, UnwindsInto, DepthTyped DEF FrameTypes
<1>4. Top.exc = e
  BY <1>1, <1>2, <1>3 DEF FramesShaped
<1>5. /\ c = CatchAll => UNCHANGED <<typeIDs, nextType>>
      /\ c # CatchAll => RegisterType(c)
      /\ beginCatch(e) /\ frames' = Append(Pop(frames), f) /\ flight' = NoExc
      /\ UNCHANGED <<last, tempRet0, ptrs>>
  BY <1>2, <1>4 DEF EnterHandler
<1>6. /\ f \in FrameTypes /\ f.kind = "catch" /\ f.exc = NoExc /\ f.in = e /\ Shaped(f)
  BY <1>2, FrameTyped DEF Shaped
<1>7. /\ FramesShaped' /\ Contained' /\ LastShown' /\ PassingOnce' /\ PadOnCourse'
      /\ frames' \in Seq(FrameTypes) /\ Len(frames') = Depth /\ Depth' = Depth
      /\ frames'[Depth] = f
      /\ \A i \in 1 .. Depth : i = Depth \/ (i # Depth /\ frames'[i] = frames[i])
      /\ \A d \in Excs : Underway(d)' <=> Underway(d) /\ (d # flight \/ f.exc = flight)
  BY <1>2, <1>5, <1>6, Arrives
<1>8. \A d \in Excs : Underway(d)' <=> Underway(d) /\ d # e
  BY <1>2, <1>6, <1>7
<1>9. IdsApart' /\ typeIDs' \in [Types -> Nat] /\ nextType' \in Nat
  <2>1. c \in Types \cup {CatchAll}
    <3>1. Top.clauses \in Seq(Types \cup {CatchAll})
      BY <1>3, ExcAssumption, EmptySeq
    <3>2. Top.at >= 1
      BY <1>2, <1>3 DEF HostInv, PadOnCourse
    <3>3. Top.at \in 1 .. Len(Top.clauses)
      BY <3>1, <3>2, <1>2, <1>3, LenProperties
    <3> QED BY <3>1, <3>3, ElementOfSeq
  <2>2. CASE c = CatchAll
    BY <2>2, <1>1, <1>5, IdsSame DEF TypeOK
  <2>3. CASE c # CatchAll
    BY <2>1, <2>3, <1>1, <1>5, Registers
  <2> QED BY <2>2, <2>3
<1> PICK h : h = [header[e] EXCEPT !.caught = TRUE, !.rethrown = FALSE, !.ref = @ + 1]
  OBVIOUS
<1>10. /\ header \in [Excs -> Headers] /\ header[e] \in Headers /\ header[e].ref \in Nat
       /\ uncaught \in Nat
  BY <1>1, <1>2 DEF TypeOK, Headers
<1>11. header' = [header EXCEPT ![e] = h]
  <2>1. header' = IncRef([header EXCEPT ![e].caught = TRUE, ![e].rethrown = FALSE], e)
    BY <1>5 DEF beginCatch
  <2> QED BY <2>1, <1>2, <1>10 DEF IncRef, Headers
<1>12. /\ h \in Headers /\ h.ref = header[e].ref + 1 /\ h.alive = header[e].alive /\ ~h.rethrown
  <2>1. header[e].ref + 1 \in Nat
    BY <1>10
  <2>2. h.ref = header[e].ref + 1 /\ h.alive = header[e].alive /\ h.rethrown = FALSE
    BY <1>10 DEF Headers
  <2>3. h \in Headers
    BY <1>10, <2>1 DEF Headers
  <2> QED BY <2>2, <2>3
<1>13. /\ header' \in [Excs -> Headers] /\ header'[e] = h
       /\ \A d \in Excs : d # e => header'[d] = header[d]
  BY <1>2, <1>10, <1>11, <1>12
<1>14. uncaught' \in Nat /\ caught' = Append(caught, e)
  <2>1. uncaught' = uncaught \/ (uncaught > 0 /\ uncaught' = uncaught - 1)
    BY <1>5 DEF beginCatch
  <2> QED BY <2>1, <1>5, <1>10 DEF beginCatch
<1>15. /\ caught' \in Seq(Excs)
       /\ Cardinality(Holders(e)') = Cardinality(Holders(e)) + 1
       /\ \A d \in Excs : d # e => Holders(d)' = Holders(d)
  BY <1>1, <1>2, <1>14, HoldersPush
<1>16. TypeOK'
  BY <1>1, <1>5, <1>7, <1>9, <1>13, <1>14, <1>15 DEF TypeOK, Depth
<1>17. CaughtIsHandlers'
  <2>1. Depth \notin HandlerAt
    BY <1>2, <1>3 DEF HandlerAt
  <2> QED BY <2>1, <1>1, <1>2, <1>3, <1>6, <1>7, <1>14, HandlersPush
<1>18. RefsCounted'
  <2>1. header[e].ref = Cardinality(Holders(e)) + ptrs[e] /\ Cardinality(Holders(e)) \in Nat
        /\ ptrs[e] \in Nat
    BY <1>1, <1>2, HoldersFinite DEF RefsCounted, TypeOK
  <2>2. header'[e].ref = Cardinality(Holders(e)') + ptrs'[e]
    <3>1. header'[e].ref = header[e].ref + 1 /\ ptrs'[e] = ptrs[e]
      BY <1>5, <1>12, <1>13
    <3> PICK n : n = Cardinality(Holders(e))
      OBVIOUS
    <3>2. Cardinality(Holders(e)') = n + 1 /\ n \in Nat /\ header[e].ref = n + ptrs[e]
      BY <2>1, <1>15
    <3> QED BY <2>1, <3>1, <3>2
  <2>3. \A d \in Excs : d # e => header'[d].ref = Cardinality(Holders(d)') + ptrs'[d]
    BY <1>1, <1>5, <1>13, <1>15 DEF RefsCounted
  <2> QED BY <2>2, <2>3 DEF RefsCounted
<1>19. AliveExact'
  <2>1. Underway(e)
    BY DEF Underway
  <2>2. header'[e].alive /\ ~header'[e].rethrown
    BY <2>1, <1>1, <1>2, <1>12, <1>13 DEF AliveExact
  <2>3. header'[e].ref > 0
    BY <1>10, <1>12, <1>13
  <2>4. ~Underway(e)'
    BY <1>2, <1>8
  <2>5. \A d \in Excs : d # e =>
          /\ header'[d].alive <=> header'[d].ref > 0 \/ Underway(d)'
          /\ header'[d].rethrown => Underway(d)'
          /\ Underway(d)' /\ header'[d].ref > 0 => header'[d].rethrown
    BY <1>1, <1>8, <1>13 DEF AliveExact
  <2> QED BY <2>2, <2>3, <2>4, <2>5 DEF AliveExact
<1> QED BY <1>7, <1>9, <1>16, <1>17, <1>18, <1>19 DEF HostInv

(* What __cxa_end_catch does, whatever becomes of the handler's frame.     *)
LEMMA EndCatchKeeps ==
  ASSUME HostInv, Depth >= 1, Top.kind \in {"catch", "leave"}, endCatch,
         UNCHANGED ptrs, \A d \in Excs : Underway(d)' <=> Underway(d)
  PROVE  /\ RefsCounted' /\ AliveExact' /\ header' \in [Excs -> Headers] /\ last' = NoExc
         /\ caught' \in Seq(Excs) /\ caught' = Pop(caught) /\ Len(caught) >= 1
<1> PICK e : e = TopOf(caught)
  OBVIOUS
<1>1. TypeOK /\ RefsCounted /\ CaughtIsHandlers
  BY DEF HostInv
<1>2. caught # <<>> /\ Len(caught) >= 1 /\ e = caught[Len(caught)]
  BY <1>1, HandlerOnTop DEF TopOf
<1>3. caught' = Pop(caught) /\ header' = DecRef(header, e) /\ last' = NoExc
  BY <1>2 DEF endCatch
<1>4. /\ caught' \in Seq(Excs) /\ e \in Excs /\ Cardinality(Holders(e)) >= 1
      /\ Cardinality(Holders(e)') = Cardinality(Holders(e)) - 1
      /\ \A d \in Excs : d # e => Holders(d)' = Holders(d)
  BY <1>1, <1>2, <1>3, HoldersPop
<1>5. /\ header[e].ref = Cardinality(Holders(e)) + ptrs[e] /\ Cardinality(Holders(e)) \in Nat
      /\ ptrs[e] \in Nat
  BY <1>1, <1>4, HoldersFinite DEF RefsCounted, TypeOK
<1>6. header[e].ref >= 1
  BY <1>4, <1>5
<1>7. /\ AliveExact' /\ header' \in [Excs -> Headers] /\ header'[e].ref = header[e].ref - 1
      /\ \A d \in Excs : d # e => header'[d] = header[d]
  BY <1>3, <1>4, <1>6, DecRefKeeps
<1>8. RefsCounted'
  <2>1. header'[e].ref = Cardinality(Holders(e)') + ptrs'[e]
    <3> PICK n : n = Cardinality(Holders(e))
      OBVIOUS
    <3>1. header'[e].ref = header[e].ref - 1 /\ ptrs'[e] = ptrs[e]
      BY <1>7
    <3>2. Cardinality(Holders(e)') = n - 1 /\ n \in Nat /\ header[e].ref = n + ptrs[e]
      BY <1>4, <1>5
    <3> QED BY <1>5, <3>1, <3>2
  <2>2. \A d \in Excs : d # e => header'[d].ref = Cardinality(Holders(d)') + ptrs'[d]
    BY <1>1, <1>4, <1>7 DEF RefsCounted
  <2> QED BY <2>1, <2>2 DEF RefsCounted
<1> QED BY <1>2, <1>3, <1>4, <1>7, <1>8

(* A handler that ends by itself leaves the stack ...                      *)
LEMMA HandlerEnds ==
  ASSUME HostInv, EndHandler, Top.kind = "catch"
  PROVE  HostInv'
<1>1. /\ TypeOK /\ FramesShaped /\ Contained /\ PassingOnce /\ CaughtIsHandlers /\ IdsApart
  BY DEF HostInv
<1>2. /\ flight = NoExc /\ flight' = NoExc /\ Depth > 0 /\ frames' = Pop(frames) /\ endCatch
      /\ UNCHANGED <<typeIDs, nextType, tempRet0, uncaught, ptrs>>
  BY DEF EndHandler, Running
<1>3. Depth \in Nat /\ Depth >= 1 /\ Top = frames[Depth]
  BY <1>1, <1>2, DepthTyped
<1>4. /\ Pops /\ frames' \in Seq(FrameTypes) /\ Depth' = Len(frames') /\ Depth' = Depth - 1
  BY <1>1, <1>2, <1>3, PopsTop DEF Pops, Depth
<1>5. \A i \in 1 .. Depth' : i \in 1 .. Depth /\ i # Depth /\ frames'[i] = frames[i]
  BY <1>3, <1>4 DEF Pops
<1>6. \A i \in 1 .. Depth : i = Depth \/ i \in 1 .. Depth'
  BY <1>3, <1>4
<1>7. frames[Depth].exc = NoExc
  BY <1>1, <1>3 DEF FramesShaped, Shaped
<1>8. \A e \in Excs : Underway(e)' <=> Underway(e)
  BY <1>2, <1>5, <1>6, <1>7, ExcAssumption DEF Underway
<1>9. /\ RefsCounted' /\ AliveExact' /\ header' \in [Excs -> Headers] /\ last' = NoExc
      /\ caught' \in Seq(Excs) /\ caught' = Pop(caught) /\ Len(caught) >= 1
  BY <1>2, <1>3, <1>8, EndCatchKeeps
<1>10. TypeOK'
  <2>1. Len(frames') <= MaxDepth
    BY <1>1, <1>3, <1>4, DepthTyped
  <2> QED BY <2>1, <1>1, <1>2, <1>4, <1>9 DEF TypeOK
<1>11. FramesShaped'
  <2>1. \A i \in 1 .. Depth' : Shaped(frames'[i]) /\ frames'[i].kind # "pad"
    BY <1>1, <1>2, <1>5, NoPads DEF FramesShaped
  <2> QED BY <2>1, <1>2 DEF FramesShaped, Shaped
<1>12. Contained'
  BY <1>1, <1>2, <1>3, <1>4, <1>5, ContainedRuns DEF Barrier
<1>13. LastShown'
  BY <1>9 DEF LastShown
<1>14. PassingOnce'
  BY <1>1, <1>2, <1>5 DEF PassingOnce
<1>15. CaughtIsHandlers'
  <2>1. Depth \in HandlerAt
    BY <1>3 DEF HandlerAt
  <2>2. HandlerAt' = HandlerAt \ {Depth}
    BY <1>5, <1>6 DEF HandlerAt
  <2>3. \A i \in HandlerAt \ {Depth} : frames'[i].in = frames[i].in
    BY <1>5, <1>6 DEF HandlerAt
  <2> QED BY <2>1, <2>2, <2>3, <1>1, <1>9, HandlersPop
<1> QED BY <1>1, <1>2, <1>9, <1>10, <1>11, <1>12, <1>13, <1>14, <1>15, IdsSame, PadsGone
        DEF HostInv

(* ... and one that an exception leaves turns into destructors on its way. *)
LEMMA HandlerLeft ==
  ASSUME HostInv, EndHandler, Top.kind = "leave"
  PROVE  HostInv'
<1> PICK f : f = Cleanup(Top.exc)
  OBVIOUS
<1>1. /\ TypeOK /\ FramesShaped /\ Contained /\ PassingOnce /\ CaughtIsHandlers /\ IdsApart
  BY DEF HostInv
<1>2. /\ flight = NoExc /\ flight' = NoExc /\ Depth > 0 /\ frames' = Append(Pop(frames), f)
      /\ endCatch /\ UNCHANGED <<typeIDs, nextType, tempRet0, uncaught, ptrs>>
  BY DEF EndHandler, Running
<1>3. Depth \in Nat /\ Depth >= 1 /\ Top = frames[Depth] /\ Top.exc \in Excs
  BY <1>1, <1>2, DepthTyped DEF FramesShaped, Shaped
<1>4. /\ f \in FrameTypes /\ f.kind = "cleanup" /\ f.exc = Top.exc /\ f.in = NoExc /\ Shaped(f)
  BY <1>3, FrameTyped DEF Shaped
<1>5. Replaces(f) /\ frames' \in Seq(FrameTypes)
  BY <1>1, <1>2, <1>3, <1>4, ReplacesTop
<1>6. /\ Depth' = Depth /\ Len(frames') = Depth /\ frames'[Depth] = f
      /\ \A i \in 1 .. Depth : i = Depth \/ (i # Depth /\ frames'[i] = frames[i])
  BY <1>3, <1>5 DEF Replaces, Depth
<1>7. \A i \in 1 .. Depth : frames'[i].exc = frames[i].exc
  BY <1>3, <1>4, <1>6
<1>8. \A e \in Excs : Underway(e)' <=> Underway(e)
  BY <1>2, <1>6, <1>7 DEF Underway
<1>9. /\ RefsCounted' /\ AliveExact' /\ header' \in [Excs -> Headers] /\ last' = NoExc
      /\ caught' \in Seq(Excs) /\ caught' = Pop(caught) /\ Len(caught) >= 1
  BY <1>2, <1>3, <1>8, EndCatchKeeps
<1>10. TypeOK'
  BY <1>1, <1>2, <1>5, <1>6, <1>9 DEF TypeOK, Depth
<1>11. FramesShaped'
  <2>1. \A i \in 1 .. Depth' : Shaped(frames'[i]) /\ frames'[i].kind # "pad"
    BY <1>1, <1>2, <1>4, <1>6, NoPads DEF FramesShaped
  <2> QED BY <2>1, <1>2 DEF FramesShaped, Shaped
<1>12. Contained'
  <2>1. \A m \in 1 .. Len(frames') - 1 : m <= Depth /\ frames'[m] = frames[m]
    BY <1>3, <1>6
  <2>2. \A m \in 1 .. Len(frames') : m = Len(frames') => m <= Depth /\ Barrier(m)
    BY <1>3, <1>6 DEF Barrier
  <2>3. Len(frames') \in Nat
    BY <1>3, <1>6
  <2> QED BY <2>1, <2>2, <2>3, <1>1, <1>2, ContainedRuns
<1>13. LastShown'
  BY <1>9 DEF LastShown
<1>14. PassingOnce'
  BY <1>1, <1>2, <1>6, <1>7 DEF PassingOnce
<1>15. CaughtIsHandlers'
  <2>1. Depth \in HandlerAt
    BY <1>3 DEF HandlerAt
  <2>2. HandlerAt' = HandlerAt \ {Depth}
    BY <1>3, <1>4, <1>6 DEF HandlerAt
  <2>3. \A i \in HandlerAt \ {Depth} : frames'[i].in = frames[i].in
    BY <1>6 DEF HandlerAt
  <2> QED BY <2>1, <2>2, <2>3, <1>1, <1>9, HandlersPop
<1> QED BY <1>1, <1>2, <1>9, <1>10, <1>11, <1>12, <1>13, <1>14, <1>15, IdsSame, PadsGone
        DEF HostInv

(* Destructors are done, and the exception goes on: the host remembers it, *)
(* or takes it from the landing pad.                                       *)
LEMMA ResumeStep ==
  ASSUME HostInv, Resume
  PROVE  HostInv'
<1> PICK e : e = Top.exc
  OBVIOUS
<1>1. /\ TypeOK /\ FramesShaped /\ Contained /\ LastShown /\ PassingOnce /\ RefsCounted
      /\ AliveExact /\ CaughtIsHandlers /\ IdsApart
  BY DEF HostInv
<1>2. /\ flight = NoExc /\ Depth > 0 /\ Top.kind = "cleanup" /\ frames' = Pop(frames)
      /\ flight' = last' /\ last' = (IF last = NoExc THEN e ELSE last)
      /\ UNCHANGED <<caught, typeIDs, nextType, tempRet0, uncaught, header, ptrs>>
  BY DEF Resume, Running, Unwind
<1>3. /\ Depth \in Nat /\ Depth >= 1 /\ Depth \in 1 .. Depth /\ Top = frames[Depth]
      /\ frames[Depth].exc = e /\ e \in Excs /\ frames[Depth].in = NoExc
  BY <1>1, <1>2, DepthTyped DEF FramesShaped, Shaped
<1>4. last' = e /\ flight' = e
  <2>1. CASE last = NoExc
    BY <2>1, <1>2
  <2>2. CASE last # NoExc
    <3>1. PICK i \in 1 .. Depth :
            /\ frames[i].kind # "try" /\ last \in {frames[i].exc, frames[i].in}
            /\ \A j \in i + 1 .. Depth : frames[j].kind = "try"
      BY <2>2, <1>1, <1>2 DEF LastShown
    <3>2. i = Depth
      <4>1. i = Depth \/ Depth \in i + 1 .. Depth
        BY <1>3
      <4> QED BY <4>1, <3>1, <1>2, <1>3
    <3> QED BY <2>2, <3>1, <3>2, <1>2, <1>3
  <2> QED BY <2>1, <2>2
<1>5. /\ Pops /\ frames' \in Seq(FrameTypes) /\ Depth' = Len(frames') /\ Depth' = Depth - 1
  BY <1>1, <1>2, <1>3, PopsTop DEF Pops, Depth
<1>6. \A i \in 1 .. Depth' : i \in 1 .. Depth /\ i # Depth /\ frames'[i] = frames[i]
  BY <1>3, <1>5 DEF Pops
<1>7. \A i \in 1 .. Depth : i = Depth \/ i \in 1 .. Depth'
  BY <1>3, <1>5
<1>8. TypeOK'
  <2>1. Len(frames') <= MaxDepth
    BY <1>1, <1>3, <1>5, DepthTyped
  <2> QED BY <2>1, <1>1, <1>2, <1>3, <1>4, <1>5 DEF TypeOK
<1>9. \A i \in 1 .. Depth' : Shaped(frames'[i]) /\ frames'[i].kind # "pad"
  BY <1>1, <1>2, <1>6, NoPads DEF FramesShaped
<1>10. FramesShaped'
  BY <1>2, <1>9 DEF FramesShaped, Shaped
<1>11. Contained'
  <2>1. \A m \in 1 .. Depth' : /\ Barrier(m)' <=> Barrier(m)
                               /\ Catcher(m)' <=> Catcher(m)
    BY <1>6 DEF Barrier, Catcher
  <2>2. Barrier(Depth)
    BY <1>2, <1>3 DEF Barrier
  <2> SUFFICES ASSUME NEW i \in 0 .. Depth', NEW k \in 1 .. Depth' + 1,
                      i = 0 \/ Barrier(i)', i < k, k # Depth' + 1 => Barrier(k)'
               PROVE  \E j \in i + 1 .. k - 1 : Catcher(j)'
    BY DEF Contained
  <2>3. /\ i \in 0 .. Depth /\ k \in 1 .. Depth /\ k \in 1 .. Depth + 1 /\ k # Depth + 1
        /\ i = 0 \/ i \in 1 .. Depth'
        /\ k = Depth \/ k \in 1 .. Depth'
    BY <1>3, <1>5
  <2>4. (i = 0 \/ Barrier(i)) /\ Barrier(k)
    BY <2>1, <2>2, <2>3, <1>3, <1>5
  <2>5. PICK j \in i + 1 .. k - 1 : Catcher(j)
    BY <2>3, <2>4, <1>1 DEF Contained
  <2>6. j \in 1 .. Depth'
    BY <1>3, <1>5
  <2> QED BY <2>1, <2>5, <2>6
<1>12. LastShown'
  BY <1>3, <1>4, ExcAssumption DEF LastShown
<1>13. PassingOnce'
  <2>1. \A i \in 1 .. Depth' : frames'[i].exc # e
    BY <1>1, <1>3, <1>6, ExcAssumption DEF PassingOnce
  <2> QED BY <2>1, <1>1, <1>4, <1>6 DEF PassingOnce
<1>14. \A d \in Excs : Underway(d)' <=> Underway(d)
  BY <1>2, <1>3, <1>4, <1>6, <1>7, ExcAssumption DEF Underway
<1>15. HandlerAt' = HandlerAt /\ \A i \in HandlerAt : frames'[i].in = frames[i].in
  BY <1>2, <1>3, <1>6, <1>7 DEF HandlerAt
<1>16. PadOnCourse'
  BY <1>5, <1>9, PadsNone
<1> QED BY <1>1, <1>2, <1>8, <1>10, <1>11, <1>12, <1>13, <1>14, <1>15, <1>16,
           RefsSame, AliveSame, HandlersSame, IdsSame DEF HostInv

LEMMA HostKeeps == HostInv /\ [Next]_vars => HostInv'
<1> SUFFICES ASSUME HostInv, [Next]_vars PROVE HostInv'
  OBVIOUS
<1>1. ASSUME NEW cs \in Clauses, EnterTry(cs) PROVE HostInv'
  BY <1>1, EnterTryStep
<1>2. CASE LeaveTry
  BY <1>2, LeaveTryStep
<1>3. ASSUME NEW e \in Excs, DropPtr(e) PROVE HostInv'
  BY <1>3, DropPtrStep
<1>4. ASSUME NEW e \in Excs, RethrowPrimary(e) PROVE HostInv'
  BY <1>4, RethrowPrimaryStep
<1>5. ASSUME NEW e \in Excs, NEW t \in Types, Throw(e, t) PROVE HostInv'
  BY <1>5, ThrowStep
<1>6. CASE Rethrow
  BY <1>6, RethrowStep
<1>7. CASE CurrentPrimary
  BY <1>7, CurrentPrimaryStep
<1>8. CASE FindMatch
  BY <1>8, FindMatchStep
<1>9. CASE Differs
  BY <1>9, DiffersStep
<1>10. CASE EnterHandler
  BY <1>10, EnterHandlerStep
<1>11. CASE NoClause
  BY <1>11, NoClauseStep
<1>12. CASE PassHandler
  BY <1>12, PassHandlerStep
<1>13. CASE EndHandler
  <2>1. Top.kind = "catch" \/ Top.kind = "leave"
    BY <1>13 DEF EndHandler
  <2> QED BY <2>1, <1>13, HandlerEnds, HandlerLeft
<1>14. CASE Resume
  BY <1>14, ResumeStep
<1>15. CASE UNCHANGED vars
  <2>1. UNCHANGED <<last, caught, typeIDs, nextType, tempRet0, uncaught, header, frames, flight, ptrs>>
    BY <1>15 DEF vars, host
  <2>2. FramesShaped' /\ LastShown' /\ PassingOnce' /\ CaughtIsHandlers' /\ Contained'
    <3>1. FramesShaped' /\ PassingOnce'
      BY <2>1 DEF HostInv, FramesShaped, PassingOnce, Depth
    <3>2. LastShown' /\ CaughtIsHandlers'
      BY <2>1 DEF HostInv, LastShown, CaughtIsHandlers, HandlerAt, Depth
    <3>3. Contained'
      <4>1. Contained /\ Depth' = Depth /\ flight' = flight
        BY <2>1 DEF HostInv, Depth
      <4>2. \A m : (Barrier(m)' <=> Barrier(m)) /\ (Catcher(m)' <=> Catcher(m))
        BY <2>1 DEF Barrier, Catcher
      <4> QED BY <4>1, <4>2 DEF Contained
    <3> QED BY <3>1, <3>2, <3>3
  <2>3. TypeOK' /\ IdsApart' /\ RefsCounted'
    BY <2>1 DEF HostInv, TypeOK, Depth, IdsApart, RefsCounted, Holders
  <2>4. AliveExact'
    BY <2>1 DEF HostInv, AliveExact, Underway, Depth
  <2>5. PadOnCourse'
    BY <2>1 DEF HostInv, PadOnCourse, Depth, Known, IdOf
  <2> QED BY <2>2, <2>3, <2>4, <2>5 DEF HostInv
<1> QED BY <1>1, <1>2, <1>3, <1>4, <1>5, <1>6, <1>7, <1>8, <1>9, <1>10, <1>11, <1>12, <1>13,
           <1>14, <1>15 DEF Next

THEOREM HostHolds == Spec => []HostInv
  BY HostStarts, HostKeeps, PTL DEF Spec
-----------------------------------------------------------------------------
(* The results.                                                            *)

(* The host's variables, the headers and the program's stack keep their    *)
(* types, and the stack its bound, whatever the program does.              *)
THEOREM HostTypeCorrect == Spec => []TypeOK
<1>1. HostInv => TypeOK
  BY DEF HostInv
<1> QED BY <1>1, HostHolds, PTL

(* The host's stack of caught exceptions is the stack of active handlers,  *)
(* so that throw; and std::current_exception find the exception of the     *)
(* handler they are in (host.go:100-115).                                  *)
THEOREM HandlersAreCaught == Spec => []CaughtIsHandlers
<1>1. HostInv => CaughtIsHandlers
  BY DEF HostInv
<1> QED BY <1>1, HostHolds, PTL

(* No exception is destroyed while it unwinds, is handled or is held by an *)
(* exception_ptr, however often it is rethrown (host.go:254-371).          *)
THEOREM NothingDiesEarly == Spec => []NoneDestroyedEarly
<1>1. HostInv => NoneDestroyedEarly
  <2> SUFFICES ASSUME HostInv PROVE NoneDestroyedEarly
    OBVIOUS
  <2>1. TypeOK /\ FramesShaped /\ LastShown /\ CaughtIsHandlers
    BY DEF HostInv
  <2>2. \A e \in Excs : e = flight \/ ptrs[e] > 0 => header[e].alive
    BY HeldAlive DEF Underway
  <2>3. ASSUME NEW i \in 1 .. Depth, NEW e \in Excs, e = frames[i].exc
        PROVE  header[e].alive
    BY <2>3, HeldAlive DEF Underway
  <2>4. ASSUME NEW i \in 1 .. Depth, NEW e \in Excs, e = frames[i].in
        PROVE  header[e].alive
    <3>1. frames[i] \in FrameTypes /\ Shaped(frames[i])
      BY <2>1, DepthTyped DEF FramesShaped
    <3>2. i \in HandlerAt
      BY <2>4, <3>1, ExcAssumption DEF Shaped, FrameTypes, HandlerAt
    <3>3. \E n \in 1 .. Len(caught) : caught[n] = e
      BY <2>1, <2>4, <3>2, HandledHeld
    <3> QED BY <3>3, HeldAlive
  <2>5. \A e \in Excs : e = last => header[e].alive
    <3> SUFFICES ASSUME last \in Excs PROVE header[last].alive
      OBVIOUS
    <3>1. CASE flight # NoExc
      BY <3>1, <2>1, <2>2 DEF FramesShaped
    <3>2. CASE flight = NoExc
      <4>1. \E i \in 1 .. Depth : last \in {frames[i].exc, frames[i].in}
        BY <3>2, <2>1, ExcAssumption DEF LastShown
      <4> QED BY <4>1, <2>3, <2>4
    <3> QED BY <3>1, <3>2
  <2>6. \A i \in 1 .. Depth : \A e \in {frames[i].exc, frames[i].in} \ {NoExc} : header[e].alive
    <3> SUFFICES ASSUME NEW i \in 1 .. Depth, NEW e \in {frames[i].exc, frames[i].in}, e # NoExc
                 PROVE  header[e].alive
      OBVIOUS
    <3>1. e \in Excs
      BY <2>1, DepthTyped DEF FrameTypes
    <3> QED BY <3>1, <2>3, <2>4
  <2> QED BY <2>2, <2>5, <2>6 DEF NoneDestroyedEarly
<1> QED BY <1>1, HostHolds, PTL

(* Back in the C API nothing is caught, and an exception object is left    *)
(* only where an exception_ptr holds it.                                   *)
THEOREM NothingLeaks == Spec => []NoneLeaks
<1>1. HostInv => NoneLeaks
  <2> SUFFICES ASSUME HostInv, frames = <<>>
               PROVE  caught = <<>> /\ \A e \in Excs : header[e].alive => ptrs[e] > 0
    BY DEF NoneLeaks
  <2>1. TypeOK /\ FramesShaped /\ Contained /\ CaughtIsHandlers
    BY DEF HostInv
  <2>2. Depth = 0
    BY EmptySeq DEF Depth
  <2>3. flight = NoExc
    BY <2>1, <2>2, UnwindsInto
  <2>4. caught = <<>> /\ Len(caught) = 0
    <3>1. Len(caught) \in Nat /\ \A n \in 1 .. Len(caught) : FALSE
      BY <2>1, <2>2, LenProperties DEF CaughtIsHandlers, TypeOK
    <3>2. Len(caught) = 0
      BY <3>1
    <3> QED BY <3>2, <2>1, EmptySeq DEF TypeOK
  <2> SUFFICES ASSUME NEW e \in Excs, header[e].alive PROVE ptrs[e] > 0
    BY <2>4
  <2>5. ~Underway(e)
    BY <2>2, <2>3, ExcAssumption DEF Underway
  <2>6. header[e].ref > 0 /\ header[e].ref = Cardinality(Holders(e)) + ptrs[e]
    BY <2>5 DEF HostInv, AliveExact, RefsCounted
  <2>7. Cardinality(Holders(e)) = 0
    <3>1. Holders(e) = {}
      BY <2>4 DEF Holders
    <3> QED BY <3>1, <2>1, HoldersFinite
  <2> QED BY <2>1, <2>6, <2>7 DEF TypeOK
<1> QED BY <1>1, HostHolds, PTL

(* A landing pad enters the handler C++ says: the first clause that takes  *)
(* the exception in flight, with that exception; its destructors run       *)
(* instead only if there is none (host.go:401-480, 219-229).               *)
THEOREM RightHandler == Spec => HandlerIsRight
<1> DEFINE A == /\ EnterHandler =>
                     /\ Top.exc = flight
                     /\ Top.clauses[Top.at] = FirstClause(Top.clauses, header[flight].type)
                /\ NoClause => /\ Top.exc = flight
                               /\ FirstClause(Top.clauses, header[flight].type) = NoType
                /\ PassHandler => last = flight
<1>1. HostInv => A
  <2> PICK cs : cs = Top.clauses
    OBVIOUS
  <2> PICK at : at = Top.at
    OBVIOUS
  <2> PICK c : c = FirstClause(cs, header[flight].type)
    OBVIOUS
  <2> SUFFICES ASSUME HostInv PROVE A
    OBVIOUS
  <2>1. TypeOK /\ FramesShaped /\ Contained /\ IdsApart /\ PadOnCourse
    BY DEF HostInv
  <2>2. PassHandler => last = flight
    BY <2>1 DEF PassHandler, FramesShaped
  <2>3. ASSUME flight # NoExc, Top.kind = "pad"
        PROVE  /\ Top.exc = flight /\ cs \in Clauses \cup {<<>>} /\ at \in Nat /\ at >= 1
               /\ c = NoType => tempRet0 = 0
               /\ c # NoType => Known(c) /\ tempRet0 = IdOf(c)
               /\ \A k \in 1 .. Len(cs) : k < at => cs[k] # c /\ cs[k] # CatchAll
               /\ Len(cs) \in Nat /\ \A k \in 1 .. Len(cs) : cs[k] \in Types \cup {CatchAll}
    <3>1. /\ Depth >= 1 /\ Top = frames[Depth] /\ Depth \in 1 .. Depth /\ at \in Nat
          /\ cs \in Clauses \cup {<<>>}
      BY <2>1, <2>3, UnwindsInto, DepthTyped DEF FrameTypes
    <3>2. Top.exc = flight
      BY <2>1, <2>3, <3>1 DEF FramesShaped
    <3>3. /\ at >= 1
          /\ c = NoType => tempRet0 = 0
          /\ c # NoType => Known(c) /\ tempRet0 = IdOf(c)
          /\ \A k \in 1 .. Len(cs) : k < at => cs[k] # c /\ cs[k] # CatchAll
      BY <2>1, <2>3, <3>1 DEF PadOnCourse
    <3>4. cs \in Seq(Types \cup {CatchAll})
      BY <3>1, ExcAssumption, EmptySeq
    <3>5. Len(cs) \in Nat /\ \A k \in 1 .. Len(cs) : cs[k] \in Types \cup {CatchAll}
      BY <3>4, LenProperties, ElementOfSeq
    <3> QED BY <3>1, <3>2, <3>3, <3>5
  <2>4. ASSUME EnterHandler PROVE Top.exc = flight /\ cs[at] = c
    <3>1. flight # NoExc /\ Top.kind = "pad" /\ at <= Len(cs)
      BY <2>4 DEF EnterHandler
    <3>2. /\ Top.exc = flight /\ at \in 1 .. Len(cs) /\ cs[at] \in Types \cup {CatchAll}
          /\ cs \in Clauses \cup {<<>>}
      BY <3>1, <2>3
    <3>3. CASE cs[at] = CatchAll
      <4>1. CanTake(cs[at], header[flight].type)
        BY <3>3 DEF CanTake
      <4>2. PICK i \in 1 .. Len(cs) :
              c = cs[i] /\ \A j \in 1 .. Len(cs) : CanTake(cs[j], header[flight].type) => i <= j
        BY <3>2, <4>1, FirstClauseTakes
      <4>3. i <= at /\ ~(i < at)
        BY <3>1, <3>2, <4>1, <4>2, <2>3
      <4>4. i = at
        BY <4>3, <3>1, <2>3
      <4> QED BY <3>2, <4>2, <4>4
    <3>4. CASE cs[at] # CatchAll
      <4>1. IdOf(cs[at]) = tempRet0
        BY <2>4, <3>4 DEF EnterHandler
      <4>2. c # NoType
        BY <4>1, <3>1, <3>2, <2>1, <2>3, IdsPositive
      <4>3. c \in Types \cup {CatchAll}
        BY <4>2, <3>2, FirstClauseTakes
      <4>4. Known(c) /\ IdOf(cs[at]) = IdOf(c)
        BY <4>1, <4>2, <3>1, <2>3
      <4> QED BY <4>3, <4>4, <3>2, <2>1, IdsTell
    <3> QED BY <3>3, <3>4
  <2>5. ASSUME NoClause PROVE Top.exc = flight /\ c = NoType
    <3>1. flight # NoExc /\ Top.kind = "pad" /\ at > Len(cs)
      BY <2>5 DEF NoClause
    <3>2. \A k \in 1 .. Len(cs) : cs[k] # c
      BY <3>1, <2>3
    <3>3. c = NoType
      BY <3>1, <3>2, <2>3, FirstClauseTakes
    <3> QED BY <3>1, <3>3, <2>3
  <2> QED BY <2>2, <2>4, <2>5
<1>2. HostInv => [A]_vars
  BY <1>1
<1> QED BY <1>2, HostHolds, PTL DEF HandlerIsRight
=============================================================================
