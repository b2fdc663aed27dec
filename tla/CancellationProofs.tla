------------------------- MODULE CancellationProofs -------------------------
(***************************************************************************)
(* What holds of cancellation for every number of connections, texts of any*)
(* length and any number of growths of memory.                             *)
(***************************************************************************)
EXTENDS Cancellation, TLAPS

(* A call has the mutex from Enter to Leave.                               *)
HasMutex(c) == pc[c] \in {"setup", "running", "undoing", "rollback", "leaving", "joining"}
MutexExact == \A c \in Conns : HasMutex(c) <=> mu = c

(* Memory grows only while the engine runs, and a statement about to start *)
(* is one that the text still has.                                         *)
EngineSound ==
    \A c \in Conns :
        /\ growing[c] => pc[c] \in {"running", "rollback"}
        /\ pc[c] \in {"queued", "setup"} => call[c].left > 0

(* There is a watcher only inside a call, and past its first select the    *)
(* context has ended.                                                      *)
WatcherSound ==
    \A c \in Conns :
        /\ watcher[c] # "none" => HasMutex(c)
        /\ watcher[c] \in {"poking", "ticking"} => call[c].ctx = "ended"

(* The byte of a statement that is running was cleared by InitialCleanup,  *)
(* and what has set it since is a watcher whose context had ended.         *)
FlagSound ==
    \A c \in Conns :
        /\ pc[c] = "running" /\ flag[c] => call[c].ctx = "ended"
        /\ call[c].cut => call[c].ctx = "ended"

(* Only Refuse reports the context's error alone, and a call whose context *)
(* ended in the queue gets no further.                                     *)
ReportSound ==
    \A c \in Conns :
        /\ call[c].result = "ctx" => pc[c] = "idle" /\ ~call[c].ran
        /\ call[c].overdue => pc[c] \in {"queued", "idle"} /\ call[c].ctx = "ended" /\ ~call[c].ran
        /\ pc[c] = "queued" => ~call[c].ran

CancelInv ==
    TypeOK /\ MutexExact /\ EngineSound /\ WatcherSound /\ FlagSound /\ ReportSound

-----------------------------------------------------------------------------
(* Types.  An action rewrites the record of its own call, if any.          *)
LEMMA CallTyped ==
  ASSUME TypeOK, NEW c \in Conns, NEW r \in Calls, call' = [call EXCEPT ![c] = r]
  PROVE  call' \in [Conns -> Calls]
  BY DEF TypeOK

LEMMA NoCallTyped == NoCall \in Calls
  BY CancelAssumption DEF NoCall, Calls, Results

LEMMA TypeInit == Init => TypeOK
  BY CancelAssumption, NoCallTyped DEF Init, TypeOK, PCs, Watchers

LEMMA TypeNext == TypeOK /\ EngineSound /\ [Next]_vars => TypeOK'
<1> SUFFICES ASSUME TypeOK, EngineSound, [Next]_vars PROVE TypeOK'
  OBVIOUS
<1> USE CancelAssumption DEF Goto
<1>0. \A c \in Conns : call[c] \in Calls
  BY DEF TypeOK
<1>1. ASSUME NEW c \in Conns, Connect(c) PROVE TypeOK'
  BY <1>1 DEF Connect, Probe, TypeOK, PCs
<1>2. ASSUME NEW c \in Conns, NEW kind \in {"statement", "ping", "begin", "control"},
             NEW ctx \in {"none", "live"}, NEW n \in 1 .. MaxBatch, Begin(c, kind, ctx, n)
      PROVE  TypeOK'
  <2>0. n \in 0 .. MaxBatch
    OBVIOUS
  <2>1. [NoCall EXCEPT !.kind = kind, !.ctx = ctx, !.left = n] \in Calls
    BY <2>0, NoCallTyped DEF Calls
  <2>2. call' \in [Conns -> Calls]
    BY <1>2, <2>1, CallTyped DEF Begin
  <2> QED BY <1>2, <2>2 DEF Begin, TypeOK, PCs
<1>3. ASSUME NEW c \in Conns, EndContext(c) PROVE TypeOK'
  <2> DEFINE late == pc[c] = "queued"
  <2>1. [call[c] EXCEPT !.ctx = "ended", !.overdue = late] \in Calls
    <3>1. late \in BOOLEAN
      OBVIOUS
    <3> HIDE DEF late
    <3> QED BY <1>0, <3>1 DEF Calls
  <2>2. call' = [call EXCEPT ![c] = [call[c] EXCEPT !.ctx = "ended", !.overdue = late]]
    BY <1>3 DEF EndContext, TypeOK
  <2>3. call' \in [Conns -> Calls]
    BY <2>1, <2>2, CallTyped
  <2> QED BY <1>3, <2>3 DEF EndContext, TypeOK
<1>4. ASSUME NEW c \in Conns, CallerStep(c) PROVE TypeOK'
  <2>1. CASE Enter(c)
    BY <2>1 DEF Enter, TypeOK, PCs, Watchers
  <2>2. CASE Refuse(c)
    <3>0. "ctx" \in Results
      BY DEF Results
    <3>1. [NoCall EXCEPT !.ctx = "ended", !.result = "ctx", !.overdue = call[c].overdue] \in Calls
      BY <1>0, <3>0, NoCallTyped DEF Calls
    <3>2. call' \in [Conns -> Calls]
      BY <2>2, <3>1, CallTyped DEF Refuse
    <3> QED BY <2>2, <3>2 DEF Refuse, TypeOK, PCs
  <2>3. CASE Disarm(c)
    <3>1. ctxErr(c) \in Results
      BY <1>0 DEF ctxErr, Calls, Results
    <3>2. [call[c] EXCEPT !.result = ctxErr(c)] \in Calls
      BY <1>0, <3>1 DEF Calls
    <3>3. call' \in [Conns -> Calls]
      BY <2>3, <3>2, CallTyped DEF Disarm, TypeOK
    <3> QED BY <2>3, <3>3 DEF Disarm, TypeOK, PCs
  <2>4. CASE Leave(c)
    <3>1. [NoCall EXCEPT !.ctx = call[c].ctx, !.ran = call[c].ran,
                         !.cut = call[c].cut, !.overdue = call[c].overdue,
                         !.result = call[c].result] \in Calls
      BY <1>0, NoCallTyped DEF Calls
    <3>2. call' \in [Conns -> Calls]
      BY <2>4, <3>1, CallTyped DEF Leave, Forget
    <3> QED BY <2>4, <3>2 DEF Leave, Forget, TypeOK, PCs, Watchers
  <2> QED BY <1>4, <2>1, <2>2, <2>3, <2>4 DEF CallerStep
<1>5. ASSUME NEW c \in Conns, EngineStep(c) PROVE TypeOK'
  <2>1. CASE Start(c)
    <3>1. call[c].left > 0
      BY <2>1 DEF Start, EngineSound
    <3>2. PICK endless \in BOOLEAN :
             call' = [call EXCEPT ![c].left = @ - 1, ![c].ran = TRUE, ![c].runaway = endless]
      BY <2>1 DEF Start
    <3>3. call[c].left - 1 \in 0 .. MaxBatch
      BY <1>0, <3>1 DEF Calls
    <3>4. [call[c] EXCEPT !.left = @ - 1, !.ran = TRUE, !.runaway = endless] \in Calls
      BY <1>0, <3>3 DEF Calls
    <3>5. call' \in [Conns -> Calls]
      BY <3>2, <3>4, CallTyped DEF TypeOK
    <3> QED BY <2>1, <3>5 DEF Start, TypeOK, PCs
  <2>2. CASE Succeed(c)
    BY <2>2 DEF Succeed, TypeOK, PCs
  <2>3. CASE Fail(c)
    <3>1. [call[c] EXCEPT !.result = "engine", !.cut = flag[c]] \in Calls
      BY <1>0 DEF Calls, Results, TypeOK
    <3>2. call' \in [Conns -> Calls]
      BY <2>3, <3>1, CallTyped DEF Fail, TypeOK
    <3> QED BY <2>3, <3>2 DEF Fail, TypeOK, PCs
  <2>4. CASE Undo(c) \/ Undone(c)
    BY <2>4 DEF Undo, Undone, TypeOK, PCs
  <2> QED BY <1>5, <2>1, <2>2, <2>3, <2>4 DEF EngineStep
<1>6. ASSUME NEW c \in Conns, Grow(c) \/ Grew(c) PROVE TypeOK'
  <2>1. CASE Grow(c)
    <3>1. grown[c] + 1 \in 0 .. MaxGrowth
      BY <2>1 DEF Grow, TypeOK
    <3> QED BY <2>1, <3>1 DEF Grow, TypeOK
  <2>2. CASE Grew(c)
    BY <2>2 DEF Grew, TypeOK
  <2> QED BY <1>6, <2>1, <2>2
<1>7. ASSUME NEW c \in Conns,
             Stop(c) \/ Wake(c) \/ Tick(c) \/ Poke(c) \/ PokeLost(c) \/ PokePanics(c)
      PROVE  TypeOK'
  BY <1>7 DEF Stop, Wake, Tick, Poke, PokeLost, PokePanics, WatcherStep, TypeOK, Watchers
<1>8. ASSUME NEW c \in Conns, Close(c) PROVE TypeOK'
  BY <1>8, NoCallTyped DEF Close, TypeOK, PCs
<1>9. CASE UNCHANGED vars
  BY <1>9 DEF vars, TypeOK
<1> QED BY <1>1, <1>2, <1>3, <1>4, <1>5, <1>6, <1>7, <1>8, <1>9 DEF Next

-----------------------------------------------------------------------------
(* The mutex.                                                              *)
LEMMA MutexNext == TypeOK /\ MutexExact /\ [Next]_vars => MutexExact'
<1> SUFFICES ASSUME TypeOK, MutexExact, [Next]_vars PROVE MutexExact'
  OBVIOUS
<1> USE CancelAssumption DEF Goto, HasMutex, MutexExact, TypeOK
<1>1. ASSUME NEW c \in Conns, Connect(c) \/ Close(c) PROVE MutexExact'
  BY <1>1 DEF Connect, Probe, Close
<1>2. ASSUME NEW c \in Conns, NEW kind \in {"statement", "ping", "begin", "control"},
             NEW ctx \in {"none", "live"}, NEW n \in 1 .. MaxBatch, Begin(c, kind, ctx, n)
      PROVE  MutexExact'
  BY <1>2 DEF Begin
<1>3. ASSUME NEW c \in Conns, CallerStep(c) PROVE MutexExact'
  BY <1>3 DEF CallerStep, Enter, Refuse, Disarm, Leave
<1>4. ASSUME NEW c \in Conns, EngineStep(c) PROVE MutexExact'
  BY <1>4 DEF EngineStep, Start, Succeed, Fail, Undo, Undone
<1>5. CASE UNCHANGED <<mu, pc>>
  BY <1>5
<1>6. ASSUME NEW c \in Conns,
             \/ EndContext(c) \/ Grow(c) \/ Grew(c)
             \/ Stop(c) \/ Wake(c) \/ Tick(c) \/ Poke(c) \/ PokeLost(c) \/ PokePanics(c)
      PROVE  UNCHANGED <<mu, pc>>
  BY <1>6 DEF EndContext, Grow, Grew, Stop, Wake, Tick, Poke, PokeLost, PokePanics, WatcherStep
<1> QED BY <1>1, <1>2, <1>3, <1>4, <1>5, <1>6 DEF Next, vars

-----------------------------------------------------------------------------
(* The rest of the invariant, one connection at a time.                    *)
Sound(c) ==
    /\ growing[c] => pc[c] \in {"running", "rollback"}
    /\ pc[c] \in {"queued", "setup"} => call[c].left > 0
    /\ watcher[c] # "none" => HasMutex(c)
    /\ watcher[c] \in {"poking", "ticking"} => call[c].ctx = "ended"
    /\ pc[c] = "running" /\ flag[c] => call[c].ctx = "ended"
    /\ call[c].cut => call[c].ctx = "ended"
    /\ call[c].result = "ctx" => pc[c] = "idle" /\ ~call[c].ran
    /\ call[c].overdue => pc[c] \in {"queued", "idle"} /\ call[c].ctx = "ended" /\ ~call[c].ran
    /\ pc[c] = "queued" => ~call[c].ran

LEMMA SoundParts ==
  (\A c \in Conns : Sound(c)) <=> EngineSound /\ WatcherSound /\ FlagSound /\ ReportSound
  BY DEF Sound, EngineSound, WatcherSound, FlagSound, ReportSound

LEMMA SoundNext ==
  ASSUME TypeOK, NEW d \in Conns, Sound(d), [Next]_vars
  PROVE  Sound(d)'
<1> USE CancelAssumption DEF Goto, HasMutex, TypeOK, Sound
<1>1. ASSUME NEW c \in Conns, Connect(c) \/ Close(c) PROVE Sound(d)'
  BY <1>1 DEF Connect, Probe, Close, NoCall
<1>2. ASSUME NEW c \in Conns, NEW kind \in {"statement", "ping", "begin", "control"},
             NEW ctx \in {"none", "live"}, NEW n \in 1 .. MaxBatch, Begin(c, kind, ctx, n)
      PROVE  Sound(d)'
  BY <1>2 DEF Begin, NoCall
<1>3. ASSUME NEW c \in Conns, CallerStep(c) PROVE Sound(d)'
  <2>1. CASE Enter(c)
    BY <2>1 DEF Enter
  <2>2. CASE Refuse(c)
    BY <2>2 DEF Refuse, NoCall
  <2>3. CASE Disarm(c)
    BY <2>3 DEF Disarm, ctxErr
  <2>4. CASE Leave(c)
    BY <2>4 DEF Leave, Forget, NoCall
  <2> QED BY <1>3, <2>1, <2>2, <2>3, <2>4 DEF CallerStep
<1>4. ASSUME NEW c \in Conns, EngineStep(c) PROVE Sound(d)'
  <2>1. CASE Start(c)
    BY <2>1 DEF Start
  <2>2. CASE Succeed(c)
    BY <2>2 DEF Succeed
  <2>3. CASE Fail(c)
    BY <2>3 DEF Fail
  <2>4. CASE Undo(c) \/ Undone(c)
    BY <2>4 DEF Undo, Undone
  <2> QED BY <1>4, <2>1, <2>2, <2>3, <2>4 DEF EngineStep
<1>5. ASSUME NEW c \in Conns, Grow(c) \/ Grew(c) \/ EndContext(c) PROVE Sound(d)'
  <2>1. CASE Grow(c) \/ Grew(c)
    BY <2>1 DEF Grow, Grew
  <2>2. CASE EndContext(c)
    <3>1. call'[d] = IF d = c THEN [call[d] EXCEPT !.ctx = "ended", !.overdue = (pc[d] = "queued")]
                           ELSE call[d]
      BY <2>2 DEF EndContext
    <3>2. call[d] \in Calls
      OBVIOUS
    <3> QED BY <2>2, <3>1, <3>2 DEF EndContext, Calls
  <2> QED BY <1>5, <2>1, <2>2
<1>6. ASSUME NEW c \in Conns,
             Stop(c) \/ Wake(c) \/ Tick(c) \/ Poke(c) \/ PokeLost(c) \/ PokePanics(c)
      PROVE  Sound(d)'
  BY <1>6 DEF Stop, Wake, Tick, Poke, PokeLost, PokePanics, WatcherStep
<1>7. CASE UNCHANGED vars
  BY <1>7 DEF vars
<1> QED BY <1>1, <1>2, <1>3, <1>4, <1>5, <1>6, <1>7 DEF Next

-----------------------------------------------------------------------------
LEMMA CancelInvInit == Init => CancelInv
  BY CancelAssumption, TypeInit, SoundParts
  DEF Init, CancelInv, MutexExact, HasMutex, Sound, NoCall

LEMMA CancelInvNext == CancelInv /\ [Next]_vars => CancelInv'
<1> SUFFICES ASSUME CancelInv, [Next]_vars PROVE CancelInv'
  OBVIOUS
<1>1. TypeOK' /\ MutexExact'
  BY TypeNext, MutexNext DEF CancelInv
<1>2. \A d \in Conns : Sound(d)'
  BY SoundNext, SoundParts DEF CancelInv
<1>3. EngineSound' /\ WatcherSound' /\ FlagSound' /\ ReportSound'
  BY <1>2 DEF Sound, EngineSound, WatcherSound, FlagSound, ReportSound
<1> QED BY <1>1, <1>3 DEF CancelInv

LEMMA CancelSafe == Spec => []CancelInv
  BY CancelInvInit, CancelInvNext, PTL DEF Spec

(* What the code calls a call is one of the model's calls: no text runs    *)
(* past its last statement.                                                *)
THEOREM CancelTypeCorrect == Spec => []TypeOK
  BY CancelSafe, PTL DEF CancelInv

(* A watcher that can still write belongs to the call that holds the       *)
(* mutex, however many connections queue for it (interrupt.go:112-118).    *)
THEOREM NoWatcherOutlives == Spec => []WatcherInsideCall
<1>1. CancelInv => WatcherInsideCall
  BY DEF CancelInv, MutexExact, WatcherSound, WatcherInsideCall
<1> QED BY <1>1, CancelSafe, PTL

(* Only a statement whose own context has ended is aborted by the flag     *)
(* (interrupt.go:41-48, 85-103).                                           *)
THEOREM LiveIsNotCut == Spec => []OnlyCancelledIsCut
<1>1. CancelInv => OnlyCancelledIsCut
  BY DEF CancelInv, FlagSound, OnlyCancelledIsCut
<1> QED BY <1>1, CancelSafe, PTL

(* A call that reports the context's error alone, or whose context ended   *)
(* while it queued for the mutex, never reached the engine                 *)
(* (driver.go:388-393, interrupt.go:165-182).                              *)
THEOREM RefusedLeftNoTrace == Spec => []ContextErrorLeavesNoTrace
<1>1. CancelInv => ContextErrorLeavesNoTrace
  BY DEF CancelInv, ReportSound, ContextErrorLeavesNoTrace
<1> QED BY <1>1, CancelSafe, PTL
=============================================================================
