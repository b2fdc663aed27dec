-------------------------- MODULE DriverPoolProofs --------------------------
(***************************************************************************)
(* What holds of the driver for every number of connections and engines,   *)
(* with every combination of operations and of panics.                     *)
(***************************************************************************)
EXTENDS DriverPool, TLAPS

(* The type invariant in three parts: who is where, the objects of the Go  *)
(* program, and the handles in the engines.                                *)
ControlTyped ==
    /\ mu \in Callers \cup {Nobody}
    /\ pc \in [Callers -> {"idle", "wait", "inside", "unwinding", "crashed", "done"}]
    /\ op \in [Callers -> AllOps \cup {NoOp}]
    /\ at \in [Callers -> Engines \cup {NoEngine}]
    /\ ret \in [Callers -> {"ok", "err", "bad"}]
ObjectsTyped ==
    /\ connector \in Connectors
    /\ engine \in [Engines -> Modules]
    /\ conn \in [Conns -> DriverConns]
HandlesTyped ==
    /\ cons \in [Engines -> SUBSET Conns]
    /\ results \in [Engines -> SUBSET Conns]
    /\ stmts \in [Engines -> SUBSET Conns]

Typed == ControlTyped /\ ObjectsTyped /\ HandlesTyped

-----------------------------------------------------------------------------
(* Control: entering an engine, finishing, leaving and skipping.           *)

LEMMA EnterTyped ==
  ASSUME ControlTyped, NEW c \in Callers, NEW e \in Engines \cup {NoEngine},
         EnterEngine(c, e)
  PROVE  ControlTyped'
  BY DEF ControlTyped, EnterEngine

LEMMA FinishTyped ==
  ASSUME ControlTyped, NEW c \in Callers, NEW r \in {"ok", "err", "bad"}, Finish(c, r),
         mu' \in {mu, Nobody}
  PROVE  ControlTyped'
  BY DEF ControlTyped, Finish

LEMMA LeaveTyped ==
  ASSUME ControlTyped, NEW c \in Callers, NEW r \in {"ok", "err", "bad"},
         Leave(c, r) \/ Skip(c, r)
  PROVE  ControlTyped'
  BY FinishTyped DEF Leave, Skip

(* A caller moves on without returning.                                    *)
LEMMA MoveTyped ==
  ASSUME ControlTyped, NEW c \in Callers, NEW o \in AllOps,
         NEW p \in {"wait", "unwinding", "crashed"},
         pc' = [pc EXCEPT ![c] = p],
         op' \in {op, [op EXCEPT ![c] = o]},
         at' \in {at, [at EXCEPT ![c] = NoEngine]},
         ret' = ret, mu' \in {mu, Nobody}
  PROVE  ControlTyped'
  BY DEF ControlTyped

LEMMA AfterRowsCloseTyped ==
  ASSUME ControlTyped, NEW c \in Callers, AfterRowsClose(c), mu' \in {mu, Nobody}
  PROVE  ControlTyped'
<1>1. CASE conn[c].rows = "owning"
  BY <1>1, MoveTyped DEF AfterRowsClose, AllOps, Closings
<1>2. CASE conn[c].rows # "owning"
  <2>1. ret[c] \in {"ok", "err", "bad"}
    BY DEF ControlTyped
  <2> QED BY <1>2, <2>1, FinishTyped DEF AfterRowsClose
<1> QED BY <1>1, <1>2

(* Handles: caller c gains one in engine e, or loses it.                   *)
LEMMA HandleGained ==
  ASSUME NEW H \in [Engines -> SUBSET Conns], NEW c \in Conns, NEW e
  PROVE  [H EXCEPT ![e] = @ \cup {c}] \in [Engines -> SUBSET Conns]
  OBVIOUS

LEMMA HandleLost ==
  ASSUME NEW H \in [Engines -> SUBSET Conns], NEW c \in Conns, NEW e
  PROVE  [H EXCEPT ![e] = @ \ {c}] \in [Engines -> SUBSET Conns]
  OBVIOUS

-----------------------------------------------------------------------------
LEMMA TypeInit == Init => Typed
  BY PoolAssumption
  DEF Init, Typed, ControlTyped, ObjectsTyped, HandlesTyped, Callers, NoOp, NoModule, NoConn, Unmade, Connectors, Modules, DriverConns

(* Every action keeps the types, one part of the type invariant at a time. *)
LEMMA TypeNext == Typed /\ [Next]_vars => Typed'
<1> SUFFICES ASSUME Typed, [Next]_vars PROVE Typed'
  OBVIOUS
<1>0. ControlTyped /\ ObjectsTyped /\ HandlesTyped
  BY DEF Typed
<1>00. \A c \in Callers : at[c] \in Engines \cup {NoEngine} /\ ret[c] \in {"ok", "err", "bad"}
  BY <1>0 DEF ControlTyped
<1>000. \A c \in Conns : c \in Callers /\ conn[c].mod \in Engines \cup {NoEngine}
  BY <1>0 DEF ObjectsTyped, Callers, DriverConns
<1>001. connector.mod \in Engines \cup {NoEngine}
  BY <1>0 DEF ObjectsTyped, Connectors
<1>1. ASSUME NEW c \in Conns, NEW o \in Ops, Call(c, o) PROVE Typed'
  <2>1. ControlTyped'
    BY <1>0, <1>000, <1>1, MoveTyped, PoolAssumption DEF Call
  <2>2. ObjectsTyped' /\ HandlesTyped'
    BY <1>0, <1>1 DEF Call, ObjectsTyped, HandlesTyped, handles
  <2> QED BY <2>1, <2>2 DEF Typed
<1>2. ASSUME NEW c \in Conns, ConnectStep(c) PROVE Typed'
  <2> USE <1>000
  <2>1. CASE ConnectOpening(c)
    <3>1. PICK e \in Engines :
             /\ engine' = [engine EXCEPT ![e] = [Unmade EXCEPT !.made = TRUE]]
             /\ EnterEngine(c, e)
      BY <2>1 DEF ConnectOpening
    <3>2. ControlTyped'
      BY <1>0, <3>1, EnterTyped
    <3>3. ObjectsTyped'
      BY <1>0, <2>1, <3>1
      DEF ConnectOpening, ObjectsTyped, Connectors, Modules, NoModule, Unmade
    <3>4. HandlesTyped'
      BY <1>0, <2>1 DEF ConnectOpening, HandlesTyped, handles
    <3> QED BY <3>2, <3>3, <3>4 DEF Typed
  <2>2. CASE ConnectJoining(c)
    <3>1. ControlTyped'
      BY <1>0, <1>001, <2>2, EnterTyped DEF ConnectJoining
    <3>2. ObjectsTyped' /\ HandlesTyped'
      BY <1>0, <2>2 DEF ConnectJoining, ObjectsTyped, HandlesTyped, handles
    <3> QED BY <3>1, <3>2 DEF Typed
  <2>3. CASE ConnectReturn(c)
    <3>1. ControlTyped'
      BY <1>0, <2>3, LeaveTyped DEF ConnectReturn
    <3>2. connector' \in Connectors
      <4>1. connector' \in {connector, [mod |-> at[c], init |-> TRUE, poisoned |-> FALSE]}
        BY <2>3 DEF ConnectReturn
      <4>2. [mod |-> at[c], init |-> TRUE, poisoned |-> FALSE] \in Connectors
        BY <1>00 DEF Connectors
      <4> QED BY <1>0, <4>1, <4>2 DEF ObjectsTyped
    <3>3. engine' \in [Engines -> Modules]
      BY <1>0, <2>3 DEF ConnectReturn, ObjectsTyped, Modules
    <3>4. conn' \in [Conns -> DriverConns]
      <4>1. [NoConn EXCEPT !.mod = at[c]] \in DriverConns
        BY <1>00 DEF DriverConns, NoConn
      <4> QED BY <1>0, <2>3, <4>1 DEF ConnectReturn, ObjectsTyped
    <3>5. HandlesTyped'
      <4>1. cons' = [cons EXCEPT ![at[c]] = @ \cup {c}] /\ results' = results /\ stmts' = stmts
        BY <2>3 DEF ConnectReturn
      <4> QED BY <1>0, <4>1, HandleGained DEF HandlesTyped
    <3> QED BY <3>1, <3>2, <3>3, <3>4, <3>5 DEF Typed, ObjectsTyped
  <2>4. CASE ConnectFail(c)
    <3>1. ControlTyped'
      BY <1>0, <2>4, LeaveTyped DEF ConnectFail
    <3>2. engine' \in [Engines -> Modules]
      <4>1. CASE engine' = engine
        BY <1>0, <4>1 DEF ObjectsTyped
      <4>2. CASE engine' = [engine EXCEPT ![at[c]] = Unmade]
        BY <1>0, <4>2 DEF ObjectsTyped, Modules, Unmade
      <4>3. CASE engine' = [engine EXCEPT ![at[c]].db = "open", ![at[c]].orphan = TRUE]
        BY <1>0, <4>3 DEF ObjectsTyped, Modules
      <4> QED BY <2>4, <4>1, <4>2, <4>3 DEF ConnectFail
    <3>3. connector' \in Connectors /\ conn' \in [Conns -> DriverConns]
      BY <1>0, <2>4 DEF ConnectFail, ObjectsTyped
    <3>4. HandlesTyped'
      <4>1. /\ cons' = cons \/ cons' = [cons EXCEPT ![at[c]] = @ \cup {c}]
            /\ results' = results /\ stmts' = stmts
        BY <2>4 DEF ConnectFail
      <4>2. cons' \in [Engines -> SUBSET Conns]
        BY <1>0, <4>1, HandleGained DEF HandlesTyped
      <4> QED BY <1>0, <4>1, <4>2 DEF HandlesTyped
    <3> QED BY <3>1, <3>2, <3>3, <3>4 DEF Typed, ObjectsTyped
  <2> QED BY <1>2, <2>1, <2>2, <2>3, <2>4 DEF ConnectStep
<1>3. ASSUME NEW c \in Conns, EngineStep(c) PROVE Typed'
  <2> USE <1>000
  <2>1. CASE Enter(c) \/ Refuse(c) \/ Return(c)
    <3>1. ControlTyped'
      BY <1>0, <2>1, EnterTyped, LeaveTyped DEF Enter, Refuse, Return
    <3>2. ObjectsTyped' /\ HandlesTyped'
      BY <1>0, <2>1 DEF Enter, Refuse, Return, ObjectsTyped, HandlesTyped, handles
    <3> QED BY <3>1, <3>2 DEF Typed
  <2>2. CASE PrepareReturn(c)
    <3>1. ControlTyped'
      BY <1>0, <2>2, LeaveTyped DEF PrepareReturn
    <3>2. ObjectsTyped'
      BY <1>0, <2>2 DEF PrepareReturn, ObjectsTyped, DriverConns
    <3>3. HandlesTyped'
      <4>1. stmts' = [stmts EXCEPT ![at[c]] = @ \cup {c}] /\ results' = results /\ cons' = cons
        BY <2>2 DEF PrepareReturn
      <4> QED BY <1>0, <4>1, HandleGained DEF HandlesTyped
    <3> QED BY <3>1, <3>2, <3>3 DEF Typed
  <2>3. CASE QueryReturn(c)
    <3>1. ControlTyped'
      BY <1>0, <2>3, LeaveTyped DEF QueryReturn
    <3>2. ObjectsTyped'
      BY <1>0, <2>3 DEF QueryReturn, ObjectsTyped, DriverConns
    <3>3. HandlesTyped'
      <4>1. /\ results' = [results EXCEPT ![at[c]] = @ \cup {c}] /\ cons' = cons
            /\ stmts' = stmts \/ stmts' = [stmts EXCEPT ![at[c]] = @ \cup {c}]
        BY <2>3 DEF QueryReturn
      <4>2. stmts' \in [Engines -> SUBSET Conns]
        BY <1>0, <4>1, HandleGained DEF HandlesTyped
      <4> QED BY <1>0, <4>1, <4>2, HandleGained DEF HandlesTyped
    <3> QED BY <3>1, <3>2, <3>3 DEF Typed
  <2> QED BY <1>3, <2>1, <2>2, <2>3 DEF EngineStep
<1>4. ASSUME NEW c \in Conns, TeardownStep(c) PROVE Typed'
  <2> USE <1>000
  <2>1. ControlTyped'
    <3>1. CASE RowsCloseReturn(c) \/ RowsCloseSkip(c)
      BY <1>0, <3>1, AfterRowsCloseTyped DEF RowsCloseReturn, RowsCloseSkip
    <3>2. CASE StmtCloseReturn(c) \/ StmtCloseSkip(c)
      BY <1>0, <1>00, <3>2, LeaveTyped DEF StmtCloseReturn, StmtCloseSkip
    <3>3. CASE CloseReturn(c) \/ CloseSkip(c)
      BY <1>0, <3>3, LeaveTyped DEF CloseReturn, CloseSkip
    <3> QED BY <1>4, <3>1, <3>2, <3>3 DEF TeardownStep
  <2>2. connector' = connector /\ engine' = engine
    BY <1>4 DEF TeardownStep, RowsCloseReturn, RowsCloseSkip, StmtCloseReturn,
                StmtCloseSkip, CloseReturn, CloseSkip
  <2>3. conn' \in [Conns -> DriverConns]
    <3>1. CASE conn' = [conn EXCEPT ![c].rows = "none"]
      BY <1>0, <3>1 DEF ObjectsTyped, DriverConns
    <3>2. CASE conn' = [conn EXCEPT ![c].stmt = FALSE]
      BY <1>0, <3>2 DEF ObjectsTyped, DriverConns
    <3>3. CASE conn' = [conn EXCEPT ![c] = NoConn]
      BY <1>0, <3>3 DEF ObjectsTyped, DriverConns, NoConn
    <3> QED BY <1>4, <3>1, <3>2, <3>3
            DEF TeardownStep, RowsCloseReturn, RowsCloseSkip, StmtCloseReturn,
                StmtCloseSkip, CloseReturn, CloseSkip
  <2>4. HandlesTyped'
    <3>1. CASE handles' = handles
      BY <1>0, <3>1 DEF handles, HandlesTyped
    <3>2. CASE cons' = [cons EXCEPT ![at[c]] = @ \ {c}] /\ results' = results /\ stmts' = stmts
      BY <1>0, <3>2, HandleLost DEF HandlesTyped
    <3>3. CASE results' = [results EXCEPT ![at[c]] = @ \ {c}] /\ cons' = cons /\ stmts' = stmts
      BY <1>0, <3>3, HandleLost DEF HandlesTyped
    <3>4. CASE stmts' = [stmts EXCEPT ![at[c]] = @ \ {c}] /\ cons' = cons /\ results' = results
      BY <1>0, <3>4, HandleLost DEF HandlesTyped
    <3> QED BY <1>4, <3>1, <3>2, <3>3, <3>4
            DEF TeardownStep, RowsCloseReturn, RowsCloseSkip, StmtCloseReturn,
                StmtCloseSkip, CloseReturn, CloseSkip, handles
  <2> QED BY <1>0, <2>1, <2>2, <2>3, <2>4 DEF Typed, ObjectsTyped
<1>5. ASSUME NEW c \in Conns, Poison(c) PROVE Typed'
  <2>1. ControlTyped'
    BY <1>0, <1>000, <1>5, FinishTyped DEF Poison
  <2>2. ObjectsTyped'
    BY <1>0, <1>5 DEF Poison, ObjectsTyped, Connectors, Modules, DriverConns
  <2>3. HandlesTyped'
    BY <1>0, <1>5 DEF Poison, HandlesTyped, handles
  <2> QED BY <2>1, <2>2, <2>3 DEF Typed
<1>6. CASE CallShutdown
  <2>1. ControlTyped'
    BY <1>0, <1>6, MoveTyped DEF CallShutdown, AllOps, Callers
  <2>2. ObjectsTyped' /\ HandlesTyped'
    BY <1>0, <1>6 DEF CallShutdown, ObjectsTyped, HandlesTyped, handles
  <2> QED BY <2>1, <2>2 DEF Typed
<1>7. CASE ShutdownStep
  <2>1. ControlTyped'
    BY <1>0, <1>001, <1>7, EnterTyped, LeaveTyped
    DEF ShutdownStep, ShutdownEnter, ShutdownReturn, ShutdownSkip, Callers
  <2>2. ObjectsTyped'
    <3>1. connector' \in {connector, NoModule} /\ conn' = conn
      BY <1>7 DEF ShutdownStep, ShutdownEnter, ShutdownReturn, ShutdownSkip
    <3>2. engine' = engine \/ engine' = [engine EXCEPT ![at[Closer]].db = "closed"]
      BY <1>7 DEF ShutdownStep, ShutdownEnter, ShutdownReturn, ShutdownSkip
    <3>3. engine' \in [Engines -> Modules]
      BY <1>0, <3>2 DEF ObjectsTyped, Modules
    <3>4. NoModule \in Connectors
      BY DEF NoModule, Connectors
    <3> QED BY <1>0, <3>1, <3>3, <3>4 DEF ObjectsTyped
  <2>3. HandlesTyped'
    BY <1>0, <1>7
    DEF ShutdownStep, ShutdownEnter, ShutdownReturn, ShutdownSkip, HandlesTyped, handles
  <2> QED BY <2>1, <2>2, <2>3 DEF Typed
<1>8. ASSUME NEW c \in Callers, PanicGuarded(c) \/ PanicUnguarded(c) PROVE Typed'
  <2>1. CASE PanicGuarded(c)
    <3>1. ControlTyped'
      BY <1>0, <2>1, MoveTyped DEF PanicGuarded, AllOps
    <3>2. ObjectsTyped' /\ HandlesTyped'
      BY <1>0, <2>1 DEF PanicGuarded, ObjectsTyped, Modules, HandlesTyped, handles
    <3> QED BY <3>1, <3>2 DEF Typed
  <2>2. CASE PanicUnguarded(c)
    <3>1. ControlTyped'
      BY <1>0, <2>2, MoveTyped DEF PanicUnguarded, AllOps
    <3>2. PICK db : /\ db = engine[at[c]].db \/ db = "open"
                    /\ engine' = [engine EXCEPT ![at[c]].broken = TRUE, ![at[c]].db = db]
      BY <2>2 DEF PanicUnguarded
    <3>3. engine' \in [Engines -> Modules]
      <4>1. CASE at[c] \in Engines
        BY <1>0, <3>2, <4>1 DEF ObjectsTyped, Modules
      <4>2. CASE at[c] \notin Engines
        BY <1>0, <3>2, <4>2 DEF ObjectsTyped
      <4> QED BY <4>1, <4>2
    <3>4. connector' \in Connectors /\ conn' \in [Conns -> DriverConns] /\ HandlesTyped'
      BY <1>0, <2>2 DEF PanicUnguarded, ObjectsTyped, HandlesTyped, handles
    <3> QED BY <3>1, <3>3, <3>4 DEF Typed, ObjectsTyped
  <2> QED BY <1>8, <2>1, <2>2
<1>9. ASSUME NEW c \in Conns, PanicInNext(c) PROVE Typed'
  <2>1. ControlTyped'
    BY <1>0, <1>000, <1>9, LeaveTyped DEF PanicInNext
  <2>2. engine' \in [Engines -> Modules]
    BY <1>0, <1>9 DEF PanicInNext, ObjectsTyped, Modules
  <2>3. connector' \in Connectors /\ conn' \in [Conns -> DriverConns] /\ HandlesTyped'
    BY <1>0, <1>9 DEF PanicInNext, ObjectsTyped, DriverConns, HandlesTyped, handles
  <2> QED BY <2>1, <2>2, <2>3 DEF Typed, ObjectsTyped
<1>10. CASE UNCHANGED vars
  BY <1>10 DEF vars, handles, callers, Typed, ControlTyped, ObjectsTyped, HandlesTyped
<1>11. Closer \in Callers
  BY DEF Callers
<1> QED BY <1>000, <1>1, <1>2, <1>3, <1>4, <1>5, <1>6, <1>7, <1>8, <1>9, <1>10, <1>11
        DEF Next, PanicStep

-----------------------------------------------------------------------------
(* Mutual exclusion.  Whoever is inside an engine holds the mutex, so two  *)
(* goroutines are never inside at once, in one engine or in two.           *)
InsideHoldsLock == \A c \in Callers : pc[c] = "inside" => mu = c

(* c stays outside or goes out, and frees the mutex only if it was inside. *)
LEMMA OutsideLock ==
  ASSUME ControlTyped, InsideHoldsLock, NEW c \in Callers, NEW p,
         pc' = [pc EXCEPT ![c] = p], p # "inside",
         mu' = mu \/ pc[c] = "inside"
  PROVE  InsideHoldsLock'
  BY DEF InsideHoldsLock, ControlTyped

LEMMA EnterLock ==
  ASSUME ControlTyped, InsideHoldsLock, NEW c \in Callers, NEW e, EnterEngine(c, e)
  PROVE  InsideHoldsLock'
  BY PoolAssumption DEF InsideHoldsLock, ControlTyped, EnterEngine

LEMMA LeaveLock ==
  ASSUME ControlTyped, InsideHoldsLock, NEW c \in Callers, NEW r,
         (pc[c] = "inside" /\ Leave(c, r)) \/ Skip(c, r)
  PROVE  InsideHoldsLock'
<1>1. PICK p \in {"idle", "done"} : pc' = [pc EXCEPT ![c] = p]
  BY DEF Leave, Skip, Finish
<1>2. mu' = mu \/ pc[c] = "inside"
  BY DEF Leave, Skip
<1> QED BY <1>1, <1>2, OutsideLock

LEMMA LockNext == Typed /\ InsideHoldsLock /\ [Next]_vars => InsideHoldsLock'
<1> SUFFICES ASSUME Typed, InsideHoldsLock, [Next]_vars PROVE InsideHoldsLock'
  OBVIOUS
<1>0. ControlTyped /\ Closer \in Callers /\ \A c \in Conns : c \in Callers
  BY DEF Typed, Callers
<1>1. ASSUME NEW c \in Conns, NEW o \in Ops, Call(c, o) PROVE InsideHoldsLock'
  BY <1>0, <1>1, OutsideLock DEF Call
<1>2. ASSUME NEW c \in Conns, ConnectStep(c) PROVE InsideHoldsLock'
  <2>1. CASE ConnectOpening(c) \/ ConnectJoining(c)
    BY <1>0, <2>1, EnterLock DEF ConnectOpening, ConnectJoining
  <2>2. CASE ConnectReturn(c) \/ ConnectFail(c)
    BY <1>0, <2>2, LeaveLock DEF ConnectReturn, ConnectFail, Inside
  <2> QED BY <1>2, <2>1, <2>2 DEF ConnectStep
<1>3. ASSUME NEW c \in Conns, EngineStep(c) PROVE InsideHoldsLock'
  <2>1. CASE Enter(c)
    BY <1>0, <2>1, EnterLock DEF Enter
  <2>2. CASE Refuse(c)
    BY <1>0, <2>2, LeaveLock DEF Refuse
  <2>3. CASE Return(c) \/ PrepareReturn(c) \/ QueryReturn(c)
    BY <1>0, <2>3, LeaveLock DEF Return, PrepareReturn, QueryReturn, Inside
  <2> QED BY <1>3, <2>1, <2>2, <2>3 DEF EngineStep
<1>4. ASSUME NEW c \in Conns, TeardownStep(c) PROVE InsideHoldsLock'
  <2>1. CASE RowsCloseReturn(c) \/ RowsCloseSkip(c)
    <3>1. PICK p \in {"idle", "done", "wait"} : pc' = [pc EXCEPT ![c] = p]
      BY <2>1 DEF RowsCloseReturn, RowsCloseSkip, AfterRowsClose, Finish
    <3>2. mu' = mu \/ pc[c] = "inside"
      BY <2>1 DEF RowsCloseReturn, RowsCloseSkip, Inside
    <3> QED BY <1>0, <3>1, <3>2, OutsideLock
  <2>2. CASE StmtCloseReturn(c) \/ CloseReturn(c)
    BY <1>0, <2>2, LeaveLock DEF StmtCloseReturn, CloseReturn, Inside
  <2>3. CASE StmtCloseSkip(c) \/ CloseSkip(c)
    BY <1>0, <2>3, LeaveLock DEF StmtCloseSkip, CloseSkip
  <2> QED BY <1>4, <2>1, <2>2, <2>3 DEF TeardownStep
<1>5. ASSUME NEW c \in Conns, Poison(c) PROVE InsideHoldsLock'
  <2>1. PICK p \in {"idle", "done"} : pc' = [pc EXCEPT ![c] = p]
    BY <1>5 DEF Poison, Finish
  <2> QED BY <1>0, <1>5, <2>1, OutsideLock DEF Poison
<1>6. CASE CallShutdown
  BY <1>0, <1>6, OutsideLock DEF CallShutdown
<1>7. CASE ShutdownStep
  <2>1. CASE ShutdownEnter
    BY <1>0, <2>1, EnterLock DEF ShutdownEnter
  <2>2. CASE ShutdownReturn
    BY <1>0, <2>2, LeaveLock DEF ShutdownReturn, Inside
  <2>3. CASE ShutdownSkip
    BY <1>0, <2>3, LeaveLock DEF ShutdownSkip
  <2> QED BY <1>7, <2>1, <2>2, <2>3 DEF ShutdownStep
<1>8. ASSUME NEW c \in Callers, PanicStep(c) PROVE InsideHoldsLock'
  <2>1. CASE PanicGuarded(c) \/ PanicUnguarded(c)
    BY <1>0, <2>1, OutsideLock DEF PanicGuarded, PanicUnguarded
  <2>2. CASE PanicInNext(c)
    BY <1>0, <2>2, LeaveLock DEF PanicInNext, Inside
  <2> QED BY <1>8, <2>1, <2>2 DEF PanicStep
<1>9. CASE UNCHANGED vars
  BY <1>9 DEF vars, callers, InsideHoldsLock
<1> QED BY <1>0, <1>1, <1>2, <1>3, <1>4, <1>5, <1>6, <1>7, <1>8, <1>9 DEF Next, PanicStep

(* Two goroutines are never inside one engine: the mutex of the connector  *)
(* serializes every operation on every engine it ever created.             *)
THEOREM Exclusion == Spec => []EngineExclusive
<1>1. Init => InsideHoldsLock
  BY DEF Init, InsideHoldsLock
<1>2. InsideHoldsLock => EngineExclusive
  BY DEF InsideHoldsLock, EngineExclusive
<1> QED BY <1>1, <1>2, TypeInit, TypeNext, LockNext, PTL DEF Spec

-----------------------------------------------------------------------------
(* Poisoned engines.  Who runs what: only the Closer shuts down, a conn    *)
(* under way in an operation other than Connect has an engine, what it has *)
(* open it has in an engine, and an initialised connector has one too.     *)
ConnReady(c) ==
    /\ op[c] # "Shutdown"
    /\ pc[c] \in {"wait", "inside"} /\ op[c] # "Connect" =>
          conn[c].mod # NoEngine /\ op[c] # NoOp
    /\ conn[c].rows # "none" \/ conn[c].stmt => conn[c].mod # NoEngine
Roles ==
    /\ \A c \in Conns : ConnReady(c)
    /\ connector.init => connector.mod # NoEngine
    /\ \A c \in Callers : pc[c] \in {"inside", "unwinding"} => at[c] # NoEngine

(* A step of one caller moves no other caller and touches no other conn.   *)
OnlyActs(c) ==
    \A d \in Callers \ {c} :
        /\ pc'[d] = pc[d] /\ op'[d] = op[d] /\ at'[d] = at[d]
        /\ d \in Conns => conn'[d] = conn[d]

ConnStep(c) ==
    \/ \E o \in Ops : Call(c, o)
    \/ ConnectStep(c) \/ EngineStep(c) \/ TeardownStep(c) \/ Poison(c) \/ PanicStep(c)
CloserStep == CallShutdown \/ ShutdownStep \/ PanicUnguarded(Closer)

LEMMA Steps == Next => CloserStep \/ \E c \in Conns : ConnStep(c)
  BY DEF Next, ConnStep, CloserStep

LEMMA ConnActsAlone ==
  ASSUME Typed, NEW c \in Conns, ConnStep(c)
  PROVE  OnlyActs(c)
<1>0. ControlTyped /\ ObjectsTyped /\ c \in Callers
  BY DEF Typed, Callers
<1> USE <1>0 DEF ControlTyped, ObjectsTyped, OnlyActs
<1>1. CASE \E o \in Ops : Call(c, o)
  BY <1>1 DEF Call
<1>2. CASE ConnectStep(c)
  BY <1>2 DEF ConnectStep, ConnectOpening, ConnectJoining, ConnectReturn, ConnectFail,
              EnterEngine, Leave, Finish
<1>3. CASE EngineStep(c)
  BY <1>3 DEF EngineStep, Enter, Refuse, Return, PrepareReturn, QueryReturn,
              EnterEngine, Leave, Skip, Finish
<1>4. CASE TeardownStep(c)
  BY <1>4 DEF TeardownStep, RowsCloseReturn, RowsCloseSkip, StmtCloseReturn, StmtCloseSkip,
              CloseReturn, CloseSkip, AfterRowsClose, Leave, Skip, Finish
<1>5. CASE Poison(c)
  BY <1>5 DEF Poison, Finish
<1>6. CASE PanicStep(c)
  BY <1>6 DEF PanicStep, PanicGuarded, PanicInNext, PanicUnguarded, Leave, Finish
<1> QED BY <1>1, <1>2, <1>3, <1>4, <1>5, <1>6 DEF ConnStep

LEMMA CloserActsAlone ==
  ASSUME Typed, CloserStep
  PROVE  OnlyActs(Closer) /\ conn' = conn
<1>0. ControlTyped
  BY DEF Typed
<1> USE <1>0 DEF ControlTyped, OnlyActs
<1>1. CASE CallShutdown
  BY <1>1 DEF CallShutdown
<1>2. CASE ShutdownStep
  BY <1>2 DEF ShutdownStep, ShutdownEnter, ShutdownReturn, ShutdownSkip,
              EnterEngine, Leave, Skip, Finish
<1>3. CASE PanicUnguarded(Closer)
  BY <1>3 DEF PanicUnguarded
<1> QED BY <1>1, <1>2, <1>3 DEF CloserStep

LEMMA RolesInit == Init => Roles
  BY DEF Init, Roles, ConnReady, NoConn, NoModule, NoOp, Callers

LEMMA RolesNext == Typed /\ Roles /\ [Next]_vars => Roles'
<1> SUFFICES ASSUME Typed, Roles, [Next]_vars PROVE Roles'
  OBVIOUS
<1>0. ControlTyped /\ ObjectsTyped /\ Closer \in Callers /\ Closer \notin Conns
      /\ \A c \in Conns : c \in Callers
  BY PoolAssumption DEF Typed, Callers
<1>1. ASSUME NEW c \in Conns, ConnStep(c) PROVE Roles'
  <2>0. OnlyActs(c) /\ ConnReady(c) /\ c \in Callers
    BY <1>0, <1>1, ConnActsAlone DEF Roles
  <2>1. ConnReady(c)'
    <3> USE <1>0, <2>0 DEF ConnReady, ControlTyped, ObjectsTyped, DriverConns
    <3>1. CASE \E o \in Ops : Call(c, o)
      <4> PICK o \in Ops : Call(c, o)
        BY <3>1
      <4>1. o \in AllOps /\ pc'[c] = "wait" /\ op'[c] = o /\ conn' = conn
        BY PoolAssumption DEF Call
      <4>2. o # "Shutdown" /\ (o # "Connect" => conn[c].mod # NoEngine)
        BY <4>1 DEF Call, Callable, AllOps, Tested, Guarded, Bridges, Closings
      <4> QED BY <4>1, <4>2 DEF AllOps, Tested, Guarded, Bridges, Closings, NoOp
    <3>2. CASE ConnectOpening(c) \/ ConnectJoining(c) \/ ConnectFail(c)
      BY <3>2 DEF ConnectOpening, ConnectJoining, ConnectFail, Waits, EnterEngine,
                  Leave, Finish, NoOp
    <3>3. CASE ConnectReturn(c)
      BY <3>3 DEF ConnectReturn, Inside, Leave, Finish, NoOp, NoConn
    <3>4. CASE Enter(c) \/ Refuse(c) \/ Return(c)
      BY <3>4 DEF Enter, Refuse, Return, EnterEngine, Leave, Skip, Finish, NoOp
    <3>5. CASE PrepareReturn(c) \/ QueryReturn(c)
      BY <3>5 DEF PrepareReturn, QueryReturn, Inside, Leave, Finish, NoOp
    <3>6. CASE RowsCloseReturn(c) \/ RowsCloseSkip(c)
      BY <3>6 DEF RowsCloseReturn, RowsCloseSkip, Waits, Inside, AfterRowsClose, Finish, NoOp
    <3>7. CASE StmtCloseReturn(c) \/ StmtCloseSkip(c)
      BY <3>7 DEF StmtCloseReturn, StmtCloseSkip, Leave, Skip, Finish, NoOp
    <3>8. CASE CloseReturn(c) \/ CloseSkip(c)
      BY <3>8 DEF CloseReturn, CloseSkip, Leave, Skip, Finish, NoOp, NoConn
    <3>9. CASE Poison(c) \/ PanicGuarded(c) \/ PanicUnguarded(c)
      BY <3>9 DEF Poison, PanicGuarded, PanicUnguarded, Finish, NoOp
    <3>10. CASE PanicInNext(c)
      BY <3>10 DEF PanicInNext, Leave, Finish, NoOp
    <3> QED BY <1>1, <3>1, <3>2, <3>3, <3>4, <3>5, <3>6, <3>7, <3>8, <3>9, <3>10
            DEF ConnStep, ConnectStep, EngineStep, TeardownStep, PanicStep
  <2>3. connector'.init => connector'.mod # NoEngine
    <3>1. CASE ConnectReturn(c)
      <4>1. connector' = connector \/ connector' = [mod |-> at[c], init |-> TRUE, poisoned |-> FALSE]
        BY <3>1 DEF ConnectReturn
      <4>2. at[c] # NoEngine
        BY <2>0, <3>1 DEF ConnectReturn, Inside, Roles
      <4> QED BY <4>1, <4>2 DEF Roles
    <3>2. CASE ConnectOpening(c)
      BY <3>2 DEF ConnectOpening, NoModule
    <3>3. CASE Poison(c)
      BY <3>3 DEF Poison
    <3>4. CASE connector' = connector
      BY <3>4 DEF Roles
    <3>5. CASE (\E o \in Ops : Call(c, o)) \/ ConnectJoining(c) \/ ConnectFail(c) \/ EngineStep(c)
      BY <3>4, <3>5 DEF Call, ConnectJoining, ConnectFail, EngineStep, Enter, Refuse, Return,
                  PrepareReturn, QueryReturn
    <3>6. CASE TeardownStep(c) \/ PanicStep(c)
      BY <3>4, <3>6 DEF TeardownStep, RowsCloseReturn, RowsCloseSkip, StmtCloseReturn, StmtCloseSkip,
                  CloseReturn, CloseSkip, PanicStep, PanicGuarded, PanicInNext, PanicUnguarded
    <3> QED BY <1>1, <3>1, <3>2, <3>3, <3>5, <3>6 DEF ConnStep, ConnectStep
  <2>4. pc'[c] \in {"inside", "unwinding"} => at'[c] # NoEngine
    <3>1. CASE PanicGuarded(c)
      BY <2>0, <3>1 DEF PanicGuarded, Roles
    <3>2. CASE ConnectOpening(c)
      BY <1>0, <2>0, <3>2, PoolAssumption DEF ConnectOpening, EnterEngine, ControlTyped
    <3>3. CASE ConnectJoining(c)
      BY <1>0, <2>0, <3>3 DEF ConnectJoining, EnterEngine, ControlTyped, Roles
    <3>4. CASE Enter(c)
      BY <1>0, <2>0, <3>4 DEF Enter, EnterEngine, ControlTyped, ConnReady
    <3>5. ASSUME ~ConnectOpening(c), ~ConnectJoining(c), ~Enter(c), ~PanicGuarded(c)
          PROVE  pc'[c] \notin {"inside", "unwinding"}
      BY <1>0, <1>1, <2>0, <3>5 DEF ConnStep, Call, ConnectStep, ConnectReturn,
         ConnectFail, EngineStep, Refuse, Return, PrepareReturn, QueryReturn, TeardownStep,
         RowsCloseReturn, RowsCloseSkip, StmtCloseReturn, StmtCloseSkip, CloseReturn, CloseSkip,
         AfterRowsClose, Leave, Skip, Finish, Poison, PanicStep, PanicInNext,
         PanicUnguarded, ControlTyped
    <3> QED BY <3>1, <3>2, <3>3, <3>4, <3>5
  <2> QED BY <1>0, <2>0, <2>1, <2>3, <2>4 DEF Roles, OnlyActs, ConnReady
<1>2. CASE CloserStep
  <2>1. OnlyActs(Closer) /\ conn' = conn
    BY <1>2, CloserActsAlone
  <2>2. connector' \in {connector, NoModule}
    BY <1>2 DEF CloserStep, CallShutdown, ShutdownStep, ShutdownEnter, ShutdownReturn,
                ShutdownSkip, PanicUnguarded
  <2>3. pc'[Closer] \in {"inside", "unwinding"} => at'[Closer] # NoEngine
    BY <1>0, <1>2 DEF CloserStep, CallShutdown, ShutdownStep, ShutdownEnter, ShutdownReturn,
       ShutdownSkip, ShutdownNeeded, PanicUnguarded, EnterEngine, Leave, Skip, Finish,
       ControlTyped
  <2> QED BY <1>0, <2>1, <2>2, <2>3 DEF Roles, OnlyActs, ConnReady, NoModule
<1>3. CASE UNCHANGED vars
  BY <1>3 DEF vars, callers, Roles, ConnReady
<1> QED BY <1>1, <1>2, <1>3, Steps

(* Every variable stays in its type, for any Conns, Engines and Ops, and   *)
(* nobody ever works in an engine that does not exist.                     *)
THEOREM TypeCorrect == Spec => []TypeOK
<1>1. Typed /\ Roles => TypeOK
  BY DEF TypeOK, Typed, ControlTyped, ObjectsTyped, HandlesTyped, Roles
<1> QED BY <1>1, TypeInit, TypeNext, RolesInit, RolesNext, PTL DEF Spec

(* Nobody else is inside when c is; nobody at all when the mutex is free.  *)
LEMMA AloneInside ==
  ASSUME InsideHoldsLock, NEW c \in Callers, mu = Nobody \/ pc[c] = "inside"
  PROVE  \A d \in Callers \ {c} : pc[d] # "inside"
  BY PoolAssumption DEF InsideHoldsLock

(* A step that poisons no engine, by a caller that is outside afterwards   *)
(* or inside an engine that is not poisoned.                               *)
LEMMA SoundStep ==
  ASSUME Roles, NeverInsidePoisoned, ControlTyped, NEW c \in Callers, OnlyActs(c),
         \A e \in Engines : engine'[e].poisoned => engine[e].poisoned,
         pc'[c] = "inside" /\ op'[c] \notin Bridges => ~engine'[at'[c]].poisoned
  PROVE  NeverInsidePoisoned'
  BY DEF Roles, NeverInsidePoisoned, ControlTyped, OnlyActs

LEMMA SoundNext ==
  Typed /\ Roles /\ InsideHoldsLock /\ NeverInsidePoisoned /\ [Next]_vars => NeverInsidePoisoned'
<1> SUFFICES ASSUME Typed, Roles, InsideHoldsLock, NeverInsidePoisoned, [Next]_vars
             PROVE  NeverInsidePoisoned'
  OBVIOUS
<1>0. ControlTyped /\ ObjectsTyped /\ Closer \in Callers /\ Closer \notin Conns
      /\ \A c \in Conns : c \in Callers
  BY PoolAssumption DEF Typed, Callers
<1>1. ASSUME NEW c \in Conns, ConnStep(c) PROVE NeverInsidePoisoned'
  <2>0. OnlyActs(c) /\ ConnReady(c) /\ c \in Callers
    BY <1>0, <1>1, ConnActsAlone DEF Roles
  <2>1. CASE Poison(c)
    <3>1. pc'[c] # "inside" /\ \A d \in Callers \ {c} : pc[d] # "inside"
      BY <1>0, <2>0, <2>1, AloneInside DEF Poison, Finish, ControlTyped
    <3> QED BY <2>0, <3>1 DEF NeverInsidePoisoned, OnlyActs
  <2>2. CASE PanicInNext(c)
    <3>1. pc'[c] # "inside" /\ \A d \in Callers \ {c} : pc[d] # "inside"
      BY <1>0, <2>0, <2>2, AloneInside DEF PanicInNext, Inside, Leave, Finish, ControlTyped
    <3> QED BY <2>0, <3>1 DEF NeverInsidePoisoned, OnlyActs
  <2>3. CASE ConnectOpening(c)
    <3>1. PICK e \in Engines :
             /\ engine' = [engine EXCEPT ![e] = [Unmade EXCEPT !.made = TRUE]]
             /\ EnterEngine(c, e)
      BY <2>3 DEF ConnectOpening
    <3>2. \A f \in Engines : engine'[f].poisoned => engine[f].poisoned
      BY <1>0, <3>1 DEF ObjectsTyped, Unmade
    <3>3. ~engine'[at'[c]].poisoned
      BY <1>0, <2>0, <3>1 DEF ObjectsTyped, ControlTyped, EnterEngine, Unmade
    <3> QED BY <1>0, <2>0, <3>2, <3>3, SoundStep
  <2>4. CASE ConnectJoining(c)
    <3>1. engine' = engine /\ at'[c] = connector.mod /\ ~engine[connector.mod].poisoned
      BY <1>0, <2>0, <2>4
      DEF ConnectJoining, EnterEngine, ResetNeeded, ControlTyped, Roles
    <3> QED BY <1>0, <2>0, <3>1, SoundStep
  <2>5. CASE Enter(c)
    <3>1. engine' = engine /\ at'[c] = conn[c].mod /\ op' = op
      BY <1>0, <2>0, <2>5 DEF Enter, EnterEngine, ControlTyped
    <3>2. op[c] \in AllOps \ {"Connect", "Shutdown"}
      BY <1>0, <2>0, <2>5 DEF Enter, ConnReady, ControlTyped
    <3>3. op[c] \notin Bridges => ~engine[conn[c].mod].poisoned
      BY <2>5, <3>2
      DEF Enter, MayEnter, badLocked, AllOps, Tested, Guarded, Bridges, Closings
    <3> QED BY <1>0, <2>0, <3>1, <3>3, SoundStep
  <2>6. ASSUME ~Poison(c), ~PanicInNext(c), ~ConnectOpening(c), ~ConnectJoining(c), ~Enter(c)
        PROVE  NeverInsidePoisoned'
    <3>1. pc'[c] # "inside"
      BY <1>0, <1>1, <2>0, <2>6 DEF ConnStep, Call, ConnectStep, ConnectReturn,
         ConnectFail, EngineStep, Refuse, Return, PrepareReturn, QueryReturn, TeardownStep,
         RowsCloseReturn, RowsCloseSkip, StmtCloseReturn, StmtCloseSkip, CloseReturn, CloseSkip,
         AfterRowsClose, Leave, Skip, Finish, PanicStep, PanicGuarded,
         PanicUnguarded, ControlTyped
    <3>2. \A e \in Engines : engine'[e].poisoned => engine[e].poisoned
      <4>1. CASE ConnectReturn(c) \/ ConnectFail(c)
        BY <1>0, <4>1 DEF ConnectReturn, ConnectFail, ObjectsTyped, Modules, Unmade
      <4>2. CASE PanicGuarded(c)
        BY <1>0, <4>2 DEF PanicGuarded, ObjectsTyped, Modules
      <4>3. CASE PanicUnguarded(c)
        <5>1. PICK db : engine' = [engine EXCEPT ![at[c]].broken = TRUE, ![at[c]].db = db]
          BY <4>3 DEF PanicUnguarded
        <5> QED BY <1>0, <5>1 DEF ObjectsTyped, Modules
      <4>4. CASE engine' = engine
        BY <4>4
      <4> QED BY <1>1, <2>6, <4>1, <4>2, <4>3, <4>4 DEF ConnStep, Call, ConnectStep, EngineStep,
              Refuse, Return, PrepareReturn, QueryReturn, TeardownStep, RowsCloseReturn,
              RowsCloseSkip, StmtCloseReturn, StmtCloseSkip, CloseReturn, CloseSkip, PanicStep
    <3> QED BY <1>0, <2>0, <3>1, <3>2, SoundStep
  <2> QED BY <2>1, <2>2, <2>3, <2>4, <2>5, <2>6
<1>2. CASE CloserStep
  <2>1. OnlyActs(Closer)
    BY <1>2, CloserActsAlone
  <2>2. \A e \in Engines : engine'[e].poisoned => engine[e].poisoned
    <3>1. CASE ShutdownReturn
      BY <1>0, <3>1 DEF ShutdownReturn, ObjectsTyped, Modules
    <3>2. CASE PanicUnguarded(Closer)
      <4>1. PICK db : engine' = [engine EXCEPT ![at[Closer]].broken = TRUE, ![at[Closer]].db = db]
        BY <3>2 DEF PanicUnguarded
      <4> QED BY <1>0, <4>1 DEF ObjectsTyped, Modules
    <3>3. CASE engine' = engine
      BY <3>3
    <3> QED BY <1>2, <3>1, <3>2, <3>3
            DEF CloserStep, CallShutdown, ShutdownStep, ShutdownEnter, ShutdownSkip
  <2>3. pc'[Closer] = "inside" => ~engine'[at'[Closer]].poisoned
    BY <1>0, <1>2 DEF CloserStep, CallShutdown, ShutdownStep, ShutdownEnter, ShutdownReturn,
       ShutdownSkip, ShutdownNeeded, PanicUnguarded, EnterEngine, Leave, Skip, Finish,
       ControlTyped
  <2> QED BY <1>0, <2>1, <2>2, <2>3, SoundStep
<1>3. CASE UNCHANGED vars
  BY <1>3 DEF vars, callers, NeverInsidePoisoned
<1> QED BY <1>1, <1>2, <1>3, Steps

(* No operation but the withConn bridges is ever inside an engine that is  *)
(* marked poisoned: the flag is only set when nobody else is inside, and   *)
(* is tested by everyone who enters.                                       *)
THEOREM InsideIsSound == Spec => []NeverInsidePoisoned
<1>1. Init => InsideHoldsLock /\ NeverInsidePoisoned
  BY DEF Init, InsideHoldsLock, NeverInsidePoisoned
<1> QED BY <1>1, TypeInit, TypeNext, RolesInit, RolesNext, LockNext, SoundNext, PTL DEF Spec

-----------------------------------------------------------------------------
(* Handles.  A conn works in its own engine; one that is closed, or whose  *)
(* goroutine is unwinding to its guard, has seen a panic in it.            *)
Linked(c) ==
    /\ pc[c] = "inside" /\ op[c] # "Connect" => at[c] = conn[c].mod
    /\ pc[c] \in {"wait", "inside"} /\ op[c] = "Connect" => conn[c].mod = NoEngine
    /\ pc[c] \in {"wait", "inside"} /\ op[c] = "Close" =>
          conn[c].rows = "none" /\ ~conn[c].stmt
    /\ pc[c] = "unwinding" =>
          at[c] = conn[c].mod /\ at[c] # NoEngine /\ engine[at[c]].broken
    /\ conn[c].closed => conn[c].mod # NoEngine /\ engine[conn[c].mod].broken

(* A panic comes before the poisoned flag, in an engine that was made.     *)
Marks ==
    \A e \in Engines : /\ engine[e].poisoned => engine[e].broken
                       /\ engine[e].broken => engine[e].made

(* What anybody refers to was made.                                        *)
Referred ==
    /\ connector.mod # NoEngine => connector.init /\ engine[connector.mod].made
    /\ \A c \in Conns : conn[c].mod # NoEngine => engine[conn[c].mod].made
    /\ \A c \in Callers : pc[c] = "inside" => engine[at[c]].made

(* A Connect joins the engine of the connector, or opens one that nobody   *)
(* knows of yet and that has not seen a panic.                             *)
Opening ==
    \A c \in Conns : Inside(c, "Connect") =>
        IF connector.init THEN at[c] = connector.mod
        ELSE ~engine[at[c]].broken /\ \A d \in Conns : conn[d].mod # at[c]

(* A panic that has not marked its engine is still on somebody's stack.    *)
PanicAccounted ==
    \A e \in Engines : engine[e].broken =>
        \/ engine[e].poisoned
        \/ \E d \in Callers : at[d] = e /\ pc[d] \in {"unwinding", "crashed"}

(* Nobody refers to an engine whose open failed half-way.                  *)
OrphansApart ==
    \A e \in Engines : engine[e].orphan =>
        /\ engine[e].made /\ connector.mod # e
        /\ \A c \in Conns : conn[c].mod # e
        /\ \A c \in Callers : pc[c] = "inside" => at[c] # e

HandleInv ==
    /\ Typed /\ InsideHoldsLock /\ Roles
    /\ \A c \in Conns : Linked(c)
    /\ Marks /\ Referred /\ Opening /\ PanicAccounted /\ OrphansApart /\ HandlesOwned

LEMMA HandleInit == Init => HandleInv
<1> SUFFICES ASSUME Init PROVE HandleInv
  OBVIOUS
<1>1. Typed /\ InsideHoldsLock /\ Roles
  BY TypeInit, RolesInit DEF Init, InsideHoldsLock
<1>2. /\ (\A c \in Conns : Linked(c)) /\ Marks /\ Referred /\ Opening /\ PanicAccounted
      /\ OrphansApart /\ HandlesOwned
  BY PoolAssumption DEF Init, Linked, Marks, Referred, Opening, PanicAccounted, OrphansApart,
     HandlesOwned, Inside, Callers, NoConn, NoModule, Unmade
<1> QED BY <1>1, <1>2 DEF HandleInv

LEMMA Facts ==
  HandleInv => /\ ControlTyped /\ ObjectsTyped /\ HandlesTyped /\ InsideHoldsLock /\ Roles
               /\ (\A c \in Conns : Linked(c) /\ ConnReady(c) /\ c \in Callers)
               /\ Marks /\ Referred /\ Opening /\ PanicAccounted /\ OrphansApart /\ HandlesOwned
               /\ Closer \in Callers /\ Closer \notin Conns
               /\ NoEngine \notin Engines
  BY PoolAssumption DEF HandleInv, Typed, Roles, Callers

(* What a step does to the marks of the engines: it may clear those of an  *)
(* engine that was not made, or whose opening failed, and no others.       *)
LEMMA MarksKept ==
  ASSUME HandleInv, [Next]_vars, NEW e \in Engines
  PROVE  /\ engine[e].broken => engine'[e].broken
         /\ engine[e].poisoned => engine'[e].poisoned
<1>0. ObjectsTyped /\ Marks /\ Opening /\ (engine[e].poisoned => engine[e].broken)
  BY Facts DEF Marks
<1> USE <1>0 DEF ObjectsTyped, Modules
<1>1. ASSUME NEW c \in Conns, ConnectOpening(c)
      PROVE  engine'[e] = engine[e] \/ ~engine[e].broken
  BY <1>1 DEF ConnectOpening, Marks
<1>2. ASSUME NEW c \in Conns, ConnectFail(c)
      PROVE  engine'[e] = engine[e] \/ ~engine[e].broken
  BY <1>2 DEF ConnectFail, Opening
<1>3. ASSUME NEW c \in Conns, ConnectReturn(c)
      PROVE  engine'[e].broken = engine[e].broken /\ engine'[e].poisoned = engine[e].poisoned
  BY <1>3 DEF ConnectReturn
<1>4. ASSUME NEW c \in Conns, Poison(c) \/ PanicInNext(c)
      PROVE  /\ engine[e].broken => engine'[e].broken
             /\ engine[e].poisoned => engine'[e].poisoned
  BY <1>4 DEF Poison, PanicInNext
<1>5. ASSUME NEW c \in Callers, PanicGuarded(c) \/ PanicUnguarded(c)
      PROVE  /\ engine[e].broken => engine'[e].broken
             /\ engine[e].poisoned => engine'[e].poisoned
  <2>1. CASE PanicGuarded(c)
    BY <2>1 DEF PanicGuarded
  <2>2. CASE PanicUnguarded(c)
    <3>1. PICK db : engine' = [engine EXCEPT ![at[c]].broken = TRUE, ![at[c]].db = db]
      BY <2>2 DEF PanicUnguarded
    <3> QED BY <3>1
  <2> QED BY <1>5, <2>1, <2>2
<1>6. CASE ShutdownReturn
  BY <1>6 DEF ShutdownReturn
<1>7. ASSUME NEW c \in Conns,
             \/ \E o \in Ops : Call(c, o)
             \/ ConnectJoining(c) \/ EngineStep(c) \/ TeardownStep(c)
      PROVE  engine' = engine
  BY <1>7 DEF Call, ConnectJoining, EngineStep, Enter, Refuse, Return, PrepareReturn, QueryReturn,
     TeardownStep, RowsCloseReturn, RowsCloseSkip, StmtCloseReturn, StmtCloseSkip,
     CloseReturn, CloseSkip
<1>8. CASE CallShutdown \/ ShutdownEnter \/ ShutdownSkip \/ UNCHANGED vars
  BY <1>8 DEF CallShutdown, ShutdownEnter, ShutdownSkip, vars
<1>9. Closer \in Callers /\ \A c \in Conns : c \in Callers
  BY Facts
<1> QED BY <1>1, <1>2, <1>3, <1>4, <1>5, <1>6, <1>7, <1>8, <1>9
        DEF Next, ConnectStep, PanicStep, ShutdownStep

LEMMA LinkedNext ==
  ASSUME HandleInv, [Next]_vars
  PROVE  \A c \in Conns : Linked(c)'
<1>0. ControlTyped /\ ObjectsTyped /\ Roles /\ NoEngine \notin Engines /\ Typed
  BY Facts DEF HandleInv
<1>1. ASSUME NEW d \in Conns, pc'[d] = pc[d], op'[d] = op[d], at'[d] = at[d], conn'[d] = conn[d]
      PROVE  Linked(d)'
  <2>1. /\ Linked(d) /\ at[d] \in Engines \cup {NoEngine}
        /\ conn[d].mod \in Engines \cup {NoEngine}
    BY Facts DEF ControlTyped, ObjectsTyped, DriverConns
  <2> QED BY <1>1, <2>1, MarksKept DEF Linked
<1>2. ASSUME NEW c \in Conns, ConnStep(c) PROVE Linked(c)'
  <2>0. /\ Linked(c) /\ ConnReady(c) /\ c # Closer /\ at[c] \in Engines \cup {NoEngine}
        /\ c \in Callers /\ conn[c] \in DriverConns /\ conn[c].mod \in Engines \cup {NoEngine}
        /\ (pc[c] = "inside" => at[c] # NoEngine)
    BY Facts DEF ControlTyped, ObjectsTyped, DriverConns, Roles
  <2>1. conn[c].mod \in Engines /\ engine[conn[c].mod].broken => engine'[conn[c].mod].broken
    BY MarksKept
  <2> USE <1>0, <2>0, <2>1 DEF Linked, ConnReady, ControlTyped, ObjectsTyped
  <2>2. CASE \E o \in Ops : Call(c, o)
    BY <2>2, PoolAssumption DEF Call, Callable
  <2>3. CASE ConnectOpening(c) \/ ConnectJoining(c)
    BY <2>3 DEF ConnectOpening, ConnectJoining, EnterEngine, Waits
  <2>4. CASE ConnectFail(c)
    BY <2>4 DEF ConnectFail, Inside, Leave, Finish
  <2>5. CASE ConnectReturn(c)
    BY <2>5 DEF ConnectReturn, Inside, Leave, Finish, NoConn
  <2>6. CASE Enter(c)
    BY <2>6 DEF Enter, EnterEngine
  <2>7. CASE Refuse(c) \/ Return(c)
    BY <2>7 DEF Refuse, Return, Leave, Skip, Finish
  <2>8. ASSUME conn'[c].mod = conn[c].mod, conn'[c].closed = conn[c].closed,
               \/ pc'[c] = "idle"
               \/ pc'[c] = "wait" /\ op'[c] = "StmtClose"
        PROVE  Linked(c)'
    BY <2>8
  <2>9. CASE PrepareReturn(c) \/ QueryReturn(c)
    BY <2>8, <2>9 DEF PrepareReturn, QueryReturn, Leave, Finish, DriverConns
  <2>10. CASE \/ RowsCloseReturn(c) \/ RowsCloseSkip(c)
              \/ StmtCloseReturn(c) \/ StmtCloseSkip(c)
    <3>1. conn'[c].mod = conn[c].mod /\ conn'[c].closed = conn[c].closed
      BY <2>10 DEF RowsCloseReturn, RowsCloseSkip, StmtCloseReturn, StmtCloseSkip, DriverConns
    <3>2. \/ pc'[c] = "idle"
          \/ pc'[c] = "wait" /\ op'[c] = "StmtClose"
      BY <2>10 DEF RowsCloseReturn, RowsCloseSkip, StmtCloseReturn, StmtCloseSkip,
         AfterRowsClose, Leave, Skip, Finish
    <3> QED BY <2>8, <3>1, <3>2
  <2>11. CASE CloseReturn(c) \/ CloseSkip(c)
    BY <2>11 DEF CloseReturn, CloseSkip, Leave, Skip, Finish, NoConn
  <2>12. CASE Poison(c)
    BY <2>12 DEF Poison, Finish
  <2>13. CASE PanicGuarded(c)
    BY <2>13 DEF PanicGuarded, Guarded, Modules
  <2>14. CASE PanicInNext(c)
    BY <2>14 DEF PanicInNext, Leave, Finish
  <2>15. CASE PanicUnguarded(c)
    BY <2>15 DEF PanicUnguarded
  <2> QED BY <1>2, <2>2, <2>3, <2>4, <2>5, <2>6, <2>7, <2>8, <2>9, <2>10, <2>11, <2>12, <2>13,
             <2>14, <2>15 DEF ConnStep, ConnectStep, EngineStep, TeardownStep, PanicStep
<1>3. ASSUME NEW c \in Conns, ConnStep(c) PROVE \A d \in Conns : Linked(d)'
  BY <1>0, <1>1, <1>2, <1>3, ConnActsAlone, Facts DEF OnlyActs
<1>4. CASE CloserStep
  BY <1>0, <1>1, <1>4, CloserActsAlone, Facts DEF OnlyActs
<1>5. CASE UNCHANGED vars
  BY <1>1, <1>5 DEF vars, callers
<1> QED BY <1>3, <1>4, <1>5, Steps

(* While somebody is inside, the others can only start calls.              *)
LEMMA Blocked ==
  ASSUME ControlTyped, InsideHoldsLock, NEW c \in Conns, NEW d \in Callers \ {c}, pc[d] = "inside",
         ConnStep(c)
  PROVE  connector' = connector /\ engine' = engine /\ conn' = conn
<1>1. mu # Nobody /\ pc[c] # "inside"
  BY PoolAssumption DEF InsideHoldsLock, Callers
<1>2. CASE \E o \in Ops : Call(c, o)
  BY <1>2 DEF Call
<1>3. ~ConnectStep(c)
  BY <1>1 DEF ConnectStep, ConnectOpening, ConnectJoining, ConnectReturn, ConnectFail,
              EnterEngine, Inside
<1>4. ~EngineStep(c)
  BY <1>1 DEF EngineStep, Enter, Refuse, Return, PrepareReturn, QueryReturn, EnterEngine, Skip, Inside
<1>5. ~TeardownStep(c)
  BY <1>1 DEF TeardownStep, RowsCloseReturn, RowsCloseSkip, StmtCloseReturn, StmtCloseSkip,
              CloseReturn, CloseSkip, Skip, Inside
<1>6. ~Poison(c) /\ ~PanicStep(c)
  BY <1>1 DEF Poison, PanicStep, PanicGuarded, PanicInNext, PanicUnguarded, Inside
<1> QED BY <1>2, <1>3, <1>4, <1>5, <1>6 DEF ConnStep

LEMMA CloserBlocked ==
  ASSUME ControlTyped, InsideHoldsLock, NEW d \in Conns, pc[d] = "inside", CloserStep
  PROVE  connector' = connector /\ engine' = engine /\ conn' = conn
<1>1. mu # Nobody /\ pc[Closer] # "inside"
  BY PoolAssumption DEF InsideHoldsLock, Callers
<1> QED BY <1>1 DEF CloserStep, CallShutdown, ShutdownStep, ShutdownEnter, ShutdownReturn,
        ShutdownSkip, PanicUnguarded, EnterEngine, Skip, Inside

(* The five actions of a conn that enter an engine or name one, and what   *)
(* all the others have in common.                                          *)
Naming(c) == ConnectOpening(c) \/ ConnectJoining(c) \/ ConnectReturn(c) \/ ConnectFail(c) \/ Enter(c)

LEMMA NamesNothing ==
  ASSUME Typed, NEW c \in Conns, ConnStep(c), ~Naming(c)
  PROVE  /\ pc'[c] # "inside"
         /\ connector' = connector \/ (connector'.mod = NoEngine /\ ~connector'.init)
         /\ conn'[c].mod \in {conn[c].mod, NoEngine}
         /\ \A e \in Engines : engine[e].made => engine'[e].made
<1>0. ControlTyped /\ ObjectsTyped /\ c \in Callers
  BY DEF Typed, Callers
<1> USE <1>0 DEF ControlTyped, ObjectsTyped
<1>1. CASE \E o \in Ops : Call(c, o)
  BY <1>1 DEF Call
<1>2. CASE Refuse(c) \/ Return(c) \/ PrepareReturn(c) \/ QueryReturn(c)
  BY <1>2 DEF Refuse, Return, PrepareReturn, QueryReturn, Leave, Skip, Finish, DriverConns
<1>3. CASE TeardownStep(c)
  BY <1>3 DEF TeardownStep, RowsCloseReturn, RowsCloseSkip, StmtCloseReturn, StmtCloseSkip,
              CloseReturn, CloseSkip, AfterRowsClose, Leave, Skip, Finish, DriverConns, NoConn
<1>4. CASE Poison(c)
  BY <1>4 DEF Poison, Finish, DriverConns, Modules
<1>5. CASE PanicGuarded(c)
  BY <1>5 DEF PanicGuarded, DriverConns, Modules
<1>6. CASE PanicInNext(c)
  <2>1. pc'[c] # "inside" /\ connector' = connector
    BY <1>6 DEF PanicInNext, Leave, Finish
  <2>2. conn'[c].mod = conn[c].mod
    BY <1>6 DEF PanicInNext, DriverConns
  <2>3. \A e \in Engines : engine'[e].made = engine[e].made
    BY <1>6 DEF PanicInNext, Modules
  <2> QED BY <2>1, <2>2, <2>3
<1>7. CASE PanicUnguarded(c)
  <2>1. PICK db : engine' = [engine EXCEPT ![at[c]].broken = TRUE, ![at[c]].db = db]
    BY <1>7 DEF PanicUnguarded
  <2> QED BY <1>7, <2>1 DEF PanicUnguarded, Modules
<1> QED BY <1>1, <1>2, <1>3, <1>4, <1>5, <1>6, <1>7
        DEF ConnStep, ConnectStep, EngineStep, PanicStep, Naming

LEMMA CloserNamesNothing ==
  ASSUME Typed, CloserStep
  PROVE  /\ connector' = connector \/ (connector'.mod = NoEngine /\ ~connector'.init)
         /\ pc'[Closer] = "inside" => at'[Closer] = connector'.mod
         /\ \A e \in Engines : engine[e].made => engine'[e].made
<1>0. ControlTyped /\ ObjectsTyped /\ Closer \in Callers
  BY DEF Typed, Callers
<1> USE <1>0 DEF ControlTyped, ObjectsTyped
<1>1. CASE CallShutdown
  BY <1>1 DEF CallShutdown
<1>2. CASE ShutdownStep
  BY <1>2 DEF ShutdownStep, ShutdownEnter, ShutdownReturn, ShutdownSkip, EnterEngine, Leave, Skip,
              Finish, NoModule, Modules
<1>3. CASE PanicUnguarded(Closer)
  <2>1. PICK db : engine' = [engine EXCEPT ![at[Closer]].broken = TRUE, ![at[Closer]].db = db]
    BY <1>3 DEF PanicUnguarded
  <2> QED BY <1>3, <2>1 DEF PanicUnguarded, Modules
<1> QED BY <1>1, <1>2, <1>3 DEF CloserStep

LEMMA ReferredNext == HandleInv /\ [Next]_vars => Referred'
<1> SUFFICES ASSUME HandleInv, [Next]_vars PROVE Referred'
  OBVIOUS
<1>0. /\ ControlTyped /\ ObjectsTyped /\ InsideHoldsLock /\ Referred /\ Opening /\ Typed /\ Roles
      /\ NoEngine \notin Engines /\ Closer \in Callers /\ Closer \notin Conns
      /\ \A c \in Conns : c \in Callers
  BY Facts DEF HandleInv
<1>1. ASSUME NEW c \in Conns, ConnStep(c) PROVE Referred'
  <2>0. OnlyActs(c) /\ ConnReady(c) /\ conn[c].mod \in Engines \cup {NoEngine}
        /\ connector.mod \in Engines \cup {NoEngine} /\ at[c] \in Engines \cup {NoEngine}
        /\ \A d \in Callers : pc[d] = "inside" => at[d] \in Engines
    BY <1>0, <1>1, ConnActsAlone, Facts DEF ControlTyped, ObjectsTyped, DriverConns, Connectors, Roles
  <2>1. CASE ConnectOpening(c)
    <3>1. PICK e \in Engines :
             /\ engine' = [engine EXCEPT ![e] = [Unmade EXCEPT !.made = TRUE]]
             /\ EnterEngine(c, e)
      BY <2>1 DEF ConnectOpening
    <3>2. \A f \in Engines : engine[f].made => engine'[f].made
      BY <1>0, <3>1 DEF ObjectsTyped, Unmade
    <3>3. at'[c] = e /\ engine'[e].made
      BY <1>0, <3>1 DEF ControlTyped, ObjectsTyped, EnterEngine, Unmade
    <3>4. connector'.mod = NoEngine /\ conn' = conn
      BY <2>1 DEF ConnectOpening, NoModule
    <3>5. \A d \in Conns : conn[d].mod \in Engines \cup {NoEngine}
      BY <1>0 DEF ObjectsTyped, DriverConns
    <3> QED BY <1>0, <2>0, <3>2, <3>3, <3>4, <3>5 DEF Referred, OnlyActs
  <2>2. CASE ConnectJoining(c)
    BY <1>0, <2>0, <2>2 DEF ConnectJoining, EnterEngine, Referred, OnlyActs, ControlTyped, Roles
  <2>3. CASE Enter(c)
    BY <1>0, <2>0, <2>3 DEF Enter, EnterEngine, Referred, OnlyActs, ControlTyped, ConnReady
  <2>4. CASE ConnectReturn(c)
    <3>1. pc[c] = "inside" /\ pc'[c] = "idle" /\ engine[at[c]].made /\ at[c] # NoEngine
      BY <1>0, <2>4 DEF ConnectReturn, Inside, Leave, Finish, ControlTyped, Referred, Roles
    <3>2. conn'[c].mod = at[c]
      BY <1>0, <2>4 DEF ConnectReturn, ObjectsTyped, NoConn
    <3>3. connector' = connector \/ (connector'.mod = at[c] /\ connector'.init)
      BY <2>4 DEF ConnectReturn
    <3>4. \A e : engine'[e].made = engine[e].made \/ e \notin Engines
      BY <1>0, <2>4 DEF ConnectReturn, ObjectsTyped, Modules
    <3>5. \A d \in Conns : conn[d].mod \in Engines \cup {NoEngine}
      BY <1>0 DEF ObjectsTyped, DriverConns
    <3> QED BY <1>0, <2>0, <3>1, <3>2, <3>3, <3>4, <3>5 DEF Referred, OnlyActs
  <2>5. CASE ConnectFail(c)
    <3>1. Inside(c, "Connect") /\ pc'[c] # "inside" /\ connector' = connector /\ conn' = conn
      BY <1>0, <2>5 DEF ConnectFail, Leave, Finish, ControlTyped
    <3>2. \A d \in Callers : pc'[d] # "inside"
      BY <1>0, <2>0, <3>1, AloneInside DEF OnlyActs, Inside
    <3>3. CASE connector.init
      BY <1>0, <2>0, <2>5, <3>1, <3>2, <3>3 DEF ConnectFail, Referred
    <3>4. CASE ~connector.init
      <4>1. connector.mod = NoEngine /\ \A d \in Conns : conn[d].mod # at[c]
        BY <1>0, <3>1, <3>4 DEF Referred, Opening
      <4>2. \A e \in Engines \ {at[c]} : engine'[e] = engine[e]
        BY <1>0, <2>5, <3>4 DEF ConnectFail, ObjectsTyped
      <4>3. \A d \in Conns : conn[d].mod \in Engines \cup {NoEngine}
        BY <1>0 DEF ObjectsTyped, DriverConns
      <4> QED BY <1>0, <3>1, <3>2, <4>1, <4>2, <4>3 DEF Referred
    <3> QED BY <3>3, <3>4
  <2>6. CASE ~Naming(c)
    <3>1. \A d \in Conns : conn[d].mod \in Engines \cup {NoEngine}
      BY <1>0 DEF ObjectsTyped, DriverConns
    <3> QED BY <1>0, <1>1, <2>0, <2>6, <3>1, NamesNothing DEF Referred, OnlyActs
  <2> QED BY <2>1, <2>2, <2>3, <2>4, <2>5, <2>6 DEF Naming
<1>2. CASE CloserStep
  <2>1. OnlyActs(Closer) /\ conn' = conn
    BY <1>0, <1>2, CloserActsAlone
  <2>2. \A d \in Conns : conn[d].mod \in Engines \cup {NoEngine}
    BY <1>0 DEF ObjectsTyped, DriverConns
  <2>3. connector.mod \in Engines \cup {NoEngine}
        /\ \A d \in Callers : pc[d] = "inside" => at[d] \in Engines
    BY <1>0 DEF ObjectsTyped, Connectors, ControlTyped, Roles
  <2>4. pc'[Closer] = "inside" => at'[Closer] # NoEngine
    BY RolesNext, <1>0 DEF Roles
  <2> QED BY <1>0, <1>2, <2>1, <2>2, <2>3, <2>4, CloserNamesNothing DEF Referred, OnlyActs
<1>3. CASE UNCHANGED vars
  BY <1>0, <1>3 DEF vars, callers, Referred
<1> QED BY <1>1, <1>2, <1>3, Steps

LEMMA OpeningNext == HandleInv /\ [Next]_vars => Opening'
<1> SUFFICES ASSUME HandleInv, [Next]_vars, NEW d \in Conns, Inside(d, "Connect")'
             PROVE  IF connector'.init THEN at'[d] = connector'.mod
                    ELSE ~engine'[at'[d]].broken /\ \A c \in Conns : conn'[c].mod # at'[d]
  BY DEF Opening
<1>0. /\ ControlTyped /\ ObjectsTyped /\ InsideHoldsLock /\ Referred /\ Opening /\ Typed
      /\ NoEngine \notin Engines /\ Closer \in Callers /\ Closer \notin Conns
      /\ \A c \in Conns : c \in Callers
  BY Facts DEF HandleInv
<1>1. CASE /\ pc'[d] = pc[d] /\ op'[d] = op[d] /\ at'[d] = at[d]
           /\ connector' = connector /\ engine' = engine /\ conn' = conn
  BY <1>0, <1>1 DEF Opening, Inside
<1>2. ASSUME NEW c \in Conns \ {d}, ConnStep(c)
      PROVE  /\ pc'[d] = pc[d] /\ op'[d] = op[d] /\ at'[d] = at[d]
             /\ connector' = connector /\ engine' = engine /\ conn' = conn
  <2>1. pc'[d] = pc[d] /\ op'[d] = op[d] /\ at'[d] = at[d]
    BY <1>0, <1>2, ConnActsAlone DEF OnlyActs
  <2> QED BY <1>0, <1>2, <2>1, Blocked DEF Inside
<1>3. CASE CloserStep
  <2>1. pc'[d] = pc[d] /\ op'[d] = op[d] /\ at'[d] = at[d]
    BY <1>0, <1>3, CloserActsAlone DEF OnlyActs
  <2> QED BY <1>0, <1>1, <1>3, <2>1, CloserBlocked DEF Inside
<1>4. CASE ConnStep(d)
  <2>1. CASE ConnectOpening(d)
    <3>1. PICK e \in Engines :
             /\ ~engine[e].made
             /\ engine' = [engine EXCEPT ![e] = [Unmade EXCEPT !.made = TRUE]]
             /\ EnterEngine(d, e)
      BY <2>1 DEF ConnectOpening
    <3>2. at'[d] = e /\ ~engine'[e].broken
      BY <1>0, <3>1 DEF ControlTyped, ObjectsTyped, EnterEngine, Unmade
    <3>3. \A c \in Conns : conn[c].mod # e
      BY <1>0, <3>1 DEF Referred
    <3> QED BY <2>1, <3>2, <3>3 DEF ConnectOpening, NoModule
  <2>2. CASE ConnectJoining(d)
    BY <1>0, <2>2 DEF ConnectJoining, EnterEngine, ControlTyped
  <2>3. CASE Enter(d)
    BY <1>0, <2>3 DEF Enter, EnterEngine, Inside
  <2>4. CASE ConnectReturn(d) \/ ConnectFail(d)
    BY <1>0, <2>4 DEF ConnectReturn, ConnectFail, Leave, Finish, Inside, ControlTyped
  <2>5. CASE ~Naming(d)
    BY <1>0, <1>4, <2>5, NamesNothing DEF Inside
  <2> QED BY <2>1, <2>2, <2>3, <2>4, <2>5 DEF Naming
<1>5. CASE UNCHANGED vars
  BY <1>1, <1>5 DEF vars, callers
<1> QED BY <1>1, <1>2, <1>3, <1>4, <1>5, Steps

(* A mark that appears is one that the step of a caller in that engine set.*)
LEMMA MarkAppears ==
  ASSUME HandleInv, [Next]_vars, NEW e \in Engines, ~engine[e].broken, engine'[e].broken
  PROVE  \E c \in Callers :
            /\ pc[c] = "inside" /\ at[c] = e /\ engine'[e].made = engine[e].made
            /\ PanicGuarded(c) \/ PanicInNext(c) \/ PanicUnguarded(c)
<1>0. ControlTyped /\ ObjectsTyped /\ Closer \in Callers /\ (\A c \in Conns : c \in Callers /\ Linked(c))
  BY Facts
<1> USE <1>0 DEF ObjectsTyped, Modules
<1>1. ASSUME NEW c \in Conns, ConnectStep(c) PROVE FALSE
  BY <1>1 DEF ConnectStep, ConnectOpening, ConnectJoining, ConnectReturn, ConnectFail, Unmade
<1>2. ASSUME NEW c \in Conns, Poison(c) PROVE FALSE
  BY <1>2 DEF Poison
<1>3. ASSUME NEW c \in Conns, (\E o \in Ops : Call(c, o)) \/ EngineStep(c) \/ TeardownStep(c) PROVE FALSE
  BY <1>3 DEF Call, EngineStep, Enter, Refuse, Return, PrepareReturn, QueryReturn,
     TeardownStep, RowsCloseReturn, RowsCloseSkip, StmtCloseReturn, StmtCloseSkip,
     CloseReturn, CloseSkip
<1>4. CASE CallShutdown \/ ShutdownStep \/ UNCHANGED vars
  BY <1>4 DEF CallShutdown, ShutdownStep, ShutdownEnter, ShutdownReturn, ShutdownSkip, vars
<1>5. ASSUME NEW c \in Callers, PanicGuarded(c) \/ PanicInNext(c) \/ PanicUnguarded(c)
      PROVE  pc[c] = "inside" /\ at[c] = e /\ engine'[e].made = engine[e].made
  <2>1. CASE PanicGuarded(c) \/ PanicInNext(c)
    BY <2>1 DEF PanicGuarded, PanicInNext, Inside
  <2>2. CASE PanicUnguarded(c)
    <3>1. PICK db : engine' = [engine EXCEPT ![at[c]].broken = TRUE, ![at[c]].db = db]
      BY <2>2 DEF PanicUnguarded
    <3> QED BY <2>2, <3>1 DEF PanicUnguarded
  <2> QED BY <1>5, <2>1, <2>2
<1> QED BY <1>1, <1>2, <1>3, <1>4, <1>5 DEF Next, PanicStep

LEMMA MarksNext == HandleInv /\ [Next]_vars => Marks'
<1> SUFFICES ASSUME HandleInv, [Next]_vars, NEW e \in Engines
             PROVE  /\ engine'[e].poisoned => engine'[e].broken
                    /\ engine'[e].broken => engine'[e].made
  BY DEF Marks
<1>0. ControlTyped /\ ObjectsTyped /\ Referred /\ Marks /\ Opening /\ Closer \in Callers
      /\ \A c \in Conns : c \in Callers /\ Linked(c)
  BY Facts
<1>1. CASE engine'[e].broken /\ ~engine[e].broken
  <2>1. PICK c \in Callers : pc[c] = "inside" /\ at[c] = e /\ engine'[e].made = engine[e].made
    BY <1>1, MarkAppears
  <2> QED BY <1>0, <1>1, <2>1 DEF Referred
<1> USE <1>0 DEF ObjectsTyped, Modules, Marks
<1>2. ASSUME NEW c \in Conns, Poison(c)
      PROVE  engine'[e].broken = engine[e].broken /\ engine'[e].made = engine[e].made
             /\ (engine'[e].poisoned => engine[e].broken)
  BY <1>2 DEF Poison, Linked
<1>3. ASSUME NEW c \in Conns, PanicInNext(c)
      PROVE  engine'[e].made = engine[e].made /\ (engine'[e] = engine[e] \/ engine'[e].broken)
  BY <1>3 DEF PanicInNext
<1>4. ASSUME NEW c \in Conns, ConnectOpening(c) \/ ConnectFail(c)
      PROVE  engine'[e] = engine[e] \/ (~engine'[e].broken /\ ~engine'[e].poisoned)
  <2>1. CASE ConnectOpening(c)
    BY <2>1 DEF ConnectOpening, Unmade
  <2>2. CASE ConnectFail(c) /\ (engine' = engine \/ engine' = [engine EXCEPT ![at[c]] = Unmade])
    BY <2>2 DEF Unmade
  <2>3. CASE /\ ConnectFail(c) /\ ~connector.init
             /\ engine' = [engine EXCEPT ![at[c]].db = "open", ![at[c]].orphan = TRUE]
    BY <2>3 DEF ConnectFail, Opening
  <2> QED BY <1>4, <2>1, <2>2, <2>3 DEF ConnectFail
<1>5. ASSUME NEW c \in Callers,
             \/ (\E o \in Ops : Call(c, o)) \/ ConnectJoining(c) \/ ConnectReturn(c)
             \/ EngineStep(c) \/ TeardownStep(c) \/ PanicGuarded(c) \/ PanicUnguarded(c)
             \/ CallShutdown \/ ShutdownStep \/ UNCHANGED vars
      PROVE  engine'[e].made = engine[e].made /\ engine'[e].poisoned = engine[e].poisoned
  <2>1. CASE PanicUnguarded(c)
    <3>1. PICK db : engine' = [engine EXCEPT ![at[c]].broken = TRUE, ![at[c]].db = db]
      BY <2>1 DEF PanicUnguarded
    <3> QED BY <3>1
  <2>2. CASE ConnectReturn(c) \/ PanicGuarded(c) \/ ShutdownStep
    BY <2>2 DEF ConnectReturn, PanicGuarded, ShutdownStep, ShutdownEnter, ShutdownReturn, ShutdownSkip
  <2>3. CASE engine' = engine
    BY <2>3
  <2> QED BY <1>5, <2>1, <2>2, <2>3 DEF Call, ConnectJoining, EngineStep, Enter, Refuse, Return,
     PrepareReturn, QueryReturn, TeardownStep, RowsCloseReturn, RowsCloseSkip, StmtCloseReturn,
     StmtCloseSkip, CloseReturn, CloseSkip, CallShutdown, vars
<1>6. CASE ~(engine'[e].broken /\ ~engine[e].broken)
  <2>1. engine[e].broken <=> engine'[e].broken
    BY <1>6, MarksKept
  <2>2. ASSUME NEW c \in Conns, ConnStep(c)
        PROVE  (engine'[e].poisoned => engine'[e].broken) /\ (engine'[e].broken => engine'[e].made)
    <3>1. CASE Poison(c)
      BY <1>2, <2>1, <3>1
    <3>2. CASE PanicInNext(c)
      BY <1>3, <2>1, <3>2
    <3>3. CASE ConnectOpening(c) \/ ConnectFail(c)
      BY <1>4, <2>1, <3>3
    <3>4. CASE \/ (\E o \in Ops : Call(c, o)) \/ ConnectJoining(c) \/ ConnectReturn(c)
               \/ EngineStep(c) \/ TeardownStep(c) \/ PanicGuarded(c) \/ PanicUnguarded(c)
      BY <1>5, <2>1, <3>4
    <3> QED BY <2>2, <3>1, <3>2, <3>3, <3>4 DEF ConnStep, ConnectStep, PanicStep
  <2>3. CASE CloserStep \/ UNCHANGED vars
    BY <1>5, <2>1, <2>3 DEF CloserStep
  <2> QED BY <2>2, <2>3, Steps
<1> QED BY <1>1, <1>6

LEMMA AccountedNext == HandleInv /\ [Next]_vars => PanicAccounted'
<1> SUFFICES ASSUME HandleInv, [Next]_vars, NEW e \in Engines, engine'[e].broken, ~engine'[e].poisoned
             PROVE  \E d \in Callers : at'[d] = e /\ pc'[d] \in {"unwinding", "crashed"}
  BY DEF PanicAccounted
<1>0. /\ Typed /\ ControlTyped /\ ObjectsTyped /\ PanicAccounted /\ Closer \in Callers
      /\ \A c \in Conns : c \in Callers
  BY Facts DEF HandleInv
<1>1. CASE ~engine[e].broken
  <2>1. PICK c \in Callers :
           /\ pc[c] = "inside" /\ at[c] = e
           /\ PanicGuarded(c) \/ PanicInNext(c) \/ PanicUnguarded(c)
    BY <1>1, MarkAppears
  <2>2. CASE PanicInNext(c)
    BY <1>0, <2>1, <2>2 DEF PanicInNext, ObjectsTyped, Modules
  <2>3. CASE PanicGuarded(c) \/ PanicUnguarded(c)
    BY <1>0, <2>1, <2>3 DEF PanicGuarded, PanicUnguarded, ControlTyped
  <2> QED BY <2>1, <2>2, <2>3
<1>2. CASE engine[e].broken
  <2>1. ~engine[e].poisoned
    BY MarksKept
  <2>2. PICK d \in Callers : at[d] = e /\ pc[d] \in {"unwinding", "crashed"}
    BY <1>0, <1>2, <2>1 DEF PanicAccounted
  <2>3. at'[d] = e /\ pc'[d] = pc[d]
    <3>1. ASSUME NEW c \in Conns, ConnStep(c), c # d PROVE at'[d] = e /\ pc'[d] = pc[d]
      BY <1>0, <2>2, <3>1, ConnActsAlone DEF OnlyActs
    <3>2. CASE CloserStep /\ d # Closer
      BY <1>0, <2>2, <3>2, CloserActsAlone DEF OnlyActs
    <3>3. ASSUME ConnStep(d), d \in Conns PROVE FALSE
      <4>1. Poison(d)
        BY <2>2, <3>3 DEF ConnStep, Call, ConnectStep, ConnectOpening, ConnectJoining,
           ConnectReturn, ConnectFail, EngineStep, Enter, Refuse, Return, PrepareReturn, QueryReturn,
           TeardownStep, RowsCloseReturn, RowsCloseSkip, StmtCloseReturn, StmtCloseSkip, CloseReturn,
           CloseSkip, PanicStep, PanicGuarded, PanicInNext, PanicUnguarded, Waits, Inside
      <4> QED BY <1>0, <2>2, <4>1 DEF Poison, ObjectsTyped, Modules
    <3>4. CASE CloserStep /\ d = Closer
      BY <2>2, <3>4 DEF CloserStep, CallShutdown, ShutdownStep, ShutdownEnter, ShutdownReturn,
         ShutdownSkip, PanicUnguarded, Waits, Inside
    <3>5. CASE UNCHANGED vars
      BY <2>2, <3>5 DEF vars, callers
    <3> QED BY <3>1, <3>2, <3>3, <3>4, <3>5, Steps
  <2> QED BY <2>2, <2>3
<1> QED BY <1>1, <1>2

(* Engines whose open failed half-way: a step makes one of them only by    *)
(* failing so, and leaves those there are alone.                           *)
LEMMA OrphanAppears ==
  ASSUME HandleInv, [Next]_vars, NEW e \in Engines
  PROVE  \/ engine'[e].orphan = engine[e].orphan
         \/ ~engine[e].orphan /\ \E c \in Conns : ConnectFail(c) /\ ~connector.init /\ at[c] = e
<1>0. ObjectsTyped /\ OrphansApart /\ \A c \in Conns : c \in Callers
  BY Facts
<1> USE <1>0 DEF ObjectsTyped, Modules, OrphansApart
<1>1. ASSUME NEW c \in Conns, ConnectOpening(c) PROVE engine'[e].orphan = engine[e].orphan
  <2>1. PICK f \in Engines :
           ~engine[f].made /\ engine' = [engine EXCEPT ![f] = [Unmade EXCEPT !.made = TRUE]]
    BY <1>1 DEF ConnectOpening
  <2>2. ~engine[f].orphan
    BY <2>1
  <2>3. [Unmade EXCEPT !.made = TRUE].orphan = FALSE
    BY DEF Unmade
  <2>4. engine[f].orphan = FALSE
    BY <2>2
  <2> QED BY <2>1, <2>3, <2>4
<1>2. ASSUME NEW c \in Conns, ConnectFail(c)
      PROVE  \/ engine'[e].orphan = engine[e].orphan
             \/ ~engine[e].orphan /\ ConnectFail(c) /\ ~connector.init /\ at[c] = e
  <2>1. ConnectFail(c) /\ pc[c] = "inside"
    BY <1>2 DEF ConnectFail, Inside
  <2>2. CASE engine' = engine \/ at[c] # e
    BY <2>1, <2>2 DEF ConnectFail
  <2>3. CASE at[c] = e /\ engine' # engine
    BY <2>1, <2>3 DEF ConnectFail
  <2> QED BY <2>2, <2>3
<1>3. ASSUME NEW c \in Callers, PanicGuarded(c) \/ PanicInNext(c) \/ PanicUnguarded(c)
      PROVE  engine'[e].orphan = engine[e].orphan
  <2>1. CASE PanicGuarded(c) \/ PanicInNext(c)
    BY <2>1 DEF PanicGuarded, PanicInNext
  <2>2. CASE PanicUnguarded(c)
    <3>1. PICK db : engine' = [engine EXCEPT ![at[c]].broken = TRUE, ![at[c]].db = db]
      BY <2>2 DEF PanicUnguarded
    <3> QED BY <3>1
  <2> QED BY <1>3, <2>1, <2>2
<1>4. ASSUME NEW c \in Conns, ConnectReturn(c) \/ Poison(c) PROVE engine'[e].orphan = engine[e].orphan
  BY <1>4 DEF ConnectReturn, Poison
<1>5. CASE ShutdownReturn
  BY <1>5 DEF ShutdownReturn
<1>6. ASSUME NEW c \in Conns,
             (\E o \in Ops : Call(c, o)) \/ ConnectJoining(c) \/ EngineStep(c) \/ TeardownStep(c)
      PROVE  engine' = engine
  BY <1>6 DEF Call, ConnectJoining, EngineStep, Enter, Refuse, Return, PrepareReturn, QueryReturn,
     TeardownStep, RowsCloseReturn, RowsCloseSkip, StmtCloseReturn, StmtCloseSkip,
     CloseReturn, CloseSkip
<1>7. CASE CallShutdown \/ ShutdownEnter \/ ShutdownSkip \/ UNCHANGED vars
  BY <1>7 DEF CallShutdown, ShutdownEnter, ShutdownSkip, vars
<1>8. Closer \in Callers
  BY Facts
<1> QED BY <1>1, <1>2, <1>3, <1>4, <1>5, <1>6, <1>7, <1>8
        DEF Next, ConnectStep, PanicStep, ShutdownStep

(* A caller that is not inside e leaves e's handles and gets no conn to it.*)
LEMMA Elsewhere ==
  ASSUME Typed, NEW c \in Conns, ConnStep(c), NEW e \in Engines, pc[c] = "inside" => at[c] # e,
         NoEngine \notin Engines
  PROVE  /\ cons'[e] = cons[e] /\ results'[e] = results[e] /\ stmts'[e] = stmts[e]
         /\ conn[c].mod # e => conn'[c].mod # e
<1>0. ControlTyped /\ ObjectsTyped /\ HandlesTyped /\ c \in Callers
  BY DEF Typed, Callers
<1> USE <1>0 DEF ObjectsTyped, HandlesTyped, DriverConns
<1>1. CASE (\E o \in Ops : Call(c, o)) \/ ConnectOpening(c) \/ ConnectJoining(c)
  BY <1>1 DEF Call, ConnectOpening, ConnectJoining, handles
<1>2. CASE ConnectReturn(c) \/ ConnectFail(c)
  BY <1>2 DEF ConnectReturn, ConnectFail, Inside, NoConn
<1>3. CASE EngineStep(c)
  BY <1>3 DEF EngineStep, Enter, Refuse, Return, PrepareReturn, QueryReturn, Inside, handles
<1>4. CASE TeardownStep(c)
  BY <1>4 DEF TeardownStep, RowsCloseReturn, RowsCloseSkip, StmtCloseReturn, StmtCloseSkip,
              CloseReturn, CloseSkip, Inside, NoConn, handles
<1>5. CASE Poison(c) \/ PanicStep(c)
  BY <1>5 DEF Poison, PanicStep, PanicGuarded, PanicInNext, PanicUnguarded, handles
<1> QED BY <1>1, <1>2, <1>3, <1>4, <1>5 DEF ConnStep, ConnectStep

LEMMA OrphansNext == HandleInv /\ [Next]_vars => OrphansApart'
<1> SUFFICES ASSUME HandleInv, [Next]_vars, NEW e \in Engines, engine'[e].orphan
             PROVE  /\ engine'[e].made /\ connector'.mod # e
                    /\ \A c \in Conns : conn'[c].mod # e
                    /\ \A c \in Callers : pc'[c] = "inside" => at'[c] # e
  BY DEF OrphansApart
<1>0. /\ Typed /\ ControlTyped /\ ObjectsTyped /\ InsideHoldsLock /\ Referred /\ Opening
      /\ OrphansApart /\ NoEngine \notin Engines /\ Closer \in Callers /\ Closer \notin Conns
      /\ \A c \in Conns : c \in Callers
  BY Facts DEF HandleInv
<1>1. CASE ~engine[e].orphan
  <2>1. PICK c \in Conns : ConnectFail(c) /\ ~connector.init /\ at[c] = e
    BY <1>1, OrphanAppears
  <2>2. Inside(c, "Connect") /\ ConnStep(c) /\ pc[c] = "inside" /\ c \in Callers
    BY <1>0, <2>1 DEF ConnectFail, Inside, ConnStep, ConnectStep
  <2>3. connector' = connector /\ conn' = conn /\ pc'[c] # "inside"
    BY <1>0, <2>1, <2>2 DEF ConnectFail, Leave, Finish, ControlTyped
  <2>4. engine[e].made /\ connector.mod = NoEngine /\ \A d \in Conns : conn[d].mod # e
    BY <1>0, <2>1, <2>2 DEF Referred, Opening
  <2>5. \A d \in Callers : pc'[d] # "inside"
    BY <1>0, <2>2, <2>3, AloneInside, ConnActsAlone DEF OnlyActs
  <2>6. engine'[e].made
    BY <1>0, <2>1, <2>4 DEF ConnectFail, ObjectsTyped, Modules, Unmade
  <2> QED BY <1>0, <2>3, <2>4, <2>5, <2>6
<1>2. CASE engine[e].orphan
  <2>0. /\ engine[e].made /\ connector.mod # e
        /\ \A c \in Conns : conn[c].mod # e
        /\ \A c \in Callers : pc[c] = "inside" => at[c] # e
    BY <1>0, <1>2 DEF OrphansApart
  <2>1. ASSUME NEW c \in Conns, ConnStep(c)
        PROVE  /\ engine'[e].made /\ connector'.mod # e
               /\ \A d \in Conns : conn'[d].mod # e
               /\ \A d \in Callers : pc'[d] = "inside" => at'[d] # e
    <3>0. OnlyActs(c) /\ c \in Callers
      BY <1>0, <2>1, ConnActsAlone
    <3>1. \A d \in Conns : conn'[d].mod # e
      BY <1>0, <2>0, <2>1, <3>0, Elsewhere DEF OnlyActs
    <3>2. engine'[e].made /\ connector'.mod # e /\ (pc'[c] = "inside" => at'[c] # e)
      <4>1. CASE ConnectOpening(c)
        <5>1. PICK f \in Engines :
                 /\ ~engine[f].made
                 /\ engine' = [engine EXCEPT ![f] = [Unmade EXCEPT !.made = TRUE]]
                 /\ EnterEngine(c, f)
          BY <4>1 DEF ConnectOpening
        <5>2. f # e /\ at'[c] = f /\ connector'.mod = NoEngine
          BY <1>0, <2>0, <3>0, <4>1, <5>1 DEF ConnectOpening, EnterEngine, ControlTyped, NoModule
        <5> QED BY <1>0, <2>0, <5>1, <5>2 DEF ObjectsTyped
      <4>2. CASE ConnectJoining(c)
        BY <1>0, <2>0, <3>0, <4>2 DEF ConnectJoining, EnterEngine, ControlTyped
      <4>3. CASE Enter(c)
        BY <1>0, <2>0, <3>0, <4>3 DEF Enter, EnterEngine, ControlTyped
      <4>4. CASE ConnectReturn(c) \/ ConnectFail(c)
        <5>1. pc[c] = "inside" /\ pc'[c] # "inside" /\ at[c] # e
          BY <1>0, <2>0, <3>0, <4>4 DEF ConnectReturn, ConnectFail, Inside, Leave, Finish, ControlTyped
        <5>2. connector' = connector \/ connector'.mod = at[c]
          BY <4>4 DEF ConnectReturn, ConnectFail
        <5>3. engine'[e] = engine[e]
          BY <1>0, <4>4, <5>1 DEF ConnectReturn, ConnectFail, ObjectsTyped
        <5> QED BY <2>0, <5>1, <5>2, <5>3
      <4>5. CASE ~Naming(c)
        BY <1>0, <2>0, <2>1, <4>5, NamesNothing
      <4> QED BY <4>1, <4>2, <4>3, <4>4, <4>5 DEF Naming
    <3> QED BY <2>0, <3>0, <3>1, <3>2 DEF OnlyActs
  <2>2. CASE CloserStep
    <3>1. OnlyActs(Closer) /\ conn' = conn
      BY <1>0, <2>2, CloserActsAlone
    <3>2. /\ engine'[e].made /\ connector'.mod # e
          /\ pc'[Closer] = "inside" => at'[Closer] # e
      BY <1>0, <2>0, <2>2, CloserNamesNothing
    <3> QED BY <2>0, <3>1, <3>2 DEF OnlyActs
  <2>3. CASE UNCHANGED vars
    BY <2>0, <2>3 DEF vars, callers
  <2> QED BY <2>1, <2>2, <2>3, Steps
<1> QED BY <1>1, <1>2

(* The handles alive in e are those the conns refer to, or, if nobody does,*)
(* at most the connection that a failed open left.                         *)
Owned(e) ==
    /\ cons[e] = {c \in Conns : conn[c].mod = e}
    /\ results[e] = {c \in Conns : conn[c].mod = e /\ conn[c].rows # "none"}
    /\ stmts[e] = {c \in Conns : conn[c].mod = e /\ conn[c].stmt}
Left(e) ==
    /\ \A c \in Conns : conn[c].mod # e
    /\ \E c \in Conns : cons[e] \subseteq {c}
    /\ results[e] = {} /\ stmts[e] = {}

LEMMA OwnedOrLeft ==
  HandlesOwned <=> \A e \in Engines : ~engine[e].broken =>
                      IF engine[e].orphan THEN Left(e) ELSE Owned(e)
  BY DEF HandlesOwned, Owned, Left

LEMMA OwnedOrLeftNext ==
  HandlesOwned' <=> \A e \in Engines : ~engine'[e].broken =>
                       IF engine'[e].orphan THEN Left(e)' ELSE Owned(e)'
  BY DEF HandlesOwned, Owned, Left

LEMMA LeftNext ==
  ASSUME HandleInv, [Next]_vars, NEW e \in Engines, engine[e].orphan, Left(e)
  PROVE  Left(e)'
<1>0. /\ Typed /\ OrphansApart /\ NoEngine \notin Engines /\ Closer \notin Conns
      /\ \A c \in Conns : c \in Callers
  BY Facts DEF HandleInv
<1>1. ASSUME NEW c \in Conns, ConnStep(c) PROVE Left(e)'
  <2>1. OnlyActs(c) /\ (pc[c] = "inside" => at[c] # e)
    BY <1>0, <1>1, ConnActsAlone DEF OrphansApart
  <2> QED BY <1>0, <1>1, <2>1, Elsewhere DEF Left, OnlyActs
<1>2. CASE CloserStep
  <2>1. conn' = conn /\ UNCHANGED handles
    BY <1>0, <1>2, CloserActsAlone DEF CloserStep, CallShutdown, ShutdownStep, ShutdownEnter,
       ShutdownReturn, ShutdownSkip, PanicUnguarded
  <2> QED BY <2>1 DEF Left, handles
<1>3. CASE UNCHANGED vars
  BY <1>3 DEF vars, handles, Left
<1> QED BY <1>1, <1>2, <1>3, Steps

(* An open that fails half-way leaves its connection at most.              *)
LEMMA LeftAppears ==
  ASSUME HandleInv, NEW c \in Conns, ConnectFail(c), ~connector.init,
         NEW e \in Engines, at[c] = e, Owned(e)
  PROVE  Left(e)'
<1>1. HandlesTyped /\ \A d \in Conns : conn[d].mod # e
  BY Facts DEF ConnectFail, Opening
<1>2. cons[e] = {} /\ results[e] = {} /\ stmts[e] = {}
  BY <1>1 DEF Owned
<1>3. /\ cons' = cons \/ cons' = [cons EXCEPT ![at[c]] = @ \cup {c}]
      /\ results' = results /\ stmts' = stmts /\ conn' = conn
  BY DEF ConnectFail
<1> QED BY <1>1, <1>2, <1>3 DEF Left, HandlesTyped

LEMMA OwnedKept ==
  ASSUME NEW e \in Engines, Owned(e), UNCHANGED handles,
         \A c \in Conns : \/ conn'[c] = conn[c]
                          \/ conn[c].mod # e /\ conn'[c].mod # e
                          \/ /\ conn'[c].mod = conn[c].mod /\ conn'[c].rows = conn[c].rows
                             /\ conn'[c].stmt = conn[c].stmt
  PROVE  Owned(e)'
  BY DEF Owned, handles

(* An engine that is in order and does not become an orphan stays so.      *)
LEMMA OwnedNext ==
  ASSUME HandleInv, [Next]_vars, NEW e \in Engines, ~engine'[e].broken, ~engine'[e].orphan,
         Owned(e)
  PROVE  Owned(e)'
<1>0. /\ Typed /\ ControlTyped /\ ObjectsTyped /\ HandlesTyped /\ Closer \in Callers
      /\ (\A c \in Conns : c \in Callers /\ Linked(c) /\ ConnReady(c))
      /\ NoEngine \notin Engines /\ Marks
  BY Facts DEF HandleInv
<1>1. ~engine[e].broken /\ ~engine[e].poisoned /\ Owned(e)
  BY <1>0, MarksKept DEF Marks
<1>2. ASSUME NEW c \in Conns, ConnStep(c) PROVE Owned(e)'
  <2>0. /\ OnlyActs(c) /\ Linked(c) /\ ConnReady(c) /\ conn[c] \in DriverConns
        /\ conn[c].mod \in Engines \cup {NoEngine} /\ at[c] \in Engines \cup {NoEngine}
        /\ (conn[c].closed => conn[c].mod # e)
        /\ (conn[c].mod \in Engines /\ engine[conn[c].mod].poisoned => conn[c].mod # e)
        /\ \A d \in Conns \ {c} : conn'[d] = conn[d]
    BY <1>0, <1>1, <1>2, ConnActsAlone DEF ControlTyped, ObjectsTyped, DriverConns, Linked, OnlyActs
  <2>1. CASE (\E o \in Ops : Call(c, o)) \/ ConnectOpening(c) \/ ConnectJoining(c)
             \/ Enter(c) \/ Refuse(c) \/ Return(c) \/ PanicGuarded(c) \/ PanicUnguarded(c)
    <3>1. conn' = conn /\ UNCHANGED handles
      BY <2>1 DEF Call, ConnectOpening, ConnectJoining, Enter, Refuse, Return,
         PanicGuarded, PanicUnguarded
    <3> QED BY <1>1, <3>1, OwnedKept
  <2>2. CASE ConnectReturn(c)
    <3>1. conn[c].mod = NoEngine /\ conn'[c].mod = at[c] /\ conn'[c].rows = "none" /\ ~conn'[c].stmt
      BY <1>0, <2>0, <2>2 DEF ConnectReturn, Inside, Linked, ObjectsTyped, NoConn
    <3>2. /\ cons'[e] = IF at[c] = e THEN cons[e] \cup {c} ELSE cons[e]
          /\ results' = results /\ stmts' = stmts
      BY <1>0, <2>2 DEF ConnectReturn, HandlesTyped
    <3> QED BY <1>0, <1>1, <2>0, <3>1, <3>2 DEF Owned
  <2>3. CASE PrepareReturn(c)
    <3>1. at[c] = conn[c].mod
      BY <2>0, <2>3 DEF PrepareReturn, Inside, Linked
    <3>2. conn'[c].mod = conn[c].mod /\ conn'[c].rows = conn[c].rows /\ conn'[c].stmt
      BY <1>0, <2>0, <2>3 DEF PrepareReturn, ObjectsTyped, DriverConns
    <3>3. /\ stmts'[e] = IF at[c] = e THEN stmts[e] \cup {c} ELSE stmts[e]
          /\ results' = results /\ cons' = cons
      BY <1>0, <2>3 DEF PrepareReturn, HandlesTyped
    <3> QED BY <1>1, <2>0, <3>1, <3>2, <3>3 DEF Owned
  <2>4. CASE QueryReturn(c)
    <3>1. at[c] = conn[c].mod
      BY <2>0, <2>4 DEF QueryReturn, Inside, Linked
    <3>2. /\ conn'[c].mod = conn[c].mod /\ conn'[c].rows # "none"
          /\ \/ conn'[c].stmt = conn[c].stmt /\ stmts' = stmts
             \/ conn'[c].stmt /\ stmts' = [stmts EXCEPT ![at[c]] = @ \cup {c}]
      BY <1>0, <2>0, <2>4 DEF QueryReturn, ObjectsTyped, DriverConns
    <3>3. /\ results'[e] = IF at[c] = e THEN results[e] \cup {c} ELSE results[e]
          /\ cons' = cons
      BY <1>0, <2>4 DEF QueryReturn, HandlesTyped
    <3>4. \/ conn'[c].stmt = conn[c].stmt /\ stmts' = stmts
          \/ conn'[c].stmt /\ stmts'[e] = IF at[c] = e THEN stmts[e] \cup {c} ELSE stmts[e]
      BY <1>0, <3>2 DEF HandlesTyped
    <3> QED BY <1>1, <2>0, <3>1, <3>2, <3>3, <3>4 DEF Owned
  <2>5. CASE RowsCloseReturn(c)
    <3>1. at[c] = conn[c].mod
      BY <2>0, <2>5 DEF RowsCloseReturn, Inside, Linked
    <3>2. conn'[c].mod = conn[c].mod /\ conn'[c].rows = "none" /\ conn'[c].stmt = conn[c].stmt
      BY <1>0, <2>0, <2>5 DEF RowsCloseReturn, ObjectsTyped, DriverConns
    <3>3. /\ results'[e] = IF at[c] = e THEN results[e] \ {c} ELSE results[e]
          /\ stmts' = stmts /\ cons' = cons
      BY <1>0, <2>5 DEF RowsCloseReturn, HandlesTyped
    <3> QED BY <1>1, <2>0, <3>1, <3>2, <3>3 DEF Owned
  <2>6. CASE StmtCloseReturn(c)
    <3>1. at[c] = conn[c].mod
      BY <2>0, <2>6 DEF StmtCloseReturn, Inside, Linked
    <3>2. conn'[c].mod = conn[c].mod /\ conn'[c].rows = conn[c].rows /\ ~conn'[c].stmt
      BY <1>0, <2>0, <2>6 DEF StmtCloseReturn, ObjectsTyped, DriverConns
    <3>3. /\ stmts'[e] = IF at[c] = e THEN stmts[e] \ {c} ELSE stmts[e]
          /\ results' = results /\ cons' = cons
      BY <1>0, <2>6 DEF StmtCloseReturn, HandlesTyped
    <3> QED BY <1>1, <2>0, <3>1, <3>2, <3>3 DEF Owned
  <2>7. CASE CloseReturn(c)
    <3>1. at[c] = conn[c].mod /\ conn[c].rows = "none" /\ ~conn[c].stmt
      BY <2>0, <2>7 DEF CloseReturn, Inside, Linked
    <3>2. conn'[c].mod = NoEngine
      BY <1>0, <2>7 DEF CloseReturn, ObjectsTyped, NoConn
    <3>3. /\ cons'[e] = IF at[c] = e THEN cons[e] \ {c} ELSE cons[e]
          /\ results' = results /\ stmts' = stmts
      BY <1>0, <2>7 DEF CloseReturn, HandlesTyped
    <3> QED BY <1>0, <1>1, <2>0, <3>1, <3>2, <3>3 DEF Owned
  <2>8. CASE RowsCloseSkip(c) \/ StmtCloseSkip(c) \/ CloseSkip(c)
    <3>1. conn[c].closed \/ engine[conn[c].mod].poisoned
      BY <2>8 DEF RowsCloseSkip, StmtCloseSkip, CloseSkip, Waits, MayEnter, badLocked,
         Tested, Guarded
    <3>2. conn[c].mod # e
      BY <2>0, <2>8, <3>1 DEF RowsCloseSkip, StmtCloseSkip, CloseSkip, Waits, ConnReady
    <3>3. conn'[c].mod \in {conn[c].mod, NoEngine} /\ UNCHANGED handles
      BY <1>0, <2>0, <2>8 DEF RowsCloseSkip, StmtCloseSkip, CloseSkip, ObjectsTyped, DriverConns, NoConn
    <3> QED BY <1>0, <1>1, <2>0, <3>2, <3>3, OwnedKept
  <2>9. CASE Poison(c)
    <3>1. conn'[c].mod = conn[c].mod /\ conn'[c].rows = conn[c].rows /\ conn'[c].stmt = conn[c].stmt
      BY <1>0, <2>0, <2>9 DEF Poison, ObjectsTyped, DriverConns
    <3> QED BY <1>1, <2>0, <2>9, <3>1, OwnedKept DEF Poison
  <2>10. CASE PanicInNext(c)
    <3>1. at[c] = conn[c].mod /\ at[c] # e
      BY <1>0, <2>0, <2>10 DEF PanicInNext, Inside, Linked, ObjectsTyped, Modules
    <3>2. conn'[c].mod = conn[c].mod
      BY <1>0, <2>0, <2>10 DEF PanicInNext, ObjectsTyped, DriverConns
    <3> QED BY <1>1, <2>0, <2>10, <3>1, <3>2, OwnedKept DEF PanicInNext
  <2>11. CASE ConnectFail(c)
    <3>1. cons'[e] = cons[e] /\ results' = results /\ stmts' = stmts /\ conn' = conn
      <4>1. CASE engine' = [engine EXCEPT ![at[c]].db = "open", ![at[c]].orphan = TRUE]
        <5>1. at[c] # e
          BY <1>0, <4>1 DEF ObjectsTyped, Modules
        <5> QED BY <1>0, <2>11, <5>1 DEF ConnectFail, HandlesTyped
      <4>2. CASE cons' = cons
        BY <2>11, <4>2 DEF ConnectFail
      <4> QED BY <2>11, <4>1, <4>2 DEF ConnectFail
    <3> QED BY <1>1, <3>1 DEF Owned
  <2> QED BY <1>2, <2>1, <2>2, <2>3, <2>4, <2>5, <2>6, <2>7, <2>8, <2>9, <2>10, <2>11
          DEF ConnStep, ConnectStep, EngineStep, TeardownStep, PanicStep
<1>3. CASE CloserStep
  <2>1. conn' = conn /\ UNCHANGED handles
    BY <1>0, <1>3, CloserActsAlone DEF CloserStep, CallShutdown, ShutdownStep, ShutdownEnter,
       ShutdownReturn, ShutdownSkip, PanicUnguarded
  <2> QED BY <1>1, <2>1, OwnedKept
<1>4. CASE UNCHANGED vars
  BY <1>1, <1>4, OwnedKept DEF vars
<1> QED BY <1>2, <1>3, <1>4, Steps

LEMMA OwnershipNext == HandleInv /\ [Next]_vars => HandlesOwned'
<1> SUFFICES ASSUME HandleInv, [Next]_vars, NEW e \in Engines, ~engine'[e].broken
             PROVE  IF engine'[e].orphan THEN Left(e)' ELSE Owned(e)'
  BY OwnedOrLeftNext
<1>0. engine'[e].orphan \in BOOLEAN /\ engine[e].orphan \in BOOLEAN /\ ~engine[e].broken
  BY TypeNext, Facts, MarksKept DEF HandleInv, Typed, ObjectsTyped, Modules
<1>1. IF engine[e].orphan THEN Left(e) ELSE Owned(e)
  BY <1>0, Facts, OwnedOrLeft
<1>2. CASE engine[e].orphan
  <2>1. engine'[e].orphan
    BY <1>0, <1>2, OrphanAppears
  <2> QED BY <1>1, <1>2, <2>1, LeftNext
<1>3. CASE ~engine[e].orphan /\ engine'[e].orphan
  <2>1. PICK c \in Conns : ConnectFail(c) /\ ~connector.init /\ at[c] = e
    BY <1>3, OrphanAppears
  <2> QED BY <1>1, <1>3, <2>1, LeftAppears
<1>4. CASE ~engine[e].orphan /\ ~engine'[e].orphan
  BY <1>1, <1>4, OwnedNext
<1> QED BY <1>2, <1>3, <1>4

LEMMA HandleNext == HandleInv /\ [Next]_vars => HandleInv'
<1>1. HandleInv /\ [Next]_vars => (\A c \in Conns : Linked(c))'
  BY LinkedNext
<1>2. HandleInv => Typed /\ InsideHoldsLock /\ Roles
  BY DEF HandleInv
<1>3. HandleInv' <=> /\ Typed' /\ InsideHoldsLock' /\ Roles' /\ (\A c \in Conns : Linked(c))'
                     /\ Marks' /\ Referred' /\ Opening' /\ PanicAccounted' /\ OrphansApart'
                     /\ HandlesOwned'
  BY DEF HandleInv
<1> QED BY <1>1, <1>2, <1>3, TypeNext, LockNext, RolesNext, MarksNext, ReferredNext, OpeningNext,
           AccountedNext, OrphansNext, OwnershipNext

(* In an engine that never panicked, every handle alive has its owner and  *)
(* every owner its handle, in whatever order rows, statements, connections *)
(* and the pool are closed and whichever sibling engines panic meanwhile.  *)
THEOREM HandlesHaveOwners == Spec => []HandlesOwned
<1>1. HandleInv => HandlesOwned
  BY DEF HandleInv
<1> QED BY <1>1, HandleInit, HandleNext, PTL DEF Spec

-----------------------------------------------------------------------------
(* Entering an engine that has seen a panic.                               *)
LEMMA BrokenEntry ==
  ASSUME HandleInv, [Next]_vars, NEW c \in Callers, pc[c] = "wait", pc'[c] = "inside",
         engine[at'[c]].broken, op[c] \notin Bridges
  PROVE  \E d \in Callers : at[d] = at'[c] /\ pc[d] \in {"unwinding", "crashed"}
<1>0. /\ Typed /\ ControlTyped /\ ObjectsTyped /\ Roles /\ PanicAccounted /\ Marks /\ Referred
      /\ Closer \in Callers /\ Closer \notin Conns /\ NoEngine \notin Engines
      /\ \A d \in Conns : d \in Callers /\ ConnReady(d)
  BY Facts DEF HandleInv
<1>1. ASSUME at'[c] \in Engines, ~engine[at'[c]].poisoned
      PROVE  \E d \in Callers : at[d] = at'[c] /\ pc[d] \in {"unwinding", "crashed"}
  BY <1>0, <1>1 DEF PanicAccounted
<1>2. CASE c \in Conns /\ ConnStep(c)
  <2>1. Naming(c)
    BY <1>0, <1>2, NamesNothing
  <2>2. CASE ConnectOpening(c)
    <3>1. PICK e \in Engines : ~engine[e].made /\ EnterEngine(c, e)
      BY <2>2 DEF ConnectOpening
    <3>2. at'[c] = e
      BY <1>0, <3>1 DEF EnterEngine, ControlTyped
    <3> QED BY <1>0, <3>1, <3>2 DEF Marks
  <2>3. CASE ConnectJoining(c)
    <3>1. at'[c] = connector.mod /\ connector.init /\ ~ResetNeeded
      BY <1>0, <2>3 DEF ConnectJoining, EnterEngine, ControlTyped
    <3>2. connector.mod \in Engines /\ ~engine[connector.mod].poisoned
      BY <1>0, <3>1 DEF ResetNeeded, Roles, ObjectsTyped, Connectors
    <3> QED BY <1>1, <3>1, <3>2
  <2>4. CASE ConnectReturn(c) \/ ConnectFail(c)
    BY <1>0, <2>4 DEF ConnectReturn, ConnectFail, Leave, Finish, ControlTyped
  <2>5. CASE Enter(c)
    <3>1. at'[c] = conn[c].mod
      BY <1>0, <2>5 DEF Enter, EnterEngine, ControlTyped
    <3>2. op[c] \in AllOps \ {"Connect", "Shutdown"} /\ conn[c].mod \in Engines
      BY <1>0, <1>2, <2>5 DEF Enter, ConnReady, ControlTyped, ObjectsTyped, DriverConns
    <3>3. ~engine[conn[c].mod].poisoned
      BY <2>5, <3>2 DEF Enter, MayEnter, badLocked, AllOps, Tested, Guarded, Bridges, Closings
    <3> QED BY <1>1, <3>1, <3>2, <3>3
  <2> QED BY <2>1, <2>2, <2>3, <2>4, <2>5 DEF Naming
<1>3. CASE c = Closer /\ CloserStep
  <2>1. at'[c] = connector.mod /\ ShutdownNeeded
    BY <1>0, <1>3 DEF CloserStep, CallShutdown, ShutdownStep, ShutdownEnter, ShutdownReturn,
       ShutdownSkip, PanicUnguarded, EnterEngine, Leave, Skip, Finish, ControlTyped
  <2>2. connector.mod \in Engines /\ ~engine[connector.mod].poisoned
    BY <1>0, <2>1 DEF ShutdownNeeded, ObjectsTyped, Connectors
  <2> QED BY <1>1, <2>1, <2>2
<1>4. ASSUME NEW d \in Conns, ConnStep(d), d # c PROVE FALSE
  BY <1>0, <1>4, ConnActsAlone DEF OnlyActs
<1>5. CASE CloserStep /\ c # Closer
  BY <1>0, <1>5, CloserActsAlone DEF OnlyActs
<1>6. CASE UNCHANGED vars
  BY <1>6 DEF vars, callers
<1> QED BY <1>2, <1>3, <1>4, <1>5, <1>6, Steps

(* A checked operation gets into an engine that has seen a panic only      *)
(* while the panic is still on the stack of a goroutine.                   *)
THEOREM BrokenEntriesAreRaced == Spec => BrokenEntryIsRaced
<1>1. HandleInv /\ [Next]_vars
      => [\A c \in Callers :
            pc[c] = "wait" /\ pc'[c] = "inside" /\ engine[at'[c]].broken
            => \/ op[c] \in Bridges
               \/ \E d \in Callers : at[d] = at'[c] /\ pc[d] \in {"unwinding", "crashed"}]_vars
  BY BrokenEntry
<1> QED BY <1>1, HandleInit, HandleNext, PTL DEF Spec, BrokenEntryIsRaced

(* Where only rows.Next may panic, nobody unwinds past its engine.         *)
OnlyNextPanics == PanicOps \subseteq {"Next"} /\ Ops \cap Bridges = {}
Unharmed ==
    OnlyNextPanics => \A c \in Callers : /\ pc[c] \notin {"unwinding", "crashed"}
                                         /\ op[c] \notin Bridges

LEMMA UnharmedNext == Typed /\ Unharmed /\ [Next]_vars => Unharmed'
<1> SUFFICES ASSUME Typed, Unharmed, [Next]_vars, OnlyNextPanics, NEW d \in Callers
             PROVE  pc'[d] \notin {"unwinding", "crashed"} /\ op'[d] \notin Bridges
  BY DEF Unharmed
<1>0. ControlTyped /\ Closer \in Callers /\ pc[d] \notin {"unwinding", "crashed"}
      /\ op[d] \notin Bridges
  BY DEF Typed, Unharmed, Callers
<1>1. ASSUME NEW c \in Callers, c = d, ConnStep(c)
      PROVE  pc'[d] \notin {"unwinding", "crashed"} /\ op'[d] \notin Bridges
  <2>1. CASE \E o \in Ops : Call(c, o)
    BY <1>0, <1>1, <2>1 DEF Call, OnlyNextPanics, ControlTyped
  <2>2. CASE ConnectStep(c)
    BY <1>0, <1>1, <2>2 DEF ConnectStep, ConnectOpening, ConnectJoining, ConnectReturn,
       ConnectFail, EnterEngine, Leave, Finish, ControlTyped, Bridges, NoOp
  <2>3. CASE EngineStep(c)
    BY <1>0, <1>1, <2>3 DEF EngineStep, Enter, Refuse, Return, PrepareReturn, QueryReturn,
       EnterEngine, Leave, Skip, Finish, ControlTyped, Bridges, NoOp
  <2>4. CASE TeardownStep(c)
    BY <1>0, <1>1, <2>4 DEF TeardownStep, RowsCloseReturn, RowsCloseSkip, StmtCloseReturn,
       StmtCloseSkip, CloseReturn, CloseSkip, AfterRowsClose, Leave, Skip, Finish,
       ControlTyped, Bridges, NoOp
  <2>5. CASE Poison(c) \/ PanicGuarded(c) \/ PanicUnguarded(c)
    BY <1>0, <1>1, <2>5 DEF Poison, PanicGuarded, PanicUnguarded, OnlyNextPanics, Guarded
  <2>6. CASE PanicInNext(c)
    BY <1>0, <1>1, <2>6 DEF PanicInNext, Leave, Finish, ControlTyped, Bridges, NoOp
  <2> QED BY <1>1, <2>1, <2>2, <2>3, <2>4, <2>5, <2>6 DEF ConnStep, PanicStep
<1>2. ASSUME NEW c \in Conns, c # d, ConnStep(c)
      PROVE  pc'[d] \notin {"unwinding", "crashed"} /\ op'[d] \notin Bridges
  BY <1>0, <1>2, ConnActsAlone DEF OnlyActs
<1>3. CASE CloserStep /\ d = Closer
  BY <1>0, <1>3 DEF CloserStep, CallShutdown, ShutdownStep, ShutdownEnter, ShutdownReturn,
     ShutdownSkip, PanicUnguarded, OnlyNextPanics, Inside, EnterEngine, Leave, Skip, Finish,
     ControlTyped, Bridges, NoOp
<1>4. CASE CloserStep /\ d # Closer
  BY <1>0, <1>4, CloserActsAlone DEF OnlyActs
<1>5. CASE UNCHANGED vars
  BY <1>0, <1>5 DEF vars, callers
<1>6. \A c \in Conns : c \in Callers
  BY DEF Callers
<1> QED BY <1>1, <1>2, <1>3, <1>4, <1>5, <1>6, Steps

(* With the withConn bridges out of use and no panics but those under the  *)
(* mutex in rows.Next, no operation enters an engine that has panicked.    *)
THEOREM PanicEndsUse ==
  ASSUME OnlyNextPanics
  PROVE  Spec => NoEntryAfterPanic
<1>1. HandleInv /\ Unharmed /\ [Next]_vars
      => [\A c \in Callers :
            pc[c] = "wait" /\ pc'[c] = "inside" => ~engine[at'[c]].broken]_vars
  BY BrokenEntry DEF Unharmed
<1>2. Init => Unharmed
  BY DEF Init, Unharmed, NoOp, Bridges
<1>3. HandleInv => Typed
  BY DEF HandleInv
<1> QED BY <1>1, <1>2, <1>3, HandleInit, HandleNext, UnharmedNext, PTL DEF Spec, NoEntryAfterPanic

-----------------------------------------------------------------------------
(* One engine.  When no guarded call panics and sql.DB.Close waits for     *)
(* Connect, the connector keeps the engine of its usable connections, and  *)
(* the only database that is open.                                         *)
Orderly == PanicOps \cap Guarded = {} /\ ~LateConnect

Unforced == ~connector.poisoned /\ \A c \in Conns : pc[c] # "unwinding"
NoLateConnect == sqlClosed => \A c \in Conns : op[c] = "Connect" => pc[c] = "crashed"
UsableShared ==
    /\ SharedEngine
    /\ pc[Closer] # "done" => \A c \in Conns : Usable(c) => conn[c].mod = connector.mod
OpenKnown ==
    /\ pc[Closer] = "done" => connector.mod = NoEngine
    /\ Inside(Closer, "Shutdown") => at[Closer] = connector.mod
    /\ \A e \in Engines :
          engine[e].db = "open" /\ ~engine[e].broken /\ ~engine[e].orphan => connector.mod = e
    /\ \A c \in Conns : Inside(c, "Connect") /\ ~connector.init => engine[at[c]].db = "none"

OrderlyInv ==
    HandleInv /\ (Orderly => Unforced /\ NoLateConnect /\ UsableShared /\ OpenKnown)

LEMMA OrderlyInit == Init => OrderlyInv
<1>1. Init => Unforced /\ NoLateConnect /\ UsableShared /\ OpenKnown
  BY PoolAssumption DEF Init, Unforced, NoLateConnect, UsableShared, SharedEngine, Usable, OpenKnown,
     sqlClosed, Inside, Callers, NoConn, NoModule, Unmade
<1> QED BY <1>1, HandleInit DEF OrderlyInv

LEMMA UnforcedNext ==
  ASSUME HandleInv, Orderly, Unforced, [Next]_vars
  PROVE  Unforced'
<1>0. /\ Typed /\ ControlTyped /\ Closer \notin Conns /\ \A c \in Conns : c \in Callers
  BY Facts DEF HandleInv
<1>1. ASSUME NEW c \in Conns, ConnStep(c)
      PROVE  pc'[c] # "unwinding" /\ connector' \in {connector, NoModule} \cup
                {[mod |-> at[c], init |-> TRUE, poisoned |-> FALSE]}
  <2>0. ~Poison(c) /\ ~PanicGuarded(c)
    BY <1>0 DEF Unforced, Poison, PanicGuarded, Orderly
  <2>1. CASE (\E o \in Ops : Call(c, o)) \/ ConnectStep(c)
    BY <1>0, <2>1 DEF Call, ConnectStep, ConnectOpening, ConnectJoining, ConnectReturn, ConnectFail,
       EnterEngine, Leave, Finish, ControlTyped
  <2>2. CASE EngineStep(c)
    BY <1>0, <2>2 DEF EngineStep, Enter, Refuse, Return, PrepareReturn, QueryReturn, EnterEngine,
       Leave, Skip, Finish, ControlTyped
  <2>3. CASE TeardownStep(c)
    BY <1>0, <2>3 DEF TeardownStep, RowsCloseReturn, RowsCloseSkip, StmtCloseReturn, StmtCloseSkip,
       CloseReturn, CloseSkip, AfterRowsClose, Leave, Skip, Finish, ControlTyped
  <2>4. CASE PanicInNext(c) \/ PanicUnguarded(c)
    BY <1>0, <2>4 DEF PanicInNext, PanicUnguarded, Leave, Finish, ControlTyped
  <2> QED BY <1>1, <2>0, <2>1, <2>2, <2>3, <2>4 DEF ConnStep, PanicStep
<1>2. ASSUME NEW c \in Conns, ConnStep(c) PROVE Unforced'
  BY <1>0, <1>1, <1>2, ConnActsAlone DEF Unforced, OnlyActs, NoModule
<1>3. CASE CloserStep
  <2>1. connector' \in {connector, NoModule}
    BY <1>3 DEF CloserStep, CallShutdown, ShutdownStep, ShutdownEnter, ShutdownReturn,
       ShutdownSkip, PanicUnguarded
  <2> QED BY <1>0, <1>3, <2>1, CloserActsAlone DEF Unforced, OnlyActs, NoModule
<1>4. CASE UNCHANGED vars
  BY <1>4 DEF vars, callers, Unforced
<1> QED BY <1>2, <1>3, <1>4, Steps

LEMMA NoLateConnectNext ==
  ASSUME HandleInv, Orderly, NoLateConnect, [Next]_vars
  PROVE  NoLateConnect'
<1>0. /\ Typed /\ ControlTyped /\ Closer \notin Conns /\ \A c \in Conns : c \in Callers /\ c # Closer
      /\ Closer \in Callers
  BY Facts DEF HandleInv
<1>1. ASSUME NEW c \in Conns, ConnStep(c) PROVE NoLateConnect'
  <2>1. OnlyActs(c)
    BY <1>0, <1>1, ConnActsAlone
  <2>2. CASE sqlClosed
    <3>1. op'[c] = "Connect" => pc'[c] = "crashed"
      <4>0. op[c] = "Connect" => pc[c] = "crashed"
        BY <2>2 DEF NoLateConnect
      <4>1. CASE \E o \in Ops : Call(c, o)
        BY <1>0, <2>2, <4>1 DEF Call, Callable, ControlTyped
      <4>2. CASE ConnectStep(c)
        BY <4>0, <4>2 DEF ConnectStep, ConnectOpening, ConnectJoining, ConnectReturn, ConnectFail,
           Waits, Inside
      <4>3. CASE EngineStep(c)
        BY <1>0, <4>0, <4>3 DEF EngineStep, Enter, Refuse, Return, PrepareReturn, QueryReturn,
           EnterEngine, Leave, Skip, Finish, ControlTyped, NoOp, Inside
      <4>4. CASE TeardownStep(c)
        BY <1>0, <4>0, <4>4 DEF TeardownStep, RowsCloseReturn, RowsCloseSkip, StmtCloseReturn,
           StmtCloseSkip, CloseReturn, CloseSkip, AfterRowsClose, Leave, Skip, Finish,
           ControlTyped, NoOp
      <4>5. CASE Poison(c) \/ PanicGuarded(c) \/ PanicUnguarded(c)
        BY <1>0, <4>0, <4>5 DEF Poison, PanicGuarded, PanicUnguarded, Finish, ControlTyped, NoOp
      <4>6. CASE PanicInNext(c)
        BY <1>0, <4>6 DEF PanicInNext, Leave, Finish, ControlTyped, NoOp
      <4> QED BY <1>1, <4>1, <4>2, <4>3, <4>4, <4>5, <4>6 DEF ConnStep, PanicStep
    <3> QED BY <1>0, <2>1, <2>2, <3>1 DEF NoLateConnect, OnlyActs
  <2>3. CASE ~sqlClosed
    BY <1>0, <2>1, <2>3 DEF NoLateConnect, OnlyActs, sqlClosed
  <2> QED BY <2>2, <2>3
<1>2. CASE CloserStep
  <2>1. OnlyActs(Closer)
    BY <1>0, <1>2, CloserActsAlone
  <2>2. \A c \in Conns : pc'[c] = pc[c] /\ op'[c] = op[c]
    BY <1>0, <2>1 DEF OnlyActs
  <2>3. CASE CallShutdown
    BY <2>2, <2>3 DEF CallShutdown, Orderly, NoLateConnect
  <2>4. CASE ~CallShutdown
    <3>1. sqlClosed
      BY <1>2, <2>4 DEF CloserStep, ShutdownStep, ShutdownEnter, ShutdownReturn, ShutdownSkip,
         PanicUnguarded, Waits, Inside, sqlClosed
    <3> QED BY <2>2, <3>1 DEF NoLateConnect
  <2> QED BY <2>3, <2>4
<1>3. CASE UNCHANGED vars
  BY <1>3 DEF vars, callers, NoLateConnect, sqlClosed
<1> QED BY <1>1, <1>2, <1>3, Steps

(* A conn becomes usable by Connect and is lost for good by a panic.       *)
LEMMA UsableBefore ==
  ASSUME HandleInv, [Next]_vars, NEW d \in Conns, Usable(d)', ~ConnectReturn(d)
  PROVE  Usable(d) /\ conn'[d].mod = conn[d].mod
<1>0. /\ Typed /\ ControlTyped /\ ObjectsTyped /\ Closer \notin Conns
      /\ \A c \in Conns : c \in Callers
  BY Facts DEF HandleInv
<1>1. \/ conn'[d].mod = conn[d].mod /\ conn'[d].closed = conn[d].closed
      \/ conn'[d].mod = NoEngine \/ conn'[d].closed
  <2>1. ASSUME NEW c \in Conns, ConnStep(c), c # d PROVE conn'[d] = conn[d]
    BY <1>0, <2>1, ConnActsAlone DEF OnlyActs
  <2>2. CASE CloserStep \/ UNCHANGED vars
    BY <1>0, <2>2, CloserActsAlone DEF vars
  <2>3. CASE ConnStep(d)
    <3> USE <1>0 DEF ObjectsTyped, DriverConns
    <3>1. CASE (\E o \in Ops : Call(d, o)) \/ ConnectStep(d)
      BY <3>1 DEF Call, ConnectStep, ConnectOpening, ConnectJoining, ConnectFail
    <3>2. CASE EngineStep(d)
      BY <3>2 DEF EngineStep, Enter, Refuse, Return, PrepareReturn, QueryReturn
    <3>3. CASE TeardownStep(d)
      BY <3>3 DEF TeardownStep, RowsCloseReturn, RowsCloseSkip, StmtCloseReturn,
         StmtCloseSkip, CloseReturn, CloseSkip, NoConn
    <3>4. CASE Poison(d) \/ PanicStep(d)
      BY <3>4 DEF Poison, PanicStep, PanicGuarded, PanicInNext, PanicUnguarded
    <3> QED BY <2>3, <3>1, <3>2, <3>3, <3>4 DEF ConnStep
  <2> QED BY <2>1, <2>2, <2>3, Steps
<1>2. conn[d].mod \in Engines \cup {NoEngine}
  BY <1>0 DEF ObjectsTyped, DriverConns
<1> QED BY <1>1, <1>2, MarksKept DEF Usable

(* The connector changes when Connect gives up an engine or returns, and   *)
(* when sql.DB.Close does.                                                 *)
LEMMA ConnectorKept ==
  ASSUME HandleInv, Unforced, NEW c \in Conns, ConnStep(c), ~ConnectOpening(c), ~ConnectReturn(c)
  PROVE  connector' = connector
<1>1. ~Poison(c)
  BY DEF Unforced, Poison
<1> QED BY <1>1 DEF ConnStep, Call, ConnectStep, ConnectJoining, ConnectFail, EngineStep, Enter,
   Refuse, Return, PrepareReturn, QueryReturn, TeardownStep, RowsCloseReturn, RowsCloseSkip,
   StmtCloseReturn, StmtCloseSkip, CloseReturn, CloseSkip, PanicStep, PanicGuarded, PanicInNext,
   PanicUnguarded

LEMMA UsableSharedNext ==
  ASSUME HandleInv, Orderly, Unforced, NoLateConnect, UsableShared, [Next]_vars
  PROVE  UsableShared'
<1>0. /\ Typed /\ ControlTyped /\ ObjectsTyped /\ Marks /\ Referred /\ Opening /\ Closer \notin Conns
      /\ Closer \in Callers /\ \A c \in Conns : c \in Callers /\ c # Closer
  BY Facts DEF HandleInv
<1>1. ASSUME connector'.mod = connector.mod, pc[Closer] = "done" => pc'[Closer] = "done",
             \A d \in Conns : ~ConnectReturn(d)
      PROVE  UsableShared'
  <2>1. \A d \in Conns : Usable(d)' => Usable(d) /\ conn'[d].mod = conn[d].mod
    BY <1>1, UsableBefore
  <2> QED BY <1>1, <2>1 DEF UsableShared, SharedEngine
<1>2. ASSUME NEW c \in Conns, ConnectOpening(c) PROVE UsableShared'
  <2>1. pc[Closer] = "idle"
    BY <1>2 DEF ConnectOpening, Waits, NoLateConnect, sqlClosed
  <2>2. ASSUME NEW d \in Conns PROVE ~Usable(d)
    <3>1. CASE Usable(d)
      <4>1. conn[d].mod = connector.mod /\ connector.mod # NoEngine
        BY <2>1, <3>1 DEF UsableShared, Usable
      <4>2. connector.init /\ engine[connector.mod].poisoned
        BY <1>0, <1>2, <4>1 DEF ConnectOpening, ResetNeeded, Unforced, Referred
      <4> QED BY <3>1, <4>1, <4>2 DEF Usable
    <3> QED BY <3>1
  <2>3. ASSUME NEW d \in Conns PROVE ~ConnectReturn(d)
    <3>1. mu = Nobody
      BY <1>2 DEF ConnectOpening, EnterEngine
    <3>2. pc[d] # "inside"
      BY <1>0, <3>1, Facts, PoolAssumption DEF InsideHoldsLock, Callers
    <3> QED BY <3>2 DEF ConnectReturn, Inside
  <2>4. \A d \in Conns : ~Usable(d)'
    BY <2>2, <2>3, UsableBefore
  <2> QED BY <2>4 DEF UsableShared, SharedEngine
<1>3. ASSUME NEW c \in Conns, ConnectReturn(c) PROVE UsableShared'
  <2>0. pc[c] = "inside" /\ op[c] = "Connect" /\ OnlyActs(c)
    BY <1>0, <1>3, ConnActsAlone DEF ConnectReturn, Inside, ConnStep, ConnectStep
  <2>1. pc[Closer] = "idle" /\ pc'[Closer] = pc[Closer]
    BY <1>0, <2>0 DEF NoLateConnect, sqlClosed, OnlyActs
  <2>2. conn'[c].mod = connector'.mod
    BY <1>0, <1>3 DEF ConnectReturn, ObjectsTyped, NoConn, Opening, Inside
  <2>3. ASSUME NEW d \in Conns \ {c}, Usable(d)' PROVE conn'[d].mod = connector'.mod
    <3>1. ~ConnectReturn(d)
      <4>1. pc[d] # "inside"
        BY <1>0, <2>0, Facts DEF InsideHoldsLock
      <4> QED BY <4>1 DEF ConnectReturn, Inside
    <3>2. conn[d].mod = connector.mod /\ conn'[d].mod = conn[d].mod /\ conn[d].mod # NoEngine
      BY <2>1, <2>3, <3>1, UsableBefore DEF UsableShared, Usable
    <3>3. connector' = connector
      BY <1>0, <1>3, <3>2 DEF ConnectReturn, Referred
    <3> QED BY <3>2, <3>3
  <2> QED BY <2>1, <2>2, <2>3 DEF UsableShared, SharedEngine
<1>4. ASSUME NEW c \in Conns, ConnStep(c), ~ConnectOpening(c), ~ConnectReturn(c) PROVE UsableShared'
  <2>1. connector' = connector
    BY <1>4, ConnectorKept
  <2>2. pc'[Closer] = pc[Closer]
    BY <1>0, <1>4, ConnActsAlone DEF OnlyActs
  <2>3. ASSUME NEW d \in Conns PROVE ~ConnectReturn(d)
    <3>1. CASE d # c /\ ConnectReturn(d)
      <4>1. pc'[d] # pc[d]
        BY <1>0, <3>1 DEF ConnectReturn, Inside, Leave, Finish, ControlTyped
      <4> QED BY <1>0, <1>4, <3>1, <4>1, ConnActsAlone DEF OnlyActs
    <3> QED BY <1>4, <3>1
  <2> QED BY <1>1, <2>1, <2>2, <2>3
<1>5. CASE CloserStep
  <2>1. ASSUME NEW d \in Conns PROVE ~ConnectReturn(d)
    <3>1. CASE ConnectReturn(d)
      <4>1. pc'[d] # pc[d]
        BY <1>0, <3>1 DEF ConnectReturn, Inside, Leave, Finish, ControlTyped
      <4> QED BY <1>0, <1>5, <4>1, CloserActsAlone DEF OnlyActs
    <3> QED BY <3>1
  <2>2. \A d \in Conns : Usable(d)' => Usable(d) /\ conn'[d].mod = conn[d].mod
    BY <2>1, UsableBefore
  <2>3. pc'[Closer] = "done" \/ connector' = connector
    BY <1>0, <1>5 DEF CloserStep, CallShutdown, ShutdownStep, ShutdownEnter, ShutdownReturn,
       ShutdownSkip, PanicUnguarded, Leave, Skip, Finish, ControlTyped
  <2>4. pc[Closer] # "done"
    BY <1>5 DEF CloserStep, CallShutdown, ShutdownStep, ShutdownEnter, ShutdownReturn,
       ShutdownSkip, PanicUnguarded, Waits, Inside
  <2> QED BY <2>2, <2>3, <2>4 DEF UsableShared, SharedEngine
<1>6. CASE UNCHANGED vars
  <2>1. \A d \in Conns : Usable(d)' <=> Usable(d)
    BY <1>6 DEF vars, Usable
  <2> QED BY <1>6, <2>1 DEF vars, callers, UsableShared, SharedEngine
<1> QED BY <1>2, <1>3, <1>4, <1>5, <1>6, Steps

(* A database opens when Connect returns, and closes with the pool.        *)
LEMMA OpenBefore ==
  ASSUME HandleInv, [Next]_vars, NEW e \in Engines, engine'[e].db = "open", ~engine'[e].broken,
         ~engine'[e].orphan
  PROVE  /\ ~engine[e].broken /\ ~engine[e].orphan
         /\ \/ engine[e].db = "open" /\ ~(ShutdownReturn /\ e = at[Closer])
            \/ \E c \in Conns : ConnectReturn(c) /\ ~connector.init /\ e = at[c]
<1>0. ObjectsTyped /\ Closer \in Callers /\ (\A c \in Conns : c \in Callers) /\ ~engine[e].broken
  BY Facts, MarksKept
<1>00. ~engine[e].orphan
  BY OrphanAppears
<1> USE <1>0 DEF ObjectsTyped, Modules
<1>1. ShutdownReturn => e # at[Closer]
  BY DEF ShutdownReturn
<1>2. ASSUME NEW c \in Conns, ConnStep(c)
      PROVE  \/ engine[e].db = "open"
             \/ ConnectReturn(c) /\ ~connector.init /\ e = at[c]
  <2>1. CASE ConnectReturn(c)
    BY <2>1 DEF ConnectReturn
  <2>2. CASE ConnectOpening(c) \/ ConnectFail(c)
    BY <2>2 DEF ConnectOpening, ConnectFail, Unmade
  <2>3. CASE PanicUnguarded(c)
    <3>1. PICK db : engine' = [engine EXCEPT ![at[c]].broken = TRUE, ![at[c]].db = db]
      BY <2>3 DEF PanicUnguarded
    <3> QED BY <3>1
  <2>4. CASE Poison(c) \/ PanicGuarded(c)
    BY <2>4 DEF Poison, PanicGuarded
  <2>5. CASE PanicInNext(c)
    BY <2>5 DEF PanicInNext
  <2>6. CASE (\E o \in Ops : Call(c, o)) \/ ConnectJoining(c) \/ EngineStep(c) \/ TeardownStep(c)
    BY <2>6 DEF Call, ConnectJoining, EngineStep, Enter, Refuse, Return, PrepareReturn, QueryReturn,
       TeardownStep, RowsCloseReturn, RowsCloseSkip, StmtCloseReturn, StmtCloseSkip,
       CloseReturn, CloseSkip
  <2> QED BY <1>2, <2>1, <2>2, <2>3, <2>4, <2>5, <2>6 DEF ConnStep, ConnectStep, PanicStep
<1>3. CASE CloserStep
  <2>1. CASE PanicUnguarded(Closer)
    <3>1. PICK db : engine' = [engine EXCEPT ![at[Closer]].broken = TRUE, ![at[Closer]].db = db]
      BY <2>1 DEF PanicUnguarded
    <3> QED BY <3>1
  <2>2. CASE ShutdownReturn
    BY <2>2 DEF ShutdownReturn
  <2>3. CASE CallShutdown \/ ShutdownEnter \/ ShutdownSkip
    BY <1>1, <2>3 DEF CallShutdown, ShutdownEnter, ShutdownSkip
  <2> QED BY <1>3, <2>1, <2>2, <2>3 DEF CloserStep, ShutdownStep
<1>4. CASE UNCHANGED vars
  BY <1>1, <1>4 DEF vars
<1> QED BY <1>00, <1>1, <1>2, <1>3, <1>4, Steps

LEMMA OpenKnownNext ==
  ASSUME HandleInv, Orderly, Unforced, NoLateConnect, OpenKnown, [Next]_vars
  PROVE  OpenKnown'
<1>0. /\ Typed /\ ControlTyped /\ ObjectsTyped /\ InsideHoldsLock /\ Marks /\ Referred /\ Opening
      /\ Closer \notin Conns /\ Closer \in Callers /\ NoEngine \notin Engines /\ Roles
      /\ \A c \in Conns : c \in Callers /\ c # Closer
  BY Facts DEF HandleInv
<1>1. ASSUME NEW c \in Conns, ConnStep(c)
      PROVE  /\ pc'[Closer] = pc[Closer] /\ op'[Closer] = op[Closer] /\ at'[Closer] = at[Closer]
             /\ \A d \in Conns \ {c} : pc'[d] = pc[d] /\ op'[d] = op[d] /\ at'[d] = at[d]
  BY <1>0, <1>1, ConnActsAlone DEF OnlyActs
<1>2. ASSUME NEW c \in Conns, ConnectOpening(c) PROVE OpenKnown'
  <2>0. ConnStep(c)
    BY <1>2 DEF ConnStep, ConnectStep
  <2>1. pc[Closer] = "idle" /\ pc'[Closer] = "idle"
    BY <1>1, <1>2, <2>0 DEF ConnectOpening, Waits, NoLateConnect, sqlClosed
  <2>2. PICK e \in Engines :
           /\ engine' = [engine EXCEPT ![e] = [Unmade EXCEPT !.made = TRUE]]
           /\ EnterEngine(c, e)
    BY <1>2 DEF ConnectOpening
  <2>3. connector' = NoModule /\ at'[c] = e /\ engine'[e].db = "none"
    BY <1>0, <1>2, <2>2 DEF ConnectOpening, EnterEngine, ControlTyped, ObjectsTyped, Unmade
  <2>4. ASSUME NEW f \in Engines, engine'[f].db = "open", ~engine'[f].broken, ~engine'[f].orphan
        PROVE  FALSE
    <3>1. ~engine[f].broken /\ ~engine[f].orphan /\ engine[f].db = "open"
      <4>1. ASSUME NEW d \in Conns PROVE ~ConnectReturn(d)
        BY <1>0, <1>2, PoolAssumption DEF ConnectOpening, EnterEngine, ConnectReturn, Inside,
           InsideHoldsLock, Callers
      <4> QED BY <2>4, <4>1, OpenBefore
    <3>2. connector.mod = f
      BY <3>1 DEF OpenKnown
    <3> QED BY <1>0, <1>2, <3>1, <3>2 DEF ConnectOpening, ResetNeeded, Unforced, Referred, Marks
  <2>5. \A d \in Conns \ {c} : pc'[d] # "inside"
    BY <1>0, <1>1, <1>2, <2>0, AloneInside DEF ConnectOpening, EnterEngine
  <2> QED BY <2>1, <2>3, <2>4, <2>5 DEF OpenKnown, Inside
<1>3. ASSUME NEW c \in Conns, ConnectReturn(c) PROVE OpenKnown'
  <2>0. ConnStep(c) /\ Inside(c, "Connect") /\ pc[c] = "inside"
    BY <1>3 DEF ConnStep, ConnectStep, ConnectReturn, Inside
  <2>1. pc[Closer] = "idle" /\ pc'[Closer] = "idle"
    BY <1>1, <2>0 DEF Inside, NoLateConnect, sqlClosed
  <2>2. \A d \in Conns : pc'[d] # "inside"
    BY <1>0, <1>1, <1>3, <2>0, AloneInside DEF ConnectReturn, Leave, Finish, ControlTyped
  <2>3. connector' = connector \/ (connector.mod = NoEngine /\ connector'.mod = at[c])
    BY <1>0, <1>3 DEF ConnectReturn, Referred
  <2>4. ASSUME NEW f \in Engines, engine'[f].db = "open", ~engine'[f].broken, ~engine'[f].orphan
        PROVE  connector'.mod = f
    <3>1. CASE engine[f].db = "open" /\ ~engine[f].broken /\ ~engine[f].orphan
      BY <1>0, <2>3, <3>1 DEF OpenKnown
    <3>2. CASE \E d \in Conns : ConnectReturn(d) /\ ~connector.init /\ f = at[d]
      <4>1. PICK d \in Conns : ConnectReturn(d) /\ ~connector.init /\ f = at[d]
        BY <3>2
      <4>2. d = c
        BY <1>0, <2>0, <4>1 DEF ConnectReturn, Inside, InsideHoldsLock
      <4> QED BY <1>3, <4>1, <4>2 DEF ConnectReturn
    <3> QED BY <2>4, <3>1, <3>2, OpenBefore
  <2> QED BY <2>1, <2>2, <2>4 DEF OpenKnown, Inside
<1>4. ASSUME NEW c \in Conns, ConnStep(c), ~ConnectOpening(c), ~ConnectReturn(c) PROVE OpenKnown'
  <2>1. connector' = connector
    BY <1>4, ConnectorKept
  <2>2. ASSUME NEW f \in Engines, engine'[f].db = "open", ~engine'[f].broken, ~engine'[f].orphan
        PROVE  connector'.mod = f
    <3>1. ASSUME NEW d \in Conns PROVE ~ConnectReturn(d)
      <4>1. CASE d # c /\ ConnectReturn(d)
        <5>1. pc'[d] # pc[d]
          BY <1>0, <4>1 DEF ConnectReturn, Inside, Leave, Finish, ControlTyped
        <5> QED BY <1>1, <1>4, <4>1, <5>1
      <4> QED BY <1>4, <4>1
    <3> QED BY <2>1, <2>2, <3>1, OpenBefore DEF OpenKnown
  <2>3. ASSUME NEW d \in Conns, Inside(d, "Connect")', ~connector'.init
        PROVE  engine'[at'[d]].db = "none"
    <3>1. CASE d # c
      <4>1. Inside(d, "Connect") /\ at'[d] = at[d]
        BY <1>1, <1>4, <2>3, <3>1 DEF Inside
      <4>2. engine' = engine
        BY <1>0, <1>4, <3>1, <4>1, Blocked DEF Inside
      <4> QED BY <2>1, <2>3, <4>1, <4>2 DEF OpenKnown
    <3>2. CASE d = c
      <4>1. Naming(c)
        BY <1>0, <1>4, <2>3, <3>2, NamesNothing DEF Inside
      <4>2. CASE ConnectJoining(c)
        BY <2>1, <2>3, <4>2 DEF ConnectJoining
      <4>3. CASE ConnectFail(c)
        BY <1>0, <2>3, <3>2, <4>3 DEF ConnectFail, Leave, Finish, Inside, ControlTyped
      <4>4. CASE Enter(c)
        BY <1>0, <2>3, <3>2, <4>4 DEF Enter, EnterEngine, Inside
      <4> QED BY <1>4, <4>1, <4>2, <4>3, <4>4 DEF Naming
    <3> QED BY <3>1, <3>2
  <2> QED BY <1>1, <1>4, <2>1, <2>2, <2>3 DEF OpenKnown, Inside
<1>5. CASE CloserStep
  <2>0. OnlyActs(Closer)
    BY <1>0, <1>5, CloserActsAlone
  <2>1. ASSUME NEW d \in Conns PROVE ~ConnectReturn(d)
    <3>1. CASE ConnectReturn(d)
      <4>1. pc'[d] # pc[d]
        BY <1>0, <3>1 DEF ConnectReturn, Inside, Leave, Finish, ControlTyped
      <4> QED BY <1>0, <2>0, <4>1 DEF OnlyActs
    <3> QED BY <3>1
  <2>2. pc'[Closer] = "done" => connector'.mod = NoEngine
    BY <1>0, <1>5 DEF CloserStep, CallShutdown, ShutdownStep, ShutdownEnter, ShutdownReturn,
       ShutdownSkip, PanicUnguarded, EnterEngine, Leave, Skip, Finish, ControlTyped, NoModule
  <2>3. Inside(Closer, "Shutdown")' => at'[Closer] = connector'.mod
    BY <1>0, <1>5, CloserNamesNothing DEF Inside
  <2>4. ASSUME NEW f \in Engines, engine'[f].db = "open", ~engine'[f].broken, ~engine'[f].orphan
        PROVE  connector'.mod = f
    <3>1. /\ ~engine[f].broken /\ engine[f].db = "open"
          /\ ~(ShutdownReturn /\ f = at[Closer]) /\ connector.mod = f
      BY <2>1, <2>4, OpenBefore DEF OpenKnown
    <3>2. ~ShutdownReturn
      BY <3>1 DEF ShutdownReturn, OpenKnown
    <3>3. ~ShutdownSkip
      BY <1>0, <3>1 DEF ShutdownSkip, ShutdownNeeded, Marks
    <3>4. connector' = connector
      BY <1>5, <3>2, <3>3 DEF CloserStep, CallShutdown, ShutdownStep, ShutdownEnter, PanicUnguarded
    <3> QED BY <3>1, <3>4
  <2>5. ASSUME NEW d \in Conns, Inside(d, "Connect")', ~connector'.init
        PROVE  engine'[at'[d]].db = "none"
    <3>1. Inside(d, "Connect") /\ at'[d] = at[d]
      BY <1>0, <2>0, <2>5 DEF Inside, OnlyActs
    <3>2. connector' = connector /\ engine' = engine
      BY <1>0, <1>5, <3>1, CloserBlocked DEF Inside
    <3> QED BY <2>5, <3>1, <3>2 DEF OpenKnown
  <2> QED BY <2>2, <2>3, <2>4, <2>5 DEF OpenKnown
<1>6. CASE UNCHANGED vars
  BY <1>6 DEF vars, callers, OpenKnown, Inside
<1> QED BY <1>2, <1>3, <1>4, <1>5, <1>6, Steps

LEMMA OrderlyNext == OrderlyInv /\ [Next]_vars => OrderlyInv'
<1> SUFFICES ASSUME OrderlyInv, [Next]_vars PROVE OrderlyInv'
  OBVIOUS
<1>1. HandleInv /\ HandleInv'
  BY HandleNext DEF OrderlyInv
<1>2. ASSUME Orderly PROVE Unforced' /\ NoLateConnect' /\ UsableShared' /\ OpenKnown'
  BY <1>1, <1>2, UnforcedNext, NoLateConnectNext, UsableSharedNext, OpenKnownNext DEF OrderlyInv
<1> QED BY <1>1, <1>2 DEF OrderlyInv, Orderly

(* All usable connections share one engine, provided that no guarded call  *)
(* panics (two panics at once make the connector forget a healthy engine)  *)
(* and that no Connect is under way when the pool is closed.               *)
THEOREM OneDatabase ==
  ASSUME Orderly
  PROVE  Spec => []SharedEngine
<1>1. OrderlyInv => SharedEngine
  BY DEF OrderlyInv, UsableShared
<1> QED BY <1>1, OrderlyInit, OrderlyNext, PTL DEF Spec

(* Under the same conditions a closed pool whose slots are empty has no    *)
(* database open, except in engines that panicked and in those whose open  *)
(* failed half-way.                                                        *)
THEOREM ClosedPoolIsEmpty ==
  ASSUME Orderly
  PROVE  Spec => []ClosedPoolHoldsNothing
<1>1. ASSUME OrderlyInv PROVE ClosedPoolHoldsNothing
  <2> SUFFICES ASSUME pc[Closer] = "done", \A c \in Conns : conn[c].mod = NoEngine,
                      NEW e \in Engines, HoldsFile(e), ~engine[e].broken, ~engine[e].orphan
               PROVE  FALSE
    BY DEF ClosedPoolHoldsNothing
  <2>1. HandlesOwned /\ OpenKnown /\ NoEngine \notin Engines
    BY <1>1, PoolAssumption DEF OrderlyInv, HandleInv
  <2>2. cons[e] = {c \in Conns : conn[c].mod = e}
    BY <2>1 DEF HandlesOwned
  <2>3. engine[e].db = "open"
    BY <2>1, <2>2 DEF HoldsFile
  <2> QED BY <2>1, <2>3 DEF OpenKnown
<1>2. OrderlyInv => ClosedPoolHoldsNothing
  BY <1>1
<1> QED BY <1>2, OrderlyInit, OrderlyNext, PTL DEF Spec
=============================================================================
