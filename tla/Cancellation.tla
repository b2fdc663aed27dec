---------------------------- MODULE Cancellation ----------------------------
(***************************************************************************)
(* Cancelling a statement that is running (converge/duckdb/interrupt.go    *)
(* and the entry points of driver.go that arm it).  A call queues for the  *)
(* engine's mutex, arms a watcher goroutine and runs its statements; when  *)
(* the call's context ends the watcher writes the connection's interrupted *)
(* byte in linear memory, again and again, until the call disarms it.      *)
(*                                                                         *)
(* The engine is external: InitialCleanup clears the byte when a statement *)
(* starts, and a running statement polls it.  Memory may grow under the    *)
(* watcher: a write meanwhile may land in the old memory, or panic.        *)
(***************************************************************************)
EXTENDS Integers

CONSTANTS
    Conns,      \* connections that share one engine, each used by one goroutine
    NoConn,     \* nobody holds the mutex
    MaxBatch,   \* statements in one text
    MaxGrowth   \* times memory grows during one call

ASSUME CancelAssumption == /\ NoConn \notin Conns
                           /\ MaxBatch \in Nat \ {0}
                           /\ MaxGrowth \in Nat

VARIABLES
    mu,        \* the engine's mutex
    pc,        \* per connection: its goroutine's place in a call
    call,      \* the call it is in, or the last one
    watcher,   \* the goroutine armInterrupt started for that call
    flag,      \* ClientContext.interrupted of the connection
    resolved,  \* conn.intr # 0: resolveInterruptFlag trusted the address
    growing,   \* memory is being replaced by a larger one at this moment
    grown      \* how often it has been during the call

vars == <<mu, pc, call, watcher, flag, resolved, growing, grown>>

PCs == {"new", "idle", "queued", "setup", "running", "undoing", "rollback",
        "leaving", "joining", "closed"}

(* "waiting" for the end of the context, about to write ("poking"), or      *)
(* between two ticks; "gone" when its done channel is closed.  "dead" is   *)
(* gone too, by a recovered panic.                                         *)
Watchers == {"none", "waiting", "poking", "ticking", "gone", "dead"}

Results == {"ok",      \* no error
            "ctx",     \* the context's error alone
            "engine",  \* the engine's error alone
            "both"}    \* both, joined by ctxErr

(* Ping reports without ctxErr; "begin" is BeginTx and "control" simpleExec, *)
(* which arm nothing.                                                      *)
Calls == [kind    : {"statement", "ping", "begin", "control"},
          ctx     : {"none", "live", "ended"},   \* "none": it has no Done channel
          left    : 0 .. MaxBatch,                \* statements still to run
          runaway : BOOLEAN,                      \* the present one never ends by itself
          ran     : BOOLEAN,                      \* the engine has seen one of them
          cut     : BOOLEAN,                      \* one was aborted by the flag
          overdue : BOOLEAN,                      \* history: ctx ended before the mutex was had
          result  : Results]

TypeOK ==
    /\ mu \in Conns \cup {NoConn}
    /\ pc \in [Conns -> PCs]
    /\ call \in [Conns -> Calls]
    /\ watcher \in [Conns -> Watchers]
    /\ flag \in [Conns -> BOOLEAN]
    /\ resolved \in [Conns -> BOOLEAN]
    /\ growing \in [Conns -> BOOLEAN]
    /\ grown \in [Conns -> 0 .. MaxGrowth]

NoCall == [kind |-> "control", ctx |-> "none", left |-> 0, runaway |-> FALSE,
           ran |-> FALSE, cut |-> FALSE, overdue |-> FALSE, result |-> "ok"]

Init ==
    /\ mu = NoConn
    /\ pc = [c \in Conns |-> "new"]
    /\ call = [c \in Conns |-> NoCall]
    /\ watcher = [c \in Conns |-> "none"]
    /\ flag = [c \in Conns |-> FALSE]
    /\ resolved = [c \in Conns |-> FALSE]
    /\ growing = [c \in Conns |-> FALSE]
    /\ grown = [c \in Conns |-> 0]

-----------------------------------------------------------------------------
Goto(c, from, to) == pc[c] = from /\ pc' = [pc EXCEPT ![c] = to]

(* Mutant of Probe: the byte that the probe set is not put back.           *)
ProbeLeaves(c) ==
    \E trusted \in BOOLEAN :
        /\ resolved' = [resolved EXCEPT ![c] = trusted]
        /\ flag' = [flag EXCEPT ![c] = TRUE]

(* resolveInterruptFlag, on an idle engine: the export flips the byte the  *)
(* driver computed, which is put back; or another one, which stays; or     *)
(* there is nothing to compute and no probe.                               *)
Probe(c) ==
    \/ resolved' = [resolved EXCEPT ![c] = TRUE] /\ UNCHANGED flag
    \/ resolved' = [resolved EXCEPT ![c] = FALSE] /\ flag' = [flag EXCEPT ![c] = TRUE]
    \/ resolved' = [resolved EXCEPT ![c] = FALSE] /\ UNCHANGED flag

Connect(c) ==
    /\ mu = NoConn
    /\ Goto(c, "new", "idle")
    /\ Probe(c)
    /\ UNCHANGED <<mu, call, watcher, growing, grown>>

(* A call begins with a context that is live, or that can never end.  One  *)
(* that has already ended is refused here, before the mutex.               *)
Begin(c, kind, ctx, n) ==
    /\ kind = "control" => ctx = "none"   \* simpleExec is given no context
    /\ kind # "statement" => n = 1
    /\ call' = [call EXCEPT ![c] = [NoCall EXCEPT !.kind = kind, !.ctx = ctx, !.left = n]]
    /\ Goto(c, "idle", "queued")
    /\ UNCHANGED <<mu, watcher, flag, resolved, growing, grown>>

EndContext(c) ==
    /\ pc[c] \notin {"new", "idle", "closed"}
    /\ call[c].ctx = "live"
    /\ call' = [call EXCEPT ![c].ctx = "ended", ![c].overdue = (pc[c] = "queued")]
    /\ UNCHANGED <<mu, pc, watcher, flag, resolved, growing, grown>>

(* The second look at the context, under the mutex: a call that waited     *)
(* past its end does not reach the engine.                                 *)
Refuse(c) ==
    /\ mu = NoConn
    /\ call[c].ctx = "ended"
    /\ Goto(c, "queued", "idle")
    /\ call' = [call EXCEPT ![c] = [NoCall EXCEPT !.ctx = "ended", !.result = "ctx",
                                               !.overdue = call[c].overdue]]
    /\ UNCHANGED <<mu, watcher, flag, resolved, growing, grown>>

(* armInterrupt has something to watch and somewhere to write.             *)
Armed(c) == /\ call[c].kind \in {"statement", "ping"}
            /\ call[c].ctx # "none"
            /\ resolved[c]

(* Mutant of Enter: the context is not looked at again.                    *)
EnterLate(c) ==
    /\ mu = NoConn /\ mu' = c
    /\ Goto(c, "queued", "setup")
    /\ watcher' = [watcher EXCEPT ![c] = IF Armed(c) THEN "waiting" ELSE "none"]
    /\ UNCHANGED <<call, flag, resolved, growing, grown>>

(* The mutex is taken and, but for BeginTx and simpleExec, the watcher     *)
(* started.                                                                *)
Enter(c) ==
    /\ mu = NoConn /\ mu' = c
    /\ call[c].ctx # "ended"
    /\ Goto(c, "queued", "setup")
    /\ watcher' = [watcher EXCEPT ![c] = IF Armed(c) THEN "waiting" ELSE "none"]
    /\ UNCHANGED <<call, flag, resolved, growing, grown>>

-----------------------------------------------------------------------------
(* The engine                                                              *)

(* InitialCleanup.                                                         *)
Start(c) ==
    /\ Goto(c, "setup", "running")
    /\ flag' = [flag EXCEPT ![c] = FALSE]
    /\ \E endless \in BOOLEAN :
          call' = [call EXCEPT ![c].left = @ - 1, ![c].ran = TRUE, ![c].runaway = endless]
    /\ UNCHANGED <<mu, watcher, resolved, growing, grown>>

(* Mutant of Succeed: one statement too many.                              *)
SucceedPast(c) ==
    /\ ~call[c].runaway /\ ~growing[c]
    /\ Goto(c, "running", IF call[c].left >= 0 THEN "setup" ELSE "leaving")
    /\ UNCHANGED <<mu, call, watcher, flag, resolved, growing, grown>>

(* The statement succeeds; the next one of the text starts, if there is    *)
(* one.                                                                    *)
Succeed(c) ==
    /\ ~call[c].runaway /\ ~growing[c]
    /\ Goto(c, "running", IF call[c].left > 0 THEN "setup" ELSE "leaving")
    /\ UNCHANGED <<mu, call, watcher, flag, resolved, growing, grown>>

(* The statement fails by itself or because it saw the flag.  The recovery *)
(* ROLLBACK follows unless a transaction of the user's is open, or the     *)
(* engine panicked.                                                        *)
Fail(c) ==
    /\ ~growing[c]
    /\ flag[c] \/ ~call[c].runaway
    /\ \E to \in {"undoing", "leaving"} : Goto(c, "running", to)
    /\ call' = [call EXCEPT ![c].result = "engine", ![c].cut = flag[c]]
    /\ UNCHANGED <<mu, watcher, flag, resolved, growing, grown>>

(* The recovery ROLLBACK is a statement too, and armed.                    *)
Undo(c) ==
    /\ Goto(c, "undoing", "rollback")
    /\ flag' = [flag EXCEPT ![c] = FALSE]
    /\ UNCHANGED <<mu, call, watcher, resolved, growing, grown>>

(* It ends, done or interrupted: recoverTxLocked looks at neither.         *)
Undone(c) ==
    /\ ~growing[c]
    /\ Goto(c, "rollback", "leaving")
    /\ UNCHANGED <<mu, call, watcher, flag, resolved, growing, grown>>

Grow(c) ==
    /\ pc[c] \in {"running", "rollback"}
    /\ ~growing[c] /\ grown[c] < MaxGrowth
    /\ growing' = [growing EXCEPT ![c] = TRUE]
    /\ grown' = [grown EXCEPT ![c] = @ + 1]
    /\ UNCHANGED <<mu, pc, call, watcher, flag, resolved>>

Grew(c) ==
    /\ growing[c]
    /\ growing' = [growing EXCEPT ![c] = FALSE]
    /\ UNCHANGED <<mu, pc, call, watcher, flag, resolved, grown>>

-----------------------------------------------------------------------------
(* The watcher                                                             *)

(* close(stop) has been executed.                                          *)
Stopped(c) == pc[c] = "joining"

WatcherStep(c, from, to) ==
    /\ watcher[c] = from
    /\ watcher' = [watcher EXCEPT ![c] = to]
    /\ UNCHANGED <<mu, pc, call, resolved, growing, grown>>

(* A select with both channels ready takes either branch.                  *)
Stop(c) ==
    /\ Stopped(c)
    /\ \E from \in {"waiting", "ticking"} : WatcherStep(c, from, "gone")
    /\ UNCHANGED flag

(* Mutant of Wake: the first fire does not wait for the context.           *)
WakeAtOnce(c) ==
    /\ WatcherStep(c, "waiting", "poking")
    /\ UNCHANGED flag

Wake(c) ==
    /\ call[c].ctx = "ended"
    /\ WatcherStep(c, "waiting", "poking")
    /\ UNCHANGED flag

(* Mutant of Tick: one fire and no other.                                  *)
TickNever(c) ==
    /\ Stopped(c)
    /\ WatcherStep(c, "ticking", "gone")
    /\ UNCHANGED flag

Tick(c) ==
    /\ WatcherStep(c, "ticking", "poking")
    /\ UNCHANGED flag

(* pokeInterruptFlag.                                                      *)
Poke(c) ==
    /\ WatcherStep(c, "poking", "ticking")
    /\ flag' = [flag EXCEPT ![c] = TRUE]

(* A write while memory is being replaced may be lost.                     *)
PokeLost(c) ==
    /\ growing[c]
    /\ WatcherStep(c, "poking", "ticking")
    /\ UNCHANGED flag

(* Or the torn slice header panics; the recover is outside the loop.       *)
PokePanics(c) ==
    /\ growing[c]
    /\ WatcherStep(c, "poking", "dead")
    /\ UNCHANGED flag

-----------------------------------------------------------------------------
(* Mutant of ctxErr: the context's end hides what the engine said.         *)
ctxErrHides(c) ==
    IF call[c].result = "engine" /\ call[c].ctx = "ended" THEN "ctx" ELSE call[c].result

(* What the call returns, settled before the deferred calls run: a failure *)
(* is joined with the context's error, a success passes untouched.         *)
ctxErr(c) ==
    IF call[c].kind = "statement" /\ call[c].result = "engine" /\ call[c].ctx = "ended"
    THEN "both" ELSE call[c].result

(* disarm: close(stop), then wait for done.                                *)
Disarm(c) ==
    /\ Goto(c, "leaving", "joining")
    /\ call' = [call EXCEPT ![c].result = ctxErr(c)]
    /\ UNCHANGED <<mu, watcher, flag, resolved, growing, grown>>

(* Of a finished call only its report is kept.                             *)
Forget(c) ==
    /\ call' = [call EXCEPT ![c] = [NoCall EXCEPT !.ctx = call[c].ctx, !.ran = call[c].ran,
                                               !.cut = call[c].cut, !.overdue = call[c].overdue,
                                               !.result = call[c].result]]
    /\ grown' = [grown EXCEPT ![c] = 0]

(* Mutant of Leave: the deferred calls run in the other order.             *)
LeaveFirst(c) ==
    /\ Goto(c, "joining", "idle")
    /\ mu' = NoConn
    /\ Forget(c)
    /\ UNCHANGED <<watcher, flag, resolved, growing>>

(* The watcher is gone; the mutex is given back and the call returns.      *)
Leave(c) ==
    /\ watcher[c] \in {"none", "gone", "dead"}
    /\ watcher' = [watcher EXCEPT ![c] = "none"]
    /\ Goto(c, "joining", "idle")
    /\ mu' = NoConn
    /\ Forget(c)
    /\ UNCHANGED <<flag, resolved, growing>>

(* conn.Close: duckdb_disconnect frees the ClientContext.                  *)
Close(c) ==
    /\ mu = NoConn
    /\ Goto(c, "idle", "closed")
    /\ call' = [call EXCEPT ![c] = NoCall]
    /\ UNCHANGED <<mu, watcher, flag, resolved, growing, grown>>

EngineStep(c) == Start(c) \/ Succeed(c) \/ Fail(c) \/ Undo(c) \/ Undone(c)
CallerStep(c) == Enter(c) \/ Refuse(c) \/ Disarm(c) \/ Leave(c)

Next ==
    \E c \in Conns :
        \/ Connect(c) \/ Close(c) \/ EndContext(c)
        \/ \E kind \in {"statement", "ping", "begin", "control"}, ctx \in {"none", "live"},
              n \in 1 .. MaxBatch : Begin(c, kind, ctx, n)
        \/ CallerStep(c) \/ EngineStep(c)
        \/ Grow(c) \/ Grew(c)
        \/ Stop(c) \/ Wake(c) \/ Tick(c) \/ Poke(c) \/ PokeLost(c) \/ PokePanics(c)

(* The engine's goroutine and the watcher are scheduled, and a select with *)
(* a closed stop channel does not pick the ticker for ever; contexts end   *)
(* and calls begin when they like.  A runaway statement ends only by the   *)
(* flag.                                                                   *)
Fairness ==
    \A c \in Conns :
        /\ WF_vars(CallerStep(c))
        /\ WF_vars(EngineStep(c))
        /\ WF_vars(Grew(c))
        /\ SF_vars(Stop(c))
        /\ WF_vars(Stop(c) \/ Wake(c) \/ Tick(c) \/ Poke(c))

Spec == Init /\ [][Next]_vars /\ Fairness

-----------------------------------------------------------------------------
(* A watcher that can still write belongs to the call that holds the       *)
(* mutex: none outlives its call to hit a sibling's statement or the       *)
(* memory of a connection since closed (interrupt.go:112-118).             *)
WatcherInsideCall ==
    \A c \in Conns : watcher[c] \in {"waiting", "poking", "ticking"} => mu = c

(* A statement is aborted by the flag only if its own call's context has   *)
(* ended, whatever an earlier call, a late fire or the probe of a          *)
(* connection left in the byte (interrupt.go:41-48, 85-103).               *)
OnlyCancelledIsCut ==
    \A c \in Conns : call[c].cut => call[c].ctx = "ended"

(* A call that reports its context's error and nothing else left no trace  *)
(* in the engine, so that a caller may repeat it; and one whose context    *)
(* ended while it queued for the mutex, behind any number of siblings,     *)
(* never gets to the engine (driver.go:388-393, interrupt.go:165-182).     *)
ContextErrorLeavesNoTrace ==
    \A c \in Conns : call[c].result = "ctx" \/ call[c].overdue => ~call[c].ran

Inside(c) == pc[c] \in {"setup", "running", "undoing", "rollback"}
Cancelled(c) == Inside(c) /\ Armed(c) /\ call[c].ctx = "ended"

(* A cancelled call gets out, even of a statement that would never end,    *)
(* though fires are swallowed by InitialCleanup or lost in a growing       *)
(* memory -- unless one of them panicked (interrupt.go:41-45).             *)
CancelledReturns ==
    \A c \in Conns : Cancelled(c) ~> (pc[c] = "idle" \/ watcher[c] = "dead")

(* What interrupt.go:127-129 says of such a panic: losing one fire is      *)
(* fine, the refire loop lands the next.                                   *)
TornFireHarmless ==
    \A c \in Conns : Cancelled(c) ~> pc[c] = "idle"

=============================================================================
