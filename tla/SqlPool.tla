------------------------------- MODULE SqlPool -------------------------------
(***************************************************************************)
(* The sqllogictest runner's files (converge/cmd/sqllogic/main.go, main and *)
(* runFileWithTimeout).  One goroutine per file waits for one of the -j     *)
(* slots, starts a worker that executes the file, and selects between the   *)
(* worker's result and the file's deadline.  A worker that lets its         *)
(* deadline pass is abandoned: nobody takes its result.                     *)
(***************************************************************************)
EXTENDS Integers, Sequences, FiniteSets

CONSTANTS
    Files,   \* the files collected
    Jobs     \* -j

ASSUME PoolAssumption == IsFiniteSet(Files) /\ Jobs \in Nat \ {0}

None == "none"
FileOutcomes == {"PASS", "FAIL", "SKIP", "panic"}

VARIABLES
    slots,     \* the files whose goroutine holds a slot of sem
    worker,    \* file |-> where its worker is
    answer,    \* file |-> what its worker has to send
    done,      \* file |-> the channel done
    expired,   \* the files whose context has ended
    results,   \* file |-> its entry of results
    reported   \* report has run

poolvars == <<slots, worker, answer, done, expired, results, reported>>

PoolInit ==
    /\ slots = {}
    /\ worker = [f \in Files |-> None] /\ answer = [f \in Files |-> None]
    /\ done = [f \in Files |-> <<>>]
    /\ expired = {}
    /\ results = [f \in Files |-> None]
    /\ reported = FALSE

Waiting(f) == f \in slots /\ results[f] = None

(* sem <- struct{}{}, then runFileWithTimeout starts the worker.           *)
StartFile(f) ==
    /\ results[f] = None /\ f \notin slots /\ Cardinality(slots) < Jobs
    /\ slots' = slots \cup {f}
    /\ worker' = [worker EXCEPT ![f] = "running"]
    /\ UNCHANGED <<answer, done, expired, results, reported>>

(* executeFile returns, or panics and is recovered.                        *)
WorkerReturns(f, o) ==
    /\ worker[f] = "running"
    /\ worker' = [worker EXCEPT ![f] = "sending"]
    /\ answer' = [answer EXCEPT ![f] = IF o = "panic" THEN "FAIL" ELSE o]
    /\ UNCHANGED <<slots, done, expired, results, reported>>

(* Mutant of Send: an unbuffered channel, which needs somebody to receive. *)
SendUnbuffered(f) ==
    /\ worker[f] = "sending" /\ Waiting(f)
    /\ worker' = [worker EXCEPT ![f] = "ended"]
    /\ done' = [done EXCEPT ![f] = <<answer[f]>>]
    /\ UNCHANGED <<slots, answer, expired, results, reported>>

(* done <- ..., a channel of capacity 1.                                   *)
Send(f) ==
    /\ worker[f] = "sending" /\ done[f] = <<>>
    /\ worker' = [worker EXCEPT ![f] = "ended"]
    /\ done' = [done EXCEPT ![f] = <<answer[f]>>]
    /\ UNCHANGED <<slots, answer, expired, results, reported>>

DeadlinePasses(f) ==
    /\ Waiting(f) /\ f \notin expired
    /\ expired' = expired \cup {f}
    /\ UNCHANGED <<slots, worker, answer, done, results, reported>>

(* The select of runFileWithTimeout; results[i] = res; the slot is freed.  *)
Collect(f) ==
    /\ Waiting(f)
    /\ \/ done[f] # <<>> /\ results' = [results EXCEPT ![f] = Head(done[f])]
                         /\ done' = [done EXCEPT ![f] = <<>>]
       \/ f \in expired /\ results' = [results EXCEPT ![f] = "FAIL"] /\ UNCHANGED done
    /\ slots' = slots \ {f}
    /\ UNCHANGED <<worker, answer, expired, reported>>

(* wg.Wait, then report.                                                   *)
Report ==
    /\ ~reported /\ \A f \in Files : results[f] # None
    /\ reported' = TRUE
    /\ UNCHANGED <<slots, worker, answer, done, expired, results>>

PoolNext ==
    \/ \E f \in Files : \/ StartFile(f) \/ Send(f) \/ DeadlinePasses(f) \/ Collect(f)
                        \/ \E o \in FileOutcomes : WorkerReturns(f, o)
    \/ Report

(* Goroutines that can run do, and deadlines come.  Nothing is assumed of  *)
(* a worker: its engine may never return.                                  *)
PoolFairness ==
    /\ \A f \in Files : /\ WF_poolvars(StartFile(f)) /\ WF_poolvars(Send(f))
                        /\ WF_poolvars(DeadlinePasses(f)) /\ WF_poolvars(Collect(f))
    /\ WF_poolvars(Report)

-----------------------------------------------------------------------------
(* runFileWithTimeout against a worker whose engine never returns: every   *)
(* file still gets its entry and the report is printed; and a worker that  *)
(* does return is never left sending to a goroutine that has gone.         *)
RunEnds == <>reported /\ \A f \in Files : (worker[f] = "sending") ~> (worker[f] = "ended")
=============================================================================
