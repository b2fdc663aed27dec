--------------------------- MODULE ExceptionHost ----------------------------
(***************************************************************************)
(* The C++ exception ABI the engine imports (converge/exhost/host.go): the *)
(* exception in flight ("last"), the stack of caught exceptions, the       *)
(* header in front of each exception object, and the type ids that tell a  *)
(* landing pad which of its clauses matched.                               *)
(*                                                                         *)
(* The program that calls it is compiled C++, which this repository does   *)
(* not contain: it is external, and any program that nests try blocks,     *)
(* handlers and destructors, throws, rethrows with "throw;" and keeps      *)
(* std::exception_ptrs.  "frames" is its stack; what a handler must see is *)
(* stated on that stack, never on the host's variables.                    *)
(***************************************************************************)
EXTENDS Integers, Sequences, FiniteSets

CONSTANTS
    Excs,      \* addresses of exception objects; they are reused
    Types,     \* type_infos
    Catches,   \* pairs <<c, t>>: a handler for c takes a t (__cxa_can_catch)
    Clauses,   \* the clause lists of landing pads, sequences of types or CatchAll
    CatchAll,  \* the null type_info of catch (...)
    NoExc, NoType,
    MaxDepth,  \* frames on the stack
    MaxPtrs    \* exception_ptrs to one exception

ASSUME ExcAssumption ==
    /\ NoExc \notin Excs
    /\ CatchAll \notin Types /\ NoType \notin Types /\ NoType # CatchAll
    /\ Clauses \subseteq Seq(Types \cup {CatchAll})
    /\ MaxDepth \in Nat /\ MaxPtrs \in Nat

VARIABLES
    last,      \* Host.last: the exception unwinding, as the host remembers it
    caught,    \* Host.caught: the stack of exceptions with an active handler
    typeIDs,   \* Host.typeIDs, NoId for a type not yet met
    nextType,
    tempRet0,  \* the id findMatch published
    uncaught,  \* Host.uncaught
    header,    \* the header of each object, in linear memory
    frames,    \* the program's stack
    flight,    \* the exception the panic carries, NoExc when none unwinds
    ptrs       \* exception_ptrs to each exception

host == <<last, caught, typeIDs, nextType, tempRet0, uncaught>>
vars == <<host, header, frames, flight, ptrs>>

NoId == 0
Headers == [alive : BOOLEAN, ref : Nat, type : Types \cup {NoType},
            caught : BOOLEAN, rethrown : BOOLEAN]

(* "try": a block with clauses; "pad": its landing pad, at its at-th       *)
(* clause, holding the exception exc that the host gave it; "catch": an    *)
(* active handler for in; "cleanup": destructors run while exc passes;     *)
(* "leave": the same inside a handler for in.                              *)
Frame(kind, clauses, at, exc, in) ==
    [kind |-> kind, clauses |-> clauses, at |-> at, exc |-> exc, in |-> in]
Try(cs)          == Frame("try", cs, 1, NoExc, NoExc)
Pad(cs, i, e)    == Frame("pad", cs, i, e, NoExc)
Catch(e)         == Frame("catch", <<>>, 1, NoExc, e)
Cleanup(e)       == Frame("cleanup", <<>>, 1, e, NoExc)
LeaveCatch(e, c) == Frame("leave", <<>>, 1, e, c)
FrameTypes ==
    [kind : {"try", "pad", "catch", "cleanup", "leave"}, clauses : Clauses \cup {<<>>},
     at : Nat, exc : Excs \cup {NoExc}, in : Excs \cup {NoExc}]

TypeOK ==
    /\ last \in Excs \cup {NoExc}
    /\ caught \in Seq(Excs)
    /\ typeIDs \in [Types -> Nat]
    /\ nextType \in Nat /\ tempRet0 \in Nat /\ uncaught \in Nat
    /\ header \in [Excs -> Headers]
    /\ frames \in Seq(FrameTypes) /\ Len(frames) <= MaxDepth
    /\ flight \in Excs \cup {NoExc}
    /\ ptrs \in [Excs -> 0 .. MaxPtrs]

Fresh == [alive |-> FALSE, ref |-> 0, type |-> NoType, caught |-> FALSE, rethrown |-> FALSE]

(* Mutant of FirstId: the first type shares the id of catch (...).         *)
FirstIdShared == 1

(* Id 1 is reserved for catch (...).                                       *)
FirstId == 2

Init ==
    /\ last = NoExc /\ caught = <<>> /\ uncaught = 0
    /\ typeIDs = [t \in Types |-> NoId] /\ nextType = FirstId /\ tempRet0 = 0
    /\ header = [e \in Excs |-> Fresh]
    /\ frames = <<>> /\ flight = NoExc
    /\ ptrs = [e \in Excs |-> 0]

-----------------------------------------------------------------------------
TopOf(s) == s[Len(s)]
Pop(s) == SubSeq(s, 1, Len(s) - 1)

Running == flight = NoExc
Depth == Len(frames)
Top == TopOf(frames)

(* An exception may leave neither a destructor nor the C API's own block:  *)
(* a program may throw only where a catch (...) stands in between.         *)
MayThrow ==
    \A i \in {0} \cup {i \in 1 .. Depth : frames[i].kind \in {"cleanup", "leave"}} :
        \E j \in i + 1 .. Depth :
            frames[j].kind = "try" /\ \E k \in 1 .. Len(frames[j].clauses) :
                                        frames[j].clauses[k] = CatchAll

(* The host keeps one "rethrown" flag for an object, not one for a throw:  *)
(* programs whose destructors raise the very exception that is passing     *)
(* through them are left out.                                              *)
Passing(e) == \E i \in 1 .. Depth : frames[i].exc = e

(* __cxa_decrement_exception_refcount, of the engine: the object dies with *)
(* its last reference unless it is being rethrown.                         *)
DecRef(h, e) ==
    [h EXCEPT ![e].ref = @ - 1,
              ![e].alive = h[e].ref > 1 \/ h[e].rethrown]
IncRef(h, e) == [h EXCEPT ![e].ref = @ + 1]

(* The panic that unwinds to the innermost trampoline.                     *)
Unwind(e) == flight' = e

-----------------------------------------------------------------------------
(* What the program does besides                                           *)

(* A call that may throw, through an invoke_ trampoline.                   *)
(* The C API, the outermost caller, catches everything.                    *)
EnterTry(cs) ==
    /\ Running /\ Depth < MaxDepth
    /\ Depth = 0 => CatchAll \in {cs[i] : i \in 1 .. Len(cs)}
    /\ frames' = Append(frames, Try(cs))
    /\ UNCHANGED <<host, header, flight, ptrs>>

(* It returns.                                                             *)
LeaveTry ==
    /\ Running /\ Depth > 0 /\ Top.kind = "try"
    /\ frames' = Pop(frames)
    /\ UNCHANGED <<host, header, flight, ptrs>>

(* An exception_ptr is destroyed, in running code or by a destructor.      *)
DropPtr(e) ==
    /\ Running /\ ptrs[e] > 0
    /\ ptrs' = [ptrs EXCEPT ![e] = @ - 1]
    /\ header' = DecRef(header, e)
    /\ UNCHANGED <<host, frames, flight>>

-----------------------------------------------------------------------------
(* X__cxa_throw of a new object.                                           *)
Throw(e, t) ==
    /\ Running /\ MayThrow
    /\ ~header[e].alive
    /\ header' = [header EXCEPT ![e] = [Fresh EXCEPT !.alive = TRUE, !.type = t]]
    /\ last' = e
    /\ uncaught' = uncaught + 1
    /\ Unwind(e)
    /\ UNCHANGED <<caught, typeIDs, nextType, tempRet0, frames, ptrs>>

(* Mutant of rethrow: the entry pushed by rethrow_primary_exception stays. *)
rethrowKeeps(stack, h) ==
    LET e == TopOf(stack)
    IN  /\ caught' = stack
        /\ IF h[e].rethrown
           THEN header' = h /\ UNCHANGED uncaught
           ELSE /\ header' = [h EXCEPT ![e].rethrown = TRUE, ![e].caught = FALSE]
                /\ uncaught' = uncaught + 1
        /\ last' = e
        /\ Unwind(e)

(* X__cxa_rethrow on the caught stack and the headers it finds: an entry   *)
(* that rethrow_primary_exception pushed is consumed, any other stays for  *)
(* its handler's end_catch.                                                *)
rethrow(stack, h) ==
    LET e == TopOf(stack)
    IN  /\ IF h[e].rethrown
           THEN /\ caught' = Pop(stack)
                /\ header' = h
                /\ UNCHANGED uncaught
           ELSE /\ caught' = stack
                /\ header' = [h EXCEPT ![e].rethrown = TRUE, ![e].caught = FALSE]
                /\ uncaught' = uncaught + 1
        /\ last' = e
        /\ Unwind(e)

(* "throw;" in a handler, or in code that it calls.                        *)
Rethrow ==
    /\ Running /\ MayThrow
    /\ caught # <<>>
    /\ ~Passing(TopOf(caught))
    /\ rethrow(caught, header)
    /\ UNCHANGED <<typeIDs, nextType, tempRet0, frames, ptrs>>

(* std::rethrow_exception.                                                 *)
RethrowPrimary(e) ==
    /\ Running /\ MayThrow
    /\ ptrs[e] > 0 /\ ~Passing(e)
    /\ rethrow(Append(caught, e), [header EXCEPT ![e].rethrown = TRUE])
    /\ UNCHANGED <<typeIDs, nextType, tempRet0, frames, ptrs>>

(* Mutant of CurrentPrimary: the exception_ptr owns no reference.          *)
CurrentPrimaryUncounted ==
    /\ Running /\ caught # <<>>
    /\ ptrs[TopOf(caught)] < MaxPtrs
    /\ ptrs' = [ptrs EXCEPT ![TopOf(caught)] = @ + 1]
    /\ UNCHANGED <<host, header, frames, flight>>

(* std::current_exception.                                                 *)
CurrentPrimary ==
    /\ Running /\ caught # <<>>
    /\ ptrs[TopOf(caught)] < MaxPtrs
    /\ header' = IncRef(header, TopOf(caught))
    /\ ptrs' = [ptrs EXCEPT ![TopOf(caught)] = @ + 1]
    /\ UNCHANGED <<host, frames, flight>>

-----------------------------------------------------------------------------
(* The landing pad of a try block                                          *)

CanTake(c, t) == c = CatchAll \/ c = t \/ <<c, t>> \in Catches

(* The first clause of cs that takes type t, NoType if none does.          *)
FirstClause(cs, t) ==
    LET takes == {i \in 1 .. Len(cs) : CanTake(cs[i], t)}
    IN  IF takes = {} THEN NoType
        ELSE cs[CHOOSE i \in takes : \A j \in takes : i <= j]

(* typeID.                                                                 *)
IdOf(t) == IF t = CatchAll THEN 1 ELSE IF typeIDs[t] # NoId THEN typeIDs[t] ELSE nextType
RegisterType(t) ==
    IF t = CatchAll \/ typeIDs[t] # NoId
    THEN UNCHANGED <<typeIDs, nextType>>
    ELSE /\ typeIDs' = [typeIDs EXCEPT ![t] = nextType]
         /\ nextType' = nextType + 1

(* The trampoline has recovered the panic and set threw; the landing pad   *)
(* calls find_matching_catch_N, which answers for the exception in last.   *)
FindMatch ==
    /\ flight # NoExc /\ Top.kind = "try"
    /\ frames' = Append(Pop(frames), Pad(Top.clauses, 1, last))
    /\ LET c == IF last = NoExc THEN NoType ELSE FirstClause(Top.clauses, header[last].type)
       IN  IF c = NoType
           THEN tempRet0' = 0 /\ UNCHANGED <<typeIDs, nextType>>
           ELSE tempRet0' = IdOf(c) /\ RegisterType(c)
    /\ UNCHANGED <<last, caught, uncaught, header, flight, ptrs>>

(* The landing pad compares llvm_eh_typeid_for of its next clause.         *)
Differs ==
    /\ flight # NoExc /\ Top.kind = "pad" /\ Top.at <= Len(Top.clauses)
    /\ LET c == Top.clauses[Top.at]
       IN  /\ c # CatchAll
           /\ RegisterType(c)
           /\ IdOf(c) # tempRet0
    /\ frames' = Append(Pop(frames), Pad(Top.clauses, Top.at + 1, Top.exc))
    /\ UNCHANGED <<last, caught, tempRet0, uncaught, header, flight, ptrs>>

(* Mutant of beginCatch: an exception caught again is counted again.       *)
beginCatchAgain(e) ==
    /\ uncaught' = uncaught - 1
    /\ header' = IncRef([header EXCEPT ![e].caught = TRUE, ![e].rethrown = FALSE], e)
    /\ caught' = Append(caught, e)

beginCatch(e) ==
    /\ uncaught' = IF ~header[e].caught /\ uncaught > 0 THEN uncaught - 1 ELSE uncaught
    /\ header' = IncRef([header EXCEPT ![e].caught = TRUE, ![e].rethrown = FALSE], e)
    /\ caught' = Append(caught, e)

(* The clause is taken, and its handler begins with __cxa_begin_catch.     *)
EnterHandler ==
    /\ flight # NoExc /\ Top.kind = "pad" /\ Top.at <= Len(Top.clauses)
    /\ LET c == Top.clauses[Top.at]
       IN  IF c = CatchAll THEN UNCHANGED <<typeIDs, nextType>>
                           ELSE RegisterType(c) /\ IdOf(c) = tempRet0
    /\ IF Top.exc = NoExc THEN UNCHANGED <<uncaught, header, caught>> ELSE beginCatch(Top.exc)
    /\ frames' = Append(Pop(frames), Catch(Top.exc))
    /\ flight' = NoExc
    /\ UNCHANGED <<last, tempRet0, ptrs>>

(* No clause is: the destructors of the block run.                         *)
NoClause ==
    /\ flight # NoExc /\ Top.kind = "pad" /\ Top.at > Len(Top.clauses)
    /\ frames' = Append(Pop(frames), Cleanup(Top.exc))
    /\ flight' = NoExc
    /\ UNCHANGED <<host, header, ptrs>>

(* An exception passes through a handler: find_matching_catch_2, which     *)
(* matches everything, and the destructors of the handler.                 *)
PassHandler ==
    /\ flight # NoExc /\ Top.kind = "catch"
    /\ tempRet0' = IdOf(CatchAll)
    /\ frames' = Append(Pop(frames), LeaveCatch(last, Top.in))
    /\ flight' = NoExc
    /\ UNCHANGED <<last, caught, typeIDs, nextType, uncaught, header, ptrs>>

(* Mutant of endCatch: one stack for what is caught and what unwinds, as   *)
(* in harness/exhost: the exception in flight is popped.                   *)
endCatchInFlight ==
    /\ LET n == Len(caught)
           i == IF last # NoExc /\ \E k \in 1 .. n : caught[k] = last
                THEN CHOOSE k \in 1 .. n : caught[k] = last ELSE n
       IN  IF n = 0 THEN UNCHANGED <<caught, header>>
           ELSE /\ caught' = SubSeq(caught, 1, i - 1) \o SubSeq(caught, i + 1, n)
                /\ header' = DecRef(header, caught[i])
    /\ last' = NoExc

(* X__cxa_end_catch: the innermost handler's exception, never last.        *)
endCatch ==
    /\ IF caught = <<>> THEN UNCHANGED <<caught, header>>
       ELSE caught' = Pop(caught) /\ header' = DecRef(header, TopOf(caught))
    /\ last' = NoExc

(* A handler ends, by itself or because an exception leaves it.            *)
EndHandler ==
    /\ Running /\ Depth > 0
    /\ \/ Top.kind = "catch" /\ frames' = Pop(frames)
       \/ Top.kind = "leave" /\ frames' = Append(Pop(frames), Cleanup(Top.exc))
    /\ endCatch
    /\ UNCHANGED <<typeIDs, nextType, tempRet0, uncaught, flight, ptrs>>

(* X__resumeException(ptr): the exception goes on.                         *)
Resume ==
    /\ Running /\ Depth > 0 /\ Top.kind = "cleanup"
    /\ last' = IF last = NoExc THEN Top.exc ELSE last
    /\ Unwind(last')
    /\ frames' = Pop(frames)
    /\ UNCHANGED <<caught, typeIDs, nextType, tempRet0, uncaught, header, ptrs>>

Next ==
    \/ \E cs \in Clauses : EnterTry(cs)
    \/ LeaveTry
    \/ \E e \in Excs : DropPtr(e) \/ RethrowPrimary(e) \/ \E t \in Types : Throw(e, t)
    \/ Rethrow \/ CurrentPrimary
    \/ FindMatch \/ Differs \/ EnterHandler \/ NoClause \/ PassHandler
    \/ EndHandler \/ Resume

Spec == Init /\ [][Next]_vars

-----------------------------------------------------------------------------
HandlerAt == {i \in 1 .. Depth : frames[i].kind \in {"catch", "leave"}}

(* The host's stack is the stack of active handlers, innermost last: what  *)
(* "throw;" and std::current_exception act on is the exception of the      *)
(* handler they are in, whatever was thrown and caught inside it           *)
(* (host.go:100-115).                                                      *)
CaughtIsHandlers ==
    \E at \in [1 .. Len(caught) -> 1 .. Depth] :
        /\ {at[n] : n \in 1 .. Len(caught)} = HandlerAt
        /\ \A m, n \in 1 .. Len(caught) : m < n => at[m] < at[n]
        /\ \A n \in 1 .. Len(caught) : caught[n] = frames[at[n]].in

(* Nothing that unwinds, is handled or is pointed to has been destroyed.   *)
NoneDestroyedEarly ==
    /\ \A e \in Excs : (e = flight \/ e = last \/ ptrs[e] > 0) => header[e].alive
    /\ \A f \in {frames[i] : i \in 1 .. Depth} : \A e \in {f.exc, f.in} \ {NoExc} : header[e].alive

(* When the program is back in the C API, no exception is left over.       *)
NoneLeaks ==
    frames = <<>> => /\ caught = <<>>
                     /\ \A e \in Excs : header[e].alive => ptrs[e] > 0

(* A landing pad enters the handler C++ says: the first clause that takes  *)
(* the exception in flight, with that exception; destructors run only if   *)
(* there is none (host.go:401-480, 219-229).                               *)
HandlerIsRight ==
    [][/\ EnterHandler => /\ Top.exc = flight
                          /\ Top.clauses[Top.at] = FirstClause(Top.clauses, header[flight].type)
       /\ NoClause => /\ Top.exc = flight
                      /\ FirstClause(Top.clauses, header[flight].type) = NoType
       /\ PassHandler => last = flight]_vars

(* std::uncaught_exceptions, by what host.go:121-122 says of the counter:  *)
(* exceptions thrown but not yet caught.                                   *)
UncaughtExact ==
    uncaught = Len(SelectSeq(frames, LAMBDA f : f.kind \in {"cleanup", "leave"}))
               + (IF flight = NoExc THEN 0 ELSE 1)

=============================================================================
