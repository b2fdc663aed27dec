----------------------------- MODULE AggStates ------------------------------
(***************************************************************************)
(* Aggregate functions over Go state (converge/duckdb/udf_aggregate.go and *)
(* udf_agg_band.go): the engine's blob for a group holds a handle, and the *)
(* state it stands for lives in a table of the module.                     *)
(*                                                                         *)
(* The engine is external: for one query it starts as many partial states  *)
(* of a group as it likes, folds every row into one of them, merges        *)
(* partial states (a source may be merged into several targets: windows    *)
(* do), finalizes a state that covers its group and frees what it started. *)
(* A callback works through an array of states; one step here is one       *)
(* element, and the engine's mutex lets nothing in between.                *)
(***************************************************************************)
EXTENDS Integers, Bags, Functions, FiniteSetsExt

CONSTANTS
    Blobs,        \* memory the engine uses for states
    Keys,         \* what rows are grouped by
    RowSet,       \* rows a table may have: records with their number n and group g
    None,
    AllRows,      \* the group of every row in a window over the whole table
    MaxHandles    \* states ever started

(* No record and no bag is the mark of a blob that is not in use.          *)
NoneIsApart ==
    /\ None \notin [g : Keys \cup {AllRows}, rows : SUBSET RowSet]
    /\ \A s \in SUBSET RowSet : None # SetToBag(s)

VARIABLES
    source,    \* the rows a query reads: a set of [n, g]
    phase,     \* of the query that is running
    single,    \* AggregateOptions.SingleState: a window, whose group is all rows
    next,      \* aggTable.next
    states,    \* aggTable.states: handle -> the rows folded into the state
    blob,      \* the handle written to a blob, which outlives the state
    plan,      \* blob -> [g, rows]: what the engine started it for; or None
    pending,   \* rows the engine has still to fold
    answers    \* group -> what finalize has returned for it

aggVars == <<phase, single, next, states, blob, plan, pending, answers>>

Live == {b \in Blobs : plan[b] # None}
GroupOf(r) == IF single THEN AllRows ELSE r.g
RowsOf(g) == {r \in source : GroupOf(r) = g}

AggInit ==
    /\ phase = "idle" /\ single = FALSE /\ next = 0 /\ states = <<>>
    /\ blob = [b \in Blobs |-> 0] /\ plan = [b \in Blobs |-> None]
    /\ pending = {} /\ answers = <<>>

-----------------------------------------------------------------------------
(* Mutant of newHandle: the number of states that are live.                *)
newHandleCounted == Cardinality(DOMAIN states) + 1

(* Mutant of newHandle: the counter before it moves.                       *)
newHandleFromZero == next

newHandle == next + 1

put(v) ==
    /\ next' = next + 1
    /\ states' = [h \in DOMAIN states \cup {newHandle} |-> IF h = newHandle THEN v ELSE states[h]]

drop(h) == states' = [k \in DOMAIN states \ {h} |-> states[k]]

Query ==
    /\ phase = "idle" /\ source # {}
    /\ phase' = "running"
    /\ single' \in BOOLEAN
    /\ pending' = source
    /\ answers' = <<>>
    /\ UNCHANGED <<next, states, blob, plan>>

initFn(b, g) ==
    /\ phase = "running" /\ plan[b] = None /\ next < MaxHandles
    /\ put(EmptyBag)
    /\ blob' = [blob EXCEPT ![b] = newHandle]
    /\ plan' = [plan EXCEPT ![b] = [g |-> g, rows |-> {}]]
    /\ UNCHANGED <<phase, single, pending, answers>>

(* updateFn for one row: its group's state, which under SingleState is     *)
(* states[0], the only one there is.                                       *)
updateFn(b, r) ==
    /\ phase = "running" /\ r \in pending
    /\ b \in Live /\ plan[b].g = GroupOf(r)
    /\ states' = [states EXCEPT ![blob[b]] = @ (+) SetToBag({r})]
    /\ plan' = [plan EXCEPT ![b].rows = @ \cup {r}]
    /\ pending' = pending \ {r}
    /\ UNCHANGED <<phase, single, next, blob, answers>>

(* Mutant of Combined: the source is emptied into the target.              *)
CombinedMoves(hs, hd) ==
    [states EXCEPT ![hd] = @ (+) states[hs], ![hs] = EmptyBag]

(* AggregateImpl.Combine: dst += src, and src stays usable.                *)
Combined(hs, hd) == [states EXCEPT ![hd] = @ (+) states[hs]]

combineFn(src, dst) ==
    /\ phase = "running"
    /\ src \in Live /\ dst \in Live /\ plan[src].g = plan[dst].g
    /\ plan[src].rows # {} /\ plan[src].rows \cap plan[dst].rows = {}
    /\ states' = Combined(blob[src], blob[dst])
    /\ plan' = [plan EXCEPT ![dst].rows = @ \cup plan[src].rows]
    /\ UNCHANGED <<phase, single, next, blob, pending, answers>>

(* finalizeFn for a state that covers its group.                           *)
finalizeFn(b) ==
    /\ phase = "running" /\ pending = {}
    /\ b \in Live /\ plan[b].g \notin DOMAIN answers
    /\ plan[b].rows = RowsOf(plan[b].g) /\ plan[b].rows # {}
    /\ answers' = [g \in DOMAIN answers \cup {plan[b].g} |->
                       IF g = plan[b].g THEN states[blob[b]] ELSE answers[g]]
    /\ UNCHANGED <<phase, single, next, states, blob, plan, pending>>

(* Finalize or writeCell fails: the error ends the query, and the engine   *)
(* frees its states, as it does once every group has its answer.           *)
FinalizeFails(b) ==
    /\ phase = "running" /\ pending = {} /\ b \in Live
    /\ phase' = "failing"
    /\ answers' = <<>>
    /\ UNCHANGED <<single, next, states, blob, plan, pending>>

Answered ==
    /\ phase = "running" /\ pending = {}
    /\ DOMAIN answers = {GroupOf(r) : r \in source}
    /\ phase' = "freeing"
    /\ UNCHANGED <<single, next, states, blob, plan, pending, answers>>

Superseded(b) == \E c \in Live \ {b} : plan[c].g = plan[b].g /\ plan[b].rows \subseteq plan[c].rows

(* destroyFn, at the end of the query or as soon as another state has all  *)
(* that this one has: the handle stays in the blob.                        *)
destroyFn(b) ==
    /\ phase \in {"failing", "freeing"} \/ (phase = "running" /\ pending = {} /\ answers = <<>>)
    /\ b \in Live /\ (phase = "running" => Superseded(b))
    /\ IF blob[b] # 0 THEN drop(blob[b]) ELSE UNCHANGED states
    /\ plan' = [plan EXCEPT ![b] = None]
    /\ UNCHANGED <<phase, single, next, blob, pending, answers>>

End ==
    /\ phase \in {"failing", "freeing"} /\ Live = {}
    /\ phase' = "idle" /\ single' = FALSE /\ answers' = <<>>
    /\ UNCHANGED <<next, states, blob, plan, pending>>

(* Update, Combine or Finalize panics: the panic leaves the engine, which  *)
(* is never entered again and frees nothing.                               *)
ImplPanics ==
    /\ phase = "running" /\ Live # {}
    /\ phase' = "broken"
    /\ UNCHANGED <<single, next, states, blob, plan, pending, answers>>

AggNext ==
    \/ Query \/ Answered \/ End \/ ImplPanics
    \/ \E b \in Blobs :
          \/ \E g \in (IF single THEN {AllRows} ELSE Keys) : initFn(b, g)
          \/ \E r \in pending : updateFn(b, r)
          \/ \E src \in Blobs : combineFn(src, b)
          \/ finalizeFn(b) \/ FinalizeFails(b) \/ destroyFn(b)

-----------------------------------------------------------------------------
(* A query that succeeds returns for each group exactly the rows of the    *)
(* table, each folded once, however the engine spread them over partial    *)
(* states (udf_aggregate.go 135-194, udf_agg_band.go 98-157).             *)
EachRowFoldedOnce ==
    phase = "freeing" => \A g \in DOMAIN answers : answers[g] = SetToBag(RowsOf(g))

(* Between queries no state is left in the table, although handles are     *)
(* never reused and blobs keep theirs (destroyFn, udf_aggregate.go 196-210)*)
NoStateLeaks == phase = "idle" => DOMAIN states = {}

(* The handle table looks to the engine like states kept in its blobs:     *)
(* whatever it starts, folds, merges and frees acts on that blob's state   *)
(* alone (udf_aggregate.go 9-21, the comparison with udf_agg_test.go).     *)
Inline == INSTANCE InlineStates WITH
             cell <- [b \in Blobs |-> IF b \in Live THEN states[blob[b]] ELSE None]
LooksInline == Inline!Spec
=============================================================================
