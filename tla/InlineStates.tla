---------------------------- MODULE InlineStates ----------------------------
(***************************************************************************)
(* What an aggregate function promises the engine: its state for a group   *)
(* lives in the blob the engine allocated for it, and every callback acts  *)
(* on the blobs it is given.  converge/duckdb/udf_agg_test.go keeps a sum  *)
(* there; udf_aggregate.go keeps a handle, and has to look the same.       *)
(***************************************************************************)
EXTENDS Bags

CONSTANTS Blobs, RowSet, None

VARIABLE cell   \* blob -> the bag of rows folded into it, or None

Start(b) == cell[b] = None /\ cell' = [cell EXCEPT ![b] = EmptyBag]

Fold(b, r) == cell[b] # None /\ cell' = [cell EXCEPT ![b] = @ (+) SetToBag({r})]

Merge(src, dst) == /\ src # dst /\ cell[src] # None /\ cell[dst] # None
                   /\ cell' = [cell EXCEPT ![dst] = @ (+) cell[src]]

Free(b) == cell[b] # None /\ cell' = [cell EXCEPT ![b] = None]

Init == cell = [b \in Blobs |-> None]

Next == \E b \in Blobs :
          \/ Start(b) \/ Free(b)
          \/ \E r \in RowSet : Fold(b, r)
          \/ \E src \in Blobs : Merge(src, b)

Spec == Init /\ [][Next]_cell
=============================================================================
