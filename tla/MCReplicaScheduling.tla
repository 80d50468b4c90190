------------------------ MODULE MCReplicaScheduling -------------------------
(***************************************************************************)
(* A preference, members and budgets for the runs of ReplicaScheduling.    *)
(***************************************************************************)
EXTENDS ReplicaScheduling, TLC

CONSTANTS c1, c2

\* Two replicas by equal weight: c1 has room for one.
Balanced ==
  [total |-> 2, rebalance |-> TRUE, wanted |-> {c1, c2},
   weight |-> (c1 :> 1 @@ c2 :> 1), min |-> (c1 :> 0 @@ c2 :> 0),
   max |-> (c1 :> {} @@ c2 :> {}), rank |-> (c1 :> 1 @@ c2 :> 2),
   current |-> (c1 :> {} @@ c2 :> {}), capacity |-> (c1 :> {} @@ c2 :> {})]
TightRoom == c1 :> 1 @@ c2 :> 4

None == [e \in Events |-> 0]
Changes == {[None EXCEPT !["scale"] = 1], [None EXCEPT !["flip"] = 2],
            [None EXCEPT !["edit"] = 1], [None EXCEPT !["fault"] = 2]}
=============================================================================
