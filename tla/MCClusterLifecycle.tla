------------------------- MODULE MCClusterLifecycle -------------------------
(***************************************************************************)
(* Event budgets for the runs of ClusterLifecycle.                         *)
(***************************************************************************)
EXTENDS ClusterLifecycle, TLC

None == [e \in Events |-> 0]

\* A cluster joins and leaves, its health changes, something goes wrong.
Life == "join" :> 1 @@ "unjoin" :> 1 @@ "flip" :> 1 @@ "mishap" :> 1 @@ None
\* It comes back under the same name.
Rejoin == "join" :> 2 @@ "unjoin" :> 1 @@ None
\* Two administrators join it at once, or again after a failure.
Contest == "join" :> 2 @@ "mishap" :> 1 @@ None

Fault == {"join" :> 1 @@ "mishap" :> 1 @@ None}
Lives == {Life, Rejoin, Contest}
=============================================================================
