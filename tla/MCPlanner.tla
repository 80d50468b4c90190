----------------------------- MODULE MCPlanner ------------------------------
(***************************************************************************)
(* The requests of the runs of PlannerSteps.                               *)
(***************************************************************************)
EXTENDS PlannerSteps, TLC

CONSTANTS c1, c2, c3

Three(i, j, k) == c1 :> i @@ c2 :> j @@ c3 :> k
None  == Three({}, {}, {})
Zeros == Three(0, 0, 0)
Ranks == Three(1, 2, 3)

\* Any limits of two clusters, a negative capacity among them.
Limited ==
  {[total |-> t, rebalance |-> b, wanted |-> W, weight |-> w, min |-> m,
    max |-> x, rank |-> Ranks, current |-> n, capacity |-> p] :
     t \in {1, 4}, b \in BOOLEAN, W \in {{c1}, {c1, c2}},
     w \in {Three(i, j, 0) : i \in {0, 1}, j \in 0 .. 2},
     m \in {Three(i, j, 0) : i \in {0, 2}, j \in {0, 2}},
     x \in {Three(i, j, {}) : i \in {{}, {3}}, j \in {{}, {1}}},
     n \in {Three(i, j, {}) : i \in {{}, {2}}, j \in {{}, {3}}},
     p \in {Three(i, j, {}) : i \in {{}, {1}}, j \in {{}, {-1}, {2}}}}

\* Three clusters where it takes several trials to place what is preallocated.
Preallocated ==
  {[total |-> t, rebalance |-> FALSE, wanted |-> Clusters, weight |-> w,
    min |-> Zeros, max |-> x, rank |-> Ranks, current |-> n, capacity |-> p] :
     t \in {7, 20}, w \in {Three(i, j, 1) : i, j \in {1, 9}},
     x \in {Three(i, j, {}) : i, j \in {{}, {3}, {8}}},
     n \in {Three(i, j, k) : i, j, k \in {{}, {4}, {12}}},
     p \in {Three(i, {}, k) : i, k \in {{}, {4}}}}

\* One more replica for the one cluster.
ScaledUp ==
  {[total |-> n + 1, rebalance |-> FALSE, wanted |-> {c1},
    weight |-> Three(1, 1, 1), min |-> Zeros, max |-> None, rank |-> Ranks,
    current |-> Three({n}, {}, {}), capacity |-> None] : n \in 1 .. 20}

AllRequests == Limited \cup Preallocated \cup ScaledUp
=============================================================================
