--------------------------- MODULE ReplicaPlanner ---------------------------
(***************************************************************************)
(* Planner.Plan (pkg/controller/util/planner/planner.go): how many         *)
(* replicas each available cluster gets.  The planning is a record p that  *)
(* the steps of Plan's loops take on, one cluster at a time, for a request *)
(* r that does not change: minimums first, then, without rebalancing, what *)
(* runs already, then the rest by weight in as many trials as it takes.    *)
(* An optional number is a set of at most one number.                      *)
(***************************************************************************)
EXTENDS Integers, FiniteSets

CONSTANT Clusters   \* the available clusters

ASSUME ClustersAssumption == IsFiniteSet(Clusters)

Optional(S) == {L \in SUBSET S : \A m, n \in L : m = n}

\* wanted: clusters that spec.clusters names, or all if it has "*"; rank: the
\* hash of cluster and object; current: ready replicas, if the object exists
\* there; capacity: estimated if pods could not be scheduled, below zero when
\* they are more than the object's replicas.
Request == [total : Nat, rebalance : BOOLEAN, wanted : SUBSET Clusters,
            weight : [Clusters -> Nat], min : [Clusters -> Nat],
            max : [Clusters -> Optional(Nat)], rank : [Clusters -> Nat],
            current : [Clusters -> Optional(Nat)],
            capacity : [Clusters -> Optional(Int)]]

\* todo: clusters the loop has not come to; active: clusters that are not full;
\* kept: those found not to be full in this trial; sum: weights of the active;
\* share: what a trial distributes.
Planning == [step : {"minimum", "keep", "trial", "weigh", "give", "done"},
             todo : SUBSET Clusters, active : SUBSET Clusters,
             kept : SUBSET Clusters, plan : [Clusters -> Int],
             overflow : [Clusters -> Nat], preallocated : [Clusters -> Nat],
             remaining : Nat, sum : Nat, share : Nat, modified : BOOLEAN]

MinOf(a, b) == IF a < b THEN a ELSE b
Capped(n, limit) == IF \E m \in limit : m < n
                      THEN CHOOSE m \in limit : m < n ELSE n

\* The order of preferences; ranks are distinct unless hashes collide.
Less(r, c, d) == \/ r.weight[c] > r.weight[d]
                 \/ r.weight[c] = r.weight[d] /\ r.rank[c] < r.rank[d]
\* Mutant: the lightest comes first.
FirstLightest(r, S) == CHOOSE c \in S : \A d \in S : ~Less(r, c, d)
First(r, S) == CHOOSE c \in S : \A d \in S : ~Less(r, d, c)

StartPlanning(r) ==
  [step |-> "minimum", todo |-> r.wanted, active |-> r.wanted, kept |-> {},
   plan |-> [c \in Clusters |-> 0], overflow |-> [c \in Clusters |-> 0],
   preallocated |-> [c \in Clusters |-> 0], remaining |-> r.total,
   sum |-> 0, share |-> 0, modified |-> TRUE]

-----------------------------------------------------------------------------
(* The loops *)

\* Mutant: the capacity is left to the distribution.
MinimumUncapped(r, p, c) == MinOf(r.min[c], p.remaining)
Minimum(r, p, c) == Capped(MinOf(r.min[c], p.remaining), r.capacity[c])

AssignMinimum(r, p) ==
  LET c == First(r, p.todo)
      n == Minimum(r, p, c)
  IN [p EXCEPT !.todo = @ \ {c}, !.plan = [@ EXCEPT ![c] = n],
               !.remaining = @ - n]

\* How many of the n replicas that run in c stay there, beyond its minimum.
\* Mutant: fewer than none.
StayingOrFewer(r, p, c, n) ==
  MinOf(Capped(Capped(n, r.max[c]), r.capacity[c]) - p.plan[c], p.remaining)
Staying(r, p, c, n) ==
  LET extra == MinOf(Capped(Capped(n, r.max[c]), r.capacity[c]) - p.plan[c],
                     p.remaining)
  IN IF extra < 0 THEN 0 ELSE extra

\* Mutant: they are not counted for the cluster.
KeepCounted(p, c, n) == [p EXCEPT !.remaining = @ - n,
                                  !.preallocated = [@ EXCEPT ![c] = n]]
Keep(p, c, n) == [p EXCEPT !.plan = [@ EXCEPT ![c] = p.plan[c] + n],
                           !.preallocated = [@ EXCEPT ![c] = n],
                           !.remaining = @ - n]

\* Mutant: all of them or none.
MoreRunAndFit(r, p, c) ==
  \E n \in r.current[c] : n > p.plan[c] /\ n <= p.remaining
MoreRun(r, p, c) == \E n \in r.current[c] : n > p.plan[c]

KeepRunning(r, p) ==
  LET c == First(r, p.todo)
      q == [p EXCEPT !.todo = @ \ {c}]
  IN IF MoreRun(r, p, c)
       THEN Keep(q, c, Staying(r, p, c, CHOOSE n \in r.current[c] : TRUE))
       ELSE q

\* Another trial, if the last one changed anything and replicas are left.
\* Mutant: a trial that changed nothing is repeated.
StartTrialUnmodified(p) ==
  [p EXCEPT !.step = "weigh", !.todo = p.active, !.kept = {}, !.sum = 0,
            !.share = p.remaining]
StartTrial(p) ==
  [p EXCEPT !.step = "weigh", !.todo = p.active, !.kept = {}, !.sum = 0,
            !.share = p.remaining, !.modified = FALSE]

Weigh(r, p) ==
  LET c == First(r, p.todo)
  IN [p EXCEPT !.todo = @ \ {c}, !.sum = @ + r.weight[c]]

\* Fractions are rounded up.
\* Mutant: down.
ShareRoundedDown(r, p, c) == (p.share * r.weight[c]) \div p.sum
Share(r, p, c) == (p.share * r.weight[c] + p.sum - 1) \div p.sum

\* The share of c: preallocated replicas count for it, the maximum and the
\* capacity limit it, and what the capacity refuses overflows.
Give(r, p) ==
  LET c     == First(r, p.todo)
      due   == MinOf(Share(r, p, c), p.remaining)
      used  == MinOf(due, p.preallocated[c])
      asked == p.plan[c] + due - used
      most  == Capped(asked, r.max[c])
      n     == Capped(most, r.capacity[c])
  IN [p EXCEPT !.todo = @ \ {c},
               !.plan = [@ EXCEPT ![c] = n],
               !.overflow = [@ EXCEPT ![c] = IF n < most THEN most - n
                                               ELSE p.overflow[c]],
               !.preallocated = [@ EXCEPT ![c] = p.preallocated[c] - used],
               !.remaining = @ - (n - p.plan[c]),
               !.kept = IF n = asked THEN @ \cup {c} ELSE @,
               !.modified = @ \/ used > 0 \/ n > p.plan[c]]

\* What is full is not considered in the next trial; nothing is given by weights
\* of which all are zero.
EndTrial(p) == [p EXCEPT !.step = "trial", !.active = p.kept]

\* Without rebalancing, the overflow is trimmed to what found no place.
\* Mutant: with rebalancing too.
FinishTrimmed(r, p) ==
  [p EXCEPT !.step = "done",
            !.overflow = [c \in Clusters |-> MinOf(p.overflow[c], p.remaining)]]
Finish(r, p) ==
  [p EXCEPT !.step = "done",
            !.overflow = IF r.rebalance THEN @
                         ELSE [c \in Clusters |-> MinOf(p.overflow[c], p.remaining)]]

Goto(p, s, todo) == [p EXCEPT !.step = s, !.todo = todo]

PlanStep(r, p) ==
  CASE p.step = "minimum" /\ p.todo # {} -> AssignMinimum(r, p)
    [] p.step = "minimum" /\ p.todo = {} ->
         IF r.rebalance THEN Goto(p, "trial", {}) ELSE Goto(p, "keep", r.wanted)
    [] p.step = "keep" /\ p.todo # {} -> KeepRunning(r, p)
    [] p.step = "keep" /\ p.todo = {} -> Goto(p, "trial", {})
    [] p.step = "trial" -> IF p.modified /\ p.remaining > 0 THEN StartTrial(p)
                           ELSE Finish(r, p)
    [] p.step = "weigh" /\ p.todo # {} -> Weigh(r, p)
    [] p.step = "weigh" /\ p.todo = {} -> Goto(p, "give", p.active)
    [] p.step = "give" /\ p.todo # {} /\ p.sum > 0 -> Give(r, p)
    [] p.step = "give" /\ (p.todo = {} \/ p.sum = 0) -> EndTrial(p)

\* The plan and what overflows, at the last of the steps.
PlannedReplicas[r \in Request] ==
  LET run[p \in Planning] ==
        IF p.step = "done" THEN [c \in Clusters |-> p.plan[c] + p.overflow[c]]
        ELSE run[PlanStep(r, p)]
  IN run[StartPlanning(r)]
=============================================================================
