---------------------------- MODULE PlannerSteps ----------------------------
(***************************************************************************)
(* Planner.Plan as a state machine, step by step, and what it promises to  *)
(* the scheduler.                                                          *)
(***************************************************************************)
EXTENDS ReplicaPlanner, FiniteSetsExt

CONSTANTS
  Requests,    \* the requests that are planned
  MaxTrials    \* how far trials are counted

ASSUME RequestsAssumption  == Requests \subseteq Request
ASSUME MaxTrialsAssumption == MaxTrials \in Nat

VARIABLES
  request,    \* the arguments of Plan and the planner's preferences
  planning,   \* its local variables
  trials      \* a ghost: trials of the distribution so far

vars == <<request, planning, trials>>

Init == /\ request \in Requests
        /\ planning = StartPlanning(request)
        /\ trials = 0

Step == /\ planning.step # "done"
        /\ planning' = PlanStep(request, planning)
        /\ trials' = IF planning.step = "trial" /\ planning'.step = "weigh"
                       THEN MinOf(trials + 1, MaxTrials) ELSE trials
        /\ UNCHANGED request

Next == Step

Spec     == Init /\ [][Next]_vars
FairSpec == Spec /\ WF_vars(Step)

-----------------------------------------------------------------------------
(* Properties *)

TypeOK == request \in Request /\ planning \in Planning /\ trials \in Nat

\* A capacity estimate below zero comes from pods that are more than the
\* replicas (scheduler.go:385), and a minimum above the maximum from the user.
Sane(c) == /\ \A n \in request.capacity[c] : n >= 0
           /\ \A n \in request.max[c] : n >= request.min[c]

\* No cluster is planned less than nothing, more than its capacity or, with
\* what overflows, more than its maximum, and no more replicas are handed out
\* than there are, at any point of the planning (planner.go:103-216).
WithinLimits ==
  (\A c \in Clusters : Sane(c)) =>
    /\ planning.remaining \in 0 .. request.total
    /\ \A c \in Clusters :
         /\ planning.plan[c] >= 0 /\ planning.overflow[c] >= 0
         /\ planning.preallocated[c] \in 0 .. planning.plan[c]
         /\ \A n \in request.capacity[c] : planning.plan[c] <= n
         /\ \A n \in request.max[c] : planning.plan[c] + planning.overflow[c] <= n

\* Every replica is either planned for a cluster or left over, whatever the
\* limits are.
Conserved == SumFunctionOnSet(planning.plan, Clusters) + planning.remaining
               = request.total

Full(c) == \/ \E n \in request.max[c] : planning.plan[c] >= n
           \/ \E n \in request.capacity[c] : planning.plan[c] >= n

\* Replicas are left over only when each cluster that has a weight is full: the
\* loop does not give up early (the TODO at planner.go:152).
NoneLeftOver ==
  planning.step = "done" /\ planning.remaining > 0 =>
    \A c \in request.wanted : request.weight[c] > 0 => Full(c)

\* Clusters of a higher weight come first: one that did not get the minimum it
\* has room for leaves nothing to a cluster after it (planner.go:57-59).
MinimumsInOrder ==
  planning.step = "done" /\ (\A c \in Clusters : Sane(c)) =>
    \A c, d \in request.wanted :
      Less(request, c, d)
        /\ planning.plan[c] < Capped(request.min[c], request.capacity[c])
      => planning.plan[d] = 0

\* What runs in c and fits there.
Runs(c) == {Capped(Capped(n, request.max[c]), request.capacity[c])
              : n \in request.current[c]}

\* What c needs to have its minimum and to keep what runs.
Needed == [c \in Clusters |-> IF c \notin request.wanted THEN 0
             ELSE Max({Capped(request.min[c], request.capacity[c])} \cup Runs(c))]

\* Without rebalancing, running replicas stay where they are (the comment on
\* rebalance, replicaschedulingpreference_types.go), if there are enough for
\* them and for the minimums.
RunningStay ==
  /\ planning.step = "done" /\ ~request.rebalance
  /\ \A c \in Clusters : Sane(c)
  /\ SumFunctionOnSet(Needed, Clusters) <= request.total
  => \A c \in request.wanted : \A n \in Runs(c) : planning.plan[c] >= n

\* Every trial but the last places a replica or takes one off those that are
\* preallocated: there is one trial for each replica at most.  The comment on the
\* loop (planner.go:144-153) has clusters times the logarithm of the replicas.
TrialsBounded ==
  (\A c \in Clusters : Sane(c)) => trials <= request.total + 1

\* The loop ends (planner.go:155).
Terminates == <>(planning.step = "done")
=============================================================================
