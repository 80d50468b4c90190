----------------------- MODULE ReplicaSchedulingProofs -----------------------
(***************************************************************************)
(* The scheduler's variables keep their types, whatever it plans, and      *)
(* placement and override go together, although it writes them one after   *)
(* the other.  A reconciliation that is not to be repeated is one that     *)
(* found the placement as planned and then the override: the proof follows *)
(* it from the reading of the one to that of the other.                    *)
(***************************************************************************)
EXTENDS ReplicaScheduling, TLAPS

-----------------------------------------------------------------------------
(* What the planner's proofs say here: its machine is not of interest *)

Planner == INSTANCE PlannerProofs
             WITH Requests <- {}, MaxTrials <- 0,
                  request <- worker, planning <- worker, trials <- worker

LEMMA PlannerAssumptions ==
  /\ Planner!ClustersAssumption
  /\ Planner!RequestsAssumption
  /\ Planner!MaxTrialsAssumption
BY ClustersAssumption
   DEF Planner!ClustersAssumption, Planner!RequestsAssumption,
       Planner!MaxTrialsAssumption, IsFiniteSet, Planner!IsFiniteSet

LEMMA SameSteps ==
  ASSUME NEW r, NEW p
  PROVE Planner!StartPlanning(r) = StartPlanning(r) /\ Planner!PlanStep(r, p) = PlanStep(r, p)
<1> USE DEF Planner!First, First, Planner!Less, Less, Planner!Capped, Capped,
            Planner!MinOf, MinOf
<1>1. Planner!AssignMinimum(r, p) = AssignMinimum(r, p)
  BY Zenon DEF Planner!AssignMinimum, AssignMinimum, Planner!Minimum, Minimum
<1>2. Planner!KeepRunning(r, p) = KeepRunning(r, p)
  BY Zenon DEF Planner!KeepRunning, KeepRunning, Planner!MoreRun, MoreRun,
               Planner!Keep, Keep, Planner!Staying, Staying
<1>3. Planner!Give(r, p) = Give(r, p)
  BY Zenon DEF Planner!Give, Give, Planner!Share, Share
<1>4. /\ Planner!StartTrial(p) = StartTrial(p) /\ Planner!Weigh(r, p) = Weigh(r, p)
      /\ Planner!EndTrial(p) = EndTrial(p) /\ Planner!Finish(r, p) = Finish(r, p)
      /\ \A s, todo : Planner!Goto(p, s, todo) = Goto(p, s, todo)
  BY Zenon DEF Planner!StartTrial, StartTrial, Planner!Weigh, Weigh, Planner!EndTrial,
               EndTrial, Planner!Finish, Finish, Planner!Goto, Goto
<1>5. Planner!PlanStep(r, p) = PlanStep(r, p)
  BY <1>1, <1>2, <1>3, <1>4, Zenon DEF Planner!PlanStep, PlanStep
<1>6. Planner!StartPlanning(r) = StartPlanning(r)
  BY Zenon DEF Planner!StartPlanning, StartPlanning
<1> QED BY <1>5, <1>6

LEMMA SameRequest == Planner!Request = Request /\ Planner!Planning = Planning
<1>1. Planner!Request = Request
  BY Zenon DEF Planner!Request, Request, Planner!Optional, Optional
<1>2. Planner!Planning = Planning
  BY Zenon DEF Planner!Planning, Planning
<1> QED BY <1>1, <1>2

\* The recursion of PlannedReplicas as this module's operators state it.
Follows(r, f) ==
  f = [p \in Planning |-> IF p.step = "done" THEN [c \in Clusters |-> p.plan[c] + p.overflow[c]]
                          ELSE f[PlanStep(r, p)]]

LEMMA SameFollows ==
  ASSUME NEW r, NEW f PROVE Planner!Follows(r, f) <=> Follows(r, f)
<1>1. \A p : Planner!Outcome(p) = [c \in Clusters |-> p.plan[c] + p.overflow[c]]
  BY Zenon DEF Planner!Outcome
<1>2. \A p : Planner!PlanStep(r, p) = PlanStep(r, p)
  BY SameSteps
<1> QED BY <1>1, <1>2, SameRequest DEF Planner!Follows, Follows

LEMMA PlannedType ==
  ASSUME NEW r \in Request PROVE PlannedReplicas[r] \in [Clusters -> Int]
<1> DEFINE f == CHOOSE g : Follows(r, g)
<1>1. Follows(r, f)
  <2>1. \E g : Planner!Follows(r, g)
    BY PlannerAssumptions, SameRequest, Planner!SomeFollows
  <2> QED BY <2>1, SameFollows
<1>2. PlannedReplicas[r] = f[StartPlanning(r)]
  BY Zenon DEF PlannedReplicas, Follows
<1> HIDE DEF f
<1>3. Planner!Follows(r, f) /\ Planner!StartPlanning(r) = StartPlanning(r)
  BY <1>1, SameFollows, SameSteps
<1>4. f[StartPlanning(r)] \in [Clusters -> Int]
  BY <1>3, PlannerAssumptions, SameRequest, Planner!FollowsTyped
<1> QED BY <1>2, <1>4

-----------------------------------------------------------------------------
(* Types *)

LEMMA NowhereType ==
  Nowhere \in [Clusters -> Optional(Nat)] /\ Nowhere \in [Clusters -> Optional(Int)]
BY DEF Nowhere, Optional

LEMMA IdleType == Idle \in Worker
BY NowhereType DEF Idle, Worker

\* What is found out of one cluster.
LEMMA StateType ==
  ASSUME TypeOK, NEW c \in Clusters, NEW L \in Optional(Nat)
  PROVE Current(c, L) \in Optional(Nat) /\ Capacity(c, L) \in Optional(Int)
<1>1. member[c].running \in Nat /\ member[c].stuck \in Nat
  BY DEF TypeOK, Member
<1>2. L \subseteq Nat /\ \A m, n \in L : m = n
  BY DEF Optional
<1>3. Current(c, L) \in Optional(Nat)
  BY <1>1, <1>2 DEF Current, Optional
<1>4. ASSUME NEW k \in Capacity(c, L) PROVE \E n \in L : k = n - member[c].stuck
  BY <1>4 DEF Capacity, Estimate
<1>5. Capacity(c, L) \subseteq Int /\ \A k, l \in Capacity(c, L) : k = l
  <2> SUFFICES ASSUME NEW k \in Capacity(c, L), NEW l \in Capacity(c, L)
               PROVE k \in Int /\ k = l
    OBVIOUS
  <2>1. PICK n \in L : k = n - member[c].stuck
    BY <1>4
  <2>2. PICK m \in L : l = m - member[c].stuck
    BY <1>4
  <2> QED BY <1>1, <1>2, <2>1, <2>2
<1> QED BY <1>3, <1>5 DEF Optional

LEMMA ScheduleType ==
  ASSUME NEW w \in Worker PROVE Schedule(w) \in [Clusters -> Optional(Int)]
<1>1. RequestFor(w) \in Request
  <2>1. /\ w.total \in Nat /\ w.current \in [Clusters -> Optional(Nat)]
        /\ w.capacity \in [Clusters -> Optional(Int)]
        /\ Preference.wanted \cap w.names \in SUBSET Clusters
    BY PreferenceAssumption DEF Worker, Request
  <2> QED BY <2>1, PreferenceAssumption DEF RequestFor, Request
<1>2. PlannedReplicas[RequestFor(w)] \in [Clusters -> Int]
  BY <1>1, PlannedType
<1> DEFINE planned == PlannedReplicas[RequestFor(w)]
<1>3. Schedule(w) = [c \in Clusters |-> {n \in {planned[c]} : c \in w.names}]
  BY DEF Schedule
<1>4. planned \in [Clusters -> Int]
  BY <1>2
<1> HIDE DEF planned
<1>5. \A c \in Clusters : {n \in {planned[c]} : c \in w.names} \in Optional(Int)
  BY <1>4 DEF Optional
<1> QED BY <1>3, <1>5

LEMMA InitType == Init => TypeOK
<1> SUFFICES ASSUME Init PROVE TypeOK
  OBVIOUS
<1>1. NoMember \in Member
  BY DEF NoMember, Member
<1>2. total \in Nat /\ left \in [Events -> Nat]
  BY PreferenceAssumption, BudgetsAssumption DEF Init, Request
<1>3. override \in Override /\ placement \in Placement
  BY NowhereType DEF Init, Override, Placement
<1>4. store \in [Clusters -> Optional(Nat)] /\ {c \in Clusters : store[c] # {}} = {}
  BY NowhereType DEF Init, Nowhere
<1>5. seen \in [Informers -> SUBSET Clusters]
  BY DEF Init
<1> QED BY <1>1, <1>2, <1>3, <1>4, <1>5, IdleType DEF Init, TypeOK, Informers

LEMMA SpendType ==
  ASSUME TypeOK, NEW e \in Events, Spend(e) PROVE left' \in [Events -> Nat]
<1>1. left \in [Events -> Nat] /\ left[e] - 1 \in Nat
  BY DEF Spend, TypeOK
<1> QED BY <1>1 DEF Spend

LEMMA WorkType == ASSUME TypeOK, Work PROVE TypeOK'
<1> USE DEF apiVars, informerVars
<1>w. worker \in Worker /\ seen["pods"] \in SUBSET Clusters /\ total \in Nat
  BY DEF TypeOK, Informers
<1>1. CASE StartReconcile
  <2>1. Observe(seen["pods"]) \in Worker
    BY <1>w, NowhereType DEF Observe, Idle, Worker
  <2>2. worker' \in Worker /\ due' \in BOOLEAN
    BY <1>w, <1>1, <2>1 DEF StartReconcile, IsSynced
  <2> QED BY <1>1, <2>2 DEF StartReconcile, TypeOK
<1>2. CASE ComputeSchedule
  <2>1. Schedule(worker) \in [Clusters -> Optional(Int)]
    BY <1>w, ScheduleType
  <2>2. worker' \in Worker
    <3> DEFINE result == Schedule(worker)
    <3>1. worker' = [Idle EXCEPT !.step = "getPlacement", !.names = worker.names,
                                 !.result = result]
      BY <1>2 DEF ComputeSchedule
    <3>2. result \in [Clusters -> Optional(Int)]
      BY <2>1
    <3> HIDE DEF result
    <3> QED BY <1>w, <3>1, <3>2, IdleType DEF Worker
  <2> QED BY <1>2, <2>2 DEF ComputeSchedule, TypeOK
<1>3. CASE GetPlacement
  <2>1. worker' \in Worker
    BY <1>w, <1>3 DEF GetPlacement, Worker
  <2> QED BY <1>3, <2>1 DEF GetPlacement, TypeOK
<1>4. CASE SetPlacement
  <2>1. worker' \in Worker /\ placement' \in Placement
    BY <1>w, <1>4 DEF SetPlacement, Worker, Placement
  <2> QED BY <1>4, <2>1 DEF SetPlacement, TypeOK
<1>5. CASE GetOverride
  <2>1. worker' \in Worker
    BY <1>w, <1>5, IdleType DEF GetOverride, Worker
  <2> QED BY <1>5, <2>1 DEF GetOverride, TypeOK
<1>6. CASE SetOverride
  <2>1. worker' \in Worker /\ override' \in Override
    BY <1>w, <1>6, IdleType DEF SetOverride, Worker, Override
  <2> QED BY <1>6, <2>1 DEF SetOverride, TypeOK
<1>7. ASSUME NEW c \in Clusters, ObserveCluster(c) PROVE TypeOK'
  <2> DEFINE current  == [worker.current EXCEPT ![c] = Current(c, store[c])]
             capacity == [worker.capacity EXCEPT ![c] = Capacity(c, store[c])]
  <2>1. store[c] \in Optional(Nat)
    BY DEF TypeOK
  <2>2. Current(c, store[c]) \in Optional(Nat) /\ Capacity(c, store[c]) \in Optional(Int)
    BY <2>1, StateType
  <2>3. current \in [Clusters -> Optional(Nat)] /\ capacity \in [Clusters -> Optional(Int)]
    BY <1>w, <2>2 DEF Worker
  <2>4. worker' = [worker EXCEPT !.todo = worker.todo \ {c}, !.current = current,
                                 !.capacity = capacity]
    BY <1>7 DEF ObserveCluster
  <2> HIDE DEF current, capacity
  <2>5. worker' \in Worker
    BY <1>w, <2>3, <2>4 DEF Worker
  <2> QED BY <1>7, <2>5 DEF ObserveCluster, TypeOK
<1> QED BY <1>1, <1>2, <1>3, <1>4, <1>5, <1>6, <1>7 DEF Work

LEMMA InformerType ==
  ASSUME TypeOK, NEW c \in Clusters, SyncTarget(c) \/ \E i \in Informers : FollowCluster(i, c)
  PROVE TypeOK'
<1> USE DEF apiVars
<1>s. /\ seen \in [Informers -> SUBSET Clusters] /\ store \in [Clusters -> Optional(Nat)]
      /\ \A d \in Clusters : store[d] # {} => d \in listed
      /\ listed \subseteq seen["targets"] /\ "targets" \in Informers
  BY DEF TypeOK, Informers
<1>1. CASE SyncTarget(c)
  <2>1. InMember(c) \in Optional(Nat)
    BY DEF InMember, TypeOK, Member, Optional
  <2>2. store' \in [Clusters -> Optional(Nat)] /\ listed' \subseteq seen'["targets"]
    BY <1>s, <1>1, <2>1 DEF SyncTarget
  <2>3. \A d \in Clusters : store'[d] # {} => d \in listed'
    BY <1>s, <1>1 DEF SyncTarget
  <2>4. due' \in BOOLEAN
    BY <1>1, Zenon DEF SyncTarget, TypeOK
  <2> QED BY <1>1, <2>2, <2>3, <2>4 DEF SyncTarget, TypeOK
<1>2. ASSUME NEW i \in Informers, FollowCluster(i, c) PROVE TypeOK'
  <2>1. CASE c \in ready
    <3>1. seen' \in [Informers -> SUBSET Clusters] /\ seen["targets"] \subseteq seen'["targets"]
      BY <1>s, <1>2, <2>1 DEF FollowCluster
    <3> QED BY <1>2, <2>1, <3>1 DEF FollowCluster, TypeOK, informerVars
  <2>2. CASE c \notin ready /\ i = "targets"
    <3>1. /\ seen' = [seen EXCEPT !["targets"] = seen["targets"] \ {c}]
          /\ store' = [store EXCEPT ![c] = {}] /\ listed' = listed \ {c}
      BY <1>2, <2>2 DEF FollowCluster, Forget
    <3>2. {} \in Optional(Nat)
      BY DEF Optional
    <3>3. /\ seen' \in [Informers -> SUBSET Clusters] /\ listed' \subseteq seen'["targets"]
          /\ store' \in [Clusters -> Optional(Nat)]
      BY <1>s, <3>1, <3>2
    <3>4. \A d \in Clusters : store'[d] # {} => d \in listed'
      BY <1>s, <3>1
    <3> QED BY <1>2, <3>3, <3>4 DEF FollowCluster, TypeOK
  <2>3. CASE c \notin ready /\ i # "targets"
    <3>1. seen' \in [Informers -> SUBSET Clusters] /\ seen'["targets"] = seen["targets"]
      BY <1>s, <1>2, <2>3 DEF FollowCluster
    <3>2. UNCHANGED <<store, listed>>
      BY <1>2, <2>3 DEF FollowCluster, Forget
    <3> QED BY <1>2, <3>1, <3>2 DEF FollowCluster, TypeOK
  <2> QED BY <2>1, <2>2, <2>3
<1> QED BY <1>1, <1>2

LEMMA MemberType == ASSUME TypeOK, NEW c \in Clusters, MemberStep(c) PROVE TypeOK'
<1> USE DEF apiVars, informerVars
<1>m. /\ member \in [Clusters -> Member] /\ member[c].replicas \in Nat
      /\ member[c].running \in Nat /\ member[c].stuck \in Nat /\ Room[c] \in Nat
  BY RoomAssumption DEF TypeOK, Member
<1>d. due \in BOOLEAN /\ (StatusEvent(c) => due' \in BOOLEAN)
  BY Zenon DEF TypeOK, StatusEvent
<1>1. CASE SyncMember(c)
  <2>1. CASE placement.live /\ c \in placement.names
    <3>1. PICK n \in Applied(c) :
            /\ n >= 0
            /\ member' = [member EXCEPT ![c].live = TRUE, ![c].replicas = n,
                                        ![c].announced = FALSE]
      BY <1>1, <2>1 DEF SyncMember
    <3>2. n \in Nat
      <4>1. override.replicas[c] \in Optional(Int)
        BY DEF TypeOK, Override
      <4>2. Applied(c) \subseteq Int
        BY <4>1, TemplateAssumption DEF Applied, Optional
      <4> QED BY <3>1, <4>2
    <3>3. member' \in [Clusters -> Member]
      <4> DEFINE m == [member[c] EXCEPT !.live = TRUE, !.replicas = n, !.announced = FALSE]
      <4>1. m \in Member
        BY <1>m, <3>2 DEF Member
      <4>2. member' = [member EXCEPT ![c] = m]
        BY <1>m, <3>1 DEF Member
      <4> HIDE DEF m
      <4> QED BY <1>m, <4>1, <4>2
    <3> QED BY <1>1, <3>3 DEF SyncMember, TypeOK
  <2>2. CASE ~(placement.live /\ c \in placement.names)
    <3>1. NoMember \in Member
      BY DEF Member, NoMember
    <3>2. member' \in [Clusters -> Member]
      <4>1. member' = [member EXCEPT ![c] = NoMember]
        BY <1>1, <2>2 DEF SyncMember
      <4> QED BY <1>m, <3>1, <4>1
    <3> QED BY <1>1, <3>2 DEF SyncMember, TypeOK
  <2> QED BY <2>1, <2>2
<1>2. CASE StartPod(c)
  <2>1. member' \in [Clusters -> Member]
    BY <1>m, <1>2 DEF StartPod, Member
  <2> QED BY <1>d, <1>2, <2>1 DEF StartPod, TypeOK
<1>3. CASE StopPods(c)
  <2> DEFINE run == MinOf(member[c].running, member[c].replicas)
  <2>1. run \in Nat /\ member[c].replicas - run \in Nat
    BY <1>m DEF MinOf
  <2>2. member' = [member EXCEPT ![c].running = run,
                                 ![c].stuck = member[c].replicas - run]
    BY <1>3 DEF StopPods
  <2> HIDE DEF run
  <2>3. member' \in [Clusters -> Member]
    BY <1>m, <2>1, <2>2 DEF Member
  <2> QED BY <1>d, <1>3, <2>3 DEF StopPods, TypeOK
<1>4. CASE GetStuck(c)
  <2>1. member[c].replicas - member[c].running \in Nat
    BY <1>m, <1>4 DEF GetStuck
  <2>2. member' \in [Clusters -> Member]
    BY <1>m, <1>4, <2>1 DEF GetStuck, Member
  <2> QED BY <1>4, <2>2 DEF GetStuck, TypeOK
<1>5. CASE Announce(c)
  <2>1. member' \in [Clusters -> Member]
    BY <1>m, <1>5 DEF Announce, Member
  <2> QED BY <1>d, <1>5, <2>1 DEF Announce, TypeOK
<1> QED BY <1>1, <1>2, <1>3, <1>4, <1>5 DEF MemberStep

LEMMA EnvironmentType == ASSUME TypeOK, Environment PROVE TypeOK'
<1> USE DEF informerVars, apiVars
<1>w. worker \in Worker
  BY DEF TypeOK
<1>1. CASE CreateTemplate
  BY <1>1 DEF CreateTemplate, TypeOK
<1>2. CASE Scale
  <2>1. left' \in [Events -> Nat] /\ total' \in Nat
    BY <1>2, SpendType DEF Scale, Events
  <2> QED BY <1>2, <2>1 DEF Scale, TypeOK
<1>3. CASE EditPlacement
  <2>1. left' \in [Events -> Nat]
    BY <1>3, SpendType DEF EditPlacement, Events
  <2>2. worker' \in Worker /\ placement' \in Placement
    BY <1>w, <1>3 DEF EditPlacement, Worker, Placement
  <2> QED BY <1>3, <2>1, <2>2 DEF EditPlacement, TypeOK
<1>4. CASE EditOverride
  <2>1. left' \in [Events -> Nat]
    BY <1>4, SpendType DEF EditOverride, Events
  <2>2. worker' \in Worker /\ override' \in Override
    BY <1>w, <1>4, NowhereType DEF EditOverride, Worker, Override
  <2> QED BY <1>4, <2>1, <2>2 DEF EditOverride, TypeOK
<1>5. ASSUME NEW c \in Clusters, FlipReady(c) PROVE TypeOK'
  <2>1. left' \in [Events -> Nat]
    BY <1>5, SpendType DEF FlipReady, Events
  <2>2. ready' \in SUBSET Clusters
    BY <1>5 DEF FlipReady, TypeOK
  <2> QED BY <1>5, <2>1, <2>2 DEF FlipReady, TypeOK
<1> QED BY <1>1, <1>2, <1>3, <1>4, <1>5 DEF Environment

LEMMA NextType == ASSUME TypeOK, [Next]_vars PROVE TypeOK'
<1>1. CASE UNCHANGED vars
  BY <1>1 DEF vars, apiVars, informerVars, TypeOK
<1>2. CASE Fail
  <2>1. left' \in [Events -> Nat]
    <3>1. CASE UNCHANGED left
      BY <3>1 DEF TypeOK
    <3>2. CASE Spend("fault")
      BY <3>2, SpendType DEF Events
    <3> QED BY <1>2, <3>1, <3>2 DEF Fail
  <2> QED BY <1>2, <2>1, IdleType DEF Fail, Redeliver, TypeOK, apiVars, informerVars
<1> QED BY <1>1, <1>2, WorkType, InformerType, MemberType, EnvironmentType
        DEF Next, Informing

\* Every variable of the scheduler, its informers and the members keeps its type,
\* and stores are those of clusters that are seen (scheduler.go:93-390), whatever
\* the planner computes for what is observed: the planner's recursion is what
\* takes an argument, for it must be defined and have an end.
THEOREM SchedulingTypeCorrect == Spec => []TypeOK
BY InitType, NextType, PTL DEF Spec

-----------------------------------------------------------------------------
(* Placement and override *)

\* The worker as far as this argument goes: fields that do not matter may have any
\* value.
NamesOK ==
  /\ seen \in [Informers -> SUBSET Clusters]
  /\ worker \in [step : {"idle", "observe", "getPlacement", "setPlacement",
                         "getOverride", "setOverride"}, total : {worker.total},
                 todo : {worker.todo}, names : SUBSET Clusters,
                 current : {worker.current}, capacity : {worker.capacity},
                 result : {worker.result}, stale : {worker.stale}]

LEMMA NamesTyped == ASSUME TypeOK PROVE NamesOK
BY DEF TypeOK, Worker, NamesOK

Planned == worker.step \notin {"idle", "observe"}

\* The plan has replicas for the clusters that were listed and no others.
ResultOK ==
  Planned => worker.names = {c \in Clusters : worker.result[c] # {}}

PlacementRead ==
  worker.step = "getOverride" /\ ~due =>
    placement.live /\ placement.names = worker.names

Pairing == ResultOK /\ PlacementRead /\ PairedAtRest

LEMMA InitPairing == Init => Pairing
BY DEF Init, Pairing, ResultOK, Planned, PlacementRead, PairedAtRest, Idle

LEMMA WorkPairing == ASSUME TypeOK, Pairing, Work PROVE Pairing'
<1>0. NamesOK
  BY NamesTyped
<1> USE DEF NamesOK, Pairing, ResultOK, Planned, PlacementRead, PairedAtRest, apiVars,
            informerVars
<1>1. CASE StartReconcile
  <2>1. seen["pods"] \in SUBSET Clusters
    BY <1>0 DEF Informers
  <2>2. CASE IsSynced /\ template /\ seen["pods"] # {}
    <3>1. worker' = Observe(seen["pods"])
      BY <1>1, <2>2 DEF StartReconcile
    <3> QED BY <2>1, <3>1 DEF Observe, Idle
  <2>3. CASE ~(IsSynced /\ template /\ seen["pods"] # {})
    <3>1. worker' = worker /\ worker.step = "idle" /\ UNCHANGED <<apiVars, seen>>
      BY <1>1, <2>3 DEF StartReconcile
    <3>2. ~due' => ~template \/ seen["pods"] = {}
      BY <1>1, <2>3 DEF StartReconcile, IsSynced
    <3> QED BY <3>1, <3>2
  <2> QED BY <2>2, <2>3
<1>2. CASE ComputeSchedule
  <2>1. worker' = [Idle EXCEPT !.step = "getPlacement", !.names = worker.names,
                               !.result = Schedule(worker)]
    BY <1>2 DEF ComputeSchedule
  <2>2. \A c \in Clusters : Schedule(worker)[c] # {} <=> c \in worker.names
    BY DEF Schedule
  <2>3. worker.names = {c \in Clusters : Schedule(worker)[c] # {}}
    BY <1>0, <2>2
  <2>4. /\ worker'.step = "getPlacement" /\ worker'.names = worker.names
        /\ worker'.result = Schedule(worker)
    BY <2>1 DEF Idle
  <2> QED BY <2>3, <2>4
<1>3. CASE GetPlacement
  BY <1>0, <1>3 DEF GetPlacement
<1>4. CASE SetPlacement
  BY <1>0, <1>4 DEF SetPlacement
<1>5. CASE GetOverride
  <2>1. CASE override.live /\ override.replicas = worker.result
    BY <1>5, <2>1 DEF GetOverride, Idle
  <2>2. CASE ~(override.live /\ override.replicas = worker.result)
    BY <1>0, <1>5, <2>2 DEF GetOverride
  <2> QED BY <2>1, <2>2
<1>6. CASE SetOverride
  BY <1>6 DEF SetOverride, Idle
<1>7. ASSUME NEW c \in Clusters, ObserveCluster(c) PROVE Pairing'
  BY <1>0, <1>7 DEF ObserveCluster
<1> QED BY <1>1, <1>2, <1>3, <1>4, <1>5, <1>6, <1>7 DEF Work

LEMMA NextPairing == ASSUME TypeOK, Pairing, [Next]_vars PROVE Pairing'
<1>0. NamesOK
  BY NamesTyped
<1> USE DEF NamesOK, Pairing, ResultOK, Planned, PlacementRead, PairedAtRest, apiVars,
            informerVars
<1>1. CASE UNCHANGED vars
  BY <1>1 DEF vars
<1>2. CASE Fail
  BY <1>2 DEF Fail, Redeliver, Idle
<1>3. ASSUME NEW i \in Informers, NEW c \in Clusters, FollowCluster(i, c) PROVE Pairing'
  BY <1>3 DEF FollowCluster
<1>4. ASSUME NEW c \in Clusters, SyncTarget(c) PROVE Pairing'
  BY <1>4 DEF SyncTarget
<1>5. CASE CreateTemplate \/ Scale
  BY <1>5 DEF CreateTemplate, Scale
<1>6. CASE EditPlacement \/ EditOverride
  <2>1. PICK stale : worker' = [worker EXCEPT !.stale = stale]
    BY <1>6 DEF EditPlacement, EditOverride
  <2>2. /\ worker'.step = worker.step /\ worker'.names = worker.names
        /\ worker'.result = worker.result /\ due'
    BY <1>0, <1>6, <2>1 DEF EditPlacement, EditOverride
  <2> QED BY <2>2
<1>7. ASSUME NEW c \in Clusters, FlipReady(c) PROVE Pairing'
  BY <1>7 DEF FlipReady
<1>8. ASSUME NEW c \in Clusters, MemberStep(c) PROVE Pairing'
  <2>1. UNCHANGED <<apiVars, informerVars, worker>>
    BY <1>8 DEF MemberStep, SyncMember, StartPod, StopPods, GetStuck, Announce
  <2>2. UNCHANGED due \/ StatusEvent(c)
    BY <1>8 DEF MemberStep, SyncMember, StartPod, StopPods, GetStuck, Announce
  <2>3. due => due'
    BY <2>2, Zenon DEF StatusEvent
  <2> QED BY <2>1, <2>3
<1> QED BY <1>1, <1>2, <1>3, <1>4, <1>5, <1>6, <1>7, <1>8, WorkPairing
        DEF Next, Informing, Environment

\* Between reconciliations that are not to be repeated, every cluster that the
\* target is placed in has its replicas in the override, and no other
\* (scheduler.go:233-241), whatever the planner computes and whichever calls
\* fail, for any clusters and budgets.
THEOREM PlacementAndOverridePaired == Spec => []PairedAtRest
<1>1. TypeOK /\ Pairing => PairedAtRest
  BY DEF Pairing
<1>2. Init => TypeOK /\ Pairing
  BY InitType, InitPairing
<1>3. TypeOK /\ Pairing /\ [Next]_vars => (TypeOK /\ Pairing)'
  BY NextType, NextPairing
<1> QED BY <1>1, <1>2, <1>3, PTL DEF Spec

-----------------------------------------------------------------------------
(* What is written at rest is what would be planned *)

Placed(c) == placement.live /\ c \in placement.names

\* Pods that got stuck are still to be reported, or c is left by the target: in
\* either case an event is still to come.
Excused(c) == /\ store[c] # {}
              /\ \/ member[c].stuck > 0 /\ ~member[c].announced
                 \/ ~Placed(c)

Exact(w, c) == /\ w.current[c] = Current(c, store[c])
               /\ w.capacity[c] = Capacity(c, store[c])

FreshIn(w, c) == IF c \in w.names THEN Exact(w, c) \/ Excused(c)
                 ELSE w.current[c] = {} /\ w.capacity[c] = {}

\* A worker that could have planned now, but for events that are still to come.
Fresh(w) == /\ w.names = seen["pods"] /\ w.total = total
            /\ \A c \in Clusters : FreshIn(w, c)

\* What has been reported are all the pods that there should be.
Reported ==
  \A c \in Clusters :
    member[c].announced => member[c].running + member[c].stuck >= member[c].replicas

ObservesFresh ==
  worker.step = "observe" /\ ~due =>
    /\ worker.names = seen["pods"] /\ worker.total = total
    /\ worker.todo \subseteq worker.names
    /\ \A c \in Clusters \ worker.todo : FreshIn(worker, c)

PlansFresh ==
  Planned /\ ~due =>
    \E w \in Worker : Fresh(w) /\ worker.names = w.names /\ worker.result = Schedule(w)

WrittenFresh ==
  worker.step = "idle" /\ ~due /\ template /\ seen["pods"] # {} =>
    /\ placement.live
    /\ \E w \in Worker : /\ Fresh(w) /\ placement.names = w.names
                         /\ override.replicas = Schedule(w)

Freshness == Reported /\ ObservesFresh /\ PlansFresh /\ WrittenFresh

LEMMA InitFresh == Init => Freshness
BY DEF Init, Freshness, Reported, ObservesFresh, PlansFresh, WrittenFresh, Planned,
       Idle, NoMember

LEMMA ReportedNext ==
  ASSUME TypeOK, Reported, [Next]_vars PROVE Reported'
<1>1. CASE member' = member
  BY <1>1 DEF Reported
<1>2. ASSUME NEW c \in Clusters, MemberStep(c) PROVE Reported'
  <2>m. /\ member \in [Clusters -> Member] /\ member[c].replicas \in Nat
        /\ member[c].running \in Nat /\ member[c].stuck \in Nat
    BY DEF TypeOK, Member
  <2> SUFFICES member'[c].announced =>
                 member'[c].running + member'[c].stuck >= member'[c].replicas
    <3>1. \A d \in Clusters : d # c => member'[d] = member[d]
      BY <1>2, <2>m DEF MemberStep, SyncMember, StartPod, StopPods, GetStuck, Announce
    <3> QED BY <3>1 DEF Reported
  <2> USE DEF Member
  <2>1. CASE SyncMember(c)
    <3>1. CASE Placed(c)
      <4>1. PICK n \in Applied(c) :
              member' = [member EXCEPT ![c].live = TRUE, ![c].replicas = n,
                                       ![c].announced = FALSE]
        BY <2>1, <3>1 DEF SyncMember, Placed
      <4>2. member'[c].announced = FALSE
        BY <2>m, <4>1
      <4> QED BY <4>2
    <3>2. CASE ~Placed(c)
      <4>1. member' = [member EXCEPT ![c] = NoMember]
        BY <2>1, <3>2 DEF SyncMember, Placed
      <4>2. member'[c].announced = FALSE
        BY <2>m, <4>1 DEF NoMember
      <4> QED BY <4>2
    <3> QED BY <3>1, <3>2
  <2>2. CASE StartPod(c)
    BY <2>m, <2>2 DEF StartPod, Reported
  <2>3. CASE StopPods(c)
    <3> DEFINE run == MinOf(member[c].running, member[c].replicas)
    <3>1. run \in Nat
      BY <2>m DEF MinOf
    <3>2. member' = [member EXCEPT ![c].running = run,
                                   ![c].stuck = member[c].replicas - run]
      BY <2>3 DEF StopPods
    <3> HIDE DEF run
    <3> QED BY <2>m, <3>1, <3>2
  <2>4. CASE GetStuck(c)
    BY <2>m, <2>4 DEF GetStuck
  <2>5. CASE Announce(c)
    BY <2>m, <2>5 DEF Announce
  <2> QED BY <1>2, <2>1, <2>2, <2>3, <2>4, <2>5 DEF MemberStep
<1>3. member' = member \/ \E c \in Clusters : MemberStep(c)
  BY DEF Next, vars, Work, StartReconcile, ComputeSchedule, GetPlacement, SetPlacement,
         GetOverride, SetOverride, ObserveCluster, Fail, Informing, FollowCluster,
         SyncTarget, Environment, CreateTemplate, Scale, EditPlacement, EditOverride,
         FlipReady
<1> QED BY <1>1, <1>2, <1>3

\* A step after which the preference is not to be delivered changes nothing that
\* was planned from, but for the members.
LEMMA QuietStep ==
  ASSUME TypeOK, [Next]_vars, ~due'
  PROVE /\ UNCHANGED <<total, template, placement, override, seen, store>>
        /\ member' = member \/ \E c \in Clusters : MemberStep(c)
<1> USE DEF apiVars, informerVars
<1>1. CASE UNCHANGED vars
  BY <1>1 DEF vars
<1>2. CASE Work
  BY <1>2 DEF Work, StartReconcile, ComputeSchedule, GetPlacement, SetPlacement,
              GetOverride, SetOverride, ObserveCluster
<1>3. CASE Fail
  BY <1>3 DEF Fail, Redeliver
<1>4. ASSUME NEW c \in Clusters, SyncTarget(c) PROVE UNCHANGED <<store, member>>
  <2>1. store[c] = InMember(c) /\ store' = [store EXCEPT ![c] = InMember(c)]
    BY <1>4, Zenon DEF SyncTarget
  <2>2. store \in [Clusters -> Optional(Nat)]
    BY DEF TypeOK
  <2> QED BY <1>4, <2>1, <2>2 DEF SyncTarget
<1>5. ASSUME NEW c \in Clusters, SyncTarget(c) PROVE UNCHANGED <<apiVars, seen>>
  BY <1>5 DEF SyncTarget
<1>6. ASSUME NEW i \in Informers, NEW c \in Clusters, FollowCluster(i, c) PROVE FALSE
  BY <1>6 DEF FollowCluster
<1>7. CASE Environment
  BY <1>7 DEF Environment, CreateTemplate, Scale, EditPlacement, EditOverride, FlipReady
<1>8. ASSUME NEW c \in Clusters, MemberStep(c) PROVE UNCHANGED <<apiVars, informerVars>>
  BY <1>8 DEF MemberStep, SyncMember, StartPod, StopPods, GetStuck, Announce
<1> QED BY <1>1, <1>2, <1>3, <1>4, <1>5, <1>6, <1>7, <1>8 DEF Next, Informing

\* After such a step, what is to be found out of a cluster is as before, or an
\* event is still to come.
LEMMA QuietMember ==
  ASSUME TypeOK, Reported, [Next]_vars, ~due', NEW c \in Clusters
  PROVE /\ Excused(c) => Excused(c)'
        /\ \/ Excused(c)'
           \/ /\ Current(c, store[c])' = Current(c, store[c])
              /\ Capacity(c, store[c])' = Capacity(c, store[c])
<1>1. /\ UNCHANGED <<placement, store>>
      /\ member' = member \/ \E d \in Clusters : MemberStep(d)
  BY QuietStep
<1>m. /\ member \in [Clusters -> Member] /\ member[c].replicas \in Nat
      /\ member[c].running \in Nat /\ member[c].stuck \in Nat
      /\ store[c] # {} => c \in listed
  BY DEF TypeOK, Member
<1>2. CASE /\ member'[c].running = member[c].running
           /\ member'[c].stuck = member[c].stuck
           /\ member'[c].announced => member[c].announced
  BY <1>1, <1>2 DEF Excused, Placed, Current, Capacity, Estimate
<1>3. CASE store[c] = {}
  BY <1>1, <1>3 DEF Excused, Current, Capacity
<1>4. CASE store[c] # {} /\ MemberStep(c)
  <2> USE DEF Member
  <2>1. CASE SyncMember(c) /\ Placed(c)
    <3>1. PICK n \in Applied(c) :
            member' = [member EXCEPT ![c].live = TRUE, ![c].replicas = n,
                                     ![c].announced = FALSE]
      BY <2>1 DEF SyncMember, Placed
    <3> QED BY <1>m, <1>2, <3>1
  <2>2. CASE SyncMember(c) /\ ~Placed(c)
    BY <1>1, <1>4, <2>2 DEF Excused, Placed
  <2>3. CASE StartPod(c) \/ StopPods(c) \/ Announce(c)
    <3>1. due'
      BY <1>4, <1>m, <2>3, Zenon DEF StartPod, StopPods, Announce, StatusEvent
    <3> QED BY <3>1
  <2>4. CASE GetStuck(c)
    <3>1. ~member[c].announced
      BY <1>m, <2>4 DEF GetStuck, Reported
    <3>2. member'[c].stuck > 0 /\ member'[c].announced = member[c].announced
      BY <1>m, <2>4 DEF GetStuck
    <3> QED BY <1>1, <1>4, <3>1, <3>2 DEF Excused
  <2> QED BY <1>4, <2>1, <2>2, <2>3, <2>4 DEF MemberStep
<1>5. ASSUME NEW d \in Clusters, MemberStep(d), d # c PROVE member'[c] = member[c]
  BY <1>m, <1>5 DEF MemberStep, SyncMember, StartPod, StopPods, GetStuck, Announce
<1> QED BY <1>1, <1>2, <1>3, <1>4, <1>5

LEMMA StaysFresh ==
  ASSUME TypeOK, Reported, [Next]_vars, ~due', NEW w
  PROVE /\ \A c \in Clusters : FreshIn(w, c) => FreshIn(w, c)'
        /\ Fresh(w) => Fresh(w)'
<1>1. UNCHANGED <<seen, total>>
  BY QuietStep
<1>2. ASSUME NEW c \in Clusters, FreshIn(w, c) PROVE FreshIn(w, c)'
  BY <1>2, QuietMember DEF FreshIn, Exact
<1> QED BY <1>1, <1>2 DEF Fresh

LEMMA WorkFresh ==
  ASSUME TypeOK, Pairing, Freshness, Work, ~due'
  PROVE ObservesFresh' /\ PlansFresh' /\ WrittenFresh'
<1>n. [Next]_vars /\ Reported /\ worker \in Worker
  BY DEF Next, Freshness, TypeOK
<1>q. /\ UNCHANGED <<total, template, placement, override, seen, store>>
      /\ \A w : Fresh(w) => Fresh(w)'
  BY <1>n, QuietStep, StaysFresh
<1>m. member' = member
  BY DEF Work, StartReconcile, ComputeSchedule, GetPlacement, SetPlacement, GetOverride,
         SetOverride, ObserveCluster
<1>1. CASE StartReconcile
  <2>1. CASE IsSynced /\ template /\ seen["pods"] # {}
    <3>1. worker' = Observe(seen["pods"])
      BY <1>1, <2>1 DEF StartReconcile
    <3>2. /\ worker'.step = "observe" /\ worker'.names = seen["pods"]
          /\ worker'.todo = seen["pods"] /\ worker'.total = total
          /\ worker'.current = Nowhere /\ worker'.capacity = Nowhere
      BY <3>1 DEF Observe, Idle
    <3>3. \A c \in Clusters \ worker'.todo : FreshIn(worker, c)'
      BY <3>2 DEF FreshIn, Nowhere
    <3>4. ObservesFresh'
      BY <1>q, <3>2, <3>3 DEF ObservesFresh
    <3> QED BY <3>2, <3>4 DEF PlansFresh, Planned, WrittenFresh
  <2>2. CASE ~(IsSynced /\ template /\ seen["pods"] # {})
    <3>1. worker' = worker /\ worker.step = "idle"
      BY <1>1, <2>2 DEF StartReconcile
    <3>2. ~template' \/ seen'["pods"] = {}
      BY <1>1, <1>q, <2>2 DEF StartReconcile, IsSynced
    <3> QED BY <3>1, <3>2 DEF ObservesFresh, PlansFresh, Planned, WrittenFresh
  <2> QED BY <2>1, <2>2
<1>2. ASSUME NEW c \in Clusters, ObserveCluster(c)
      PROVE ObservesFresh' /\ PlansFresh' /\ WrittenFresh'
  <2>1. /\ worker.step = "observe" /\ ~due /\ worker'.step = "observe"
        /\ worker'.todo = worker.todo \ {c} /\ worker'.names = worker.names
        /\ worker'.total = worker.total
        /\ worker'.current[c] = Current(c, store[c])
        /\ worker'.capacity[c] = Capacity(c, store[c])
        /\ \A d \in Clusters \ {c} : /\ worker'.current[d] = worker.current[d]
                                     /\ worker'.capacity[d] = worker.capacity[d]
    BY <1>2, <1>n DEF ObserveCluster, Worker
  <2>2. /\ worker.names = seen["pods"] /\ worker.total = total
        /\ worker.todo \subseteq worker.names /\ c \in worker.names
    BY <1>2, <2>1 DEF Freshness, ObservesFresh, ObserveCluster
  <2>3. FreshIn(worker, c)'
    BY <1>q, <1>m, <2>1, <2>2 DEF FreshIn, Exact, Current, Capacity, Estimate
  <2>4. ASSUME NEW d \in Clusters \ {c}, FreshIn(worker, d) PROVE FreshIn(worker, d)'
    BY <1>q, <1>m, <2>1, <2>4
       DEF FreshIn, Exact, Excused, Placed, Current, Capacity, Estimate
  <2>5. \A d \in Clusters \ worker'.todo : FreshIn(worker, d)'
    BY <2>1, <2>3, <2>4 DEF Freshness, ObservesFresh
  <2>6. ObservesFresh'
    BY <1>q, <2>1, <2>2, <2>5 DEF ObservesFresh
  <2> QED BY <2>1, <2>6 DEF PlansFresh, Planned, WrittenFresh
<1>3. CASE ComputeSchedule
  <2>1. /\ worker.step = "observe" /\ ~due /\ worker.todo = {}
        /\ worker' = [Idle EXCEPT !.step = "getPlacement", !.names = worker.names,
                                  !.result = Schedule(worker)]
    BY <1>3 DEF ComputeSchedule
  <2>2. Fresh(worker)
    BY <2>1 DEF Freshness, ObservesFresh, Fresh
  <2>3. PICK w \in Worker : w = worker
    BY <1>n
  <2>4. Fresh(w)'
    BY <1>q, <2>2, <2>3
  <2>5. /\ worker'.step = "getPlacement" /\ worker'.names = w.names
        /\ worker'.result = Schedule(w)
    BY <2>1, <2>3 DEF Idle
  <2>6. Schedule(w)' = Schedule(w)
    BY DEF Schedule, RequestFor
  <2>7. PlansFresh'
    BY <2>4, <2>5, <2>6 DEF PlansFresh
  <2> QED BY <2>5, <2>7 DEF ObservesFresh, WrittenFresh
<1>4. ASSUME worker.step \in {"getPlacement", "setPlacement", "getOverride", "setOverride"},
             worker'.step \in {"getPlacement", "setPlacement", "getOverride", "setOverride"},
             ~due, worker'.names = worker.names, worker'.result = worker.result
      PROVE ObservesFresh' /\ PlansFresh' /\ WrittenFresh'
  <2>1. PICK w \in Worker : /\ Fresh(w) /\ worker.names = w.names
                            /\ worker.result = Schedule(w)
    BY <1>4 DEF Freshness, PlansFresh, Planned
  <2>2. Schedule(w)' = Schedule(w)
    BY DEF Schedule, RequestFor
  <2>3. PlansFresh'
    BY <1>4, <1>q, <2>1, <2>2 DEF PlansFresh
  <2> QED BY <1>4, <2>3 DEF ObservesFresh, WrittenFresh
<1>5. CASE GetPlacement
  BY <1>4, <1>5, <1>n DEF GetPlacement, Worker
<1>6. CASE GetOverride /\ ~(override.live /\ override.replicas = worker.result)
  BY <1>4, <1>6, <1>n DEF GetOverride, Worker
<1>7. CASE GetOverride /\ override.live /\ override.replicas = worker.result
  <2>1. worker.step = "getOverride" /\ ~due /\ worker' = Idle
    BY <1>7 DEF GetOverride
  <2>2. PICK w \in Worker : /\ Fresh(w) /\ worker.names = w.names
                            /\ worker.result = Schedule(w)
    BY <2>1 DEF Freshness, PlansFresh, Planned
  <2>3. placement.live /\ placement.names = w.names
    BY <2>1, <2>2 DEF Pairing, PlacementRead
  <2>4. Schedule(w)' = Schedule(w)
    BY DEF Schedule, RequestFor
  <2>5. WrittenFresh'
    BY <1>q, <1>7, <2>2, <2>3, <2>4 DEF WrittenFresh
  <2> QED BY <2>1, <2>5 DEF ObservesFresh, PlansFresh, Planned, Idle
<1>8. CASE SetPlacement \/ SetOverride
  BY <1>8 DEF SetPlacement, SetOverride
<1> QED BY <1>1, <1>2, <1>3, <1>5, <1>6, <1>7, <1>8 DEF Work

LEMMA NextFresh ==
  ASSUME TypeOK, Pairing, Freshness, [Next]_vars PROVE Freshness'
<1>1. Reported'
  BY ReportedNext DEF Freshness
<1>2. CASE due'
  BY <1>1, <1>2 DEF Freshness, ObservesFresh, PlansFresh, WrittenFresh
<1>3. CASE ~due' /\ Work
  BY <1>1, <1>3, WorkFresh DEF Freshness
<1>4. CASE ~due' /\ ~Work
  <2>q. /\ UNCHANGED <<total, template, placement, override, seen, store>>
        /\ \A w : Fresh(w) => Fresh(w)'
        /\ \A w : \A c \in Clusters : FreshIn(w, c) => FreshIn(w, c)'
    BY <1>4, QuietStep, StaysFresh DEF Freshness
  <2>1. worker' = worker /\ ~due
    <3> USE DEF apiVars, informerVars
    <3>1. CASE UNCHANGED vars
      BY <1>4, <3>1 DEF vars
    <3>2. ~Fail
      BY <1>4 DEF Fail, Redeliver
    <3>3. ASSUME NEW c \in Clusters, SyncTarget(c) PROVE worker' = worker /\ ~due
      BY <1>4, <3>3 DEF SyncTarget
    <3>4. \A i \in Informers, c \in Clusters : ~FollowCluster(i, c)
      BY <1>4 DEF FollowCluster
    <3>5. CASE Environment
      BY <1>4, <3>5
         DEF Environment, CreateTemplate, Scale, EditPlacement, EditOverride, FlipReady
    <3>6. ASSUME NEW c \in Clusters, MemberStep(c) PROVE worker' = worker /\ ~due
      <4>1. worker' = worker /\ (UNCHANGED due \/ StatusEvent(c))
        BY <3>6 DEF MemberStep, SyncMember, StartPod, StopPods, GetStuck, Announce
      <4>2. due => due'
        BY <4>1, Zenon DEF StatusEvent
      <4> QED BY <1>4, <4>1, <4>2
    <3> QED BY <1>4, <3>1, <3>2, <3>3, <3>4, <3>5, <3>6 DEF Next, Informing
  <2>2. ObservesFresh'
    <3>1. PICK w : w = worker
      OBVIOUS
    <3>2. ASSUME NEW c \in Clusters, FreshIn(worker, c) PROVE FreshIn(worker, c)'
      <4>1. FreshIn(w, c)'
        BY <2>q, <3>1, <3>2
      <4> QED BY <2>1, <3>1, <4>1
    <3> QED BY <2>q, <2>1, <3>2 DEF Freshness, ObservesFresh
  <2>3. \A w : Schedule(w)' = Schedule(w)
    BY DEF Schedule, RequestFor
  <2>4. PlansFresh'
    BY <2>q, <2>1, <2>3 DEF Freshness, PlansFresh, Planned
  <2>5. WrittenFresh'
    BY <2>q, <2>1, <2>3 DEF Freshness, WrittenFresh
  <2> QED BY <1>1, <2>2, <2>4, <2>5 DEF Freshness
<1> QED BY <1>2, <1>3, <1>4

LEMMA FreshAgrees == ASSUME TypeOK, Freshness, Announces PROVE AgreesAtRest
<1> SUFFICES ASSUME AtRest, ready # {}
             PROVE placement.names = ready /\ override.replicas = Schedule(Observed)
  BY DEF AgreesAtRest
<1>1. seen["pods"] = ready /\ ready \subseteq Clusters
  BY DEF AtRest, Informers, TypeOK
<1>2. PICK w \in Worker : /\ Fresh(w) /\ placement.names = w.names
                          /\ override.replicas = Schedule(w)
  BY <1>1 DEF AtRest, Freshness, WrittenFresh
<1>3. placement.live /\ w.names = ready /\ w.total = total
  BY <1>1, <1>2 DEF AtRest, Freshness, WrittenFresh, Fresh
<1> DEFINE object(c) == IF c \in ready THEN InMember(c) ELSE {}
<1>4. ASSUME NEW c \in Clusters
      PROVE w.current[c] = Current(c, object(c)) /\ w.capacity[c] = Capacity(c, object(c))
  <2>1. FreshIn(w, c)
    BY <1>2 DEF Fresh
  <2>2. CASE c \in ready
    <3>1. store[c] = InMember(c) /\ member[c].announced = (member[c].stuck > 0)
      BY <2>2 DEF AtRest
    <3>2. ~Excused(c)
      BY <1>2, <1>3, <2>2, <3>1 DEF Excused, Placed
    <3> QED BY <1>3, <2>1, <2>2, <3>1, <3>2 DEF FreshIn, Exact
  <2>3. CASE c \notin ready
    BY <1>3, <2>1, <2>3 DEF FreshIn, Current, Capacity
  <2> QED BY <2>2, <2>3
<1>5. /\ w.current = [c \in Clusters |-> Current(c, object(c))]
      /\ w.capacity = [c \in Clusters |-> Capacity(c, object(c))]
  <2>1. w.current = [c \in Clusters |-> w.current[c]]
    BY DEF Worker
  <2>2. w.capacity = [c \in Clusters |-> w.capacity[c]]
    BY DEF Worker
  <2> HIDE DEF object
  <2> QED BY <1>4, <2>1, <2>2
<1>6. /\ Observed.names = w.names /\ Observed.total = w.total
      /\ Observed.current = w.current /\ Observed.capacity = w.capacity
  BY <1>3, <1>5 DEF Observed
<1>7. RequestFor(Observed) = RequestFor(w)
  BY <1>6 DEF RequestFor
<1>8. Schedule(Observed) = Schedule(w)
  BY <1>6, <1>7 DEF Schedule
<1> QED BY <1>2, <1>3, <1>8

\* When nothing is delivered or under way and the members have reported the pods
\* that are stuck, as Deployments do, placement and override are what would be
\* planned from what can be observed then (scheduler.go:175-211, 330-390): no
\* interleaving of events, failures and users' edits makes the scheduler rest on
\* a plan of the past, for any clusters, preference, room and budgets.
THEOREM RestsOnWhatIsObserved == ASSUME Announces PROVE Spec => []AgreesAtRest
<1> DEFINE Inv == TypeOK /\ Pairing /\ Freshness
<1>1. Init => Inv
  BY InitType, InitPairing, InitFresh
<1>2. Inv /\ [Next]_vars => Inv'
  BY NextType, NextPairing, NextFresh
<1>3. Inv => AgreesAtRest
  BY FreshAgrees
<1> QED BY <1>1, <1>2, <1>3, PTL DEF Spec
=============================================================================
