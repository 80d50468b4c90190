-------------------------- MODULE ReplicaScheduling --------------------------
(***************************************************************************)
(* The replica scheduling preference controller for one preference and its *)
(* target (pkg/controller/replicaschedulingpreference): a worker that      *)
(* observes the members, plans, and writes the placement and then the      *)
(* override of the target; around it the users, the sync controller, which *)
(* applies both to the members, and the members, whose pods start, stop    *)
(* or get stuck.                                                           *)
(***************************************************************************)
EXTENDS ReplicaPlanner

CONSTANTS
  Preference,        \* the request of the user, without what is observed
  TemplateReplicas,  \* replicas of the template
  Room,              \* [c] pods that can run in c
  Announces,         \* the target's status tells of pods that stay stuck
  Budgets            \* how often each event of the environment may happen

Events == {"scale", "flip", "edit", "fault"}

ASSUME PreferenceAssumption == Preference \in Request
ASSUME RoomAssumption       == Room \in [Clusters -> Nat]
ASSUME TemplateAssumption   == TemplateReplicas \in Nat
ASSUME AnnouncesAssumption  == Announces \in BOOLEAN
ASSUME BudgetsAssumption    == Budgets \subseteq [Events -> Nat]

VARIABLES
  total,      \* spec.totalReplicas
  template,   \* the plugin's store has the template
  placement,  \* the placement in the API
  override,   \* the override in the API
  ready,      \* ready clusters
  seen,       \* [i] clusters for which informer i has a target informer
  store,      \* [c] replicas of the object in the target informer's store
  listed,     \* clusters that the target informer has listed
  member,     \* [c] the object and its pods
  due,        \* the preference is delivered, now or later
  worker,     \* the worker and its local variables
  left        \* what is left of a budget

apiVars      == <<total, template, placement, override>>
informerVars == <<seen, store, listed>>
vars == <<apiVars, ready, informerVars, member, due, worker, left>>

\* The pod informer and the plugin's target informer.
Informers == {"pods", "targets"}

Placement == [live : BOOLEAN, names : SUBSET Clusters]
Override  == [live : BOOLEAN, replicas : [Clusters -> Optional(Int)]]
Nowhere   == [c \in Clusters |-> {}]

\* running counts the pods that run and have a Ready condition, whatever it
\* says; stuck those that could not be scheduled for a minute.
Member   == [live : BOOLEAN, replicas : Nat, running : Nat, stuck : Nat,
             announced : BOOLEAN]
NoMember == [live |-> FALSE, replicas |-> 0, running |-> 0, stuck |-> 0,
             announced |-> FALSE]

\* stale: someone has written the object since the worker read it.
Worker == [step : {"idle", "observe", "getPlacement", "setPlacement",
                   "getOverride", "setOverride"}, total : Nat,
           todo : SUBSET Clusters, names : SUBSET Clusters,
           current : [Clusters -> Optional(Nat)],
           capacity : [Clusters -> Optional(Int)],
           result : [Clusters -> Optional(Int)], stale : BOOLEAN]
Idle   == [step |-> "idle", total |-> 0, todo |-> {}, names |-> {}, current |-> Nowhere,
           capacity |-> Nowhere, result |-> Nowhere, stale |-> FALSE]

TypeOK ==
  /\ total \in Nat /\ template \in BOOLEAN
  /\ placement \in Placement /\ override \in Override
  /\ ready \in SUBSET Clusters
  /\ seen \in [Informers -> SUBSET Clusters]
  /\ store \in [Clusters -> Optional(Nat)]
  /\ {c \in Clusters : store[c] # {}} \subseteq listed
  /\ listed \subseteq seen["targets"]
  /\ member \in [Clusters -> Member]
  /\ due \in BOOLEAN /\ worker \in Worker
  /\ left \in [Events -> Nat]

Init ==
  /\ total = Preference.total /\ template = FALSE
  /\ placement = [live |-> FALSE, names |-> {}]
  /\ override = [live |-> FALSE, replicas |-> Nowhere]
  /\ ready = Clusters
  /\ seen = [i \in Informers |-> Clusters]
  /\ store = Nowhere /\ listed = {}
  /\ member = [c \in Clusters |-> NoMember]
  /\ due = TRUE /\ worker = Idle
  /\ left \in Budgets

Spend(event) == /\ left[event] > 0
                /\ left' = [left EXCEPT ![event] = @ - 1]

-----------------------------------------------------------------------------
(* The worker *)

\* HasSynced of the plugin, and of the pod informer, whose own list nobody reads.
\* The map and the cluster store of an informer change together here: in between
\* HasSynced is false.
IsSynced == seen["targets"] \subseteq listed

Observe(names) == [Idle EXCEPT !.step = "observe", !.todo = names,
                               !.names = names, !.total = total]

\* A delivery that finds the stores not synced comes again.
StartReconcile ==
  /\ worker.step = "idle" /\ due
  /\ due' = ~IsSynced
  /\ worker' = IF IsSynced /\ template /\ seen["pods"] # {}
                 THEN Observe(seen["pods"]) ELSE worker
  /\ UNCHANGED <<apiVars, ready, informerVars, member, left>>

\* clustersReplicaState for c, of which the object has these replicas, if it
\* exists: the pods are listed unless they are zero, since there is no field of
\* the name that is looked for.
Estimate(c, replicas) ==
  {n \in {replicas - member[c].stuck} : member[c].stuck > 0}

Current(c, replicas)  == {IF n = 0 THEN 0 ELSE member[c].running : n \in replicas}
Capacity(c, replicas) == UNION {Estimate(c, n) : n \in replicas \ {0}}

NeedsPods(c) == store[c] \ {0} # {}

ObserveCluster(c) ==
  /\ worker.step = "observe" /\ c \in worker.todo
  /\ NeedsPods(c) => c \in seen["pods"]
  /\ worker' =
       [worker EXCEPT !.todo = @ \ {c},
                      !.current = [@ EXCEPT ![c] = Current(c, store[c])],
                      !.capacity = [@ EXCEPT ![c] = Capacity(c, store[c])]]
  /\ UNCHANGED <<apiVars, ready, informerVars, member, due, left>>

RequestFor(w) ==
  [Preference EXCEPT !.total = w.total, !.wanted = @ \cap w.names,
                     !.current = w.current, !.capacity = w.capacity]

\* schedule: replicas for all the clusters there are.
Schedule(w) ==
  [c \in Clusters |-> {n \in {PlannedReplicas[RequestFor(w)][c]} : c \in w.names}]

ComputeSchedule ==
  /\ worker.step = "observe" /\ worker.todo = {}
  /\ worker' = [Idle EXCEPT !.step = "getPlacement", !.names = worker.names,
                            !.result = Schedule(worker)]
  /\ UNCHANGED <<apiVars, ready, informerVars, member, due, left>>

\* ReconcilePlacement: get, compare, create or update.
GetPlacement ==
  /\ worker.step = "getPlacement"
  /\ worker' = [worker EXCEPT
                  !.step = IF placement.live /\ placement.names = worker.names
                             THEN "getOverride" ELSE "setPlacement"]
  /\ UNCHANGED <<apiVars, ready, informerVars, member, due, left>>

SetPlacement ==
  /\ worker.step = "setPlacement" /\ ~worker.stale
  /\ placement' = [live |-> TRUE, names |-> worker.names]
  /\ worker' = [worker EXCEPT !.step = "getOverride"]
  /\ due' = TRUE
  /\ UNCHANGED <<total, template, override, ready, informerVars, member, left>>

\* ReconcileOverride likewise.
GetOverride ==
  /\ worker.step = "getOverride"
  /\ worker' = IF override.live /\ override.replicas = worker.result
                 THEN Idle
                 ELSE [worker EXCEPT !.step = "setOverride"]
  /\ UNCHANGED <<apiVars, ready, informerVars, member, due, left>>

SetOverride ==
  /\ worker.step = "setOverride" /\ ~worker.stale
  /\ override' = [live |-> TRUE, replicas |-> worker.result]
  /\ worker' = Idle
  /\ due' = TRUE
  /\ UNCHANGED <<total, template, placement, ready, informerVars, member, left>>

\* A conflict, a client that is gone with its cluster, a call that fails: the
\* preference is delivered again after a backoff.
\* Mutant: it is not.
RedeliverNever == UNCHANGED due
Redeliver == due' = TRUE

Fail ==
  /\ \/ worker.stale /\ UNCHANGED left
     \/ /\ worker.step = "observe"
        /\ \E c \in worker.todo : NeedsPods(c) /\ c \notin seen["pods"] \cap ready
        /\ UNCHANGED left
     \/ worker.step # "idle" /\ Spend("fault")
  /\ worker' = Idle /\ Redeliver
  /\ UNCHANGED <<apiVars, ready, informerVars, member>>

Work == \/ StartReconcile \/ ComputeSchedule \/ GetPlacement \/ SetPlacement
        \/ GetOverride \/ SetOverride
        \/ \E c \in Clusters : ObserveCluster(c)

-----------------------------------------------------------------------------
(* The informers *)

\* Mutant: the store stays.
ForgetNothing(i, c) == UNCHANGED <<store, listed>>
Forget(i, c) == IF i = "targets"
                  THEN store' = [store EXCEPT ![c] = {}] /\ listed' = listed \ {c}
                  ELSE UNCHANGED <<store, listed>>

\* A federated informer follows the readiness of c; a cluster that is no longer
\* ready takes its store along.
FollowCluster(i, c) ==
  /\ (c \in seen[i]) # (c \in ready)
  /\ seen' = [seen EXCEPT ![i] = IF c \in ready THEN @ \cup {c} ELSE @ \ {c}]
  /\ IF c \in ready THEN UNCHANGED <<store, listed>> ELSE Forget(i, c)
  /\ due' = TRUE
  /\ UNCHANGED <<apiVars, ready, member, worker, left>>

InMember(c) == IF member[c].live THEN {member[c].replicas} ELSE {}

SyncTarget(c) ==
  /\ c \in seen["targets"] /\ c \in ready
  /\ c \notin listed \/ store[c] # InMember(c)
  /\ store' = [store EXCEPT ![c] = InMember(c)]
  /\ listed' = listed \cup {c}
  /\ due' = (due \/ store[c] # InMember(c))
  /\ UNCHANGED <<apiVars, ready, seen, member, worker, left>>

-----------------------------------------------------------------------------
(* The sync controller and the members *)

\* Replicas without an override are the template's.
Applied(c) == IF override.live /\ override.replicas[c] # {}
                THEN override.replicas[c] ELSE {TemplateReplicas}

\* A negative number of replicas is refused.
SyncMember(c) ==
  /\ c \in ready /\ template
  /\ IF placement.live /\ c \in placement.names
       THEN \E n \in Applied(c) :
              /\ n >= 0
              /\ ~member[c].live \/ member[c].replicas # n
              /\ member' = [member EXCEPT ![c].live = TRUE, ![c].replicas = n,
                                          ![c].announced = FALSE]
       ELSE member[c].live /\ member' = [member EXCEPT ![c] = NoMember]
  /\ UNCHANGED <<apiVars, ready, informerVars, due, worker, left>>

\* Any change of the object reaches the preference; a pod's own does not.
\* Mutant: a change of status does not.
StatusEventIgnored(c) == UNCHANGED due
StatusEvent(c) == due' = (due \/ c \in listed)

StartPod(c) ==
  /\ member[c].running < MinOf(member[c].replicas, Room[c])
  /\ member' = [member EXCEPT ![c].running = @ + 1]
  /\ StatusEvent(c)
  /\ UNCHANGED <<apiVars, ready, informerVars, worker, left>>

StopPods(c) ==
  LET m == member[c] IN
  /\ m.running + m.stuck > m.replicas
  /\ member' = [member EXCEPT
                  ![c].running = MinOf(@, m.replicas),
                  ![c].stuck = m.replicas - MinOf(m.running, m.replicas)]
  /\ StatusEvent(c)
  /\ UNCHANGED <<apiVars, ready, informerVars, worker, left>>

\* A minute passes, and nothing tells of it.
GetStuck(c) ==
  LET m == member[c] IN
  /\ m.running = Room[c] /\ m.running + m.stuck < m.replicas
  /\ member' = [member EXCEPT ![c].stuck = m.replicas - m.running]
  /\ UNCHANGED <<apiVars, ready, informerVars, due, worker, left>>

\* A Deployment reports, much later than a minute, that it makes no progress.
Announce(c) ==
  /\ Announces /\ member[c].stuck > 0 /\ ~member[c].announced
  /\ member[c].running + member[c].stuck = member[c].replicas
  /\ member' = [member EXCEPT ![c].announced = TRUE]
  /\ StatusEvent(c)
  /\ UNCHANGED <<apiVars, ready, informerVars, worker, left>>

MemberStep(c) == \/ SyncMember(c) \/ StartPod(c) \/ StopPods(c) \/ GetStuck(c)
                 \/ Announce(c)

-----------------------------------------------------------------------------
(* Users and clusters *)

CreateTemplate ==
  /\ ~template
  /\ template' = TRUE /\ due' = TRUE
  /\ UNCHANGED <<total, placement, override, ready, informerVars, member,
                 worker, left>>

Scale ==
  /\ Spend("scale")
  /\ \E n \in {total - 1, total + 1} \cap Nat : total' = n
  /\ due' = TRUE
  /\ UNCHANGED <<template, placement, override, ready, informerVars, member,
                 worker>>

\* A user deletes what the scheduler has written.
EditPlacement ==
  /\ placement.live /\ Spend("edit")
  /\ placement' = [live |-> FALSE, names |-> {}]
  /\ worker' = [worker EXCEPT !.stale = @ \/ worker.step = "setPlacement"]
  /\ due' = TRUE
  /\ UNCHANGED <<total, template, override, ready, informerVars, member>>

EditOverride ==
  /\ override.live /\ Spend("edit")
  /\ override' = [live |-> FALSE, replicas |-> Nowhere]
  /\ worker' = [worker EXCEPT !.stale = @ \/ worker.step = "setOverride"]
  /\ due' = TRUE
  /\ UNCHANGED <<total, template, placement, ready, informerVars, member>>

FlipReady(c) ==
  /\ Spend("flip")
  /\ ready' = IF c \in ready THEN ready \ {c} ELSE ready \cup {c}
  /\ UNCHANGED <<apiVars, informerVars, member, due, worker>>

Environment == \/ CreateTemplate \/ Scale \/ EditPlacement \/ EditOverride
               \/ \E c \in Clusters : FlipReady(c)

Informing == \/ \E i \in Informers, c \in Clusters : FollowCluster(i, c)
             \/ \E c \in Clusters : SyncTarget(c)

Next == \/ Work \/ Fail \/ Informing \/ Environment
        \/ \E c \in Clusters : MemberStep(c)

Spec == Init /\ [][Next]_vars

\* The worker, each informer, the sync controller and the members go on.
FairSpec ==
  /\ Spec /\ WF_vars(Work) /\ WF_vars(Fail) /\ WF_vars(CreateTemplate)
  /\ \A c \in Clusters :
       /\ WF_vars(SyncTarget(c)) /\ WF_vars(SyncMember(c))
       /\ WF_vars(StartPod(c)) /\ WF_vars(StopPods(c))
       /\ WF_vars(GetStuck(c)) /\ WF_vars(Announce(c))
       /\ \A i \in Informers : WF_vars(FollowCluster(i, c))

-----------------------------------------------------------------------------
(* Properties *)

\* Between reconciliations that are not to be repeated, every cluster that the
\* target is placed in has its replicas in the override, and no other: the two
\* are written by two calls, of which one may fail or meet a user's edit
\* (scheduler.go:233-241).  Without any cluster nothing is written at all.
PairedAtRest ==
  worker.step = "idle" /\ ~due /\ template /\ placement.live /\ seen["pods"] # {} =>
    override.live
      /\ placement.names = {c \in Clusters : override.replicas[c] # {}}

\* The scheduler's answers make members change, which makes it plan again: in
\* the end nothing changes any more.
Settles == <>[][FALSE]_<<placement, override>>

\* When there is nothing left to do, what is placed and overridden is what would
\* be planned from what can be observed then, however late the events came
\* that the last plan was made from (scheduler.go:175-211).
Observed ==
  LET object(c) == IF c \in ready THEN InMember(c) ELSE {}
  IN [names |-> ready, total |-> total,
      current |-> [c \in Clusters |-> Current(c, object(c))],
      capacity |-> [c \in Clusters |-> Capacity(c, object(c))]]

AtRest ==
  /\ worker.step = "idle" /\ ~due /\ template
  /\ \A i \in Informers : seen[i] = ready
  /\ \A c \in ready : /\ store[c] = InMember(c)
                      /\ Announces => member[c].announced = (member[c].stuck > 0)

AgreesAtRest ==
  AtRest /\ ready # {} => /\ placement.names = ready
                          /\ override.replicas = Schedule(Observed)
=============================================================================
