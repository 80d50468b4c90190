# A TLA+ verification project for federation-v2

This directory specifies the controllers of federation-v2 (`pkg/controller`)
in TLA+, model-checks the specifications with TLC on small instances, and
proves the most important facts with TLAPS.  Paths below are relative to the
repository; `controller.go` without a path is `pkg/controller/sync/controller.go`.

To repeat the checks, run TLC with each configuration on its module
(`tlc -config sync_converge.cfg MCSyncController`) and `tlapm` on each
`*Proofs.tla`.

## 1. Inventory

Federation-v2 is a control plane over *member clusters*.  Users write to the
*federation API*; controllers, all in one process (`cmd/controller-manager`),
make the members follow.  Controllers do not call each other: they meet in the
API objects, through *informers* that copy objects to local stores with a
delay, and in the queue that triggers them.

| Component | State it keeps | Operations | Talks to |
|---|---|---|---|
| sync controller (`sync/controller.go`) | stores of template, override, placement, PropagatedVersion; `pendingVersionUpdates`; work queue | `reconcile`, `syncToClusters`, `updatePropagatedVersion`, `delete`, `reconcileOnClusterChange` | federation API, federated informer, updater, deletion helper |
| version comparison (`util/propagatedversion.go`) | none | `ComparisonHelper`, `PropagatedVersionStatusEquivalent` | sync controller |
| placement plugins (`sync/placement`) | the placement store | `ComputePlacement` | sync controller |
| deletion helper (`util/deletionhelper`, `util/finalizers`) | finalizers on the template | `EnsureFinalizers`, `HandleObjectInUnderlyingClusters` | federation API, federated informer, updater |
| federated updater (`util/federated_updater.go`) | one goroutine per operation, a result channel, a timeout | `Update` | member clusters |
| federated informer (`util/federated_informer.go`, `util/resourceinformer.go`) | cluster store; a target informer and client per ready cluster, under a mutex | `addCluster`, `deleteCluster`, `GetReadyClusters`, `GetFromAllClusters`, `ClustersSynced` | member clusters, its owners by callbacks |
| delaying deliverer (`util/delaying_deliverer.go`) | heap by due time, two bounded channels | `DeliverAt`, `run`, `Stop` | every controller |
| backoff, triggers (`util/backoff.go`, `util/handlers.go`) | per-key backoff (`flowcontrol.Backoff`) | `NextWait`, `Reset`, event filters | deliverer |
| cluster controller (`federatedcluster`) | `knownClusterSet`, `clusterClients`, `clusterClusterStatuses` under one mutex | `addToClusterSet`, `delFromClusterSet`, `updateClusterStatus` | federation API, member health endpoints |
| federated type config controller (`federatedtypeconfig`) | `stopChannels` under a mutex, finalizers | `reconcile`, `startController`, `stopController`, `shutDown` | sync controllers, federation API |
| service DNS controller (`servicedns`) | stores of DNS records, services, endpoints | `reconcile`, `clusterServiceEndpoints` | federated informers, federation API |
| scheduling (`replicaschedulingpreference`, its `scheduler`) | stores of preferences and pods, plugins per type | `Reconcile`, `ReconcilePlacement`, `ReconcileOverride` | planner, pod analyzer, federation API |
| planner (`util/planner`) | none | `Plan`, `distribute` | scheduling |
| pod analyzer (`util/podanalyzer`) | none | `AnalyzePods` | scheduling |
| kubefnord join (`pkg/kubefnord`) | objects it creates in host and member | `JoinCluster` and the creations it is made of | host and member clusters |
| manager, features, shared informers (`cmd/controller-manager`, `pkg/features`) | none after start | start-up | all |
| metadata helpers (`util/meta.go`, ...), API types, generated clients, injection, test framework | none of interest | | |

### What is hard

* **Stale stores.** The worker reads five kinds of stores, each behind the API
  by its own delay, and acts on what they hold.  It guards against its own
  lagging PropagatedVersion only, with `pendingVersionUpdates`.
* **Partial failure.** An operation on one of several members fails, its reply
  is lost, or the updater gives up on it and it still lands later.
* **Crashes.** All controller state is in memory; finalizers and
  PropagatedVersions are what a new process finds.
* **Multi-step deletion.** Members first, then a finalizer, the
  PropagatedVersion, the template: any call may fail, users may create the
  template again in between, clusters change readiness.
* **Termination.** The controller triggers itself: an update changes the
  member's version, whose event triggers a reconcile.
* **Lifecycle races.** Informers per cluster come and go with readiness, sync
  controllers with FederatedTypeConfigs, health checks run beside removals.
* **Bounded channels** between deliverer and handlers that redeliver.
* **Feedback.** The scheduler plans from what members report, and its plan makes
  the sync controller change what they report.
* **Integer arithmetic** in the planner: weights, maxima, capacities.

### What makes each component correct

* *Sync controller*: a recorded version never hides a needed update; propagation
  happens only under the deletion finalizer; the worker plans from its own last
  versions; ready members converge; propagation quiesces; deletion completes and
  leaves neither objects nor PropagatedVersions; only users delete templates.
* *Federated informer*: informers and clients go with cluster readiness;
  `ClustersSynced` implies that the stores of all ready clusters have listed; no
  leaked informer; no permanent block of every reconcile by one bad cluster.
* *Deliverer*: each key is delivered no earlier than the earliest time asked for
  and not forgotten; no goroutines waiting on each other.
* *Cluster controller*: a status is one of the cluster it is written for, not of an
  earlier one of the same name; health reaches the API.
* *Type config controller*: one sync controller runs per installed type, none
  after its deletion is finalised, every stop channel is closed once.
* *Scheduling*: placement and override name the same clusters, agree with what the
  members make of them, and settle.  *Planner*: limits, sums, order, termination.
* *Service DNS*: no change goes without a reconciliation after it; the record
  converges to where the service is; offline clusters keep entries.
* *Join*: a FederatedCluster has behind it all that a client needs.

## 2. Plan

| # | Module | Models | Abstract specification, composition | State |
|---|---|---|---|---|
| 1 | `SyncObjects`, `SyncController` | sync controller with deletion helper, updater, and what it uses of informers and deliverer | composes all of these for one resource | checked; types, `VersionsVouch`, `SeesOwnVersions`, `ProtectedPropagation` and `LeftOnlyByInterruption` proved |
| 2 | `DeliveryPromise`, `DelayingDeliverer`, `DelivererHeap` | heap, update and target channels, the goroutines of `run` and of the handler | the deliverer implements the promise, with the heap as a parameter | checked; refinement proved, and the heap |
| 3 | `FederatedTypeConfig` | start and stop of sync controllers, finalizers, shutdown | a sync controller is its stop channel | checked; safety proved |
| 4 | `ClusterJoin`, `ClusterController`, `FederatedInformer` over `ClusterObjects` | join, health checks and known clusters, target informers | composed in `ClusterLifecycle`: the condition one writes drives the other | checked; types and safety proved |
| 5 | `ReplicaPlanner`, `PlannerSteps` | `Plan`, loop by loop | properties of the plan as the reference | checked; types, safety and termination proved |
| 6 | `ReplicaScheduling` | one preference and its target | composes the planner with members and users | checked; types and safety proved |
| 7 | `ServiceDNS` | one record, two informers | | checked; types and triggers proved |

What could follow: the Namespace kind (placement and deletion by the primary cluster)
and the Service update rules as a parameter of `SyncObjects`.

## 3. Modules

| Module | Contents |
|---|---|
| `SyncObjects` | objects of the federation API and of members; the pure functions: recorded and merged versions, planned operations, what an API server accepts and does |
| `SyncController` | state, actions, specifications and properties |
| `SyncInvariant` | the inductive invariants behind `VersionsVouch`, `ProtectedPropagation`, `LeftOnlyByInterruption` and `SeesOwnVersions` |
| `MCSyncController` | environment budgets for TLC |
| `SyncControllerProofs` | `TypeCorrect`, `PropagationProtected`, `VersionsLeftOnlyByInterruption`, `OwnVersionsSeen` |
| `SyncVersionsProofs` | `CopiesAlwaysVouch`, `RecordedVersionsVouch` |
| `FederatedTypeConfig` | state, actions, specifications, properties and inductive invariant of the type config controller |
| `MCFederatedTypeConfig` | its environment budgets |
| `FederatedTypeConfigProofs` | `ChannelsCorrect` and what follows from it |
| `DeliveryPromise` | the abstract specification of a deliverer: requests owed, and when they are settled |
| `DelayingDeliverer` | its goroutines and channels, over any heap that `HeapAssumption` describes; the refinement mapping |
| `DelivererHeap` | the code's heap, as pure functions on arrays, its recursion as recursive functions |
| `MCDelayingDeliverer` | puts the two together, and checks the heap with more items |
| `DelayingDelivererProofs` | the refinement theorem; that the code's heap is as the deliverer needs it |
| `ClusterObjects` | what join, the cluster controller and a federated informer share: FederatedClusters, credentials, watches |
| `ClusterJoin` | `kubefnord join`, and the manual unjoin of `docs/userguide.md:291` |
| `ClusterController` | known clusters, clients, statuses and the health check |
| `FederatedInformer` | target informers and their map |
| `ClusterLifecycle` | the composition, restarts, liveness |
| `MCClusterLifecycle` | its environment budgets |
| `ClusterLifecycleProofs` | `LifecycleTypeCorrect`, `JoinsFounded`, `InformersStoppable`, `TransitionsDated` |
| `ReplicaPlanner` | the planning as a record, and the steps of `Plan`'s loops as functions on it |
| `PlannerSteps` | these steps as a state machine; what `Plan` promises |
| `MCPlanner` | the requests that are planned |
| `PlannerProofs` | of the steps: `PlannerTypeCorrect`, `PlansWithinLimits`, `NothingLeftOver`, `HeaviestServedFirst`, `ReplicasConserved`, `TrialsPaced`, `RunningReplicasStay`, `EveryPlanningEnds`; of the plan: `ScheduleWithinLimits`, `AllReplicasScheduled` |
| `ReplicaScheduling` | worker, informers, sync controller and pods around one preference |
| `MCReplicaScheduling` | a preference, members and budgets |
| `ReplicaSchedulingProofs` | `SchedulingTypeCorrect`, `PlacementAndOverridePaired`, `RestsOnWhatIsObserved` |
| `ServiceDNS` | state, actions, specifications and properties |
| `MCServiceDNS` | its environment budgets |
| `ServiceDNSProofs` | `ServiceDNSTypeCorrect`, `NoTriggerMissed` |

### 3.1 State of SyncController and the code

| Variable | Code |
|---|---|
| `template`, `override`, `placement`, `pv` | the objects in the federation API; `pv` is the PropagatedVersion |
| `member[c]` | the target object in member `c`: resource version, generation, and which template body and override its content was built from |
| `ready[c]`, `informer[c]`, `mCache[c]` | the cluster's condition in the cluster store, its entry in `targetInformers` and whether its `HasSynced`, its store |
| `tCache`, `oCache`, `pCache`, `pvCache`, `synced` | the stores of `newFederationSyncController` (controller.go:173-223) and which have listed |
| `pvQueue`, `pending` | PropagatedVersion events under way; `pendingVersionUpdates` |
| `scheduled`, `queued`, `clusterDue` | the deliverer's heap has the key; items in the worker's queue; the cluster deliverer has its key |
| `pc`, `job` | the worker between two calls to an API server, and its locals |
| `op[c]` | the operation of the current batch on `c` |
| `late` | operations the updater timed out on |
| `budget` | how many more events of each kind the environment may cause (a bound, not state of the program) |

A step of the worker ends where it calls an API server or hands operations to
the updater: `StartReconcile`, `EnsureFinalizers`, `ComputePlacement` (with the
pending check), `ClusterOperations`, `ExecuteOp(c)` (one per goroutine),
`UpdateTimeout`, `CollectResults`, `CreateVersion`, `CreateVersionStatus`,
`UpdateVersion`, `HandleDeletion`, `ScanTargets`, `DropFinalizer`, `DeletePV`,
`DeleteTemplateByName`.  Every call may be refused, fail before it takes
effect, or take effect although its reply is an error (`ErrorReply`).  Each
return of `reconcile` is `Finish(status)`, which includes what `worker` does
with the status.

### 3.2 Abstractions

* One federated resource of a namespaced type; the Namespace kind and the
  Service update rules are not modelled yet.
* An absent object keeps its resource version, since an API server never hands
  out one twice.  A member object recreated starts at generation 1.
* Content is which template body and override it was built from, or `Foreign`.
  The comparison of labels and annotations (`Equivalent`) that decides whether a
  metadata-only change is an update is left out.
* A store jumps to the current object; intermediate values are skipped except
  for PropagatedVersions, where each event matters to `pending`.  A relist
  coalesces them.
* `Create` of a PropagatedVersion drops its status, because the type has a status
  subresource (`propagatedversion_types.go:45`); the `UpdateStatus` that follows
  in `updatePropagatedVersion` writes the object that `Create` returned, whose
  status is empty.  So a new PropagatedVersion takes one more reconcile to record
  anything: `CreatedPV`, `CreateVersionStatus`.
* Delays of the deliverer and backoff are arbitrary.  `pv` writes that a watch
  has not been established for are seen by the list.
* Access to `pendingVersionUpdates` is atomic, although the code has no lock
  (controller.go:217, a TODO); the Go runtime stops the process when it notices,
  which is a `Crash`.
* Not modelled: removal of a cluster, several workers (there is one), failures
  of local lookups, malformed objects, events of the orphan garbage collector.
* At a crash, no write to the federation API is under way unseen; operations in
  members are (`late`).

### 3.3 FederatedTypeConfig and the code

Line numbers here are those of `pkg/controller/federatedtypeconfig/controller.go`.

| Variable | Code |
|---|---|
| `config`, `stored` | the FederatedTypeConfigs in the API and in the lister's store; `fin` is this controller's finalizer |
| `queued` | the work queue of kubebuilder's `GenericController`, without duplicates |
| `pc`, `job` | the worker between two steps, and `typeConfig`, `stopChan` (0 if not running) |
| `stopChannels` | `c.stopChannels` |
| `made`, `closed`, `syncs` | which channels were made and closed, and which were handed to a sync controller that started |
| `stop`, `queueDown`, `shut`, `panicked` | the process's stop channel is closed; the queue was shut down; `shutDown` has run; a closed channel was closed |

`GetConfig` is `Reconcile` up to the lock-free part (88-109), `EnsureFinalizer`
the update and the decision after it (110-124), `StartController` and
`RegisterChannel` the two halves of `startController` (145-163), `CloseChannel`
and `UnregisterChannel` those of `stopController` (165-171), `RemoveFinalizer`
the release (188-201).  `ShutDown` holds the lock from end to end and is one step.

* One worker reconciles, as kubebuilder does unless told otherwise; shutting the
  queue down lets it finish what is queued, and drops what is added.
* `lister.Get` hands out the store's own object.  `SetFinalizers` therefore edits
  the store before the API has accepted anything (183, 198), under the same
  resource version; `SetInStore` does so unless the store has replaced the object
  since.  The informer repairs it only when another version arrives: the resync
  every two minutes hands out what the store holds.  A relist after a broken
  watch, which would repair it too, is not modelled.
* Our finalizer is the only one, so its removal completes a deletion.
* A sync controller runs from the return of `StartFederationSyncController` until
  its channel is closed; what it does then is `SyncController`'s subject.

### 3.4 DelayingDeliverer and the code

Line numbers here are those of `pkg/controller/util/delaying_deliverer.go`.

| Variable | Code |
|---|---|
| `pending[s]` | the item that goroutine `s` is sending in `DeliverAt`; one of the senders is the handler, which may redeliver |
| `updates`, `target` | `updateChannel` (1000 items), `targetChannel` (100) |
| `heap` | `delivererHeap`: in the run, the array and the positions of `DelivererHeap` |
| `runAt`, `now`, `timer`, `inHand` | where `run` is, its `now`, when `time.After` fires, the item it is sending |
| `handed`, `handlerGone` | the item the handler is busy with; its goroutine has returned |
| `clock`, `stopped`, `asks` | time; `stopChannel` is closed; calls of `DeliverAt` so far (a bound) |

A step ends where a goroutine may block or reads the time.  `Call` and
`SendUpdate` are `DeliverAt` (152-158), `StartRound` reads the time (113),
`PopDue` and `SendTarget` are the loop of `deliver` (102-108), `StartTimer` is the
way to `select` (116-123), whose cases are `WakeUp`, `ReceiveUpdate` and `ReturnRun`;
`Receive`, `Handled` and `ReturnHandler` are the goroutine of `StartWithHandler`.

* An item is its key and time; its value goes with the key.
* The last instant of the clock stands for all later ones, so that a timer
  beyond it fires there.
* `Swap`, `Push` and `Pop` are the code's; `Up`, `Down` and `Fix` are Go's
  `container/heap`, written as moves repeated until nothing changes.
* `owed[x]` of `DeliveryPromise` counts the requests for `x` wherever they are: with a
  caller, in a channel, in the heap, in `run`'s hand (`Owed`).

### 3.5 The life of a cluster and the code

`CC` is `pkg/controller/federatedcluster/controller.go`, `FI` is
`pkg/controller/util/federated_informer.go`, `join.go` is `pkg/kubefnord/join.go`.

| Variable | Code |
|---|---|
| `cluster`, `registry`, `secrets`, `member` | the FederatedCluster, the cluster registry, secrets in the host, and what join creates in the member |
| `events[w]`, `store[w]`, `watching` | the watches of the two cluster informers (the cluster controller's, "monitor", and the federated informer's) |
| `join[j]` | a run of the command by administrator `j`: the next of its calls |
| `known`, `client`, `status` | `knownClusterSet`, `clusterKubeClientMap`, `clusterClusterStatusMap` |
| `check` | `updateClusterStatus` between two of its steps, with its local copies |
| `target`, `running`, `hasSynced` | `targetInformers`; those whose stop channel is open; those that have listed |
| `handler` | the goroutine of the cluster informer's handlers, between `deleteCluster` and `addCluster` |
| `failed`, `overlooked`, `outlived` | ghosts: clients that could not be made, departures that were not noticed, statuses of an earlier cluster |

`JoinCluster(j)` is one call of the command (join.go:161-237), each of which
may fail before it takes effect or after (`FailJoin`, `Proceed`).  `MonitorEvent`
and `InformerEvent` take an event from a watch to the handlers; which handler is
called follows client-go.  `HealthCheck` is `updateClusterStatus` (CC 157-229): the
clusters are listed, then each is read under the lock, probed, saved under the
lock, and written.  `DeleteCluster` and `AddCluster` take the lock one after the other
(FI 407-436), and `Stop` may come between them.

* `uid` counts the clusters of one name, `rev` the edits of its spec and
  annotations.
* A panic of the cluster controller (a missed deletion is no FederatedCluster,
  CC 103-108) ends the process, and `Restart` follows.
* A client reaches a member while the service account it was made from exists.
* Zones and regions (CC 203-215), dry runs and the probing itself are left out.

### 3.6 The planner and the code

Line numbers here are those of `pkg/controller/util/planner/planner.go`.
`StartPlanning` is 67-101, `AssignMinimum` 103-111, `KeepRunning` 117-140; a trial
(155-216) is `StartTrial`, `Weigh` for each cluster, `Give` for each cluster; `Finish` is
218-231.  A missing entry of a map is an empty set.  The names' hash is a rank.
`*` in the preferences stands for the clusters it applies to.  Integers are
unbounded: the code's product of replicas and weight (170) needs weights near 2^32
to overflow 64 bits, which no preference has a use for.

### 3.7 ReplicaScheduling and the code

| Variable | Code |
|---|---|
| `total`, `template`, `placement`, `override` | `spec.totalReplicas` and the objects in the API |
| `ready`, `seen[i]`, `store`, `listed` | readiness; the clusters that the pod informer and the plugin's target informer know; the target store |
| `member[c]` | the object in the member and its pods |
| `due` | the deliverer, the cluster deliverer or the work queue has the key |
| `worker` | the worker between two reads or calls |

A step of the worker is one read of another party's state: `StartReconcile`
(replicaschedulingpreference/controller.go:259-287), `ObserveCluster(c)` for each cluster
(scheduler.go:330-390), `ComputeSchedule` (246-328, with the planner), `GetPlacement`,
`SetPlacement`, `GetOverride`, `SetOverride` (deployment.go:80-157; replicaset.go is the
same).  Around it `SyncMember` is what the sync controller makes of placement and
override, and pods start, stop and get stuck.

* `status.readyreplicas` is not a field of a Deployment (it is `readyReplicas`), so
  the replicas that are ready are taken for zero and pods are listed whenever
  the object has replicas (scheduler.go:357-369): `NeedsPods`.
* Pods with a `Ready` condition count as running whatever the condition says
  (pod_helper.go:59).  Pods that cannot be scheduled count after a minute; no
  event tells of that (`GetStuck`).  A Deployment tells later that it makes no
  progress (`Announce`); a ReplicaSet does not (`Announces` = FALSE), and then
  capacity estimates go unnoticed until something else happens.
* A negative override is refused by the member.
* The map and the cluster store of an informer change in one step here; in
  between `HasSynced` is false.  The pod informer's own list is not read.
* Left out: restart, deletion of the preference, the loop variable whose address
  every plugin gets (scheduler.go:98-108; one plugin is modelled), and the stores
  of templates, overrides and placements in `HasSynced`, which the code does not
  ask for either.

### 3.8 ServiceDNS and the code

Line numbers here are those of `pkg/controller/servicedns/controller.go`.

| Variable | Code |
|---|---|
| `record`, `cached`, `behind` | the MultiClusterServiceDNSRecord in the API and in `serviceDNSStore` |
| `started`, `seen[i]`, `listed[i]`, `store[i]` | the two federated informers: cluster list, cluster store, which target informers have listed, and their objects |
| `due`, `allDue` | the deliverer or the work queue has the record; the cluster deliverer has its key |
| `worker` | the worker between two reads of a store: `todo` clusters, `status` collected so far, what it has read of the record |

`Start` is 321-345, `ListReady` 347-351, `ObserveEndpoints` and `ObserveService` one pass of
the loop (355-377), `Finish` 383-405, `UpdateStatus` 405-411.

* An entry is absent, without a load balancer, or with one: the addresses do
  not matter to the reads' order.
* Only the service informer has handlers for clusters (157-166, 185).
* A target store is emptied with its cluster, and events of its objects are
  those of the listing and of changes.

## 4. Runs

The environment is bounded by a budget: a run allows each kind of event the
number of times its budget says, so that the state space is finite.  A set of
budgets (*scenarios*) puts several stories in one run.  `CHECK_DEADLOCK FALSE`: once the
budget is spent and everything is propagated, nothing is left to do.

| Run | Setting | Shows |
|---|---|---|
| `sync_propagation` | one member; an edit, an override change, a drift, a timeout; or a cold start, a crash, a broken watch, an edit; or a deletion and a creation with a failing call and a lost reply; or a deletion and a crash | `TypeOK`; `IInv`, which implies `VersionsVouch`; `ProtectedPropagation`; `LeftOnlyByInterruption` |
| `sync_partial` | two members; an edit, a placement change, a failing call | `VersionsVouch` when versions of one cluster are merged with old ones of another; `SeesOwnVersions` |
| `sync_converge` | comparison by generation; drift, placement change, flip, lost reply; or a deletion, a creation, two flips; fairness | `ConvergesUnlessUpdateLost`, `DeletionCompletes`, `Quiesces` |
| `type_config` | one type; creations, toggles, a deletion, a failing call, a lost reply, a stop signal; fairness | `ChannelInv`, `OnePerType`, `ShutDownEndsAll`, `ReleasedAfterStop`, `FollowsConfig`, `DeletionCompletesUnlessMisled` |
| `deliverer` | two keys, two instants, a caller and a handler that redelivers, channels of one item, five calls; fairness | `DelivererInv`; the refinement `KeepsPromise`; `DeliversUnlessJammed`, `StopsUnlessSending` |
| `clusters` | one cluster, two administrators, two target informers; joined, flipped, left with a mishap; or joined again; or joined by both; fairness | `TypeOK`, `JoinInv`, `InformersOnMap`, `TransitionsSinceJoin`, `FollowsHealth`, `SyncsAgain` |
| `planner` | three clusters; all limits of two of them over small numbers with a negative capacity; preallocated replicas in three; one replica more for one of equal weights; fairness | `TypeOK`, `WithinLimits`, `Conserved`, `NoneLeftOver`, `MinimumsInOrder`, `RunningStay`, `TrialsBounded`, `Terminates` |
| `scheduling` | two members of equal weight, two replicas, room for one in the first; a scaling, two flips, a deletion of placement or override, or two failures; fairness | `TypeOK`, `PairedAtRest`, `AgreesAtRest`, `Settles` |
| `service_dns` | two clusters; any two events; fairness | `TypeOK`, `NothingMissed`, `Converges` |

Two members are the least for which a batch can partly fail, one is the least
for the rest, whose conditions are per cluster.  Type configs meet only in the
worker and in `shutDown`, and the theorems hold for any number of them.
`MaxQueued` = 1 in the sync runs bounds the queue, in which a second item for the
same key would only be reconciled again; `MaxQueued` = 2 in `clusters` holds a
cluster's deletion and its creation at once.
Five calls are the least with which the deliverer and its handler can come to wait
on each other: one item handed over, one in each channel, one in `run`'s hand and one
that the handler is sending.  `DeeperHeaps` checks the heap against its description on
all heaps of up to four keys and three times, three levels deep; `CodeHeapCorrect` proves it
for heaps of any depth.  One event of each kind, at any
moment, already reaches every pair of environment step and worker step; two flips
are needed for a cluster to go and come back.  The planner's clusters meet only in
what remains and in the sum of weights, so that two with any limits and a third to
take the rest show every case of a loop; `MaxTrials` bounds a ghost and is above what
any of the requests needs.  The scheduling run has the least preference that must be
replanned when a member turns out to be too small.  `rebalance` is TRUE in it: with
FALSE, pods that start in either of two clusters before the plan is written may move the
plan back and forth for as long as the pods do.

Three runs show a disagreement of the code with what the repository says of it:

| Run | What happens |
|---|---|
| `propagation_stuck` | A template is placed on the cluster, and its object is created there.  The target store has not seen it, so the next reconciles create it again, and fail with AlreadyExists; they record no version.  The first of them writes an empty list of versions.  At the second, the status read from the API has no `clusterVersions` (nil), the one computed has an empty list; `reflect.DeepEqual` (propagatedversion.go:93) finds them different, so the update is marked pending and sent.  It changes nothing, so no event clears the mark.  When the placement on no cluster, made meanwhile, comes to its store, it is never propagated (controller.go:487): the object stays.  Any two reconciles that record no version where none is recorded have this effect, such as those that repeat a delete because the store lags |
| `delete_leaves_object` | The template is deleted after its object was created in a member and before the target store saw it.  The helper finds nothing to delete, removes the finalizer; the object stays |
| `dns_offline` | A cluster becomes unready.  The loop that should keep its entry looks for it in a status that was never copied (servicedns/controller.go:342-345, 389), and the entry is dropped |

The following properties are stated too, and TLC refutes them in seconds with the setting
named; they are no runs of their own:

| Property | Setting | What happens |
|---|---|---|
| `VersionGoesWithTemplate` | `MCSyncController`, `Scenarios <- DeletionFault` | Deleting the PropagatedVersion fails after the finalizer is gone.  The retry finds no template and returns (controller.go:438-440); the PropagatedVersion stays, although `test/common/crudtester.go:285` says that it "should also be removed".  A crash at that point and a lost reply to the removal of the finalizers do the same; `LeftOnlyByInterruption` says, and the proof shows, that nothing else does |
| `SeesOwnVersions` | `MCSyncController`, `Scenarios <- FaultyRecreation` | The update of a created PropagatedVersion's status fails, and the mark of `pendingVersionUpdates` is taken back (controller.go:684); the template is deleted and created again, with a new PropagatedVersion, and its status update fails as well.  With nothing pending the worker plans from the first version, whose deletion has not reached the store |
| `OnlyUsersDelete` | `MCSyncController`, `Scenarios <- Recreation` | After the finalizers are removed, the template is gone; a user creates it again; `delete` removes it by name (controller.go:568-578) |
| `ShutsDownCleanly` | `MCFederatedTypeConfig`, `EventBudget <- Stopping` | `shutDown` empties the map while the worker is between the start of a sync controller and the registration of its channel: that controller is never stopped.  Or `stopController` has read a channel that `shutDown` closes, and closes it again |
| `ReadyClustersServed` | `MCClusterLifecycle`, `Budgets <- Fault` | A client cannot be made when a cluster becomes ready; nothing tries again, and `ClustersSynced` stays false for all (federated_informer.go:412, 516) |
| `StopsEverything` | `MCClusterLifecycle`, `Budgets <- Lives` | `Stop` comes between an event and `addCluster`: the target informer that is started then is never stopped (federated_informer.go:288, 408) |

Met in the course of the work, and neither runs nor properties of their own:

* Readiness that flips between the listing of the unready clusters and the
  search of the stores lets `delete` skip a cluster (the same property as
  `delete_leaves_object`).
* With comparison by generation, a member object deleted and recreated by
  somebody else can have the generation that was recorded: `VersionsVouch` is
  false for two drifts and `ComparisonField = "Generation"`.
* `isSynced` (controller.go:377) does not ask for the stores of templates,
  overrides and PropagatedVersions, so a restarted controller may propagate
  without an override that exists, and repairs it when the store has listed.
* In the type config controller, an update that fails after `SetFinalizers` has
  edited the store: for a deletion, `DeletionCompletesUnlessMisled` excepts the state
  in which every retry believes the finalizer gone; for a start, the retry starts
  a sync controller for a type config without the finalizer, whose deletion
  nobody notices (`Reconcile` returns at `NotFound`, line 93).
* In the deliverer, channels of 100 and 1000 items that are full make `run` and a
  handler that redelivers (`reconcileOnClusterChange`, controller.go:401) wait on each
  other for ever (`Jammed`), and a `run` that is sending when the handler has
  returned never sees `Stop`; the two liveness properties except just these states.
  `run` counts its sleep from a time read before `deliver` (line 120), so it
  oversleeps by as long as `deliver` was blocked: requests are settled, but late.
* The cluster controller keeps a cluster known whose client could not be made
  (CC 135), and never makes it again; a rejoin that arrives as an update keeps the
  old client; a status saved after its cluster was removed is compared with when
  the cluster is back (CC 218).  `FollowsHealth` and `TransitionsSinceJoin` except the states
  that their comments name.
* The comment on the planner's loop (planner.go:144-153) expects a number of
  trials that is logarithmic in the replicas.  With preallocated replicas in one
  of several clusters of equal weight a trial may use up one at a time; what holds
  is `TrialsBounded`: no more trials than replicas, and one.
* A capacity estimate below zero (more unschedulable pods than replicas,
  scheduler.go:385) makes a plan negative; `WithinLimits` excepts it, `Conserved` does not.

### Fairness

`FairSpec` assumes weak fairness of the code's own goroutines: each informer goes
on delivering, each deliverer fires, the worker loops (`wait.Until`,
controller.go:320), each goroutine of the updater gets an answer.  Nothing is
assumed of users, drift, failures, timeouts, late landings, flips or crashes.
The list of PropagatedVersions is fair only the first time; a relist is an
environment event.  `DeletionCompletes` has the premise that in the end all
clusters are ready, because the helper waits for unready ones by design
(deletion_helper.go:179-187).  `ConvergesUnlessUpdateLost` excepts the case that
`propagation_stuck` shows, and that controller.go:677 has a TODO for.

In `FederatedTypeConfig` the worker, the informer and the goroutines that wait for the stop
signal are weakly fair.  `GetConfig(n)` is strongly fair: the queue hands out its names
in turn, so a name that is in it whenever the worker comes back is taken in the
end.

In `ClusterLifecycle` a join goes on to its end, the health check is a goroutine with a
timer (CC 145-155), each informer delivers, and a process that panicked is started again.
In `PlannerSteps` the loop goes on.  In `ReplicaScheduling` the worker, each informer, the sync
controller for each member, and pods and their status go on; nothing is assumed of
scaling, flips, edits or failures.  In `ServiceDNS` the same holds of the deliverers, the
worker and each watch.

In `DelayingDeliverer` time passes, each goroutine that can go on does, handlers
return, and the cases of `select` are strongly fair, since Go chooses at random among
those that are ready.

## 5. Proofs

For every finite set of clusters, every budget and every queue bound:

* `TypeCorrect == Spec => []TypeOK`: `TypeOK` is inductive.  The proof has one step per
  action; the lemmas before it give the types of the pure functions.
* `PropagationProtected == Spec => []ProtectedPropagation`, by the invariant `ProtInv` below.
* `RecordedVersionsVouch`: for `ComparisonField = "ResourceVersion"`,
  `Spec => []VersionsVouch`, and `CopiesAlwaysVouch`, `Spec => []IInv`.  The assumption is
  needed: they are false for generations.
* `VersionsLeftOnlyByInterruption == Spec => LeftOnlyByInterruption`, from `ProtInv` as well, with no
  hypothesis: calls fail, replies get lost and the process crashes anywhere.
* `OwnVersionsSeen`: if no scenario loses replies, and none has both deletions of the template
  and failing calls, `Spec => []SeesOwnVersions`.

`VersionsVouch` speaks of the PropagatedVersion, template and member in the API
now.  It is not inductive: the worker holds copies of a template and of a
PropagatedVersion, the stores and the event queue hold others, and reported
versions wait to be recorded.  `IInv` says of every copy what must hold for it
to be written back safely:

* `TemplatesNamed`: among all copies of the template, a resource version names one
  body, and none is newer than the API's;
* `CopiesVouch`: in every copy of the PropagatedVersion, a version recorded for one
  of these templates and an override vouches for their content, and is not newer
  than the member's object;
* `ReportsVouch`: so does a version an operation of this batch has reported; and
  operations carry the content of the template in hand;
* `Batches`: there are operations only from planning to recording.

The step is proved by *moves*: a member object only moves forward
(`ObjectMoves`), which keeps every voucher; the template only moves to itself or to
a newer resource version (`TemplateMoves`); copies of the PropagatedVersion only come from
existing copies or from `NewStatus` and `CreatedPV` (`VersionsMove`), which vouch.
`MovesKeep` puts the three together, and each action is shown to be such moves.
`late` operations need nothing: the member's resource version check, or the new
resource version they produce, keeps recorded versions sound.

`ProtectedPropagation` speaks of the template in the API, but the worker decides by the copy
in its hand, which came from a store that lags.  `ProtInv` says why that is enough:

* a copy of the template, in the store or in hand, is not newer than the API's, and one of
  the same version is the same object (`HeldAreOld`);
* a copy that has the finalizer and knows of no deletion is right about the finalizer,
  however old it is, since only the worker takes it off (`HeldAreRight`);
* and the worker does so only for a deletion that its own store has seen
  (`DeletionInStore`), so that no later reconcile finds the template as it was before;
* what each step of the worker has ascertained of the template in hand (`HandsKnow`), and
  that the deletion helper does not write (`WritesInPropagation`).

`LeftOnlyByInterruption` is about the steps that break up a PropagatedVersion and its protected template:
a step leaves it behind if it writes one for a template that has no finalizer, takes the finalizer
off, or takes the worker away from the PropagatedVersion it is about to delete.  `HandsKnow` and
`HeldAreRight` exclude the first; the worker takes the finalizers off only to go on to the
PropagatedVersion, unless the reply is lost; and it goes away without deleting it only by a failing
call or a crash.

`SeesOwnVersions` is about the worker and a queue of events that it fills itself.  `OwnInv` adds to
`ProtInv` which queues there can be: none or one event whenever nothing is pending, and
that one tells of a creation or of a deletion (`NothingPending`); else at most a creation, an
update and a deletion, in this order (`UpdatePending`), because the worker waits for
the update before it plans again.  So what it reads between the check of
`pendingVersionUpdates` and the insert is what the API has, unless one of the two has
no object (`HandsCurrent`), and a write on top of it is refused or is the only event.  A
status write that fails after a creation leaves that creation as the one event, with nothing pending:
harmless as long as the template is not deleted (`Undeleted`), and the counterexample in section 4
otherwise.  The hypothesis of `OwnVersionsSeen` is met by the
scenarios of `sync_partial`, and those of section 4 refute the property without it.

TLC can check `ProtInv` and `OwnInv` under `MCSyncController` as well; these runs are left
out because the theorems cover them.

For the life of a cluster, `ClusterLifecycleProofs` has one inductive invariant per property, for
any nonempty set of clusters (`ClustersAssumption`: a health check has a cluster to start from),
any administrators, informer identities, queue bound and budgets:

* `JoinIInv` (`JoinsFounded`): what a join relies on at each of its steps, taken apart into what is
  behind each running command (`Backed`, which adds the namespace that the creation of the
  account needs) and behind each FederatedCluster (`Founded`).  Of
  two joins, the service account is the one thing that only one can create;
  everything after it is reached by its owner alone, and `Unjoin` waits for the joins.
* `MapIInv` (`InformersStoppable`): a store that says a cluster is gone says nothing else of it
  (`BlankWhenGone`), and what the handlers' goroutine is about to do fits the store
  (`HandlerFits`), because the next event is not taken before both locks were released.
* `DatedIInv` (`TransitionsDated`): events are not of clusters that were not created yet
  (`EventsDated`); a client is not newer than its cluster nor newer than the status kept for it
  (`MapsDated`); and so are the copies that the health check carries from one lock to the next
  (`CheckDated`).  The last part is where `outlived` is needed.

`ChannelInv` of the type config controller is inductive, and `ChannelsCorrect`,
`OneSyncController`, `ShutDownMissesNone` and `StoppedBeforeRelease` are proved from it,
for any set of type configs and any budget.  Its parts: a running sync controller's
channel is registered or in the worker's hand (`Reachable`); a channel belongs to
one type (`Owned`); a registered channel is open, but between `close` and `delete`
(`RegisteredOpen`); what `Reconcile` read of the map still holds unless `shutDown`
came between (`AtHand`); an object with a finalizer is there (`FinalizersKeep`).  `ShutDown` is the action that makes the
exceptions in these parts necessary, and in the proof it is the only one.

`DelivererKeepsPromise` says that `DelayingDeliverer` implements `DeliveryPromise`, for any keys,
callers, capacities and clock, and any heap that `HeapAssumption` describes.  `DelivererInv` is the inductive invariant
(`NothingDeliveredEarly`).  The proof follows a request through its places: lemmas on
counting (`CountAppend`, `CountTail`, `AskingMore`, `AskingLess`) say what one step
does to one place, and one lemma per action (`SendUpdateMoves`, `PopDueMoves`, ...) that
the sum stays, or changes as `Ask`, `Coalesce` or `Hand` say.

`CodeHeapCorrect` says that the heap of `DelivererHeap` is such a heap, for any keys, any natural
numbers as due times, and any size: an update merges its item as `Merged` says, the root is an
earliest item, `HeapPop` removes it and nothing else, and the result is a heap whose
positions are those of its items.  `CodeArraysCorrect` says the same of the heaps of finitely many keys, of
which the run's `ValidHeaps` is an instance.

An operation on the heap breaks its order around one item and then moves that item.
`Rising` says that all is in order but the item at `s.at` with its parent, and `Sinking` that all
is but that item with its children; both also say that the parent of `s.at` is not later than
its children, without which neither would survive a move (`RisenMoves`, `SunkMoves`; `TimesRise`
and `TimesSink` are the same about numbers alone).  `Up` and `Down` are recursive functions that
repeat the move as often as the array is long.  That the recursion has a solution, and that
nothing is left to move in the end (`UpReached`, `UpOrders`, `DownReached`, `DownOrders`), is induction on
numbers, which takes the form of a lemma on sets: one that has 0, and with each number the
next, has them all (`NumbersFromZero`).  `Fix` tries `Down` before `Up`, but `run` only makes
items earlier: such an item does not sink (`DownStays`) and rises, if anything (`EarlierRises`).

`NoTriggerMissed` says of the service DNS controller that whenever nothing is due, being
reconciled or on its way, and the informers are up to date with the clusters, the
record is right about the stores, for any clusters and any budgets.  `NothingMissed` is not
inductive: `IInv` of `ServiceDNSProofs` says the same of every step of the worker.  As long as
nothing is due, what the worker has read of the record is the record
(`AboutRecord`), and the entries it has collected agree with the stores as they are
now, not as they were when it read them (`AboutWork`): every change of a store makes the
record due, so that nobody has to trust entries that are out of date.

Of the planner, for any finite set of clusters and any requests, `PlannerTypeCorrect` is the type
invariant and the other theorems of `PlannerSteps` have an inductive invariant each:

* `PlansWithinLimits`: between the minimums and the trials, plan, preallocation and what
  remains are bounded by each other (`WithinLimits` with what each loop adds to it).
  Rounding up is where it could go wrong: `ShareNat` shows that a share is a natural
  number, and a share never exceeds what remains because of the minimum that is taken (planner.go:171).
* `NothingLeftOver`: clusters with a weight that are not distributed to any more are full, and a trial
  that has changed nothing yet has kept none with a weight (`Filled`).
* `HeaviestServedFirst`: minimums are assigned in order, and a cluster gets less than its own only when
  nothing remains for those after it (`InOrder`); later steps only add (`Grows`), and nothing once
  nothing remains.
* `ReplicasConserved`: what is planned and what remains sum up to the request (`Conserving`).
* `TrialsPaced`: each trial but the one that runs has taken a replica off those that remain or are
  preallocated (`Open`), so that trials and `Open` together exceed the request by one at most (`Paced`).
* `RunningReplicasStay`: until all is kept that runs, no cluster is planned more than it needs, so
  that enough remains for what the others need (`Staid`).

Sums over clusters are folds, whose value for every set would be an induction over data.  The
proofs get by without: a lemma on sums that fails has a smallest set on which it fails, which the
theorems on well-founded relations supply, and there one step of the fold contradicts it.
`EveryPlanningEnds` is the safety core of termination, for requests sane or not: inside a trial the
clusters still to be looked at become fewer (`Rank`); of the trials of a planning that never
ended, some would have the fewest active clusters and, of these, the least `Open`, but the
trial after it has fewer or less.  `Terminates`, which adds fairness, stays with TLC.

`PlannedReplicas[r]` of `ReplicaPlanner` is the plan itself: the recursive function that runs the steps to
the end.  That the recursion has a solution, and that what holds initially and is kept by each step
holds of its result (`PlannedReached`), follows from `EveryPlanningEnds`.  With it the invariants
of the steps become statements about a function: `ScheduleWithinLimits` and
`AllReplicasScheduled`, which hold of what the scheduler writes.

`SchedulingTypeCorrect` needs the planner, too, since the override's replicas are a plan:
`ReplicaSchedulingProofs` takes `PlannerProofs` by INSTANCE and cites `PlannedReached`.
`PlacementAndOverridePaired` follows a reconciliation from the reading of the placement to that of
the override: one that ends without being due again has found both as planned
(`Pairing`), and any write of either, by the worker itself or by a user,
makes the preference due.

`RestsOnWhatIsObserved` says that a scheduler at rest has written the plan for what the members report
now.  A worker reads cluster after cluster while these change; `Freshness` says that as
long as the preference is not due, what it has read so far is what it would
read now (`ObservesFresh`), what it has planned is the plan for that (`PlansFresh`), and what
it has left behind as well (`WrittenFresh`).  A cluster is excused as long as an event is still to
come that will make the preference due (`Excused`).  The assumption `Announces` is what makes the event come when pods get stuck;
for a target without it, a ReplicaSet, the property is false (section 3.7).

Only model-checked:

* liveness, which TLAPS does not support with fairness: `ConvergesUnlessUpdateLost`, `Quiesces`,
  `DeletionCompletes`, `FollowsConfig`, `DeletionCompletesUnlessMisled`, `FollowsHealth`,
  `SyncsAgain`, `Terminates`, `Settles`, `Converges`, `DeliversUnlessJammed`,
  `StopsUnlessSending`;
* the three properties of the runs that expect a violation.

## 6. Not modelled

* The Namespace kind of the sync controller (controller.go:815, primary cluster, system
  namespaces, the namespace placement plugin) and the Service update rules
  (controller.go:966-1039): one namespaced kind is modelled, whose contents are abstract.
* Several templates, preferences or records at once.  Each key is reconciled by
  one worker from stores of its own; keys share the cluster deliverer and the
  updater's clients, and nothing else.
* `DeepCopyRelevantObjectMeta`, qualified names, construction of clients, secrets and
  config maps: functions without state.
* Generated clients, API schema, injection, process start-up, features, command
  line flags, and the test framework, which have no behaviour of their own to check.
  They are the larger part of the repository's lines.
* Health probing, DNS servers and load balancers are I/O.
