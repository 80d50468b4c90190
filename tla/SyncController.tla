--------------------------- MODULE SyncController ---------------------------
(***************************************************************************)
(* The sync controller (pkg/controller/sync/controller.go) for one         *)
(* federated resource, with the deletion helper, the federated updater and *)
(* the target informers it drives, the federation API and the member       *)
(* clusters.                                                               *)
(*                                                                         *)
(* One worker reconciles; informers copy API objects to caches with        *)
(* arbitrary delay; operations in member clusters run in parallel; the     *)
(* environment edits, drifts, fails, times out and crashes within a budget. *)
(***************************************************************************)
EXTENDS SyncObjects, Sequences

CONSTANTS
  Scenarios,   \* cold: start before the informers have listed anything;
               \* budget: how often each environment step may happen
  MaxQueued    \* bound on the items in the work queue

EnvSteps == {"edit", "delete", "recreate", "override", "place", "drift",
             "flip", "fault", "lost", "timeout", "crash", "relist"}

ASSUME ScenariosAssumption ==
  Scenarios \subseteq [cold : BOOLEAN, budget : [EnvSteps -> Nat]]
ASSUME MaxQueuedAssumption == MaxQueued \in Nat \ {0}

VARIABLES
  template, override, placement, pv,   \* the federation API
  member,                              \* [c] the object in member cluster c
  ready,                               \* [c] Ready in the cached cluster list
  informer,                            \* [c] target informer of c
  mCache,                              \* [c] target store of c
  tCache, oCache, pCache, pvCache,     \* informer stores of the federation API
  synced,                              \* those of them that have synced
  pvQueue,                             \* PropagatedVersion events to deliver
  pending,                             \* pendingVersionUpdates has the key
  scheduled,                           \* the deliverer's heap has the key
  queued,                              \* items in the work queue
  clusterDue,                          \* the cluster deliverer has its key
  pc, job,                             \* the worker and its local variables
  op,                                  \* [c] the operation of this batch on c
  late,                                \* operations the updater gave up on
  budget

apiVars    == <<template, override, placement, pv>>
targetVars == <<ready, informer, mCache>>
cacheVars  == <<tCache, oCache, pCache, synced>>
pvVars     == <<pvCache, pvQueue, pending>>
queueVars  == <<scheduled, queued, clusterDue>>
workerVars == <<pc, job, op>>
vars == <<apiVars, member, targetVars, cacheVars, pvVars, queueVars,
          workerVars, late, budget>>

Stores == {"template", "override", "placement", "pv"}
Steps  == {"idle", "finalize", "place", "compute", "updating", "record",
           "createStatus", "delete", "deleteScan", "deleteFinalizer",
           "deletePV", "deleteTemplate"}

Job   == [tmpl : Template, ov : Nat, sel : SUBSET Clusters,
          pv : PropagatedVersion, unready : SUBSET Clusters, failed : BOOLEAN]
NoJob == [tmpl |-> NoTemplate, ov |-> 0, sel |-> {}, pv |-> NoPV,
          unready |-> {}, failed |-> FALSE]
NoOps == [c \in Clusters |-> NoOp]

TypeOK ==
  /\ template \in Template /\ override \in Override
  /\ placement \in SUBSET Clusters /\ pv \in PropagatedVersion
  /\ member \in [Clusters -> Object]
  /\ ready \in [Clusters -> BOOLEAN]
  /\ informer \in [Clusters -> {"none", "started", "synced"}]
  /\ mCache \in [Clusters -> Object]
  /\ tCache \in Template /\ oCache \in Override
  /\ pCache \in SUBSET Clusters /\ pvCache \in PropagatedVersion
  /\ synced \in SUBSET Stores
  /\ pvQueue \in Seq(PropagatedVersion)
  /\ pending \in BOOLEAN /\ scheduled \in BOOLEAN /\ clusterDue \in BOOLEAN
  /\ queued \in 0..MaxQueued
  /\ pc \in Steps /\ job \in Job
  /\ op \in [Clusters -> Op]
  /\ late \in SUBSET (Clusters \X Op)
  /\ budget \in [EnvSteps -> Nat]

Init ==
  /\ template = [live |-> TRUE, rv |-> 1, body |-> 1, deleting |-> FALSE,
                 fins |-> {}]
  /\ override \in {NoOverride, [live |-> TRUE, rv |-> 1]}
  /\ placement \in SUBSET Clusters
  /\ pv = NoPV
  /\ member = [c \in Clusters |-> NoObject]
  /\ ready = [c \in Clusters |-> TRUE]
  /\ mCache = [c \in Clusters |-> NoObject]
  /\ \E s \in Scenarios :
       /\ informer = [c \in Clusters |-> IF s.cold THEN "none" ELSE "synced"]
       /\ tCache = IF s.cold THEN NoTemplate ELSE template
       /\ oCache = IF s.cold THEN NoOverride ELSE override
       /\ pCache = IF s.cold THEN {} ELSE placement
       /\ synced = IF s.cold THEN {} ELSE Stores
       /\ scheduled = ~s.cold
       /\ budget = s.budget
  /\ pvCache = NoPV /\ pvQueue = <<>>
  /\ pending = FALSE /\ clusterDue = FALSE
  /\ queued = 0
  /\ pc = "idle" /\ job = NoJob /\ op = NoOps
  /\ late = {}

Spend(step) == /\ budget[step] > 0
               /\ budget' = [budget EXCEPT ![step] = @ - 1]

-----------------------------------------------------------------------------
(* The environment: users of the federation API and of the members *)

EditTemplate ==
  /\ template.live /\ ~template.deleting
  /\ Spend("edit")
  /\ template' = [template EXCEPT !.rv = @ + 1, !.body = @ + 1]
  /\ UNCHANGED <<override, placement, pv, member, targetVars, cacheVars,
                 pvVars, queueVars, workerVars, late>>

\* A deletion that cascades takes the orphan finalizer off, one that orphans
\* leaves it on; an object without finalizers is removed at once.
DeleteTemplate ==
  /\ template.live /\ ~template.deleting
  /\ Spend("delete")
  /\ \E fins \in {template.fins \ {OrphanFinalizer}, template.fins} :
       template' = IF fins = {} THEN Removed(template)
                   ELSE [template EXCEPT !.rv = @ + 1, !.deleting = TRUE,
                                         !.fins = fins]
  /\ UNCHANGED <<override, placement, pv, member, targetVars, cacheVars,
                 pvVars, queueVars, workerVars, late>>

RecreateTemplate ==
  /\ ~template.live
  /\ Spend("recreate")
  /\ template' = [template EXCEPT !.live = TRUE, !.rv = @ + 1,
                                  !.body = @ + 1]
  /\ UNCHANGED <<override, placement, pv, member, targetVars, cacheVars,
                 pvVars, queueVars, workerVars, late>>

EditOverride ==
  /\ Spend("override")
  /\ \/ override' = [live |-> TRUE, rv |-> override.rv + 1]
     \/ override.live /\ override' = [override EXCEPT !.live = FALSE]
  /\ UNCHANGED <<template, placement, pv, member, targetVars, cacheVars,
                 pvVars, queueVars, workerVars, late>>

EditPlacement ==
  /\ Spend("place")
  /\ \E S \in SUBSET Clusters \ {placement} : placement' = S
  /\ UNCHANGED <<template, override, pv, member, targetVars, cacheVars,
                 pvVars, queueVars, workerVars, late>>

\* Somebody else creates, edits or deletes the object in a member.
Drift(c) ==
  /\ Spend("drift")
  /\ \/ /\ ~member[c].live \/ member[c].content # Foreign
        /\ member' = [member EXCEPT ![c] = Written(@, Foreign)]
     \/ member[c].live /\ member' = [member EXCEPT ![c] = Gone(@)]
  /\ UNCHANGED <<apiVars, targetVars, cacheVars, pvVars, queueVars,
                 workerVars, late>>

-----------------------------------------------------------------------------
(* Informers: stores catch up with the API and trigger deliveries.  A store *)
(* may skip over several changes, whose events all came to a delivery; the  *)
(* first list of an absent object has no event.                             *)

SyncTemplate ==
  /\ "template" \notin synced \/ tCache # template
  /\ tCache' = template
  /\ synced' = synced \cup {"template"}
  /\ scheduled' = (scheduled \/ template.live \/ "template" \in synced)
  /\ UNCHANGED <<apiVars, member, targetVars, oCache, pCache, pvVars, queued,
                 clusterDue, workerVars, late, budget>>

SyncOverride ==
  /\ "override" \notin synced \/ oCache # override
  /\ oCache' = override
  /\ synced' = synced \cup {"override"}
  /\ scheduled' = (scheduled \/ override.live \/ "override" \in synced)
  /\ UNCHANGED <<apiVars, member, targetVars, tCache, pCache, pvVars, queued,
                 clusterDue, workerVars, late, budget>>

SyncPlacement ==
  /\ "placement" \notin synced \/ pCache # placement
  /\ pCache' = placement
  /\ synced' = synced \cup {"placement"}
  /\ scheduled' = TRUE
  /\ UNCHANGED <<apiVars, member, targetVars, tCache, oCache, pvVars, queued,
                 clusterDue, workerVars, late, budget>>

\* The initial list of the PropagatedVersion informer, and its list after a
\* broken watch.  Only an update event (UpdateFunc) clears pending; an object
\* that was not in the store before is an add event, which clears nothing.
ListPV ==
  /\ "pv" \in synced => Spend("relist")
  /\ "pv" \notin synced => UNCHANGED budget
  /\ pvCache' = pv
  /\ pvQueue' = <<>>
  /\ synced' = synced \cup {"pv"}
  /\ pending' = (pending /\ ~(pvCache.live /\ pv.live))
  /\ UNCHANGED <<apiVars, member, targetVars, tCache, oCache, pCache,
                 queueVars, workerVars, late>>

DeliverPV ==
  /\ pvQueue # <<>>
  /\ pvCache' = Head(pvQueue)
  /\ pvQueue' = Tail(pvQueue)
  /\ pending' = (pending /\ ~(pvCache.live /\ Head(pvQueue).live))
  /\ UNCHANGED <<apiVars, member, targetVars, cacheVars, queueVars,
                 workerVars, late, budget>>

\* The cached condition of a cluster flips (the store changes before the
\* handler of the event runs, and the next event waits for the handler).
FlipReady(c) ==
  /\ ready[c] = (informer[c] # "none")
  /\ Spend("flip")
  /\ ready' = [ready EXCEPT ![c] = ~@]
  /\ UNCHANGED <<apiVars, member, informer, mCache, cacheVars, pvVars,
                 queueVars, workerVars, late>>

\* The handler: addCluster or deleteCluster, then ClusterAvailable or
\* ClusterUnavailable, which schedule the cluster deliverer.
HandleCluster(c) ==
  /\ ready[c] # (informer[c] # "none")
  /\ informer' = [informer EXCEPT ![c] = IF ready[c] THEN "started" ELSE "none"]
  /\ mCache' = [mCache EXCEPT ![c] = NoObject]
  /\ clusterDue' = TRUE
  /\ UNCHANGED <<apiVars, member, ready, cacheVars, pvVars, scheduled, queued,
                 workerVars, late, budget>>

SyncTarget(c) ==
  /\ informer[c] # "none"
  /\ informer[c] = "started" \/ mCache[c] # member[c]
  /\ mCache' = [mCache EXCEPT ![c] = member[c]]
  /\ informer' = [informer EXCEPT ![c] = "synced"]
  /\ scheduled' = (scheduled \/ member[c].live \/ informer[c] = "synced")
  /\ UNCHANGED <<apiVars, member, ready, cacheVars, pvVars, queued, clusterDue,
                 workerVars, late, budget>>

-----------------------------------------------------------------------------
(* Deliverers *)

IsSynced ==
  /\ "placement" \in synced
  /\ \A c \in Clusters : informer[c] = IF ready[c] THEN "synced" ELSE "none"

Deliver ==
  /\ scheduled /\ queued < MaxQueued
  /\ scheduled' = FALSE
  /\ queued' = queued + 1
  /\ UNCHANGED <<apiVars, member, targetVars, cacheVars, pvVars, clusterDue,
                 workerVars, late, budget>>

\* There is no return after the redelivery: templates are delivered anyway.
ReconcileOnClusterChange ==
  /\ clusterDue
  /\ clusterDue' = ~IsSynced
  /\ scheduled' = (scheduled \/ tCache.live)
  /\ UNCHANGED <<apiVars, member, targetVars, cacheVars, pvVars, queued,
                 workerVars, late, budget>>

-----------------------------------------------------------------------------
(* The worker *)

\* The status reconcile returns: all but AllOK deliver the key again.
Finish(status) ==
  /\ pc' = "idle" /\ job' = NoJob /\ op' = NoOps
  /\ scheduled' = (scheduled \/ status # "AllOK")

Goto(step) == /\ pc' = step
              /\ UNCHANGED <<op, scheduled>>

\* A call to an API server that returns an error: it is refused, it fails
\* before it takes effect, or its reply is lost after it took effect.
ErrorReply(accepted, effect, noEffect) ==
  \/ ~accepted /\ noEffect /\ UNCHANGED budget
  \/ Spend("fault") /\ noEffect
  \/ accepted /\ Spend("lost") /\ effect

StartReconcile ==
  /\ pc = "idle" /\ queued > 0
  /\ queued' = queued - 1
  /\ \/ ~IsSynced /\ Finish("NotSynced")
     \/ IsSynced /\ ~tCache.live /\ Finish("AllOK")
     \/ /\ IsSynced /\ tCache.live
        /\ job' = [NoJob EXCEPT !.tmpl = tCache]
        /\ Goto(IF tCache.deleting THEN "delete" ELSE "finalize")
  /\ UNCHANGED <<apiVars, member, targetVars, cacheVars, pvVars, clusterDue,
                 late, budget>>

\* Optimistic concurrency: an update carries the resource version it was
\* computed from.
TemplateUpdateAccepted == template.live /\ template.rv = job.tmpl.rv

\* Mutants: a misspelt finalizer; only the orphan finalizer is ensured.
FinalizedMisspelt ==
  [template EXCEPT !.rv = @ + 1, !.fins = @ \cup Finalizers \cup {"delete"}]
FinalizedOrphanOnly ==
  [template EXCEPT !.rv = @ + 1, !.fins = @ \cup {OrphanFinalizer}]

Finalized == [template EXCEPT !.rv = @ + 1, !.fins = @ \cup Finalizers]

EnsureFinalizers ==
  /\ pc = "finalize"
  /\ \/ /\ Finalizers \subseteq job.tmpl.fins
        /\ Goto("place")
        /\ UNCHANGED <<template, job, budget>>
     \/ /\ ~(Finalizers \subseteq job.tmpl.fins)
        /\ \/ /\ TemplateUpdateAccepted
              /\ template' = Finalized
              /\ job' = [job EXCEPT !.tmpl = Finalized]
              /\ Goto("place")
              /\ UNCHANGED budget
           \/ /\ ErrorReply(TemplateUpdateAccepted, template' = Finalized,
                            UNCHANGED template)
              /\ Finish("Error")
  /\ UNCHANGED <<override, placement, pv, member, targetVars, cacheVars,
                 pvVars, queued, clusterDue, late>>

ReadyClusters == {c \in Clusters : ready[c]}

\* clusterNames, ComputePlacement, the override, and the pending check.
ComputePlacement ==
  /\ pc = "place"
  /\ \/ pending /\ Finish("NeedsRecheck")
     \/ /\ ~pending
        /\ job' = [job EXCEPT !.sel = pCache \cap ReadyClusters,
                              !.unready = Clusters \ ReadyClusters,
                              !.ov = OverrideVersion(oCache)]
        /\ Goto("compute")
  /\ UNCHANGED <<apiVars, member, targetVars, cacheVars, pvVars, queued,
                 clusterDue, late, budget>>

PlannedOps ==
  LET recorded == RecordedVersions(pvCache, job.tmpl.rv, job.ov)
  IN  [c \in Clusters |->
         IF c \in job.unready THEN NoOp
         ELSE PlannedOp(c \in job.sel, mCache[c], recorded[c],
                        Desired(job.tmpl.body, job.ov))]

ClusterOperations ==
  /\ pc = "compute"
  /\ \/ PlannedOps = NoOps /\ Finish("AllOK")
     \/ /\ PlannedOps # NoOps
        /\ job' = [job EXCEPT !.pv = pvCache]
        /\ op' = PlannedOps
        /\ pc' = "updating"
        /\ UNCHANGED scheduled
  /\ UNCHANGED <<apiVars, member, targetVars, cacheVars, pvVars, queued,
                 clusterDue, late, budget>>

-----------------------------------------------------------------------------
(* The updater: one goroutine per operation *)

\* The goroutine for c: it needs a ready cluster to get a client.
ExecuteOp(c) ==
  LET o == op[c]
      applied == member' = [member EXCEPT ![c] = Performed(o, @)]
  IN  /\ pc = "updating" /\ o.st = "issued"
      /\ \/ /\ ready[c] /\ Accepted(o, member[c])
            /\ applied
            /\ op' = [op EXCEPT ![c].st = "done",
                                ![c].ver = Reported(o, member[c])]
            /\ UNCHANGED budget
         \/ /\ ErrorReply(ready[c] /\ Accepted(o, member[c]), applied,
                          UNCHANGED member)
            /\ op' = [op EXCEPT ![c].st = "failed"]
      /\ UNCHANGED <<apiVars, targetVars, cacheVars, pvVars, queueVars,
                     pc, job, late>>

IssuedIn(ops) == {c \in Clusters : ops[c].st = "issued"}

\* The updater stops waiting; the calls it gives up on may still land.
UpdateTimeout ==
  /\ pc = "updating" /\ IssuedIn(op) # {}
  /\ Spend("timeout")
  /\ late' = late \cup {<<c, op[c]>> : c \in IssuedIn(op)}
  /\ op' = [c \in Clusters |->
              IF op[c].st = "issued" THEN [op[c] EXCEPT !.st = "failed"]
              ELSE op[c]]
  /\ UNCHANGED <<apiVars, member, targetVars, cacheVars, pvVars, queueVars,
                 pc, job>>

LandLate(l) ==
  /\ late' = late \ {l}
  /\ \/ /\ Accepted(l[2], member[l[1]])
        /\ member' = [member EXCEPT ![l[1]] = Performed(l[2], @)]
     \/ UNCHANGED member
  /\ UNCHANGED <<apiVars, targetVars, cacheVars, pvVars, queueVars,
                 workerVars, budget>>

\* Update returns.  The deletion helper always reports an error after it
\* issued deletes; syncToClusters records versions whatever failed.
CollectResults ==
  /\ pc = "updating" /\ IssuedIn(op) = {}
  /\ \/ job.tmpl.deleting /\ Finish("Error")
     \/ /\ ~job.tmpl.deleting
        /\ job' = [job EXCEPT
                     !.failed = \E c \in Clusters : op[c].st = "failed"]
        /\ Goto("record")
  /\ UNCHANGED <<apiVars, member, targetVars, cacheVars, pvVars, queued,
                 clusterDue, late, budget>>

-----------------------------------------------------------------------------
(* updatePropagatedVersion *)

\* A write to the PropagatedVersion, seen by a watch that is established.
WritePV(p) ==
  /\ pv' = p
  /\ pvQueue' = IF "pv" \in synced THEN Append(pvQueue, p) ELSE pvQueue

FinishSync == Finish(IF job.failed THEN "Error" ELSE "AllOK")

\* Create on a CRD with a status subresource drops the status sent with it.
CreatedPV == [NoPV EXCEPT !.live = TRUE, !.rv = pv.rv + 1]

CreateVersion ==
  /\ pc = "record" /\ ~job.pv.live
  /\ \/ /\ ~pv.live
        /\ WritePV(CreatedPV)
        /\ job' = [job EXCEPT !.pv = CreatedPV]
        /\ Goto("createStatus")
        /\ UNCHANGED budget
     \/ /\ ErrorReply(~pv.live, WritePV(CreatedPV), UNCHANGED <<pv, pvQueue>>)
        /\ FinishSync
  /\ UNCHANGED <<template, override, placement, member, targetVars, cacheVars,
                 pvCache, pending, queued, clusterDue, late>>

\* UpdateStatus writes the status it carries; writing what is stored already
\* is no write.
StatusUpdateAccepted == pv.live /\ pv.rv = job.pv.rv
StatusWritten(p) == [p EXCEPT !.rv = pv.rv + 1]

\* pendingVersionUpdates.Insert.
ExpectNothing == UNCHANGED pending   \* mutant: the insert is forgotten
ExpectUpdate  == pending' = TRUE

\* UpdateStatus(createdVersion): the empty status becomes present.
CreateVersionStatus ==
  /\ pc = "createStatus"
  /\ \/ /\ StatusUpdateAccepted
        /\ WritePV(StatusWritten(job.pv))
        /\ ExpectUpdate
        /\ UNCHANGED budget
     \/ /\ ErrorReply(StatusUpdateAccepted, WritePV(StatusWritten(job.pv)),
                      UNCHANGED <<pv, pvQueue>>)
        /\ pending' = FALSE
  /\ FinishSync
  /\ UNCHANGED <<template, override, placement, member, targetVars, cacheVars,
                 pvCache, queued, clusterDue, late>>

NewStatus ==
  [job.pv EXCEPT
     !.tv = job.tmpl.rv, !.ov = job.ov,
     !.vers = MergedVersions(op,
                RecordedVersions(job.pv, job.tmpl.rv, job.ov), job.sel)]

PutStatus == IF NewStatus = job.pv THEN UNCHANGED <<pv, pvQueue>>
             ELSE WritePV(StatusWritten(NewStatus))

UpdateVersion ==
  /\ pc = "record" /\ job.pv.live
  /\ \/ /\ StatusEquivalent(job.pv, NewStatus)
        /\ UNCHANGED <<pv, pvQueue, pending, budget>>
     \/ /\ ~StatusEquivalent(job.pv, NewStatus)
        /\ \/ /\ StatusUpdateAccepted
              /\ PutStatus
              /\ ExpectUpdate
              /\ UNCHANGED budget
           \/ /\ ErrorReply(StatusUpdateAccepted, PutStatus,
                            UNCHANGED <<pv, pvQueue>>)
              /\ pending' = FALSE
  /\ FinishSync
  /\ UNCHANGED <<template, override, placement, member, targetVars, cacheVars,
                 pvCache, queued, clusterDue, late>>

-----------------------------------------------------------------------------
(* delete, with the deletion helper *)

\* Mutant: the list without the finalizers is not set on the object.
WithoutFinalizersUnset(fins) == template

WithoutFinalizers(fins) ==
  LET t == [template EXCEPT !.rv = @ + 1, !.fins = @ \ fins]
  IN  IF t.deleting /\ t.fins = {} THEN Removed(t) ELSE t

RemoveFinalizers(fins) ==
  \/ /\ TemplateUpdateAccepted
     /\ template' = WithoutFinalizers(fins)
     /\ Goto("deletePV")
     /\ UNCHANGED <<job, budget>>
  \/ /\ ErrorReply(TemplateUpdateAccepted, template' = WithoutFinalizers(fins),
                   UNCHANGED template)
     /\ Finish("Error")

HandleDeletion ==
  /\ pc = "delete"
  /\ \/ /\ DeleteFinalizer \notin job.tmpl.fins
        /\ Goto("deletePV")
        /\ UNCHANGED <<template, job, budget>>
     \/ /\ Finalizers \subseteq job.tmpl.fins
        /\ RemoveFinalizers(Finalizers)
     \/ /\ job.tmpl.fins = {DeleteFinalizer}
        /\ job' = [job EXCEPT !.unready = Clusters \ ReadyClusters]
        /\ Goto("deleteScan")
        /\ UNCHANGED <<template, budget>>
  /\ UNCHANGED <<override, placement, pv, member, targetVars, cacheVars,
                 pvVars, queued, clusterDue, late>>

\* GetFromAllClusters, after the unready clusters were listed.  Mutant: the
\* object is deleted from every cluster, found in its store or not.
DeleteOpsUnseen == [c \in Clusters |-> Issue("delete", 0, Foreign)]
DeleteOps == [c \in Clusters |-> PlannedOp(FALSE, mCache[c], 0, Foreign)]

ScanTargets ==
  /\ pc = "deleteScan"
  /\ \/ /\ DeleteOps # NoOps
        /\ op' = DeleteOps
        /\ pc' = "updating"
        /\ UNCHANGED <<job, scheduled>>
     \/ /\ DeleteOps = NoOps /\ job.unready # {}
        /\ Finish("Error")
     \/ /\ DeleteOps = NoOps /\ job.unready = {}
        /\ Goto("deleteFinalizer")
        /\ UNCHANGED job
  /\ UNCHANGED <<apiVars, member, targetVars, cacheVars, pvVars, queued,
                 clusterDue, late, budget>>

DropFinalizer ==
  /\ pc = "deleteFinalizer"
  /\ RemoveFinalizers({DeleteFinalizer})
  /\ UNCHANGED <<override, placement, pv, member, targetVars, cacheVars,
                 pvVars, queued, clusterDue, late>>

DeletedPV == [NoPV EXCEPT !.rv = pv.rv]
ErasePVForgotten == UNCHANGED <<pv, pvQueue>>   \* mutant
ErasePV   == IF pv.live THEN WritePV(DeletedPV) ELSE UNCHANGED <<pv, pvQueue>>

DeletePV ==
  /\ pc = "deletePV"
  /\ \/ /\ ErasePV
        /\ Goto("deleteTemplate")
        /\ UNCHANGED <<job, budget>>
     \/ /\ ErrorReply(TRUE, ErasePV, UNCHANGED <<pv, pvQueue>>)
        /\ Finish("Error")
  /\ UNCHANGED <<template, override, placement, member, targetVars, cacheVars,
                 pvCache, pending, queued, clusterDue, late>>

\* templateClient.Delete by name; NotFound is no error.  A template that is
\* there and not being deleted has no finalizer yet, and is gone at once.
EraseTemplate == IF template.live /\ template.fins = {}
                 THEN template' = Removed(template) ELSE UNCHANGED template

DeleteTemplateByName ==
  /\ pc = "deleteTemplate"
  /\ \/ EraseTemplate /\ Finish("AllOK") /\ UNCHANGED budget
     \/ ErrorReply(TRUE, EraseTemplate, UNCHANGED template) /\ Finish("Error")
  /\ UNCHANGED <<override, placement, pv, member, targetVars, cacheVars,
                 pvVars, queued, clusterDue, late>>

-----------------------------------------------------------------------------
(* A crash of the controller process *)

Crash ==
  /\ Spend("crash")
  /\ informer' = [c \in Clusters |-> "none"]
  /\ mCache' = [c \in Clusters |-> NoObject]
  /\ tCache' = NoTemplate /\ oCache' = NoOverride /\ pCache' = {}
  /\ synced' = {}
  /\ pvCache' = NoPV /\ pvQueue' = <<>> /\ pending' = FALSE
  /\ scheduled' = FALSE /\ queued' = 0 /\ clusterDue' = FALSE
  /\ pc' = "idle" /\ job' = NoJob /\ op' = NoOps
  /\ late' = late \cup {<<c, op[c]>> : c \in IssuedIn(op)}
  /\ UNCHANGED <<apiVars, member, ready>>

-----------------------------------------------------------------------------

User == \/ EditTemplate \/ DeleteTemplate \/ RecreateTemplate
        \/ EditOverride \/ EditPlacement
        \/ \E c \in Clusters : Drift(c) \/ FlipReady(c)
        \/ UpdateTimeout \/ Crash
        \/ \E l \in late : LandLate(l)

Informers == \/ SyncTemplate \/ SyncOverride \/ SyncPlacement
             \/ ListPV \/ DeliverPV
             \/ \E c \in Clusters : HandleCluster(c) \/ SyncTarget(c)

Worker == \/ StartReconcile \/ EnsureFinalizers \/ ComputePlacement
          \/ ClusterOperations \/ CollectResults
          \/ CreateVersion \/ CreateVersionStatus \/ UpdateVersion
          \/ HandleDeletion \/ ScanTargets \/ DropFinalizer
          \/ DeletePV \/ DeleteTemplateByName

Next == \/ User \/ Informers \/ Deliver \/ ReconcileOnClusterChange \/ Worker
        \/ \E c \in Clusters : ExecuteOp(c)

Spec == Init /\ [][Next]_vars

\* Goroutines that can run do run: every informer keeps delivering, every
\* deliverer fires, the worker loops and every call returns.  ListPV is fair
\* only as the initial list.
FairSpec ==
  /\ Spec
  /\ WF_vars(SyncTemplate) /\ WF_vars(SyncOverride) /\ WF_vars(SyncPlacement)
  /\ WF_vars("pv" \notin synced /\ ListPV) /\ WF_vars(DeliverPV)
  /\ \A c \in Clusters : /\ WF_vars(HandleCluster(c))
                         /\ WF_vars(SyncTarget(c))
                         /\ WF_vars(ExecuteOp(c))
  /\ WF_vars(Deliver) /\ WF_vars(ReconcileOnClusterChange)
  /\ WF_vars(Worker)

-----------------------------------------------------------------------------
(* Properties *)

\* What member clusters ready for propagation should hold.
Wanted == Desired(template.body, OverrideVersion(override))

\* A recorded version vouches for content: whenever the PropagatedVersion in
\* the API is for the current template and override, an object that still has
\* the version recorded for its cluster has the content they ask for.  If this
\* broke, clusterOperations (controller.go:832-847) would skip a cluster that
\* needs an update, for good.
VersionsVouch ==
  LET recorded == RecordedVersions(pv, template.rv, OverrideVersion(override))
  IN  \A c \in Clusters :
        member[c].live /\ recorded[c] # 0 /\ recorded[c] = GetVersion(member[c])
          => member[c].content = Wanted

\* The deletion of template t waits for the controller.
Protects(t) == t.live /\ DeleteFinalizer \in t.fins

\* While the worker creates or updates objects in member clusters, the template
\* exists in the API and carries the finalizer that will make the controller
\* delete them again, whatever users do and however stale the template store
\* is ("This method should be called before creating objects in underlying
\* clusters", deletion_helper.go:75).
ProtectedPropagation ==
  (\E c \in Clusters : op[c].kind \in {"add", "update"}) => Protects(template)

\* pendingVersionUpdates does its job: the worker never plans operations from a
\* PropagatedVersion in the store that is older than the one it wrote last
\* (controller.go:487-493), unless the reply to a write was lost, or the write of
\* a status failed and the template was then deleted and created again (its
\* three events are in flight, and nothing is pending, controller.go:684).
SeesOwnVersions ==
  pc = "compute" /\ pv.live /\ pvCache.live => pvCache = pv

\* The worker has nothing to do and knows the current template.
Quiet == /\ pc = "idle" /\ ~scheduled /\ queued = 0 /\ ~clusterDue
         /\ tCache = template /\ "template" \in synced

\* The PropagatedVersion goes with its template (crudtester.go:285-301).
VersionGoesWithTemplate == Quiet /\ ~template.live => ~pv.live

\* The PropagatedVersion is left behind: no finalizer keeps its template any more,
\* and the worker is not about to delete it.
LeftBehind == pv.live /\ ~Protects(template) /\ pc # "deletePV"

Spent(step) == budget'[step] # budget[step]

\* Between the finalizers and the PropagatedVersion, the worker crashes, fails to
\* delete, or is not told that the finalizers are gone.
DeletionInterrupted ==
  \/ pc = "deletePV" /\ (Spent("fault") \/ Spent("crash"))
  \/ pc \in {"delete", "deleteFinalizer"} /\ Spent("lost")

\* A PropagatedVersion is left behind only by a deletion that was interrupted
\* there (controller.go:551-566): not by a reconcile of a template that was
\* deleted or created again meanwhile, by a stale store, or by any other call
\* that fails, reply that is lost or crash.
LeftOnlyByInterruption ==
  [][LeftBehind' => LeftBehind \/ DeletionInterrupted]_vars

\* A template is released from cascading deletion only when no member holds
\* its object (deletion_helper.go:177-179).
CascadeDeletesEverywhere ==
  [][pc = "deleteFinalizer" /\ pc' = "deletePV"
       => \A c \in Clusters : ~member[c].live]_vars

Outstanding(i) ==
  pvQueue[i].live /\ (IF i = 1 THEN pvCache.live ELSE pvQueue[i-1].live)

\* A pending version update is on its way: an update event that will clear the
\* indication has still to be delivered.
PendingIsOnItsWay ==
  pending => \E i \in DOMAIN pvQueue : Outstanding(i)

UpdateLost == ~PendingIsOnItsWay

\* Every ready cluster holds what template, override and placement ask for.
Converged ==
  template.live /\ ~template.deleting =>
    \A c \in ReadyClusters :
      IF c \in placement THEN member[c].live /\ member[c].content = Wanted
      ELSE ~member[c].live

\* Once users, members and failures calm down, the ready clusters converge to
\* what the federation API asks for and stay there.
Converges == <>[]Converged

\* The only way not to converge is to wait for a version update that is lost.
ConvergesUnlessUpdateLost == <>[](Converged \/ UpdateLost)

\* Propagation ends: the controller does not keep writing to member clusters
\* (the endless loop that controller.go:815-818 fears).
Quiesces == <>[](pc # "updating")

\* The controller never deletes a template that no user asked to delete
\* (controller.go:568-576 deletes by name when it believes the template gone).
OnlyUsersDelete ==
  [][template.live /\ ~template.deleting /\ ~template'.live
       => budget'["delete"] # budget["delete"]]_vars

\* A template that a user deleted goes away, if in the end every cluster is
\* ready.
DeletionCompletes ==
  <>[](\A c \in Clusters : ready[c]) => (template.deleting ~> ~template.live)
=============================================================================
