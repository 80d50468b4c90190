------------------------ MODULE SyncControllerProofs ------------------------
(***************************************************************************)
(* Type correctness, ProtectedPropagation and LeftOnlyByInterruption of    *)
(* SyncController, for every set of clusters and every budget, and         *)
(* SeesOwnVersions where its calls to the API do not fail.                 *)
(***************************************************************************)
EXTENDS SyncInvariant, SequenceTheorems, TLAPS

-----------------------------------------------------------------------------
(* Types of the pure functions of SyncObjects *)

\* A write and a delete in a member leave an object there, and the update
\* function reports a number (federated_updater.go:118-152).
LEMMA PerformedType ==
  ASSUME NEW o \in Op, NEW m \in Object
  PROVE  Performed(o, m) \in Object /\ Reported(o, m) \in Nat
<1>1. Gone(m) \in Object
  BY DEF Gone, Object, Content, Foreign
<1>2. Written(m, o.content) \in Object
  BY DEF Written, Op, Object
<1>3. QED
  BY <1>1, <1>2 DEF Performed, Reported, GetVersion, Object

\* Desired content is content.
LEMMA DesiredType ==
  ASSUME NEW body \in Nat, NEW ov \in Nat
  PROVE  Desired(body, ov) \in Content
BY DEF Desired, Content

\* An issued operation is an operation.
LEMMA IssueType ==
  ASSUME NEW kind \in OpKinds, NEW rv \in Nat, NEW k \in Content
  PROVE  Issue(kind, rv, k) \in Op
BY DEF Issue, Op, OpStates

\* clusterOperations plans an operation, or none, for each cluster
\* (controller.go:781-881).
LEMMA PlannedOpType ==
  ASSUME NEW selected \in BOOLEAN, NEW m \in Object, NEW recorded \in Nat,
         NEW k \in Content
  PROVE  PlannedOp(selected, m, recorded, k) \in Op
<1>1. NoOp \in Op
  BY DEF NoOp, Op, OpKinds, OpStates, Foreign, Content
<1>2. Foreign \in Content
  BY DEF Foreign, Content
<1>3. m.rv \in Nat
  BY DEF Object
<1>4. /\ Issue("add", 0, k) \in Op
      /\ Issue("update", m.rv, k) \in Op
      /\ Issue("delete", 0, Foreign) \in Op
  BY <1>2, <1>3, IssueType DEF OpKinds
<1>5. QED
  BY <1>1, <1>4 DEF PlannedOp

\* getClusterVersions returns a version for each cluster, or none.
LEMMA RecordedVersionsType ==
  ASSUME NEW p \in PropagatedVersion, NEW tv, NEW ov
  PROVE  RecordedVersions(p, tv, ov) \in [Clusters -> Nat]
BY DEF RecordedVersions, PropagatedVersion, NoVersions

\* So does clusterVersions.
LEMMA MergedVersionsType ==
  ASSUME NEW ops \in [Clusters -> Op], NEW old \in [Clusters -> Nat],
         NEW selected
  PROVE  MergedVersions(ops, old, selected) \in [Clusters -> Nat]
BY DEF MergedVersions, Op

-----------------------------------------------------------------------------
(* Type correctness *)

\* Every environment step keeps the budget a budget.
LEMMA SpendType ==
  ASSUME budget \in [EnvSteps -> Nat], NEW step \in EnvSteps, Spend(step)
  PROVE  budget' \in [EnvSteps -> Nat]
BY DEF Spend

\* The members of the constant records are in their types.
LEMMA ConstantTypes ==
  /\ NoTemplate \in Template
  /\ NoOverride \in Override
  /\ NoPV \in PropagatedVersion
  /\ NoObject \in Object
  /\ NoOp \in Op
  /\ NoOps \in [Clusters -> Op]
  /\ NoJob \in Job
  /\ Foreign \in Content
<1>1. NoTemplate \in Template
  BY DEF NoTemplate, Template
<1>2. NoOverride \in Override
  BY DEF NoOverride, Override
<1>3. NoPV \in PropagatedVersion
  BY DEF NoPV, PropagatedVersion, NoVersions
<1>4. Foreign \in Content
  BY DEF Foreign, Content
<1>5. NoObject \in Object
  BY <1>4 DEF NoObject, Object
<1>6. NoOp \in Op
  BY <1>4 DEF NoOp, Op, OpKinds, OpStates
<1>7. NoOps \in [Clusters -> Op]
  BY <1>6 DEF NoOps
<1>8. NoJob \in Job
  BY <1>1, <1>3 DEF NoJob, Job
<1>9. QED
  BY <1>1, <1>2, <1>3, <1>4, <1>5, <1>6, <1>7, <1>8

\* A reconciliation that ends leaves the worker idle, with empty hands.
LEMMA FinishType ==
  ASSUME TypeOK, NEW status, Finish(status)
  PROVE  /\ pc' \in Steps /\ job' \in Job /\ op' \in [Clusters -> Op]
         /\ scheduled' \in BOOLEAN
BY ConstantTypes DEF Finish, Steps, TypeOK

\* The initial states are well typed.
LEMMA InitType == Init => TypeOK
<1> SUFFICES ASSUME Init PROVE TypeOK
  OBVIOUS
<1>0. PICK s \in Scenarios :
        /\ informer = [c \in Clusters |-> IF s.cold THEN "none" ELSE "synced"]
        /\ tCache = IF s.cold THEN NoTemplate ELSE template
        /\ oCache = IF s.cold THEN NoOverride ELSE override
        /\ pCache = IF s.cold THEN {} ELSE placement
        /\ synced = IF s.cold THEN {} ELSE Stores
        /\ scheduled = ~s.cold
        /\ budget = s.budget
  BY DEF Init
<1>s. s.cold \in BOOLEAN /\ s.budget \in [EnvSteps -> Nat]
  BY ScenariosAssumption
<1>1. template \in Template /\ override \in Override /\ pv \in PropagatedVersion
  <2>1. template \in Template
    BY DEF Init, Template
  <2>2. [live |-> TRUE, rv |-> 1] \in Override
    BY DEF Override
  <2>3. override \in Override
    BY <2>2, ConstantTypes DEF Init
  <2>4. QED
    BY <2>1, <2>3, ConstantTypes DEF Init
<1>2. tCache \in Template /\ oCache \in Override /\ pvCache \in PropagatedVersion
  BY <1>0, <1>1, ConstantTypes DEF Init
<1>3. placement \in SUBSET Clusters /\ pCache \in SUBSET Clusters
  BY <1>0 DEF Init
<1>4. /\ member \in [Clusters -> Object] /\ mCache \in [Clusters -> Object]
      /\ ready \in [Clusters -> BOOLEAN]
      /\ informer \in [Clusters -> {"none", "started", "synced"}]
  BY <1>0, ConstantTypes DEF Init
<1>5. /\ synced \in SUBSET Stores /\ pvQueue \in Seq(PropagatedVersion)
      /\ pending \in BOOLEAN /\ scheduled \in BOOLEAN /\ clusterDue \in BOOLEAN
      /\ queued \in 0..MaxQueued
  <2>1. pending \in BOOLEAN /\ clusterDue \in BOOLEAN
    BY DEF Init
  <2>2. scheduled \in BOOLEAN
    BY Zenon, <1>0
  <2>3. synced \in SUBSET Stores
    BY <1>0
  <2>4. pvQueue \in Seq(PropagatedVersion) /\ queued \in 0..MaxQueued
    BY MaxQueuedAssumption DEF Init
  <2>5. QED
    BY <2>1, <2>2, <2>3, <2>4
<1>6. /\ pc \in Steps /\ job \in Job /\ op \in [Clusters -> Op]
      /\ late \in SUBSET (Clusters \X Op) /\ budget \in [EnvSteps -> Nat]
  BY <1>0, <1>s, ConstantTypes DEF Init, Steps
<1>7. QED
  BY <1>1, <1>2, <1>3, <1>4, <1>5, <1>6 DEF TypeOK

\* Objects in members stay objects under writes of others.
LEMMA DriftType ==
  ASSUME NEW m \in Object
  PROVE  Written(m, Foreign) \in Object /\ Gone(m) \in Object
<1>1. Written(m, Foreign) \in Object
  BY ConstantTypes DEF Written, Object
<1>2. Gone(m) \in Object
  BY ConstantTypes DEF Gone, Object
<1>3. QED
  BY <1>1, <1>2

\* The operations planned for a batch (syncToClusters, deletion helper).
LEMMA PlannedOpsType ==
  ASSUME TypeOK
  PROVE  PlannedOps \in [Clusters -> Op] /\ DeleteOps \in [Clusters -> Op]
<1>1. RecordedVersions(pvCache, job.tmpl.rv, job.ov) \in [Clusters -> Nat]
  BY RecordedVersionsType DEF TypeOK
<1>2. Desired(job.tmpl.body, job.ov) \in Content
  BY DesiredType DEF TypeOK, Job, Template
<1>3. ASSUME NEW c \in Clusters
      PROVE  /\ PlannedOp(c \in job.sel, mCache[c],
                   RecordedVersions(pvCache, job.tmpl.rv, job.ov)[c],
                   Desired(job.tmpl.body, job.ov)) \in Op
             /\ PlannedOp(FALSE, mCache[c], 0, Foreign) \in Op
  <2>1. /\ mCache[c] \in Object /\ (c \in job.sel) \in BOOLEAN
        /\ RecordedVersions(pvCache, job.tmpl.rv, job.ov)[c] \in Nat
    BY <1>1 DEF TypeOK
  <2>2. QED
    BY <2>1, <1>2, PlannedOpType, ConstantTypes
<1>4. QED
  BY <1>3, ConstantTypes DEF PlannedOps, DeleteOps

\* Writes of the worker to the template (finalizers.go) and to the
\* PropagatedVersion.
LEMMA WrittenTypes ==
  ASSUME TypeOK
  PROVE  /\ Finalized \in Template
         /\ \A fins : WithoutFinalizers(fins) \in Template
         /\ Removed(template) \in Template
         /\ CreatedPV \in PropagatedVersion
         /\ NewStatus \in PropagatedVersion
         /\ StatusWritten(job.pv) \in PropagatedVersion
         /\ StatusWritten(NewStatus) \in PropagatedVersion
         /\ DeletedPV \in PropagatedVersion
<1>1. template \in Template /\ pv \in PropagatedVersion /\ job \in Job
  BY DEF TypeOK
<1>2. Finalized \in Template
  <2>1. template.rv + 1 \in Nat /\ template.fins \cup Finalizers \in SUBSET Finalizers
    BY <1>1 DEF Template
  <2>2. QED
    BY <1>1, <2>1 DEF Finalized, Template
<1>3. ASSUME NEW t \in Template PROVE Removed(t) \in Template
  BY DEF Removed, Template
<1>4. ASSUME NEW fins PROVE WithoutFinalizers(fins) \in Template
  <2>1. template.rv + 1 \in Nat /\ template.fins \ fins \in SUBSET Finalizers
    BY <1>1 DEF Template
  <2>2. [template EXCEPT !.rv = @ + 1, !.fins = @ \ fins] \in Template
    BY <1>1, <2>1 DEF Template
  <2>3. QED
    BY <2>2, <1>3 DEF WithoutFinalizers
<1>5. CreatedPV \in PropagatedVersion /\ DeletedPV \in PropagatedVersion
  <2>1. pv.rv \in Nat /\ pv.rv + 1 \in Nat
    BY <1>1 DEF PropagatedVersion
  <2>2. NoPV \in PropagatedVersion
    BY ConstantTypes
  <2>3. QED
    BY <2>1, <2>2 DEF CreatedPV, DeletedPV, PropagatedVersion
<1>6. NewStatus \in PropagatedVersion
  <2>1. RecordedVersions(job.pv, job.tmpl.rv, job.ov) \in [Clusters -> Nat]
    BY <1>1, RecordedVersionsType DEF Job
  <2>2. MergedVersions(op, RecordedVersions(job.pv, job.tmpl.rv, job.ov),
                       job.sel) \in [Clusters -> Nat]
    BY <2>1, MergedVersionsType DEF TypeOK
  <2>3. job.pv \in PropagatedVersion /\ job.tmpl.rv \in Nat /\ job.ov \in Nat
    BY <1>1 DEF Job, Template
  <2>4. QED
    BY <2>2, <2>3 DEF NewStatus, PropagatedVersion
<1>7. ASSUME NEW p \in PropagatedVersion
      PROVE  StatusWritten(p) \in PropagatedVersion
  BY <1>1 DEF StatusWritten, PropagatedVersion
<1>8. job.pv \in PropagatedVersion
  BY <1>1 DEF Job
<1>9. QED
  BY <1>1, <1>2, <1>3, <1>4, <1>5, <1>6, <1>7, <1>8

\* A write to the PropagatedVersion and its event.
LEMMA WritePVType ==
  ASSUME TypeOK, NEW p \in PropagatedVersion, WritePV(p)
  PROVE  pv' \in PropagatedVersion /\ pvQueue' \in Seq(PropagatedVersion)
BY DEF WritePV, TypeOK

\* The steps of users and of the environment preserve the types.
LEMMA UserType ==
  ASSUME TypeOK, User
  PROVE  TypeOK'
<1> USE DEF apiVars, targetVars, cacheVars, pvVars, queueVars, workerVars
<1>a. /\ template \in Template /\ template.rv + 1 \in Nat
      /\ template.body + 1 \in Nat /\ template.fins \in SUBSET Finalizers
  BY DEF TypeOK, Template
<1>b. /\ override \in Override /\ override.rv + 1 \in Nat
      /\ [live |-> TRUE, rv |-> override.rv + 1] \in Override
  BY DEF TypeOK, Override
<1>c. \A step \in EnvSteps : Spend(step) => budget' \in [EnvSteps -> Nat]
  BY SpendType DEF TypeOK
<1>1. ASSUME EditTemplate PROVE TypeOK'
  <2>1. template' \in Template
    BY <1>1, <1>a DEF EditTemplate, Template
  <2>2. budget' \in [EnvSteps -> Nat]
    BY <1>1, <1>c DEF EditTemplate, EnvSteps
  <2>3. QED
    BY <1>1, <2>1, <2>2 DEF EditTemplate, TypeOK
<1>2. ASSUME DeleteTemplate PROVE TypeOK'
  <2>1. template' \in Template
    <3>1. PICK fins \in {template.fins \ {OrphanFinalizer}, template.fins} :
            template' = IF fins = {} THEN Removed(template)
                        ELSE [template EXCEPT !.rv = @ + 1, !.deleting = TRUE,
                                              !.fins = fins]
      BY <1>2 DEF DeleteTemplate
    <3>2. fins \in SUBSET Finalizers
      BY <1>a
    <3>3. CASE fins = {}
      BY <3>1, <3>3, WrittenTypes
    <3>4. CASE fins # {}
      BY <3>1, <3>2, <3>4, <1>a DEF Template
    <3>5. QED
      BY <3>3, <3>4
  <2>2. budget' \in [EnvSteps -> Nat]
    BY <1>2, <1>c DEF DeleteTemplate, EnvSteps
  <2>3. QED
    BY <1>2, <2>1, <2>2 DEF DeleteTemplate, TypeOK
<1>3. ASSUME RecreateTemplate PROVE TypeOK'
  <2>1. template' \in Template
    BY <1>3, <1>a DEF RecreateTemplate, Template
  <2>2. budget' \in [EnvSteps -> Nat]
    BY <1>3, <1>c DEF RecreateTemplate, EnvSteps
  <2>3. QED
    BY <1>3, <2>1, <2>2 DEF RecreateTemplate, TypeOK
<1>4. ASSUME EditOverride PROVE TypeOK'
  <2>1. [override EXCEPT !.live = FALSE] \in Override
    BY <1>b DEF Override
  <2>2. override' \in Override
    BY <1>4, <1>b, <2>1 DEF EditOverride
  <2>3. budget' \in [EnvSteps -> Nat]
    BY <1>4, <1>c DEF EditOverride, EnvSteps
  <2>4. QED
    BY <1>4, <2>2, <2>3 DEF EditOverride, TypeOK
<1>5. ASSUME EditPlacement PROVE TypeOK'
  BY <1>5, <1>c DEF EditPlacement, EnvSteps, TypeOK
<1>6. ASSUME NEW c \in Clusters, Drift(c) PROVE TypeOK'
  <2>1. member[c] \in Object /\ member \in [Clusters -> Object]
    BY DEF TypeOK
  <2>a. Written(member[c], Foreign) \in Object /\ Gone(member[c]) \in Object
    BY <2>1, DriftType
  <2>2. /\ [member EXCEPT ![c] = Written(@, Foreign)] \in [Clusters -> Object]
        /\ [member EXCEPT ![c] = Gone(@)] \in [Clusters -> Object]
    BY <2>1, <2>a
  <2>3. member' \in [Clusters -> Object]
    BY <1>6, <2>2 DEF Drift
  <2>4. budget' \in [EnvSteps -> Nat]
    BY <1>6, <1>c DEF Drift, EnvSteps
  <2>5. QED
    BY <1>6, <2>3, <2>4 DEF Drift, TypeOK
<1>7. ASSUME NEW c \in Clusters, FlipReady(c) PROVE TypeOK'
  BY <1>7, <1>c DEF FlipReady, EnvSteps, TypeOK
<1>8. {<<c, op[c]>> : c \in IssuedIn(op)} \in SUBSET (Clusters \X Op)
  BY DEF TypeOK, IssuedIn
<1>9. ASSUME UpdateTimeout PROVE TypeOK'
  <2>a. \A c \in Clusters : op[c] \in Op
    BY DEF TypeOK
  <2>1. \A c \in Clusters : [op[c] EXCEPT !.st = "failed"] \in Op
    <3> HIDE DEF TypeOK
    <3> QED
      BY <2>a DEF Op, OpStates
  <2>2. op' \in [Clusters -> Op]
    BY <1>9, <2>1 DEF UpdateTimeout, TypeOK
  <2>3. budget' \in [EnvSteps -> Nat]
    BY <1>9, <1>c DEF UpdateTimeout, EnvSteps
  <2>4. late' \in SUBSET (Clusters \X Op)
    BY <1>9, <1>8 DEF UpdateTimeout, TypeOK
  <2>5. QED
    BY <1>9, <2>2, <2>3, <2>4 DEF UpdateTimeout, TypeOK
<1>10. ASSUME Crash PROVE TypeOK'
  <2>1. budget' \in [EnvSteps -> Nat]
    BY <1>10, <1>c DEF Crash, EnvSteps
  <2>2. late' \in SUBSET (Clusters \X Op)
    BY <1>10, <1>8 DEF Crash, TypeOK
  <2>3. /\ mCache' \in [Clusters -> Object] /\ op' \in [Clusters -> Op]
        /\ informer' \in [Clusters -> {"none", "started", "synced"}]
    BY <1>10, ConstantTypes DEF Crash
  <2>4. /\ queued' \in 0..MaxQueued /\ synced' \in SUBSET Stores
        /\ pvQueue' \in Seq(PropagatedVersion) /\ pc' \in Steps
    BY <1>10, MaxQueuedAssumption DEF Crash, Steps
  <2>5. pending' \in BOOLEAN /\ scheduled' \in BOOLEAN /\ clusterDue' \in BOOLEAN
    BY <1>10, Zenon DEF Crash
  <2>6. /\ tCache' \in Template /\ oCache' \in Override /\ job' \in Job
        /\ pCache' \in SUBSET Clusters /\ pvCache' \in PropagatedVersion
    BY <1>10, ConstantTypes DEF Crash
  <2>7. QED
    BY <1>10, <2>1, <2>2, <2>3, <2>4, <2>5, <2>6 DEF Crash, TypeOK
<1>11. ASSUME NEW l \in late, LandLate(l) PROVE TypeOK'
  BY <1>11, PerformedType DEF LandLate, TypeOK
<1>12. QED
  BY <1>1, <1>2, <1>3, <1>4, <1>5, <1>6, <1>7, <1>9, <1>10, <1>11 DEF User

\* So do those of the informers and of the deliverers.
LEMMA DeliveryType ==
  ASSUME TypeOK, Informers \/ Deliver \/ ReconcileOnClusterChange
  PROVE  TypeOK'
<1> USE DEF apiVars, targetVars, cacheVars, pvVars, queueVars, workerVars
<1>1. ASSUME SyncTemplate PROVE TypeOK'
  BY <1>1 DEF SyncTemplate, Stores, TypeOK
<1>2. ASSUME SyncOverride PROVE TypeOK'
  BY <1>2 DEF SyncOverride, Stores, TypeOK
<1>3. ASSUME SyncPlacement PROVE TypeOK'
  BY <1>3 DEF SyncPlacement, Stores, TypeOK
<1>4. ASSUME ListPV PROVE TypeOK'
  <2>1. budget' \in [EnvSteps -> Nat]
    BY <1>4, SpendType DEF ListPV, EnvSteps, TypeOK
  <2>2. /\ pvCache' \in PropagatedVersion /\ pvQueue' \in Seq(PropagatedVersion)
        /\ synced' \in SUBSET Stores
    BY <1>4 DEF ListPV, Stores, TypeOK
  <2>3. pending' \in BOOLEAN
    BY <1>4, Zenon DEF ListPV, TypeOK
  <2>4. QED
    BY <1>4, <2>1, <2>2, <2>3 DEF ListPV, TypeOK
<1>5. ASSUME DeliverPV PROVE TypeOK'
  BY <1>5 DEF DeliverPV, TypeOK
<1>6. ASSUME NEW c \in Clusters, HandleCluster(c) PROVE TypeOK'
  BY <1>6, ConstantTypes DEF HandleCluster, TypeOK
<1>7. ASSUME NEW c \in Clusters, SyncTarget(c) PROVE TypeOK'
  BY <1>7 DEF SyncTarget, TypeOK
<1>8. ASSUME Deliver PROVE TypeOK'
  <2>1. queued' \in 0..MaxQueued
    BY <1>8, MaxQueuedAssumption DEF Deliver, TypeOK
  <2>2. QED
    BY <1>8, <2>1 DEF Deliver, TypeOK
<1>9. ASSUME ReconcileOnClusterChange PROVE TypeOK'
  BY <1>9 DEF ReconcileOnClusterChange, IsSynced, TypeOK
<1>10. QED
  BY <1>1, <1>2, <1>3, <1>4, <1>5, <1>6, <1>7, <1>8, <1>9 DEF Informers

\* And those of the worker and of the goroutines it starts.
LEMMA WorkerType ==
  ASSUME TypeOK, Worker \/ \E c \in Clusters : ExecuteOp(c)
  PROVE  TypeOK'
<1> USE DEF apiVars, targetVars, cacheVars, pvVars, queueVars, workerVars
<1>a. \A step \in EnvSteps : Spend(step) => budget' \in [EnvSteps -> Nat]
  BY SpendType DEF TypeOK
<1>b. \A status : Finish(status) =>
        /\ pc' \in Steps /\ job' \in Job /\ op' \in [Clusters -> Op]
        /\ scheduled' \in BOOLEAN
  BY FinishType
<1>c. \A step \in Steps : Goto(step) =>
        /\ pc' \in Steps /\ op' \in [Clusters -> Op] /\ scheduled' \in BOOLEAN
  BY DEF Goto, TypeOK
<1>d. \A p \in PropagatedVersion : WritePV(p) =>
        pv' \in PropagatedVersion /\ pvQueue' \in Seq(PropagatedVersion)
  BY WritePVType
<1>e. \A fins : RemoveFinalizers(fins) =>
        /\ template' \in Template /\ budget' \in [EnvSteps -> Nat]
        /\ pc' \in Steps /\ job' \in Job /\ op' \in [Clusters -> Op]
        /\ scheduled' \in BOOLEAN
  <2> SUFFICES ASSUME NEW fins, RemoveFinalizers(fins)
               PROVE  /\ template' \in Template /\ budget' \in [EnvSteps -> Nat]
                      /\ pc' \in Steps /\ job' \in Job
                      /\ op' \in [Clusters -> Op] /\ scheduled' \in BOOLEAN
    OBVIOUS
  <2>1. template' \in Template
    BY WrittenTypes DEF RemoveFinalizers, ErrorReply, TypeOK
  <2>2. budget' \in [EnvSteps -> Nat]
    BY <1>a DEF RemoveFinalizers, ErrorReply, EnvSteps, TypeOK
  <2>3. /\ pc' \in Steps /\ job' \in Job /\ op' \in [Clusters -> Op]
        /\ scheduled' \in BOOLEAN
    BY <1>b, <1>c DEF RemoveFinalizers, Steps, TypeOK
  <2>4. QED
    BY <2>1, <2>2, <2>3
<1>1. ASSUME StartReconcile PROVE TypeOK'
  <2>1. queued' \in 0..MaxQueued
    BY <1>1, MaxQueuedAssumption DEF StartReconcile, TypeOK
  <2>2. [NoJob EXCEPT !.tmpl = tCache] \in Job
    BY ConstantTypes DEF Job, TypeOK
  <2>3. /\ pc' \in Steps /\ job' \in Job /\ op' \in [Clusters -> Op]
        /\ scheduled' \in BOOLEAN
    BY <1>1, <2>2, <1>b, <1>c DEF StartReconcile, Steps
  <2>4. QED
    BY <1>1, <2>1, <2>3 DEF StartReconcile, TypeOK
<1>2. ASSUME EnsureFinalizers PROVE TypeOK'
  <2>1. template' \in Template
    BY <1>2, WrittenTypes DEF EnsureFinalizers, ErrorReply, TypeOK
  <2>2. budget' \in [EnvSteps -> Nat]
    BY <1>2, <1>a DEF EnsureFinalizers, ErrorReply, EnvSteps, TypeOK
  <2>3. [job EXCEPT !.tmpl = Finalized] \in Job
    BY WrittenTypes DEF Job, TypeOK
  <2>4. /\ pc' \in Steps /\ job' \in Job /\ op' \in [Clusters -> Op]
        /\ scheduled' \in BOOLEAN
    BY <1>2, <2>3, <1>b, <1>c DEF EnsureFinalizers, Steps, TypeOK
  <2>5. QED
    BY <1>2, <2>1, <2>2, <2>4 DEF EnsureFinalizers, TypeOK
<1>3. ASSUME ComputePlacement PROVE TypeOK'
  <2>1. OverrideVersion(oCache) \in Nat
    BY DEF OverrideVersion, Override, TypeOK
  <2>2. [job EXCEPT !.sel = pCache \cap ReadyClusters,
                    !.unready = Clusters \ ReadyClusters,
                    !.ov = OverrideVersion(oCache)] \in Job
    BY <2>1 DEF Job, TypeOK
  <2>3. /\ pc' \in Steps /\ job' \in Job /\ op' \in [Clusters -> Op]
        /\ scheduled' \in BOOLEAN
    BY <1>3, <2>2, <1>b, <1>c DEF ComputePlacement, Steps
  <2>4. QED
    BY <1>3, <2>3 DEF ComputePlacement, TypeOK
<1>4. ASSUME ClusterOperations PROVE TypeOK'
  <2>1. [job EXCEPT !.pv = pvCache] \in Job
    BY DEF Job, TypeOK
  <2>2. /\ pc' \in Steps /\ job' \in Job /\ op' \in [Clusters -> Op]
        /\ scheduled' \in BOOLEAN
    BY <1>4, <2>1, <1>b, PlannedOpsType DEF ClusterOperations, Steps, TypeOK
  <2>3. QED
    BY <1>4, <2>2 DEF ClusterOperations, TypeOK
<1>5. ASSUME NEW c \in Clusters, ExecuteOp(c) PROVE TypeOK'
  <2>1. op[c] \in Op /\ member[c] \in Object
    BY DEF TypeOK
  <2>2. Performed(op[c], member[c]) \in Object /\ Reported(op[c], member[c]) \in Nat
    BY <2>1, PerformedType
  <2>3. /\ [op[c] EXCEPT !.st = "failed"] \in Op
        /\ [op[c] EXCEPT !.st = "done", !.ver = Reported(op[c], member[c])] \in Op
    BY <2>1, <2>2 DEF Op, OpStates
  <2>4. member' \in [Clusters -> Object]
    BY <1>5, <2>2 DEF ExecuteOp, ErrorReply, TypeOK
  <2>5. op' \in [Clusters -> Op]
    BY <1>5, <2>3 DEF ExecuteOp, TypeOK
  <2>6. budget' \in [EnvSteps -> Nat]
    BY <1>5, <1>a DEF ExecuteOp, ErrorReply, EnvSteps, TypeOK
  <2>7. QED
    BY <1>5, <2>4, <2>5, <2>6 DEF ExecuteOp, TypeOK
<1>6. ASSUME CollectResults PROVE TypeOK'
  <2>1. [job EXCEPT !.failed = \E c \in Clusters : op[c].st = "failed"] \in Job
    BY DEF Job, TypeOK
  <2>2. /\ pc' \in Steps /\ job' \in Job /\ op' \in [Clusters -> Op]
        /\ scheduled' \in BOOLEAN
    BY <1>6, <2>1, <1>b, <1>c DEF CollectResults, Steps
  <2>3. QED
    BY <1>6, <2>2 DEF CollectResults, TypeOK
<1>7. ASSUME CreateVersion PROVE TypeOK'
  <2>1. pv' \in PropagatedVersion /\ pvQueue' \in Seq(PropagatedVersion)
    BY <1>7, <1>d, WrittenTypes DEF CreateVersion, ErrorReply, TypeOK
  <2>2. budget' \in [EnvSteps -> Nat]
    BY <1>7, <1>a DEF CreateVersion, ErrorReply, EnvSteps, TypeOK
  <2>3. [job EXCEPT !.pv = CreatedPV] \in Job
    BY WrittenTypes DEF Job, TypeOK
  <2>4. /\ pc' \in Steps /\ job' \in Job /\ op' \in [Clusters -> Op]
        /\ scheduled' \in BOOLEAN
    BY <1>7, <2>3, <1>b, <1>c DEF CreateVersion, FinishSync, Steps, TypeOK
  <2>5. QED
    BY <1>7, <2>1, <2>2, <2>4 DEF CreateVersion, TypeOK
<1>8. ASSUME CreateVersionStatus PROVE TypeOK'
  <2>1. pv' \in PropagatedVersion /\ pvQueue' \in Seq(PropagatedVersion)
    BY <1>8, <1>d, WrittenTypes DEF CreateVersionStatus, ErrorReply, TypeOK
  <2>2. budget' \in [EnvSteps -> Nat]
    BY <1>8, <1>a DEF CreateVersionStatus, ErrorReply, EnvSteps, TypeOK
  <2>3. pending' \in BOOLEAN
    BY <1>8 DEF CreateVersionStatus, ExpectUpdate
  <2>4. /\ pc' \in Steps /\ job' \in Job /\ op' \in [Clusters -> Op]
        /\ scheduled' \in BOOLEAN
    BY <1>8, <1>b DEF CreateVersionStatus, FinishSync
  <2>5. QED
    BY <1>8, <2>1, <2>2, <2>3, <2>4 DEF CreateVersionStatus, TypeOK
<1>9. ASSUME UpdateVersion PROVE TypeOK'
  <2>1. pv' \in PropagatedVersion /\ pvQueue' \in Seq(PropagatedVersion)
    BY <1>9, <1>d, WrittenTypes DEF UpdateVersion, PutStatus, ErrorReply, TypeOK
  <2>2. budget' \in [EnvSteps -> Nat]
    BY <1>9, <1>a DEF UpdateVersion, ErrorReply, EnvSteps, TypeOK
  <2>3. pending' \in BOOLEAN
    BY <1>9 DEF UpdateVersion, ExpectUpdate, TypeOK
  <2>4. /\ pc' \in Steps /\ job' \in Job /\ op' \in [Clusters -> Op]
        /\ scheduled' \in BOOLEAN
    BY <1>9, <1>b DEF UpdateVersion, FinishSync
  <2>5. QED
    BY <1>9, <2>1, <2>2, <2>3, <2>4 DEF UpdateVersion, TypeOK
<1>10. ASSUME HandleDeletion PROVE TypeOK'
  <2>1. [job EXCEPT !.unready = Clusters \ ReadyClusters] \in Job
    BY DEF Job, TypeOK
  <2>2. /\ template' \in Template /\ budget' \in [EnvSteps -> Nat]
        /\ pc' \in Steps /\ job' \in Job /\ op' \in [Clusters -> Op]
        /\ scheduled' \in BOOLEAN
    BY <1>10, <2>1, <1>c, <1>e DEF HandleDeletion, Steps, TypeOK
  <2>3. QED
    BY <1>10, <2>2 DEF HandleDeletion, TypeOK
<1>11. ASSUME ScanTargets PROVE TypeOK'
  <2>1. /\ pc' \in Steps /\ job' \in Job /\ op' \in [Clusters -> Op]
        /\ scheduled' \in BOOLEAN
    BY <1>11, <1>b, <1>c, PlannedOpsType DEF ScanTargets, Steps, TypeOK
  <2>2. QED
    BY <1>11, <2>1 DEF ScanTargets, TypeOK
<1>12. ASSUME DropFinalizer PROVE TypeOK'
  <2>1. /\ template' \in Template /\ budget' \in [EnvSteps -> Nat]
        /\ pc' \in Steps /\ job' \in Job /\ op' \in [Clusters -> Op]
        /\ scheduled' \in BOOLEAN
    BY <1>12, <1>e DEF DropFinalizer
  <2>2. QED
    BY <1>12, <2>1 DEF DropFinalizer, TypeOK
<1>13. ASSUME DeletePV PROVE TypeOK'
  <2>1. pv' \in PropagatedVersion /\ pvQueue' \in Seq(PropagatedVersion)
    BY <1>13, <1>d, WrittenTypes DEF DeletePV, ErasePV, ErrorReply, TypeOK
  <2>2. budget' \in [EnvSteps -> Nat]
    BY <1>13, <1>a DEF DeletePV, ErrorReply, EnvSteps, TypeOK
  <2>3. /\ pc' \in Steps /\ job' \in Job /\ op' \in [Clusters -> Op]
        /\ scheduled' \in BOOLEAN
    BY <1>13, <1>b, <1>c DEF DeletePV, Steps, TypeOK
  <2>4. QED
    BY <1>13, <2>1, <2>2, <2>3 DEF DeletePV, TypeOK
<1>14. ASSUME DeleteTemplateByName PROVE TypeOK'
  <2>1. template' \in Template
    BY <1>14, WrittenTypes DEF DeleteTemplateByName, EraseTemplate, ErrorReply, TypeOK
  <2>2. budget' \in [EnvSteps -> Nat]
    BY <1>14, <1>a DEF DeleteTemplateByName, ErrorReply, EnvSteps, TypeOK
  <2>3. /\ pc' \in Steps /\ job' \in Job /\ op' \in [Clusters -> Op]
        /\ scheduled' \in BOOLEAN
    BY <1>14, <1>b DEF DeleteTemplateByName
  <2>4. QED
    BY <1>14, <2>1, <2>2, <2>3 DEF DeleteTemplateByName, TypeOK
<1>15. QED
  BY <1>1, <1>2, <1>3, <1>4, <1>5, <1>6, <1>7, <1>8, <1>9, <1>10, <1>11,
     <1>12, <1>13, <1>14 DEF Worker

\* Every step preserves the types.
LEMMA StepType == TypeOK /\ [Next]_vars => TypeOK'
<1> SUFFICES ASSUME TypeOK, [Next]_vars PROVE TypeOK'
  OBVIOUS
<1>1. CASE Next
  BY <1>1, UserType, DeliveryType, WorkerType DEF Next
<1>2. CASE UNCHANGED vars
  BY <1>2 DEF vars, apiVars, targetVars, cacheVars, pvVars, queueVars,
              workerVars, TypeOK
<1>3. QED
  BY <1>1, <1>2

\* TypeOK is an invariant: the variables of the controller, the caches and the
\* APIs keep their types (controller.go:68-131).
THEOREM TypeCorrect == Spec => []TypeOK
<1>1. Init => TypeOK
  BY InitType
<1>2. TypeOK /\ [Next]_vars => TypeOK'
  BY StepType
<1>3. QED
  BY <1>1, <1>2, PTL DEF Spec

-----------------------------------------------------------------------------
(* ProtectedPropagation *)

\* The held templates are templates.
LEMMA HeldType ==
  ASSUME TypeOK
  PROVE  template \in Template /\ tCache \in Template /\ job.tmpl \in Template
BY DEF TypeOK, Job

\* Nothing of the invariant changes with the stores of other objects, the
\* members, the queues and the progress of operations.
LEMMA ProtElsewhere ==
  ASSUME ProtInv, TypeOK', UNCHANGED <<template, tCache, pc, job>>,
         \A c \in Clusters : op'[c].kind = op[c].kind
  PROVE  ProtInv'
<1>1. HeldAreOld' /\ HeldAreRight'
  BY DEF ProtInv, HeldAreOld, HeldAreRight, HeldTemplates, OldCopy, RightCopy,
         Protects
<1>2. DeletionInStore' /\ HandsKnow' /\ WritesInPropagation'
  BY DEF ProtInv, DeletionInStore, HandsKnow, WritesInPropagation, Protects
<1>3. QED
  BY <1>1, <1>2 DEF ProtInv

\* A user may change the template to t, as long as t is newer or gone and not
\* without the finalizer that was there: what is held stays old and right.
LEMMA ProtUserMoves ==
  ASSUME ProtInv, TypeOK', UNCHANGED <<tCache, pc, job, op>>,
         \/ template'.rv = template.rv + 1
         \/ template'.rv = template.rv /\ ~template'.live,
         Protects(template) => Protects(template')
  PROVE  ProtInv'
<1>1. template.rv \in Nat /\ template'.rv \in Nat
      /\ \A t \in HeldTemplates : t.rv \in Nat
  BY HeldType DEF ProtInv, TypeOK, Template, HeldTemplates
<1>2. HeldTemplates' = HeldTemplates
  BY DEF HeldTemplates
<1>3. HeldAreOld'
  BY <1>1, <1>2 DEF ProtInv, HeldAreOld, OldCopy
<1>4. HeldAreRight'
  BY <1>2 DEF ProtInv, HeldAreRight, RightCopy
<1>5. DeletionInStore' /\ HandsKnow' /\ WritesInPropagation'
  BY DEF ProtInv, DeletionInStore, HandsKnow, WritesInPropagation, Protects
<1>6. QED
  BY <1>1, <1>3, <1>4, <1>5 DEF ProtInv

\* An empty hand holds nothing to be wrong about.
LEMMA NoJobHeld ==
  ASSUME NEW top \in Template, top.rv # 0
  PROVE  OldCopy(NoTemplate, top) /\ RightCopy(NoTemplate, top)
BY DEF OldCopy, RightCopy, Protects, NoTemplate, Template

\* The worker may finish, whatever became of the template, if the store is
\* still old and right.
LEMMA ProtFinish ==
  ASSUME ProtInv, TypeOK', job' = NoJob, op' = NoOps, pc' = "idle",
         template'.rv # 0, OldCopy(tCache', template'),
         RightCopy(tCache', template')
  PROVE  ProtInv'
<1>1. template' \in Template
  BY DEF TypeOK
<1>2. HeldTemplates' = {tCache', NoTemplate}
  BY DEF HeldTemplates, NoJob
<1>3. OldCopy(NoTemplate, template') /\ RightCopy(NoTemplate, template')
  BY <1>1, NoJobHeld
<1>4. HeldAreOld' /\ HeldAreRight'
  BY <1>2, <1>3 DEF HeldAreOld, HeldAreRight
<1>5. DeletionInStore' /\ HandsKnow' /\ WritesInPropagation'
  BY DEF DeletionInStore, HandsKnow, WritesInPropagation, NoJob, NoTemplate,
         NoOps, NoOp
<1>6. QED
  BY <1>4, <1>5 DEF ProtInv

\* The worker may go on with the template in hand, if what is held is still
\* old and right and the next step may rely on it.
LEMMA ProtGoesOn ==
  ASSUME ProtInv, TypeOK', tCache' = tCache, job'.tmpl = job.tmpl,
         template'.rv # 0,
         \A t \in HeldTemplates : OldCopy(t, template') /\ RightCopy(t, template'),
         HandsKnow', WritesInPropagation'
  PROVE  ProtInv'
<1>1. HeldTemplates' = HeldTemplates
  BY DEF HeldTemplates
<1>2. HeldAreOld' /\ HeldAreRight'
  BY <1>1 DEF HeldAreOld, HeldAreRight
<1>3. DeletionInStore'
  BY DEF ProtInv, DeletionInStore
<1>4. QED
  BY <1>2, <1>3 DEF ProtInv

\* When the API accepts that the worker releases a template, the store knows
\* of the deletion: t2, the template without finalizers, deceives nobody.
LEMMA Released ==
  ASSUME ProtInv, job.tmpl.deleting, TemplateUpdateAccepted,
         NEW t2, t2.rv = template.rv + 1
  PROVE  \A t \in HeldTemplates : OldCopy(t, t2) /\ RightCopy(t, t2)
<1>1. /\ template.rv \in Nat /\ tCache.rv \in Nat /\ job.tmpl.rv \in Nat
  BY HeldType DEF ProtInv, Template
<1>2. template.live /\ template.rv = job.tmpl.rv
  BY DEF TemplateUpdateAccepted
<1>3. job.tmpl.rv <= tCache.rv /\ tCache.rv <= template.rv
  BY DEF ProtInv, DeletionInStore, HeldAreOld, OldCopy, HeldTemplates
<1>4. tCache.rv = template.rv
  BY <1>1, <1>2, <1>3
<1>5. tCache = template /\ job.tmpl = template
  BY <1>2, <1>4 DEF ProtInv, HeldAreOld, OldCopy, HeldTemplates
<1>6. QED
  BY <1>1, <1>5 DEF HeldTemplates, OldCopy, RightCopy

\* The same holds of a template without finalizers that is erased.
LEMMA Erased ==
  ASSUME ProtInv, NEW t2, EraseTemplate, t2 = template'
  PROVE  /\ t2.rv # 0
         /\ \A t \in HeldTemplates : OldCopy(t, t2) /\ RightCopy(t, t2)
<1>1. template \in Template
  BY HeldType DEF ProtInv
<1>2. CASE template' = template
  BY <1>2 DEF ProtInv, HeldAreOld, HeldAreRight
<1>3. CASE template.live /\ template.fins = {} /\ template' = Removed(template)
  <2>1. t2.rv = template.rv /\ ~t2.live /\ ~Protects(template)
    BY <1>1, <1>3 DEF Removed, Protects, Template
  <2>2. QED
    BY <2>1 DEF ProtInv, HeldAreOld, HeldAreRight, OldCopy, RightCopy
<1>4. QED
  BY <1>2, <1>3 DEF EraseTemplate

\* Users, members, failures and crashes.
LEMMA ProtUser ==
  ASSUME ProtInv, User
  PROVE  ProtInv'
<1> USE DEF apiVars, targetVars, cacheVars, pvVars, queueVars, workerVars
<1>a. TypeOK /\ TypeOK'
  BY UserType DEF ProtInv
<1>b. template \in Template /\ template.rv \in Nat
  BY <1>a, HeldType DEF Template
<1>1. CASE EditTemplate
  <2>1. template' = [template EXCEPT !.rv = @ + 1, !.body = @ + 1]
    BY <1>1 DEF EditTemplate
  <2>2. template'.rv = template.rv + 1
        /\ (Protects(template) => Protects(template'))
    BY <2>1, <1>b DEF Template, Protects
  <2>3. UNCHANGED <<tCache, pc, job, op>>
    BY <1>1 DEF EditTemplate
  <2>4. QED
    BY <1>a, <2>2, <2>3, ProtUserMoves
<1>2. CASE DeleteTemplate
  <2>1. PICK fins \in {template.fins \ {OrphanFinalizer}, template.fins} :
          template' = IF fins = {} THEN Removed(template)
                      ELSE [template EXCEPT !.rv = @ + 1, !.deleting = TRUE,
                                            !.fins = fins]
    BY <1>2 DEF DeleteTemplate
  <2>2. UNCHANGED <<tCache, pc, job, op>>
    BY <1>2 DEF DeleteTemplate
  <2>3. DeleteFinalizer \in template.fins => DeleteFinalizer \in fins
    BY <2>1 DEF DeleteFinalizer, OrphanFinalizer
  <2>4. CASE fins = {}
    <3>1. template'.rv = template.rv /\ ~template'.live /\ ~Protects(template)
      BY <2>1, <2>3, <2>4, <1>b DEF Removed, Protects, Template
    <3>2. QED
      BY <1>a, <2>2, <3>1, ProtUserMoves
  <2>5. CASE fins # {}
    <3>1. template'.rv = template.rv + 1
          /\ (Protects(template) => Protects(template'))
      BY <2>1, <2>3, <2>5, <1>b DEF Template, Protects
    <3>2. QED
      BY <1>a, <2>2, <3>1, ProtUserMoves
  <2>6. QED
    BY <2>4, <2>5
<1>3. CASE RecreateTemplate
  <2>1. template'.rv = template.rv + 1 /\ ~Protects(template)
    BY <1>3, <1>b DEF RecreateTemplate, Template, Protects
  <2>2. UNCHANGED <<tCache, pc, job, op>>
    BY <1>3 DEF RecreateTemplate
  <2>3. QED
    BY <1>a, <2>1, <2>2, ProtUserMoves
<1>4. CASE \/ EditOverride \/ EditPlacement
           \/ \E c \in Clusters : Drift(c) \/ FlipReady(c)
           \/ \E l \in late : LandLate(l)
  <2>1. UNCHANGED <<template, tCache, pc, job, op>>
    BY <1>4 DEF EditOverride, EditPlacement, Drift, FlipReady, LandLate
  <2>2. QED
    BY <1>a, <2>1, ProtElsewhere
<1>5. CASE UpdateTimeout
  <2>1. UNCHANGED <<template, tCache, pc, job>>
    BY <1>5 DEF UpdateTimeout
  <2>2. \A c \in Clusters : op[c] \in Op
    BY <1>a DEF TypeOK
  <2>3. \A c \in Clusters : op'[c].kind = op[c].kind
    BY <1>5, <2>2 DEF UpdateTimeout, Op
  <2>4. QED
    BY <1>a, <2>1, <2>3, ProtElsewhere
<1>6. CASE Crash
  <2>1. /\ job' = NoJob /\ op' = NoOps /\ pc' = "idle" /\ template' = template
        /\ tCache' = NoTemplate
    BY <1>6 DEF Crash
  <2>2. template.rv # 0
    BY DEF ProtInv
  <2>3. OldCopy(tCache', template') /\ RightCopy(tCache', template')
    BY <1>b, <2>1, <2>2, NoJobHeld
  <2>4. QED
    BY <1>a, <2>1, <2>2, <2>3, ProtFinish
<1>7. QED
  BY <1>1, <1>2, <1>3, <1>4, <1>5, <1>6 DEF User

\* Informers and deliverers: the template store becomes the template itself.
LEMMA ProtDelivery ==
  ASSUME ProtInv, Informers \/ Deliver \/ ReconcileOnClusterChange
  PROVE  ProtInv'
<1> USE DEF apiVars, targetVars, cacheVars, pvVars, queueVars, workerVars
<1>a. TypeOK /\ TypeOK'
  BY DeliveryType DEF ProtInv
<1>1. CASE SyncTemplate
  <2>1. UNCHANGED <<template, job, pc, op>> /\ tCache' = template
    BY <1>1 DEF SyncTemplate
  <2>2. template \in Template /\ template.rv \in Nat
    BY <1>a, HeldType DEF Template
  <2>3. HeldTemplates' = {template, job.tmpl}
    BY <2>1 DEF HeldTemplates
  <2>4. OldCopy(job.tmpl, template) /\ RightCopy(job.tmpl, template)
    BY DEF ProtInv, HeldAreOld, HeldAreRight, HeldTemplates
  <2>5. OldCopy(template, template) /\ RightCopy(template, template)
    BY <2>2 DEF OldCopy, RightCopy
  <2>6. HeldAreOld' /\ HeldAreRight'
    BY <2>1, <2>3, <2>4, <2>5 DEF HeldAreOld, HeldAreRight
  <2>7. DeletionInStore'
    BY <2>1, <2>4 DEF DeletionInStore, OldCopy
  <2>8. HandsKnow' /\ WritesInPropagation'
    BY <2>1 DEF ProtInv, HandsKnow, WritesInPropagation, Protects
  <2>9. QED
    BY <1>a, <2>1, <2>6, <2>7, <2>8 DEF ProtInv
<1>2. CASE \/ SyncOverride \/ SyncPlacement \/ ListPV \/ DeliverPV
           \/ \E c \in Clusters : HandleCluster(c) \/ SyncTarget(c)
           \/ Deliver \/ ReconcileOnClusterChange
  <2>1. UNCHANGED <<template, tCache, pc, job, op>>
    BY <1>2 DEF SyncOverride, SyncPlacement, ListPV, DeliverPV, HandleCluster,
                SyncTarget, Deliver, ReconcileOnClusterChange
  <2>2. QED
    BY <1>a, <2>1, ProtElsewhere
<1>3. QED
  BY <1>1, <1>2 DEF Informers

\* The deletion helper plans no write.
LEMMA DeleteOpsOnlyDelete ==
  \A c \in Clusters : DeleteOps[c].kind \notin {"add", "update"}
BY DEF DeleteOps, PlannedOp, Issue, NoOp

\* The worker's steps that leave the template alone and end the
\* reconciliation or go on.
LEMMA ProtFinishHere ==
  ASSUME ProtInv, TypeOK', UNCHANGED <<template, tCache>>,
         NEW status, Finish(status)
  PROVE  ProtInv'
<1>1. /\ job' = NoJob /\ op' = NoOps /\ pc' = "idle" /\ template.rv # 0
      /\ OldCopy(tCache, template) /\ RightCopy(tCache, template)
  BY DEF Finish, ProtInv, HeldAreOld, HeldAreRight, HeldTemplates
<1>2. QED
  BY <1>1, ProtFinish

LEMMA ProtGoesOnHere ==
  ASSUME ProtInv, TypeOK', UNCHANGED <<template, tCache>>,
         job'.tmpl = job.tmpl, HandsKnow', WritesInPropagation'
  PROVE  ProtInv'
<1>1. /\ template.rv # 0
      /\ \A t \in HeldTemplates : OldCopy(t, template) /\ RightCopy(t, template)
  BY DEF ProtInv, HeldAreOld, HeldAreRight
<1>2. QED
  BY <1>1, ProtGoesOn

\* Nothing is planned or written outside of a batch.
LEMMA NoWriteYet ==
  ASSUME ProtInv, pc \notin {"updating", "record", "createStatus"}, op' = op
  PROVE  WritesInPropagation'
BY DEF ProtInv, WritesInPropagation

\* removeFinalizers, whatever becomes of the call.
LEMMA ProtRemoveFinalizers ==
  ASSUME ProtInv, TypeOK', NEW fins, RemoveFinalizers(fins), tCache' = tCache,
         pc \in {"delete", "deleteFinalizer"}
  PROVE  ProtInv'
<1>1. job.tmpl.deleting
  BY DEF ProtInv, HandsKnow
<1>2. WithoutFinalizers(fins).rv = template.rv + 1
      /\ template.rv \in Nat
  BY HeldType DEF ProtInv, WithoutFinalizers, Removed, Template
<1>3. ASSUME TemplateUpdateAccepted, template' = WithoutFinalizers(fins)
      PROVE  /\ template'.rv # 0
             /\ \A t \in HeldTemplates :
                  OldCopy(t, template') /\ RightCopy(t, template')
  BY <1>1, <1>2, <1>3, Released
<1>4. CASE /\ TemplateUpdateAccepted
           /\ template' = WithoutFinalizers(fins)
           /\ Goto("deletePV") /\ UNCHANGED job
  <2>1. HandsKnow'
    BY <1>1, <1>4 DEF Goto, HandsKnow
  <2>2. WritesInPropagation'
    BY <1>4, NoWriteYet DEF Goto
  <2>3. QED
    BY <1>3, <1>4, <2>1, <2>2, ProtGoesOn
<1>5. CASE Finish("Error") /\ TemplateUpdateAccepted
           /\ template' = WithoutFinalizers(fins)
  <2>1. /\ job' = NoJob /\ op' = NoOps /\ pc' = "idle" /\ template'.rv # 0
        /\ OldCopy(tCache, template') /\ RightCopy(tCache, template')
    BY <1>3, <1>5 DEF Finish, HeldTemplates
  <2>2. QED
    BY <2>1, ProtFinish
<1>6. CASE Finish("Error") /\ UNCHANGED template
  BY <1>6, ProtFinishHere
<1>7. QED
  BY <1>4, <1>5, <1>6 DEF RemoveFinalizers, ErrorReply

\* The finalizer is ensured: a copy that has it is right, and an update that
\* adds it is made to the copy in hand.
LEMMA ProtEnsureFinalizers ==
  ASSUME ProtInv, TypeOK', EnsureFinalizers
  PROVE  ProtInv'
<1> USE DEF cacheVars, pvVars, targetVars
<1>1. /\ pc = "finalize" /\ job.tmpl.live /\ ~job.tmpl.deleting
      /\ tCache' = tCache
  BY DEF EnsureFinalizers, ProtInv, HandsKnow
<1>2. template \in Template /\ tCache \in Template /\ template.rv \in Nat
  BY HeldType DEF ProtInv, Template
<1>3. Finalized.rv = template.rv + 1 /\ Finalized.live = template.live
      /\ Finalized.deleting = template.deleting
      /\ DeleteFinalizer \in Finalized.fins
  BY <1>2 DEF Finalized, Template, Finalizers
<1>4. ASSUME TemplateUpdateAccepted, template' = Finalized
      PROVE  /\ Protects(Finalized) /\ ~Finalized.deleting
             /\ OldCopy(tCache, Finalized) /\ RightCopy(tCache, Finalized)
  <2>1. template = job.tmpl
    BY <1>4 DEF TemplateUpdateAccepted, ProtInv, HeldAreOld, OldCopy,
                HeldTemplates
  <2>2. Protects(Finalized) /\ ~Finalized.deleting
    BY <1>1, <1>3, <2>1 DEF Protects
  <2>3. tCache.rv \in Nat /\ tCache.rv <= template.rv
    BY <1>2 DEF ProtInv, HeldAreOld, OldCopy, HeldTemplates, Template
  <2>4. QED
    BY <1>2, <1>3, <2>2, <2>3 DEF OldCopy, RightCopy
<1>5. CASE Finalizers \subseteq job.tmpl.fins /\ Goto("place")
           /\ UNCHANGED <<template, job>>
  <2>1. HandsKnow'
    BY <1>1, <1>5 DEF Goto, HandsKnow, Protects, Finalizers
  <2>2. WritesInPropagation'
    BY <1>1, <1>5, NoWriteYet DEF Goto
  <2>3. QED
    BY <1>1, <1>5, <2>1, <2>2, ProtGoesOnHere
<1>6. CASE /\ TemplateUpdateAccepted /\ template' = Finalized
           /\ job' = [job EXCEPT !.tmpl = Finalized] /\ Goto("place")
  <2>1. job'.tmpl = Finalized
    BY <1>6 DEF ProtInv, TypeOK, Job
  <2>2. HeldTemplates' = {tCache, Finalized}
    BY <1>1, <2>1 DEF HeldTemplates
  <2>3. OldCopy(Finalized, Finalized) /\ RightCopy(Finalized, Finalized)
    BY <1>2, <1>3 DEF OldCopy, RightCopy
  <2>4. HeldAreOld' /\ HeldAreRight'
    BY <1>4, <1>6, <2>2, <2>3 DEF HeldAreOld, HeldAreRight
  <2>5. DeletionInStore' /\ HandsKnow'
    BY <1>4, <1>6, <2>1 DEF DeletionInStore, HandsKnow, Goto, Protects
  <2>6. WritesInPropagation'
    BY <1>1, <1>6, NoWriteYet DEF Goto
  <2>7. QED
    BY <1>2, <1>3, <1>6, <2>4, <2>5, <2>6 DEF ProtInv
<1>7. CASE Finish("Error") /\ UNCHANGED template
  BY <1>1, <1>7, ProtFinishHere
<1>8. CASE Finish("Error") /\ TemplateUpdateAccepted /\ template' = Finalized
  <2>1. /\ job' = NoJob /\ op' = NoOps /\ pc' = "idle" /\ template'.rv # 0
        /\ OldCopy(tCache', template') /\ RightCopy(tCache', template')
    BY <1>1, <1>2, <1>3, <1>4, <1>8 DEF Finish
  <2>2. QED
    BY <2>1, ProtFinish
<1>9. QED
  BY <1>5, <1>6, <1>7, <1>8 DEF EnsureFinalizers, ErrorReply

\* The worker and the goroutines it starts.
LEMMA ProtWorker ==
  ASSUME ProtInv, Worker \/ \E c \in Clusters : ExecuteOp(c)
  PROVE  ProtInv'
<1> USE DEF apiVars, targetVars, cacheVars, pvVars, queueVars, workerVars
<1>a. TypeOK /\ TypeOK'
  BY WorkerType DEF ProtInv
<1>b. job \in Job
  BY <1>a DEF TypeOK
<1>1. CASE StartReconcile
  <2>1. UNCHANGED <<template, tCache>> /\ pc = "idle"
    BY <1>1 DEF StartReconcile
  <2>2. CASE Finish("NotSynced") \/ Finish("AllOK")
    BY <1>a, <2>1, <2>2, ProtFinishHere
  <2>3. CASE /\ tCache.live
             /\ job' = [NoJob EXCEPT !.tmpl = tCache]
             /\ Goto(IF tCache.deleting THEN "delete" ELSE "finalize")
    <3>1. job'.tmpl = tCache
      BY <2>3 DEF NoJob
    <3>2. HeldTemplates' = {tCache}
      BY <2>1, <3>1 DEF HeldTemplates
    <3>3. HeldAreOld' /\ HeldAreRight'
      BY <2>1, <3>2 DEF ProtInv, HeldAreOld, HeldAreRight, HeldTemplates
    <3>4. DeletionInStore'
      BY <1>a, <2>1, <3>1, HeldType DEF DeletionInStore, Template
    <3>5. HandsKnow'
      BY <2>3, <3>1 DEF HandsKnow, Goto
    <3>6. WritesInPropagation'
      BY <2>1, <2>3, NoWriteYet DEF Goto
    <3>7. QED
      BY <1>a, <2>1, <3>3, <3>4, <3>5, <3>6 DEF ProtInv
  <2>4. QED
    BY <1>1, <2>2, <2>3 DEF StartReconcile
<1>2. CASE EnsureFinalizers
  BY <1>a, <1>2, ProtEnsureFinalizers
<1>3. CASE ComputePlacement
  <2>1. UNCHANGED <<template, tCache>> /\ pc = "place"
    BY <1>3 DEF ComputePlacement
  <2>2. CASE Finish("NeedsRecheck")
    BY <1>a, <2>1, <2>2, ProtFinishHere
  <2>3. CASE /\ job' = [job EXCEPT !.sel = pCache \cap ReadyClusters,
                              !.unready = Clusters \ ReadyClusters,
                              !.ov = OverrideVersion(oCache)]
             /\ Goto("compute")
    <3>1. job'.tmpl = job.tmpl
      BY <1>b, <2>3 DEF Job
    <3>2. HandsKnow'
      BY <2>1, <2>3, <3>1 DEF ProtInv, HandsKnow, Goto, Protects
    <3>3. WritesInPropagation'
      BY <2>1, <2>3, NoWriteYet DEF Goto
    <3>4. QED
      BY <1>a, <2>1, <3>1, <3>2, <3>3, ProtGoesOnHere
  <2>4. QED
    BY <1>3, <2>2, <2>3 DEF ComputePlacement
<1>4. CASE ClusterOperations
  <2>1. UNCHANGED <<template, tCache>> /\ pc = "compute"
    BY <1>4 DEF ClusterOperations
  <2>2. CASE Finish("AllOK")
    BY <1>a, <2>1, <2>2, ProtFinishHere
  <2>3. CASE job' = [job EXCEPT !.pv = pvCache] /\ pc' = "updating"
    <3>1. job'.tmpl = job.tmpl
      BY <1>b, <2>3 DEF Job
    <3>2. HandsKnow' /\ ~job.tmpl.deleting
      BY <2>1, <2>3, <3>1 DEF ProtInv, HandsKnow, Protects
    <3>3. WritesInPropagation'
      BY <2>3, <3>1, <3>2 DEF WritesInPropagation
    <3>4. QED
      BY <1>a, <2>1, <3>1, <3>2, <3>3, ProtGoesOnHere
  <2>4. QED
    BY <1>4, <2>2, <2>3 DEF ClusterOperations
<1>5. CASE \E c \in Clusters : ExecuteOp(c)
  <2>1. PICK c \in Clusters : ExecuteOp(c)
    BY <1>5
  <2>2. UNCHANGED <<template, tCache, pc, job>>
    BY <2>1 DEF ExecuteOp
  <2>3. \A d \in Clusters : op[d] \in Op
    BY <1>a DEF TypeOK
  <2>4. \/ op' = [op EXCEPT ![c] = [op[c] EXCEPT !.st = "failed"]]
        \/ op' = [op EXCEPT ![c] = [op[c] EXCEPT
                    !.st = "done", !.ver = Reported(op[c], member[c])]]
    BY <2>1, <2>3 DEF ExecuteOp
  <2>5. ASSUME NEW d \in Clusters PROVE op'[d].kind = op[d].kind
    <3>1. /\ [op[c] EXCEPT !.st = "failed"].kind = op[c].kind
          /\ [op[c] EXCEPT !.st = "done",
                           !.ver = Reported(op[c], member[c])].kind = op[c].kind
      BY <2>3 DEF Op
    <3>2. op \in [Clusters -> Op]
      BY <1>a DEF TypeOK
    <3>3. QED
      BY <2>4, <3>1, <3>2
  <2>6. QED
    BY <1>a, <2>2, <2>5, ProtElsewhere
<1>6. CASE CollectResults
  <2>1. UNCHANGED <<template, tCache>> /\ pc = "updating"
    BY <1>6 DEF CollectResults
  <2>2. CASE Finish("Error")
    BY <1>a, <2>1, <2>2, ProtFinishHere
  <2>3. CASE /\ ~job.tmpl.deleting
             /\ job' = [job EXCEPT
                     !.failed = \E c \in Clusters : op[c].st = "failed"]
             /\ Goto("record")
    <3>1. job'.tmpl = job.tmpl
      BY <1>b, <2>3 DEF Job
    <3>2. HandsKnow'
      BY <2>1, <2>3, <3>1 DEF ProtInv, HandsKnow, Goto, Protects
    <3>3. WritesInPropagation'
      BY <2>3, <3>1 DEF ProtInv, WritesInPropagation, Goto
    <3>4. QED
      BY <1>a, <2>1, <3>1, <3>2, <3>3, ProtGoesOnHere
  <2>4. QED
    BY <1>6, <2>2, <2>3 DEF CollectResults
<1>7. CASE CreateVersion
  <2>1. UNCHANGED <<template, tCache>> /\ pc = "record"
    BY <1>7 DEF CreateVersion
  <2>2. CASE FinishSync
    BY <1>a, <2>1, <2>2, ProtFinishHere DEF FinishSync
  <2>3. CASE job' = [job EXCEPT !.pv = CreatedPV] /\ Goto("createStatus")
    <3>1. job'.tmpl = job.tmpl
      BY <1>b, <2>3 DEF Job
    <3>2. HandsKnow'
      BY <2>1, <2>3, <3>1 DEF ProtInv, HandsKnow, Goto, Protects
    <3>3. WritesInPropagation'
      BY <2>1, <2>3, <3>1 DEF ProtInv, WritesInPropagation, Goto
    <3>4. QED
      BY <1>a, <2>1, <3>1, <3>2, <3>3, ProtGoesOnHere
  <2>4. QED
    BY <1>7, <2>2, <2>3 DEF CreateVersion
<1>8. CASE CreateVersionStatus \/ UpdateVersion
  <2>1. UNCHANGED <<template, tCache>> /\ FinishSync
    BY <1>8 DEF CreateVersionStatus, UpdateVersion
  <2>2. QED
    BY <1>a, <2>1, ProtFinishHere DEF FinishSync
<1>9. CASE HandleDeletion
  <2>1. tCache' = tCache /\ pc = "delete" /\ job.tmpl.deleting
    BY <1>9 DEF HandleDeletion, ProtInv, HandsKnow
  <2>2. CASE RemoveFinalizers(Finalizers)
    BY <1>a, <2>1, <2>2, ProtRemoveFinalizers
  <2>3. CASE Goto("deletePV") /\ UNCHANGED <<template, job>>
    <3>1. HandsKnow' /\ WritesInPropagation'
      BY <2>1, <2>3, NoWriteYet DEF HandsKnow, Goto
    <3>2. QED
      BY <1>a, <2>1, <2>3, <3>1, ProtGoesOnHere
  <2>4. CASE /\ job' = [job EXCEPT !.unready = Clusters \ ReadyClusters]
             /\ Goto("deleteScan") /\ UNCHANGED template
    <3>1. job'.tmpl = job.tmpl
      BY <1>b, <2>4 DEF Job
    <3>2. HandsKnow' /\ WritesInPropagation'
      BY <2>1, <2>4, <3>1, NoWriteYet DEF HandsKnow, Goto
    <3>3. QED
      BY <1>a, <2>1, <2>4, <3>1, <3>2, ProtGoesOnHere
  <2>5. QED
    BY <1>9, <2>2, <2>3, <2>4 DEF HandleDeletion
<1>10. CASE ScanTargets
  <2>1. /\ UNCHANGED <<template, tCache>> /\ pc = "deleteScan"
        /\ job.tmpl.deleting
    BY <1>10 DEF ScanTargets, ProtInv, HandsKnow
  <2>2. CASE op' = DeleteOps /\ pc' = "updating" /\ UNCHANGED job
    <3>1. HandsKnow' /\ WritesInPropagation'
      BY <2>1, <2>2, DeleteOpsOnlyDelete DEF HandsKnow, WritesInPropagation
    <3>2. QED
      BY <1>a, <2>1, <2>2, <3>1, ProtGoesOnHere
  <2>3. CASE Finish("Error")
    BY <1>a, <2>1, <2>3, ProtFinishHere
  <2>4. CASE Goto("deleteFinalizer") /\ UNCHANGED job
    <3>1. HandsKnow' /\ WritesInPropagation'
      BY <2>1, <2>4, NoWriteYet DEF HandsKnow, Goto
    <3>2. QED
      BY <1>a, <2>1, <2>4, <3>1, ProtGoesOnHere
  <2>5. QED
    BY <1>10, <2>2, <2>3, <2>4 DEF ScanTargets
<1>11. CASE DropFinalizer
  <2>1. /\ tCache' = tCache /\ pc = "deleteFinalizer"
        /\ RemoveFinalizers({DeleteFinalizer})
    BY <1>11 DEF DropFinalizer
  <2>2. QED
    BY <1>a, <2>1, ProtRemoveFinalizers
<1>12. CASE DeletePV
  <2>1. /\ UNCHANGED <<template, tCache>> /\ pc = "deletePV"
        /\ job.tmpl.deleting
    BY <1>12 DEF DeletePV, ProtInv, HandsKnow
  <2>2. CASE Goto("deleteTemplate") /\ UNCHANGED job
    <3>1. HandsKnow' /\ WritesInPropagation'
      BY <2>1, <2>2, NoWriteYet DEF HandsKnow, Goto
    <3>2. QED
      BY <1>a, <2>1, <2>2, <3>1, ProtGoesOnHere
  <2>3. CASE Finish("Error")
    BY <1>a, <2>1, <2>3, ProtFinishHere
  <2>4. QED
    BY <1>12, <2>2, <2>3 DEF DeletePV
<1>13. CASE DeleteTemplateByName
  <2>1. tCache' = tCache /\ job' = NoJob /\ op' = NoOps /\ pc' = "idle"
    <3>1. tCache' = tCache
      BY <1>13 DEF DeleteTemplateByName
    <3>2. Finish("AllOK") \/ Finish("Error")
      BY <1>13 DEF DeleteTemplateByName
    <3>3. QED
      BY <3>1, <3>2 DEF Finish
  <2>2. CASE EraseTemplate
    <3>1. /\ template'.rv # 0 /\ OldCopy(tCache', template')
          /\ RightCopy(tCache', template')
      BY <2>1, <2>2, Erased DEF HeldTemplates
    <3>2. QED
      BY <1>a, <2>1, <3>1, ProtFinish
  <2>3. CASE UNCHANGED template
    <3>1. /\ template'.rv # 0 /\ OldCopy(tCache', template')
          /\ RightCopy(tCache', template')
      BY <2>1, <2>3 DEF ProtInv, HeldAreOld, HeldAreRight, HeldTemplates
    <3>2. QED
      BY <1>a, <2>1, <3>1, ProtFinish
  <2>4. QED
    BY <1>13, <2>2, <2>3 DEF DeleteTemplateByName, ErrorReply
<1>14. QED
  BY <1>1, <1>2, <1>3, <1>4, <1>5, <1>6, <1>7, <1>8, <1>9, <1>10, <1>11,
     <1>12, <1>13 DEF Worker

\* The initial states know nothing wrong.
LEMMA ProtInit == Init => ProtInv
<1> SUFFICES ASSUME Init PROVE ProtInv
  OBVIOUS
<1>1. /\ TypeOK /\ template.rv = 1 /\ template.deleting = FALSE
      /\ template.fins = {} /\ pc = "idle" /\ job = NoJob /\ op = NoOps
  BY InitType DEF Init
<1>2. tCache \in {template, NoTemplate}
  BY DEF Init
<1>3. HeldTemplates \subseteq {template, NoTemplate}
  BY <1>1, <1>2 DEF HeldTemplates, NoJob
<1>4. \A t \in {template, NoTemplate} :
        OldCopy(t, template) /\ RightCopy(t, template)
  BY <1>1 DEF OldCopy, RightCopy, Protects, NoTemplate
<1>5. HeldAreOld /\ HeldAreRight
  BY <1>3, <1>4 DEF HeldAreOld, HeldAreRight
<1>6. DeletionInStore /\ HandsKnow /\ WritesInPropagation
  BY <1>1 DEF DeletionInStore, HandsKnow, WritesInPropagation, NoJob,
              NoTemplate, NoOps, NoOp
<1>7. QED
  BY <1>1, <1>5, <1>6 DEF ProtInv

\* ProtInv says enough: who writes holds a template that protects, and is
\* right about it.
LEMMA ProtInvProtects == ProtInv => ProtectedPropagation
<1> SUFFICES ASSUME ProtInv, NEW c \in Clusters, op[c].kind \in {"add", "update"}
             PROVE  Protects(template)
  BY DEF ProtectedPropagation
<1>1. Protects(job.tmpl) /\ ~job.tmpl.deleting
  BY DEF ProtInv, WritesInPropagation, HandsKnow
<1>2. QED
  BY <1>1 DEF ProtInv, HeldAreRight, RightCopy, HeldTemplates

\* Every step preserves what the store and the worker believe of the finalizers.
LEMMA ProtInvariant == Spec => []ProtInv
<1>1. Init => ProtInv
  BY ProtInit
<1>2. ProtInv /\ [Next]_vars => ProtInv'
  <2> SUFFICES ASSUME ProtInv, [Next]_vars PROVE ProtInv'
    OBVIOUS
  <2>1. CASE Next
    BY <2>1, ProtUser, ProtDelivery, ProtWorker DEF Next
  <2>2. CASE UNCHANGED vars
    <3>1. TypeOK'
      BY <2>2, StepType DEF ProtInv
    <3>2. UNCHANGED <<template, tCache, pc, job, op>>
      BY <2>2 DEF vars, apiVars, cacheVars, workerVars
    <3>3. QED
      BY <3>1, <3>2, ProtElsewhere
  <2>3. QED
    BY <2>1, <2>2
<1>3. QED
  BY <1>1, <1>2, PTL DEF Spec

\* Objects are created and updated in member clusters only for a template that
\* is there and carries the finalizer for their deletion: EnsureFinalizers
\* comes first (controller.go:455), only the worker removes finalizers, and a
\* stale copy cannot lead it past a deletion.  For every set of clusters, both
\* comparison fields, every budget of users, failures and crashes.
THEOREM PropagationProtected == Spec => []ProtectedPropagation
BY ProtInvariant, ProtInvProtects, PTL

-----------------------------------------------------------------------------
(* LeftOnlyByInterruption *)

\* Spending shows.
LEMMA SpendSpends ==
  ASSUME TypeOK, NEW step \in EnvSteps, Spend(step)
  PROVE  Spent(step)
<1>1. budget \in [EnvSteps -> Nat]
  BY DEF TypeOK
<1>2. QED
  BY <1>1 DEF Spend, Spent

\* A call with no effect on either object leaves no PropagatedVersion behind,
\* unless the worker was about to delete it.
LEMMA LeftUnmoved ==
  ASSUME UNCHANGED pv, Protects(template) => Protects(template'),
         pc = "deletePV" => pc' = "deletePV"
  PROVE  LeftBehind' => LeftBehind
BY DEF LeftBehind, Protects

\* Users delete, edit and create templates: no finalizer comes off.
LEMMA LeftByUser ==
  ASSUME ProtInv, User
  PROVE  LeftBehind' => LeftBehind \/ DeletionInterrupted
<1> USE DEF apiVars, workerVars
<1>a. TypeOK /\ template \in Template
  BY DEF ProtInv, TypeOK
<1>1. CASE EditTemplate \/ RecreateTemplate
  <2>1. UNCHANGED <<pv, pc>>
    BY <1>1 DEF EditTemplate, RecreateTemplate
  <2>2. Protects(template) => Protects(template')
    BY <1>1, <1>a DEF EditTemplate, RecreateTemplate, Protects, Template
  <2>3. QED
    BY <2>1, <2>2, LeftUnmoved
<1>2. CASE DeleteTemplate
  <2>1. PICK fins \in {template.fins \ {OrphanFinalizer}, template.fins} :
          template' = IF fins = {} THEN Removed(template)
                      ELSE [template EXCEPT !.rv = @ + 1, !.deleting = TRUE,
                                            !.fins = fins]
    BY <1>2 DEF DeleteTemplate
  <2>2. DeleteFinalizer \in template.fins => DeleteFinalizer \in fins
    BY <2>1 DEF DeleteFinalizer, OrphanFinalizer
  <2>3. Protects(template) => Protects(template')
    BY <2>1, <2>2, <1>a DEF Protects, Template
  <2>4. UNCHANGED <<pv, pc>>
    BY <1>2 DEF DeleteTemplate
  <2>5. QED
    BY <2>3, <2>4, LeftUnmoved
<1>3. CASE \/ EditOverride \/ EditPlacement \/ UpdateTimeout
           \/ \E c \in Clusters : Drift(c) \/ FlipReady(c)
           \/ \E l \in late : LandLate(l)
  <2>1. UNCHANGED <<pv, template, pc>>
    BY <1>3 DEF EditOverride, EditPlacement, UpdateTimeout, Drift, FlipReady,
       LandLate
  <2>2. QED
    BY <2>1, LeftUnmoved DEF Protects
<1>4. CASE Crash
  <2>1. UNCHANGED <<pv, template>> /\ Spend("crash")
    BY <1>4 DEF Crash
  <2>2. CASE pc = "deletePV"
    BY <1>a, <2>1, <2>2, SpendSpends DEF EnvSteps, DeletionInterrupted
  <2>3. CASE pc # "deletePV"
    BY <2>1, <2>3, LeftUnmoved DEF Protects
  <2>4. QED
    BY <2>2, <2>3
<1>5. QED
  BY <1>1, <1>2, <1>3, <1>4 DEF User

\* Informers and deliverers touch neither object.
LEMMA LeftByDelivery ==
  ASSUME Informers \/ Deliver \/ ReconcileOnClusterChange
  PROVE  LeftBehind' => LeftBehind
<1>1. UNCHANGED <<pv, template, pc>>
  BY DEF Informers, SyncTemplate, SyncOverride, SyncPlacement, ListPV,
     DeliverPV, HandleCluster, SyncTarget, Deliver, ReconcileOnClusterChange,
     apiVars, workerVars
<1>2. QED
  BY <1>1, LeftUnmoved DEF Protects

\* The finalizers come off and the worker goes on to the PropagatedVersion,
\* unless it is not told.
LEMMA LeftByRemoveFinalizers ==
  ASSUME TypeOK, NEW fins, RemoveFinalizers(fins), UNCHANGED pv,
         pc \in {"delete", "deleteFinalizer"}
  PROVE  LeftBehind' => LeftBehind \/ DeletionInterrupted
<1>1. CASE Goto("deletePV")
  BY <1>1 DEF Goto, LeftBehind
<1>2. CASE UNCHANGED template
  BY <1>2, LeftUnmoved DEF Protects
<1>3. CASE Spend("lost")
  BY <1>3, SpendSpends DEF EnvSteps, DeletionInterrupted
<1>4. QED
  BY <1>1, <1>2, <1>3 DEF RemoveFinalizers, ErrorReply

\* The worker writes the PropagatedVersion of a protected template, and erases
\* it before it gives the template up.
LEMMA LeftByWorker ==
  ASSUME ProtInv, Worker \/ \E c \in Clusters : ExecuteOp(c)
  PROVE  LeftBehind' => LeftBehind \/ DeletionInterrupted
<1> USE DEF apiVars, workerVars
<1>a. TypeOK /\ template \in Template
  BY DEF ProtInv, TypeOK
<1>1. CASE \/ StartReconcile \/ ComputePlacement \/ ClusterOperations
           \/ CollectResults \/ ScanTargets
           \/ \E c \in Clusters : ExecuteOp(c)
  <2>1. UNCHANGED <<pv, template>> /\ (pc' = pc \/ pc # "deletePV")
    BY <1>1 DEF StartReconcile, ComputePlacement, ClusterOperations,
       CollectResults, ScanTargets, ExecuteOp
  <2>2. QED
    BY <2>1, LeftUnmoved DEF Protects
<1>2. CASE EnsureFinalizers
  <2>1. Protects(template) => Protects(Finalized)
    BY <1>a DEF Finalized, Protects, Template
  <2>2. /\ UNCHANGED pv /\ pc # "deletePV"
        /\ template' = template \/ template' = Finalized
    BY <1>2 DEF EnsureFinalizers, ErrorReply
  <2>3. Protects(template) => Protects(template')
    BY <2>1, <2>2
  <2>4. QED
    BY <2>2, <2>3, LeftUnmoved
<1>3. CASE CreateVersion \/ CreateVersionStatus \/ UpdateVersion
  <2>1. UNCHANGED template /\ pc \in {"record", "createStatus"}
    BY <1>3 DEF CreateVersion, CreateVersionStatus, UpdateVersion
  <2>2. Protects(job.tmpl) /\ ~job.tmpl.deleting
    BY <2>1 DEF ProtInv, HandsKnow
  <2>3. Protects(template)
    BY <2>2 DEF ProtInv, HeldAreRight, RightCopy, HeldTemplates
  <2>4. QED
    BY <2>1, <2>3 DEF Protects, LeftBehind
<1>4. CASE HandleDeletion
  <2>1. UNCHANGED pv /\ pc = "delete"
    BY <1>4 DEF HandleDeletion
  <2>2. CASE RemoveFinalizers(Finalizers)
    BY <1>a, <2>1, <2>2, LeftByRemoveFinalizers
  <2>3. CASE UNCHANGED template
    BY <2>1, <2>3, LeftUnmoved DEF Protects
  <2>4. QED
    BY <1>4, <2>2, <2>3 DEF HandleDeletion
<1>5. CASE DropFinalizer
  BY <1>a, <1>5, LeftByRemoveFinalizers DEF DropFinalizer
<1>6. CASE DeletePV
  <2>1. ErasePV => ~LeftBehind'
    BY DEF ErasePV, WritePV, DeletedPV, NoPV, LeftBehind
  <2>2. ErasePV \/ Spend("fault")
    BY <1>6 DEF DeletePV, ErrorReply
  <2>3. Spend("fault") => DeletionInterrupted
    BY <1>a, <1>6, SpendSpends DEF EnvSteps, DeletePV, DeletionInterrupted
  <2>4. QED
    BY <2>1, <2>2, <2>3
<1>7. CASE DeleteTemplateByName
  <2>1. UNCHANGED pv /\ pc # "deletePV"
    BY <1>7 DEF DeleteTemplateByName
  <2>2. EraseTemplate \/ UNCHANGED template
    BY <1>7 DEF DeleteTemplateByName, ErrorReply
  <2>3. Protects(template) => Protects(template')
    BY <2>2 DEF EraseTemplate, Protects
  <2>4. QED
    BY <2>1, <2>3, LeftUnmoved
<1>8. QED
  BY <1>1, <1>2, <1>3, <1>4, <1>5, <1>6, <1>7 DEF Worker

\* A PropagatedVersion is left behind only by a deletion that was interrupted
\* between the finalizers and the PropagatedVersion (delete,
\* controller.go:551-566), whatever fails, is lost or crashes elsewhere and
\* whatever users do meanwhile.
THEOREM VersionsLeftOnlyByInterruption == Spec => LeftOnlyByInterruption
<1> DEFINE Step == LeftBehind' => LeftBehind \/ DeletionInterrupted
<1>1. ProtInv /\ [Next]_vars => [Step]_vars
  BY LeftByUser, LeftByDelivery, LeftByWorker DEF Next
<1>2. Spec => []ProtInv
  BY ProtInvariant
<1>3. QED
  BY <1>1, <1>2, PTL DEF Spec, LeftOnlyByInterruption

-----------------------------------------------------------------------------
(* What is left of the budget *)

\* Every step spends of the budget, or leaves it.
LEMMA Spends ==
  ASSUME Next
  PROVE  UNCHANGED budget \/ \E step \in EnvSteps : Spend(step)
<1> USE DEF EnvSteps
<1>1. CASE EditTemplate \/ DeleteTemplate \/ RecreateTemplate
  BY <1>1 DEF EditTemplate, DeleteTemplate, RecreateTemplate
<1>2. CASE EditOverride \/ EditPlacement \/ UpdateTimeout \/ Crash
  BY <1>2 DEF EditOverride, EditPlacement, UpdateTimeout, Crash
<1>3. CASE \/ \E c \in Clusters : Drift(c) \/ FlipReady(c)
           \/ \E l \in late : LandLate(l)
  BY <1>3 DEF Drift, FlipReady, LandLate
<1>4. CASE Informers
  BY <1>4 DEF Informers, SyncTemplate, SyncOverride, SyncPlacement, ListPV,
              DeliverPV, HandleCluster, SyncTarget
<1>5. CASE Deliver \/ ReconcileOnClusterChange
  BY <1>5 DEF Deliver, ReconcileOnClusterChange
<1>6. CASE StartReconcile \/ ComputePlacement \/ ClusterOperations
           \/ CollectResults \/ ScanTargets
  BY <1>6 DEF StartReconcile, ComputePlacement, ClusterOperations,
              CollectResults, ScanTargets
<1>7. CASE EnsureFinalizers \/ HandleDeletion \/ DropFinalizer
  BY <1>7 DEF EnsureFinalizers, HandleDeletion, DropFinalizer,
              RemoveFinalizers, ErrorReply
<1>8. CASE CreateVersion \/ CreateVersionStatus \/ UpdateVersion
  BY <1>8 DEF CreateVersion, CreateVersionStatus, UpdateVersion, ErrorReply
<1>9. CASE DeletePV \/ DeleteTemplateByName
  BY <1>9 DEF DeletePV, DeleteTemplateByName, ErrorReply
<1>10. CASE \E c \in Clusters : ExecuteOp(c)
  BY <1>10 DEF ExecuteOp, ErrorReply
<1>11. QED
  BY <1>1, <1>2, <1>3, <1>4, <1>5, <1>6, <1>7, <1>8, <1>9, <1>10
     DEF Next, User, Worker

\* So what may not happen any more never may again.
LEMMA SpentStays ==
  ASSUME TypeOK, Next, NEW step \in EnvSteps, budget[step] = 0
  PROVE  budget'[step] = 0
<1>1. CASE UNCHANGED budget
  BY <1>1
<1>2. CASE \E s \in EnvSteps : Spend(s)
  <2>1. PICK s \in EnvSteps : Spend(s)
    BY <1>2
  <2>2. budget \in [EnvSteps -> Nat]
    BY DEF TypeOK
  <2>3. s # step
    BY <2>1 DEF Spend
  <2>4. QED
    BY <2>1, <2>2, <2>3 DEF Spend
<1>3. QED
  BY <1>1, <1>2, Spends

\* A template that nobody may delete is not being deleted, nor believed to be.
LEMMA UndeletedStays ==
  ASSUME TypeOK, TypeOK', Undeleted, Next
  PROVE  Undeleted'
<1> USE DEF apiVars, cacheVars, workerVars
<1>a. "delete" \in EnvSteps
  BY DEF EnvSteps
<1>b. budget'["delete"] = 0
  BY <1>a, SpentStays DEF Undeleted
<1>c. template \in Template /\ job \in Job
  BY DEF TypeOK
<1>d. ~Finalized.deleting
      /\ \A fins : ~WithoutFinalizers(fins).deleting
      /\ ~Removed(template).deleting
  BY <1>c DEF Undeleted, Finalized, WithoutFinalizers, Removed, Template
<1>1. ~template'.deleting
  <2>1. CASE User
    <3>1. ~DeleteTemplate
      BY DEF DeleteTemplate, Spend, Undeleted
    <3>2. CASE EditTemplate \/ RecreateTemplate
      BY <3>2, <1>c DEF EditTemplate, RecreateTemplate, Undeleted, Template
    <3>3. QED
      BY <2>1, <3>1, <3>2 DEF User, EditOverride, EditPlacement, Drift,
         FlipReady, UpdateTimeout, Crash, LandLate, Undeleted
  <2>2. CASE Informers \/ Deliver \/ ReconcileOnClusterChange
    BY <2>2 DEF Informers, SyncTemplate, SyncOverride, SyncPlacement, ListPV,
       DeliverPV, HandleCluster, SyncTarget, Deliver, ReconcileOnClusterChange,
       Undeleted
  <2>3. template' \in {template, Finalized, Removed(template)} \cup
                      {WithoutFinalizers(fins) : fins \in SUBSET Finalizers}
        => ~template'.deleting
    BY <1>d DEF Undeleted
  <2>4. CASE EnsureFinalizers
    BY <2>3, <2>4 DEF EnsureFinalizers, ErrorReply
  <2>5. CASE HandleDeletion \/ DropFinalizer
    <3>1. template' = template \/ template' = WithoutFinalizers(Finalizers)
          \/ template' = WithoutFinalizers({DeleteFinalizer})
      BY <2>5 DEF HandleDeletion, DropFinalizer, RemoveFinalizers, ErrorReply
    <3>2. QED
      BY <3>1, <1>d DEF Undeleted
  <2>6. CASE DeleteTemplateByName
    BY <2>3, <2>6 DEF DeleteTemplateByName, EraseTemplate, ErrorReply
  <2>7. CASE \/ StartReconcile \/ ComputePlacement \/ ClusterOperations
             \/ CollectResults \/ CreateVersion \/ CreateVersionStatus
             \/ UpdateVersion \/ ScanTargets \/ DeletePV
             \/ \E c \in Clusters : ExecuteOp(c)
    BY <2>7 DEF StartReconcile, ComputePlacement, ClusterOperations,
       CollectResults, CreateVersion, CreateVersionStatus, UpdateVersion,
       ScanTargets, DeletePV, ExecuteOp, Undeleted
  <2>8. QED
    BY <2>1, <2>2, <2>4, <2>5, <2>6, <2>7 DEF Next, Worker
<1>2. ~tCache'.deleting
  <2>1. CASE SyncTemplate
    BY <2>1 DEF SyncTemplate, Undeleted
  <2>2. CASE Crash
    BY <2>2 DEF Crash, NoTemplate
  <2>3. tCache' = tCache \/ SyncTemplate \/ Crash
    <3>1. CASE User \/ Informers \/ Deliver \/ ReconcileOnClusterChange
               \/ \E c \in Clusters : ExecuteOp(c)
      BY <3>1 DEF User, EditTemplate, DeleteTemplate, RecreateTemplate,
         EditOverride, EditPlacement, Drift, FlipReady, UpdateTimeout, LandLate,
         Informers, SyncOverride, SyncPlacement, ListPV,
         DeliverPV, HandleCluster, SyncTarget, Deliver,
         ReconcileOnClusterChange, ExecuteOp
    <3>2. CASE Worker
      BY <3>2 DEF Worker, StartReconcile, EnsureFinalizers, ComputePlacement,
         ClusterOperations, CollectResults, CreateVersion, CreateVersionStatus,
         UpdateVersion, HandleDeletion, ScanTargets, DropFinalizer, DeletePV,
         DeleteTemplateByName
    <3>3. QED
      BY <3>1, <3>2 DEF Next
  <2>4. QED
    BY <2>1, <2>2, <2>3 DEF Undeleted
<1>3. ~job'.tmpl.deleting
  <2>1. \/ job' = NoJob \/ job'.tmpl = job.tmpl
        \/ job'.tmpl = tCache \/ job'.tmpl = Finalized
    <3>1. CASE User
      BY <3>1 DEF User, EditTemplate, DeleteTemplate, RecreateTemplate,
         EditOverride, EditPlacement, Drift, FlipReady, UpdateTimeout, LandLate,
         Crash
    <3>2. CASE \/ Informers \/ Deliver \/ ReconcileOnClusterChange
               \/ \E c \in Clusters : ExecuteOp(c)
      BY <3>2 DEF Informers, SyncTemplate, SyncOverride, SyncPlacement, ListPV,
         DeliverPV, HandleCluster, SyncTarget, Deliver,
         ReconcileOnClusterChange, ExecuteOp
    <3>3. CASE StartReconcile
      BY <3>3 DEF StartReconcile, Finish, NoJob
    <3>4. CASE EnsureFinalizers
      BY <3>4, <1>c DEF EnsureFinalizers, Finish, Job
    <3>5. CASE \/ ComputePlacement \/ ClusterOperations \/ CollectResults
               \/ CreateVersion
      BY <3>5, <1>c DEF ComputePlacement, ClusterOperations, CollectResults,
         CreateVersion, FinishSync, Finish, Job
    <3>6. CASE \/ CreateVersionStatus \/ UpdateVersion \/ HandleDeletion
               \/ ScanTargets \/ DropFinalizer \/ DeletePV
               \/ DeleteTemplateByName
      BY <3>6, <1>c DEF CreateVersionStatus, UpdateVersion, HandleDeletion,
         ScanTargets, DropFinalizer, DeletePV, DeleteTemplateByName,
         RemoveFinalizers, FinishSync, Finish, Job
    <3>7. QED
      BY <3>1, <3>2, <3>3, <3>4, <3>5, <3>6 DEF Next, Worker
  <2>2. QED
    BY <2>1, <1>d DEF Undeleted, NoJob, NoTemplate
<1>4. QED
  BY <1>b, <1>1, <1>2, <1>3 DEF Undeleted

-----------------------------------------------------------------------------
(* SeesOwnVersions *)

\* Answered, the worker stays answered.
LEMMA AnsweredStays ==
  ASSUME TypeOK, TypeOK', Answered, Next
  PROVE  Answered'
<1>1. budget'["lost"] = 0
  BY SpentStays DEF Answered, EnvSteps
<1>2. CASE Undeleted
  BY <1>1, <1>2, UndeletedStays DEF Answered
<1>3. CASE budget["fault"] = 0
  BY <1>1, <1>3, SpentStays DEF Answered, EnvSteps
<1>4. QED
  BY <1>2, <1>3 DEF Answered

\* A call that returns an error has had no effect.
LEMMA NoLostReply ==
  ASSUME Answered, NEW accepted, NEW effect, NEW noEffect,
         ErrorReply(accepted, effect, noEffect)
  PROVE  noEffect /\ (accepted => Undeleted)
BY DEF Answered, ErrorReply, Spend

\* What is left to show of a step for OwnInv.
LEMMA OwnBy ==
  ASSUME OwnInv, Next, ProtInv', StoreFollows', HandsCurrent', NothingPending',
         UpdatePending'
  PROVE  OwnInv'
<1>1. Answered'
  BY AnsweredStays DEF OwnInv, ProtInv
<1>2. QED
  BY <1>1 DEF OwnInv

Events == <<pv, pvCache, pvQueue, pending>>

\* While no event is added or delivered and nothing becomes pending, only the
\* worker's steps are in question.
LEMMA NoEvent ==
  ASSUME OwnInv, Next, UNCHANGED Events,
         "pv" \in synced' <=> "pv" \in synced,
         pc = "createStatus" => pc' = "createStatus" \/ Undeleted
  PROVE  StoreFollows' /\ NothingPending' /\ UpdatePending'
<1>1. StoreFollows'
  BY DEF OwnInv, StoreFollows, Events
<1>2. Undeleted => Undeleted'
  <2>1. TypeOK /\ TypeOK'
    BY StepType DEF OwnInv, ProtInv
  <2>2. QED
    BY <2>1, UndeletedStays
<1>3. NothingPending'
  BY <1>2 DEF OwnInv, NothingPending, Events
<1>4. UpdatePending'
  BY DEF OwnInv, UpdatePending, Events
<1>5. QED
  BY <1>1, <1>3, <1>4

\* So it is with steps that leave the worker where it is.
LEMMA OwnElsewhere ==
  ASSUME OwnInv, Next, ProtInv', UNCHANGED Events,
         "pv" \in synced' <=> "pv" \in synced,
         UNCHANGED <<pc, job>>
  PROVE  OwnInv'
<1>1. HandsCurrent'
  BY DEF OwnInv, HandsCurrent, Propagates, Events
<1>2. QED
  BY <1>1, NoEvent, OwnBy

\* And with those that end the reconciliation.
LEMMA OwnFinish ==
  ASSUME OwnInv, Next, ProtInv', UNCHANGED Events,
         "pv" \in synced' <=> "pv" \in synced,
         pc # "createStatus" \/ Undeleted, pc' = "idle"
  PROVE  OwnInv'
<1>1. HandsCurrent'
  BY DEF HandsCurrent, Propagates
<1>2. QED
  BY <1>1, NoEvent, OwnBy

\* Users, the environment and crashes.
LEMMA OwnUser ==
  ASSUME OwnInv, User, ProtInv'
  PROVE  OwnInv'
<1> USE DEF apiVars, pvVars, cacheVars, workerVars, Events
<1>a. Next
  BY DEF Next
<1>1. CASE ~Crash
  <2>1. UNCHANGED Events /\ UNCHANGED <<pc, job, synced>>
    BY <1>1 DEF User, EditTemplate, DeleteTemplate, RecreateTemplate,
       EditOverride, EditPlacement, Drift, FlipReady, UpdateTimeout, LandLate
  <2>2. QED
    BY <1>a, <2>1, OwnElsewhere
<1>2. CASE Crash
  <2>1. /\ pvCache' = NoPV /\ pvQueue' = <<>> /\ pending' = FALSE
        /\ synced' = {} /\ pc' = "idle"
    BY <1>2 DEF Crash
  <2>2. StoreFollows' /\ NothingPending' /\ UpdatePending'
    BY <2>1 DEF StoreFollows, NothingPending, UpdatePending
  <2>3. HandsCurrent'
    BY <2>1 DEF HandsCurrent, Propagates
  <2>4. QED
    BY <1>a, <2>2, <2>3, OwnBy
<1>3. QED
  BY <1>1, <1>2

\* The queue of events after one more, and after one less.
LEMMA Queues ==
  ASSUME TypeOK
  PROVE  /\ Len(pvQueue) \in Nat
         /\ pvQueue = <<>> <=> Len(pvQueue) = 0
         /\ \A p \in PropagatedVersion :
              LET q == Append(pvQueue, p) IN
                /\ Len(q) = Len(pvQueue) + 1 /\ q # <<>>
                /\ q[Len(q)] = p
                /\ \A i \in 1..Len(pvQueue) : q[i] = pvQueue[i]
         /\ pvQueue # <<>> =>
              LET q == Tail(pvQueue) IN
                /\ Len(q) = Len(pvQueue) - 1
                /\ q = <<>> <=> Len(q) = 0
                /\ \A i \in 1..Len(q) : q[i] = pvQueue[i + 1]
                /\ Head(pvQueue) = pvQueue[1]
<1>1. pvQueue \in Seq(PropagatedVersion)
  BY DEF TypeOK
<1>2. Len(pvQueue) \in Nat /\ (pvQueue = <<>> <=> Len(pvQueue) = 0)
  BY <1>1, EmptySeq
<1>3. ASSUME NEW p \in PropagatedVersion
      PROVE  LET q == Append(pvQueue, p) IN
               /\ Len(q) = Len(pvQueue) + 1 /\ q # <<>>
               /\ q[Len(q)] = p
               /\ \A i \in 1..Len(pvQueue) : q[i] = pvQueue[i]
  BY <1>1, AppendProperties
<1>4. ASSUME pvQueue # <<>>
      PROVE  LET q == Tail(pvQueue) IN
               /\ Len(q) = Len(pvQueue) - 1
               /\ q = <<>> <=> Len(q) = 0
               /\ \A i \in 1..Len(q) : q[i] = pvQueue[i + 1]
               /\ Head(pvQueue) = pvQueue[1]
  <2>1. /\ Tail(pvQueue) \in Seq(PropagatedVersion)
        /\ Len(Tail(pvQueue)) = Len(pvQueue) - 1
        /\ \A i \in 1..Len(Tail(pvQueue)) : Tail(pvQueue)[i] = pvQueue[i + 1]
        /\ Head(pvQueue) = pvQueue[1]
    BY <1>1, <1>4, HeadTailProperties
  <2>2. Tail(pvQueue) = <<>> <=> Len(Tail(pvQueue)) = 0
    BY <2>1, EmptySeq
  <2>3. QED
    BY <2>1, <2>2
<1>5. QED
  BY <1>2, <1>3, <1>4

\* An event is delivered: an update, or one with nothing of an update after it.
LEMMA OwnDeliverPV ==
  ASSUME OwnInv, DeliverPV, ProtInv'
  PROVE  OwnInv'
<1>a. TypeOK /\ Next
  BY DEF OwnInv, ProtInv, Next, Informers
<1>1. /\ pvQueue # <<>> /\ pvCache' = pvQueue[1] /\ pvQueue' = Tail(pvQueue)
      /\ pending' = (pending /\ ~(pvCache.live /\ pvQueue[1].live))
      /\ UNCHANGED <<pv, synced, pc, job>>
  BY <1>a, Queues DEF DeliverPV, apiVars, cacheVars, workerVars
<1>2. /\ Len(pvQueue) \in Nat \ {0} /\ Len(pvQueue') = Len(pvQueue) - 1
      /\ \A i \in 1..Len(pvQueue') : pvQueue'[i] = pvQueue[i + 1]
      /\ pvQueue' = <<>> <=> Len(pvQueue) = 1
  BY <1>1, <1>a, Queues
<1>3. StoreFollows'
  <2>1. "pv" \in synced /\ pv = pvQueue[Len(pvQueue)]
    BY <1>1 DEF OwnInv, StoreFollows
  <2>2. CASE Len(pvQueue) = 1
    BY <1>1, <1>2, <2>1, <2>2 DEF StoreFollows
  <2>3. CASE Len(pvQueue) # 1
    <3>1. pvQueue' # <<>> /\ pvQueue'[Len(pvQueue')] = pvQueue[Len(pvQueue)]
      BY <1>2, <2>3
    <3>2. QED
      BY <1>1, <2>1, <3>1 DEF StoreFollows
  <2>4. QED
    BY <2>2, <2>3
<1>4. HandsCurrent'
  BY <1>1 DEF OwnInv, HandsCurrent, Propagates
<1>5. Len(pvQueue) \in {1, 2, 3}
      /\ (Len(pvQueue) = 2 => pending /\ pvQueue[1].live
                              /\ (pvCache.live => ~pvQueue[2].live))
      /\ (Len(pvQueue) = 3 => pending /\ ~pvCache.live /\ pvQueue[1].live
                              /\ pvQueue[2].live /\ ~pvQueue[3].live)
  <2>1. CASE pending
    BY <1>2, <2>1 DEF OwnInv, UpdatePending
  <2>2. CASE ~pending
    BY <1>1, <1>2, <2>2 DEF OwnInv, NothingPending
  <2>3. QED
    BY <2>1, <2>2
<1>6. CASE Len(pvQueue) = 1
  <2>1. NothingPending' /\ UpdatePending'
    BY <1>2, <1>6 DEF NothingPending, UpdatePending
  <2>2. QED
    BY <1>a, <1>3, <1>4, <2>1, OwnBy
<1>7. CASE Len(pvQueue) = 2
  <2>1. Len(pvQueue') = 1 /\ pvQueue'[1] = pvQueue[2]
    BY <1>2, <1>7
  <2>2. UpdatePending'
    BY <2>1 DEF UpdatePending
  <2>3. NothingPending'
    BY <1>1, <1>5, <1>7, <2>1 DEF NothingPending
  <2>4. QED
    BY <1>a, <1>3, <1>4, <2>2, <2>3, OwnBy
<1>8. CASE Len(pvQueue) = 3
  <2>1. Len(pvQueue') = 2 /\ pvQueue'[1] = pvQueue[2]
        /\ pvQueue'[2] = pvQueue[3]
    BY <1>2, <1>8
  <2>2. pending'
    BY <1>1, <1>5, <1>8
  <2>3. UpdatePending' /\ NothingPending'
    BY <1>5, <1>8, <2>1, <2>2 DEF UpdatePending, NothingPending
  <2>4. QED
    BY <1>a, <1>3, <1>4, <2>3, OwnBy
<1>9. QED
  BY <1>5, <1>6, <1>7, <1>8

\* Informers and deliverers.
LEMMA OwnDelivery ==
  ASSUME OwnInv, Informers \/ Deliver \/ ReconcileOnClusterChange, ProtInv'
  PROVE  OwnInv'
<1> USE DEF apiVars, pvVars, cacheVars, workerVars, Events
<1>a. Next
  BY DEF Next
<1>1. CASE ListPV
  <2>1. /\ pvCache' = pv /\ pvQueue' = <<>> /\ "pv" \in synced'
        /\ UNCHANGED <<pv, pc, job>> /\ pending' \in BOOLEAN
        /\ (pending' => pending)
    BY <1>1 DEF ListPV
  <2>2. StoreFollows' /\ NothingPending'
    BY <2>1 DEF StoreFollows, NothingPending
  <2>3. UpdatePending'
    <3>1. Len(<<>>) = 0
      OBVIOUS
    <3>2. QED
      BY <2>1, <3>1 DEF UpdatePending
  <2>4. HandsCurrent'
    BY <2>1 DEF OwnInv, HandsCurrent, Propagates
  <2>5. QED
    BY <1>a, <2>2, <2>3, <2>4, OwnBy
<1>2. CASE DeliverPV
  BY <1>2, OwnDeliverPV
<1>3. CASE ~ListPV /\ ~DeliverPV
  <2>1. /\ UNCHANGED Events /\ UNCHANGED <<pc, job>>
        /\ "pv" \in synced' <=> "pv" \in synced
    BY <1>3 DEF Informers, SyncTemplate, SyncOverride, SyncPlacement,
       HandleCluster, SyncTarget, Deliver, ReconcileOnClusterChange
  <2>2. QED
    BY <1>a, <2>1, OwnElsewhere
<1>4. QED
  BY <1>1, <1>2, <1>3

\* What the worker knows of the queue before it writes: it holds at most the
\* creation it has made, or that the object is gone.
LEMMA QueueInHand ==
  ASSUME OwnInv, ~pending
  PROVE  /\ Len(pvQueue) \in {0, 1}
         /\ Len(pvQueue) = 0 <=> pvQueue = <<>>
         /\ Len(pvQueue) = 1 => "pv" \in synced /\ pvQueue[1] = pv
                                /\ pvCache.live # pv.live
         /\ pvQueue = <<>> /\ "pv" \in synced => pv = pvCache
<1>1. /\ Len(pvQueue) \in Nat /\ pvQueue = <<>> <=> Len(pvQueue) = 0
  BY Queues DEF OwnInv, ProtInv
<1>2. Len(pvQueue) \in {0, 1}
      /\ (Len(pvQueue) = 1 => pvCache.live # pvQueue[1].live)
  BY <1>1 DEF OwnInv, NothingPending
<1>3. Len(pvQueue) = 1 => "pv" \in synced /\ pvQueue[1] = pv
  BY <1>1 DEF OwnInv, StoreFollows
<1>4. pvQueue = <<>> /\ "pv" \in synced => pv = pvCache
  BY DEF OwnInv, StoreFollows
<1>5. QED
  BY <1>1, <1>2, <1>3, <1>4

\* A write is the last event, unless nobody watches yet.
LEMMA WritePVFollows ==
  ASSUME OwnInv, NEW p \in PropagatedVersion, WritePV(p), UNCHANGED pvCache,
         "pv" \in synced' <=> "pv" \in synced
  PROVE  StoreFollows' /\ pv' = p
<1>1. TypeOK
  BY DEF OwnInv, ProtInv
<1>2. CASE "pv" \in synced
  <2>1. pvQueue' = Append(pvQueue, p) /\ pv' = p
    BY <1>2 DEF WritePV
  <2>2. pvQueue' # <<>> /\ pvQueue'[Len(pvQueue')] = p
    BY <1>1, <2>1, Queues
  <2>3. QED
    BY <1>2, <2>1, <2>2 DEF StoreFollows
<1>3. CASE "pv" \notin synced
  BY <1>3 DEF WritePV, OwnInv, StoreFollows
<1>4. QED
  BY <1>2, <1>3

\* updatePropagatedVersion creates a version (controller.go:671-677).
LEMMA OwnCreateVersion ==
  ASSUME OwnInv, CreateVersion, ProtInv'
  PROVE  OwnInv'
<1> USE DEF cacheVars, Events
<1>a. TypeOK /\ Next /\ CreatedPV \in PropagatedVersion
  BY WrittenTypes DEF OwnInv, ProtInv, Next, Worker
<1>b. /\ pc = "record" /\ ~job.pv.live /\ ~job.tmpl.deleting
      /\ UNCHANGED <<pvCache, pending, synced>>
  BY DEF CreateVersion, OwnInv, ProtInv, HandsKnow
<1>c. ~pending
  BY <1>b DEF OwnInv, HandsCurrent, Propagates
<1>1. CASE /\ ~pv.live /\ WritePV(CreatedPV)
           /\ job' = [job EXCEPT !.pv = CreatedPV] /\ Goto("createStatus")
  <2>1. pvQueue = <<>>
    <3>1. pv.live \in BOOLEAN /\ job.pv.live \in BOOLEAN
      BY <1>a DEF TypeOK, Job, PropagatedVersion
    <3>2. job.pv.live = pv.live
      BY Zenon, <1>1, <1>b, <3>1
    <3>3. QED
      BY <1>b, <3>2 DEF OwnInv, HandsCurrent, Propagates
  <2>2. pv' = CreatedPV /\ StoreFollows'
    BY <1>1, <1>a, <1>b, WritePVFollows
  <2>3. CreatedPV.live = TRUE
    BY DEF CreatedPV, NoPV
  <2>4. job'.pv = CreatedPV /\ pc' = "createStatus" /\ ~pending'
    BY <1>1, <1>a, <1>b, <1>c DEF Goto, TypeOK, Job
  <2>5. HandsCurrent'
    BY <2>2, <2>3, <2>4 DEF HandsCurrent, Propagates
  <2>6. NothingPending'
    <3>1. CASE "pv" \in synced
      <4>1. Len(pvQueue') = 1 /\ pvQueue'[1] = CreatedPV
        BY <1>1, <2>1, <3>1 DEF WritePV
      <4>2. ~pvCache'.live
        BY <1>1, <1>b, <2>1, <3>1 DEF OwnInv, StoreFollows
      <4>3. QED
        BY <2>3, <2>4, <4>1, <4>2, Zenon DEF NothingPending
    <3>2. CASE "pv" \notin synced
      BY <1>1, <2>1, <3>2 DEF WritePV, NothingPending
    <3>3. QED
      BY <3>1, <3>2
  <2>7. UpdatePending'
    BY <2>4 DEF UpdatePending
  <2>8. QED
    BY <1>a, <2>2, <2>5, <2>6, <2>7, OwnBy
<1>2. CASE /\ ErrorReply(~pv.live, WritePV(CreatedPV), UNCHANGED <<pv, pvQueue>>)
           /\ FinishSync
  <2>1. UNCHANGED <<pv, pvQueue>>
    BY <1>2, NoLostReply DEF OwnInv
  <2>2. pc' = "idle"
    BY <1>2 DEF FinishSync, Finish
  <2>3. QED
    BY <1>a, <1>b, <2>1, <2>2, OwnFinish
<1>3. QED
  BY <1>1, <1>2 DEF CreateVersion

\* UpdateStatus of a created version (controller.go:678-687): the update is
\* behind the creation, if that is still to be delivered.
LEMMA OwnCreateVersionStatus ==
  ASSUME OwnInv, CreateVersionStatus, ProtInv'
  PROVE  OwnInv'
<1> USE DEF cacheVars, Events
<1>a. TypeOK /\ Next /\ StatusWritten(job.pv) \in PropagatedVersion
  BY WrittenTypes DEF OwnInv, ProtInv, Next, Worker
<1>b. /\ pc = "createStatus" /\ ~job.tmpl.deleting
      /\ pv.live /\ pv = job.pv /\ UNCHANGED <<pvCache, synced>>
      /\ pc' = "idle"
  BY DEF CreateVersionStatus, OwnInv, ProtInv, HandsKnow, HandsCurrent,
         FinishSync, Finish
<1>c. ~pending
  BY <1>b DEF OwnInv, HandsCurrent, Propagates
<1>d. HandsCurrent'
  BY <1>b DEF HandsCurrent, Propagates
<1>e. StatusUpdateAccepted
  BY <1>b DEF StatusUpdateAccepted
<1>1. CASE WritePV(StatusWritten(job.pv)) /\ ExpectUpdate
  <2>1. StoreFollows'
    BY <1>1, <1>a, <1>b, WritePVFollows
  <2>2. pending' = TRUE
    BY <1>1 DEF ExpectUpdate
  <2>3. NothingPending'
    BY <2>2 DEF NothingPending
  <2>4. UpdatePending'
    <3>1. CASE "pv" \in synced /\ Len(pvQueue) = 1
      <4>1. pvQueue' = Append(pvQueue, StatusWritten(job.pv))
        BY <1>1, <3>1 DEF WritePV
      <4>2. Len(pvQueue') = 2 /\ pvQueue'[1] = pvQueue[1]
        BY <1>a, <3>1, <4>1, Queues
      <4>3. pvQueue[1] = pv /\ ~pvCache.live
        BY <1>b, <1>c, <3>1, QueueInHand
      <4>4. QED
        BY <1>b, <4>2, <4>3 DEF UpdatePending
    <3>2. CASE Len(pvQueue) = 0
      <4>1. Len(pvQueue') \in {0, 1}
        BY <1>1, <1>a, <3>2, Queues DEF WritePV
      <4>2. QED
        BY <4>1 DEF UpdatePending
    <3>3. QED
      BY <1>c, <3>1, <3>2, QueueInHand
  <2>5. QED
    BY <1>a, <1>d, <2>1, <2>3, <2>4, OwnBy
<1>2. CASE ErrorReply(StatusUpdateAccepted, WritePV(StatusWritten(job.pv)),
                      UNCHANGED <<pv, pvQueue>>) /\ pending' = FALSE
  <2>1. UNCHANGED <<pv, pvQueue>> /\ Undeleted
    BY <1>2, <1>e, NoLostReply DEF OwnInv
  <2>2. UNCHANGED pending
    BY <1>a, <1>c, <1>2 DEF TypeOK
  <2>3. QED
    BY <1>a, <1>b, <2>1, <2>2, OwnFinish
<1>3. QED
  BY <1>1, <1>2 DEF CreateVersionStatus

\* UpdateStatus of a version that was read from the store (controller.go:689-715):
\* the store was current, the update is the only event.
LEMMA OwnUpdateVersion ==
  ASSUME OwnInv, UpdateVersion, ProtInv'
  PROVE  OwnInv'
<1> USE DEF cacheVars, Events
<1>a. TypeOK /\ Next /\ StatusWritten(NewStatus) \in PropagatedVersion
  BY WrittenTypes DEF OwnInv, ProtInv, Next, Worker
<1>b. /\ pc = "record" /\ ~job.tmpl.deleting /\ job.pv.live
      /\ UNCHANGED <<pvCache, synced>> /\ pc' = "idle"
  BY DEF UpdateVersion, OwnInv, ProtInv, HandsKnow, FinishSync, Finish
<1>c. ~pending
  BY <1>b DEF OwnInv, HandsCurrent, Propagates
<1>d. HandsCurrent'
  BY <1>b DEF HandsCurrent, Propagates
<1>1. CASE UNCHANGED <<pv, pvQueue, pending>>
  BY <1>1, <1>a, <1>b, OwnFinish
<1>2. CASE StatusUpdateAccepted /\ PutStatus /\ ExpectUpdate
  <2>1. pvQueue = <<>>
    <3>1. pv.live \in BOOLEAN /\ job.pv.live \in BOOLEAN
      BY <1>a DEF TypeOK, Job, PropagatedVersion
    <3>2. job.pv.live = pv.live
      BY Zenon, <1>2, <1>b, <3>1 DEF StatusUpdateAccepted
    <3>3. QED
      BY <1>b, <3>2 DEF OwnInv, HandsCurrent, Propagates
  <2>2. NothingPending'
    BY <1>2 DEF ExpectUpdate, NothingPending
  <2>3. CASE UNCHANGED <<pv, pvQueue>>
    <3>1. StoreFollows'
      BY <1>b, <2>3 DEF OwnInv, StoreFollows
    <3>2. Len(pvQueue') = 0
      BY <2>1, <2>3
    <3>3. UpdatePending'
      BY <3>2 DEF UpdatePending
    <3>4. QED
      BY <1>a, <1>d, <2>2, <3>1, <3>3, OwnBy
  <2>4. CASE WritePV(StatusWritten(NewStatus))
    <3>1. StoreFollows'
      BY <1>a, <1>b, <2>4, WritePVFollows
    <3>2. Len(pvQueue') \in {0, 1}
      BY <2>1, <2>4 DEF WritePV
    <3>3. UpdatePending'
      BY <3>2 DEF UpdatePending
    <3>4. QED
      BY <1>a, <1>d, <2>2, <3>1, <3>3, OwnBy
  <2>5. QED
    BY <1>2, <2>3, <2>4 DEF PutStatus
<1>3. CASE ErrorReply(StatusUpdateAccepted, PutStatus, UNCHANGED <<pv, pvQueue>>)
           /\ pending' = FALSE
  <2>1. UNCHANGED <<pv, pvQueue>>
    BY <1>3, NoLostReply DEF OwnInv
  <2>2. UNCHANGED pending
    BY <1>a, <1>c, <1>3 DEF TypeOK
  <2>3. QED
    BY <1>a, <1>b, <2>1, <2>2, OwnFinish
<1>4. QED
  BY <1>1, <1>2, <1>3 DEF UpdateVersion

\* The deletion of the PropagatedVersion (controller.go:562-566) comes behind a
\* creation and an update at most.
LEMMA OwnDeletePV ==
  ASSUME OwnInv, DeletePV, ProtInv'
  PROVE  OwnInv'
<1> USE DEF cacheVars, Events
<1>a. TypeOK /\ Next /\ DeletedPV \in PropagatedVersion
  BY WrittenTypes DEF OwnInv, ProtInv, Next, Worker
<1>b. /\ pc = "deletePV" /\ job.tmpl.deleting /\ ~Undeleted
      /\ UNCHANGED <<pvCache, pending, synced>>
      /\ pc' \in {"idle", "deleteTemplate"}
  BY DEF DeletePV, OwnInv, ProtInv, HandsKnow, Goto, Finish, Undeleted
<1>c. HandsCurrent'
  BY <1>b DEF HandsCurrent, Propagates
<1>d. ErasePV \/ UNCHANGED <<pv, pvQueue>>
  <2>1. ASSUME ErrorReply(TRUE, ErasePV, UNCHANGED <<pv, pvQueue>>)
        PROVE  UNCHANGED <<pv, pvQueue>>
    BY <2>1, NoLostReply DEF OwnInv
  <2>2. QED
    BY <2>1 DEF DeletePV
<1>1. CASE UNCHANGED <<pv, pvQueue>>
  <2>1. StoreFollows' /\ NothingPending' /\ UpdatePending'
    BY <1>a, <1>b, <1>1, NoEvent
  <2>2. QED
    BY <1>a, <1>c, <2>1, OwnBy
<1>2. CASE pv.live /\ WritePV(DeletedPV)
  <2>a. ~DeletedPV.live /\ DeletedPV.live \in BOOLEAN
        /\ pvCache.live \in BOOLEAN
    BY <1>a DEF DeletedPV, NoPV, TypeOK, PropagatedVersion
  <2>1. StoreFollows'
    BY <1>a, <1>b, <1>2, WritePVFollows
  <2>2. CASE "pv" \notin synced
    <3>1. UNCHANGED <<pvQueue, pvCache, pending>>
      BY <1>b, <1>2, <2>2 DEF WritePV
    <3>2. pvQueue = <<>>
      BY <2>2 DEF OwnInv, StoreFollows
    <3>3. NothingPending'
      BY <3>1, <3>2 DEF NothingPending
    <3>4. UpdatePending'
      BY <3>1 DEF OwnInv, UpdatePending
    <3>5. QED
      BY <1>a, <1>c, <2>1, <3>3, <3>4, OwnBy
  <2>3. CASE "pv" \in synced
    <3>1. /\ Len(pvQueue) \in Nat /\ Len(pvQueue') = Len(pvQueue) + 1
          /\ pvQueue'[Len(pvQueue) + 1] = DeletedPV
          /\ \A i \in 1..Len(pvQueue) : pvQueue'[i] = pvQueue[i]
      BY <1>a, <1>2, <2>3, Queues DEF WritePV
    <3>2. Len(pvQueue) # 0 => pvQueue[Len(pvQueue)].live
      <4>1. pvQueue = <<>> <=> Len(pvQueue) = 0
        BY <1>a, Queues
      <4>2. QED
        BY <1>2, <2>3, <4>1 DEF OwnInv, StoreFollows
    <3>3. CASE ~pending
      <4>1. Len(pvQueue) = 0
        <5>1. Len(pvQueue) \in {0, 1}
              /\ (Len(pvQueue) = 1 =>
                    (pvQueue[1].live => pc = "createStatus" \/ Undeleted))
          BY <3>1, <3>3, <1>a, Queues DEF OwnInv, NothingPending
        <5>2. QED
          BY <1>b, <3>2, <5>1
      <4>2. pvCache.live
        <5>1. pvQueue = <<>>
          BY <1>a, <4>1, Queues
        <5>2. QED
          BY <1>2, <2>3, <5>1 DEF OwnInv, StoreFollows
      <4>3. Len(pvQueue') = 1 /\ pvQueue'[1] = DeletedPV
        BY <3>1, <4>1
      <4>4. NothingPending'
        BY <1>b, <2>a, <4>2, <4>3 DEF NothingPending
      <4>5. UpdatePending'
        BY <4>3 DEF UpdatePending
      <4>6. QED
        BY <1>a, <1>c, <2>1, <4>4, <4>5, OwnBy
    <3>4. CASE pending
      <4>1. NothingPending'
        BY <1>b, <3>4 DEF NothingPending
      <4>2. CASE Len(pvQueue) = 0
        <5>1. UpdatePending'
          BY <3>1, <4>2 DEF UpdatePending
        <5>2. QED
          BY <1>a, <1>c, <2>1, <4>1, <5>1, OwnBy
      <4>3. CASE Len(pvQueue) = 1
        <5>1. Len(pvQueue') = 2 /\ pvQueue'[1].live /\ pvQueue'[2] = DeletedPV
          BY <3>1, <3>2, <4>3
        <5>2. UpdatePending'
          BY <2>a, <5>1 DEF UpdatePending
        <5>3. QED
          BY <1>a, <1>c, <2>1, <4>1, <5>2, OwnBy
      <4>4. CASE Len(pvQueue) = 2
        <5>1. pvQueue[1].live /\ pvQueue[2].live /\ ~pvCache.live
          BY <3>2, <3>4, <4>4 DEF OwnInv, UpdatePending
        <5>2. /\ Len(pvQueue') = 3 /\ pvQueue'[1].live /\ pvQueue'[2].live
              /\ pvQueue'[3] = DeletedPV /\ ~pvCache'.live
          BY <1>b, <3>1, <4>4, <5>1
        <5>3. UpdatePending'
          BY <2>a, <5>2 DEF UpdatePending
        <5>4. QED
          BY <1>a, <1>c, <2>1, <4>1, <5>3, OwnBy
      <4>5. Len(pvQueue) \in {0, 1, 2}
        <5>1. \/ Len(pvQueue) <= 1 \/ Len(pvQueue) = 2
              \/ Len(pvQueue) = 3 /\ ~pvQueue[3].live
          BY <3>4 DEF OwnInv, UpdatePending
        <5>2. ~(Len(pvQueue) = 3 /\ ~pvQueue[3].live)
          BY <3>2
        <5>3. Len(pvQueue) <= 1 \/ Len(pvQueue) = 2
          BY <5>1, <5>2
        <5>4. ASSUME NEW n \in Nat, n <= 1 \/ n = 2 PROVE n \in {0, 1, 2}
          BY <5>4
        <5>5. QED
          BY <3>1, <5>3, <5>4
      <4>6. QED
        BY <4>2, <4>3, <4>4, <4>5
    <3>5. QED
      BY <3>3, <3>4
  <2>4. QED
    BY <2>2, <2>3
<1>3. QED
  BY <1>d, <1>1, <1>2 DEF ErasePV

\* The worker's other steps write no PropagatedVersion: it waits until nothing
\* is pending, then reads the store.
LEMMA OwnWorker ==
  ASSUME OwnInv, Worker \/ \E c \in Clusters : ExecuteOp(c), ProtInv'
  PROVE  OwnInv'
<1> USE DEF apiVars, pvVars, cacheVars, workerVars, Events
<1>a. Next /\ job \in Job
  BY DEF Next, OwnInv, ProtInv, TypeOK
<1>1. CASE \E c \in Clusters : ExecuteOp(c)
  <2>1. UNCHANGED Events /\ UNCHANGED <<pc, job, synced>>
    BY <1>1 DEF ExecuteOp
  <2>2. QED
    BY <1>a, <2>1, OwnElsewhere
<1>2. CASE \/ StartReconcile \/ EnsureFinalizers \/ HandleDeletion
           \/ ScanTargets \/ DropFinalizer \/ DeleteTemplateByName
           \/ ComputePlacement /\ pc' # "compute"
  <2>1. UNCHANGED Events /\ UNCHANGED synced /\ pc # "createStatus"
    BY <1>2 DEF StartReconcile, EnsureFinalizers, HandleDeletion, ScanTargets,
       DropFinalizer, DeleteTemplateByName, ComputePlacement
  <2>2. HandsCurrent'
    <3>1. CASE ScanTargets
      <4>1. job'.tmpl.deleting \/ pc' # "updating"
        BY <3>1, <1>a DEF ScanTargets, OwnInv, ProtInv, HandsKnow, Finish, Goto
      <4>2. pc' \notin {"compute", "record", "createStatus"}
        BY <3>1 DEF ScanTargets, Finish, Goto
      <4>3. QED
        BY <4>1, <4>2 DEF HandsCurrent, Propagates
    <3>2. CASE ~ScanTargets
      <4>1. pc' \notin {"compute", "updating", "record", "createStatus"}
        BY <1>2, <3>2 DEF StartReconcile, EnsureFinalizers, HandleDeletion,
           DropFinalizer, DeleteTemplateByName, ComputePlacement,
           RemoveFinalizers, Finish, Goto
      <4>2. QED
        BY <4>1 DEF HandsCurrent, Propagates
    <3>3. QED
      BY <3>1, <3>2
  <2>3. StoreFollows' /\ NothingPending' /\ UpdatePending'
    BY <1>a, <2>1, NoEvent
  <2>4. QED
    BY <1>a, <2>2, <2>3, OwnBy
<1>3. CASE ComputePlacement /\ pc' = "compute"
  <2>1. UNCHANGED Events /\ UNCHANGED synced /\ pc = "place" /\ ~pending
    BY <1>3 DEF ComputePlacement, Finish
  <2>2. HandsCurrent'
    BY <1>3, <2>1 DEF HandsCurrent, Propagates
  <2>3. StoreFollows' /\ NothingPending' /\ UpdatePending'
    BY <1>a, <2>1, NoEvent
  <2>4. QED
    BY <1>a, <2>2, <2>3, OwnBy
<1>4. CASE ClusterOperations
  <2>1. UNCHANGED Events /\ UNCHANGED synced /\ pc = "compute"
        /\ ~job.tmpl.deleting
    BY <1>4 DEF ClusterOperations, OwnInv, ProtInv, HandsKnow
  <2>2. ~pending
    BY <2>1 DEF OwnInv, HandsCurrent, Propagates
  <2>3. CASE pc' = "updating" /\ job' = [job EXCEPT !.pv = pvCache]
    <3>1. job'.pv = pvCache
      BY <1>a, <2>3 DEF Job
    <3>2. pvCache.live = pv.live => pvQueue = <<>>
      BY <2>2, QueueInHand
    <3>3. HandsCurrent'
      BY <2>1, <2>2, <2>3, <3>1, <3>2 DEF HandsCurrent, Propagates
    <3>4. StoreFollows' /\ NothingPending' /\ UpdatePending'
      BY <1>a, <2>1, NoEvent
    <3>5. QED
      BY <1>a, <3>3, <3>4, OwnBy
  <2>4. CASE pc' = "idle"
    BY <1>a, <2>1, <2>4, OwnFinish
  <2>5. QED
    BY <1>4, <2>3, <2>4 DEF ClusterOperations, Finish
<1>5. CASE CollectResults
  <2>1. UNCHANGED Events /\ UNCHANGED synced /\ pc = "updating"
    BY <1>5 DEF CollectResults
  <2>2. CASE pc' = "record" /\ job'.pv = job.pv /\ job'.tmpl = job.tmpl
             /\ ~job.tmpl.deleting
    <3>1. HandsCurrent'
      BY <2>1, <2>2 DEF OwnInv, HandsCurrent, Propagates
    <3>2. StoreFollows' /\ NothingPending' /\ UpdatePending'
      BY <1>a, <2>1, NoEvent
    <3>3. QED
      BY <1>a, <3>1, <3>2, OwnBy
  <2>3. CASE pc' = "idle"
    BY <1>a, <2>1, <2>3, OwnFinish
  <2>4. QED
    BY <1>5, <1>a, <2>2, <2>3 DEF CollectResults, Finish, Goto, Job
<1>6. CASE CreateVersion \/ CreateVersionStatus \/ UpdateVersion \/ DeletePV
  BY <1>6, OwnCreateVersion, OwnCreateVersionStatus, OwnUpdateVersion,
     OwnDeletePV
<1>7. QED
  BY <1>1, <1>2, <1>3, <1>4, <1>5, <1>6 DEF Worker

\* Every step preserves OwnInv.
LEMMA OwnStep == OwnInv /\ [Next]_vars => OwnInv'
<1> SUFFICES ASSUME OwnInv, [Next]_vars PROVE OwnInv'
  OBVIOUS
<1>1. CASE Next
  <2>1. ProtInv'
    BY <1>1, ProtUser, ProtDelivery, ProtWorker DEF OwnInv, Next
  <2>2. QED
    BY <1>1, <2>1, OwnUser, OwnDelivery, OwnWorker DEF Next
<1>2. CASE UNCHANGED vars
  <2>1. UNCHANGED <<template, pv, tCache, pc, job, op, budget, pvCache, pvQueue,
                    pending, synced>>
    BY <1>2 DEF vars, apiVars, cacheVars, workerVars, pvVars
  <2>2. ProtInv'
    <3>1. TypeOK'
      BY <1>2, StepType DEF OwnInv, ProtInv
    <3>2. QED
      BY <2>1, <3>1, ProtElsewhere DEF OwnInv
  <2>3. Answered' /\ (Undeleted <=> Undeleted')
    BY <2>1 DEF OwnInv, Answered, Undeleted
  <2>4. StoreFollows' /\ HandsCurrent'
    BY <2>1 DEF OwnInv, StoreFollows, HandsCurrent, Propagates
  <2>5. NothingPending' /\ UpdatePending'
    BY <2>1, <2>3 DEF OwnInv, NothingPending, UpdatePending
  <2>6. QED
    BY <2>2, <2>3, <2>4, <2>5 DEF OwnInv
<1>3. QED
  BY <1>1, <1>2

\* pendingVersionUpdates (controller.go:215-220, 487-493, 680, 708) does its job wherever
\* no reply of the API is lost and, if templates are deleted, no call fails: the
\* worker plans from the PropagatedVersion it wrote last.
THEOREM OwnVersionsSeen ==
  ASSUME \A s \in Scenarios :
           /\ s.budget["lost"] = 0
           /\ s.budget["fault"] = 0 \/ s.budget["delete"] = 0
  PROVE  Spec => []SeesOwnVersions
<1>1. Init => OwnInv
  <2> SUFFICES ASSUME Init PROVE OwnInv
    OBVIOUS
  <2>1. PICK s \in Scenarios :
          /\ tCache = IF s.cold THEN NoTemplate ELSE template
          /\ budget = s.budget
    BY DEF Init
  <2>2. /\ ~template.deleting /\ ~tCache.deleting /\ ~job.tmpl.deleting
        /\ pv = NoPV /\ pvCache = NoPV /\ pvQueue = <<>> /\ pending = FALSE
        /\ pc = "idle"
    BY <2>1 DEF Init, NoTemplate, NoJob
  <2>3. Answered
    BY <2>1, <2>2 DEF Answered, Undeleted
  <2>4. StoreFollows /\ HandsCurrent /\ NothingPending /\ UpdatePending
    BY <2>2 DEF StoreFollows, HandsCurrent, Propagates, NothingPending,
                UpdatePending
  <2>5. QED
    BY <2>3, <2>4, ProtInit DEF OwnInv
<1>2. OwnInv /\ [Next]_vars => OwnInv'
  BY OwnStep
<1>3. OwnInv => SeesOwnVersions
  <2> SUFFICES ASSUME OwnInv, pc = "compute", pv.live, pvCache.live
               PROVE  pvCache = pv
    BY DEF SeesOwnVersions
  <2>1. ~job.tmpl.deleting
    BY DEF OwnInv, ProtInv, HandsKnow
  <2>2. ~pending
    BY <2>1 DEF OwnInv, HandsCurrent, Propagates
  <2>3. "pv" \in synced
    BY DEF OwnInv, StoreFollows, NoPV
  <2>4. pv.live \in BOOLEAN /\ pvCache.live \in BOOLEAN
    BY DEF OwnInv, ProtInv, TypeOK, PropagatedVersion
  <2>5. pvCache.live = pv.live
    BY Zenon, <2>4
  <2>6. QED
    BY <2>2, <2>3, <2>5, QueueInHand
<1>4. QED
  BY <1>1, <1>2, <1>3, PTL DEF Spec
=============================================================================
