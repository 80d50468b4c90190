----------------------- MODULE ClusterLifecycleProofs -----------------------
(***************************************************************************)
(* Type correctness of ClusterLifecycle and its three invariants, JoinInv, *)
(* InformersOnMap and TransitionsSinceJoin, for every set of clusters,     *)
(* administrators and budgets.                                             *)
(***************************************************************************)
EXTENDS ClusterLifecycle, TLAPS

-----------------------------------------------------------------------------
(* Type correctness *)

\* The constant records are in their types.
LEMMA ConstantTypes ==
  /\ NoCluster \in Cluster /\ NoMember \in Member /\ NoStatus \in Status
  /\ NoCheck \in Checks /\ NoTarget \in Target /\ NoHandler \in Handlers
<1>1. NoCluster \in Cluster
  BY DEF NoCluster, Cluster
<1>2. (CHOOSE c \in Clusters : TRUE) \in Clusters
  BY ClustersAssumption
<1>3. NoMember \in Member /\ NoStatus \in Status /\ NoTarget \in Target
  BY DEF NoMember, Member, NoStatus, Status, NoTarget, Target
<1>4. NoHandler \in Handlers
  BY <1>1, <1>2 DEF NoHandler, Handlers
<1>5. [c \in Clusters |-> NoCluster] \in [Clusters -> Cluster]
  BY <1>1
<1>6. NoCheck \in Checks
  BY <1>2, <1>3, <1>5 DEF NoCheck, Checks
<1>7. QED
  BY <1>1, <1>3, <1>4, <1>6

\* Every event of the environment keeps the budget a budget.
LEMMA SpendType ==
  ASSUME ObjectsTypeOK, NEW event \in Events, Spend(event)
  PROVE  left' \in [Events -> Nat]
BY DEF Spend, ObjectsTypeOK

\* A step that spends for a mishap or nothing does so.
LEMMA MishapType ==
  ASSUME ObjectsTypeOK, Spend("mishap") \/ UNCHANGED left
  PROVE  left' \in [Events -> Nat]
BY SpendType DEF Events, ObjectsTypeOK

\* The API server sends events.
LEMMA PublishType ==
  ASSUME ObjectsTypeOK, NEW c \in Clusters, NEW o \in Cluster, Publish(c, o)
  PROVE  /\ cluster' \in [Clusters -> Cluster]
         /\ events' \in [Watchers -> [Clusters -> Seq(Event)]]
<1>1. cluster' \in [Clusters -> Cluster]
  BY DEF Publish, ObjectsTypeOK
<1>2. Seen(o) \in Event
  BY DEF Seen, Event
<1>3. ASSUME NEW w \in Watchers
      PROVE  [events[w] EXCEPT ![c] = Append(events[w][c], Seen(o))]
               \in [Clusters -> Seq(Event)]
  <2>1. events[w] \in [Clusters -> Seq(Event)]
    BY DEF ObjectsTypeOK
  <2>2. Append(events[w][c], Seen(o)) \in Seq(Event)
    BY <1>2, <2>1
  <2>3. QED
    BY <2>1, <2>2
<1>4. events' \in [Watchers -> [Clusters -> Seq(Event)]]
  BY <1>3 DEF Publish, ObjectsTypeOK
<1>5. QED
  BY <1>1, <1>4

\* A watcher takes an event and stores what it says.
LEMMA PopType ==
  ASSUME ObjectsTypeOK, NEW w \in Watchers, NEW c \in Clusters, Pop(w, c)
  PROVE  /\ events' \in [Watchers -> [Clusters -> Seq(Event)]]
         /\ store' \in [Watchers -> [Clusters -> Cluster]]
         /\ Head(events[w][c]) \in Event
         /\ store[w][c] \in Cluster
<1>1. events[w] \in [Clusters -> Seq(Event)] /\ store[w] \in [Clusters -> Cluster]
  BY DEF ObjectsTypeOK
<1>2. events[w][c] \in Seq(Event) /\ events[w][c] # <<>>
  BY <1>1 DEF Pop
<1>3. Head(events[w][c]) \in Event /\ Tail(events[w][c]) \in Seq(Event)
  BY <1>2
<1>4. Head(events[w][c]).object \in Cluster
  BY <1>3 DEF Event
<1>5. events' \in [Watchers -> [Clusters -> Seq(Event)]]
  BY <1>1, <1>3 DEF Pop, ObjectsTypeOK
<1>6. store' \in [Watchers -> [Clusters -> Cluster]]
  BY <1>1, <1>4, ConstantTypes DEF Pop, ObjectsTypeOK
<1>7. QED
  BY <1>1, <1>3, <1>5, <1>6

\* The initial states are well typed.
LEMMA InitType == Init => TypeOK
<1> SUFFICES ASSUME Init PROVE TypeOK
  OBVIOUS
<1>1. ObjectsTypeOK
  <2>1. /\ cluster \in [Clusters -> Cluster] /\ secrets \in [Clusters -> SUBSET Nat]
        /\ health \in [Clusters -> Healths] /\ registry \in SUBSET Clusters
    BY ConstantTypes DEF Init, ObjectsInit, Healths
  <2>2. /\ events \in [Watchers -> [Clusters -> Seq(Event)]]
        /\ store \in [Watchers -> [Clusters -> Cluster]]
    BY <2>1 DEF Init, ObjectsInit
  <2>3. /\ watching \in SUBSET Watchers
        /\ failed \in SUBSET (Watchers \X Clusters)
        /\ overlooked \in SUBSET (Watchers \X Clusters)
        /\ left \in [Events -> Nat]
    BY BudgetsAssumption DEF Init, ObjectsInit
  <2>4. QED
    BY <2>1, <2>2, <2>3 DEF ObjectsTypeOK
<1>2. JoinTypeOK
  <2>1. (CHOOSE c \in Clusters : TRUE) \in Clusters
    BY ClustersAssumption
  <2>2. join \in [Joiners -> Command]
    BY <2>1 DEF Init, JoinInit, Command, JoinSteps
  <2>3. QED
    BY <2>2, ConstantTypes DEF Init, JoinInit, JoinTypeOK
<1>3. MonitorTypeOK
  BY ConstantTypes DEF Init, MonitorInit, MonitorTypeOK
<1>4. InformerTypeOK
  BY ConstantTypes DEF Init, InformerInit, InformerTypeOK
<1>5. QED
  BY <1>1, <1>2, <1>3, <1>4 DEF TypeOK

\* The steps of kubefnord join.
LEMMA JoinerType ==
  ASSUME TypeOK, NEW j \in Joiners, JoinerStep(j)
  PROVE  TypeOK'
<1> USE DEF credentialVars, watchVars, historyVars
<1>a. /\ ObjectsTypeOK /\ JoinTypeOK /\ MonitorTypeOK /\ InformerTypeOK
      /\ join[j] \in Command /\ join[j].at \in Clusters
      /\ join[j].secret \in Nat
  BY DEF TypeOK, JoinTypeOK, Command
<1>b. \A s \in JoinSteps : Move(j, s) => join' \in [Joiners -> Command]
  BY <1>a DEF Move, JoinTypeOK, Command
<1>c. \A s \in JoinSteps : Proceed(j, s) =>
        join' \in [Joiners -> Command] /\ left' \in [Events -> Nat]
  BY <1>a, <1>b, MishapType DEF Proceed, JoinSteps
<1>d. Refused(j) => join' \in [Joiners -> Command] /\ left' \in [Events -> Nat]
  BY <1>a, <1>b, MishapType DEF Refused, JoinSteps
<1>e. JoinTypeOK' /\ ObjectsTypeOK' => TypeOK'
  BY <1>a DEF JoinerStep, TypeOK, MonitorTypeOK, InformerTypeOK, monitorVars,
              mapVars, informerVars
<1>1. CASE FailJoin(j) \/ Preflight(j) \/ FindToken(j)
  <2>1. join' \in [Joiners -> Command] /\ left' \in [Events -> Nat]
    BY <1>1, <1>a, <1>b, <1>d, MishapType
       DEF FailJoin, Preflight, FindToken, JoinSteps
  <2>2. UNCHANGED <<cluster, credentialVars, health, watchVars, historyVars>>
    BY <1>1 DEF FailJoin, Preflight, FindToken
  <2>3. QED
    BY <1>a, <1>e, <2>1, <2>2 DEF ObjectsTypeOK, JoinTypeOK
<1>2. CASE CheckRegistry(j)
  <2>1. join' \in [Joiners -> Command] /\ left' \in [Events -> Nat]
    BY <1>2, <1>a, <1>b, <1>c, <1>d, MishapType DEF CheckRegistry, JoinSteps
  <2>2. registry' \in SUBSET Clusters
    BY <1>2, <1>a DEF CheckRegistry, ObjectsTypeOK
  <2>3. QED
    BY <1>2, <1>a, <1>e, <2>1, <2>2 DEF CheckRegistry, ObjectsTypeOK, JoinTypeOK
<1>3. CASE \/ CreateNamespace(j) \/ CreateServiceAccount(j)
           \/ CreateClusterRole(j) \/ CreateClusterRoleBinding(j)
  <2>1. join' \in [Joiners -> Command] /\ left' \in [Events -> Nat]
    BY <1>3, <1>c, <1>d DEF CreateNamespace, CreateServiceAccount,
       CreateClusterRole, CreateClusterRoleBinding, JoinSteps
  <2>2. member' \in [Clusters -> Member]
    <3>1. member[join[j].at] \in Member
      BY <1>a DEF JoinTypeOK
    <3>2. /\ [member[join[j].at] EXCEPT !.namespace = TRUE] \in Member
          /\ [member[join[j].at] EXCEPT !.account = j] \in Member
          /\ [member[join[j].at] EXCEPT !.role = TRUE] \in Member
          /\ [member[join[j].at] EXCEPT !.binding = TRUE] \in Member
      BY <3>1 DEF Member
    <3>3. \/ UNCHANGED member
          \/ \E m \in Member : member' = [member EXCEPT ![join[j].at] = m]
      BY <1>3, <3>2 DEF CreateNamespace, CreateServiceAccount,
         CreateClusterRole, CreateClusterRoleBinding
    <3>4. QED
      BY <1>a, <3>3 DEF JoinTypeOK
  <2>3. UNCHANGED <<cluster, registry, secrets, health, watchVars, historyVars>>
    BY <1>3 DEF CreateNamespace, CreateServiceAccount, CreateClusterRole,
                CreateClusterRoleBinding
  <2>4. QED
    BY <1>a, <1>e, <2>1, <2>2, <2>3 DEF ObjectsTypeOK, JoinTypeOK
<1>4. CASE PopulateSecret(j)
  <2>1. join' \in [Joiners -> Command] /\ left' \in [Events -> Nat]
    BY <1>4, <1>c, <1>d DEF PopulateSecret, JoinSteps
  <2>2. secrets' \in [Clusters -> SUBSET Nat]
    <3>1. secrets[join[j].at] \cup {join[j].secret} \in SUBSET Nat
      BY <1>a DEF ObjectsTypeOK
    <3>2. \/ UNCHANGED secrets
          \/ secrets' = [secrets EXCEPT ![join[j].at] =
                           secrets[join[j].at] \cup {join[j].secret}]
      BY <1>4 DEF PopulateSecret
    <3>3. QED
      BY <1>a, <3>1, <3>2 DEF ObjectsTypeOK
  <2>3. QED
    BY <1>4, <1>a, <1>e, <2>1, <2>2 DEF PopulateSecret, ObjectsTypeOK, JoinTypeOK
<1>5. CASE CreateFederatedCluster(j)
  <2>1. join' \in [Joiners -> Command] /\ left' \in [Events -> Nat]
    BY <1>5, <1>c, <1>d DEF CreateFederatedCluster, JoinSteps
  <2>2. Joined(cluster[join[j].at], join[j].secret) \in Cluster
    BY <1>a DEF Joined, ObjectsTypeOK, Cluster
  <2>3. /\ cluster' \in [Clusters -> Cluster]
        /\ events' \in [Watchers -> [Clusters -> Seq(Event)]]
    BY <1>5, <1>a, <2>2, PublishType DEF CreateFederatedCluster, ObjectsTypeOK
  <2>4. QED
    BY <1>5, <1>a, <1>e, <2>1, <2>3
       DEF CreateFederatedCluster, ObjectsTypeOK, JoinTypeOK
<1>6. QED
  BY <1>1, <1>2, <1>3, <1>4, <1>5 DEF JoinerStep, JoinCluster

\* The steps of the cluster controller.
LEMMA MonitorType ==
  ASSUME TypeOK, MonitorStep
  PROVE  TypeOK'
<1> USE DEF credentialVars, watchVars, historyVars, monitorVars, mapVars,
            informerVars
<1>a. ObjectsTypeOK /\ JoinTypeOK /\ MonitorTypeOK /\ InformerTypeOK
  BY DEF TypeOK
<1>b. /\ check \in Checks /\ check.at \in Clusters /\ check.new \in Status
      /\ check.with \in Nat
      /\ \A c \in Clusters : client[c] \in Nat /\ status[c] \in Status
      /\ cluster[check.at] \in Cluster
  BY <1>a DEF MonitorTypeOK, Checks, ObjectsTypeOK
<1>c. UNCHANGED <<join, member>> /\ InformerTypeOK' /\ ObjectsTypeOK' /\ MonitorTypeOK'
        => TypeOK'
  BY <1>a DEF TypeOK, JoinTypeOK
<1>d. UNCHANGED <<join, informerVars>> /\ InformerTypeOK'
  BY <1>a DEF MonitorStep, InformerTypeOK
<1>1. ASSUME NEW c \in Clusters, MonitorEvent(c) PROVE TypeOK'
  <2> DEFINE e == Head(events["monitor"][c])
  <2>1. /\ events' \in [Watchers -> [Clusters -> Seq(Event)]]
        /\ store' \in [Watchers -> [Clusters -> Cluster]]
        /\ e \in Event /\ e.object \in Cluster /\ e.object.uid \in Nat
    <3>1. Pop("monitor", c) /\ "monitor" \in Watchers
      BY <1>1 DEF MonitorEvent, Watchers
    <3>2. QED
      BY <1>a, <3>1, PopType DEF Event, Cluster
  <2>2. failed' \in SUBSET (Watchers \X Clusters)
        /\ overlooked' \in SUBSET (Watchers \X Clusters)
    BY <1>1, <1>a DEF MonitorEvent, AddKnown, KeepKnown, ObjectsTypeOK, Watchers
  <2>3. left' \in [Events -> Nat]
    BY <1>1, <1>a, MishapType DEF MonitorEvent, AddKnown, KeepKnown
  <2>4. /\ known' \in SUBSET Clusters /\ client' \in [Clusters -> Nat]
        /\ status' \in [Clusters -> Status]
    <3>1. \/ UNCHANGED mapVars
          \/ /\ known' = known \cup {c} /\ UNCHANGED status
             /\ client' = client \/ client' = [client EXCEPT ![c] = e.object.uid]
          \/ Forgotten(c)
      BY <1>1 DEF MonitorEvent, AddKnown, KeepKnown
    <3>2. e.object.uid \in Nat /\ NoStatus \in Status
      BY <2>1, ConstantTypes
    <3>3. known' \in SUBSET Clusters
      BY <1>a, <3>1 DEF Forgotten, MonitorTypeOK
    <3>4. client' \in [Clusters -> Nat]
      <4> HIDE DEF e
      <4>1. QED
        BY <1>a, <3>1, <3>2 DEF Forgotten, MonitorTypeOK
    <3>5. status' \in [Clusters -> Status]
      BY <1>a, <3>1, <3>2 DEF Forgotten, MonitorTypeOK
    <3>6. QED
      BY <3>3, <3>4, <3>5
  <2>5. UNCHANGED <<cluster, credentialVars, health, watching, check, outlived>>
    BY <1>1 DEF MonitorEvent
  <2>6. QED
    BY <1>a, <1>c, <1>d, <2>1, <2>2, <2>3, <2>4, <2>5
       DEF ObjectsTypeOK, MonitorTypeOK
<1>2. CASE ListClusters \/ EndScan \/ Probe \/ \E c \in Clusters : NextCluster(c)
  <2>1. CASE ListClusters
    <3>1. {c \in Clusters : cluster[c].live} \in SUBSET Clusters
          /\ cluster \in [Clusters -> Cluster]
      BY <1>a DEF ObjectsTypeOK
    <3>2. check' \in Checks
      BY <2>1, <3>1, ConstantTypes DEF ListClusters, Checks
    <3>3. QED
      BY <2>1, <1>a, <1>c, <1>d, <3>2 DEF ListClusters, ObjectsTypeOK, MonitorTypeOK
  <2>2. CASE EndScan
    BY <2>2, <1>a, <1>c, <1>d, ConstantTypes
       DEF EndScan, ObjectsTypeOK, MonitorTypeOK
  <2>3. CASE Probe
    <3>1. Reached(check.at, check.with) \in Healths
      BY <1>a, <1>b DEF Reached, ObjectsTypeOK, Healths
    <3>2. check.old \in Status /\ cluster[check.at].uid \in Nat
      BY <1>b DEF Checks, Cluster
    <3>3. Probed(check.old, Reached(check.at, check.with),
                 cluster[check.at].uid) \in Status
      BY <3>1, <3>2 DEF Probed, Status
    <3>4. check' \in Checks
      BY <2>3, <1>b, <3>3 DEF Probe, Checks
    <3>5. QED
      BY <2>3, <1>a, <1>c, <1>d, <3>4 DEF Probe, ObjectsTypeOK, MonitorTypeOK
  <2>4. ASSUME NEW c \in Clusters, NextCluster(c) PROVE TypeOK'
    <3>1. [check EXCEPT !.step = "probe", !.at = c, !.with = client[c],
                        !.old = status[c]] \in Checks
      BY <1>b DEF Checks
    <3>2. [check EXCEPT !.todo = check.todo \ {c}] \in Checks
      BY <1>b DEF Checks
    <3>3. check' \in Checks
      BY <2>4, <3>1, <3>2 DEF NextCluster
    <3>4. QED
      BY <2>4, <1>a, <1>c, <1>d, <3>3 DEF NextCluster, ObjectsTypeOK, MonitorTypeOK
  <2>5. QED
    BY <1>2, <2>1, <2>2, <2>3, <2>4
<1>3. CASE SaveStatus
  <2>1. check' \in Checks
    BY <1>3, <1>b DEF SaveStatus, Checks
  <2>2. /\ status' \in [Clusters -> Status] /\ outlived' \in SUBSET Clusters
    BY <1>3, <1>a, <1>b DEF SaveStatus, MonitorTypeOK
  <2>3. QED
    BY <1>3, <1>a, <1>c, <1>d, <2>1, <2>2
       DEF SaveStatus, ObjectsTypeOK, MonitorTypeOK
<1>4. CASE WriteStatus
  <2>1. check' \in Checks
    BY <1>4, <1>b DEF WriteStatus, Checks
  <2>2. Checked(cluster[check.at], check.new) \in Cluster
    BY <1>b DEF Checked, Cluster, Status
  <2>3. /\ cluster' \in [Clusters -> Cluster]
        /\ events' \in [Watchers -> [Clusters -> Seq(Event)]]
    BY <1>4, <1>a, <1>b, <2>2, PublishType DEF WriteStatus, ObjectsTypeOK
  <2>4. left' \in [Events -> Nat]
    BY <1>4, <1>a, MishapType DEF WriteStatus
  <2>5. QED
    BY <1>4, <1>a, <1>c, <1>d, <2>1, <2>3, <2>4
       DEF WriteStatus, ObjectsTypeOK, MonitorTypeOK
<1>5. QED
  BY <1>1, <1>2, <1>3, <1>4 DEF MonitorStep, HealthCheck

\* The steps of the federated informer.
LEMMA InformerType ==
  ASSUME TypeOK, InformerStep
  PROVE  TypeOK'
<1> USE DEF credentialVars, watchVars, historyVars, monitorVars, mapVars,
            informerVars
<1>a. ObjectsTypeOK /\ JoinTypeOK /\ MonitorTypeOK /\ InformerTypeOK
  BY DEF TypeOK
<1>b. /\ handler \in Handlers /\ handler.at \in Clusters
      /\ handler.cur \in Cluster
  BY <1>a DEF InformerTypeOK, Handlers
<1>c. UNCHANGED <<join, monitorVars>> /\ MonitorTypeOK'
  BY <1>a DEF InformerStep, MonitorTypeOK
<1>d. UNCHANGED member /\ InformerTypeOK' /\ ObjectsTypeOK' => TypeOK'
  BY <1>a, <1>c DEF TypeOK, JoinTypeOK
<1>1. ASSUME NEW c \in Clusters, InformerEvent(c) PROVE TypeOK'
  <2> DEFINE e == Head(events["informer"][c])
  <2>1. /\ events' \in [Watchers -> [Clusters -> Seq(Event)]]
        /\ store' \in [Watchers -> [Clusters -> Cluster]]
        /\ e.object \in Cluster
    <3>1. Pop("informer", c) /\ "informer" \in Watchers
      BY <1>1 DEF InformerEvent, Watchers
    <3>2. QED
      BY <1>a, <3>1, PopType DEF Event
  <2>2. overlooked' \in SUBSET (Watchers \X Clusters)
    BY <1>1, <1>a DEF InformerEvent, ObjectsTypeOK, Watchers
  <2>3. handler' \in Handlers
    <3>1. \/ handler' = handler
          \/ Handle("add", c, e.object)
          \/ Handle("delete", c, e.object)
          \/ Handle("delete", c, NoCluster)
      BY <1>1 DEF InformerEvent
    <3>2. QED
      BY <1>b, <2>1, <3>1, ConstantTypes DEF Handle, Handlers
  <2>4. UNCHANGED <<cluster, credentialVars, health, watching, failed, target,
                    running, hasSynced, stopped, left>>
    BY <1>1 DEF InformerEvent
  <2>5. QED
    BY <1>a, <1>d, <2>1, <2>2, <2>3, <2>4 DEF ObjectsTypeOK, InformerTypeOK
<1>2. CASE DeleteCluster
  <2>1. handler' \in Handlers
    BY <1>2, <1>b, ConstantTypes DEF DeleteCluster, Handlers
  <2>2. target' \in [Clusters -> Target]
    BY <1>2, <1>a, ConstantTypes DEF DeleteCluster, Unregistered, InformerTypeOK
  <2>3. running' \in [Clusters -> SUBSET Informers]
    BY <1>2, <1>a, <1>b DEF DeleteCluster, Closed, InformerTypeOK
  <2>4. failed' \in SUBSET (Watchers \X Clusters)
    BY <1>2, <1>a DEF DeleteCluster, ObjectsTypeOK
  <2>5. QED
    BY <1>2, <1>a, <1>d, <2>1, <2>2, <2>3, <2>4
       DEF DeleteCluster, ObjectsTypeOK, InformerTypeOK
<1>3. CASE AddCluster
  <2> DEFINE c == handler.at
             n == NewInformer(c)
             t == [id |-> n, uid |-> handler.cur.uid, rev |-> handler.cur.rev]
  <2>1. \/ /\ running[c] # Informers
           /\ target' = [target EXCEPT ![c] = t]
           /\ running' = [running EXCEPT ![c] = running[c] \cup {n}]
           /\ hasSynced' = [hasSynced EXCEPT ![c] = hasSynced[c] \ {n}]
        \/ UNCHANGED <<target, running, hasSynced>>
    BY <1>3 DEF AddCluster
  <2>2. running[c] \in SUBSET Informers /\ hasSynced[c] \in SUBSET Informers
    BY <1>a, <1>b DEF InformerTypeOK
  <2>3. running[c] # Informers => n \in Informers
    BY <2>2 DEF NewInformer
  <2>4. n \in Informers => t \in Target
    BY <1>b DEF Target, Cluster
  <2>5. target' \in [Clusters -> Target]
    <3> HIDE DEF t, n, c
    <3>1. QED
      BY <1>a, <2>1, <2>3, <2>4 DEF InformerTypeOK
  <2>6. /\ running' \in [Clusters -> SUBSET Informers]
        /\ hasSynced' \in [Clusters -> SUBSET Informers]
    <3> HIDE DEF t, n, c
    <3>1. QED
      BY <1>a, <2>1, <2>2, <2>3 DEF InformerTypeOK
  <2>7. failed' \in SUBSET (Watchers \X Clusters)
    BY <1>3, <1>a, <1>b DEF AddCluster, ObjectsTypeOK, Watchers
  <2>8. left' \in [Events -> Nat]
    BY <1>3, <1>a, MishapType DEF AddCluster
  <2>9. UNCHANGED <<cluster, credentialVars, health, watchVars, overlooked,
                    stopped>> /\ handler' = NoHandler
    BY <1>3 DEF AddCluster
  <2>10. QED
    BY <1>a, <1>d, <2>5, <2>6, <2>7, <2>8, <2>9, ConstantTypes
       DEF ObjectsTypeOK, InformerTypeOK
<1>4. ASSUME NEW c \in Clusters, SyncTarget(c) PROVE TypeOK'
  <2>1. target[c] \in Target /\ hasSynced[c] \in SUBSET Informers
    BY <1>a DEF InformerTypeOK
  <2>2. hasSynced[c] \cup {target[c].id} \in SUBSET Informers
    BY <1>4, <2>1 DEF SyncTarget, Target
  <2>3. hasSynced' \in [Clusters -> SUBSET Informers]
    BY <1>4, <1>a, <2>2 DEF SyncTarget, InformerTypeOK
  <2>4. QED
    BY <1>4, <1>a, <1>d, <2>3 DEF SyncTarget, ObjectsTypeOK, InformerTypeOK
<1>5. QED
  BY <1>1, <1>2, <1>3, <1>4 DEF InformerStep, Handlings

\* Users, members, broken watches and Stop.
LEMMA EnvironmentType ==
  ASSUME TypeOK, Environment
  PROVE  TypeOK'
<1> USE DEF credentialVars, watchVars, historyVars, monitorVars, mapVars,
            informerVars
<1>a. ObjectsTypeOK /\ JoinTypeOK /\ MonitorTypeOK /\ InformerTypeOK
  BY DEF TypeOK
<1>b. \A event \in Events : Spend(event) => left' \in [Events -> Nat]
  BY <1>a, SpendType
<1>c. UNCHANGED monitorVars => MonitorTypeOK'
  BY <1>a DEF MonitorTypeOK
<1>d. UNCHANGED informerVars => InformerTypeOK'
  BY <1>a DEF InformerTypeOK
<1>e. UNCHANGED <<join, member>> => JoinTypeOK'
  BY <1>a DEF JoinTypeOK
<1>1. ASSUME NEW c \in Clusters, EditCluster(c),
             UNCHANGED <<join, monitorVars, informerVars>>
      PROVE  TypeOK'
  <2>1. [cluster[c] EXCEPT !.rev = @ + 1] \in Cluster
    <3>1. cluster[c] \in Cluster
      BY <1>a DEF ObjectsTypeOK
    <3>2. QED
      BY <3>1 DEF Cluster
  <2>2. /\ cluster' \in [Clusters -> Cluster]
        /\ events' \in [Watchers -> [Clusters -> Seq(Event)]]
    BY <1>1, <1>a, <2>1, PublishType DEF EditCluster
  <2>3. left' \in [Events -> Nat]
    BY <1>1, <1>b DEF EditCluster, Events
  <2>4. ObjectsTypeOK'
    BY <1>1, <1>a, <2>2, <2>3 DEF EditCluster, ObjectsTypeOK
  <2>5. QED
    BY <1>1, <1>c, <1>d, <1>e, <2>4 DEF EditCluster, TypeOK
<1>2. ASSUME NEW c \in Clusters, ChangeHealth(c),
             UNCHANGED <<join, monitorVars, informerVars>>
      PROVE  TypeOK'
  <2>1. left' \in [Events -> Nat]
    BY <1>2, <1>b DEF ChangeHealth, Events
  <2>2. health' \in [Clusters -> Healths]
    BY <1>2, <1>a DEF ChangeHealth, ObjectsTypeOK
  <2>3. ObjectsTypeOK'
    BY <1>2, <1>a, <2>1, <2>2 DEF ChangeHealth, ObjectsTypeOK
  <2>4. QED
    BY <1>2, <1>c, <1>d, <1>e, <2>3 DEF ChangeHealth, TypeOK
<1>3. ASSUME NEW c \in Clusters, Unjoin(c), UNCHANGED <<monitorVars, informerVars>>
      PROVE  TypeOK'
  <2>1. left' \in [Events -> Nat]
    BY <1>3, <1>b DEF Unjoin, Events
  <2>2. Removed(cluster[c]) \in Cluster
    <3>1. cluster[c] \in Cluster
      BY <1>a DEF ObjectsTypeOK
    <3>2. QED
      BY <3>1 DEF Removed, Cluster
  <2>3. /\ cluster' \in [Clusters -> Cluster]
        /\ events' \in [Watchers -> [Clusters -> Seq(Event)]]
    BY <1>3, <1>a, <2>2, PublishType DEF Unjoin, ObjectsTypeOK
  <2>4. /\ registry' \in SUBSET Clusters /\ secrets' \in [Clusters -> SUBSET Nat]
    BY <1>3, <1>a DEF Unjoin, ObjectsTypeOK
  <2>5. ObjectsTypeOK'
    BY <1>3, <1>a, <2>1, <2>3, <2>4 DEF Unjoin, ObjectsTypeOK
  <2>6. JoinTypeOK'
    BY <1>3, <1>a, ConstantTypes DEF Unjoin, JoinTypeOK
  <2>7. QED
    BY <1>3, <1>c, <1>d, <2>5, <2>6 DEF TypeOK
<1>4. ASSUME NEW j \in Joiners, NEW c \in Clusters, StartJoin(j, c),
             UNCHANGED <<monitorVars, informerVars>>
      PROVE  TypeOK'
  <2>1. left' \in [Events -> Nat] /\ left["join"] \in Nat
    BY <1>4, <1>a, <1>b DEF StartJoin, Events, ObjectsTypeOK
  <2>2. PICK adds \in BOOLEAN, named \in BOOLEAN :
          join' = [join EXCEPT ![j] =
                     [step |-> "preflight", at |-> c, adds |-> adds,
                      secret |-> IF named THEN 0 ELSE left["join"]]]
    BY <1>4 DEF StartJoin
  <2>3. [step |-> "preflight", at |-> c, adds |-> adds,
         secret |-> IF named THEN 0 ELSE left["join"]] \in Command
    BY <2>1 DEF Command, JoinSteps
  <2>4. JoinTypeOK'
    BY <1>4, <1>a, <2>2, <2>3 DEF StartJoin, JoinTypeOK
  <2>5. ObjectsTypeOK'
    BY <1>4, <1>a, <2>1 DEF StartJoin, ObjectsTypeOK
  <2>6. QED
    BY <1>4, <1>c, <1>d, <2>4, <2>5 DEF TypeOK
<1>5. ASSUME NEW w \in Watchers, Relist(w),
             UNCHANGED <<join, monitorVars, informerVars>>
      PROVE  TypeOK'
  <2>1. left' \in [Events -> Nat]
    BY <1>5, <1>b DEF Relist, Events
  <2>2. \A c \in Clusters : [object |-> cluster[c], relisted |-> TRUE] \in Event
    BY <1>a DEF Event, ObjectsTypeOK
  <2>3. Differences(w) \in [Clusters -> Seq(Event)]
    BY <2>2 DEF Differences
  <2>4. events' \in [Watchers -> [Clusters -> Seq(Event)]]
    BY <1>5, <1>a, <2>3 DEF Relist, ObjectsTypeOK
  <2>5. ObjectsTypeOK'
    BY <1>5, <1>a, <2>1, <2>4 DEF Relist, ObjectsTypeOK
  <2>6. QED
    BY <1>5, <1>c, <1>d, <1>e, <2>5 DEF Relist, TypeOK
<1>6. CASE Stop /\ UNCHANGED <<join, monitorVars>>
  <2>1. left' \in [Events -> Nat]
    BY <1>6, <1>b DEF Stop, Events
  <2>2. ObjectsTypeOK'
    BY <1>6, <1>a, <2>1 DEF Stop, ObjectsTypeOK
  <2>3. InformerTypeOK'
    BY <1>6, <1>a, ConstantTypes DEF Stop, InformerTypeOK
  <2>4. QED
    BY <1>6, <1>c, <1>e, <2>2, <2>3 DEF Stop, TypeOK
<1>7. QED
  BY <1>1, <1>2, <1>3, <1>4, <1>5, <1>6 DEF Environment

\* The controller manager starts again.
LEMMA RestartType ==
  ASSUME TypeOK, Restart
  PROVE  TypeOK'
<1> USE DEF credentialVars
<1>a. ObjectsTypeOK /\ JoinTypeOK /\ MonitorTypeOK /\ InformerTypeOK
  BY DEF TypeOK
<1>1. left' \in [Events -> Nat]
  BY <1>a, MishapType DEF Restart
<1>2. \A c \in Clusters : [object |-> cluster[c], relisted |-> TRUE] \in Event
  BY <1>a DEF Event, ObjectsTypeOK
<1>3. events' \in [Watchers -> [Clusters -> Seq(Event)]]
  BY <1>2 DEF Restart
<1>4. ObjectsTypeOK'
  BY <1>a, <1>1, <1>3, ConstantTypes DEF Restart, ObjectsTypeOK
<1>5. JoinTypeOK'
  BY <1>a DEF Restart, JoinTypeOK
<1>6. MonitorTypeOK'
  BY <1>a, ConstantTypes DEF Restart, MonitorTypeOK
<1>7. InformerTypeOK'
  BY ConstantTypes DEF Restart, InformerTypeOK
<1>8. QED
  BY <1>4, <1>5, <1>6, <1>7 DEF TypeOK

LEMMA StepType == TypeOK /\ [Next]_vars => TypeOK'
<1> SUFFICES ASSUME TypeOK, [Next]_vars PROVE TypeOK'
  OBVIOUS
<1>1. CASE Next
  BY <1>1, JoinerType, MonitorType, InformerType, EnvironmentType, RestartType
     DEF Next
<1>2. CASE UNCHANGED vars
  BY <1>2 DEF vars, credentialVars, watchVars, historyVars, monitorVars,
     mapVars, informerVars, TypeOK, ObjectsTypeOK, JoinTypeOK, MonitorTypeOK,
     InformerTypeOK
<1>3. QED
  BY <1>1, <1>2

\* TypeOK is an invariant: the objects of the API, the informers' stores, the
\* controller's maps and the join commands keep their types.
THEOREM LifecycleTypeCorrect == Spec => []TypeOK
<1>1. Init => TypeOK
  BY InitType
<1>2. TypeOK /\ [Next]_vars => TypeOK'
  BY StepType
<1>3. QED
  BY <1>1, <1>2, PTL DEF Spec

-----------------------------------------------------------------------------
(* JoinInv *)

\* JoinInv for one administrator, with what CreateServiceAccount relies on.
Backed(j) ==
  LET c == join[j].at
      s == join[j].step
  IN
  /\ s \in Established => /\ member[c].account = j
                          /\ ~cluster[c].live
  /\ s \in Established \cup {"namespace", "account"} => c \in registry
  /\ s \in Established \cup {"account"} => member[c].namespace
  /\ s \in {"binding", "token", "secret", "cluster"} => member[c].role
  /\ s \in {"token", "secret", "cluster"} => member[c].binding
  /\ s = "cluster" => join[j].secret \in secrets[c]

\* JoinInv for one cluster.
Founded(c) ==
  cluster[c].live =>
    /\ CanConnect(c, cluster[c])
    /\ member[c].namespace /\ member[c].account # "none"
    /\ member[c].role /\ member[c].binding

JoinIInv == /\ TypeOK
            /\ \A j \in Joiners : Backed(j)
            /\ \A c \in Clusters : Founded(c)

\* Who does not touch the credentials, the joins and the names of secrets
\* disturbs nothing.
LEMMA JoinElsewhere ==
  ASSUME JoinIInv, TypeOK', UNCHANGED <<join, member, registry, secrets>>,
         \A c \in Clusters : /\ cluster'[c].live = cluster[c].live
                             /\ cluster'[c].secret = cluster[c].secret
  PROVE  JoinIInv'
<1>1. \A j \in Joiners : join[j].at \in Clusters
  BY DEF JoinIInv, TypeOK, JoinTypeOK, Command
<1>2. ASSUME NEW j \in Joiners PROVE Backed(j)'
  BY <1>1 DEF JoinIInv, Backed
<1>3. ASSUME NEW c \in Clusters PROVE Founded(c)'
  BY DEF JoinIInv, Founded, CanConnect
<1>4. QED
  BY <1>2, <1>3 DEF JoinIInv

\* Administrator j may go on as long as nobody loses anything in the host or in
\* the member, and j finds what the next step relies on.
LEMMA JoinGrows ==
  ASSUME JoinIInv, TypeOK', NEW j \in Joiners,
         \A k \in Joiners \ {j} : join'[k] = join[k],
         cluster' = cluster,
         registry \subseteq registry',
         \A c \in Clusters :
           /\ secrets[c] \subseteq secrets'[c]
           /\ member[c].namespace => member'[c].namespace
           /\ member[c].role => member'[c].role
           /\ member[c].binding => member'[c].binding
           /\ member[c].account # "none" => member'[c].account = member[c].account,
         Backed(j)'
  PROVE  JoinIInv'
<1>1. \A k \in Joiners : join[k].at \in Clusters /\ k # "none"
  BY JoinersAssumption DEF JoinIInv, TypeOK, JoinTypeOK, Command
<1>2. ASSUME NEW k \in Joiners \ {j} PROVE Backed(k)'
  <2>1. join'[k] = join[k] /\ Backed(k)
    BY DEF JoinIInv
  <2>2. QED
    BY <1>1, <2>1 DEF Backed
<1>3. ASSUME NEW c \in Clusters PROVE Founded(c)'
  BY DEF JoinIInv, Founded, CanConnect
<1>4. QED
  BY <1>2, <1>3 DEF JoinIInv

\* The steps of the command.
LEMMA JoinJoiner ==
  ASSUME JoinIInv, NEW j \in Joiners, JoinerStep(j)
  PROVE  JoinIInv'
<1> USE DEF credentialVars, watchVars, historyVars
<1> DEFINE c == join[j].at
<1>a. TypeOK /\ TypeOK'
  BY JoinerType DEF JoinIInv
<1>b. /\ join \in [Joiners -> Command] /\ join[j] \in Command /\ c \in Clusters
      /\ member \in [Clusters -> Member] /\ member[c] \in Member
      /\ secrets \in [Clusters -> SUBSET Nat]
      /\ cluster \in [Clusters -> Cluster]
  BY <1>a DEF TypeOK, JoinTypeOK, ObjectsTypeOK, Command
<1>c. Backed(j)
  BY DEF JoinIInv
<1>d. \A s \in JoinSteps : Move(j, s) =>
        /\ join'[j].step = s /\ join'[j].at = c
        /\ join'[j].secret = join[j].secret
        /\ \A k \in Joiners \ {j} : join'[k] = join[k]
  BY <1>b DEF Move, Command
<1>e. \A s \in JoinSteps : Proceed(j, s) => Move(j, s) \/ Move(j, "failed")
  BY DEF Proceed
<1>f. Refused(j) => Move(j, "failed")
  BY DEF Refused
<1>g. ASSUME Move(j, "failed") \/ Move(j, "done")
      PROVE  Backed(j)' /\ \A k \in Joiners \ {j} : join'[k] = join[k]
  <2>1. join'[j].step \in {"failed", "done"}
        /\ \A k \in Joiners \ {j} : join'[k] = join[k]
    BY <1>d, <1>g DEF JoinSteps
  <2>2. QED
    BY <2>1 DEF Backed, Established
<1>1. CASE FailJoin(j) \/ Preflight(j) \/ FindToken(j)
  <2>1. UNCHANGED <<cluster, registry, secrets, member>>
    BY <1>1 DEF FailJoin, Preflight, FindToken
  <2>2. \/ Move(j, "failed")
        \/ Move(j, "registry")
        \/ Move(j, "secret") /\ join[j].step = "token"
    BY <1>1, <1>f DEF FailJoin, Preflight, FindToken
  <2>3. CASE Move(j, "failed")
    BY <1>a, <1>g, <2>1, <2>3, JoinGrows
  <2>4. CASE Move(j, "registry")
    <3>1. Backed(j)'
      BY <1>d, <2>4 DEF Backed, JoinSteps, Established
    <3>2. QED
      BY <1>a, <1>d, <2>1, <2>4, <3>1, JoinGrows DEF JoinSteps
  <2>5. CASE Move(j, "secret") /\ join[j].step = "token"
    <3>1. Backed(j)'
      BY <1>c, <1>d, <2>1, <2>5 DEF Backed, JoinSteps, Established
    <3>2. QED
      BY <1>a, <1>d, <2>1, <2>5, <3>1, JoinGrows DEF JoinSteps
  <2>6. QED
    BY <2>2, <2>3, <2>4, <2>5
<1>2. CASE CheckRegistry(j)
  <2>1. UNCHANGED <<cluster, secrets, member>> /\ registry \subseteq registry'
    BY <1>2 DEF CheckRegistry
  <2>2. \/ Move(j, "failed")
        \/ Move(j, "namespace") /\ c \in registry'
    BY <1>2, <1>e, <1>f DEF CheckRegistry, JoinSteps
  <2>3. CASE Move(j, "failed")
    BY <1>a, <1>g, <2>1, <2>3, JoinGrows
  <2>4. CASE Move(j, "namespace") /\ c \in registry'
    <3>1. Backed(j)'
      BY <1>d, <2>4 DEF Backed, JoinSteps, Established
    <3>2. QED
      BY <1>a, <1>d, <2>1, <2>4, <3>1, JoinGrows DEF JoinSteps
  <2>5. QED
    BY <2>2, <2>3, <2>4
<1>3. CASE CreateNamespace(j)
  <2>1. UNCHANGED <<cluster, registry, secrets>> /\ join[j].step = "namespace"
        /\ member' = [member EXCEPT ![c] = [member[c] EXCEPT !.namespace = TRUE]]
    BY <1>3 DEF CreateNamespace
  <2>2. \A d \in Clusters :
          /\ member'[d].namespace = (member[d].namespace \/ d = c)
          /\ member'[d].role = member[d].role
          /\ member'[d].binding = member[d].binding
          /\ member'[d].account = member[d].account
    BY <1>b, <2>1 DEF Member
  <2>3. Move(j, "account") \/ Move(j, "failed")
    BY <1>3, <1>e DEF CreateNamespace, JoinSteps
  <2>4. Backed(j)' /\ \A k \in Joiners \ {j} : join'[k] = join[k]
    BY <1>b, <1>c, <1>d, <1>g, <2>1, <2>2, <2>3 DEF Backed, JoinSteps, Established
  <2>5. QED
    BY <1>a, <2>1, <2>2, <2>4, JoinGrows
<1>4. CASE CreateServiceAccount(j)
  <2>1. UNCHANGED <<cluster, registry, secrets>> /\ join[j].step = "account"
    BY <1>4 DEF CreateServiceAccount
  <2>2. CASE AccountFree(j)
    <3>1. /\ member' = [member EXCEPT ![c] = [member[c] EXCEPT !.account = j]]
          /\ member[c].account = "none"
      BY <1>4, <2>2 DEF CreateServiceAccount, AccountFree
    <3>2. /\ \A d \in Clusters :
               /\ member'[d].namespace = member[d].namespace
               /\ member'[d].role = member[d].role
               /\ member'[d].binding = member[d].binding
               /\ d # c => member'[d].account = member[d].account
          /\ member'[c].account = j
      BY <1>b, <3>1 DEF Member
    <3>3. Move(j, "role") \/ Move(j, "failed")
      BY <1>4, <1>e, <2>2 DEF CreateServiceAccount, JoinSteps
    <3>4. ~cluster[c].live
      BY <1>b, <3>1 DEF JoinIInv, Founded
    <3>5. Backed(j)' /\ \A k \in Joiners \ {j} : join'[k] = join[k]
      BY <1>b, <1>c, <1>d, <1>g, <2>1, <3>2, <3>3, <3>4
         DEF Backed, JoinSteps, Established
    <3>6. QED
      BY <1>a, <1>b, <2>1, <3>1, <3>2, <3>5, JoinGrows
  <2>3. CASE ~AccountFree(j)
    <3>1. UNCHANGED member /\ Move(j, "failed")
      BY <1>4, <1>f, <2>3 DEF CreateServiceAccount
    <3>2. QED
      BY <1>a, <1>g, <2>1, <3>1, JoinGrows
  <2>4. QED
    BY <2>2, <2>3
<1>5. CASE CreateClusterRole(j)
  <2>1. UNCHANGED <<cluster, registry, secrets>> /\ join[j].step = "role"
    BY <1>5 DEF CreateClusterRole
  <2>2. CASE ~member[c].role
    <3>1. member' = [member EXCEPT ![c] = [member[c] EXCEPT !.role = TRUE]]
      BY <1>5, <2>2 DEF CreateClusterRole
    <3>2. \A d \in Clusters :
            /\ member'[d].namespace = member[d].namespace
            /\ member'[d].role = (member[d].role \/ d = c)
            /\ member'[d].binding = member[d].binding
            /\ member'[d].account = member[d].account
      BY <1>b, <3>1 DEF Member
    <3>3. Move(j, "binding") \/ Move(j, "failed")
      BY <1>5, <1>e, <2>2 DEF CreateClusterRole, JoinSteps
    <3>4. Backed(j)' /\ \A k \in Joiners \ {j} : join'[k] = join[k]
      <4>1. CASE Move(j, "failed")
        BY <1>g, <4>1
      <4>2. CASE Move(j, "binding")
        <5>1. /\ join'[j].step = "binding" /\ join'[j].at = c
              /\ \A k \in Joiners \ {j} : join'[k] = join[k]
          BY <1>d, <4>2 DEF JoinSteps
        <5>2. member[c].account = j /\ ~cluster[c].live /\ c \in registry
              /\ member[c].namespace
          BY <1>c, <2>1 DEF Backed, Established
        <5>3. /\ member'[c].account = j /\ member'[c].namespace
              /\ member'[c].role
          BY <1>b, <3>2, <5>2
        <5>4. Backed(j)'
          BY <2>1, <5>1, <5>2, <5>3 DEF Backed
        <5>5. QED
          BY <5>1, <5>4
      <4>3. QED
        BY <3>3, <4>1, <4>2
    <3>5. QED
      BY <1>a, <2>1, <3>2, <3>4, JoinGrows
  <2>3. CASE member[c].role
    <3>1. UNCHANGED member /\ Move(j, "failed")
      BY <1>5, <1>f, <2>3 DEF CreateClusterRole
    <3>2. QED
      BY <1>a, <1>g, <2>1, <3>1, JoinGrows
  <2>4. QED
    BY <2>2, <2>3
<1>6. CASE CreateClusterRoleBinding(j)
  <2>1. UNCHANGED <<cluster, registry, secrets>> /\ join[j].step = "binding"
    BY <1>6 DEF CreateClusterRoleBinding
  <2>2. CASE ~member[c].binding
    <3>1. member' = [member EXCEPT ![c] = [member[c] EXCEPT !.binding = TRUE]]
      BY <1>6, <2>2 DEF CreateClusterRoleBinding
    <3>2. \A d \in Clusters :
            /\ member'[d].namespace = member[d].namespace
            /\ member'[d].role = member[d].role
            /\ member'[d].binding = (member[d].binding \/ d = c)
            /\ member'[d].account = member[d].account
      BY <1>b, <3>1 DEF Member
    <3>3. Move(j, "token") \/ Move(j, "failed")
      BY <1>6, <1>e, <2>2 DEF CreateClusterRoleBinding, JoinSteps
    <3>4. Backed(j)' /\ \A k \in Joiners \ {j} : join'[k] = join[k]
      BY <1>b, <1>c, <1>d, <1>g, <2>1, <3>2, <3>3
         DEF Backed, JoinSteps, Established
    <3>5. QED
      BY <1>a, <2>1, <3>2, <3>4, JoinGrows
  <2>3. CASE member[c].binding
    <3>1. UNCHANGED member /\ Move(j, "failed")
      BY <1>6, <1>f, <2>3 DEF CreateClusterRoleBinding
    <3>2. QED
      BY <1>a, <1>g, <2>1, <3>1, JoinGrows
  <2>4. QED
    BY <2>2, <2>3
<1>7. CASE PopulateSecret(j)
  <2>1. UNCHANGED <<cluster, registry, member>> /\ join[j].step = "secret"
    BY <1>7 DEF PopulateSecret
  <2>2. CASE join[j].secret \notin secrets[c]
    <3>1. secrets' = [secrets EXCEPT ![c] = secrets[c] \cup {join[j].secret}]
      BY <1>7, <2>2 DEF PopulateSecret
    <3>2. /\ \A d \in Clusters : secrets[d] \subseteq secrets'[d]
          /\ join[j].secret \in secrets'[c]
      BY <1>b, <3>1
    <3>3. Move(j, "cluster") \/ Move(j, "failed")
      BY <1>7, <1>e, <2>2 DEF PopulateSecret, JoinSteps
    <3>4. Backed(j)' /\ \A k \in Joiners \ {j} : join'[k] = join[k]
      BY <1>b, <1>c, <1>d, <1>g, <2>1, <3>2, <3>3
         DEF Backed, JoinSteps, Established
    <3>5. QED
      BY <1>a, <2>1, <3>2, <3>4, JoinGrows
  <2>3. CASE join[j].secret \in secrets[c]
    <3>1. UNCHANGED secrets /\ Move(j, "failed")
      BY <1>7, <1>f, <2>3 DEF PopulateSecret
    <3>2. QED
      BY <1>a, <1>g, <2>1, <3>1, JoinGrows
  <2>4. QED
    BY <2>2, <2>3
<1>8. CASE CreateFederatedCluster(j)
  <2>1. UNCHANGED <<registry, secrets, member>> /\ join[j].step = "cluster"
    BY <1>8 DEF CreateFederatedCluster
  <2>2. CASE cluster[c].live
    <3>1. UNCHANGED cluster /\ Move(j, "failed")
      BY <1>8, <1>f, <2>2 DEF CreateFederatedCluster
    <3>2. QED
      BY <1>a, <1>g, <2>1, <3>1, JoinGrows
  <2>3. CASE ~cluster[c].live
    <3>1. /\ cluster' = [cluster EXCEPT ![c] = Joined(cluster[c], join[j].secret)]
          /\ Move(j, "done") \/ Move(j, "failed")
      BY <1>8, <1>e, <2>3 DEF CreateFederatedCluster, Publish, JoinSteps
    <3>2. /\ \A d \in Clusters \ {c} : cluster'[d] = cluster[d]
          /\ cluster'[c].secret = join[j].secret
      BY <1>b, <3>1 DEF Joined
    <3>3. ASSUME NEW k \in Joiners \ {j} PROVE Backed(k)'
      <4>1. join'[k] = join[k] /\ Backed(k) /\ join[k].at \in Clusters
        BY <1>b, <1>g, <3>1 DEF JoinIInv, Command
      <4>2. join[k].step \in Established => join[k].at # c
        BY <1>c, <2>1, <4>1 DEF Backed, Established
      <4>3. QED
        BY <2>1, <3>2, <4>1, <4>2 DEF Backed
    <3>4. ASSUME NEW d \in Clusters PROVE Founded(d)'
      <4>1. CASE d # c
        BY <2>1, <3>2, <4>1 DEF JoinIInv, Founded, CanConnect
      <4>2. CASE d = c
        <5>1. j # "none"
          BY JoinersAssumption
        <5>2. QED
          BY <1>c, <2>1, <3>2, <4>2, <5>1
             DEF Founded, CanConnect, Backed, Established
      <4>3. QED
        BY <4>1, <4>2
    <3>5. Backed(j)'
      BY <1>g, <3>1
    <3>6. QED
      BY <1>a, <3>3, <3>4, <3>5 DEF JoinIInv
  <2>4. QED
    BY <2>2, <2>3
<1>9. QED
  BY <1>1, <1>2, <1>3, <1>4, <1>5, <1>6, <1>7, <1>8 DEF JoinerStep, JoinCluster

\* Users start joins and make clusters leave.
LEMMA JoinEnvironment ==
  ASSUME JoinIInv, Environment
  PROVE  JoinIInv'
<1> USE DEF credentialVars
<1>a. TypeOK /\ TypeOK'
  BY EnvironmentType DEF JoinIInv
<1>b. /\ join \in [Joiners -> Command] /\ cluster \in [Clusters -> Cluster]
      /\ member \in [Clusters -> Member] /\ secrets \in [Clusters -> SUBSET Nat]
      /\ \A k \in Joiners : join[k].at \in Clusters
  BY <1>a DEF TypeOK, JoinTypeOK, ObjectsTypeOK, Command
<1>1. ASSUME NEW c \in Clusters, EditCluster(c), UNCHANGED join PROVE JoinIInv'
  <2>1. /\ UNCHANGED credentialVars
        /\ cluster' = [cluster EXCEPT ![c] =
                         [cluster[c] EXCEPT !.rev = cluster[c].rev + 1]]
    BY <1>1 DEF EditCluster, Publish
  <2>2. \A d \in Clusters : /\ cluster'[d].live = cluster[d].live
                            /\ cluster'[d].secret = cluster[d].secret
    BY <1>b, <2>1 DEF Cluster
  <2>3. QED
    BY <1>1, <1>a, <2>1, <2>2, JoinElsewhere
<1>2. CASE /\ UNCHANGED join
           /\ \/ \E c \in Clusters : ChangeHealth(c)
              \/ \E w \in Watchers : Relist(w)
              \/ Stop
  <2>1. UNCHANGED <<cluster, credentialVars>>
    BY <1>2 DEF ChangeHealth, Relist, Stop
  <2>2. QED
    BY <1>2, <1>a, <2>1, JoinElsewhere
<1>3. ASSUME NEW c \in Clusters, Unjoin(c) PROVE JoinIInv'
  <2>1. /\ UNCHANGED join
        /\ \A j \in Joiners : Running(j) => join[j].at # c
        /\ registry' = registry \ {c}
        /\ secrets' = [secrets EXCEPT ![c] = {}]
        /\ member' = [member EXCEPT ![c] = NoMember]
    BY <1>3 DEF Unjoin
  <2>2. \/ cluster' = [cluster EXCEPT ![c] = Removed(cluster[c])]
        \/ cluster' = cluster /\ ~cluster[c].live
    BY <1>3 DEF Unjoin, Publish
  <2>3. /\ ~cluster'[c].live
        /\ \A d \in Clusters \ {c} : /\ cluster'[d] = cluster[d]
                                     /\ member'[d] = member[d]
                                     /\ secrets'[d] = secrets[d]
    <3>1. cluster[c] \in Cluster
      BY <1>b
    <3>2. ~Removed(cluster[c]).live
      BY <3>1 DEF Removed, Cluster
    <3>3. QED
      BY <1>b, <2>1, <2>2, <3>2
  <2>4. ASSUME NEW j \in Joiners PROVE Backed(j)'
    <3>1. Backed(j)
      BY DEF JoinIInv
    <3>2. CASE Running(j)
      BY <1>b, <2>1, <2>3, <3>1, <3>2 DEF Backed
    <3>3. CASE ~Running(j)
      BY <2>1, <3>3 DEF Backed, Running, Established
    <3>4. QED
      BY <3>2, <3>3
  <2>5. ASSUME NEW d \in Clusters PROVE Founded(d)'
    BY <2>1, <2>3 DEF JoinIInv, Founded, CanConnect
  <2>6. QED
    BY <1>a, <2>4, <2>5 DEF JoinIInv
<1>4. ASSUME NEW j \in Joiners, NEW c \in Clusters, StartJoin(j, c)
      PROVE  JoinIInv'
  <2>1. UNCHANGED <<cluster, credentialVars>>
    BY <1>4 DEF StartJoin
  <2>2. PICK adds \in BOOLEAN, named \in BOOLEAN :
          join' = [join EXCEPT ![j] =
                     [step |-> "preflight", at |-> c, adds |-> adds,
                      secret |-> IF named THEN 0 ELSE left["join"]]]
    BY <1>4 DEF StartJoin
  <2>3. Backed(j)' /\ \A k \in Joiners \ {j} : join'[k] = join[k]
    BY <1>b, <2>2 DEF Backed, Established
  <2>4. QED
    BY <1>a, <2>1, <2>3, JoinGrows
<1>5. QED
  BY <1>1, <1>2, <1>3, <1>4 DEF Environment

\* The controller manager writes conditions only.
LEMMA JoinManager ==
  ASSUME JoinIInv, MonitorStep \/ InformerStep \/ Restart
  PROVE  JoinIInv'
<1> USE DEF credentialVars
<1>a. TypeOK /\ TypeOK'
  BY MonitorType, InformerType, RestartType DEF JoinIInv
<1>1. UNCHANGED <<join, credentialVars>>
  BY DEF MonitorStep, HealthCheck, ListClusters, EndScan, Probe, SaveStatus,
     WriteStatus, NextCluster, MonitorEvent, InformerStep, Handlings,
     DeleteCluster, AddCluster, InformerEvent, SyncTarget, Restart
<1>2. \A c \in Clusters : /\ cluster'[c].live = cluster[c].live
                          /\ cluster'[c].secret = cluster[c].secret
  <2>1. CASE WriteStatus
    <3>1. \/ cluster' = cluster
          \/ cluster' = [cluster EXCEPT ![check.at] =
                           Checked(cluster[check.at], check.new)]
      BY <2>1 DEF WriteStatus, Publish
    <3>2. cluster \in [Clusters -> Cluster] /\ check.at \in Clusters
      BY <1>a DEF TypeOK, ObjectsTypeOK, MonitorTypeOK, Checks
    <3>3. /\ Checked(cluster[check.at], check.new).live = cluster[check.at].live
          /\ Checked(cluster[check.at], check.new).secret
               = cluster[check.at].secret
      BY <3>2 DEF Checked, Cluster
    <3>4. QED
      BY <3>1, <3>2, <3>3
  <2>2. CASE ~WriteStatus
    <3>1. cluster' = cluster
      BY <2>2 DEF MonitorStep, HealthCheck, ListClusters, EndScan, Probe,
         SaveStatus, NextCluster, MonitorEvent, InformerStep, Handlings,
         DeleteCluster, AddCluster, InformerEvent, SyncTarget, Restart
    <3>2. QED
      BY <3>1
  <2>3. QED
    BY <2>1, <2>2
<1>3. QED
  BY <1>a, <1>1, <1>2, JoinElsewhere

LEMMA JoinInitially == Init => JoinIInv
<1> SUFFICES ASSUME Init PROVE JoinIInv
  OBVIOUS
<1>1. /\ \A j \in Joiners : join[j].step = "none"
      /\ \A c \in Clusters : ~cluster[c].live
  BY DEF Init, ObjectsInit, JoinInit, NoCluster
<1>2. QED
  BY <1>1, InitType DEF JoinIInv, Backed, Established, Founded

\* A FederatedCluster has the registry entry, the secret, the account, the
\* role and the binding that its clients need, and of the joins of a cluster
\* that run at once at most one gets past the service account
\* (join.go:187-258), however many administrators, failures and lost replies.
THEOREM JoinsFounded == Spec => []JoinInv
<1>1. Init => JoinIInv
  BY JoinInitially
<1>2. JoinIInv /\ [Next]_vars => JoinIInv'
  <2> SUFFICES ASSUME JoinIInv, [Next]_vars PROVE JoinIInv'
    OBVIOUS
  <2>1. CASE Next
    BY <2>1, JoinJoiner, JoinEnvironment, JoinManager DEF Next
  <2>2. CASE UNCHANGED vars
    <3>1. UNCHANGED <<join, member, registry, secrets, cluster>> /\ TypeOK'
      BY <2>2, StepType DEF vars, credentialVars, JoinIInv
    <3>2. QED
      BY <3>1, JoinElsewhere
  <2>3. QED
    BY <2>1, <2>2
<1>3. JoinIInv => JoinInv
  BY DEF JoinIInv, Backed, Founded, JoinInv
<1>4. QED
  BY <1>1, <1>2, <1>3, PTL DEF Spec

-----------------------------------------------------------------------------
(* InformersOnMap *)

\* A cluster that is not in the store of the cluster informer is not ready.
BlankWhenGone ==
  \A c \in Clusters :
    ~store["informer"][c].live => ~IsReady(store["informer"][c])

\* The handler works with the object in the store, since no event is taken
\* while it does; it adds a cluster that has no informer on the map.
HandlerFits ==
  LET c == handler.at IN
  /\ handler.step # "idle" /\ IsReady(handler.cur)
       => IsReady(store["informer"][c])
  /\ handler.step = "add" =>
       /\ IsReady(handler.cur)
       /\ \/ target[c].id = 0
          \/ <<"informer", c>> \in overlooked
          \/ stopped

MapIInv == TypeOK /\ InformersOnMap /\ BlankWhenGone /\ HandlerFits

\* Everybody else leaves the informer's store, map and goroutine alone.
LEMMA MapElsewhere ==
  ASSUME MapIInv, TypeOK', UNCHANGED <<target, running, handler, stopped>>,
         store'["informer"] = store["informer"],
         \A c \in Clusters : <<"informer", c>> \in overlooked
                               => <<"informer", c>> \in overlooked'
  PROVE  MapIInv'
<1>0. handler.at \in Clusters
  BY DEF MapIInv, TypeOK, InformerTypeOK, Handlers
<1>1. InformersOnMap'
  BY DEF MapIInv, InformersOnMap, Stray
<1>2. BlankWhenGone'
  BY DEF MapIInv, BlankWhenGone
<1>3. HandlerFits'
  BY <1>0 DEF MapIInv, HandlerFits
<1>4. QED
  BY <1>1, <1>2, <1>3 DEF MapIInv

\* The steps of the informer itself.
LEMMA MapInformer ==
  ASSUME MapIInv, InformerStep
  PROVE  MapIInv'
<1> USE DEF credentialVars, watchVars, historyVars
<1>a. TypeOK /\ TypeOK' /\ InformerTypeOK /\ ObjectsTypeOK
  BY InformerType DEF MapIInv, TypeOK
<1>b. /\ target \in [Clusters -> Target] /\ handler.at \in Clusters
      /\ running \in [Clusters -> SUBSET Informers]
      /\ store \in [Watchers -> [Clusters -> Cluster]]
      /\ store["informer"] \in [Clusters -> Cluster]
      /\ handler \in Handlers
  BY <1>a DEF InformerTypeOK, ObjectsTypeOK, Handlers, Watchers
<1>c. ~IsReady(NoCluster)
  BY DEF IsReady, NoCluster
<1>1. ASSUME NEW c \in Clusters, InformerEvent(c) PROVE MapIInv'
  <2> DEFINE e == Head(events["informer"][c])
             old == store["informer"][c]
             new == IF e.object.live THEN e.object ELSE NoCluster
  <2>1. /\ handler.step = "idle"
        /\ UNCHANGED <<target, running, stopped>>
        /\ store'["informer"][c] = new
        /\ \A d \in Clusters \ {c} : store'["informer"][d] = store["informer"][d]
    BY <1>1, <1>b DEF InformerEvent, Pop, Watchers
  <2>2. \A d \in Clusters : <<"informer", d>> \in overlooked
                              => <<"informer", d>> \in overlooked'
    BY <1>1 DEF InformerEvent
  <2>3. ~IsReady(new) \/ new.live
    BY <1>c
  <2>4. BlankWhenGone'
    <3> HIDE DEF new
    <3>1. QED
      BY <2>1, <2>3 DEF MapIInv, BlankWhenGone
  <2>5. \/ handler' = [step |-> "add", at |-> c, cur |-> new] /\ IsReady(new) /\ ~old.live
        \/ handler' = [step |-> "delete", at |-> c, cur |-> new]
        \/ handler' = handler /\ <<"informer", c>> \in overlooked'
        \/ handler' = handler /\ (IsReady(old) => IsReady(new))
    BY <1>1, <1>c DEF InformerEvent, Handle, Handler, RestartNeeded, MapIInv,
       BlankWhenGone
  <2>6. /\ Stray(c) # {} => <<"informer", c>> \in overlooked \/ stopped
        /\ target[c].id # 0 => target[c].id \in running[c]
        /\ target[c].id # 0 => IsReady(old) \/ <<"informer", c>> \in overlooked \/ stopped
        /\ ~old.live => ~IsReady(old)
    BY <2>1 DEF MapIInv, InformersOnMap, BlankWhenGone
  <2>7. InformersOnMap'
    <3> SUFFICES ASSUME NEW d \in Clusters
                 PROVE  /\ target[d].id # 0 => target[d].id \in running[d]
                        /\ Stray(d) # {} => <<"informer", d>> \in overlooked' \/ stopped
                        /\ target[d].id # 0 =>
                             \/ IsReady(store'["informer"][d])
                             \/ handler'.step = "delete" /\ handler'.at = d
                             \/ <<"informer", d>> \in overlooked' \/ stopped
      BY <2>1 DEF InformersOnMap, Stray
    <3>1. CASE d = c
      <4> HIDE DEF new, old
      <4>1. QED
        BY <2>1, <2>2, <2>5, <2>6, <3>1
    <3>2. CASE d # c
      BY <2>1, <2>2, <3>2 DEF MapIInv, InformersOnMap
    <3>3. QED
      BY <3>1, <3>2
  <2>8. HandlerFits'
    <3> HIDE DEF new, old
    <3>1. QED
      BY <2>1, <2>2, <2>5, <2>6 DEF HandlerFits
  <2>9. QED
    BY <1>a, <2>4, <2>7, <2>8 DEF MapIInv
<1>2. CASE DeleteCluster
  <2> DEFINE c == handler.at
  <2>1. /\ target' = [target EXCEPT ![c] = NoTarget]
        /\ running' = [running EXCEPT ![c] = running[c] \ {target[c].id}]
        /\ UNCHANGED <<store, overlooked, stopped>> /\ handler.step = "delete"
        /\ IF IsReady(handler.cur) THEN handler' = [handler EXCEPT !.step = "add"]
           ELSE handler' = NoHandler
    BY <1>2 DEF DeleteCluster, Unregistered, Closed
  <2>2. /\ target'[c].id = 0 /\ running'[c] = Stray(c)
        /\ \A d \in Clusters \ {c} : target'[d] = target[d] /\ running'[d] = running[d]
    BY <1>b, <2>1 DEF NoTarget, Stray
  <2>3. InformersOnMap'
    <3> SUFFICES ASSUME NEW d \in Clusters
                 PROVE  /\ target'[d].id # 0 => target'[d].id \in running'[d]
                        /\ running'[d] \ {target'[d].id} # {}
                             => <<"informer", d>> \in overlooked \/ stopped
                        /\ target'[d].id # 0 =>
                             \/ IsReady(store["informer"][d])
                             \/ <<"informer", d>> \in overlooked \/ stopped
      BY <2>1 DEF InformersOnMap, Stray
    <3>1. CASE d = c
      BY <2>2, <3>1 DEF MapIInv, InformersOnMap
    <3>2. CASE d # c
      BY <2>1, <2>2, <3>2 DEF MapIInv, InformersOnMap, Stray
    <3>3. QED
      BY <3>1, <3>2
  <2>4. HandlerFits'
    <3>1. CASE IsReady(handler.cur)
      <4>1. handler'.step = "add" /\ handler'.at = c /\ handler'.cur = handler.cur
        BY <1>b, <2>1, <3>1 DEF Handlers
      <4>2. QED
        BY <2>1, <2>2, <3>1, <4>1 DEF MapIInv, HandlerFits
    <3>2. CASE ~IsReady(handler.cur)
      BY <2>1, <3>2 DEF HandlerFits, NoHandler
    <3>3. QED
      BY <3>1, <3>2
  <2>5. BlankWhenGone'
    BY <2>1 DEF MapIInv, BlankWhenGone
  <2>6. QED
    BY <1>a, <2>3, <2>4, <2>5 DEF MapIInv
<1>3. CASE AddCluster
  <2> DEFINE c == handler.at
             n == NewInformer(c)
             t == [id |-> n, uid |-> handler.cur.uid, rev |-> handler.cur.rev]
  <2>1. /\ UNCHANGED <<store, overlooked, stopped>> /\ handler.step = "add"
        /\ handler' = NoHandler
        /\ \/ /\ target' = [target EXCEPT ![c] = t]
              /\ running' = [running EXCEPT ![c] = running[c] \cup {n}]
           \/ UNCHANGED <<target, running>>
    BY <1>3 DEF AddCluster
  <2>2. /\ IsReady(store["informer"][c])
        /\ \/ target[c].id = 0 \/ <<"informer", c>> \in overlooked \/ stopped
    BY <2>1 DEF MapIInv, HandlerFits
  <2>3. CASE UNCHANGED <<target, running>>
    <3>1. InformersOnMap'
      BY <2>1, <2>3 DEF MapIInv, InformersOnMap, Stray
    <3>2. QED
      BY <1>a, <2>1, <3>1 DEF MapIInv, BlankWhenGone, HandlerFits, NoHandler
  <2>4. CASE /\ target' = [target EXCEPT ![c] = t]
             /\ running' = [running EXCEPT ![c] = running[c] \cup {n}]
    <3>0. t.id = n
      OBVIOUS
    <3>1. /\ target'[c].id = n /\ running'[c] = running[c] \cup {n}
          /\ \A d \in Clusters \ {c} : target'[d] = target[d] /\ running'[d] = running[d]
      <4> HIDE DEF t, n
      <4>1. QED
        BY <1>b, <2>4, <3>0
    <3>2. running[c] # {} =>
             target[c].id # 0 \/ <<"informer", c>> \in overlooked \/ stopped
      <4>1. target[c].id = 0 => Stray(c) = running[c]
        BY <1>b, InformersAssumption DEF Stray
      <4>2. QED
        BY <1>b, <4>1 DEF MapIInv, InformersOnMap
    <3>3. InformersOnMap'
      <4> SUFFICES ASSUME NEW d \in Clusters
                   PROVE  /\ target'[d].id # 0 => target'[d].id \in running'[d]
                          /\ running'[d] \ {target'[d].id} # {}
                               => <<"informer", d>> \in overlooked \/ stopped
                          /\ target'[d].id # 0 =>
                               \/ IsReady(store["informer"][d])
                               \/ <<"informer", d>> \in overlooked \/ stopped
        BY <2>1 DEF InformersOnMap, Stray
      <4> HIDE DEF t, n
      <4>1. CASE d = c
        BY <2>2, <3>1, <3>2, <4>1
      <4>2. CASE d # c
        BY <2>1, <3>1, <4>2 DEF MapIInv, InformersOnMap, Stray
      <4>3. QED
        BY <4>1, <4>2
    <3>4. QED
      BY <1>a, <2>1, <3>3 DEF MapIInv, BlankWhenGone, HandlerFits, NoHandler
  <2>5. QED
    BY <2>1, <2>3, <2>4
<1>4. ASSUME NEW c \in Clusters, SyncTarget(c) PROVE MapIInv'
  BY <1>4, <1>a, MapElsewhere DEF SyncTarget
<1>5. QED
  BY <1>1, <1>2, <1>3, <1>4 DEF InformerStep, Handlings

\* Joins, users and the health check have no part in it; Stop takes all
\* informers off the map.
LEMMA MapOthers ==
  ASSUME MapIInv,
         MonitorStep \/ Environment \/ \E j \in Joiners : JoinerStep(j)
  PROVE  MapIInv'
<1> USE DEF credentialVars, watchVars, historyVars, informerVars
<1>a. TypeOK /\ TypeOK'
  BY MonitorType, EnvironmentType, JoinerType DEF MapIInv
<1>1. CASE Stop
  <2>1. /\ \A c \in Clusters : target'[c].id = 0 /\ stopped'
        /\ UNCHANGED <<store, overlooked, handler>>
    BY <1>1 DEF Stop, NoTarget
  <2>2. handler.at \in Clusters
    BY <1>a DEF TypeOK, InformerTypeOK, Handlers
  <2>3. InformersOnMap' /\ BlankWhenGone' /\ HandlerFits'
    BY <2>1, <2>2 DEF MapIInv, InformersOnMap, BlankWhenGone, HandlerFits
  <2>4. QED
    BY <1>a, <2>3 DEF MapIInv
<1>2. CASE ~Stop
  <2>1. UNCHANGED informerVars
    BY <1>2 DEF MonitorStep, Environment, JoinerStep
  <2>2. store'["informer"] = store["informer"]
    <3>1. ASSUME NEW c \in Clusters, MonitorEvent(c)
          PROVE  store'["informer"] = store["informer"]
      <4>1. store \in [Watchers -> [Clusters -> Cluster]]
        BY <1>a DEF TypeOK, ObjectsTypeOK
      <4>2. QED
        BY <3>1, <4>1 DEF MonitorEvent, Pop, Watchers
    <3>2. CASE \A c \in Clusters : ~MonitorEvent(c)
      BY <1>2, <3>2 DEF MonitorStep, HealthCheck, ListClusters, EndScan, Probe,
         SaveStatus, WriteStatus, NextCluster, Environment, EditCluster,
         ChangeHealth, Unjoin, StartJoin, Relist, JoinerStep, JoinCluster,
         FailJoin, Preflight, CheckRegistry, CreateNamespace,
         CreateServiceAccount, CreateClusterRole, CreateClusterRoleBinding,
         FindToken, PopulateSecret, CreateFederatedCluster
    <3>3. QED
      BY <3>1, <3>2
  <2>3. \A c \in Clusters : <<"informer", c>> \in overlooked
                              => <<"informer", c>> \in overlooked'
    <3>1. ASSUME NEW c \in Clusters, MonitorEvent(c)
          PROVE  overlooked \subseteq overlooked'
      BY <3>1 DEF MonitorEvent, AddKnown, KeepKnown
    <3>2. CASE \A c \in Clusters : ~MonitorEvent(c)
      BY <1>2, <3>2 DEF MonitorStep, HealthCheck, ListClusters, EndScan, Probe,
         SaveStatus, WriteStatus, NextCluster, Environment, EditCluster,
         ChangeHealth, Unjoin, StartJoin, Relist, JoinerStep, JoinCluster,
         FailJoin, Preflight, CheckRegistry, CreateNamespace,
         CreateServiceAccount, CreateClusterRole, CreateClusterRoleBinding,
         FindToken, PopulateSecret, CreateFederatedCluster
    <3>3. QED
      BY <3>1, <3>2
  <2>4. QED
    BY <1>a, <2>1, <2>2, <2>3, MapElsewhere
<1>3. QED
  BY <1>1, <1>2

\* Nothing runs at the start.
LEMMA MapBlank ==
  ASSUME TypeOK, \A c \in Clusters : target[c] = NoTarget /\ running[c] = {},
         handler = NoHandler,
         \A c \in Clusters : store["informer"][c] = NoCluster
  PROVE  MapIInv
BY DEF MapIInv, InformersOnMap, BlankWhenGone, HandlerFits, Stray, NoTarget,
       NoHandler, NoCluster, IsReady

\* Target informers that run can be stopped, and those on the map run and are
\* of ready clusters, unless a departure was overlooked or Stop came in between
\* (federated_informer.go:188, 288, 408): one goroutine runs the handlers, and
\* one handler ends before the store changes again.
THEOREM InformersStoppable == Spec => []InformersOnMap
<1>1. Init => MapIInv
  <2> SUFFICES ASSUME Init PROVE MapIInv
    OBVIOUS
  <2>1. /\ TypeOK /\ handler = NoHandler
        /\ \A c \in Clusters : target[c] = NoTarget /\ running[c] = {}
        /\ \A c \in Clusters : store["informer"][c] = NoCluster
    BY InitType DEF Init, ObjectsInit, InformerInit, Watchers
  <2>2. QED
    BY <2>1, MapBlank
<1>2. MapIInv /\ [Next]_vars => MapIInv'
  <2> SUFFICES ASSUME MapIInv, [Next]_vars PROVE MapIInv'
    OBVIOUS
  <2>1. CASE Restart
    <3>1. TypeOK'
      BY <2>1, RestartType DEF MapIInv
    <3>2. /\ handler' = NoHandler
          /\ \A c \in Clusters : target'[c] = NoTarget /\ running'[c] = {}
          /\ \A c \in Clusters : store'["informer"][c] = NoCluster
      BY <2>1 DEF Restart, Watchers
    <3>3. QED
      BY <3>1, <3>2 DEF MapIInv, InformersOnMap, BlankWhenGone, HandlerFits,
         Stray, NoTarget, NoHandler, NoCluster, IsReady
  <2>2. CASE UNCHANGED vars
    <3>1. TypeOK' /\ UNCHANGED <<store, overlooked, informerVars>>
      BY <2>2, StepType DEF MapIInv, vars, watchVars, historyVars
    <3>2. QED
      BY <3>1, MapElsewhere DEF informerVars
  <2>3. QED
    BY <2>1, <2>2, MapInformer, MapOthers DEF Next
<1>3. MapIInv => InformersOnMap
  BY DEF MapIInv
<1>4. QED
  BY <1>1, <1>2, <1>3, PTL DEF Spec

-----------------------------------------------------------------------------
(* TransitionsSinceJoin *)

\* The cluster controller is not told of clusters that were not created yet.
EventsDated ==
  \A c \in Clusters : \A i \in 1..Len(events["monitor"][c]) :
    events["monitor"][c][i].object.uid <= cluster[c].uid

\* Neither are its clients; a status that it keeps is not older than the
\* client, and it keeps none of a cluster that it does not know, except of
\* those that were given a status of an earlier one.
MapsDated ==
  \A c \in Clusters :
    /\ client[c] <= cluster[c].uid
    /\ c \notin known => client[c] = 0
    /\ c \notin known /\ c \notin outlived => status[c].condition = "none"
    /\ c \notin outlived /\ status[c].condition # "none"
         => client[c] <= status[c].since

\* The health check carries a client and a status that fit together, and what
\* it writes is of the cluster it listed.
CheckDated ==
  LET c == check.at IN
  /\ check.step \in {"probe", "save"} => /\ check.with # 0
                                         /\ check.with <= cluster[c].uid
  /\ check.step = "probe" /\ c \notin outlived /\ check.old.condition # "none"
       => check.with <= check.old.since
  /\ check.step \in {"save", "write"} /\ c \notin outlived
       => check.with <= check.new.since
  /\ check.step = "write" /\ c \notin outlived
       => check.listed[c].uid = check.with

DatedIInv == /\ TypeOK /\ TransitionsSinceJoin
             /\ EventsDated /\ MapsDated /\ CheckDated

\* An object may replace another if it is not of an earlier cluster, and has
\* the other's transition or none.
Successor(old, o) ==
  /\ old.uid <= o.uid
  /\ \/ o.condition = "none"
     \/ o.condition = old.condition /\ o.since = old.since /\ o.uid = old.uid

\* The uids of the objects in the API and in the controller are numbers.
LEMMA UidTypes ==
  ASSUME TypeOK
  PROVE  /\ \A c \in Clusters :
              /\ cluster[c] \in Cluster /\ cluster[c].uid \in Nat
              /\ cluster[c].since \in Nat
              /\ client[c] \in Nat /\ status[c] \in Status
              /\ status[c].since \in Nat
              /\ events["monitor"][c] \in Seq(Event)
         /\ check \in Checks /\ check.at \in Clusters /\ check.with \in Nat
         /\ check.old \in Status /\ check.old.since \in Nat
         /\ check.new \in Status /\ check.new.since \in Nat
<1>1. ObjectsTypeOK /\ MonitorTypeOK
  BY DEF TypeOK
<1>2. /\ \A c \in Clusters : cluster[c] \in Cluster /\ status[c] \in Status
      /\ \A c \in Clusters : client[c] \in Nat
      /\ check \in Checks
  BY <1>1 DEF ObjectsTypeOK, MonitorTypeOK
<1>3. events["monitor"] \in [Clusters -> Seq(Event)]
  BY <1>1 DEF ObjectsTypeOK, Watchers
<1>4. QED
  BY <1>2, <1>3 DEF Cluster, Status, Checks

\* Whoever leaves the cluster controller alone and replaces objects by their
\* successors keeps the dates in order.
LEMMA DatedElsewhere ==
  ASSUME DatedIInv, TypeOK', UNCHANGED monitorVars, EventsDated',
         \A c \in Clusters : Successor(cluster[c], cluster'[c])
  PROVE  DatedIInv'
<1> USE DEF monitorVars, mapVars
<1>1. \A c \in Clusters :
        /\ cluster[c].uid \in Nat /\ cluster'[c].uid \in Nat
        /\ client[c] \in Nat
  <2>1. TypeOK
    BY DEF DatedIInv
  <2>2. \A c \in Clusters : cluster'[c] \in Cluster
    BY DEF TypeOK, ObjectsTypeOK
  <2>3. QED
    BY <2>1, <2>2, UidTypes DEF Cluster
<1>2. check.at \in Clusters /\ check.with \in Nat
  BY UidTypes DEF DatedIInv
<1>3. TransitionsSinceJoin'
  BY DEF DatedIInv, TransitionsSinceJoin, Successor
<1>4. MapsDated'
  BY <1>1 DEF DatedIInv, MapsDated, Successor
<1>5. CheckDated'
  BY <1>1, <1>2 DEF DatedIInv, CheckDated, Successor
<1>6. QED
  BY <1>3, <1>4, <1>5 DEF DatedIInv

\* After a list there is one event of a cluster or none.
LEMMA OnlyEvent ==
  \A e, s, i : s \in {<<>>, <<e>>} /\ i \in 1..Len(s) => i = 1 /\ s[i] = e
<1> TAKE e, s, i
<1> HAVE s \in {<<>>, <<e>>} /\ i \in 1..Len(s)
<1>1. CASE s = <<>>
  <2>1. Len(s) = 0
    BY <1>1
  <2>2. QED
    BY <2>1
<1>2. CASE s = <<e>>
  <2>1. Len(s) = 1 /\ s[1] = e
    BY <1>2
  <2>2. QED
    BY <2>1
<1>3. QED
  BY <1>1, <1>2

\* What is published is not from the future.
LEMMA PublishDated ==
  ASSUME TypeOK, EventsDated, NEW c \in Clusters, NEW o \in Cluster,
         Publish(c, o), cluster[c].uid <= o.uid
  PROVE  EventsDated'
<1> SUFFICES ASSUME NEW d \in Clusters,
                    NEW i \in 1..Len(events'["monitor"][d])
             PROVE  events'["monitor"][d][i].object.uid <= cluster'[d].uid
  BY DEF EventsDated
<1>1. /\ events["monitor"] \in [Clusters -> Seq(Event)]
      /\ events["monitor"][d] \in Seq(Event)
      /\ cluster \in [Clusters -> Cluster] /\ "monitor" \in Watchers
  BY DEF TypeOK, ObjectsTypeOK, Watchers
<1>2. cluster[d].uid \in Nat /\ o.uid \in Nat
  BY <1>1 DEF Cluster
<1>3. cluster' = [cluster EXCEPT ![c] = o]
  BY DEF Publish
<1>4. \/ events'["monitor"][d] = events["monitor"][d]
      \/ d = c /\ events'["monitor"][d] = Append(events["monitor"][d], Seen(o))
  BY <1>1 DEF Publish
<1>5. CASE i \in 1..Len(events["monitor"][d])
  <2>1. events'["monitor"][d][i] = events["monitor"][d][i]
    BY <1>1, <1>4, <1>5
  <2>2. events["monitor"][d][i].object.uid <= cluster[d].uid
    BY <1>5 DEF EventsDated
  <2>3. events["monitor"][d][i].object.uid \in Nat
    <3>1. events["monitor"][d][i] \in Event
      BY <1>1, <1>5
    <3>2. QED
      BY <3>1 DEF Event, Cluster
  <2>4. cluster[d].uid <= cluster'[d].uid /\ cluster'[d].uid \in Nat
    BY <1>1, <1>2, <1>3
  <2>5. QED
    BY <1>2, <2>1, <2>2, <2>3, <2>4
<1>6. CASE i \notin 1..Len(events["monitor"][d])
  <2>1. d = c /\ events'["monitor"][d][i] = Seen(o)
    BY <1>1, <1>4, <1>6
  <2>2. cluster'[d] = o
    BY <1>1, <1>3, <2>1
  <2>3. QED
    BY <1>2, <2>1, <2>2 DEF Seen
<1>7. QED
  BY <1>5, <1>6

\* An event that is taken was there.
LEMMA PopDated ==
  ASSUME TypeOK, EventsDated, NEW c \in Clusters, NEW w \in Watchers, Pop(w, c),
         cluster' = cluster
  PROVE  /\ EventsDated'
         /\ w = "monitor" => Head(events[w][c]).object.uid <= cluster[c].uid
<1>1. /\ events["monitor"] \in [Clusters -> Seq(Event)]
      /\ events \in [Watchers -> [Clusters -> Seq(Event)]]
      /\ "monitor" \in Watchers
  BY DEF TypeOK, ObjectsTypeOK, Watchers
<1>2. events[w][c] \in Seq(Event) /\ events[w][c] # <<>>
  BY <1>1 DEF Pop
<1>3. ASSUME NEW d \in Clusters, NEW i \in 1..Len(events'["monitor"][d])
      PROVE  events'["monitor"][d][i].object.uid <= cluster[d].uid
  <2>1. CASE w = "monitor" /\ d = c
    <3>1. events'["monitor"][d] = Tail(events["monitor"][d])
      BY <1>1, <2>1 DEF Pop
    <3>2. i + 1 \in 1..Len(events["monitor"][d])
          /\ events'["monitor"][d][i] = events["monitor"][d][i + 1]
      BY <1>2, <1>3, <2>1, <3>1
    <3>3. QED
      BY <3>2 DEF EventsDated
  <2>2. CASE ~(w = "monitor" /\ d = c)
    <3>1. events'["monitor"][d] = events["monitor"][d]
      BY <1>1, <2>2 DEF Pop
    <3>2. QED
      BY <1>3, <3>1 DEF EventsDated
  <2>3. QED
    BY <2>1, <2>2
<1>4. w = "monitor" => Head(events[w][c]).object.uid <= cluster[c].uid
  <2>1. 1 \in 1..Len(events[w][c]) /\ Head(events[w][c]) = events[w][c][1]
    BY <1>2
  <2>2. QED
    BY <2>1 DEF EventsDated
<1>5. QED
  BY <1>3, <1>4 DEF EventsDated

\* The handlers of the cluster controller.
LEMMA DatedEvent ==
  ASSUME DatedIInv, TypeOK', NEW c \in Clusters, MonitorEvent(c)
  PROVE  DatedIInv'
<1> DEFINE e == Head(events["monitor"][c])
<1>1. /\ TypeOK /\ Pop("monitor", c) /\ "monitor" \in Watchers
      /\ UNCHANGED <<cluster, check, outlived>>
  BY DEF DatedIInv, MonitorEvent, Watchers
<1>2. EventsDated' /\ e.object.uid <= cluster[c].uid
  BY <1>1, PopDated DEF DatedIInv
<1>3. /\ known \in SUBSET Clusters /\ client \in [Clusters -> Nat]
      /\ status \in [Clusters -> Status]
  BY <1>1 DEF TypeOK, MonitorTypeOK
<1>4. \/ UNCHANGED mapVars
      \/ /\ known' = known \cup {c} /\ UNCHANGED status
         /\ \/ client' = client
            \/ c \notin known /\ client' = [client EXCEPT ![c] = e.object.uid]
      \/ Forgotten(c)
  BY DEF MonitorEvent, AddKnown, KeepKnown
<1>5. MapsDated'
  <2> SUFFICES ASSUME NEW d \in Clusters
               PROVE  /\ client'[d] <= cluster[d].uid
                      /\ d \notin known' => client'[d] = 0
                      /\ d \notin known' /\ d \notin outlived
                           => status'[d].condition = "none"
                      /\ d \notin outlived /\ status'[d].condition # "none"
                           => client'[d] <= status'[d].since
    BY <1>1 DEF MapsDated
  <2>1. /\ client[d] <= cluster[d].uid
        /\ d \notin known => client[d] = 0
        /\ d \notin known /\ d \notin outlived => status[d].condition = "none"
        /\ d \notin outlived /\ status[d].condition # "none"
             => client[d] <= status[d].since
    BY DEF DatedIInv, MapsDated
  <2>2. CASE UNCHANGED mapVars
    BY <2>1, <2>2 DEF mapVars
  <2>3. CASE /\ known' = known \cup {c} /\ UNCHANGED status
             /\ \/ client' = client
                \/ c \notin known /\ client' = [client EXCEPT ![c] = e.object.uid]
    <3> HIDE DEF e
    <3>1. QED
      BY <1>2, <1>3, <2>1, <2>3
  <2>4. CASE Forgotten(c)
    <3>1. NoStatus.condition = "none" /\ cluster[c].uid \in Nat
      BY <1>1, UidTypes DEF NoStatus
    <3>2. CASE d = c
      <4>1. client'[d] = 0 /\ status'[d] = NoStatus
        BY <1>3, <2>4, <3>2 DEF Forgotten
      <4>2. QED
        BY <3>1, <3>2, <4>1
    <3>3. CASE d # c
      <4>1. client'[d] = client[d] /\ status'[d] = status[d]
            /\ (d \in known' <=> d \in known)
        BY <1>3, <2>4, <3>3 DEF Forgotten
      <4>2. QED
        BY <2>1, <4>1
    <3>4. QED
      BY <3>2, <3>3
  <2>5. QED
    BY <1>4, <2>2, <2>3, <2>4
<1>6. TransitionsSinceJoin' /\ CheckDated'
  BY <1>1 DEF DatedIInv, TransitionsSinceJoin, CheckDated
<1>7. QED
  BY <1>2, <1>5, <1>6 DEF DatedIInv

\* The health check.
LEMMA DatedCheck ==
  ASSUME DatedIInv, TypeOK', HealthCheck
  PROVE  DatedIInv'
<1> USE DEF watchVars, mapVars
<1> DEFINE a == check.at
<1>a. TypeOK
  BY DEF DatedIInv
<1>b. /\ a \in Clusters /\ check \in Checks /\ check.with \in Nat
      /\ cluster[a] \in Cluster /\ cluster[a].uid \in Nat
      /\ status \in [Clusters -> Status]
      /\ cluster \in [Clusters -> Cluster]
  BY <1>a, UidTypes DEF TypeOK, MonitorTypeOK, ObjectsTypeOK
<1>c. ASSUME UNCHANGED <<cluster, events, mapVars, outlived>>, CheckDated'
      PROVE  DatedIInv'
  BY <1>c DEF DatedIInv, TransitionsSinceJoin, EventsDated, MapsDated
<1>1. CASE ListClusters \/ EndScan
  <2>1. UNCHANGED <<cluster, events, mapVars, outlived>>
    BY <1>1 DEF ListClusters, EndScan
  <2>2. check'.step \in {"idle", "scan"}
    <3>1. CASE ListClusters
      BY <3>1 DEF ListClusters, NoCheck
    <3>2. CASE EndScan
      BY <3>2 DEF EndScan, NoCheck
    <3>3. QED
      BY <1>1, <3>1, <3>2
  <2>3. QED
    BY <1>c, <2>1, <2>2 DEF CheckDated
<1>2. ASSUME NEW c \in Clusters, NextCluster(c) PROVE DatedIInv'
  <2>1. UNCHANGED <<cluster, events, mapVars, outlived>>
    BY <1>2 DEF NextCluster
  <2>2. CASE c \in known /\ client[c] # 0
    <3>1. /\ check'.step = "probe" /\ check'.at = c
          /\ check'.with = client[c] /\ check'.old = status[c]
      BY <1>b, <1>2, <2>2 DEF NextCluster, Checks
    <3>2. CheckDated'
      BY <2>1, <2>2, <3>1 DEF DatedIInv, MapsDated, CheckDated
    <3>3. QED
      BY <1>c, <2>1, <3>2
  <2>3. CASE ~(c \in known /\ client[c] # 0)
    <3>1. check'.step = "scan"
      BY <1>b, <1>2, <2>3 DEF NextCluster, Checks
    <3>2. QED
      BY <1>c, <2>1, <3>1 DEF CheckDated
  <2>4. QED
    BY <2>2, <2>3
<1>3. CASE Probe
  <2> DEFINE h == Reached(a, check.with)
             s == Probed(check.old, h, cluster[a].uid)
  <2>1. /\ UNCHANGED <<cluster, events, mapVars, outlived>>
        /\ check.step = "probe"
        /\ check' = [check EXCEPT !.step = "save", !.new = s]
    BY <1>3 DEF Probe
  <2>2. check'.step = "save" /\ check'.at = a /\ check'.with = check.with
        /\ check'.new = s
    <3> HIDE DEF s
    <3>1. QED
      BY <1>b, <2>1 DEF Checks
  <2>3. h # "none"
    BY <1>a, <1>b DEF Reached, TypeOK, ObjectsTypeOK, Healths
  <2>4. /\ check.with # 0 /\ check.with <= cluster[a].uid
        /\ a \notin outlived /\ check.old.condition # "none"
             => check.with <= check.old.since
    BY <2>1 DEF DatedIInv, CheckDated
  <2>5. s.since = IF h = check.old.condition THEN check.old.since ELSE cluster[a].uid
    BY DEF Probed
  <2>6. a \notin outlived => check.with <= s.since
    <3> HIDE DEF s, h
    <3>1. QED
      BY <2>3, <2>4, <2>5
  <2>7. CheckDated'
    <3> HIDE DEF s, h
    <3>1. QED
      BY <2>1, <2>2, <2>4, <2>6 DEF CheckDated
  <2>8. QED
    BY <1>c, <2>1, <2>7
<1>4. CASE SaveStatus
  <2>1. /\ UNCHANGED <<cluster, events, known, client>> /\ check.step = "save"
        /\ check' = [check EXCEPT !.step = "write"]
        /\ status' = [status EXCEPT ![a] = check.new]
        /\ outlived' = IF client[a] = check.with /\ check.listed[a].uid = check.with
                       THEN outlived ELSE outlived \cup {a}
    BY <1>4 DEF SaveStatus
  <2>2. /\ check.with # 0
        /\ a \notin outlived => check.with <= check.new.since
    BY <2>1 DEF DatedIInv, CheckDated
  <2>3. /\ check'.step = "write" /\ check'.at = a /\ check'.with = check.with
        /\ check'.new = check.new /\ check'.listed = check.listed
    BY <1>b, <2>1 DEF Checks
  <2>4. outlived \subseteq outlived'
        /\ (a \notin outlived' => /\ client[a] = check.with
                                  /\ check.listed[a].uid = check.with
                                  /\ a \notin outlived)
    BY <2>1
  <2>5. CheckDated'
    BY <2>2, <2>3, <2>4 DEF CheckDated
  <2>6. MapsDated'
    <3> SUFFICES ASSUME NEW d \in Clusters
                 PROVE  /\ client[d] <= cluster[d].uid
                        /\ d \notin known => client[d] = 0
                        /\ d \notin known /\ d \notin outlived'
                             => status'[d].condition = "none"
                        /\ d \notin outlived' /\ status'[d].condition # "none"
                             => client[d] <= status'[d].since
      BY <2>1 DEF MapsDated
    <3>1. /\ client[d] <= cluster[d].uid
          /\ d \notin known => client[d] = 0
          /\ d \notin known /\ d \notin outlived => status[d].condition = "none"
          /\ d \notin outlived /\ status[d].condition # "none"
               => client[d] <= status[d].since
      BY DEF DatedIInv, MapsDated
    <3>2. CASE d = a
      <4>1. status'[d] = check.new
        BY <1>b, <2>1, <3>2
      <4>2. QED
        BY <2>2, <2>4, <3>1, <3>2, <4>1
    <3>3. CASE d # a
      <4>1. status'[d] = status[d]
        BY <1>b, <2>1, <3>3
      <4>2. QED
        BY <2>4, <3>1, <4>1
    <3>4. QED
      BY <3>2, <3>3
  <2>7. TransitionsSinceJoin' /\ EventsDated'
    BY <2>1, <2>4 DEF DatedIInv, TransitionsSinceJoin, EventsDated
  <2>8. QED
    BY <2>5, <2>6, <2>7 DEF DatedIInv
<1>5. CASE WriteStatus
  <2> DEFINE o == Checked(cluster[a], check.new)
  <2>1. /\ UNCHANGED <<mapVars, outlived>> /\ check.step = "write"
        /\ check'.step = "scan"
    BY <1>5, <1>b DEF WriteStatus, Checks
  <2>2. CheckDated'
    BY <2>1 DEF CheckDated
  <2>3. CASE UNCHANGED <<cluster, events>>
    BY <1>c, <2>1, <2>2, <2>3
  <2>4. CASE StatusAccepted(a) /\ Publish(a, o)
    <3>1. /\ o \in Cluster /\ o.uid = cluster[a].uid
          /\ o.since = check.new.since
      BY <1>b, <1>a, UidTypes DEF Checked, Cluster, Status
    <3>2. EventsDated'
      BY <1>a, <1>b, <2>4, <3>1, PublishDated DEF DatedIInv
    <3>3. cluster' = [cluster EXCEPT ![a] = o]
      BY <2>4 DEF Publish
    <3>4. a \notin outlived => o.uid <= o.since
      BY <2>1, <2>4, <3>1 DEF StatusAccepted, DatedIInv, CheckDated
    <3>5. o.uid \in Nat /\ o.since \in Nat
      BY <3>1 DEF Cluster
    <3>6. TransitionsSinceJoin'
      <4> HIDE DEF o
      <4>1. QED
        BY <1>b, <2>1, <3>3, <3>4, <3>5 DEF DatedIInv, TransitionsSinceJoin
    <3>7. MapsDated'
      <4>1. \A d \in Clusters : cluster'[d].uid = cluster[d].uid
        BY <1>b, <3>1, <3>3
      <4>2. QED
        BY <2>1, <4>1 DEF DatedIInv, MapsDated
    <3>8. QED
      BY <2>2, <3>2, <3>6, <3>7 DEF DatedIInv
  <2>5. QED
    BY <1>5, <2>3, <2>4 DEF WriteStatus
<1>6. QED
  BY <1>1, <1>2, <1>3, <1>4, <1>5 DEF HealthCheck

\* Joins, users, the informer and broken watches.
LEMMA DatedOthers ==
  ASSUME DatedIInv, InformerStep \/ Environment \/ \E j \in Joiners : JoinerStep(j)
  PROVE  DatedIInv'
<1> USE DEF watchVars
<1>a. TypeOK /\ TypeOK' /\ EventsDated
  BY InformerType, EnvironmentType, JoinerType DEF DatedIInv
<1>b. \A c \in Clusters : cluster[c] \in Cluster /\ cluster[c].uid \in Nat
  BY <1>a, UidTypes
<1>c. UNCHANGED monitorVars
  BY DEF InformerStep, Environment, JoinerStep
<1>d. \A c \in Clusters : Successor(cluster[c], cluster[c])
  BY <1>b DEF Successor
<1>e. cluster \in [Clusters -> Cluster]
  BY <1>a DEF TypeOK, ObjectsTypeOK
<1>f. ASSUME NEW c \in Clusters, NEW o \in Cluster, Publish(c, o),
             Successor(cluster[c], o)
      PROVE  DatedIInv'
  <2>1. EventsDated'
    BY <1>a, <1>f, PublishDated DEF Successor
  <2>2. cluster' = [cluster EXCEPT ![c] = o]
    BY <1>f DEF Publish
  <2>3. \A d \in Clusters : Successor(cluster[d], cluster'[d])
    BY <1>d, <1>e, <1>f, <2>2
  <2>4. QED
    BY <1>a, <1>c, <2>1, <2>3, DatedElsewhere
<1>g. ASSUME UNCHANGED <<cluster, events>> PROVE DatedIInv'
  BY <1>a, <1>c, <1>d, <1>g, DatedElsewhere DEF EventsDated
<1>1. ASSUME NEW j \in Joiners, CreateFederatedCluster(j) PROVE DatedIInv'
  <2>1. join[j].at \in Clusters /\ join[j].secret \in Nat
    BY <1>a DEF TypeOK, JoinTypeOK, Command
  <2>2. /\ Joined(cluster[join[j].at], join[j].secret) \in Cluster
        /\ Successor(cluster[join[j].at],
                     Joined(cluster[join[j].at], join[j].secret))
    BY <1>b, <2>1 DEF Joined, Cluster, Successor
  <2>3. QED
    BY <1>1, <1>f, <1>g, <2>1, <2>2 DEF CreateFederatedCluster
<1>2. ASSUME NEW c \in Clusters, EditCluster(c) PROVE DatedIInv'
  <2>1. /\ [cluster[c] EXCEPT !.rev = cluster[c].rev + 1] \in Cluster
        /\ Successor(cluster[c], [cluster[c] EXCEPT !.rev = cluster[c].rev + 1])
    BY <1>b DEF Cluster, Successor
  <2>2. QED
    BY <1>2, <1>f, <2>1 DEF EditCluster
<1>3. ASSUME NEW c \in Clusters, Unjoin(c) PROVE DatedIInv'
  <2>1. cluster[c] \in Cluster /\ cluster[c].uid \in Nat
    BY <1>b
  <2>2. Removed(cluster[c]) \in Cluster
    BY <2>1 DEF Removed, Cluster
  <2>3. /\ Removed(cluster[c]).uid = cluster[c].uid
        /\ Removed(cluster[c]).condition = "none"
    BY <2>1 DEF Removed, Cluster
  <2>4. Successor(cluster[c], Removed(cluster[c]))
    BY <2>1, <2>3 DEF Successor
  <2>5. QED
    BY <1>3, <1>f, <1>g, <2>2, <2>4 DEF Unjoin
<1>4. ASSUME NEW w \in Watchers, Relist(w) PROVE DatedIInv'
  <2>1. cluster' = cluster /\ events' = [events EXCEPT ![w] = Differences(w)]
    BY <1>4 DEF Relist
  <2>2. events \in [Watchers -> [Clusters -> Seq(Event)]] /\ "monitor" \in Watchers
    BY <1>a DEF TypeOK, ObjectsTypeOK, Watchers
  <2>3. ASSUME NEW c \in Clusters, NEW i \in 1..Len(events'["monitor"][c])
        PROVE  events'["monitor"][c][i].object.uid <= cluster'[c].uid
    <3>1. CASE w = "monitor"
      <4>1. events'["monitor"][c] \in
              {<<>>, <<[object |-> cluster[c], relisted |-> TRUE]>>}
        BY <2>1, <2>2, <3>1 DEF Differences
      <4>2. i = 1 /\ events'["monitor"][c][i]
                       = [object |-> cluster[c], relisted |-> TRUE]
        <5> DEFINE e == [object |-> cluster[c], relisted |-> TRUE]
                   s == events'["monitor"][c]
        <5>1. s \in {<<>>, <<e>>} /\ i \in 1..Len(s)
          BY <2>3, <4>1
        <5> HIDE DEF e, s
        <5>2. i = 1 /\ s[i] = e
          BY <5>1, OnlyEvent
        <5>3. QED
          BY <5>2 DEF e, s
      <4>3. QED
        BY <1>b, <2>1, <4>2
    <3>2. CASE w # "monitor"
      <4>1. events'["monitor"][c] = events["monitor"][c]
        BY <2>1, <2>2, <3>2
      <4>2. QED
        BY <1>a, <2>1, <2>3, <4>1 DEF EventsDated
    <3>3. QED
      BY <3>1, <3>2
  <2>4. EventsDated'
    BY <2>3 DEF EventsDated
  <2>5. QED
    BY <1>a, <1>c, <1>d, <2>1, <2>4, DatedElsewhere
<1>5. ASSUME NEW c \in Clusters, InformerEvent(c) PROVE DatedIInv'
  <2>1. Pop("informer", c) /\ cluster' = cluster /\ "informer" \in Watchers
    BY <1>5 DEF InformerEvent, Watchers
  <2>2. EventsDated'
    BY <1>a, <2>1, PopDated
  <2>3. QED
    BY <1>a, <1>c, <1>d, <2>1, <2>2, DatedElsewhere
<1>6. ASSUME NEW j \in Joiners, JoinerStep(j), ~CreateFederatedCluster(j)
      PROVE  DatedIInv'
  <2>1. UNCHANGED <<cluster, events>>
    BY <1>6 DEF JoinerStep, JoinCluster, FailJoin, Preflight, CheckRegistry,
       CreateNamespace, CreateServiceAccount, CreateClusterRole,
       CreateClusterRoleBinding, FindToken, PopulateSecret
  <2>2. QED
    BY <1>g, <2>1
<1>7. ASSUME NEW j \in Joiners, NEW c \in Clusters, StartJoin(j, c)
      PROVE  DatedIInv'
  BY <1>7, <1>g DEF StartJoin
<1>8. CASE \/ \E c \in Clusters : ChangeHealth(c) \/ SyncTarget(c)
           \/ Handlings \/ Stop
  BY <1>8, <1>g DEF ChangeHealth, SyncTarget, Handlings, DeleteCluster,
                    AddCluster, Stop
<1>9. QED
  BY <1>1, <1>2, <1>3, <1>4, <1>5, <1>6, <1>7, <1>8
     DEF InformerStep, Environment

\* After a restart the controller knows nothing.
LEMMA DatedRestart ==
  ASSUME DatedIInv, Restart
  PROVE  DatedIInv'
<1>a. TypeOK /\ TypeOK'
  BY RestartType DEF DatedIInv
<1>b. \A c \in Clusters : cluster[c].uid \in Nat
  BY <1>a, UidTypes
<1>1. TransitionsSinceJoin'
  BY DEF Restart, DatedIInv, TransitionsSinceJoin
<1>2. EventsDated'
  <2> SUFFICES ASSUME NEW c \in Clusters, NEW i \in 1..Len(events'["monitor"][c])
               PROVE  events'["monitor"][c][i].object.uid <= cluster'[c].uid
    BY DEF EventsDated
  <2>1. cluster' = cluster /\ events'["monitor"][c] \in
          {<<>>, <<[object |-> cluster[c], relisted |-> TRUE]>>}
    BY DEF Restart, Watchers
  <2>2. i = 1 /\ events'["monitor"][c][i]
                   = [object |-> cluster[c], relisted |-> TRUE]
    <3> DEFINE e == [object |-> cluster[c], relisted |-> TRUE]
               s == events'["monitor"][c]
    <3>1. s \in {<<>>, <<e>>} /\ i \in 1..Len(s)
      BY <2>1
    <3> HIDE DEF e, s
    <3>2. i = 1 /\ s[i] = e
      BY <3>1, OnlyEvent
    <3>3. QED
      BY <3>2 DEF e, s
  <2>3. QED
    BY <1>b, <2>1, <2>2
<1>3. MapsDated'
  BY <1>b DEF Restart, MapsDated, NoStatus
<1>4. CheckDated'
  BY DEF Restart, CheckDated, NoCheck
<1>5. QED
  BY <1>a, <1>1, <1>2, <1>3, <1>4 DEF DatedIInv

\* A cluster's last transition is not older than the cluster, unless the health
\* check gave it a status found with a client of an earlier cluster of the name:
\* a client and the status kept for it go together, in the maps and in the
\* check that runs between two locks (controller.go:167-225).
THEOREM TransitionsDated == Spec => []TransitionsSinceJoin
<1>1. Init => DatedIInv
  <2> SUFFICES ASSUME Init PROVE DatedIInv
    OBVIOUS
  <2>1. TypeOK /\ \A c \in Clusters : cluster[c].uid \in Nat
    BY InitType, UidTypes
  <2>2. /\ \A c \in Clusters : cluster[c] = NoCluster
                               /\ events["monitor"][c] = <<>>
        /\ known = {} /\ client = [c \in Clusters |-> 0]
        /\ status = [c \in Clusters |-> NoStatus] /\ check = NoCheck
    BY DEF Init, ObjectsInit, MonitorInit, Watchers
  <2>3. TransitionsSinceJoin /\ EventsDated
    BY <2>2 DEF TransitionsSinceJoin, EventsDated, NoCluster
  <2>4. MapsDated /\ CheckDated
    BY <2>1, <2>2 DEF MapsDated, CheckDated, NoStatus, NoCheck
  <2>5. QED
    BY <2>1, <2>3, <2>4 DEF DatedIInv
<1>2. DatedIInv /\ [Next]_vars => DatedIInv'
  <2> SUFFICES ASSUME DatedIInv, [Next]_vars PROVE DatedIInv'
    OBVIOUS
  <2>1. CASE MonitorStep
    <3>1. TypeOK'
      BY <2>1, MonitorType DEF DatedIInv
    <3>2. QED
      BY <2>1, <3>1, DatedEvent, DatedCheck DEF MonitorStep
  <2>2. CASE UNCHANGED vars
    <3>1. TypeOK' /\ UNCHANGED <<cluster, events, monitorVars>>
      BY <2>2, StepType DEF DatedIInv, vars, watchVars
    <3>2. QED
      BY <3>1 DEF DatedIInv, TransitionsSinceJoin, EventsDated, MapsDated,
         CheckDated, monitorVars, mapVars
  <2>3. QED
    BY <2>1, <2>2, DatedOthers, DatedRestart DEF Next
<1>3. DatedIInv => TransitionsSinceJoin
  BY DEF DatedIInv
<1>4. QED
  BY <1>1, <1>2, <1>3, PTL DEF Spec
=============================================================================
