-------------------------- MODULE ClusterLifecycle --------------------------
(***************************************************************************)
(* The life of a member cluster: kubefnord join creates it, the cluster    *)
(* controller writes its health, a federated informer follows that, and    *)
(* the unjoin of the user guide takes it away.  The cluster controller and *)
(* the informer share the process of the controller manager, which ends    *)
(* when the former panics.                                                 *)
(***************************************************************************)
EXTENDS ClusterJoin, ClusterController, FederatedInformer

vars == <<cluster, credentialVars, health, watchVars, historyVars, join,
          monitorVars, informerVars, left>>

\* Everything has its type.
TypeOK == ObjectsTypeOK /\ JoinTypeOK /\ MonitorTypeOK /\ InformerTypeOK

Init == ObjectsInit /\ JoinInit /\ MonitorInit /\ InformerInit

\* The controller manager starts again and lists the clusters.
Restart ==
  /\ MonitorPanics \/ Spend("mishap")
  /\ MonitorPanics => UNCHANGED left
  /\ events' = [w \in Watchers |-> [c \in Clusters |->
                  IF cluster[c].live
                    THEN <<[object |-> cluster[c], relisted |-> TRUE]>>
                    ELSE <<>>]]
  /\ store' = [w \in Watchers |-> [c \in Clusters |-> NoCluster]]
  /\ watching' = Watchers
  /\ failed' = {} /\ overlooked' = {}
  /\ known' = {} /\ client' = [c \in Clusters |-> 0]
  /\ status' = [c \in Clusters |-> NoStatus]
  /\ check' = NoCheck
  /\ target' = [c \in Clusters |-> NoTarget]
  /\ running' = [c \in Clusters |-> {}]
  /\ hasSynced' = [c \in Clusters |-> {}]
  /\ handler' = NoHandler /\ stopped' = FALSE
  /\ UNCHANGED <<cluster, credentialVars, health, join, outlived>>

JoinerStep(j) == /\ JoinCluster(j) \/ FailJoin(j)
                 /\ UNCHANGED <<monitorVars, informerVars>>

MonitorStep == /\ HealthCheck \/ \E c \in Clusters : MonitorEvent(c)
               /\ UNCHANGED <<join, informerVars>>

InformerStep ==
  /\ \/ Handlings
     \/ \E c \in Clusters : InformerEvent(c) \/ SyncTarget(c)
  /\ UNCHANGED <<join, monitorVars>>

Environment ==
  \/ \E c \in Clusters : EditCluster(c) /\ UNCHANGED <<join, monitorVars, informerVars>>
  \/ \E c \in Clusters : ChangeHealth(c) /\ UNCHANGED <<join, monitorVars, informerVars>>
  \/ \E c \in Clusters : Unjoin(c) /\ UNCHANGED <<monitorVars, informerVars>>
  \/ \E j \in Joiners, c \in Clusters :
       StartJoin(j, c) /\ UNCHANGED <<monitorVars, informerVars>>
  \/ \E w \in Watchers : Relist(w) /\ UNCHANGED <<join, monitorVars, informerVars>>
  \/ Stop /\ UNCHANGED <<join, monitorVars>>

Next == \/ \E j \in Joiners : JoinerStep(j)
        \/ MonitorStep \/ InformerStep \/ Environment \/ Restart

Spec == Init /\ [][Next]_vars

\* A join goes on until it is done; the health check has a goroutine and a
\* timer of its own, and so has each informer.
FairSpec ==
  /\ Spec
  /\ \A j \in Joiners : WF_vars(JoinCluster(j) /\ UNCHANGED <<monitorVars, informerVars>>)
  /\ WF_vars(HealthCheck /\ UNCHANGED <<join, informerVars>>)
  /\ \A c \in Clusters :
       /\ WF_vars(MonitorEvent(c) /\ UNCHANGED <<join, informerVars>>)
       /\ WF_vars(InformerEvent(c) /\ UNCHANGED <<join, monitorVars>>)
       /\ WF_vars(SyncTarget(c) /\ UNCHANGED <<join, monitorVars>>)
  /\ WF_vars(Handlings /\ UNCHANGED <<join, monitorVars>>)
  /\ WF_vars(MonitorPanics /\ Restart)

-----------------------------------------------------------------------------
(* Properties *)

\* Something has gone wrong with a client of c, or its departure was missed.
Disturbed(c) == \E w \in Watchers : <<w, c>> \in failed \cup overlooked

Served(c) ==
  /\ cluster[c].condition = health[c]
  /\ IsReady(cluster[c]) = (target[c].id # 0)
  /\ target[c].id # 0 => /\ target[c].uid = cluster[c].uid
                         /\ target[c].rev = cluster[c].rev
                         /\ target[c].id \in hasSynced[c]

\* In the end the API shows the health of every member, and exactly the ready
\* ones have a synced target informer made from the current object, unless a
\* client could not be made (federated_informer.go:412,
\* federatedcluster/controller.go:135) or a departure was overlooked.
FollowsHealth ==
  \A c \in Clusters :
    <>[](cluster[c].live => stopped \/ Disturbed(c) \/ Served(c))

\* In the end the federated informer is synced again, so that the controllers
\* behind it go on: all clusters must be, for any resource to be reconciled
\* (federated_informer.go:509-538).
SyncsAgain ==
  <>[](stopped \/ (\E c \in Clusters : Disturbed(c))
       \/ ClustersSynced(ReadyClusters))

\* GetReadyClusters returns the clusters for which the sub-informers are run
\* (federated_informer.go:359), in the end.
ReadyClustersServed ==
  <>[](stopped \/ \A c \in ReadyClusters : target[c].id # 0)
=============================================================================
