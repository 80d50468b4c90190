------------------------- MODULE ClusterController -------------------------
(***************************************************************************)
(* The cluster controller (pkg/controller/federatedcluster): an informer   *)
(* keeps the known clusters and a client for each, and a periodic health   *)
(* check writes their status.  One mutex guards the maps, but not the time *)
(* between reading them, probing the member and writing them.              *)
(***************************************************************************)
EXTENDS ClusterObjects

VARIABLES
  known,     \* knownClusterSet
  client,    \* [c] uid of the cluster that c's client was made for, 0 if none
  status,    \* [c] clusterClusterStatusMap
  check,     \* the health check and its local variables
  outlived   \* clusters given a status of an earlier one (a ghost)

mapVars     == <<known, client, status>>
monitorVars == <<mapVars, check, outlived>>

Status   == [condition : Healths \cup {"none"}, since : Nat]
NoStatus == [condition |-> "none", since |-> 0]

Checks  == [step : {"idle", "scan", "probe", "save", "write"},
            todo : SUBSET Clusters, at : Clusters,
            listed : [Clusters -> Cluster], with : Nat, old : Status,
            new : Status]
NoCheck == [step |-> "idle", todo |-> {}, at |-> CHOOSE c \in Clusters : TRUE,
            listed |-> [c \in Clusters |-> NoCluster], with |-> 0,
            old |-> NoStatus, new |-> NoStatus]

MonitorTypeOK ==
  /\ known \in SUBSET Clusters
  /\ client \in [Clusters -> Nat]
  /\ status \in [Clusters -> Status]
  /\ check \in Checks
  /\ outlived \in SUBSET Clusters

MonitorInit ==
  /\ known = {}
  /\ client = [c \in Clusters |-> 0]
  /\ status = [c \in Clusters |-> NoStatus]
  /\ check = NoCheck
  /\ outlived = {}

-----------------------------------------------------------------------------
(* The informer's handlers *)

\* addToClusterSet: the cluster is known even if no client can be made for it.
AddKnown(c, o) ==
  /\ known' = known \cup {c}
  /\ IF c \in known THEN UNCHANGED <<client, failed, left>>
     ELSE \/ /\ CanConnect(c, o)
             /\ client' = [client EXCEPT ![c] = o.uid]
             /\ failed' = failed \ {<<"monitor", c>>}
             /\ UNCHANGED left
          \/ /\ CanConnect(c, o) => Spend("mishap")
             /\ CanConnect(c, o) \/ UNCHANGED left
             /\ failed' = failed \cup {<<"monitor", c>>}
             /\ UNCHANGED client
  /\ UNCHANGED <<status, overlooked>>

\* delFromClusterSetByName.
\* Mutant: the status stays.
ForgottenButStatus(c) ==
  /\ known' = known \ {c}
  /\ client' = [client EXCEPT ![c] = 0]
  /\ UNCHANGED status
Forgotten(c) ==
  /\ known' = known \ {c}
  /\ client' = [client EXCEPT ![c] = 0]
  /\ status' = [status EXCEPT ![c] = NoStatus]

\* Updates have no handler: a cluster that left and came back while the watch
\* was broken keeps the client of the one that left.
KeepKnown(c, old, o) ==
  /\ overlooked' = IF old.uid # o.uid
                     THEN overlooked \cup {<<"monitor", c>>} ELSE overlooked
  /\ UNCHANGED <<mapVars, failed, left>>

MonitorEvent(c) ==
  LET e == Head(events["monitor"][c])
      old == store["monitor"][c]
  IN /\ Pop("monitor", c)
     /\ \/ Handler(old, e) = "add" /\ AddKnown(c, e.object)
        \/ Handler(old, e) = "update" /\ KeepKnown(c, old, e.object)
        \/ /\ Handler(old, e) = "delete" /\ Forgotten(c)
           /\ failed' = failed \ {<<"monitor", c>>}
           /\ UNCHANGED <<overlooked, left>>
        \/ /\ Handler(old, e) = "none"
           /\ UNCHANGED <<mapVars, failed, overlooked, left>>
     /\ UNCHANGED <<cluster, credentialVars, health, watching, check,
                    outlived>>

\* delFromClusterSet takes a DeletedFinalStateUnknown for a cluster: the type
\* assertion panics and the controller manager ends.
MonitorPanics ==
  \E c \in Clusters :
    /\ events["monitor"][c] # <<>>
    /\ Handler(store["monitor"][c], Head(events["monitor"][c])) = "missedDelete"

-----------------------------------------------------------------------------
(* updateClusterStatus *)

\* An empty list is left out.
ListClusters ==
  /\ check.step = "idle" /\ \E c \in Clusters : cluster[c].live
  /\ check' = [NoCheck EXCEPT !.step = "scan", !.listed = cluster,
                              !.todo = {c \in Clusters : cluster[c].live}]
  /\ UNCHANGED <<cluster, credentialVars, health, watchVars, historyVars,
                 mapVars, outlived, left>>

\* The next cluster of the list, under the read lock.
NextCluster(c) ==
  /\ check.step = "scan" /\ c \in check.todo
  /\ check' = IF c \in known /\ client[c] # 0
                THEN [check EXCEPT !.step = "probe", !.at = c,
                                   !.with = client[c], !.old = status[c]]
                ELSE [check EXCEPT !.todo = @ \ {c}]
  /\ UNCHANGED <<cluster, credentialVars, health, watchVars, historyVars,
                 mapVars, outlived, left>>

EndScan ==
  /\ check.step = "scan" /\ check.todo = {}
  /\ check' = NoCheck
  /\ UNCHANGED <<cluster, credentialVars, health, watchVars, historyVars,
                 mapVars, outlived, left>>

\* GetClusterHealthStatus with the client read before; the transition is dated
\* now unless the conditions are those of the stored status.
Probed(old, h, now) ==
  [condition |-> h, since |-> IF h = old.condition THEN old.since ELSE now]

Probe ==
  /\ check.step = "probe"
  /\ check' = [check EXCEPT !.step = "save",
                 !.new = Probed(check.old, Reached(check.at, check.with),
                                cluster[check.at].uid)]
  /\ UNCHANGED <<cluster, credentialVars, health, watchVars, historyVars,
                 mapVars, outlived, left>>

SaveStatus ==
  /\ check.step = "save"
  /\ check' = [check EXCEPT !.step = "write"]
  /\ status' = [status EXCEPT ![check.at] = check.new]
  /\ outlived' = IF client[check.at] = check.with
                     /\ check.listed[check.at].uid = check.with
                   THEN outlived ELSE outlived \cup {check.at}
  /\ UNCHANGED <<cluster, credentialVars, health, watchVars, historyVars,
                 known, client, left>>

\* The API server accepts the status of the object as it was listed; nobody
\* else writes a status.
StatusAccepted(c) == /\ cluster[c].live
                     /\ cluster[c].uid = check.listed[c].uid
                     /\ cluster[c].rev = check.listed[c].rev

\* Mutant: the object is written with the status that it was listed with.
CheckedNot(o, s) == o
Checked(o, s) == [o EXCEPT !.condition = s.condition, !.since = s.since]

\* UpdateStatus; its failure is logged.  A write that changes neither the
\* conditions nor their date changes nothing that the model knows.
WriteStatus ==
  LET c == check.at IN
  /\ check.step = "write"
  /\ \/ /\ StatusAccepted(c)
        /\ IF Checked(cluster[c], check.new) = cluster[c]
             THEN UNCHANGED <<cluster, events>>
             ELSE Publish(c, Checked(cluster[c], check.new))
        /\ UNCHANGED left
     \/ ~StatusAccepted(c) /\ UNCHANGED <<cluster, events, left>>
     \/ Spend("mishap") /\ UNCHANGED <<cluster, events>>
  /\ check' = [check EXCEPT !.step = "scan", !.todo = @ \ {c}]
  /\ UNCHANGED <<credentialVars, health, store, watching, historyVars,
                 mapVars, outlived>>

HealthCheck == \/ ListClusters \/ EndScan \/ Probe \/ SaveStatus \/ WriteStatus
               \/ \E c \in Clusters : NextCluster(c)

-----------------------------------------------------------------------------
(* Properties *)

\* A cluster's last transition is not older than the cluster itself, unless the
\* health check stored the status found with a namesake's client, for a cluster
\* listed since or after the namesake had been forgotten (controller.go:217-219).
TransitionsSinceJoin ==
  \A c \in Clusters :
    cluster[c].condition # "none" /\ cluster[c].since < cluster[c].uid
      => c \in outlived
=============================================================================
