----------------------------- MODULE ServiceDNS -----------------------------
(***************************************************************************)
(* The service DNS controller (pkg/controller/servicedns/controller.go)    *)
(* for one record: a worker that collects, from the stores of a service    *)
(* and an endpoint informer, where the service can be reached, and writes  *)
(* it to the record's status; around it the members, the clusters' state,  *)
(* the users of the record, and the crash of the controller.               *)
(***************************************************************************)
EXTENDS Naturals, FiniteSets

CONSTANTS
  Clusters,
  Budgets    \* how often each event of the environment may happen

Events == {"member", "cluster", "record", "fault", "crash"}

ASSUME BudgetsAssumption == Budgets \subseteq [Events -> Nat]

VARIABLES
  cluster,  \* [c] the FederatedCluster
  member,   \* [c] what the objects of the member have: "ingress", "addresses"
  record,   \* the MultiClusterServiceDNSRecord in the API
  cached,   \* the record in serviceDNSStore
  behind,   \* the record has changed since
  started,  \* informers that have listed the clusters
  seen,     \* [i][c] the FederatedCluster in the store of informer i
  listed,   \* [i] clusters whose objects informer i has listed
  store,    \* [i] clusters whose object in the store of i has Content[i]
  due,      \* the record is delivered, now or later
  allDue,   \* allClustersKey is delivered, now or later
  worker,   \* the worker and its local variables
  left      \* what is left of a budget

recordVars   == <<record, cached, behind>>
informerVars == <<started, seen, listed, store>>
vars == <<cluster, member, recordVars, informerVars, due, allDue, worker, left>>

Informers == {"services", "endpoints"}
Content   == [i \in Informers |-> IF i = "services" THEN "ingress" ELSE "addresses"]
States    == {"ready", "unready", "gone"}

\* The entry of a cluster: none, one without load balancer, or one with it.
Entries == {"none", "empty", "served"}
Record  == [live : BOOLEAN, status : [Clusters -> Entries]]
Blank   == [c \in Clusters |-> "none"]
NoRecord == [live |-> FALSE, status |-> Blank]

\* known: the status of the record that was read; fresh: nobody has written the
\* record since it was taken to the store.
Worker == [step : {"idle", "list", "observe", "service", "finish", "update"},
           todo : SUBSET Clusters, at : SUBSET Clusters,
           known : [Clusters -> Entries], status : [Clusters -> Entries],
           fresh : BOOLEAN]
Idle   == [step |-> "idle", todo |-> {}, at |-> {}, known |-> Blank,
           status |-> Blank, fresh |-> FALSE]

Present(i) == {c \in Clusters : seen[i][c] = "ready"}

\* A target informer is listed, and has a store, for ready clusters only.
InformersOK ==
  /\ started \subseteq Informers
  /\ seen \in [Informers -> [Clusters -> States]]
  /\ listed \in [Informers -> SUBSET Clusters] /\ store \in [Informers -> SUBSET Clusters]
  /\ \A i \in Informers :
       /\ store[i] \subseteq listed[i] /\ listed[i] \subseteq Present(i)
       /\ Present(i) # {} => i \in started

TypeOK ==
  /\ cluster \in [Clusters -> States]
  /\ member \in [Clusters -> SUBSET {"ingress", "addresses"}]
  /\ record \in Record /\ cached \in Record /\ behind \in BOOLEAN
  /\ ~behind => cached = record
  /\ InformersOK
  /\ due \in BOOLEAN /\ allDue \in BOOLEAN
  /\ worker \in Worker
  /\ left \in [Events -> Nat]

Nothing == [i \in Informers |-> {}]

Init ==
  /\ cluster = [c \in Clusters |-> "ready"]
  /\ member = [c \in Clusters |-> {"ingress", "addresses"}]
  /\ record = [live |-> TRUE, status |-> Blank]
  /\ cached = NoRecord /\ behind = TRUE
  /\ started = {}
  /\ seen = [i \in Informers |-> [c \in Clusters |-> "gone"]]
  /\ listed = Nothing /\ store = Nothing
  /\ due = FALSE /\ allDue = FALSE
  /\ worker = Idle
  /\ left \in Budgets

Spend(event) == /\ left[event] > 0
                /\ left' = [left EXCEPT ![event] = @ - 1]

-----------------------------------------------------------------------------
(* Deliveries *)

\* The clusters and their objects are listed; the map of target informers and
\* the cluster store change together here: in between isSynced is false.
IsSynced == /\ started = Informers
            /\ \A i \in Informers : listed[i] = Present(i)

\* reconcileOnClusterChange goes on after it has put itself off.
ClusterChange ==
  /\ allDue
  /\ allDue' = ~IsSynced
  /\ due' = (due \/ cached.live)
  /\ UNCHANGED <<cluster, member, recordVars, informerVars, worker, left>>

-----------------------------------------------------------------------------
(* The worker *)

\* A delivery that finds the stores not synced comes again.

Start ==
  /\ worker.step = "idle" /\ due
  /\ due' = ~IsSynced
  /\ worker' = IF IsSynced /\ cached.live
                 THEN [Idle EXCEPT !.step = "list", !.known = cached.status,
                                   !.fresh = ~behind]
                 ELSE worker
  /\ UNCHANGED <<cluster, member, recordVars, informerVars, allDue, left>>

\* GetReadyClusters.
ListReady ==
  /\ worker.step = "list"
  /\ worker' = [worker EXCEPT !.step = "observe", !.todo = Present("services")]
  /\ UNCHANGED <<cluster, member, recordVars, informerVars, due, allDue, left>>

Enter(w, c, entry) == [w EXCEPT !.step = "observe", !.at = {},
                                !.todo = @ \ {c},
                                !.status = [@ EXCEPT ![c] = entry]]

\* serviceBackedByEndpointsInCluster, and then getServiceStatusInCluster: a
\* store that is gone has no object, and that is no error.
ObserveEndpoints(c) ==
  /\ worker.step = "observe" /\ c \in worker.todo
  /\ worker' = IF c \in store["endpoints"]
                 THEN [worker EXCEPT !.step = "service", !.at = {c}]
                 ELSE Enter(worker, c, "empty")
  /\ UNCHANGED <<cluster, member, recordVars, informerVars, due, allDue, left>>

ObserveService(c) ==
  /\ worker.step = "service" /\ worker.at = {c}
  /\ worker' = Enter(worker, c,
                     IF c \in store["services"] THEN "served" ELSE "empty")
  /\ UNCHANGED <<cluster, member, recordVars, informerVars, due, allDue, left>>

\* Entries of offline clusters are looked for in fedDNS, whose status is blank
\* since only metadata and spec are copied.
Copied(w) == Blank
Preserved(w, c) ==
  IF seen["services"][c] = "unready" /\ Copied(w)[c] # "none"
    THEN "empty" ELSE w.status[c]

Same(w, status) == w.known = status

Finish ==
  LET status == [c \in Clusters |-> Preserved(worker, c)] IN
  /\ worker.step = "observe" /\ worker.todo = {}
  /\ worker' = IF Same(worker, status) THEN Idle
               ELSE [worker EXCEPT !.step = "update", !.status = status]
  /\ UNCHANGED <<cluster, member, recordVars, informerVars, due, allDue, left>>

\* UpdateStatus carries the resource version of the record that was read.
MayUpdate(w) == record.live /\ w.fresh

UpdateStatus ==
  /\ worker.step = "update" /\ MayUpdate(worker)
  /\ record' = [record EXCEPT !.status = worker.status]
  /\ behind' = TRUE
  /\ worker' = Idle
  /\ UNCHANGED <<cluster, member, cached, informerVars, due, allDue, left>>

\* A conflict, a record that is gone or a failed call: after a backoff, the
\* record is delivered again.
\* Mutant: it is not.
RetryNever == UNCHANGED due
Retry == due' = TRUE

Fail ==
  /\ worker.step = "update"
  /\ IF MayUpdate(worker) THEN Spend("fault") ELSE UNCHANGED left
  /\ worker' = Idle /\ Retry
  /\ UNCHANGED <<cluster, member, recordVars, informerVars, allDue>>

Work == \/ Start \/ ListReady \/ Finish \/ UpdateStatus
        \/ \E c \in Clusters : ObserveEndpoints(c) \/ ObserveService(c)

-----------------------------------------------------------------------------
(* The informers *)

SyncRecord ==
  /\ behind
  /\ cached' = record /\ behind' = FALSE /\ due' = TRUE
  /\ UNCHANGED <<cluster, member, record, informerVars, allDue, worker, left>>

\* Only the service informer has handlers; they run when a target informer is
\* started and when one may have stopped.
\* Mutant: only when one is started.
ToldStarted(i, old, new) ==
  i = "services" /\ \E c \in Clusters : old[c] # new[c] /\ new[c] = "ready"
Told(i, old, new) ==
  i = "services"
    /\ \E c \in Clusters : old[c] # new[c] /\ (new[c] # "unready" \/ old[c] = "ready")

ListClusters(i) ==
  /\ i \notin started
  /\ started' = started \cup {i}
  /\ seen' = [seen EXCEPT ![i] = cluster]
  /\ allDue' = (allDue \/ Told(i, seen[i], cluster))
  /\ UNCHANGED <<cluster, member, recordVars, listed, store, due, worker, left>>

\* deleteCluster takes the store along.
\* Mutant: a cluster that was ready before keeps it.
ForgottenNot(clusters, c) == clusters
Forgotten(clusters, c) == clusters \ {c}

FollowCluster(i, c) ==
  LET new == [seen[i] EXCEPT ![c] = cluster[c]] IN
  /\ i \in started /\ seen[i] # new
  /\ seen' = [seen EXCEPT ![i] = new]
  /\ listed' = [listed EXCEPT ![i] = Forgotten(@, c)]
  /\ store' = [store EXCEPT ![i] = Forgotten(@, c)]
  /\ allDue' = (allDue \/ Told(i, seen[i], new))
  /\ UNCHANGED <<cluster, member, recordVars, started, due, worker, left>>

\* The object of c exists: there is an event when it is listed, and one for each
\* change.
SyncTarget(i, c) ==
  LET new == IF Content[i] \in member[c] THEN store[i] \cup {c} ELSE store[i] \ {c}
  IN
  /\ c \in Present(i) /\ cluster[c] = "ready"
  /\ c \notin listed[i] \/ store[i] # new
  /\ listed' = [listed EXCEPT ![i] = @ \cup {c}]
  /\ store' = [store EXCEPT ![i] = new]
  /\ due' = TRUE
  /\ UNCHANGED <<cluster, member, recordVars, started, seen, allDue, worker, left>>

Informing == \/ SyncRecord
             \/ \E i \in Informers :
                  \/ ListClusters(i)
                  \/ \E c \in Clusters : FollowCluster(i, c) \/ SyncTarget(i, c)

-----------------------------------------------------------------------------
(* Members, clusters, users and crashes *)

ChangeMember(c) ==
  /\ Spend("member")
  /\ \E x \in {"ingress", "addresses"} :
       member' = [member EXCEPT ![c] = IF x \in @ THEN @ \ {x} ELSE @ \cup {x}]
  /\ UNCHANGED <<cluster, recordVars, informerVars, due, allDue, worker>>

ChangeCluster(c) ==
  /\ Spend("cluster")
  /\ \E s \in States \ {cluster[c]} : cluster' = [cluster EXCEPT ![c] = s]
  /\ UNCHANGED <<member, recordVars, informerVars, due, allDue, worker>>

\* Users create, delete or edit the record; a new one has no status.
ChangeRecord ==
  /\ Spend("record")
  /\ record' \in {NoRecord, [live |-> TRUE, status |-> Blank]} \cup {record}
  /\ record' # record \/ record.live
  /\ behind' = TRUE
  /\ worker' = [worker EXCEPT !.fresh = FALSE]
  /\ UNCHANGED <<cluster, member, cached, informerVars, due, allDue>>

\* The controller starts anew, with nothing but the API.
Crash ==
  /\ Spend("crash")
  /\ cached' = NoRecord /\ behind' = TRUE
  /\ started' = {} /\ listed' = Nothing /\ store' = Nothing
  /\ seen' = [i \in Informers |-> [c \in Clusters |-> "gone"]]
  /\ due' = FALSE /\ allDue' = FALSE /\ worker' = Idle
  /\ UNCHANGED <<cluster, member, record>>

Environment == \/ ChangeRecord \/ Crash
               \/ \E c \in Clusters : ChangeMember(c) \/ ChangeCluster(c)

Next == ClusterChange \/ Work \/ Fail \/ Informing \/ Environment

Spec == Init /\ [][Next]_vars

\* The deliverers, the worker and each watch go on; a failed call is not made
\* to happen.
FairSpec ==
  /\ Spec
  /\ WF_vars(ClusterChange) /\ WF_vars(Work \/ Fail) /\ WF_vars(SyncRecord)
  /\ \A i \in Informers :
       /\ WF_vars(ListClusters(i))
       /\ \A c \in Clusters : WF_vars(FollowCluster(i, c)) /\ WF_vars(SyncTarget(i, c))

-----------------------------------------------------------------------------
(* Properties *)

\* The entry of c is right: that of a ready cluster tells whether the service is
\* served there, an offline cluster has no load balancer, one that has left no
\* entry.
Right(c, served) ==
  CASE cluster[c] = "ready" -> record.status[c] = IF served THEN "served" ELSE "empty"
    [] cluster[c] = "unready" -> record.status[c] # "served"
    [] cluster[c] = "gone" -> record.status[c] = "none"

\* No trigger is lost: what the stores have and the record has not is always
\* about to be reconciled, although events of four kinds arrive in any order,
\* the endpoint informer has no handlers for clusters (controller.go:185), and
\* the worker reads the stores one after the other (lines 355-377).
NothingMissed ==
  worker.step = "idle" /\ ~due /\ ~allDue /\ ~behind /\ record.live /\ IsSynced
    /\ (\A i \in Informers : seen[i] = cluster)
  => \A c \in Clusters : Right(c, \A i \in Informers : c \in store[i])

\* In the end the record tells where the service is backed by endpoints, however
\* often the controller crashed or met conflicts (controller.go:354-377).
Converges ==
  <>[](record.live => \A c \in Clusters :
                        Right(c, member[c] = {"ingress", "addresses"}))

\* "We should preserve ClusterDNS entries (without loadbalancers) for offline
\* clusters" (controller.go:379-382): an entry stays while its cluster is offline.
OfflineKept ==
  [][\A c \in Clusters :
       /\ UpdateStatus /\ record.status[c] # "none"
       /\ seen["services"][c] = "unready" /\ cluster[c] = "unready"
       => record'.status[c] = "empty"]_vars
=============================================================================
