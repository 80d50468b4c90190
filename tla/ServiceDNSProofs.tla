-------------------------- MODULE ServiceDNSProofs --------------------------
(***************************************************************************)
(* The service DNS controller misses no trigger.  What the record says is  *)
(* compared with the stores at every step of the worker: as long as        *)
(* nothing is due, the entries entered so far agree with the stores as     *)
(* they are, although the worker reads them one after the other.           *)
(***************************************************************************)
EXTENDS ServiceDNS, TLAPS

Entry(c) == IF c \in store["services"] /\ c \in store["endpoints"]
              THEN "served" ELSE "empty"

\* The entry that status has for c is the one the stores call for; where an
\* informer has still to list the objects of c, another delivery is certain.
Agrees(status, c) ==
  /\ seen["services"][c] # "ready" => status[c] = "none"
  /\ (c \in listed["services"] /\ c \in listed["endpoints"]) => status[c] = Entry(c)

\* The record and the store are the same, and nobody is going to look again.
Settled == ~due /\ ~behind
Quiet   == Settled /\ ~allDue

AboutRecord ==
  (worker.step # "idle" /\ Settled) => (record.live /\ worker.known = record.status)

AboutWork ==
  /\ worker.step = "list" => worker.status = Blank
  /\ worker.step = "update" => worker.todo = {}
  /\ worker.step = "service" =>
       \E c \in worker.todo :
         /\ worker.at = {c}
         /\ (Quiet /\ c \in listed["endpoints"]) => c \in store["endpoints"]
  /\ (worker.step \in {"observe", "service", "update"} /\ Quiet) =>
       \A c \in Clusters :
         IF c \in worker.todo THEN seen["services"][c] = "ready"
                              ELSE Agrees(worker.status, c)

AboutRest ==
  (worker.step = "idle" /\ Quiet /\ record.live) =>
    \A c \in Clusters : Agrees(record.status, c)

IInv == AboutRecord /\ AboutWork /\ AboutRest

-----------------------------------------------------------------------------
(* Types *)

USE DEF Informers, States, Entries, Record, Worker, Events

LEMMA BlankType == Blank \in [Clusters -> Entries]
BY DEF Blank

LEMMA NoRecordType == NoRecord \in Record
BY BlankType DEF NoRecord

LEMMA IdleType == Idle \in Worker
BY BlankType DEF Idle

\* Spend takes one from a budget that is not used up.
LEMMA SpendType ==
  ASSUME TypeOK, NEW e \in Events, Spend(e)
  PROVE left' \in [Events -> Nat]
<1>1. left \in [Events -> Nat] /\ left[e] \in Nat /\ left[e] > 0
  BY DEF TypeOK, Spend
<1>2. left[e] - 1 \in Nat
  BY <1>1
<1> QED BY <1>1, <1>2 DEF Spend

LEMMA EnterType ==
  ASSUME NEW w \in Worker, NEW c \in Clusters, NEW entry \in Entries
  PROVE Enter(w, c, entry) \in Worker
<1>1. [w.status EXCEPT ![c] = entry] \in [Clusters -> Entries]
  OBVIOUS
<1> QED BY <1>1 DEF Enter

LEMMA SameInformers ==
  ASSUME InformersOK, UNCHANGED informerVars PROVE InformersOK'
BY DEF InformersOK, informerVars, Present

LEMMA WorkType == ASSUME TypeOK, Work \/ Fail PROVE TypeOK'
<1> USE DEF TypeOK
<1>1. CASE Start
  <2>1. worker' \in Worker
    BY <1>1, IdleType DEF Start
  <2> QED BY SameInformers, <1>1, <2>1 DEF Start, recordVars
<1>2. CASE ListReady
  <2>1. worker' \in Worker
    BY <1>2 DEF ListReady, Present
  <2> QED BY SameInformers, <1>2, <2>1 DEF ListReady, recordVars
<1>3. CASE Finish
  <2>1. ASSUME NEW c \in Clusters PROVE Preserved(worker, c) \in Entries
    BY DEF Preserved
  <2>2. worker' \in Worker
    BY <1>3, <2>1, IdleType DEF Finish
  <2> QED BY SameInformers, <1>3, <2>2 DEF Finish, recordVars
<1>4. CASE UpdateStatus
  <2>a. record \in Record /\ worker.status \in [Clusters -> Entries]
    OBVIOUS
  <2>1. record' \in Record
    <3> HIDE DEF TypeOK
    <3> QED BY <1>4, <2>a DEF UpdateStatus
  <2> QED BY SameInformers, <1>4, <2>1, IdleType DEF UpdateStatus
<1>5. CASE Fail
  <2>1. left' \in [Events -> Nat]
    BY <1>5, SpendType DEF Fail
  <2> QED BY SameInformers, <1>5, <2>1, IdleType DEF Fail, Retry, recordVars
<1>6. ASSUME NEW c \in Clusters, ObserveEndpoints(c) PROVE TypeOK'
  <2>a. worker \in Worker /\ Enter(worker, c, "empty") \in Worker
    BY EnterType
  <2>1. worker' \in Worker
    <3> HIDE DEF TypeOK
    <3> QED BY <1>6, <2>a DEF ObserveEndpoints
  <2> QED BY SameInformers, <1>6, <2>1 DEF ObserveEndpoints, recordVars
<1>7. ASSUME NEW c \in Clusters, ObserveService(c) PROVE TypeOK'
  <2>1. worker' \in Worker
    BY <1>7, EnterType DEF ObserveService
  <2> QED BY SameInformers, <1>7, <2>1 DEF ObserveService, recordVars
<1> QED BY <1>1, <1>2, <1>3, <1>4, <1>5, <1>6, <1>7 DEF Work

LEMMA InformingType == ASSUME TypeOK, Informing PROVE TypeOK'
<1> USE DEF TypeOK
<1>1. CASE SyncRecord
  BY <1>1, SameInformers DEF SyncRecord
<1> USE DEF InformersOK
<1>2. ASSUME NEW i \in Informers, ListClusters(i) PROVE TypeOK'
  <2>1. Present(i) = {}
    BY <1>2 DEF ListClusters
  <2>2. allDue' \in BOOLEAN
    BY <1>2 DEF ListClusters, Told
  <2>3. seen' \in [Informers -> [Clusters -> States]]
    BY <1>2 DEF ListClusters
  <2>4. ASSUME NEW j \in Informers
        PROVE /\ store'[j] \subseteq listed'[j] /\ listed'[j] \subseteq Present(j)'
              /\ Present(j)' # {} => j \in started'
    BY <1>2, <2>1 DEF ListClusters, Present
  <2> QED BY <1>2, <2>2, <2>3, <2>4 DEF ListClusters, recordVars
<1>3. ASSUME NEW i \in Informers, NEW c \in Clusters, FollowCluster(i, c)
      PROVE TypeOK'
  <2>1. allDue' \in BOOLEAN
    BY <1>3 DEF FollowCluster, Told
  <2>2. seen' \in [Informers -> [Clusters -> States]]
    BY <1>3 DEF FollowCluster
  <2>3. ASSUME NEW j \in Informers
        PROVE /\ store'[j] \subseteq listed'[j] /\ listed'[j] \subseteq Present(j)'
              /\ Present(j)' # {} => j \in started'
    BY <1>3 DEF FollowCluster, Present, Forgotten
  <2> QED BY <1>3, <2>1, <2>2, <2>3 DEF FollowCluster, Forgotten, recordVars
<1>4. ASSUME NEW i \in Informers, NEW c \in Clusters, SyncTarget(i, c)
      PROVE TypeOK'
  <2>1. ASSUME NEW j \in Informers
        PROVE /\ store'[j] \subseteq listed'[j] /\ listed'[j] \subseteq Present(j)'
              /\ Present(j)' # {} => j \in started'
    BY <1>4 DEF SyncTarget, Present
  <2> QED BY <1>4, <2>1 DEF SyncTarget, recordVars
<1> QED BY <1>1, <1>2, <1>3, <1>4 DEF Informing

LEMMA EnvironmentType == ASSUME TypeOK, Environment PROVE TypeOK'
<1> USE DEF TypeOK
<1>1. CASE ChangeRecord
  <2>0. [live |-> TRUE, status |-> Blank] \in Record
    BY BlankType
  <2>a. record \in Record /\ worker \in Worker
    OBVIOUS
  <2>b. record' \in {NoRecord, [live |-> TRUE, status |-> Blank]} \cup {record}
    BY <1>1 DEF ChangeRecord
  <2>c. record' \in Record
    <3> HIDE DEF TypeOK, Record
    <3> QED BY <2>a, <2>b, <2>0, NoRecordType
  <2>d. worker' = [worker EXCEPT !.fresh = FALSE]
    BY <1>1 DEF ChangeRecord
  <2>e. worker' \in Worker
    <3> HIDE DEF TypeOK
    <3> QED BY <2>a, <2>d
  <2>1. record' \in Record /\ worker' \in Worker
    BY <2>c, <2>e
  <2>2. left' \in [Events -> Nat]
    BY <1>1, SpendType DEF ChangeRecord
  <2> QED BY SameInformers, <1>1, <2>1, <2>2 DEF ChangeRecord
<1>2. CASE Crash
  <2>1. left' \in [Events -> Nat]
    BY <1>2, SpendType DEF Crash
  <2>2. InformersOK'
    BY <1>2 DEF Crash, InformersOK, Present, Nothing
  <2> QED BY <1>2, <2>1, <2>2, NoRecordType, IdleType DEF Crash
<1>3. ASSUME NEW c \in Clusters, ChangeMember(c) PROVE TypeOK'
  <2>1. left' \in [Events -> Nat]
    BY <1>3, SpendType DEF ChangeMember
  <2> QED BY SameInformers, <1>3, <2>1 DEF ChangeMember, recordVars
<1>4. ASSUME NEW c \in Clusters, ChangeCluster(c) PROVE TypeOK'
  <2>1. left' \in [Events -> Nat]
    BY <1>4, SpendType DEF ChangeCluster
  <2> QED BY SameInformers, <1>4, <2>1 DEF ChangeCluster, recordVars
<1> QED BY <1>1, <1>2, <1>3, <1>4 DEF Environment

LEMMA NextType == ASSUME TypeOK, [Next]_vars PROVE TypeOK'
<1>1. CASE UNCHANGED vars
  BY <1>1, SameInformers DEF TypeOK, vars, recordVars
<1>2. CASE ClusterChange
  <2>1. due' \in BOOLEAN /\ allDue' \in BOOLEAN
    BY <1>2 DEF ClusterChange, TypeOK, IsSynced
  <2> QED BY <1>2, <2>1, SameInformers DEF ClusterChange, TypeOK, recordVars
<1> QED BY <1>1, <1>2, WorkType, InformingType, EnvironmentType DEF Next

LEMMA InitType == Init => TypeOK
<1> SUFFICES ASSUME Init PROVE TypeOK
  OBVIOUS
<1>1. InformersOK
  BY DEF Init, InformersOK, Present, Nothing
<1> QED BY <1>1, BudgetsAssumption, BlankType, NoRecordType, IdleType DEF Init, TypeOK

\* Every variable keeps its type, and a target informer is listed, and has a
\* store, for ready clusters only (federated_informer.go:262-264).
THEOREM ServiceDNSTypeCorrect == Spec => []TypeOK
BY InitType, NextType, PTL DEF Spec

-----------------------------------------------------------------------------
(* The invariant *)

LEMMA InitInv == Init => IInv
BY DEF Init, IInv, AboutRecord, AboutWork, AboutRest, Settled, Quiet, Idle

LEMMA WorkInv == ASSUME TypeOK, IInv, Work \/ Fail PROVE IInv'
<1> USE DEF TypeOK, IInv, AboutRecord, AboutWork, AboutRest, Settled, Quiet
<1>1. CASE Start
  BY <1>1 DEF Start, Idle, recordVars, informerVars
<1>2. CASE ListReady
  <2>1. AboutRecord' /\ AboutRest'
    BY <1>2 DEF ListReady, recordVars, informerVars
  <2>2. ASSUME NEW c \in Clusters
        PROVE IF c \in worker'.todo THEN seen'["services"][c] = "ready"
                                    ELSE Agrees(worker.status, c)'
    BY <1>2 DEF ListReady, informerVars, InformersOK, Present, Agrees, Blank
  <2> QED BY <1>2, <2>1, <2>2 DEF ListReady, recordVars, informerVars, Agrees
<1>3. CASE Finish
  <2>1. \A c \in Clusters : Preserved(worker, c) = worker.status[c]
    BY DEF Preserved, Copied, Blank
  <2>2. [c \in Clusters |-> Preserved(worker, c)] = worker.status
    BY <2>1
  <2>3. /\ worker.step = "observe" /\ worker.todo = {}
        /\ \/ worker' = Idle /\ worker.known = worker.status
           \/ worker' = [worker EXCEPT !.step = "update", !.status = worker.status]
    BY <1>3, <2>2 DEF Finish, Same
  <2>4. /\ Quiet' = Quiet /\ Settled' = Settled
        /\ UNCHANGED <<record, seen, listed, store>>
    BY <1>3 DEF Finish, recordVars, informerVars
  <2>5. ASSUME Quiet, NEW c \in Clusters PROVE Agrees(worker.status, c)
    BY <2>3, <2>5
  <2>6. CASE worker' = Idle /\ worker.known = worker.status
    BY <2>3, <2>4, <2>5, <2>6 DEF Idle, Agrees, Entry
  <2>7. CASE worker' = [worker EXCEPT !.step = "update", !.status = worker.status]
    BY <2>3, <2>4, <2>5, <2>7 DEF Agrees, Entry
  <2> QED BY <2>3, <2>6, <2>7
<1>4. CASE UpdateStatus \/ Fail
  BY <1>4 DEF UpdateStatus, Fail, Retry, Idle
<1>5. ASSUME NEW c \in Clusters, ObserveEndpoints(c) PROVE IInv'
  <2>1. AboutRecord' /\ AboutRest'
    BY <1>5 DEF ObserveEndpoints, Enter, recordVars, informerVars
  <2>2. CASE c \in store["endpoints"]
    BY <1>5, <2>1, <2>2 DEF ObserveEndpoints, recordVars, informerVars, Agrees, Entry
  <2>3. CASE c \notin store["endpoints"]
    BY <1>5, <2>1, <2>3 DEF ObserveEndpoints, Enter, recordVars, informerVars, Agrees, Entry
  <2> QED BY <2>2, <2>3
<1>6. ASSUME NEW c \in Clusters, ObserveService(c) PROVE IInv'
  <2>1. AboutRecord' /\ AboutRest'
    BY <1>6 DEF ObserveService, Enter, recordVars, informerVars
  <2> QED BY <1>6, <2>1 DEF ObserveService, Enter, recordVars, informerVars, Agrees, Entry
<1> QED BY <1>1, <1>2, <1>3, <1>4, <1>5, <1>6 DEF Work

\* A cluster of which no handler is told had no entry and needs none.
LEMMA Untold ==
  ASSUME TypeOK, NEW new \in [Clusters -> States],
         ~Told("services", seen["services"], new), NEW c \in Clusters,
         seen["services"][c] # new[c]
  PROVE seen["services"][c] # "ready" /\ new[c] # "ready"
BY DEF Told, TypeOK, InformersOK

LEMMA InformingInv == ASSUME TypeOK, IInv, Informing PROVE IInv'
<1> USE DEF IInv, AboutRecord, AboutWork, AboutRest, Settled, Quiet
<1>1. CASE SyncRecord
  BY <1>1 DEF SyncRecord, informerVars
<1>2. ASSUME NEW i \in Informers, NEW c \in Clusters, SyncTarget(i, c) PROVE IInv'
  BY <1>2 DEF SyncTarget, recordVars
<1>3. ASSUME NEW i \in Informers, ListClusters(i) PROVE IInv'
  <2>1. cluster \in [Clusters -> States] /\ seen' = [seen EXCEPT ![i] = cluster]
    BY <1>3 DEF ListClusters, TypeOK
  <2>2. Present(i) = {} /\ InformersOK
    BY <1>3 DEF ListClusters, TypeOK, InformersOK
  <2>3. CASE i = "services"
    <3>1. ASSUME ~allDue', NEW c \in Clusters
          PROVE seen["services"][c] # "ready" /\ seen'["services"][c] # "ready"
      <4>1. seen["services"][c] # "ready" /\ seen'["services"] = cluster
        BY <2>1, <2>2, <2>3 DEF InformersOK, Present
      <4>2. ~Told("services", seen["services"], cluster)
        BY <1>3, <2>3, <3>1 DEF ListClusters
      <4> QED BY <2>1, <4>1, <4>2, Untold
    <3>2. UNCHANGED <<recordVars, listed, store, due, worker>> /\ (allDue => allDue')
      BY <1>3 DEF ListClusters
    <3> QED BY <3>1, <3>2, <2>2, <2>3 DEF recordVars, Agrees, Entry, TypeOK
  <2>4. CASE i = "endpoints"
    <3>1. seen'["services"] = seen["services"]
      <4>1. seen \in [Informers -> [Clusters -> States]]
        BY <2>2 DEF InformersOK
      <4> HIDE DEF IInv, AboutRecord, AboutWork, AboutRest
      <4> QED BY <2>1, <2>4, <4>1
    <3>2. UNCHANGED <<recordVars, listed, store, due, worker>> /\ (allDue => allDue')
      BY <1>3 DEF ListClusters
    <3>3. \A c \in Clusters, s \in [Clusters -> Entries] : Agrees(s, c) => Agrees(s, c)'
      BY <3>1, <3>2 DEF Agrees, Entry
    <3> QED BY <3>1, <3>2, <3>3 DEF recordVars, TypeOK
  <2> QED BY <2>3, <2>4
<1>4. ASSUME NEW i \in Informers, NEW c \in Clusters, FollowCluster(i, c) PROVE IInv'
  <2> DEFINE new == [seen[i] EXCEPT ![c] = cluster[c]]
  <2>1. new \in [Clusters -> States] /\ InformersOK
    BY DEF TypeOK, InformersOK
  <2>2. /\ seen' = [seen EXCEPT ![i] = new]
        /\ listed' = [listed EXCEPT ![i] = @ \ {c}]
        /\ store' = [store EXCEPT ![i] = @ \ {c}]
    BY <1>4 DEF FollowCluster, Forgotten
  <2>3. CASE i = "services"
    <3>1. ASSUME ~allDue'
          PROVE seen["services"][c] # "ready" /\ seen'["services"][c] # "ready"
      BY <1>4, <2>1, <2>2, <2>3, <3>1, Untold DEF FollowCluster, InformersOK
    <3>2. ASSUME NEW d \in Clusters \ {c}
          PROVE /\ seen'["services"][d] = seen["services"][d]
                /\ d \in listed'["services"] <=> d \in listed["services"]
                /\ d \in store'["services"] <=> d \in store["services"]
      BY <2>1, <2>2, <2>3 DEF InformersOK
    <3>3. c \notin listed'["services"]
      BY <2>1, <2>2, <2>3 DEF InformersOK
    <3>4. /\ UNCHANGED <<recordVars, due, worker>> /\ (allDue => allDue')
          /\ listed'["endpoints"] = listed["endpoints"]
          /\ store'["endpoints"] = store["endpoints"]
      BY <1>4, <2>1, <2>2, <2>3 DEF FollowCluster, InformersOK
    <3>5. ASSUME Quiet', NEW s, NEW d \in Clusters, Agrees(s, d)
          PROVE Agrees(s, d)'
      BY <3>1, <3>2, <3>3, <3>4, <3>5 DEF recordVars, Agrees, Entry
    <3>6. AboutRecord' /\ AboutRest'
      BY <3>4, <3>5 DEF recordVars
    <3>7. ASSUME Quiet', NEW d \in worker.todo,
                 worker.step \in {"observe", "service", "update"}
          PROVE seen'["services"][d] = "ready"
      BY <3>1, <3>2, <3>4, <3>7 DEF TypeOK, recordVars
    <3>8. Quiet' => Quiet
      BY <3>4 DEF recordVars
    <3>9. ASSUME worker.step = "service"
          PROVE \E d \in worker.todo :
                  /\ worker.at = {d}
                  /\ (Quiet' /\ d \in listed'["endpoints"]) => d \in store'["endpoints"]
      BY <3>4, <3>8, <3>9
    <3>10. ASSUME worker.step \in {"observe", "service", "update"}, Quiet',
                  NEW d \in Clusters
           PROVE IF d \in worker.todo THEN seen'["services"][d] = "ready"
                                      ELSE Agrees(worker.status, d)'
      BY <3>4, <3>5, <3>7, <3>8, <3>10
    <3>11. AboutWork'
      BY <3>4, <3>9, <3>10
    <3> QED BY <3>6, <3>11
  <2>4. CASE i = "endpoints"
    <3>1. /\ seen'["services"] = seen["services"]
          /\ listed'["services"] = listed["services"]
          /\ store'["services"] = store["services"]
          /\ listed'["endpoints"] = listed["endpoints"] \ {c}
          /\ store'["endpoints"] = store["endpoints"] \ {c}
      BY <2>1, <2>2, <2>4 DEF InformersOK
    <3>2. UNCHANGED <<recordVars, due, worker>> /\ (Quiet' => Quiet)
      BY <1>4, <2>4 DEF FollowCluster, recordVars
    <3>3. \A d \in Clusters :
            d \in listed'["endpoints"] =>
              /\ d \in listed["endpoints"]
              /\ d \in store'["endpoints"] <=> d \in store["endpoints"]
      BY <3>1
    <3>4. ASSUME NEW s, NEW d \in Clusters, Agrees(s, d)
          PROVE Agrees(s, d)'
      BY <3>1, <3>3, <3>4 DEF Agrees, Entry
    <3>5. AboutRecord' /\ AboutRest'
      BY <3>2, <3>4 DEF recordVars
    <3>6. AboutWork'
      BY <3>1, <3>2, <3>3, <3>4 DEF TypeOK
    <3> QED BY <3>5, <3>6
  <2> QED BY <2>3, <2>4
<1> QED BY <1>1, <1>2, <1>3, <1>4 DEF Informing

LEMMA NextInv == ASSUME TypeOK, IInv, [Next]_vars PROVE IInv'
<1> USE DEF IInv, AboutRecord, AboutWork, AboutRest, Settled, Quiet
<1>1. CASE UNCHANGED vars
  BY <1>1 DEF vars, recordVars, informerVars, Agrees, Entry
<1>2. CASE ClusterChange
  <2>1. ASSUME Settled' PROVE Settled /\ ~cached.live
    BY <1>2, <2>1 DEF ClusterChange, recordVars
  <2>2. ASSUME Settled' PROVE worker.step = "idle" /\ ~record.live
    BY <2>1, <2>2 DEF TypeOK
  <2> QED BY <1>2, <2>1, <2>2 DEF ClusterChange, recordVars, informerVars
<1>3. CASE ChangeRecord
  <2>1. /\ worker'.step = worker.step /\ worker'.todo = worker.todo
        /\ worker'.at = worker.at /\ worker'.status = worker.status /\ ~Settled'
    BY <1>3 DEF ChangeRecord, TypeOK
  <2> QED BY <2>1
<1>5. CASE Crash
  BY <1>5 DEF Crash, Idle
<1>4. ASSUME NEW c \in Clusters, ChangeMember(c) \/ ChangeCluster(c) PROVE IInv'
  BY <1>4 DEF ChangeMember, ChangeCluster, recordVars, informerVars, Agrees, Entry
<1> QED BY <1>1, <1>2, <1>3, <1>4, <1>5, WorkInv, InformingInv DEF Next, Environment

LEMMA InvImplies == TypeOK /\ IInv => NothingMissed
<1> SUFFICES ASSUME TypeOK, IInv, worker.step = "idle", Quiet, record.live, IsSynced,
                    \A i \in Informers : seen[i] = cluster,
                    NEW c \in Clusters
             PROVE Right(c, \A i \in Informers : c \in store[i])
  BY DEF NothingMissed, Quiet, Settled
<1>1. Agrees(record.status, c)
  BY DEF IInv, AboutRest
<1>2. cluster[c] = "ready" => \A i \in Informers : c \in listed[i]
  BY DEF IsSynced, Present
<1>3. (\A i \in Informers : c \in store[i])
        <=> (c \in store["services"] /\ c \in store["endpoints"])
  OBVIOUS
<1> QED BY <1>1, <1>2, <1>3 DEF Right, Agrees, Entry, TypeOK

\* No trigger is lost: when nothing is due, the record tells what the stores of
\* the ready clusters tell (controller.go:354-377), in whatever order clusters,
\* services, endpoints and the record change, for any clusters and budgets.
THEOREM NoTriggerMissed == Spec => []NothingMissed
<1>1. Spec => [](TypeOK /\ IInv)
  BY InitType, InitInv, NextType, NextInv, PTL DEF Spec
<1> QED BY <1>1, InvImplies, PTL
=============================================================================
