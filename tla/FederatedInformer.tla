------------------------- MODULE FederatedInformer -------------------------
(***************************************************************************)
(* A federated informer (pkg/controller/util/federated_informer.go): its   *)
(* cluster informer starts a target informer for each ready cluster and    *)
(* stops it when the cluster changes or leaves.  The handlers run in one   *)
(* goroutine and take the lock for deleteCluster and for addCluster        *)
(* separately; Stop may come in between.                                   *)
(***************************************************************************)
EXTENDS ClusterObjects

CONSTANT Informers   \* target informers that may run for one cluster

ASSUME InformersAssumption == 0 \notin Informers

VARIABLES
  target,     \* [c] targetInformers, id = 0 if there is none
  running,    \* [c] target informers whose stop channel is open
  hasSynced,  \* [c] those that have listed the member's objects
  handler,    \* the goroutine of the handlers and its local variables
  stopped     \* Stop was called

informerVars == <<target, running, hasSynced, handler, stopped>>

\* The registered informer, and the object that its client was made from.
Target   == [id : Informers \cup {0}, uid : Nat, rev : Nat]
NoTarget == [id |-> 0, uid |-> 0, rev |-> 0]

Handlers  == [step : {"idle", "delete", "add"}, at : Clusters, cur : Cluster]
NoHandler == [step |-> "idle", at |-> CHOOSE c \in Clusters : TRUE,
              cur |-> NoCluster]

InformerTypeOK ==
  /\ target \in [Clusters -> Target]
  /\ running \in [Clusters -> SUBSET Informers]
  /\ hasSynced \in [Clusters -> SUBSET Informers]
  /\ handler \in Handlers
  /\ stopped \in BOOLEAN

InformerInit ==
  /\ target = [c \in Clusters |-> NoTarget]
  /\ running = [c \in Clusters |-> {}]
  /\ hasSynced = running
  /\ handler = NoHandler
  /\ stopped = FALSE

-----------------------------------------------------------------------------
(* The handlers of the cluster informer *)

Handle(step, c, o) == handler' = [step |-> step, at |-> c, cur |-> o]

\* The spec has the secret's name, the annotations are counted in rev; the uid
\* is not looked at.
RestartNeeded(old, o) ==
  \/ IsReady(old) # IsReady(o)
  \/ old.secret # o.secret \/ old.rev # o.rev

\* AddFunc, UpdateFunc and DeleteFunc up to their first lock.  DeleteFunc does
\* nothing for a DeletedFinalStateUnknown.
InformerEvent(c) ==
  LET e == Head(events["informer"][c])
      old == store["informer"][c]
  IN /\ handler.step = "idle"
     /\ Pop("informer", c)
     /\ \/ /\ Handler(old, e) = "add"
           /\ IF IsReady(e.object) THEN Handle("add", c, e.object)
              ELSE UNCHANGED handler
           /\ UNCHANGED overlooked
        \/ /\ Handler(old, e) = "update"
           /\ IF RestartNeeded(old, e.object) THEN Handle("delete", c, e.object)
              ELSE UNCHANGED handler
           /\ overlooked' = IF old.uid # e.object.uid
                              THEN overlooked \cup {<<"informer", c>>}
                              ELSE overlooked
        \/ /\ Handler(old, e) = "delete"
           /\ Handle("delete", c, NoCluster) /\ UNCHANGED overlooked
        \/ /\ Handler(old, e) = "missedDelete"
           /\ overlooked' = overlooked \cup {<<"informer", c>>}
           /\ UNCHANGED handler
        \/ Handler(old, e) = "none" /\ UNCHANGED <<handler, overlooked>>
     /\ UNCHANGED <<cluster, credentialVars, health, watching, failed, target,
                    running, hasSynced, stopped, left>>

\* deleteCluster.
\* Mutant: the informer is stopped, but left on the map.
UnregisteredNot(t, c) == t
Unregistered(t, c) == [t EXCEPT ![c] = NoTarget]

\* Mutant: the informer is taken off the map, but not stopped.
ClosedNot(r, t) == r
Closed(r, t) == r \ {t.id}

DeleteCluster ==
  LET c == handler.at IN
  /\ handler.step = "delete"
  /\ target' = Unregistered(target, c)
  /\ running' = [running EXCEPT ![c] = Closed(@, target[c])]
  /\ handler' = IF IsReady(handler.cur) THEN [handler EXCEPT !.step = "add"]
                ELSE NoHandler
  /\ failed' = failed \ {<<"informer", c>>}
  /\ UNCHANGED <<cluster, credentialVars, health, watchVars, overlooked,
                 hasSynced, stopped, left>>

\* addCluster: an entry of the map is overwritten, and not stopped.
NewInformer(c) == CHOOSE i \in Informers : i \notin running[c]

AddCluster ==
  LET c == handler.at
      o == handler.cur
  IN
  /\ handler.step = "add"
  /\ \/ /\ CanConnect(c, o) /\ running[c] # Informers
        /\ target' = [target EXCEPT ![c] = [id |-> NewInformer(c),
                                            uid |-> o.uid, rev |-> o.rev]]
        /\ running' = [running EXCEPT ![c] = @ \cup {NewInformer(c)}]
        /\ hasSynced' = [hasSynced EXCEPT ![c] = @ \ {NewInformer(c)}]
        /\ failed' = failed \ {<<"informer", c>>}
        /\ UNCHANGED left
     \/ /\ CanConnect(c, o) => Spend("mishap")
        /\ CanConnect(c, o) \/ UNCHANGED left
        /\ failed' = failed \cup {<<"informer", c>>}
        /\ UNCHANGED <<target, running, hasSynced>>
  /\ handler' = NoHandler
  /\ UNCHANGED <<cluster, credentialVars, health, watchVars, overlooked,
                 stopped>>

Handlings == DeleteCluster \/ AddCluster

-----------------------------------------------------------------------------
(* Target informers, Stop and readers *)

SyncTarget(c) ==
  /\ target[c].id # 0 /\ target[c].id \notin hasSynced[c]
  /\ Reached(c, target[c].uid) = "ready"
  /\ hasSynced' = [hasSynced EXCEPT ![c] = @ \cup {target[c].id}]
  /\ UNCHANGED <<cluster, credentialVars, health, watchVars, historyVars,
                 target, running, handler, stopped, left>>

\* Stop ends the watch and the informers on the map; events that have arrived
\* are still handled.
Stop ==
  /\ ~stopped
  /\ Spend("mishap")
  /\ stopped' = TRUE
  /\ watching' = watching \ {"informer"}
  /\ running' = [c \in Clusters |-> running[c] \ {target[c].id}]
  /\ target' = [c \in Clusters |-> NoTarget]
  /\ UNCHANGED <<cluster, credentialVars, health, events, store, historyVars,
                 hasSynced, handler>>

\* GetReadyClusters, and ClustersSynced of the target store.
ReadyClusters == {c \in Clusters : IsReady(store["informer"][c])}

ClustersSynced(cs) ==
  /\ Cardinality({c \in Clusters : target[c].id # 0}) = Cardinality(cs)
  /\ \A c \in cs : target[c].id # 0 /\ target[c].id \in hasSynced[c]

-----------------------------------------------------------------------------
(* Properties *)

Handling(c) == handler.step # "idle" /\ handler.at = c

\* A target informer that nobody can stop any more: it is not on the map.
Stray(c) == running[c] \ {target[c].id}

\* Informers run for ready clusters and can be stopped: one that runs is on the
\* map, and what is on the map runs, unless the departure of the cluster was
\* overlooked (federated_informer.go:188) or Stop came between an event and
\* its handler (lines 288 and 408).
InformersOnMap ==
  \A c \in Clusters :
    /\ target[c].id # 0 => target[c].id \in running[c]
    /\ Stray(c) # {} => <<"informer", c>> \in overlooked \/ stopped
    /\ target[c].id # 0 =>
         \/ IsReady(store["informer"][c])
         \/ handler.step = "delete" /\ handler.at = c
         \/ <<"informer", c>> \in overlooked \/ stopped

\* The comment on Stop (federated_informer.go:108) says that it stops all the
\* processes inside the informer.
StopsEverything ==
  stopped /\ handler.step = "idle" => \A c \in Clusters : running[c] = {}
=============================================================================
