--------------------------- MODULE ClusterObjects ---------------------------
(***************************************************************************)
(* What kubefnord join, the cluster controller and a federated informer    *)
(* share: the FederatedCluster objects of the host's API server, the       *)
(* credentials that a client of a member is made from, and the watches     *)
(* that bring the objects to the two informers of the controller manager.  *)
(***************************************************************************)
EXTENDS Naturals, Sequences, FiniteSets

CONSTANTS
  Clusters,     \* names of member clusters
  MaxQueued,    \* bound on the events of one cluster that a watch holds
  Budgets       \* how often each event of the environment may happen

\* A mishap is an edit of the cluster, a failed call, a broken watch, a crash of
\* the controller manager, or the end of the controller behind the informer.
Events == {"join", "unjoin", "flip", "mishap"}

ASSUME ClustersAssumption  == Clusters # {}
ASSUME MaxQueuedAssumption == MaxQueued \in Nat \ {0}
ASSUME BudgetsAssumption   == Budgets \subseteq [Events -> Nat]

VARIABLES
  cluster,      \* [c] the FederatedCluster in the API
  registry,     \* clusters in the cluster registry
  secrets,      \* [c] secrets of c in the host cluster
  member,       \* [c] what join has created in the member
  health,       \* [c] what the member's /healthz would say
  events,       \* [w][c] events on their way to watcher w
  store,        \* [w][c] the informer store of w
  watching,     \* watchers whose watch has not been stopped
  failed,       \* <<w, c>>: w failed to make a client of c
  overlooked,   \* <<w, c>>: w took no notice that c had left
  left          \* what is left of a budget

credentialVars == <<registry, secrets, member>>
watchVars      == <<events, store, watching>>
historyVars    == <<failed, overlooked>>

\* The cluster controller's informer and the one inside a federated informer.
Watchers == {"monitor", "informer"}

\* healthz: "ok"; something else; no answer.
Healths == {"ready", "notReady", "offline"}

\* uid counts the times a cluster of the name was created, rev the edits of
\* its spec and annotations; since is the uid at the last transition.
Cluster   == [live : BOOLEAN, uid : Nat, secret : Nat, rev : Nat,
              condition : Healths \cup {"none"}, since : Nat]
NoCluster == [live |-> FALSE, uid |-> 0, secret |-> 0, rev |-> 0,
              condition |-> "none", since |-> 0]

\* relisted: learnt from a list after the watch broke, not from an event.
Event == [object : Cluster, relisted : BOOLEAN]
Seen(o) == [object |-> o, relisted |-> FALSE]

IsReady(o) == o.condition = "ready"

ObjectsTypeOK ==
  /\ cluster \in [Clusters -> Cluster]
  /\ registry \in SUBSET Clusters
  /\ secrets \in [Clusters -> SUBSET Nat]
  /\ health \in [Clusters -> Healths]
  /\ events \in [Watchers -> [Clusters -> Seq(Event)]]
  /\ store \in [Watchers -> [Clusters -> Cluster]]
  /\ watching \in SUBSET Watchers
  /\ failed \in SUBSET (Watchers \X Clusters)
  /\ overlooked \in SUBSET (Watchers \X Clusters)
  /\ left \in [Events -> Nat]

ObjectsInit ==
  /\ cluster = [c \in Clusters |-> NoCluster]
  /\ registry \in SUBSET Clusters
  /\ secrets = [c \in Clusters |-> {}]
  /\ health = [c \in Clusters |-> "ready"]
  /\ events = [w \in Watchers |-> [c \in Clusters |-> <<>>]]
  /\ store = [w \in Watchers |-> cluster]
  /\ watching = Watchers
  /\ failed = {} /\ overlooked = {}
  /\ left \in Budgets

Spend(event) == /\ left[event] > 0
                /\ left' = [left EXCEPT ![event] = @ - 1]

\* The API server stores o for c and sends an event to each watch.
Publish(c, o) ==
  /\ \A w \in watching : Len(events[w][c]) < MaxQueued
  /\ cluster' = [cluster EXCEPT ![c] = o]
  /\ events' = [w \in Watchers |->
                  IF w \in watching
                    THEN [events[w] EXCEPT ![c] = Append(@, Seen(o))]
                    ELSE events[w]]

Removed(o) == [o EXCEPT !.live = FALSE, !.condition = "none", !.since = 0]

\* The next event of c is taken from w's watch, and put in w's store before
\* any handler is called.
Pop(w, c) ==
  /\ events[w][c] # <<>>
  /\ events' = [events EXCEPT ![w][c] = Tail(@)]
  /\ store' = [store EXCEPT ![w][c] = IF Head(events[w][c]).object.live
                                        THEN Head(events[w][c]).object
                                        ELSE NoCluster]

\* Which handler an event calls (client-go's informers decide by the store);
\* a deletion learnt from a list arrives as DeletedFinalStateUnknown.
Handler(old, e) ==
  IF e.object.live THEN IF old.live THEN "update" ELSE "add"
  ELSE IF ~old.live THEN "none"
  ELSE IF e.relisted THEN "missedDelete" ELSE "delete"

\* A watch breaks: its events are lost, and a list shows where things stand.
Differences(w) ==
  [c \in Clusters |->
     IF cluster[c] = store[w][c] \/ (~cluster[c].live /\ ~store[w][c].live)
       THEN <<>>
       ELSE <<[object |-> cluster[c], relisted |-> TRUE]>>]

Relist(w) ==
  /\ w \in watching
  /\ Spend("mishap")
  /\ events' = [events EXCEPT ![w] = Differences(w)]
  /\ UNCHANGED <<cluster, credentialVars, health, store, watching,
                 historyVars>>

\* BuildClusterConfig: the registry has the address, the secret the token.
CanConnect(c, o) == c \in registry /\ o.secret \in secrets[c]

\* What an API call of a client made for the cluster's uid meets: the account
\* behind the token goes when the cluster leaves.
Reached(c, uid) ==
  IF cluster[c].live /\ cluster[c].uid = uid THEN health[c] ELSE "offline"

-----------------------------------------------------------------------------
(* Users and members *)

\* The label of a cluster changes, or its secret is renewed.
EditCluster(c) ==
  /\ cluster[c].live
  /\ Spend("mishap")
  /\ Publish(c, [cluster[c] EXCEPT !.rev = @ + 1])
  /\ UNCHANGED <<credentialVars, health, store, watching, historyVars>>

ChangeHealth(c) ==
  /\ Spend("flip")
  /\ \E h \in Healths \ {health[c]} : health' = [health EXCEPT ![c] = h]
  /\ UNCHANGED <<cluster, credentialVars, watchVars, historyVars>>
=============================================================================
