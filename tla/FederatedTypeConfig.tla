------------------------ MODULE FederatedTypeConfig ------------------------
(***************************************************************************)
(* The federated type config controller                                    *)
(* (pkg/controller/federatedtypeconfig/controller.go): it starts a sync    *)
(* controller for each FederatedTypeConfig that enables propagation and    *)
(* stops it by closing its stop channel.                                   *)
(*                                                                         *)
(* One worker reconciles (kubebuilder's default parallelism); shutDown     *)
(* runs in a goroutine of its own.  The worker edits the very objects that *)
(* the lister's store holds, before the API accepts the edit.              *)
(***************************************************************************)
EXTENDS Naturals

CONSTANTS
  Names,         \* names of FederatedTypeConfigs
  EventBudget    \* how often each event of the environment may happen

Events == {"create", "toggle", "delete", "fault", "lost", "stop"}

ASSUME NamesAssumption       == Names # {}
ASSUME EventBudgetAssumption == EventBudget \in [Events -> Nat]

VARIABLES
  config,        \* [n] the FederatedTypeConfig in the API
  stored,        \* [n] the object in the lister's store
  queued,        \* names in the work queue
  pc, job,       \* the worker and its local variables
  made,          \* stop channels made so far, numbered from 1
  closed,        \* the closed ones
  syncs,         \* <<ch, n>>: a sync controller for n was started with ch
  stopChannels,  \* [n] the registered stop channel, 0 if there is none
  stop,          \* the process was told to stop
  queueDown,     \* the work queue takes no more items
  shut,          \* shutDown has run
  panicked,      \* close of a closed channel
  left           \* what is left of EventBudget

workerVars  == <<pc, job>>
channelVars == <<made, closed, syncs, stopChannels>>
processVars == <<stop, queueDown, shut, panicked>>
vars == <<config, stored, queued, workerVars, channelVars, processVars, left>>

\* fin: it carries this controller's finalizer.
Config   == [live : BOOLEAN, rv : Nat, enabled : BOOLEAN,
             deleting : BOOLEAN, fin : BOOLEAN]
NoConfig == [live |-> FALSE, rv |-> 0, enabled |-> FALSE,
             deleting |-> FALSE, fin |-> FALSE]

Steps == {"idle", "ensure", "start", "register", "close", "unregister",
          "release"}
Job   == [name : Names, tc : Config, ch : Nat]
NoJob == [name |-> CHOOSE n \in Names : TRUE, tc |-> NoConfig, ch |-> 0]

TypeOK ==
  /\ config \in [Names -> Config] /\ stored \in [Names -> Config]
  /\ queued \in SUBSET Names
  /\ pc \in Steps /\ job \in Job
  /\ made \in Nat /\ closed \in SUBSET Nat
  /\ syncs \in SUBSET (Nat \X Names)
  /\ stopChannels \in [Names -> Nat]
  /\ stop \in BOOLEAN /\ queueDown \in BOOLEAN /\ shut \in BOOLEAN
  /\ panicked \in BOOLEAN
  /\ left \in [Events -> Nat]

Init ==
  /\ config = [n \in Names |-> NoConfig] /\ stored = config
  /\ queued = {}
  /\ pc = "idle" /\ job = NoJob
  /\ made = 0 /\ closed = {} /\ syncs = {}
  /\ stopChannels = [n \in Names |-> 0]
  /\ stop = FALSE /\ queueDown = FALSE /\ shut = FALSE /\ panicked = FALSE
  /\ left = EventBudget

Spend(event) == /\ left[event] > 0
                /\ left' = [left EXCEPT ![event] = @ - 1]

\* A queue that was shut down drops what is added.
Enqueue(n) == queued' = IF queueDown THEN queued ELSE queued \cup {n}

-----------------------------------------------------------------------------
(* Users and informers *)

Created(g) == [NoConfig EXCEPT !.live = TRUE, !.rv = g.rv + 1,
                               !.enabled = TRUE]

CreateConfig(n) ==
  /\ ~config[n].live
  /\ Spend("create")
  /\ config' = [config EXCEPT ![n] = Created(@)]
  /\ UNCHANGED <<stored, queued, workerVars, channelVars, processVars>>

Toggled(g) == [g EXCEPT !.enabled = ~@, !.rv = @ + 1]

ToggleEnabled(n) ==
  /\ config[n].live
  /\ Spend("toggle")
  /\ config' = [config EXCEPT ![n] = Toggled(@)]
  /\ UNCHANGED <<stored, queued, workerVars, channelVars, processVars>>

\* The API server waits for the finalizer, if there is one.
Deleted(g) == IF g.fin THEN [g EXCEPT !.deleting = TRUE, !.rv = @ + 1]
              ELSE [g EXCEPT !.live = FALSE]

DeleteConfig(n) ==
  /\ config[n].live /\ ~config[n].deleting
  /\ Spend("delete")
  /\ config' = [config EXCEPT ![n] = Deleted(@)]
  /\ UNCHANGED <<stored, queued, workerVars, channelVars, processVars>>

\* The store notices another resource version, never an edit made in it.
Behind(n) == \/ stored[n].rv # config[n].rv
             \/ stored[n].live # config[n].live

SyncStore(n) ==
  /\ Behind(n)
  /\ stored' = [stored EXCEPT ![n] = config[n]]
  /\ Enqueue(n)
  /\ UNCHANGED <<config, workerVars, channelVars, processVars, left>>

\* Every two minutes the informer hands out again what the store holds.
Resync(n) ==
  /\ stored[n].live
  /\ Enqueue(n)
  /\ UNCHANGED <<config, stored, workerVars, channelVars, processVars, left>>

-----------------------------------------------------------------------------
(* Reconcile *)

Finish == pc' = "idle" /\ job' = NoJob
Retry  == Finish /\ Enqueue(job.name)

\* Reconcile after the lister's Get and getStopChannel.
\* Mutants: the finalizer is removed before the stop; only a deletion that has
\* a controller to stop is looked at.
AfterGetUnstopped(tc, ch) ==
  IF ~tc.live THEN "idle" ELSE IF tc.deleting THEN "release" ELSE "ensure"
AfterGetOnlyRunning(tc, ch) ==
  IF ~tc.live THEN "idle" ELSE IF tc.deleting /\ ch # 0 THEN "close"
  ELSE "ensure"
AfterGet(tc, ch) ==
  IF ~tc.live THEN "idle"
  ELSE IF tc.deleting THEN (IF ch # 0 THEN "close" ELSE "release")
  ELSE "ensure"

GetConfig(n) ==
  /\ pc = "idle" /\ n \in queued /\ ~panicked
  /\ queued' = queued \ {n}
  /\ pc' = AfterGet(stored[n], stopChannels[n])
  /\ job' = IF pc' = "idle" THEN NoJob
            ELSE [name |-> n, tc |-> stored[n], ch |-> stopChannels[n]]
  /\ UNCHANGED <<config, stored, channelVars, processVars, left>>

\* The end of Reconcile.  Mutants: it starts a controller although one is
\* running; it does not stop one that was disabled.
AfterEnsureRestart(tc, ch) == IF tc.enabled THEN "start"
                              ELSE IF ch # 0 THEN "close" ELSE "idle"
AfterEnsureOnlyStart(tc, ch) == IF ch = 0 /\ tc.enabled THEN "start"
                                ELSE "idle"
AfterEnsure(tc, ch) ==
  IF ch = 0 /\ tc.enabled THEN "start"
  ELSE IF ch # 0 /\ ~tc.enabled THEN "close" ELSE "idle"

Decide == /\ pc' = AfterEnsure(job.tc, job.ch)
          /\ job' = IF pc' = "idle" THEN NoJob ELSE job

\* SetFinalizers on the object that the lister returned: an edit of the store,
\* unless the store has replaced the object meanwhile.
SetInStore(f) ==
  LET n == job.name
  IN  stored' = IF stored[n].live /\ stored[n].rv = job.tc.rv
                THEN [stored EXCEPT ![n].fin = f] ELSE stored

\* Update with the resource version of the object in hand.
UpdateAccepted == LET n == job.name
                  IN  config[n].live /\ config[n].rv = job.tc.rv

\* An update is refused, fails, or is applied and its reply is lost.
UpdateError(applied) ==
  \/ ~UpdateAccepted /\ UNCHANGED <<config, left>>
  \/ Spend("fault") /\ UNCHANGED config
  \/ UpdateAccepted /\ Spend("lost") /\ applied

WithFinalizer(g) == [g EXCEPT !.fin = TRUE, !.rv = @ + 1]
Protected == config' = [config EXCEPT ![job.name] = WithFinalizer(@)]

EnsureFinalizer ==
  /\ pc = "ensure" /\ ~panicked
  /\ \/ job.tc.fin /\ Decide /\ UNCHANGED <<config, stored, queued, left>>
     \/ /\ ~job.tc.fin
        /\ SetInStore(TRUE)
        /\ \/ UpdateAccepted /\ Protected /\ Decide /\ UNCHANGED <<queued, left>>
           \/ UpdateError(Protected) /\ Retry
  /\ UNCHANGED <<channelVars, processVars>>

\* startController until the new stop channel is registered.
StartController ==
  /\ pc = "start" /\ ~panicked
  /\ made' = made + 1
  /\ \/ /\ syncs' = syncs \cup {<<made + 1, job.name>>}
        /\ pc' = "register" /\ job' = [job EXCEPT !.ch = made + 1]
        /\ UNCHANGED <<closed, queued, left>>
     \/ /\ Spend("fault")
        /\ closed' = closed \cup {made + 1}
        /\ Retry
        /\ UNCHANGED syncs
  /\ UNCHANGED <<config, stored, stopChannels, processVars>>

RegisterChannel ==
  /\ pc = "register" /\ ~panicked
  /\ stopChannels' = [stopChannels EXCEPT ![job.name] = job.ch]
  /\ Finish
  /\ UNCHANGED <<config, stored, queued, made, closed, syncs, processVars,
                 left>>

\* stopController closes the channel that Reconcile read, without the lock.
CloseChannel ==
  /\ pc = "close" /\ ~panicked
  /\ \/ /\ job.ch \in closed
        /\ panicked' = TRUE
        /\ UNCHANGED <<closed, workerVars>>
     \/ /\ job.ch \notin closed
        /\ closed' = closed \cup {job.ch}
        /\ pc' = "unregister"
        /\ UNCHANGED <<job, panicked>>
  /\ UNCHANGED <<config, stored, queued, made, syncs, stopChannels, stop,
                 queueDown, shut, left>>

ForgottenKept(n) == stopChannels   \* mutant: the delete is forgotten
Forgotten(n) == [stopChannels EXCEPT ![n] = 0]

UnregisterChannel ==
  /\ pc = "unregister" /\ ~panicked
  /\ stopChannels' = Forgotten(job.name)
  /\ IF job.tc.deleting THEN pc' = "release" /\ job' = [job EXCEPT !.ch = 0]
     ELSE Finish
  /\ UNCHANGED <<config, stored, queued, made, closed, syncs, processVars,
                 left>>

\* The finalizer is the only one of the object, whose deletion completes.
WithoutFinalizer(g) == [g EXCEPT !.fin = FALSE, !.live = FALSE,
                                 !.deleting = FALSE]
Released == config' = [config EXCEPT ![job.name] = WithoutFinalizer(@)]

RemoveFinalizer ==
  /\ pc = "release" /\ ~panicked
  /\ \/ ~job.tc.fin /\ Finish /\ UNCHANGED <<config, stored, queued, left>>
     \/ /\ job.tc.fin
        /\ SetInStore(FALSE)
        /\ \/ UpdateAccepted /\ Released /\ Finish /\ UNCHANGED <<queued, left>>
           \/ UpdateError(Released) /\ Retry
  /\ UNCHANGED <<channelVars, processVars>>

-----------------------------------------------------------------------------
(* Shutdown *)

Signal ==
  /\ ~stop
  /\ Spend("stop")
  /\ stop' = TRUE
  /\ UNCHANGED <<config, stored, queued, workerVars, channelVars, queueDown,
                 shut, panicked>>

\* The generic controller returns; the worker drains what is queued.
ShutDownQueue ==
  /\ stop /\ ~queueDown
  /\ queueDown' = TRUE
  /\ UNCHANGED <<config, stored, queued, workerVars, channelVars, stop, shut,
                 panicked, left>>

Registered == {stopChannels[n] : n \in Names} \ {0}

ShutDown ==
  /\ stop /\ ~shut /\ ~panicked
  /\ shut' = TRUE
  /\ \/ /\ Registered \cap closed # {}
        /\ panicked' = TRUE
        /\ UNCHANGED <<closed, stopChannels>>
     \/ /\ Registered \cap closed = {}
        /\ closed' = closed \cup Registered
        /\ stopChannels' = [n \in Names |-> 0]
        /\ UNCHANGED panicked
  /\ UNCHANGED <<config, stored, queued, workerVars, made, syncs, stop,
                 queueDown, left>>

-----------------------------------------------------------------------------

Worker == \/ \E n \in Names : GetConfig(n)
          \/ EnsureFinalizer \/ StartController \/ RegisterChannel
          \/ CloseChannel \/ UnregisterChannel \/ RemoveFinalizer

Next == \/ \E n \in Names : CreateConfig(n) \/ ToggleEnabled(n)
                            \/ DeleteConfig(n) \/ SyncStore(n) \/ Resync(n)
        \/ Worker
        \/ Signal \/ ShutDownQueue \/ ShutDown

Spec == Init /\ [][Next]_vars

\* The informer delivers, the worker takes every name in turn, and goroutines
\* that wait for the stop signal run.
FairSpec ==
  /\ Spec
  /\ \A n \in Names : WF_vars(SyncStore(n)) /\ SF_vars(GetConfig(n))
  /\ WF_vars(Worker) /\ WF_vars(ShutDownQueue) /\ WF_vars(ShutDown)

-----------------------------------------------------------------------------
(* Properties *)

\* The stop channels of the sync controllers that run for n.
Running(n) == {ch \in 1..made : <<ch, n>> \in syncs /\ ch \notin closed}

\* At most one sync controller runs for a type: two would undo each other's
\* versions.  startController registers a channel only after the controller
\* runs (controller.go:153-161).
OnePerType == \A n \in Names : \A a, b \in Running(n) : a = b

\* shutDown ends every sync controller that runs, but one that the worker has
\* started and not registered yet; and it does, unless it finds the channel that
\* stopController has closed and not unregistered yet, and ends the process
\* (controller.go:127-136 against 153-161 and 165-171).
ShutDownEndsAll ==
  [][~shut /\ shut' =>
       IF panicked' THEN pc = "unregister"
       ELSE \A n \in Names : \A ch \in Running(n)' :
              pc = "register" /\ job.name = n /\ job.ch = ch]_vars

\* A type config is let go only when no sync controller runs for it
\* (controller.go:103-107).
ReleasedAfterStop ==
  [][\A n \in Names : config[n].fin /\ ~config'[n].fin => Running(n) = {}]_vars

\* A running sync controller is registered or about to be.
Reachable ==
  \A n \in Names : \A ch \in Running(n) :
    \/ ch = stopChannels[n]
    \/ pc = "register" /\ job.name = n /\ job.ch = ch

\* A stop channel belongs to one type, and is registered for it only.
Owned ==
  /\ \A a, b \in syncs : a[1] = b[1] => a = b
  /\ \A s \in syncs : s[1] # 0 /\ s[1] <= made
  /\ \A n \in Names :
       stopChannels[n] # 0 => <<stopChannels[n], n>> \in syncs
  /\ \A ch \in closed : ch <= made

\* A registered channel is open, but while stopController is between close
\* and delete.
RegisteredOpen ==
  \A n \in Names :
    stopChannels[n] # 0 /\ stopChannels[n] \in closed
      => pc = "unregister" /\ job.name = n

\* What Reconcile has read of the registered channel still holds, unless
\* shutDown has been there.
AtHand ==
  /\ pc \in {"ensure", "close"} =>
       stopChannels[job.name] = job.ch \/ (shut /\ stopChannels[job.name] = 0)
  /\ pc \in {"start", "register", "release"} => stopChannels[job.name] = 0
  /\ pc = "ensure" /\ job.ch # 0 => <<job.ch, job.name>> \in syncs
  /\ pc = "close" => <<job.ch, job.name>> \in syncs
  /\ pc = "unregister" => stopChannels[job.name] \in closed \cup {0}
  /\ pc = "register" => /\ <<job.ch, job.name>> \in syncs
                        /\ job.ch \notin closed

FinalizersKeep == \A n \in Names : config[n].fin => config[n].live

\* Only when shutDown meets stopController is a stop channel closed twice.
PanicsOnlyAtShutdown == panicked => shut

\* The inductive invariant behind OnePerType, ShutDownEndsAll and
\* ReleasedAfterStop: it follows a stop channel from the start of its sync
\* controller through the worker's hands to the map and back
\* (controller.go:127-171).
ChannelInv == /\ TypeOK /\ Reachable /\ Owned /\ RegisteredOpen /\ AtHand
              /\ FinalizersKeep /\ PanicsOnlyAtShutdown

\* In the end a sync controller runs for exactly the type configs that enable
\* propagation, whatever calls failed.
FollowsConfig ==
  \A n \in Names :
    <>[](stop \/ (config[n].live /\ ~config[n].deleting
                    => (Running(n) # {}) = config[n].enabled))

\* The store says that the finalizer is gone, and the API does not.
Misled(n) == /\ config[n].fin /\ ~stored[n].fin
             /\ stored[n].rv = config[n].rv

\* A deleted type config goes away, unless a failed update has left its edit in
\* the store (controller.go:198): no retry will send it again.
DeletionCompletesUnlessMisled ==
  \A n \in Names :
    config[n].deleting ~> (stop \/ ~config[n].live \/ Misled(n))

\* Launched controllers are shut down cleanly (controller.go:70): when
\* shutDown has run and the worker has drained its queue, no sync controller is
\* left running, and no channel was closed twice.
ShutsDownCleanly ==
  /\ ~panicked
  /\ shut /\ queueDown /\ pc = "idle" /\ queued = {}
       => \A n \in Names : Running(n) = {}
=============================================================================
