--------------------- MODULE FederatedTypeConfigProofs ---------------------
(***************************************************************************)
(* ChannelInv is inductive, and implies that one sync controller runs per  *)
(* type, that shutDown misses or trips over none but in the worker's hands,*)
(* and that a type config is released only after its sync controller was   *)
(* stopped.                                                                *)
(***************************************************************************)
EXTENDS FederatedTypeConfig, TLAPS

LEMMA NoJobType == NoJob \in Job
BY NamesAssumption DEF NoJob, Job, NoConfig, Config

\* The record updates of the actions keep their types.
LEMMA ConfigTypes ==
  ASSUME NEW g \in Config
  PROVE  /\ Created(g) \in Config /\ Toggled(g) \in Config
         /\ Deleted(g) \in Config
         /\ WithFinalizer(g) \in Config /\ WithoutFinalizer(g) \in Config
         /\ \A f \in BOOLEAN : [g EXCEPT !.fin = f] \in Config
<1>1. /\ g.rv + 1 \in Nat /\ (~g.enabled) \in BOOLEAN
      /\ g.live \in BOOLEAN /\ g.enabled \in BOOLEAN
      /\ g.deleting \in BOOLEAN /\ g.fin \in BOOLEAN /\ g.rv \in Nat
  BY DEF Config
<1>2. Created(g) \in Config
  BY <1>1 DEF Created, NoConfig, Config
<1>3. Toggled(g) \in Config
  BY <1>1 DEF Toggled, Config
<1>4. Deleted(g) \in Config
  BY <1>1 DEF Deleted, Config
<1>5. WithFinalizer(g) \in Config
  BY <1>1 DEF WithFinalizer, Config
<1>6. WithoutFinalizer(g) \in Config
  BY <1>1 DEF WithoutFinalizer, Config
<1>7. \A f \in BOOLEAN : [g EXCEPT !.fin = f] \in Config
  BY <1>1 DEF Config
<1>8. QED
  BY <1>2, <1>3, <1>4, <1>5, <1>6, <1>7

LEMMA LeftType ==
  ASSUME TypeOK, NEW event \in Events, Spend(event)
  PROVE  left' \in [Events -> Nat]
BY DEF TypeOK, Spend

\* Type correctness of a step, action by action.
LEMMA StepTypes ==
  ASSUME TypeOK, [Next]_vars
  PROVE  TypeOK'
<1> USE DEF workerVars, channelVars, processVars
<1>1. ASSUME NEW n \in Names, CreateConfig(n) PROVE TypeOK'
  <2>1. config[n] \in Config
    BY DEF TypeOK
  <2>2. left' \in [Events -> Nat]
    BY <1>1, LeftType DEF CreateConfig, Events
  <2>3. QED
    BY <1>1, <2>1, <2>2, ConfigTypes DEF CreateConfig, TypeOK
<1>2. ASSUME NEW n \in Names, ToggleEnabled(n) PROVE TypeOK'
  <2>1. config[n] \in Config
    BY DEF TypeOK
  <2>2. left' \in [Events -> Nat]
    BY <1>2, LeftType DEF ToggleEnabled, Events
  <2>3. QED
    BY <1>2, <2>1, <2>2, ConfigTypes DEF ToggleEnabled, TypeOK
<1>3. ASSUME NEW n \in Names, DeleteConfig(n) PROVE TypeOK'
  <2>1. config[n] \in Config
    BY DEF TypeOK
  <2>2. left' \in [Events -> Nat]
    BY <1>3, LeftType DEF DeleteConfig, Events
  <2>3. QED
    BY <1>3, <2>1, <2>2, ConfigTypes DEF DeleteConfig, TypeOK
<1>4. ASSUME NEW n \in Names, SyncStore(n) PROVE TypeOK'
  BY <1>4 DEF SyncStore, Enqueue, TypeOK
<1>5. ASSUME NEW n \in Names, Resync(n) PROVE TypeOK'
  BY <1>5 DEF Resync, Enqueue, TypeOK
<1>6. ASSUME NEW n \in Names, GetConfig(n) PROVE TypeOK'
  <2>1. pc' \in Steps
    BY <1>6 DEF GetConfig, AfterGet, Steps
  <2>2. job' \in Job
    BY <1>6, NoJobType DEF GetConfig, TypeOK, Job
  <2>3. QED
    BY <1>6, <2>1, <2>2 DEF GetConfig, TypeOK
<1>7. ASSUME Retry PROVE pc' \in Steps /\ job' \in Job /\ queued' \in SUBSET Names
  BY <1>7, NoJobType DEF Retry, Finish, Enqueue, TypeOK, Steps, Job
<1>8. ASSUME NEW f \in BOOLEAN, SetInStore(f) PROVE stored' \in [Names -> Config]
  <2>1. job.name \in Names /\ stored[job.name] \in Config
    BY DEF TypeOK, Job
  <2>2. [stored EXCEPT ![job.name].fin = f] \in [Names -> Config]
    BY <2>1, ConfigTypes DEF TypeOK
  <2>3. QED
    BY <1>8, <2>2 DEF SetInStore, TypeOK
<1>10. config[job.name] \in Config /\ job.name \in Names
  BY DEF TypeOK, Job
<1>11. ASSUME Protected PROVE config' \in [Names -> Config]
  BY <1>10, <1>11, ConfigTypes DEF Protected, TypeOK
<1>12. ASSUME Released PROVE config' \in [Names -> Config]
  BY <1>10, <1>12, ConfigTypes DEF Released, TypeOK
<1>13. ASSUME Decide PROVE pc' \in Steps /\ job' \in Job
  BY <1>13, NoJobType DEF Decide, AfterEnsure, TypeOK, Steps
<1>14. ASSUME EnsureFinalizer PROVE TypeOK'
  <2>1. stored' \in [Names -> Config]
    BY <1>14, <1>8 DEF EnsureFinalizer, TypeOK
  <2>2. pc' \in Steps /\ job' \in Job /\ queued' \in SUBSET Names
    BY <1>14, <1>7, <1>13 DEF EnsureFinalizer, TypeOK
  <2>3. config' \in [Names -> Config] /\ left' \in [Events -> Nat]
    <3>1. UNCHANGED <<config, left>> \/ (Protected /\ UNCHANGED left)
            \/ UpdateError(Protected)
      BY <1>14 DEF EnsureFinalizer
    <3>2. ASSUME UpdateError(Protected)
          PROVE  left' \in [Events -> Nat] /\ (Protected \/ UNCHANGED config)
      BY <3>2, LeftType DEF UpdateError, Events, TypeOK
    <3>3. QED
      BY <3>1, <3>2, <1>11 DEF TypeOK
  <2>4. QED
    BY <1>14, <2>1, <2>2, <2>3 DEF EnsureFinalizer, TypeOK
<1>15. ASSUME StartController PROVE TypeOK'
  <2>1. made' \in Nat /\ made + 1 \in Nat /\ job.name \in Names
    BY <1>15 DEF StartController, TypeOK, Job
  <2>2. CASE /\ syncs' = syncs \cup {<<made + 1, job.name>>}
             /\ pc' = "register" /\ job' = [job EXCEPT !.ch = made + 1]
             /\ UNCHANGED <<closed, queued, left>>
    <3>1. job' \in Job
      BY <2>1, <2>2 DEF TypeOK, Job
    <3>2. QED
      BY <1>15, <2>1, <2>2, <3>1 DEF StartController, TypeOK, Steps
  <2>3. CASE /\ Spend("fault")
             /\ closed' = closed \cup {made + 1}
             /\ Retry
             /\ UNCHANGED syncs
    <3>1. left' \in [Events -> Nat]
      BY <2>3, LeftType DEF Events
    <3>2. QED
      BY <1>15, <2>1, <2>3, <3>1, <1>7 DEF StartController, TypeOK
  <2>4. QED
    BY <1>15, <2>2, <2>3 DEF StartController
<1>16. ASSUME RegisterChannel PROVE TypeOK'
  BY <1>16, NoJobType DEF RegisterChannel, Finish, TypeOK, Job, Steps
<1>17. ASSUME CloseChannel PROVE TypeOK'
  BY <1>17 DEF CloseChannel, TypeOK, Job, Steps
<1>18. ASSUME UnregisterChannel PROVE TypeOK'
  <2>1. job' \in Job
    BY <1>18, NoJobType DEF UnregisterChannel, Finish, TypeOK, Job
  <2>2. pc' \in Steps
    BY <1>18 DEF UnregisterChannel, Finish, Steps
  <2>3. QED
    BY <1>18, <2>1, <2>2 DEF UnregisterChannel, Forgotten, TypeOK
<1>19. ASSUME RemoveFinalizer PROVE TypeOK'
  <2>1. stored' \in [Names -> Config]
    BY <1>19, <1>8 DEF RemoveFinalizer, TypeOK
  <2>2. pc' \in Steps /\ job' \in Job /\ queued' \in SUBSET Names
    BY <1>19, <1>7, NoJobType DEF RemoveFinalizer, Finish, TypeOK, Steps
  <2>3. config' \in [Names -> Config] /\ left' \in [Events -> Nat]
    <3>1. UNCHANGED <<config, left>> \/ (Released /\ UNCHANGED left)
            \/ UpdateError(Released)
      BY <1>19 DEF RemoveFinalizer
    <3>2. ASSUME UpdateError(Released)
          PROVE  left' \in [Events -> Nat] /\ (Released \/ UNCHANGED config)
      BY <3>2, LeftType DEF UpdateError, Events, TypeOK
    <3>3. QED
      BY <3>1, <3>2, <1>12 DEF TypeOK
  <2>4. QED
    BY <1>19, <2>1, <2>2, <2>3 DEF RemoveFinalizer, TypeOK
<1>20. ASSUME Signal PROVE TypeOK'
  <2>1. left' \in [Events -> Nat]
    BY <1>20, LeftType DEF Signal, Events
  <2>2. QED
    BY <1>20, <2>1 DEF Signal, TypeOK
<1>21. ASSUME ShutDownQueue PROVE TypeOK'
  BY <1>21 DEF ShutDownQueue, TypeOK
<1>22. ASSUME ShutDown PROVE TypeOK'
  <2>1. closed' \in SUBSET Nat /\ stopChannels' \in [Names -> Nat]
    <3>1. Registered \subseteq Nat /\ [n \in Names |-> 0] \in [Names -> Nat]
      BY DEF Registered, TypeOK
    <3>2. QED
      BY <1>22, <3>1 DEF ShutDown, TypeOK
  <2>2. QED
    BY <1>22, <2>1 DEF ShutDown, TypeOK
<1>23. ASSUME UNCHANGED vars PROVE TypeOK'
  BY <1>23 DEF vars, TypeOK
<1>24. QED
  BY <1>1, <1>2, <1>3, <1>4, <1>5, <1>6, <1>14, <1>15, <1>16, <1>17, <1>18,
     <1>19, <1>20, <1>21, <1>22, <1>23 DEF Next, Worker

\* An object that carries the finalizer exists: users cannot remove it, and the
\* worker adds it to an object that exists only.
LEMMA FinalizersStep ==
  ASSUME TypeOK, FinalizersKeep, [Next]_vars
  PROVE  FinalizersKeep'
<1> USE DEF workerVars, channelVars, processVars
<1>1. TypeOK /\ job.name \in Names /\ \A n \in Names : config[n] \in Config
  BY DEF TypeOK, Job
<1>2. ASSUME config' = config PROVE FinalizersKeep'
  BY <1>2 DEF FinalizersKeep
<1>3. ASSUME NEW n \in Names, NEW g \in Config,
             config' = [config EXCEPT ![n] = g], g.fin => g.live
      PROVE  FinalizersKeep'
  <2>1. \A m \in Names : config'[m] = IF m = n THEN g ELSE config[m]
    BY <1>3 DEF TypeOK
  <2>2. QED
    BY <1>3, <2>1 DEF FinalizersKeep
<1>4. ASSUME NEW n \in Names, CreateConfig(n) PROVE FinalizersKeep'
  <2>1. Created(config[n]).live
    BY <1>1 DEF Created, NoConfig, Config
  <2>2. QED
    BY <1>1, <1>3, <1>4, <2>1, ConfigTypes DEF CreateConfig
<1>5. ASSUME NEW n \in Names, ToggleEnabled(n) PROVE FinalizersKeep'
  <2>1. Toggled(config[n]).live
    BY <1>1, <1>5 DEF Toggled, Config, ToggleEnabled
  <2>2. QED
    BY <1>1, <1>3, <1>5, <2>1, ConfigTypes DEF ToggleEnabled
<1>6. ASSUME NEW n \in Names, DeleteConfig(n) PROVE FinalizersKeep'
  <2>1. Deleted(config[n]).fin => Deleted(config[n]).live
    BY <1>1, <1>6 DEF Deleted, Config, DeleteConfig
  <2>2. QED
    BY <1>1, <1>3, <1>6, <2>1, ConfigTypes DEF DeleteConfig
<1>7. ASSUME EnsureFinalizer PROVE FinalizersKeep'
  <2>1. config' = config \/ (UpdateAccepted /\ Protected)
    BY <1>7 DEF EnsureFinalizer, UpdateError
  <2>2. UpdateAccepted => WithFinalizer(config[job.name]).live
    BY <1>1 DEF UpdateAccepted, WithFinalizer, Config
  <2>3. QED
    BY <1>1, <1>2, <1>3, <2>1, <2>2, ConfigTypes DEF Protected
<1>8. ASSUME RemoveFinalizer PROVE FinalizersKeep'
  <2>1. config' = config \/ Released
    BY <1>8 DEF RemoveFinalizer, UpdateError
  <2>2. ~WithoutFinalizer(config[job.name]).fin
    BY <1>1 DEF WithoutFinalizer, Config
  <2>3. QED
    BY <1>1, <1>2, <1>3, <2>1, <2>2, ConfigTypes DEF Released
<1>9. QED
  BY <1>2, <1>4, <1>5, <1>6, <1>7, <1>8
     DEF Next, Worker, SyncStore, Resync, GetConfig, StartController,
         RegisterChannel, CloseChannel, UnregisterChannel, Signal,
         ShutDownQueue, ShutDown, vars

\* What an action must keep beside types and finalizers.
ChannelsHold == /\ Reachable /\ Owned /\ RegisteredOpen /\ AtHand
                /\ PanicsOnlyAtShutdown

\* No channel changes, and the worker stays where it is.
LEMMA UntouchedHolds ==
  ASSUME ChannelInv, UNCHANGED <<channelVars, workerVars, shut, panicked>>
  PROVE  ChannelsHold'
BY DEF ChannelInv, ChannelsHold, Reachable, Owned, RegisteredOpen, AtHand,
       PanicsOnlyAtShutdown, Running, channelVars, workerVars

\* No channel changes, and the worker returns without one in its hands.
LEMMA ReturnHolds ==
  ASSUME ChannelInv, UNCHANGED <<channelVars, shut, panicked>>,
         pc \notin {"register", "unregister"}, pc' = "idle"
  PROVE  ChannelsHold'
BY DEF ChannelInv, ChannelsHold, Reachable, Owned, RegisteredOpen, AtHand,
       PanicsOnlyAtShutdown, Running, channelVars

\* The first steps of Reconcile, up to its choice.
LEMMA ReconcileHolds ==
  ASSUME ChannelInv,
         (\E n \in Names : GetConfig(n)) \/ EnsureFinalizer \/ RemoveFinalizer
  PROVE  ChannelsHold'
<1> USE DEF channelVars, processVars
<1>1. CASE pc' = "idle"
  BY <1>1, ReturnHolds DEF GetConfig, EnsureFinalizer, RemoveFinalizer
<1>2. ASSUME NEW n \in Names, GetConfig(n), pc' # "idle" PROVE ChannelsHold'
  <2>1. job' = [name |-> n, tc |-> stored[n], ch |-> stopChannels[n]]
    BY <1>2 DEF GetConfig
  <2>2. /\ job'.name = n /\ job'.ch = stopChannels[n]
        /\ pc = "idle" /\ UNCHANGED <<channelVars, shut, panicked>>
    BY <1>2, <2>1 DEF GetConfig
  <2>3. \/ pc' = "ensure"
        \/ pc' = "close" /\ stopChannels[n] # 0
        \/ pc' = "release" /\ stopChannels[n] = 0
    BY <1>2 DEF GetConfig, AfterGet
  <2>4. AtHand'
    BY <2>2, <2>3 DEF ChannelInv, AtHand, Owned
  <2>5. QED
    BY <2>2, <2>3, <2>4 DEF ChannelInv, ChannelsHold, Reachable, Owned,
       RegisteredOpen, PanicsOnlyAtShutdown, Running
<1>3. ASSUME EnsureFinalizer, pc' # "idle" PROVE ChannelsHold'
  <2>1. Decide
    BY <1>3 DEF EnsureFinalizer, Retry, Finish
  <2>2. /\ job' = job /\ pc = "ensure"
        /\ UNCHANGED <<channelVars, shut, panicked>>
    BY <1>3, <2>1 DEF EnsureFinalizer, Decide
  <2>3. (pc' = "start" /\ job.ch = 0) \/ (pc' = "close" /\ job.ch # 0)
    BY <1>3, <2>1 DEF Decide, AfterEnsure
  <2>4. AtHand'
    BY <2>2, <2>3 DEF ChannelInv, AtHand
  <2>5. QED
    BY <2>2, <2>3, <2>4 DEF ChannelInv, ChannelsHold, Reachable, Owned,
       RegisteredOpen, PanicsOnlyAtShutdown, Running
<1>4. ASSUME RemoveFinalizer PROVE pc' = "idle"
  BY <1>4 DEF RemoveFinalizer, Finish, Retry
<1>5. QED
  BY <1>1, <1>2, <1>3, <1>4

\* A new stop channel is neither known nor closed.
LEMMA StartHolds ==
  ASSUME ChannelInv, StartController
  PROVE  ChannelsHold'
<1> USE DEF processVars
<1>1. /\ TypeOK /\ made \in Nat /\ made' = made + 1 /\ pc = "start"
      /\ stopChannels[job.name] = 0 /\ job \in Job /\ job.name \in Names
      /\ UNCHANGED <<stopChannels, shut, panicked>>
  BY DEF ChannelInv, AtHand, StartController, TypeOK, Job
<1>2. /\ \A s \in syncs : s[1] \in Nat /\ s[1] # 0 /\ s[1] <= made
      /\ \A ch \in closed : ch \in Nat /\ ch <= made
      /\ \A n \in Names : stopChannels[n] \in Nat /\ stopChannels[n] <= made
  <2>1. \A s \in syncs : s[1] \in Nat /\ s[1] # 0 /\ s[1] <= made
    BY <1>1 DEF ChannelInv, Owned, TypeOK
  <2>2. ASSUME NEW n \in Names
        PROVE  stopChannels[n] \in Nat /\ stopChannels[n] <= made
    <3>1. CASE stopChannels[n] = 0
      BY <1>1, <3>1
    <3>2. CASE stopChannels[n] # 0
      <4>1. <<stopChannels[n], n>> \in syncs
        BY <3>2 DEF ChannelInv, Owned
      <4>2. <<stopChannels[n], n>>[1] = stopChannels[n]
        OBVIOUS
      <4>3. QED
        BY <2>1, <4>1, <4>2
    <3>3. QED
      BY <3>1, <3>2
  <2>3. QED
    BY <1>1, <2>1, <2>2 DEF ChannelInv, Owned, TypeOK
<1>3. CASE /\ syncs' = syncs \cup {<<made + 1, job.name>>}
           /\ pc' = "register" /\ job' = [job EXCEPT !.ch = made + 1]
           /\ UNCHANGED closed
  <2>1. job'.ch = made + 1 /\ job'.name = job.name
    BY <1>1, <1>3 DEF Job
  <2>2. made + 1 \notin closed /\ made + 1 # 0
    BY <1>1, <1>2
  <2>3. Owned'
    <3>1. \A a, b \in syncs' : a[1] = b[1] => a = b
      <4>1. \A a \in syncs : a[1] # made + 1
        BY <1>1, <1>2
      <4>2. \A a, b \in syncs : a[1] = b[1] => a = b
        BY DEF ChannelInv, Owned
      <4>3. QED
        BY <1>3, <4>1, <4>2
    <3>2. \A s \in syncs' : s[1] # 0 /\ s[1] <= made'
      BY <1>1, <1>2, <1>3
    <3>3. \A ch \in closed' : ch <= made'
      BY <1>1, <1>2, <1>3
    <3>4. QED
      BY <1>1, <1>3, <3>1, <3>2, <3>3 DEF ChannelInv, Owned
  <2>4. Reachable'
    <3>1. SUFFICES ASSUME NEW n \in Names, NEW ch \in 1..made',
                          <<ch, n>> \in syncs', ch \notin closed'
                   PROVE  \/ ch = stopChannels'[n]
                          \/ job'.name = n /\ job'.ch = ch
      BY <1>3 DEF Reachable, Running
    <3>2. CASE <<ch, n>> \in syncs
      <4>1. <<ch, n>>[1] = ch
        OBVIOUS
      <4>2. ch <= made
        BY <3>2, <4>1, <1>2
      <4>3. ch \in Running(n)
        BY <1>1, <1>3, <3>1, <3>2, <4>2 DEF Running
      <4>4. ch = stopChannels[n]
        BY <4>3, <1>1 DEF ChannelInv, Reachable
      <4>5. QED
        BY <4>4, <1>1
    <3>3. CASE <<ch, n>> = <<made + 1, job.name>>
      BY <3>3, <2>1
    <3>4. QED
      BY <1>3, <3>1, <3>2, <3>3
  <2>5. RegisteredOpen'
    BY <1>1, <1>3 DEF ChannelInv, RegisteredOpen
  <2>6. AtHand'
    BY <1>1, <1>3, <2>1, <2>2 DEF AtHand
  <2>7. QED
    BY <1>1, <2>3, <2>4, <2>5, <2>6
       DEF ChannelInv, ChannelsHold, PanicsOnlyAtShutdown
<1>4. CASE closed' = closed \cup {made + 1} /\ Retry /\ UNCHANGED syncs
  <2>1. pc' = "idle"
    BY <1>4 DEF Retry, Finish
  <2>2. Owned'
    <3>1. \A s \in syncs' : s[1] # 0 /\ s[1] <= made'
      BY <1>1, <1>2, <1>4
    <3>2. \A ch \in closed' : ch <= made'
      BY <1>1, <1>2, <1>4
    <3>3. QED
      BY <1>1, <1>4, <3>1, <3>2 DEF ChannelInv, Owned
  <2>3. Reachable'
    <3>1. SUFFICES ASSUME NEW n \in Names, NEW ch \in 1..made',
                          <<ch, n>> \in syncs', ch \notin closed'
                   PROVE  ch = stopChannels'[n]
      BY DEF Reachable, Running
    <3>2. <<ch, n>>[1] = ch
      OBVIOUS
    <3>3. ch <= made
      BY <3>1, <3>2, <1>2, <1>4
    <3>4. ch \in Running(n)
      BY <1>1, <1>4, <3>1, <3>3 DEF Running
    <3>5. QED
      BY <3>4, <1>1 DEF ChannelInv, Reachable
  <2>4. RegisteredOpen'
    BY <1>1, <1>2, <1>4 DEF ChannelInv, RegisteredOpen
  <2>5. AtHand'
    BY <2>1 DEF AtHand
  <2>6. QED
    BY <1>1, <2>2, <2>3, <2>4, <2>5
       DEF ChannelInv, ChannelsHold, PanicsOnlyAtShutdown
<1>5. QED
  BY <1>3, <1>4 DEF StartController

LEMMA RegisterHolds ==
  ASSUME ChannelInv, RegisterChannel
  PROVE  ChannelsHold'
<1> USE DEF processVars
<1>1. /\ TypeOK /\ job.name \in Names /\ pc = "register" /\ pc' = "idle"
      /\ stopChannels[job.name] = 0
      /\ <<job.ch, job.name>> \in syncs /\ job.ch \notin closed
      /\ UNCHANGED <<made, closed, syncs, shut, panicked>>
  BY DEF ChannelInv, AtHand, RegisterChannel, Finish, TypeOK, Job
<1>2. \A n \in Names :
        stopChannels'[n] = IF n = job.name THEN job.ch ELSE stopChannels[n]
  BY <1>1 DEF RegisterChannel, TypeOK
<1>3. Reachable'
  <2>1. SUFFICES ASSUME NEW n \in Names, NEW ch \in Running(n)
                 PROVE  ch = stopChannels'[n]
    BY <1>1 DEF Reachable, Running
  <2>2. ch \in 1..made /\ stopChannels[n] = 0 => ch # stopChannels[n]
    BY <1>1 DEF TypeOK, Running
  <2>3. QED
    BY <1>1, <1>2, <2>1, <2>2 DEF ChannelInv, Reachable, Running
<1>4. Owned'
  BY <1>1, <1>2 DEF ChannelInv, Owned
<1>5. RegisteredOpen' /\ AtHand'
  BY <1>1, <1>2 DEF ChannelInv, RegisteredOpen, AtHand
<1>6. QED
  BY <1>1, <1>3, <1>4, <1>5 DEF ChannelInv, ChannelsHold, PanicsOnlyAtShutdown

\* stopController closes a channel that is registered for the type in hand,
\* or that shutDown has closed and forgotten.
LEMMA CloseHolds ==
  ASSUME ChannelInv, CloseChannel
  PROVE  ChannelsHold'
<1>1. /\ TypeOK /\ job.name \in Names /\ pc = "close"
      /\ \/ stopChannels[job.name] = job.ch
         \/ shut /\ stopChannels[job.name] = 0
      /\ <<job.ch, job.name>> \in syncs /\ job.ch # 0 /\ job.ch <= made
      /\ UNCHANGED <<made, syncs, stopChannels, shut, job>>
  <2>1. <<job.ch, job.name>>[1] = job.ch
    OBVIOUS
  <2>2. <<job.ch, job.name>> \in syncs
    BY DEF ChannelInv, AtHand, CloseChannel
  <2>3. job.ch # 0 /\ job.ch <= made
    BY <2>1, <2>2 DEF ChannelInv, Owned
  <2>4. QED
    BY <2>2, <2>3 DEF ChannelInv, AtHand, CloseChannel, TypeOK, Job, workerVars
<1>2. CASE job.ch \in closed /\ panicked' = TRUE
           /\ UNCHANGED <<closed, workerVars>>
  <2>1. shut
    BY <1>1, <1>2 DEF ChannelInv, RegisteredOpen
  <2>2. QED
    BY <1>1, <1>2, <2>1 DEF ChannelInv, ChannelsHold, Reachable, Owned,
       RegisteredOpen, AtHand, PanicsOnlyAtShutdown, Running, workerVars
<1>3. CASE closed' = closed \cup {job.ch} /\ pc' = "unregister"
           /\ UNCHANGED panicked
  <2>1. Reachable'
    BY <1>1, <1>3 DEF ChannelInv, Reachable, Running
  <2>2. Owned'
    BY <1>1, <1>3 DEF ChannelInv, Owned
  <2>3. RegisteredOpen'
    <3>1. SUFFICES ASSUME NEW n \in Names, stopChannels[n] # 0,
                          stopChannels[n] \in closed'
                   PROVE  n = job.name
      BY <1>1, <1>3 DEF RegisteredOpen
    <3>2. CASE stopChannels[n] = job.ch
      <4>1. /\ <<stopChannels[n], n>> \in syncs
            /\ <<stopChannels[n], n>>[1] = <<job.ch, job.name>>[1]
        BY <3>1, <3>2 DEF ChannelInv, Owned
      <4>2. <<stopChannels[n], n>> = <<job.ch, job.name>>
        BY <4>1, <1>1 DEF ChannelInv, Owned
      <4>3. QED
        BY <4>2
    <3>3. CASE stopChannels[n] \in closed
      BY <3>1, <3>3, <1>1 DEF ChannelInv, RegisteredOpen
    <3>4. QED
      BY <1>3, <3>1, <3>2, <3>3
  <2>4. AtHand'
    BY <1>1, <1>3 DEF AtHand
  <2>5. QED
    BY <1>1, <1>3, <2>1, <2>2, <2>3, <2>4
       DEF ChannelInv, ChannelsHold, PanicsOnlyAtShutdown
<1>4. QED
  BY <1>2, <1>3 DEF CloseChannel

LEMMA UnregisterHolds ==
  ASSUME ChannelInv, UnregisterChannel
  PROVE  ChannelsHold'
<1> USE DEF processVars
<1>1. /\ TypeOK /\ job.name \in Names /\ pc = "unregister"
      /\ stopChannels[job.name] \in closed \cup {0}
      /\ (pc' = "release" /\ job'.name = job.name) \/ pc' = "idle"
      /\ UNCHANGED <<made, closed, syncs, shut, panicked>>
  <2>1. job \in Job
    BY DEF ChannelInv, TypeOK
  <2>2. [job EXCEPT !.ch = 0].name = job.name
    BY <2>1 DEF Job
  <2>3. QED
    BY <2>1, <2>2 DEF ChannelInv, AtHand, UnregisterChannel, Finish, Job
<1>2. \A n \in Names :
        stopChannels'[n] = IF n = job.name THEN 0 ELSE stopChannels[n]
  BY <1>1 DEF UnregisterChannel, Forgotten, TypeOK
<1>3. Reachable'
  <2>1. SUFFICES ASSUME NEW n \in Names, NEW ch \in Running(n)
                 PROVE  ch = stopChannels'[n]
    BY <1>1 DEF Reachable, Running
  <2>2. ch = stopChannels[n] /\ ch \in 1..made /\ ch \notin closed
    BY <1>1, <2>1 DEF ChannelInv, Reachable, Running
  <2>3. n # job.name
    BY <1>1, <2>2 DEF TypeOK
  <2>4. QED
    BY <1>2, <2>2, <2>3
<1>4. Owned'
  BY <1>1, <1>2 DEF ChannelInv, Owned
<1>5. RegisteredOpen'
  BY <1>1, <1>2 DEF ChannelInv, RegisteredOpen
<1>6. AtHand'
  BY <1>1, <1>2 DEF AtHand
<1>7. QED
  BY <1>1, <1>3, <1>4, <1>5, <1>6
     DEF ChannelInv, ChannelsHold, PanicsOnlyAtShutdown

\* shutDown closes all registered channels, none of which the worker is about
\* to register.
LEMMA ShutDownHolds ==
  ASSUME ChannelInv, ShutDown
  PROVE  ChannelsHold'
<1>1. /\ TypeOK /\ job.name \in Names /\ shut'
      /\ UNCHANGED <<pc, job, made, syncs>>
  BY DEF ChannelInv, ShutDown, TypeOK, Job, workerVars
<1>2. CASE UNCHANGED <<closed, stopChannels>>
  BY <1>1, <1>2 DEF ChannelInv, ChannelsHold, Reachable, Owned, RegisteredOpen,
     AtHand, PanicsOnlyAtShutdown, Running
<1>3. CASE closed' = closed \cup Registered
           /\ stopChannels' = [n \in Names |-> 0]
  <2>1. \A n \in Names : stopChannels'[n] = 0
    BY <1>3
  <2>2. Reachable'
    <3>1. SUFFICES ASSUME NEW n \in Names, NEW ch \in Running(n),
                          ch \notin Registered
                   PROVE  pc = "register" /\ job.name = n /\ job.ch = ch
      BY <1>1, <1>3 DEF Reachable, Running
    <3>2. ch # stopChannels[n]
      BY <1>1, <3>1 DEF Registered, Running, TypeOK
    <3>3. QED
      BY <3>1, <3>2 DEF ChannelInv, Reachable
  <2>3. Owned'
    <3>1. ASSUME NEW ch \in Registered PROVE ch <= made
      <4>1. PICK n \in Names : ch = stopChannels[n] /\ ch # 0
        BY DEF Registered
      <4>2. <<ch, n>> \in syncs /\ <<ch, n>>[1] = ch
        BY <4>1 DEF ChannelInv, Owned
      <4>3. QED
        BY <4>2 DEF ChannelInv, Owned
    <3>2. QED
      BY <1>1, <1>3, <2>1, <3>1 DEF ChannelInv, Owned
  <2>4. RegisteredOpen'
    BY <2>1 DEF RegisteredOpen
  <2>5. pc = "register" => job.ch \notin Registered
    <3>1. SUFFICES ASSUME pc = "register", NEW n \in Names,
                          job.ch = stopChannels[n], job.ch # 0
                   PROVE  FALSE
      BY DEF Registered
    <3>2. /\ <<job.ch, n>> \in syncs /\ <<job.ch, job.name>> \in syncs
          /\ stopChannels[job.name] = 0
      BY <3>1 DEF ChannelInv, Owned, AtHand
    <3>3. <<job.ch, n>>[1] = <<job.ch, job.name>>[1]
      OBVIOUS
    <3>4. <<job.ch, n>> = <<job.ch, job.name>>
      BY <3>2, <3>3 DEF ChannelInv, Owned
    <3>5. n = job.name
      BY <3>4
    <3>6. QED
      BY <3>1, <3>2, <3>5
  <2>6. AtHand'
    BY <1>1, <1>3, <2>1, <2>5 DEF ChannelInv, AtHand
  <2>7. QED
    BY <1>1, <2>2, <2>3, <2>4, <2>6 DEF ChannelsHold, PanicsOnlyAtShutdown
<1>4. QED
  BY <1>2, <1>3 DEF ShutDown

\* ChannelInv is inductive.
THEOREM ChannelsCorrect == Spec => []ChannelInv
<1>1. Init => ChannelInv
  <2> SUFFICES ASSUME Init PROVE ChannelInv
    OBVIOUS
  <2>1. NoConfig \in Config
    BY DEF NoConfig, Config
  <2>2. TypeOK
    BY <2>1, NoJobType, EventBudgetAssumption DEF Init, TypeOK, Steps
  <2>3. \A n \in Names : ~config[n].fin /\ stopChannels[n] = 0
    BY DEF Init, NoConfig
  <2>4. QED
    BY <2>2, <2>3 DEF Init, ChannelInv, Reachable, Owned, RegisteredOpen, AtHand,
       FinalizersKeep, PanicsOnlyAtShutdown, Running
<1>2. ChannelInv /\ [Next]_vars => ChannelInv'
  <2> SUFFICES ASSUME ChannelInv, [Next]_vars PROVE ChannelInv'
    OBVIOUS
  <2>1. TypeOK' /\ FinalizersKeep'
    BY StepTypes, FinalizersStep DEF ChannelInv
  <2>2. ChannelsHold'
    <3>1. ASSUME NEW n \in Names,
                 \/ CreateConfig(n) \/ ToggleEnabled(n) \/ DeleteConfig(n)
                 \/ SyncStore(n) \/ Resync(n)
          PROVE  ChannelsHold'
      BY <3>1, UntouchedHolds
         DEF CreateConfig, ToggleEnabled, DeleteConfig, SyncStore, Resync,
             processVars
    <3>2. CASE Signal \/ ShutDownQueue \/ UNCHANGED vars
      BY <3>2, UntouchedHolds DEF Signal, ShutDownQueue, vars, processVars
    <3>3. QED
      BY <3>1, <3>2, ReconcileHolds, StartHolds, RegisterHolds, CloseHolds,
         UnregisterHolds, ShutDownHolds DEF Next, Worker
  <2>3. QED
    BY <2>1, <2>2 DEF ChannelInv, ChannelsHold
<1>3. QED
  BY <1>1, <1>2, PTL DEF Spec

\* Never do two sync controllers run for one type (controller.go:145-163).
THEOREM OneSyncController == Spec => []OnePerType
<1>1. ChannelInv => OnePerType
  <2> SUFFICES ASSUME ChannelInv, NEW n \in Names,
                      NEW a \in Running(n), NEW b \in Running(n)
               PROVE  a = b
    BY DEF OnePerType
  <2>1. a # 0 /\ b # 0
    BY DEF Running, ChannelInv, TypeOK
  <2>2. pc = "register" /\ job.name = n => stopChannels[n] = 0
    BY DEF ChannelInv, AtHand
  <2>3. QED
    BY <2>1, <2>2 DEF ChannelInv, Reachable
<1>2. QED
  BY <1>1, ChannelsCorrect, PTL

\* shutDown (controller.go:127-136) misses no sync controller but one that
\* startController has not registered yet (controller.go:153-161), and meets no
\* closed channel but one that stopController has not unregistered yet
\* (controller.go:165-171).
THEOREM ShutDownMissesNone == Spec => ShutDownEndsAll
<1> DEFINE Step ==
      ~shut /\ shut' =>
        IF panicked' THEN pc = "unregister"
        ELSE \A n \in Names : \A ch \in Running(n)' :
               pc = "register" /\ job.name = n /\ job.ch = ch
<1>1. ChannelInv /\ [Next]_vars => [Step]_vars
  <2> SUFFICES ASSUME ChannelInv, [Next]_vars, ~shut, shut'
               PROVE  IF panicked' THEN pc = "unregister"
                      ELSE \A n \in Names : \A ch \in Running(n)' :
                             pc = "register" /\ job.name = n /\ job.ch = ch
    OBVIOUS
  <2>1. ShutDown
    BY DEF Next, Worker, CreateConfig, ToggleEnabled, DeleteConfig, SyncStore,
       Resync, GetConfig, EnsureFinalizer, StartController, RegisterChannel,
       CloseChannel, UnregisterChannel, RemoveFinalizer, Signal, ShutDownQueue,
       processVars, vars
  <2>2. ~panicked
    BY DEF ChannelInv, PanicsOnlyAtShutdown
  <2>3. CASE panicked'
    <3>1. PICK n \in Names : stopChannels[n] # 0 /\ stopChannels[n] \in closed
      BY <2>1, <2>2, <2>3 DEF ShutDown, Registered
    <3>2. pc = "unregister"
      BY <3>1 DEF ChannelInv, RegisteredOpen
    <3>3. QED
      BY <2>3, <3>2
  <2>4. CASE ~panicked'
    <3>1. UNCHANGED <<made, syncs>> /\ closed' = closed \cup Registered
      BY <2>1, <2>4 DEF ShutDown
    <3>2. ASSUME NEW n \in Names, NEW ch \in Running(n)'
          PROVE  pc = "register" /\ job.name = n /\ job.ch = ch
      <4>1. ch \in Running(n) /\ ch \notin Registered
        BY <3>1, <3>2 DEF Running
      <4>2. ch # stopChannels[n]
        BY <4>1 DEF Registered, Running, ChannelInv, TypeOK
      <4>3. QED
        BY <4>1, <4>2 DEF ChannelInv, Reachable
    <3>3. QED
      BY <2>4, <3>2
  <2>5. QED
    BY <2>3, <2>4
<1>2. QED
  BY <1>1, ChannelsCorrect, PTL DEF Spec, ShutDownEndsAll

\* The finalizer of a type config comes off only when its sync controller was
\* stopped (controller.go:103-107).
THEOREM StoppedBeforeRelease == Spec => ReleasedAfterStop
<1> DEFINE Step == \A n \in Names :
                     config[n].fin /\ ~config'[n].fin => Running(n) = {}
<1>1. ChannelInv /\ [Next]_vars => [Step]_vars
  <2> SUFFICES ASSUME ChannelInv, [Next]_vars, NEW n \in Names,
                      config[n].fin, ~config'[n].fin
               PROVE  Running(n) = {}
    OBVIOUS
  <2>1. /\ TypeOK /\ job.name \in Names
        /\ \A m \in Names : config[m] \in Config
        /\ config \in [Names -> Config]
    BY DEF ChannelInv, TypeOK, Job
  <2>2. config[n].live
    BY DEF ChannelInv, FinalizersKeep
  <2>3. config' # config
    OBVIOUS
  <2>4. ~\E m \in Names : CreateConfig(m) \/ ToggleEnabled(m) \/ DeleteConfig(m)
    <3>1. ASSUME NEW m \in Names, CreateConfig(m) PROVE FALSE
      BY <3>1, <2>1, <2>2 DEF CreateConfig
    <3>2. ASSUME NEW m \in Names, ToggleEnabled(m) PROVE FALSE
      <4>1. Toggled(config[n]).fin
        BY <2>1 DEF Toggled, Config
      <4>2. QED
        BY <3>2, <4>1, <2>1 DEF ToggleEnabled
    <3>3. ASSUME NEW m \in Names, DeleteConfig(m) PROVE FALSE
      <4>1. Deleted(config[n]).fin
        BY <2>1 DEF Deleted, Config
      <4>2. QED
        BY <3>3, <4>1, <2>1 DEF DeleteConfig
    <3>4. QED
      BY <3>1, <3>2, <3>3
  <2>5. ~EnsureFinalizer
    <3>1. SUFFICES ASSUME Protected PROVE FALSE
      BY <2>3 DEF EnsureFinalizer, UpdateError
    <3>2. WithFinalizer(config[job.name]).fin
      BY <2>1 DEF WithFinalizer, Config
    <3>3. QED
      BY <3>1, <3>2, <2>1 DEF Protected
  <2>6. RemoveFinalizer
    BY <2>3, <2>4, <2>5
       DEF Next, Worker, SyncStore, Resync, GetConfig, StartController,
           RegisterChannel, CloseChannel, UnregisterChannel, Signal,
           ShutDownQueue, ShutDown, vars
  <2>7. Released /\ pc = "release"
    BY <2>3, <2>6 DEF RemoveFinalizer, UpdateError
  <2>8. n = job.name
    BY <2>1, <2>7 DEF Released
  <2>9. stopChannels[n] = 0
    BY <2>7, <2>8 DEF ChannelInv, AtHand
  <2>10. QED
    BY <2>1, <2>7, <2>9 DEF ChannelInv, Reachable, Running, TypeOK
<1>2. QED
  BY <1>1, ChannelsCorrect, PTL DEF Spec, ReleasedAfterStop
=============================================================================
