----------------------- MODULE MCFederatedTypeConfig -----------------------
(***************************************************************************)
(* Event budgets for the runs of FederatedTypeConfig.                      *)
(***************************************************************************)
EXTENDS FederatedTypeConfig, TLC

None == [e \in Events |-> 0]

\* A type is installed, disabled or enabled again, deleted and installed
\* again; a call fails, a reply is lost, the process is told to stop.
LifeCycle == "create" :> 2 @@ "toggle" :> 2 @@ "delete" :> 1 @@ "fault" :> 1
             @@ "lost" :> 1 @@ "stop" :> 1 @@ None
\* Installed, disabled, and the process told to stop.
Stopping == "create" :> 1 @@ "toggle" :> 1 @@ "stop" :> 1 @@ None
============================================================================
