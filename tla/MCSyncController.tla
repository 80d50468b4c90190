-------------------------- MODULE MCSyncController --------------------------
(***************************************************************************)
(* Environment budgets for the runs of SyncController: how often each kind *)
(* of outside event may happen in a run.                                   *)
(***************************************************************************)
EXTENDS SyncInvariant, TLC

Calm == [s \in EnvSteps |-> 0]
Warm(events) == [cold |-> FALSE, budget |-> events]
Cold(events) == [cold |-> TRUE, budget |-> events]

\* Users edit everything, a member drifts, an update times out; or the
\* controller starts, crashes and starts again, and watches break; or users
\* delete the template, which a crash or failing calls and lost replies disturb.
Propagation ==
  {Warm("edit" :> 1 @@ "drift" :> 1 @@ "override" :> 1 @@ "timeout" :> 1 @@ Calm),
   Cold("crash" :> 1 @@ "edit" :> 1 @@ "relist" :> 1 @@ Calm),
   Warm("delete" :> 1 @@ "recreate" :> 1 @@ "fault" :> 1 @@ "lost" :> 1 @@ Calm),
   Warm("delete" :> 1 @@ "crash" :> 1 @@ Calm)}
\* Two members: calls fail on one of them, the placement changes.
PartialFailure == {Warm("place" :> 1 @@ "fault" :> 1 @@ "edit" :> 1 @@ Calm)}
\* Propagation in a calming environment: drift, flips, lost replies; or users
\* delete the template and create it again while clusters flip.
Calming ==
  {Warm("drift" :> 1 @@ "place" :> 1 @@ "flip" :> 1 @@ "lost" :> 1 @@ Calm),
   Warm("delete" :> 1 @@ "recreate" :> 1 @@ "flip" :> 2 @@ Calm)}
UndisturbedDeletion == {Warm("delete" :> 1 @@ Calm)}
OnePlacement == {Warm("place" :> 1 @@ Calm)}

\* Not part of a run: a deletion of which a call fails; a template that is
\* created again while its deletion ends; one that is while calls fail.
DeletionFault == {Warm("delete" :> 1 @@ "fault" :> 1 @@ Calm)}
Recreation == {Warm("delete" :> 1 @@ "recreate" :> 1 @@ Calm)}
FaultyRecreation ==
  {Warm("delete" :> 1 @@ "recreate" :> 1 @@ "fault" :> 2 @@ Calm)}
=============================================================================
