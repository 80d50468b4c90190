---------------------------- MODULE SyncObjects ----------------------------
(***************************************************************************)
(* The objects the sync controller reads and writes, and the pure          *)
(* functions it computes from them (pkg/controller/sync/controller.go and  *)
(* pkg/controller/util/propagatedversion.go), for one federated resource.  *)
(*                                                                         *)
(* An object that may be absent is a record with a field "live".  Its      *)
(* resource version survives its deletion, because an API server never     *)
(* hands out the same resource version twice.                              *)
(***************************************************************************)
EXTENDS Naturals, FiniteSets

CONSTANTS
  Clusters,         \* the FederatedClusters known to the control plane
  ComparisonField   \* typeConfig.GetComparisonField()

ASSUME ClustersAssumption == IsFiniteSet(Clusters) /\ Clusters # {}
ASSUME ComparisonFieldAssumption ==
  ComparisonField \in {"ResourceVersion", "Generation"}

-----------------------------------------------------------------------------
(* The federation API *)

DeleteFinalizer == "delete-from-underlying-clusters"
OrphanFinalizer == "orphan"
Finalizers      == {DeleteFinalizer, OrphanFinalizer}

\* The template: "body" stands for spec.template, numbered by user edits.
Template == [live : BOOLEAN, rv : Nat, body : Nat,
             deleting : BOOLEAN, fins : SUBSET Finalizers]
NoTemplate == [live |-> FALSE, rv |-> 0, body |-> 0,
               deleting |-> FALSE, fins |-> {}]
Removed(t) == [t EXCEPT !.live = FALSE, !.deleting = FALSE, !.fins = {}]

\* The override; its resource version identifies its content.
Override    == [live : BOOLEAN, rv : Nat]
NoOverride  == [live |-> FALSE, rv |-> 0]
OverrideVersion(o) == IF o.live THEN o.rv ELSE 0

\* The PropagatedVersion; vers[c] = 0 when no version is recorded for c.
NoVersions  == [c \in Clusters |-> 0]
PropagatedVersion == [live : BOOLEAN, rv : Nat, tv : Nat, ov : Nat,
                      vers : [Clusters -> Nat]]
NoPV        == [live |-> FALSE, rv |-> 0, tv |-> 0, ov |-> 0,
                vers |-> NoVersions]

-----------------------------------------------------------------------------
(* Member clusters *)

\* What an object in a member cluster was built from.
Content       == [body : Nat, ov : Nat]
Foreign       == [body |-> 0, ov |-> 0]    \* written by somebody else
Desired(body, ov) == [body |-> body, ov |-> ov]

Object   == [live : BOOLEAN, rv : Nat, gen : Nat, content : Content]
NoObject == [live |-> FALSE, rv |-> 0, gen |-> 0, content |-> Foreign]
Gone(m)  == [m EXCEPT !.live = FALSE, !.gen = 0, !.content = Foreign]

\* The write of content k to the member object m: a fresh object starts at
\* generation 1, and a write that changes nothing is not a write.
Written(m, k) ==
  IF m.live /\ m.content = k THEN m
  ELSE [live |-> TRUE, rv |-> m.rv + 1,
        gen |-> IF m.live THEN m.gen + 1 ELSE 1, content |-> k]

GetVersion(m) == IF ComparisonField = "ResourceVersion" THEN m.rv ELSE m.gen

-----------------------------------------------------------------------------
(* Operations the updater performs in a member cluster *)

OpKinds  == {"none", "add", "update", "delete"}
OpStates == {"idle", "issued", "done", "failed"}
Op   == [kind : OpKinds, st : OpStates, rv : Nat, content : Content, ver : Nat]
NoOp == [kind |-> "none", st |-> "idle", rv |-> 0, content |-> Foreign, ver |-> 0]
Issue(kind, rv, k) ==
  [kind |-> kind, st |-> "issued", rv |-> rv, content |-> k, ver |-> 0]

\* The API server of a member accepts a create of an absent object, an update
\* that carries the current resource version, and every delete (NotFound is
\* no error for the updater).
Accepted(o, m) ==
  \/ o.kind = "add" /\ ~m.live
  \/ o.kind = "update" /\ m.live /\ m.rv = o.rv
  \/ o.kind = "delete"

Performed(o, m) == IF o.kind = "delete" THEN Gone(m) ELSE Written(m, o.content)

\* The version the updater reports: "" (here 0) for a delete.
Reported(o, m) ==
  IF o.kind = "delete" THEN 0 ELSE GetVersion(Performed(o, m))

-----------------------------------------------------------------------------
(* Recorded versions *)

\* getClusterVersions: what is recorded counts only for this very template
\* and override.
RecordedVersionsOfAny(pv, tv, ov) ==   \* mutant: for any template
  IF pv.live /\ pv.ov = ov THEN pv.vers ELSE NoVersions
RecordedVersions(pv, tv, ov) ==
  IF pv.live /\ pv.tv = tv /\ pv.ov = ov THEN pv.vers ELSE NoVersions

\* clusterVersions: reported versions, and the old versions of the selected
\* clusters that reported nothing.  A deletion reports no version.
MergedVersions(ops, old, selected) ==
  [c \in Clusters |->
     IF ops[c].st = "done" THEN ops[c].ver
     ELSE IF c \in selected THEN old[c] ELSE 0]

\* clusterOperations for one cluster, whose target store holds m (m.live says
\* whether the object was found), recorded is the version recorded for it.
\* Mutant: a recorded version is not compared with the object's.
PlannedOpTrusting(selected, m, recorded, k) ==
  IF selected
  THEN IF ~m.live THEN Issue("add", 0, k)
       ELSE IF recorded = 0 THEN Issue("update", m.rv, k) ELSE NoOp
  ELSE IF m.live THEN Issue("delete", 0, Foreign) ELSE NoOp

PlannedOp(selected, m, recorded, k) ==
  IF selected
  THEN IF ~m.live THEN Issue("add", 0, k)
       ELSE IF recorded = 0 \/ recorded # GetVersion(m)
            THEN Issue("update", m.rv, k)
            ELSE NoOp
  ELSE IF m.live THEN Issue("delete", 0, Foreign) ELSE NoOp

\* PropagatedVersionStatusEquivalent.  reflect.DeepEqual tells the nil slice
\* that an omitted clusterVersions field decodes to from the empty slice that
\* clusterVersions returns, so two empty lists are never equivalent.
StatusEquivalent(old, new) ==
  /\ old.tv = new.tv /\ old.ov = new.ov /\ old.vers = new.vers
  /\ new.vers # NoVersions
=============================================================================
