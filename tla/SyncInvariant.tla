--------------------------- MODULE SyncInvariant ----------------------------
(***************************************************************************)
(* The inductive invariants behind properties of SyncController.           *)
(* VersionsVouch, for types compared by resource version, needs every copy *)
(* of the template and of the PropagatedVersion: in the API, in the stores, *)
(* in the event queue and in the worker's hands; ProtectedPropagation and  *)
(* LeftOnlyByInterruption what the store and the worker believe of the     *)
(* template's finalizers; SeesOwnVersions the shapes the queue of          *)
(* PropagatedVersion events takes.                                         *)
(***************************************************************************)
EXTENDS SyncController

TemplateCopies == {template, tCache, job.tmpl}
VersionCopies  == {pv, pvCache, job.pv} \cup
                  {pvQueue[i] : i \in 1..Len(pvQueue)}

\* Among the templates ts a resource version names one body, and none is
\* newer than top.
NamesBodies(ts, top) ==
  \A s, t \in ts :
    /\ s.rv <= top
    /\ s.rv = t.rv /\ s.rv # 0 => s.body = t.body

\* If the object m still has version v, it has content k.
Vouches(m, v, k) == m.live /\ v # 0 /\ m.rv = v => m.content = k

\* The versions recorded in p are not from the future, and those recorded for
\* one of the templates ts and an override vouch for the content of the two.
VouchesFor(p, ts, top, objs) ==
  /\ p.tv <= top
  /\ \A c \in Clusters : p.vers[c] <= objs[c].rv
  /\ \A t \in ts, c \in Clusters :
       p.tv = t.rv /\ t.rv # 0
         => Vouches(objs[c], p.vers[c], Desired(t.body, p.ov))

TemplatesNamed == NamesBodies(TemplateCopies, template.rv)

CopiesVouch ==
  \A p \in VersionCopies : VouchesFor(p, TemplateCopies, template.rv, member)

\* So do the versions that operations have reported and that are not recorded
\* yet; and operations carry the content of the template in hand.
ReportVouches(o, m, k) ==
  /\ o.st = "issued" => o.ver = 0
  /\ o.kind = "delete" => o.ver = 0
  /\ o.kind \in {"add", "update"} => o.content = k
  /\ o.ver <= m.rv
  /\ Vouches(m, o.ver, k)

InHand == Desired(job.tmpl.body, job.ov)

ReportsVouch == \A c \in Clusters : ReportVouches(op[c], member[c], InHand)

\* There are operations only from their planning to their recording.
Batches == pc \notin {"updating", "record", "createStatus"} => op = NoOps

\* The inductive invariant.  VersionsVouch alone is not inductive: it says
\* nothing of the copies that the worker and the informers will write back.
IInv == /\ TypeOK
        /\ template.rv # 0
        /\ TemplatesNamed
        /\ CopiesVouch
        /\ ReportsVouch
        /\ Batches

-----------------------------------------------------------------------------
(* ProtectedPropagation *)

HeldTemplates == {tCache, job.tmpl}

\* Copy t of the template is not newer than top; one with the version of a
\* live template is that template.
OldCopy(t, top) == /\ t.rv <= top.rv
                   /\ top.live /\ t.rv = top.rv => t = top

\* Nobody but the worker takes the finalizer off, and only when it handles a
\* deletion: a copy t that knows of no deletion is right about it.
RightCopy(t, top) == Protects(t) /\ ~t.deleting => Protects(top)

HeldAreOld   == \A t \in HeldTemplates : OldCopy(t, template)
HeldAreRight == \A t \in HeldTemplates : RightCopy(t, template)

\* The store knows of every deletion the worker handles.
DeletionInStore == job.tmpl.deleting => job.tmpl.rv <= tCache.rv

\* What the worker has ascertained of the template in hand, by step.
HandsKnow ==
  /\ pc \in {"delete", "deleteScan", "deleteFinalizer", "deletePV",
            "deleteTemplate"} => job.tmpl.deleting
  /\ pc \in {"finalize", "place", "compute", "record", "createStatus"}
       => ~job.tmpl.deleting
  /\ pc = "finalize" => job.tmpl.live
  /\ pc \in {"place", "compute", "updating", "record", "createStatus"}
     /\ ~job.tmpl.deleting => Protects(job.tmpl)

\* The deletion helper only deletes.
WritesInPropagation ==
  \A c \in Clusters : op[c].kind \in {"add", "update"} =>
    pc \in {"updating", "record", "createStatus"} /\ ~job.tmpl.deleting

\* The inductive invariant.  ProtectedPropagation alone does not exclude that
\* a stale store makes the worker add objects of a template it has released.
ProtInv == /\ TypeOK
           /\ template.rv # 0
           /\ HeldAreOld
           /\ HeldAreRight
           /\ DeletionInStore
           /\ HandsKnow
           /\ WritesInPropagation

-----------------------------------------------------------------------------
(* SeesOwnVersions *)

\* Nobody deletes the template.
Undeleted == /\ budget["delete"] = 0 /\ ~template.deleting
             /\ ~tCache.deleting /\ ~job.tmpl.deleting

\* Neither replies to the worker's writes get lost nor, where templates are
\* deleted, do its calls fail.
Answered == /\ budget["lost"] = 0
            /\ budget["fault"] = 0 \/ Undeleted

\* The events to deliver end with what the API has.
StoreFollows ==
  IF "pv" \in synced
    THEN pv = IF pvQueue = <<>> THEN pvCache ELSE pvQueue[Len(pvQueue)]
    ELSE pvCache = NoPV /\ pvQueue = <<>>

Propagates(step) == pc = step /\ ~job.tmpl.deleting

\* From the check of pendingVersionUpdates to its insert there is nothing pending;
\* what the worker read and what the API has exist both or neither only if the
\* store had nothing to learn.
HandsCurrent ==
  /\ \A step \in {"compute", "updating", "record", "createStatus"} :
       Propagates(step) => ~pending
  /\ \A step \in {"updating", "record"} :
       Propagates(step) /\ job.pv.live = pv.live => pvQueue = <<>>
  /\ pc = "createStatus" => pv.live /\ pv = job.pv

\* What the store has to learn if no update is pending: nothing, that the object
\* is gone, or that it was created, in which case its status is still to come or
\* the write of the status has failed.
NothingPending ==
  ~pending =>
    \/ pvQueue = <<>>
    \/ /\ Len(pvQueue) = 1 /\ pvCache.live # pvQueue[1].live
       /\ pvQueue[1].live => pc = "createStatus" \/ Undeleted

\* And if one is: at most a creation, an update, and that the object is gone.
UpdatePending ==
  pending =>
    \/ Len(pvQueue) <= 1
    \/ Len(pvQueue) = 2 /\ pvQueue[1].live /\ (pvCache.live => ~pvQueue[2].live)
    \/ /\ Len(pvQueue) = 3 /\ ~pvCache.live
       /\ pvQueue[1].live /\ pvQueue[2].live /\ ~pvQueue[3].live

\* The inductive invariant, with what ProtInv says of the steps.
OwnInv == /\ ProtInv
          /\ Answered
          /\ StoreFollows
          /\ HandsCurrent
          /\ NothingPending
          /\ UpdatePending
=============================================================================
