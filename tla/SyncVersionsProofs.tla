------------------------- MODULE SyncVersionsProofs -------------------------
(***************************************************************************)
(* Recorded versions vouch for content: the proof that IInv is inductive   *)
(* and implies VersionsVouch, for types compared by resource version.      *)
(*                                                                         *)
(* A step moves templates, recorded versions and member objects.  The      *)
(* first lemmas say, of values, which moves keep the invariant; the step   *)
(* lemmas show that every action makes only such moves.                    *)
(***************************************************************************)
EXTENDS SyncInvariant, SyncControllerProofs

\* Template t is one of ts, as far as its version and body go, or none.
Known(t, ts) == t.rv = 0 \/ \E s \in ts : s.rv = t.rv /\ s.body = t.body

\* The templates ts with newest version top become ts2 with newest version
\* top2: those that are not known have a new version and one body.
TemplatesMove(ts, top, ts2, top2) ==
  /\ top <= top2
  /\ \A t \in ts2 : t.rv <= top2 /\ (t.rv <= top => Known(t, ts))
  /\ \A s, t \in ts2 : s.rv > top /\ t.rv > top => s.body = t.body

\* A member object moves: it keeps its version only with its content.
ObjectMoves(m, m2) ==
  /\ m.rv <= m2.rv
  /\ m2.live /\ m2.rv = m.rv => m.live /\ m2.content = m.content

\* Every write and delete in a member is such a move (for whatever content).
LEMMA PerformedMoves ==
  ASSUME NEW o \in Op, NEW m \in Object
  PROVE  ObjectMoves(m, Performed(o, m))
<1>1. ObjectMoves(m, Gone(m))
  BY DEF ObjectMoves, Gone, Object
<1>2. ObjectMoves(m, Written(m, o.content))
  BY DEF ObjectMoves, Written, Object
<1>3. QED
  BY <1>1, <1>2 DEF Performed

LEMMA DriftMoves ==
  ASSUME NEW m \in Object
  PROVE  ObjectMoves(m, Gone(m)) /\ ObjectMoves(m, Written(m, Foreign))
BY DEF ObjectMoves, Gone, Written, Object

\* Templates that move go on naming bodies.
LEMMA NamesKept ==
  ASSUME NEW ts \in SUBSET Template, NEW top \in Nat,
         NEW ts2 \in SUBSET Template, NEW top2 \in Nat,
         NamesBodies(ts, top), TemplatesMove(ts, top, ts2, top2)
  PROVE  NamesBodies(ts2, top2)
<1> SUFFICES ASSUME NEW s \in ts2, NEW t \in ts2
             PROVE  s.rv <= top2 /\ (s.rv = t.rv /\ s.rv # 0 => s.body = t.body)
  BY DEF NamesBodies
<1>1. s.rv \in Nat /\ t.rv \in Nat
  BY DEF Template
<1>2. s.rv <= top2
  BY DEF TemplatesMove
<1>3. ASSUME s.rv = t.rv, s.rv # 0, s.rv <= top PROVE s.body = t.body
  <2>1. Known(s, ts) /\ Known(t, ts)
    BY <1>3 DEF TemplatesMove
  <2>2. PICK s0 \in ts : s0.rv = s.rv /\ s0.body = s.body
    BY <2>1, <1>3 DEF Known
  <2>3. PICK t0 \in ts : t0.rv = t.rv /\ t0.body = t.body
    BY <2>1, <1>3 DEF Known
  <2>4. QED
    BY <2>2, <2>3, <1>3 DEF NamesBodies
<1>4. ASSUME s.rv = t.rv, ~(s.rv <= top) PROVE s.body = t.body
  BY <1>1, <1>4 DEF TemplatesMove
<1>5. QED
  BY <1>2, <1>3, <1>4

\* Recorded versions that vouched for the old templates and objects vouch for
\* those they move to: a new template has a version that is not recorded, and
\* an object that changed has a newer version than the recorded one.
LEMMA VouchKept ==
  ASSUME NEW p \in PropagatedVersion,
         NEW ts \in SUBSET Template, NEW top \in Nat,
         NEW ts2 \in SUBSET Template, NEW top2 \in Nat,
         NEW objs \in [Clusters -> Object], NEW objs2 \in [Clusters -> Object],
         VouchesFor(p, ts, top, objs), TemplatesMove(ts, top, ts2, top2),
         \A c \in Clusters : ObjectMoves(objs[c], objs2[c])
  PROVE  VouchesFor(p, ts2, top2, objs2)
<1>1. /\ p.tv \in Nat
      /\ \A c \in Clusters : /\ p.vers[c] \in Nat
                             /\ objs[c].rv \in Nat /\ objs2[c].rv \in Nat
      /\ \A t \in ts2 : t.rv \in Nat
  BY DEF PropagatedVersion, Object, Template
<1>2. p.tv <= top /\ \A c \in Clusters : p.vers[c] <= objs[c].rv
  BY DEF VouchesFor
<1>3. p.tv <= top2
  BY <1>1, <1>2 DEF TemplatesMove
<1>4. \A c \in Clusters : p.vers[c] <= objs2[c].rv
  BY <1>1, <1>2 DEF ObjectMoves
<1>5. ASSUME NEW t \in ts2, NEW c \in Clusters, p.tv = t.rv, t.rv # 0
      PROVE  Vouches(objs2[c], p.vers[c], Desired(t.body, p.ov))
  <2>1. Known(t, ts)
    BY <1>2, <1>5 DEF TemplatesMove
  <2>2. PICK s \in ts : s.rv = t.rv /\ s.body = t.body
    BY <2>1, <1>5 DEF Known
  <2>3. Vouches(objs[c], p.vers[c], Desired(t.body, p.ov))
    BY <2>2, <1>5 DEF VouchesFor
  <2>4. ASSUME objs2[c].live, p.vers[c] # 0, objs2[c].rv = p.vers[c]
        PROVE  objs2[c].content = Desired(t.body, p.ov)
    <3>1. objs2[c].rv = objs[c].rv
      BY <1>1, <1>2, <2>4 DEF ObjectMoves
    <3>2. objs[c].live /\ objs2[c].content = objs[c].content
      BY <3>1, <2>4 DEF ObjectMoves
    <3>3. QED
      BY <3>1, <3>2, <2>3, <2>4 DEF Vouches
  <2>5. QED
    BY <2>4 DEF Vouches
<1>6. QED
  BY <1>3, <1>4, <1>5 DEF VouchesFor

\* Nothing recorded vouches for everything.
LEMMA BlankVouches ==
  ASSUME NEW p, p.tv = 0, p.vers = NoVersions,
         NEW ts, NEW top \in Nat, NEW objs \in [Clusters -> Object]
  PROVE  VouchesFor(p, ts, top, objs)
<1>1. \A c \in Clusters : p.vers[c] = 0 /\ objs[c].rv \in Nat
  BY DEF NoVersions, Object
<1>2. QED
  BY <1>1 DEF VouchesFor

\* Only templateVersion, overrideVersion and clusterVersions matter.
LEMMA SameVouches ==
  ASSUME NEW p, NEW q, p.tv = q.tv, p.ov = q.ov, p.vers = q.vers,
         NEW ts, NEW top, NEW objs, VouchesFor(q, ts, top, objs)
  PROVE  VouchesFor(p, ts, top, objs)
BY DEF VouchesFor

\* Reports survive the moves of member objects.
LEMMA ReportKept ==
  ASSUME NEW o \in Op, NEW m \in Object, NEW m2 \in Object, NEW k,
         ReportVouches(o, m, k), ObjectMoves(m, m2)
  PROVE  ReportVouches(o, m2, k)
<1>1. o.ver \in Nat /\ m.rv \in Nat /\ m2.rv \in Nat
  BY DEF Op, Object
<1>2. Vouches(m2, o.ver, k)
  <2>1. Vouches(m, o.ver, k) /\ o.ver <= m.rv
    BY DEF ReportVouches
  <2>2. QED
    BY <1>1, <2>1 DEF Vouches, ObjectMoves
<1>3. o.ver <= m2.rv
  BY <1>1 DEF ReportVouches, ObjectMoves
<1>4. QED
  BY <1>2, <1>3 DEF ReportVouches
-----------------------------------------------------------------------------
(* Steps *)

\* The template in the API is written (a new version), removed or left alone.
TemplateMoves ==
  \/ template'.rv > template.rv
  \/ template'.rv = template.rv /\ template'.body = template.body

\* Copies of the template are copied, dropped or are the one just written.
LEMMA TemplatesMoved ==
  ASSUME TypeOK, TypeOK', TemplatesNamed, TemplateMoves,
         TemplateCopies' \subseteq TemplateCopies \cup {NoTemplate, template'}
  PROVE  TemplatesMove(TemplateCopies, template.rv,
                       TemplateCopies', template'.rv)
<1>1. /\ template.rv \in Nat /\ template'.rv \in Nat
      /\ TemplateCopies \subseteq Template /\ template \in TemplateCopies
  <2>1. template \in Template /\ tCache \in Template /\ job.tmpl \in Template
    BY DEF TypeOK, Job
  <2>2. template' \in Template
    BY DEF TypeOK
  <2>3. QED
    BY <2>1, <2>2 DEF Template, TemplateCopies
<1>2. template.rv <= template'.rv
  BY <1>1 DEF TemplateMoves
<1>3. ASSUME NEW t \in TemplateCopies'
      PROVE  t \in TemplateCopies \/ t = NoTemplate \/ t = template'
  BY <1>3
<1>4. \A t \in TemplateCopies : t.rv \in Nat /\ t.rv <= template.rv
  BY <1>1 DEF TemplatesNamed, NamesBodies, Template
<1>5. NoTemplate.rv = 0
  BY DEF NoTemplate
<1>6. ASSUME NEW t \in TemplateCopies'
      PROVE  /\ t.rv <= template'.rv
             /\ t.rv <= template.rv => Known(t, TemplateCopies)
             /\ t.rv > template.rv => t = template'
  <2>1. CASE t \in TemplateCopies
    BY <2>1, <1>1, <1>2, <1>4 DEF Known
  <2>2. CASE t = NoTemplate
    BY <2>2, <1>1, <1>5 DEF Known
  <2>3. CASE t = template'
    BY <2>3, <1>1 DEF Known, TemplateMoves
  <2>4. QED
    BY <1>3, <2>1, <2>2, <2>3
<1>7. \A s, t \in TemplateCopies' :
        s.rv > template.rv /\ t.rv > template.rv => s.body = t.body
  BY <1>6
<1>8. QED
  BY <1>2, <1>6, <1>7 DEF TemplatesMove

\* What the copies of the PropagatedVersion must be after a step: they vouch
\* for the templates and objects before it.
VersionsMove ==
  \A p \in VersionCopies' :
    VouchesFor(p, TemplateCopies, template.rv, member)

\* Versions are copied, dropped, or one that vouches is written.
LEMMA VersionsMoved ==
  ASSUME IInv, NEW q, VouchesFor(q, TemplateCopies, template.rv, member),
         VersionCopies' \subseteq VersionCopies \cup {NoPV, q}
  PROVE  VersionsMove
<1>1. NoPV.tv = 0 /\ NoPV.vers = NoVersions
  BY DEF NoPV
<1>2. VouchesFor(NoPV, TemplateCopies, template.rv, member)
  BY <1>1, BlankVouches DEF IInv, TypeOK, Template
<1>3. QED
  BY <1>2 DEF VersionsMove, IInv, CopiesVouch

\* The PropagatedVersion in the API vouches, so it may stand for no write.
LEMMA VersionsKept ==
  ASSUME IInv, VersionCopies' \subseteq VersionCopies \cup {NoPV}
  PROVE  VersionsMove
<1>1. VouchesFor(pv, TemplateCopies, template.rv, member)
  BY DEF IInv, CopiesVouch, VersionCopies
<1>2. QED
  BY <1>1, VersionsMoved

\* Reports stay true while the batch and the template in hand stay.
LEMMA ReportsKept ==
  ASSUME IInv, TypeOK', op' = op, InHand' = InHand,
         \A c \in Clusters : ObjectMoves(member[c], member'[c])
  PROVE  ReportsVouch'
<1>1. ASSUME NEW c \in Clusters
      PROVE  ReportVouches(op'[c], member'[c], InHand')
  <2>1. ReportVouches(op[c], member[c], InHand)
    BY DEF IInv, ReportsVouch
  <2>2. op[c] \in Op /\ member[c] \in Object /\ member'[c] \in Object
    BY DEF IInv, TypeOK
  <2>3. ReportVouches(op[c], member'[c], InHand)
    BY <2>1, <2>2, ReportKept
  <2>4. QED
    BY <2>3
<1>2. QED
  BY <1>1 DEF ReportsVouch

\* Without operations there is nothing to report.
LEMMA NoReports ==
  ASSUME TypeOK', op' = NoOps
  PROVE  ReportsVouch'
<1>1. ASSUME NEW c \in Clusters
      PROVE  ReportVouches(op'[c], member'[c], InHand')
  <2>1. op'[c] = NoOp /\ member'[c].rv \in Nat
    BY DEF NoOps, TypeOK, Object
  <2>2. QED
    BY <2>1 DEF ReportVouches, Vouches, NoOp
<1>2. QED
  BY <1>1 DEF ReportsVouch

\* Objects that are left alone move trivially.
LEMMA ObjectsStay ==
  ASSUME TypeOK, member' = member
  PROVE  \A c \in Clusters : ObjectMoves(member[c], member'[c])
BY DEF ObjectMoves, TypeOK, Object

\* The moves together keep the invariant.
LEMMA MovesKeep ==
  ASSUME IInv, TypeOK', TemplateMoves,
         TemplateCopies' \subseteq TemplateCopies \cup {NoTemplate, template'},
         \A c \in Clusters : ObjectMoves(member[c], member'[c]),
         VersionsMove, ReportsVouch', Batches'
  PROVE  IInv'
<1>1. TemplatesMove(TemplateCopies, template.rv, TemplateCopies', template'.rv)
  BY TemplatesMoved DEF IInv
<1>2. /\ TemplateCopies \in SUBSET Template /\ TemplateCopies' \in SUBSET Template
      /\ template.rv \in Nat /\ template'.rv \in Nat
      /\ member \in [Clusters -> Object] /\ member' \in [Clusters -> Object]
  <2>1. /\ template \in Template /\ tCache \in Template /\ job.tmpl \in Template
        /\ member \in [Clusters -> Object]
    BY DEF IInv, TypeOK, Job
  <2>2. /\ template' \in Template /\ tCache' \in Template /\ job'.tmpl \in Template
        /\ member' \in [Clusters -> Object]
    BY DEF TypeOK, Job
  <2>3. template.rv \in Nat /\ template'.rv \in Nat
    BY <2>1, <2>2 DEF Template
  <2>4. QED
    BY <2>1, <2>2, <2>3 DEF TemplateCopies
<1>3. template'.rv # 0
  BY <1>2 DEF IInv, TemplateMoves
<1>4. TemplatesNamed'
  <2>1. NamesBodies(TemplateCopies', template'.rv)
    BY <1>1, <1>2, NamesKept DEF IInv, TemplatesNamed
  <2>2. QED
    BY <2>1 DEF TemplatesNamed
<1>5. CopiesVouch'
  <2>1. VersionCopies' \subseteq PropagatedVersion
    <3>1. \A i \in 1..Len(pvQueue') : pvQueue'[i] \in PropagatedVersion
      BY DEF TypeOK
    <3>2. QED
      BY <3>1 DEF VersionCopies, TypeOK, Job
  <2>2. \A p \in VersionCopies' :
          VouchesFor(p, TemplateCopies', template'.rv, member')
    BY <1>1, <1>2, <2>1, VouchKept DEF VersionsMove
  <2>3. QED
    BY <2>2 DEF CopiesVouch
<1>6. QED
  BY <1>3, <1>4, <1>5 DEF IInv

-----------------------------------------------------------------------------
(* Users, informers and deliverers *)

\* What the writes to the template do to its version and body.
LEMMA TemplateWrites ==
  ASSUME TypeOK
  PROVE  /\ Finalized.rv = template.rv + 1 /\ Finalized.body = template.body
         /\ \A fins : WithoutFinalizers(fins).rv = template.rv + 1
         /\ Removed(template).rv = template.rv
         /\ Removed(template).body = template.body
<1>1. template \in Template
  BY DEF TypeOK
<1>2. Finalized.rv = template.rv + 1 /\ Finalized.body = template.body
  BY <1>1 DEF Finalized, Template
<1>3. ASSUME NEW t \in Template
      PROVE  Removed(t).rv = t.rv /\ Removed(t).body = t.body
  BY DEF Removed, Template
<1>4. ASSUME NEW fins
      PROVE  WithoutFinalizers(fins).rv = template.rv + 1
  <2>1. template.rv + 1 \in Nat /\ template.fins \ fins \in SUBSET Finalizers
    BY <1>1 DEF Template
  <2>2. /\ [template EXCEPT !.rv = @ + 1, !.fins = @ \ fins] \in Template
        /\ [template EXCEPT !.rv = @ + 1, !.fins = @ \ fins].rv
             = template.rv + 1
    BY <1>1, <2>1 DEF Template
  <2>3. QED
    BY <2>2, <1>3 DEF WithoutFinalizers
<1>5. QED
  BY <1>1, <1>2, <1>3, <1>4

\* A step that touches none of the copies keeps the invariant.
Untouched == UNCHANGED <<template, tCache, job, pv, pvCache, pvQueue, member,
                         op, pc>>

LEMMA UntouchedKeeps ==
  ASSUME IInv, TypeOK', Untouched
  PROVE  IInv'
BY DEF Untouched, IInv, TemplatesNamed, TemplateCopies, CopiesVouch,
       VersionCopies, ReportsVouch, InHand, Batches

\* So does one that moves the template in the API alone, or member objects
\* alone.
LEMMA TemplateMoveKeeps ==
  ASSUME IInv, TypeOK', TemplateMoves,
         UNCHANGED <<tCache, job, pv, pvCache, pvQueue, member, op, pc>>
  PROVE  IInv'
<1>1. TemplateCopies' \subseteq TemplateCopies \cup {NoTemplate, template'}
  BY DEF TemplateCopies
<1>2. \A c \in Clusters : ObjectMoves(member[c], member'[c])
  BY ObjectsStay DEF IInv
<1>3. VersionsMove
  BY VersionsKept DEF VersionCopies
<1>4. ReportsVouch'
  BY <1>2, ReportsKept DEF InHand
<1>5. Batches'
  BY DEF IInv, Batches
<1>6. QED
  BY <1>1, <1>2, <1>3, <1>4, <1>5, MovesKeep

LEMMA ObjectMoveKeeps ==
  ASSUME IInv, TypeOK', NEW c \in Clusters, NEW m \in Object,
         ObjectMoves(member[c], m), member' = [member EXCEPT ![c] = m],
         UNCHANGED <<template, tCache, job, pv, pvCache, pvQueue, op, pc>>
  PROVE  IInv'
<1>1. TemplateMoves
  BY DEF TemplateMoves
<1>2. TemplateCopies' \subseteq TemplateCopies \cup {NoTemplate, template'}
  BY DEF TemplateCopies
<1>3. \A d \in Clusters : ObjectMoves(member[d], member'[d])
  BY DEF IInv, TypeOK, Object, ObjectMoves
<1>4. VersionsMove
  BY VersionsKept DEF VersionCopies
<1>5. ReportsVouch'
  BY <1>3, ReportsKept DEF InHand
<1>6. Batches'
  BY DEF IInv, Batches
<1>7. QED
  BY <1>1, <1>2, <1>3, <1>4, <1>5, <1>6, MovesKeep

\* The steps of users and of the environment keep the invariant.
LEMMA UserKeeps ==
  ASSUME IInv, TypeOK', User
  PROVE  IInv'
<1> USE DEF apiVars, targetVars, cacheVars, pvVars, queueVars, workerVars
<1>a. TypeOK /\ template \in Template
  BY DEF IInv, TypeOK
<1>1. ASSUME EditTemplate PROVE IInv'
  <2>1. TemplateMoves
    BY <1>1, <1>a DEF EditTemplate, TemplateMoves, Template
  <2>2. QED
    BY <1>1, <2>1, TemplateMoveKeeps DEF EditTemplate
<1>2. ASSUME DeleteTemplate PROVE IInv'
  <2>1. PICK fins \in {template.fins \ {OrphanFinalizer}, template.fins} :
          template' = IF fins = {} THEN Removed(template)
                      ELSE [template EXCEPT !.rv = @ + 1, !.deleting = TRUE,
                                            !.fins = fins]
    BY <1>2 DEF DeleteTemplate
  <2>2. CASE fins = {}
    <3>1. TemplateMoves
      BY <2>1, <2>2, <1>a, TemplateWrites DEF TemplateMoves
    <3>2. QED
      BY <1>2, <3>1, TemplateMoveKeeps DEF DeleteTemplate
  <2>3. CASE fins # {}
    <3>1. template'.rv = template.rv + 1
      BY <2>1, <2>3, <1>a DEF Template
    <3>2. TemplateMoves
      BY <3>1, <1>a DEF TemplateMoves, Template
    <3>3. QED
      BY <1>2, <3>2, TemplateMoveKeeps DEF DeleteTemplate
  <2>4. QED
    BY <2>2, <2>3
<1>3. ASSUME RecreateTemplate PROVE IInv'
  <2>1. TemplateMoves
    BY <1>3, <1>a DEF RecreateTemplate, TemplateMoves, Template
  <2>2. QED
    BY <1>3, <2>1, TemplateMoveKeeps DEF RecreateTemplate
<1>4. ASSUME EditOverride \/ EditPlacement PROVE IInv'
  BY <1>4, UntouchedKeeps DEF EditOverride, EditPlacement, Untouched
<1>5. ASSUME NEW c \in Clusters, Drift(c) PROVE IInv'
  <2>1. member[c] \in Object
    BY <1>a DEF TypeOK
  <2>2. CASE member' = [member EXCEPT ![c] = Gone(@)]
    BY <1>5, <2>1, <2>2, DriftMoves, DriftType, <1>a, ObjectMoveKeeps DEF Drift
  <2>3. CASE member' = [member EXCEPT ![c] = Written(@, Foreign)]
    BY <1>5, <2>1, <2>3, DriftMoves, DriftType, <1>a, ObjectMoveKeeps DEF Drift
  <2>4. QED
    BY <1>5, <2>2, <2>3 DEF Drift
<1>6. ASSUME NEW c \in Clusters, FlipReady(c) PROVE IInv'
  BY <1>6, UntouchedKeeps DEF FlipReady, Untouched
<1>7. ASSUME UpdateTimeout PROVE IInv'
  <2>1. TemplateMoves /\ \A c \in Clusters : ObjectMoves(member[c], member'[c])
    BY <1>7, <1>a, ObjectsStay DEF UpdateTimeout, TemplateMoves
  <2>2. TemplateCopies' \subseteq TemplateCopies \cup {NoTemplate, template'}
    BY <1>7 DEF UpdateTimeout, TemplateCopies
  <2>3. VersionsMove
    BY <1>7, VersionsKept DEF UpdateTimeout, VersionCopies
  <2>4. ReportsVouch'
    <3>1. ASSUME NEW c \in Clusters
          PROVE  ReportVouches(op'[c], member'[c], InHand')
      <4>1. ReportVouches(op[c], member[c], InHand)
        BY DEF IInv, ReportsVouch
      <4>2. op[c] \in Op
        BY <1>a DEF TypeOK
      <4>3. /\ op'[c].ver = op[c].ver /\ op'[c].kind = op[c].kind
            /\ op'[c].content = op[c].content
            /\ op'[c].st = "issued" => op[c].st = "issued"
        BY <1>7, <4>2 DEF UpdateTimeout, Op
      <4>4. member'[c] = member[c] /\ InHand' = InHand
        BY <1>7 DEF UpdateTimeout, InHand
      <4>5. QED
        BY <4>1, <4>3, <4>4 DEF ReportVouches
    <3>2. QED
      BY <3>1 DEF ReportsVouch
  <2>5. Batches'
    BY <1>7 DEF UpdateTimeout, Batches
  <2>6. QED
    BY <2>1, <2>2, <2>3, <2>4, <2>5, MovesKeep
<1>8. ASSUME Crash PROVE IInv'
  <2>1. TemplateMoves /\ \A c \in Clusters : ObjectMoves(member[c], member'[c])
    BY <1>8, <1>a, ObjectsStay DEF Crash, TemplateMoves
  <2>2. TemplateCopies' \subseteq TemplateCopies \cup {NoTemplate, template'}
    BY <1>8 DEF Crash, TemplateCopies, NoJob
  <2>3. VersionsMove
    <3>1. Len(pvQueue') = 0 /\ job'.pv = NoPV /\ pvCache' = NoPV /\ pv' = pv
      BY <1>8 DEF Crash, NoJob
    <3>2. VersionCopies' \subseteq VersionCopies \cup {NoPV}
      BY <3>1 DEF VersionCopies
    <3>3. QED
      BY <3>2, VersionsKept
  <2>4. ReportsVouch' /\ Batches'
    BY <1>8, NoReports DEF Crash, Batches
  <2>5. QED
    BY <2>1, <2>2, <2>3, <2>4, MovesKeep
<1>9. ASSUME NEW l \in late, LandLate(l) PROVE IInv'
  <2>1. l[1] \in Clusters /\ l[2] \in Op /\ member[l[1]] \in Object
    BY <1>a DEF TypeOK
  <2>2. CASE UNCHANGED member
    BY <1>9, <2>2, UntouchedKeeps DEF LandLate, Untouched
  <2>3. CASE member' = [member EXCEPT ![l[1]] = Performed(l[2], @)]
    <3>1. /\ Performed(l[2], member[l[1]]) \in Object
          /\ ObjectMoves(member[l[1]], Performed(l[2], member[l[1]]))
      BY <2>1, PerformedType, PerformedMoves
    <3>2. QED
      BY <1>9, <2>1, <2>3, <3>1, ObjectMoveKeeps DEF LandLate
  <2>4. QED
    BY <1>9, <2>2, <2>3 DEF LandLate
<1>10. QED
  BY <1>1, <1>2, <1>3, <1>4, <1>5, <1>6, <1>7, <1>8, <1>9 DEF User

\* So do those of the informers and of the deliverers: they copy the template
\* and the PropagatedVersion.
LEMMA DeliveryKeeps ==
  ASSUME IInv, TypeOK', Informers \/ Deliver \/ ReconcileOnClusterChange
  PROVE  IInv'
<1> USE DEF apiVars, targetVars, cacheVars, pvVars, queueVars, workerVars
<1>a. TypeOK
  BY DEF IInv
<1>1. ASSUME UNCHANGED <<template, job, pv, member, op, pc>>,
             tCache' \in {tCache, template},
             VersionCopies' \subseteq VersionCopies \cup {NoPV}
      PROVE  IInv'
  <2>1. TemplateMoves /\ \A c \in Clusters : ObjectMoves(member[c], member'[c])
    BY <1>1, <1>a, ObjectsStay DEF TemplateMoves
  <2>2. TemplateCopies' \subseteq TemplateCopies \cup {NoTemplate, template'}
    BY <1>1 DEF TemplateCopies
  <2>3. VersionsMove
    BY <1>1, VersionsKept
  <2>4. ReportsVouch'
    BY <1>1, <2>1, ReportsKept DEF InHand
  <2>5. Batches'
    BY <1>1 DEF IInv, Batches
  <2>6. QED
    BY <2>1, <2>2, <2>3, <2>4, <2>5, MovesKeep
<1>2. ASSUME SyncTemplate PROVE IInv'
  BY <1>1, <1>2 DEF SyncTemplate, VersionCopies
<1>3. ASSUME ListPV PROVE IInv'
  <2>1. Len(pvQueue') = 0 /\ job'.pv = job.pv /\ pvCache' = pv /\ pv' = pv
    BY <1>3 DEF ListPV
  <2>2. VersionCopies' \subseteq VersionCopies \cup {NoPV}
    BY <2>1 DEF VersionCopies
  <2>3. QED
    BY <1>1, <1>3, <2>2 DEF ListPV
<1>4. ASSUME DeliverPV PROVE IInv'
  <2>1. /\ pvQueue \in Seq(PropagatedVersion) /\ pvQueue # <<>>
        /\ pvQueue' = Tail(pvQueue) /\ pvCache' = Head(pvQueue)
        /\ job' = job /\ pv' = pv
    BY <1>4, <1>a DEF DeliverPV, TypeOK
  <2>2. pvCache' \in VersionCopies
    BY <2>1 DEF VersionCopies
  <2>3. \A i \in 1..Len(pvQueue') :
          i + 1 \in 1..Len(pvQueue) /\ pvQueue'[i] = pvQueue[i + 1]
    BY <2>1
  <2>4. VersionCopies' \subseteq VersionCopies \cup {NoPV}
    BY <2>1, <2>2, <2>3 DEF VersionCopies
  <2>5. QED
    BY <1>1, <1>4, <2>4 DEF DeliverPV
<1>5. ASSUME \/ SyncOverride \/ SyncPlacement \/ Deliver
             \/ ReconcileOnClusterChange
      PROVE  IInv'
  BY <1>5, UntouchedKeeps DEF SyncOverride, SyncPlacement, Deliver,
       ReconcileOnClusterChange, Untouched
<1>6. ASSUME NEW c \in Clusters, HandleCluster(c) \/ SyncTarget(c) PROVE IInv'
  BY <1>6, UntouchedKeeps DEF HandleCluster, SyncTarget, Untouched
<1>7. QED
  BY <1>2, <1>3, <1>4, <1>5, <1>6 DEF Informers

-----------------------------------------------------------------------------
(* The worker *)

\* A write to the PropagatedVersion (or none) that vouches.
LEMMA WriteMoves ==
  ASSUME IInv, NEW p \in PropagatedVersion,
         VouchesFor(p, TemplateCopies, template.rv, member),
         WritePV(p) \/ UNCHANGED <<pv, pvQueue>>,
         pvCache' = pvCache, job'.pv \in {job.pv, pvCache, NoPV, p}
  PROVE  VersionsMove
<1>1. pvQueue \in Seq(PropagatedVersion)
  BY DEF IInv, TypeOK
<1>2. pv' \in {pv, p} /\ pvQueue' \in {pvQueue, Append(pvQueue, p)}
  BY DEF WritePV
<1>3. \A i \in 1..Len(Append(pvQueue, p)) :
        \/ i \in 1..Len(pvQueue) /\ Append(pvQueue, p)[i] = pvQueue[i]
        \/ Append(pvQueue, p)[i] = p
  BY <1>1
<1>4. {pvQueue'[i] : i \in 1..Len(pvQueue')} \subseteq VersionCopies \cup {p}
  BY <1>2, <1>3 DEF VersionCopies
<1>5. VersionCopies' \subseteq VersionCopies \cup {NoPV, p}
  BY <1>2, <1>4 DEF VersionCopies
<1>6. QED
  BY <1>5, VersionsMoved

\* What the worker writes vouches: nothing recorded, what it read, or what the
\* operations of this batch reported merged into what it read
\* (clusterVersions, controller.go:750-779).
LEMMA StatusVouches ==
  ASSUME IInv
  PROVE  /\ VouchesFor(CreatedPV, TemplateCopies, template.rv, member)
         /\ VouchesFor(DeletedPV, TemplateCopies, template.rv, member)
         /\ VouchesFor(StatusWritten(job.pv), TemplateCopies, template.rv, member)
         /\ VouchesFor(NewStatus, TemplateCopies, template.rv, member)
         /\ VouchesFor(StatusWritten(NewStatus), TemplateCopies, template.rv,
                       member)
<1> USE DEF IInv
<1>1. /\ template.rv \in Nat /\ member \in [Clusters -> Object]
      /\ job.pv \in PropagatedVersion /\ job.tmpl \in Template
      /\ job.tmpl.rv \in Nat /\ job.ov \in Nat /\ op \in [Clusters -> Op]
      /\ TypeOK
  BY DEF TypeOK, Template, Job
<1>2. /\ CreatedPV.tv = 0 /\ CreatedPV.vers = NoVersions
      /\ DeletedPV.tv = 0 /\ DeletedPV.vers = NoVersions
  BY DEF CreatedPV, DeletedPV, NoPV
<1>3. /\ VouchesFor(CreatedPV, TemplateCopies, template.rv, member)
      /\ VouchesFor(DeletedPV, TemplateCopies, template.rv, member)
  BY <1>1, <1>2, BlankVouches
<1>4. VouchesFor(job.pv, TemplateCopies, template.rv, member)
  BY DEF CopiesVouch, VersionCopies
<1>5. \A p \in PropagatedVersion : /\ StatusWritten(p).tv = p.tv
                                   /\ StatusWritten(p).ov = p.ov
                                   /\ StatusWritten(p).vers = p.vers
  BY DEF StatusWritten, PropagatedVersion
<1>6. VouchesFor(StatusWritten(job.pv), TemplateCopies, template.rv, member)
  BY <1>1, <1>4, <1>5, SameVouches
<1>7. VouchesFor(NewStatus, TemplateCopies, template.rv, member)
  <2> DEFINE old == RecordedVersions(job.pv, job.tmpl.rv, job.ov)
  <2>1. /\ NewStatus.tv = job.tmpl.rv /\ NewStatus.ov = job.ov
        /\ NewStatus.vers = MergedVersions(op, old, job.sel)
    BY <1>1 DEF NewStatus, PropagatedVersion
  <2>2. NewStatus.tv <= template.rv
    BY <2>1 DEF TemplatesNamed, NamesBodies, TemplateCopies
  <2>3. ASSUME NEW c \in Clusters
        PROVE  /\ NewStatus.vers[c] <= member[c].rv
               /\ job.tmpl.rv # 0 => Vouches(member[c], NewStatus.vers[c], InHand)
    <3>1. /\ op[c].ver \in Nat /\ member[c].rv \in Nat /\ old[c] \in Nat
          /\ ReportVouches(op[c], member[c], InHand)
      BY <1>1, RecordedVersionsType DEF Op, Object, ReportsVouch
    <3>2. NewStatus.vers[c] \in {op[c].ver, old[c], 0}
      BY <2>1 DEF MergedVersions
    <3>3. CASE NewStatus.vers[c] = op[c].ver
      BY <3>1, <3>3 DEF ReportVouches
    <3>4. CASE NewStatus.vers[c] = 0
      BY <3>1, <3>4 DEF Vouches
    <3>5. CASE NewStatus.vers[c] = old[c] /\ old[c] # 0
      <4>1. /\ job.pv.tv = job.tmpl.rv /\ job.pv.ov = job.ov
            /\ old[c] = job.pv.vers[c]
        BY <3>5 DEF RecordedVersions, NoVersions
      <4>2. old[c] <= member[c].rv
        BY <4>1, <1>4 DEF VouchesFor
      <4>3. job.tmpl \in TemplateCopies
        BY DEF TemplateCopies
      <4>4. job.tmpl.rv # 0 => Vouches(member[c], old[c], InHand)
        BY <4>1, <4>3, <1>4 DEF VouchesFor, InHand
      <4>5. QED
        BY <3>5, <4>2, <4>4
    <3>6. QED
      BY <3>2, <3>3, <3>4, <3>5
  <2>4. ASSUME NEW t \in TemplateCopies, NEW c \in Clusters,
               NewStatus.tv = t.rv, t.rv # 0
        PROVE  Vouches(member[c], NewStatus.vers[c],
                       Desired(t.body, NewStatus.ov))
    <3>1. job.tmpl \in TemplateCopies /\ job.tmpl.rv = t.rv
      BY <2>1, <2>4 DEF TemplateCopies
    <3>2. t.body = job.tmpl.body
      BY <3>1, <2>4 DEF TemplatesNamed, NamesBodies
    <3>3. QED
      BY <2>1, <2>3, <2>4, <3>1, <3>2 DEF InHand
  <2>5. QED
    BY <2>2, <2>3, <2>4 DEF VouchesFor
<1>8. VouchesFor(StatusWritten(NewStatus), TemplateCopies, template.rv, member)
  BY <1>1, <1>5, <1>7, SameVouches, WrittenTypes
<1>9. QED
  BY <1>3, <1>6, <1>7, <1>8

\* Between batches, and when a batch ends, there is nothing to report.
LEMMA NoBatch ==
  ASSUME IInv, TypeOK',
         \/ op' = NoOps
         \/ op' = op /\ pc \notin {"updating", "record", "createStatus"}
  PROVE  ReportsVouch' /\ Batches'
<1>1. op' = NoOps
  BY DEF IInv, Batches
<1>2. QED
  BY <1>1, NoReports DEF Batches

\* The planned operations carry the content of the template in hand
\* (objectForCluster, controller.go:883-964).
LEMMA PlannedVouches ==
  ASSUME IInv, NEW c \in Clusters
  PROVE  /\ ReportVouches(PlannedOps[c], member[c], InHand)
         /\ \A k : ReportVouches(DeleteOps[c], member[c], k)
<1>1. member[c].rv \in Nat
  BY DEF IInv, TypeOK, Object
<1>2. ASSUME NEW sel, NEW m, NEW v, NEW k
      PROVE  LET o == PlannedOp(sel, m, v, k)
             IN  o.ver = 0 /\ (o.kind \in {"add", "update"} => o.content = k)
  BY DEF PlannedOp, Issue, NoOp
<1>3. PlannedOps[c].ver = 0
  BY <1>2 DEF PlannedOps, NoOp
<1>4. PlannedOps[c].kind \in {"add", "update"} => PlannedOps[c].content = InHand
  BY <1>2 DEF PlannedOps, NoOp, InHand
<1>5. DeleteOps[c].ver = 0 /\ DeleteOps[c].kind \notin {"add", "update"}
  BY DEF DeleteOps, PlannedOp, Issue, NoOp
<1>6. QED
  BY <1>1, <1>3, <1>4, <1>5 DEF ReportVouches, Vouches

\* The steps of the worker and of its goroutines keep the invariant.
LEMMA WorkerKeeps ==
  ASSUME IInv, TypeOK', ComparisonField = "ResourceVersion",
         Worker \/ \E c \in Clusters : ExecuteOp(c)
  PROVE  IInv'
<1> USE DEF apiVars, targetVars, cacheVars, pvVars, queueVars, workerVars
<1>a. TypeOK /\ template \in Template /\ template.rv \in Nat
  BY DEF IInv, TypeOK, Template
<1>b. /\ CreatedPV \in PropagatedVersion /\ DeletedPV \in PropagatedVersion
      /\ StatusWritten(job.pv) \in PropagatedVersion
      /\ StatusWritten(NewStatus) \in PropagatedVersion
      /\ pv \in PropagatedVersion
      /\ VouchesFor(pv, TemplateCopies, template.rv, member)
  BY <1>a, WrittenTypes DEF IInv, TypeOK, CopiesVouch, VersionCopies
\* The worker writes the template or nothing, and takes copies in hand.
<1>c. ASSUME UNCHANGED <<member, tCache, pvCache>>, TemplateMoves,
             job'.tmpl \in {job.tmpl, NoTemplate, tCache, template'},
             VersionsMove, ReportsVouch', Batches'
      PROVE  IInv'
  <2>1. \A c \in Clusters : ObjectMoves(member[c], member'[c])
    BY <1>c, <1>a, ObjectsStay
  <2>2. TemplateCopies' \subseteq TemplateCopies \cup {NoTemplate, template'}
    BY <1>c DEF TemplateCopies
  <2>3. QED
    BY <1>c, <2>1, <2>2, MovesKeep
<1>d. ASSUME UNCHANGED <<pv, pvQueue, pvCache>>, job'.pv \in {job.pv, NoPV, pvCache}
      PROVE  VersionsMove
  BY <1>d, <1>b, WriteMoves
<1>e. \A status : Finish(status) => job' = NoJob /\ op' = NoOps
  BY DEF Finish
<1>f. NoJob.tmpl = NoTemplate /\ NoJob.pv = NoPV /\ job \in Job
  BY <1>a DEF NoJob, TypeOK
<1>g. template' = template => TemplateMoves
  BY DEF TemplateMoves
<1>h. /\ template' = Finalized => TemplateMoves
      /\ \A fins : template' = WithoutFinalizers(fins) => TemplateMoves
      /\ template' = Removed(template) => TemplateMoves
  BY <1>a, TemplateWrites DEF TemplateMoves
<1>i. \A fins : RemoveFinalizers(fins) =>
        /\ TemplateMoves
        /\ (job' = job /\ op' = op) \/ (job' = NoJob /\ op' = NoOps)
  <2> TAKE fins
  <2> HAVE RemoveFinalizers(fins)
  <2>1. template' = template \/ template' = WithoutFinalizers(fins)
    BY DEF RemoveFinalizers, ErrorReply
  <2>2. TemplateMoves
    BY <2>1, <1>g, <1>h
  <2>3. (job' = job /\ op' = op) \/ (job' = NoJob /\ op' = NoOps)
    BY DEF RemoveFinalizers, Goto, Finish
  <2>4. QED
    BY <2>2, <2>3
<1>1. ASSUME StartReconcile PROVE IInv'
  <2>1. /\ job'.tmpl \in {NoTemplate, tCache} /\ job'.pv = NoPV
        /\ op' \in {op, NoOps} /\ pc = "idle"
    BY <1>1, <1>e, <1>f, ConstantTypes DEF StartReconcile, Goto, Job
  <2>2. ReportsVouch' /\ Batches'
    BY <2>1, NoBatch
  <2>3. QED
    BY <1>1, <2>1, <2>2, <1>c, <1>d, <1>g DEF StartReconcile
<1>2. ASSUME EnsureFinalizers PROVE IInv'
  <2>1. TemplateMoves
    BY <1>2, <1>g, <1>h DEF EnsureFinalizers, ErrorReply
  <2>2. /\ job'.tmpl \in {job.tmpl, NoTemplate, template'}
        /\ job'.pv \in {job.pv, NoPV} /\ op' \in {op, NoOps}
    BY <1>2, <1>e, <1>f DEF EnsureFinalizers, Goto, Job
  <2>3. ReportsVouch' /\ Batches'
    BY <1>2, <2>2, NoBatch DEF EnsureFinalizers
  <2>4. QED
    BY <1>2, <2>1, <2>2, <2>3, <1>c, <1>d DEF EnsureFinalizers
<1>3. ASSUME ComputePlacement PROVE IInv'
  <2>1. /\ job'.tmpl \in {job.tmpl, NoTemplate}
        /\ job'.pv \in {job.pv, NoPV} /\ op' \in {op, NoOps}
    BY <1>3, <1>e, <1>f DEF ComputePlacement, Goto, Job
  <2>2. ReportsVouch' /\ Batches'
    BY <1>3, <2>1, NoBatch DEF ComputePlacement
  <2>3. QED
    BY <1>3, <2>1, <2>2, <1>c, <1>d, <1>g DEF ComputePlacement
<1>4. ASSUME ClusterOperations PROVE IInv'
  <2>1. CASE Finish("AllOK")
    BY <1>4, <2>1, NoBatch, <1>c, <1>d, <1>e, <1>f, <1>g DEF ClusterOperations
  <2>2. CASE /\ job' = [job EXCEPT !.pv = pvCache] /\ op' = PlannedOps
             /\ pc' = "updating"
    <3>1. /\ job'.tmpl = job.tmpl /\ job'.ov = job.ov /\ job'.pv = pvCache
      BY <2>2, <1>f DEF Job
    <3>2. member' = member /\ InHand' = InHand
      BY <1>4, <3>1 DEF ClusterOperations, InHand
    <3>3. ReportsVouch'
      BY <2>2, <3>2, PlannedVouches DEF ReportsVouch
    <3>4. Batches'
      BY <2>2 DEF Batches
    <3>5. QED
      BY <1>4, <3>1, <3>3, <3>4, <1>c, <1>d, <1>g DEF ClusterOperations
  <2>3. QED
    BY <1>4, <2>1, <2>2 DEF ClusterOperations
<1>5. ASSUME NEW c \in Clusters, ExecuteOp(c) PROVE IInv'
  <2>1. /\ op[c] \in Op /\ member[c] \in Object
        /\ ReportVouches(op[c], member[c], InHand)
    BY <1>a DEF TypeOK, IInv, ReportsVouch
  <2>2. /\ Performed(op[c], member[c]) \in Object
        /\ ObjectMoves(member[c], Performed(op[c], member[c]))
    BY <2>1, PerformedType, PerformedMoves
  <2>3. \/ member' = member
        \/ member' = [member EXCEPT ![c] = Performed(op[c], @)]
    BY <1>5 DEF ExecuteOp, ErrorReply
  <2>4. ASSUME NEW d \in Clusters PROVE ObjectMoves(member[d], member'[d])
    <3>1. member[d] \in Object /\ member \in [Clusters -> Object]
      BY <1>a DEF TypeOK
    <3>2. member'[d] \in {member[d], IF d = c THEN Performed(op[c], member[c])
                                              ELSE member[d]}
      BY <2>3, <3>1
    <3>3. ObjectMoves(member[d], member[d])
      BY <3>1 DEF ObjectMoves, Object
    <3>4. QED
      BY <2>2, <3>2, <3>3
  <2>5. InHand' = InHand
    BY <1>5 DEF ExecuteOp, InHand
  <2>6. \A d \in Clusters : d # c => op'[d] = op[d]
    BY <1>5, <1>a DEF ExecuteOp, TypeOK
  <2>7. ReportVouches(op'[c], member'[c], InHand)
    <3>1. CASE /\ Accepted(op[c], member[c])
               /\ member' = [member EXCEPT ![c] = Performed(op[c], @)]
               /\ op' = [op EXCEPT ![c].st = "done",
                                   ![c].ver = Reported(op[c], member[c])]
      <4>1. /\ op'[c].st = "done" /\ op'[c].ver = Reported(op[c], member[c])
            /\ op'[c].kind = op[c].kind /\ op'[c].content = op[c].content
        BY <3>1, <2>1, <1>a DEF TypeOK, Op
      <4>2. member'[c] = Performed(op[c], member[c])
        BY <3>1, <1>a DEF TypeOK
      <4>3. CASE op[c].kind = "delete"
        <5>1. op'[c].ver = 0 /\ member'[c].rv \in Nat
          BY <4>1, <4>2, <4>3, <2>2 DEF Reported, Object
        <5>2. QED
          BY <5>1, <4>1, <4>3 DEF ReportVouches, Vouches
      <4>4. CASE op[c].kind \in {"add", "update"}
        <5>1. op[c].content = InHand
          BY <2>1, <4>4 DEF ReportVouches
        <5>2. /\ member'[c] = Written(member[c], InHand)
              /\ op'[c].ver = member'[c].rv
          BY <4>1, <4>2, <4>4, <5>1 DEF Performed, Reported, GetVersion
        <5>3. member'[c].content = InHand
          BY <5>2 DEF Written
        <5>4. op'[c].ver <= member'[c].rv
          BY <5>2, <4>2, <2>2 DEF Object
        <5>5. QED
          BY <4>1, <4>4, <5>1, <5>3, <5>4 DEF ReportVouches, Vouches
      <4>5. QED
        BY <3>1, <4>3, <4>4 DEF Accepted
    <3>2. CASE op' = [op EXCEPT ![c].st = "failed"]
      <4>1. /\ op'[c].st = "failed" /\ op'[c].ver = op[c].ver
            /\ op'[c].kind = op[c].kind /\ op'[c].content = op[c].content
        BY <3>2, <2>1, <1>a DEF TypeOK, Op
      <4>2. ReportVouches(op[c], member'[c], InHand)
        <5>1. member'[c] \in Object /\ ObjectMoves(member[c], member'[c])
          BY <2>4 DEF TypeOK
        <5>2. QED
          BY <5>1, <2>1, ReportKept
      <4>3. QED
        BY <4>1, <4>2 DEF ReportVouches
    <3>3. QED
      BY <1>5, <3>1, <3>2 DEF ExecuteOp
  <2>8. ASSUME NEW d \in Clusters, d # c
        PROVE  ReportVouches(op'[d], member'[d], InHand)
    <3>1. /\ ReportVouches(op[d], member[d], InHand)
          /\ op[d] \in Op /\ member[d] \in Object /\ member'[d] \in Object
      BY <1>a DEF TypeOK, IInv, ReportsVouch
    <3>2. ReportVouches(op[d], member'[d], InHand)
      BY <3>1, <2>4, ReportKept
    <3>3. QED
      BY <3>2, <2>6, <2>8
  <2>9. ReportsVouch'
    BY <2>5, <2>7, <2>8 DEF ReportsVouch
  <2>10. TemplateMoves /\ Batches'
    BY <1>5, <1>g DEF ExecuteOp, Batches
  <2>11. TemplateCopies' \subseteq TemplateCopies \cup {NoTemplate, template'}
    BY <1>5 DEF ExecuteOp, TemplateCopies
  <2>12. VersionsMove
    BY <1>5, <1>d DEF ExecuteOp
  <2>13. QED
    BY <2>4, <2>9, <2>10, <2>11, <2>12, MovesKeep
<1>6. ASSUME CollectResults PROVE IInv'
  <2>1. CASE Finish("Error")
    BY <1>6, <2>1, NoBatch, <1>c, <1>d, <1>e, <1>f, <1>g DEF CollectResults
  <2>2. CASE /\ job' = [job EXCEPT !.failed =
                          \E c \in Clusters : op[c].st = "failed"]
             /\ Goto("record")
    <3>1. /\ job'.tmpl = job.tmpl /\ job'.ov = job.ov /\ job'.pv = job.pv
      BY <2>2, <1>f DEF Job
    <3>2. op' = op /\ member' = member /\ InHand' = InHand
      BY <1>6, <2>2, <3>1 DEF CollectResults, Goto, InHand
    <3>3. ReportsVouch'
      BY <3>2, <1>a, ReportsKept, ObjectsStay
    <3>4. Batches'
      BY <2>2 DEF Goto, Batches
    <3>5. QED
      BY <1>6, <3>1, <3>3, <3>4, <1>c, <1>d, <1>g DEF CollectResults
  <2>3. QED
    BY <1>6, <2>1, <2>2 DEF CollectResults
<1>7. ASSUME CreateVersion PROVE IInv'
  <2>1. /\ WritePV(CreatedPV) \/ UNCHANGED <<pv, pvQueue>>
        /\ UNCHANGED <<template, member, tCache, pvCache>>
    BY <1>7 DEF CreateVersion, ErrorReply
  <2>2. CASE FinishSync
    <3>1. job' = NoJob /\ op' = NoOps
      BY <2>2, <1>e DEF FinishSync
    <3>2. VersionsMove
      BY <2>1, <3>1, <1>b, <1>f, WriteMoves, StatusVouches
    <3>3. QED
      BY <2>1, <3>1, <3>2, <1>c, <1>f, <1>g, NoBatch
  <2>3. CASE job' = [job EXCEPT !.pv = CreatedPV] /\ Goto("createStatus")
    <3>1. /\ job'.tmpl = job.tmpl /\ job'.ov = job.ov /\ job'.pv = CreatedPV
      BY <2>3, <1>f DEF Job
    <3>2. VersionsMove
      BY <2>1, <3>1, <1>b, WriteMoves, StatusVouches
    <3>3. op' = op /\ InHand' = InHand
      BY <2>3, <3>1 DEF Goto, InHand
    <3>4. ReportsVouch'
      BY <2>1, <3>3, <1>a, ReportsKept, ObjectsStay
    <3>5. Batches'
      BY <2>3 DEF Goto, Batches
    <3>6. QED
      BY <2>1, <3>1, <3>2, <3>4, <3>5, <1>c, <1>g
  <2>4. QED
    BY <1>7, <2>2, <2>3 DEF CreateVersion
<1>8. ASSUME CreateVersionStatus PROVE IInv'
  <2>1. /\ WritePV(StatusWritten(job.pv)) \/ UNCHANGED <<pv, pvQueue>>
        /\ UNCHANGED <<template, member, tCache, pvCache>>
        /\ job' = NoJob /\ op' = NoOps
    BY <1>8, <1>e DEF CreateVersionStatus, ErrorReply, FinishSync
  <2>2. VersionsMove
    BY <2>1, <1>b, <1>f, WriteMoves, StatusVouches
  <2>3. QED
    BY <2>1, <2>2, <1>c, <1>f, <1>g, NoBatch
<1>9. ASSUME UpdateVersion PROVE IInv'
  <2>1. /\ WritePV(StatusWritten(NewStatus)) \/ UNCHANGED <<pv, pvQueue>>
        /\ UNCHANGED <<template, member, tCache, pvCache>>
        /\ job' = NoJob /\ op' = NoOps
    BY <1>9, <1>e DEF UpdateVersion, PutStatus, ErrorReply, FinishSync
  <2>2. VersionsMove
    BY <2>1, <1>b, <1>f, WriteMoves, StatusVouches
  <2>3. QED
    BY <2>1, <2>2, <1>c, <1>f, <1>g, NoBatch
<1>10. ASSUME HandleDeletion PROVE IInv'
  <2>1. TemplateMoves
    BY <1>10, <1>g, <1>i DEF HandleDeletion
  <2>2. /\ job'.tmpl \in {job.tmpl, NoTemplate}
        /\ job'.pv \in {job.pv, NoPV} /\ op' \in {op, NoOps}
    BY <1>10, <1>f, <1>i DEF HandleDeletion, Goto, Job
  <2>3. ReportsVouch' /\ Batches'
    BY <1>10, <2>2, NoBatch DEF HandleDeletion
  <2>4. QED
    BY <1>10, <2>1, <2>2, <2>3, <1>c, <1>d DEF HandleDeletion
<1>11. ASSUME ScanTargets PROVE IInv'
  <2>1. CASE op' \in {op, NoOps}
    <3>1. job'.tmpl \in {job.tmpl, NoTemplate} /\ job'.pv \in {job.pv, NoPV}
      BY <1>11, <1>e, <1>f DEF ScanTargets
    <3>2. ReportsVouch' /\ Batches'
      BY <1>11, <2>1, NoBatch DEF ScanTargets
    <3>3. QED
      BY <1>11, <3>1, <3>2, <1>c, <1>d, <1>g DEF ScanTargets
  <2>2. CASE op' = DeleteOps /\ pc' = "updating" /\ job' = job
    <3>1. ReportsVouch'
      BY <1>11, <2>2, PlannedVouches DEF ScanTargets, ReportsVouch
    <3>2. Batches'
      BY <2>2 DEF Batches
    <3>3. QED
      BY <1>11, <2>2, <3>1, <3>2, <1>c, <1>d, <1>g DEF ScanTargets
  <2>3. QED
    BY <1>11, <2>1, <2>2, <1>e DEF ScanTargets, Goto
<1>12. ASSUME DropFinalizer PROVE IInv'
  <2>1. /\ TemplateMoves
        /\ job'.tmpl \in {job.tmpl, NoTemplate}
        /\ job'.pv \in {job.pv, NoPV} /\ op' \in {op, NoOps}
    BY <1>12, <1>f, <1>i DEF DropFinalizer
  <2>2. ReportsVouch' /\ Batches'
    BY <1>12, <2>1, NoBatch DEF DropFinalizer
  <2>3. QED
    BY <1>12, <2>1, <2>2, <1>c, <1>d DEF DropFinalizer
<1>13. ASSUME DeletePV PROVE IInv'
  <2>1. /\ WritePV(DeletedPV) \/ UNCHANGED <<pv, pvQueue>>
        /\ UNCHANGED <<template, member, tCache, pvCache>>
        /\ job' = job \/ job' = NoJob
        /\ op' \in {op, NoOps}
    BY <1>13, <1>e DEF DeletePV, ErasePV, ErrorReply, Goto
  <2>2. VersionsMove
    BY <2>1, <1>b, <1>f, WriteMoves, StatusVouches
  <2>3. ReportsVouch' /\ Batches'
    BY <1>13, <2>1, NoBatch DEF DeletePV
  <2>4. QED
    BY <2>1, <2>2, <2>3, <1>c, <1>f, <1>g
<1>14. ASSUME DeleteTemplateByName PROVE IInv'
  <2>1. TemplateMoves /\ job' = NoJob /\ op' = NoOps
    BY <1>14, <1>e, <1>g, <1>h DEF DeleteTemplateByName, EraseTemplate, ErrorReply
  <2>2. QED
    BY <1>14, <2>1, <1>c, <1>d, <1>f, NoBatch DEF DeleteTemplateByName
<1>15. QED
  BY <1>1, <1>2, <1>3, <1>4, <1>5, <1>6, <1>7, <1>8, <1>9, <1>10, <1>11,
     <1>12, <1>13, <1>14 DEF Worker

-----------------------------------------------------------------------------
(* The theorem *)

\* Initially nothing is recorded, reported or in hand.
LEMMA InitVouches == Init => IInv
<1> SUFFICES ASSUME Init PROVE IInv
  OBVIOUS
<1>1. TypeOK
  BY InitType
<1>2. /\ template.rv = 1 /\ job.tmpl = NoTemplate
      /\ tCache \in {NoTemplate, template} /\ op = NoOps
  BY DEF Init, NoJob
<1>3. TemplatesNamed
  BY <1>2 DEF TemplatesNamed, NamesBodies, TemplateCopies, NoTemplate
<1>4. CopiesVouch
  <2>1. Len(pvQueue) = 0 /\ pv = NoPV /\ pvCache = NoPV /\ job.pv = NoPV
    BY DEF Init, NoJob
  <2>2. VersionCopies = {NoPV}
    BY <2>1 DEF VersionCopies
  <2>3. NoPV.tv = 0 /\ NoPV.vers = NoVersions
    BY DEF NoPV
  <2>4. VouchesFor(NoPV, TemplateCopies, template.rv, member)
    BY <1>1, <1>2, <2>3, BlankVouches DEF TypeOK
  <2>5. QED
    BY <2>2, <2>4 DEF CopiesVouch
<1>5. ReportsVouch
  <2>1. \A c \in Clusters : op[c] = NoOp /\ member[c].rv \in Nat
    BY <1>1, <1>2 DEF NoOps, TypeOK, Object
  <2>2. QED
    BY <2>1 DEF ReportsVouch, ReportVouches, Vouches, NoOp
<1>6. QED
  BY <1>1, <1>2, <1>3, <1>4, <1>5 DEF IInv, Batches

\* The invariant holds: every copy of the PropagatedVersion and every report of
\* an operation vouches for content, wherever the copy is (version/manager.go,
\* controller.go:832-847).
THEOREM CopiesAlwaysVouch ==
  ASSUME ComparisonField = "ResourceVersion"
  PROVE  Spec => []IInv
<1>1. Init => IInv
  BY InitVouches
<1>2. IInv /\ [Next]_vars => IInv'
  <2> SUFFICES ASSUME IInv, [Next]_vars PROVE IInv'
    OBVIOUS
  <2>1. TypeOK'
    BY StepType DEF IInv
  <2>2. CASE Next
    BY <2>1, <2>2, UserKeeps, DeliveryKeeps, WorkerKeeps DEF Next
  <2>3. CASE UNCHANGED vars
    BY <2>1, <2>3, UntouchedKeeps
       DEF vars, apiVars, cacheVars, pvVars, workerVars, Untouched
  <2>4. QED
    BY <2>2, <2>3
<1>3. QED
  BY <1>1, <1>2, PTL DEF Spec

\* For types compared by resource version, a version recorded in the API for
\* the current template and override is the version of an object with the
\* content they ask for, or of none (controller.go:832-847).
THEOREM RecordedVersionsVouch ==
  ASSUME ComparisonField = "ResourceVersion"
  PROVE  Spec => []VersionsVouch
<1>1. Spec => []IInv
  BY CopiesAlwaysVouch
<1>2. IInv => VersionsVouch
  <2> SUFFICES ASSUME IInv, NEW c \in Clusters,
                      member[c].live,
                      RecordedVersions(pv, template.rv,
                                       OverrideVersion(override))[c] # 0,
                      RecordedVersions(pv, template.rv,
                                       OverrideVersion(override))[c]
                        = GetVersion(member[c])
               PROVE  member[c].content = Wanted
    BY DEF VersionsVouch
  <2>1. /\ pv.tv = template.rv /\ pv.ov = OverrideVersion(override)
        /\ pv.vers[c] # 0 /\ pv.vers[c] = member[c].rv
    BY DEF RecordedVersions, NoVersions, GetVersion
  <2>2. VouchesFor(pv, TemplateCopies, template.rv, member)
    BY DEF IInv, CopiesVouch, VersionCopies
  <2>3. template \in TemplateCopies /\ template.rv # 0
    BY DEF IInv, TemplateCopies
  <2>4. QED
    BY <2>1, <2>2, <2>3 DEF VouchesFor, Vouches, Wanted
<1>3. QED
  BY <1>1, <1>2, PTL
=============================================================================
