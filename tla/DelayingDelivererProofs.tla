---------------------- MODULE DelayingDelivererProofs ----------------------
(***************************************************************************)
(* The delaying deliverer keeps its promise, for any keys, callers and     *)
(* capacities, and any heap that does what HeapAssumption says; and the    *)
(* code's heap (DelivererHeap) does, whatever its size.                    *)
(***************************************************************************)
EXTENDS DelayingDeliverer, DelivererHeap, FiniteSetTheorems,
        WellFoundedInduction, TLAPS

-----------------------------------------------------------------------------
(* Counting *)

\* How many elements of a sequence are x.
LEMMA CountType ==
  ASSUME NEW S, NEW seq \in Seq(S), NEW x
  PROVE  /\ IsFiniteSet({i \in DOMAIN seq : seq[i] = x})
         /\ Count(seq, x) \in Nat
<1>1. IsFiniteSet(1..Len(seq))
  BY FS_Interval
<1>2. {i \in DOMAIN seq : seq[i] = x} \in SUBSET (1..Len(seq))
  OBVIOUS
<1>3. QED
  BY <1>1, <1>2, FS_Subset, FS_CardinalityType DEF Count

LEMMA CountAppend ==
  ASSUME NEW S, NEW seq \in Seq(S), NEW y \in S, NEW x
  PROVE  Count(Append(seq, y), x)
           = Count(seq, x) + (IF x = y THEN 1 ELSE 0)
<1> DEFINE P == {i \in DOMAIN seq : seq[i] = x}
           Q == {i \in DOMAIN Append(seq, y) : Append(seq, y)[i] = x}
<1>1. IsFiniteSet(P) /\ Cardinality(P) \in Nat
  BY CountType DEF Count
<1>2. Len(seq) + 1 \notin P
  OBVIOUS
<1>0. Count(seq, x) = Cardinality(P) /\ Count(Append(seq, y), x) = Cardinality(Q)
  BY DEF Count
<1> HIDE DEF P
<1>3. CASE x = y
  <2>1. Q = P \cup {Len(seq) + 1}
    BY <1>3 DEF P
  <2> HIDE DEF Q
  <2>2. Cardinality(Q) = Cardinality(P) + 1
    BY <2>1, <1>1, <1>2, FS_AddElement
  <2>3. QED
    BY <2>2, <1>3, <1>0
<1>4. CASE x # y
  <2>1. Q = P
    BY <1>4 DEF P
  <2> HIDE DEF Q
  <2>2. QED
    BY <2>1, <1>1, <1>4, <1>0
<1>5. QED
  BY <1>3, <1>4

LEMMA CountTail ==
  ASSUME NEW S, NEW seq \in Seq(S), seq # <<>>, NEW x
  PROVE  Count(seq, x) = Count(Tail(seq), x)
                           + (IF x = Head(seq) THEN 1 ELSE 0)
<1> DEFINE P == {i \in DOMAIN seq : seq[i] = x}
           R == P \ {1}
           Q == {i \in DOMAIN Tail(seq) : Tail(seq)[i] = x}
           f == [i \in Q |-> i + 1]
<1>1. /\ IsFiniteSet(P) /\ Cardinality(P) \in Nat
      /\ IsFiniteSet(Q) /\ Cardinality(Q) \in Nat
  <2>1. Tail(seq) \in Seq(S)
    OBVIOUS
  <2>2. IsFiniteSet(P) /\ IsFiniteSet(Q)
    BY <2>1, CountType
  <2>3. QED
    BY <2>2, FS_CardinalityType
<1>2. Cardinality(R) = Cardinality(Q)
  <2>1. f \in Bijection(Q, R)
    <3>1. \A i \in Q : i + 1 \in R
      OBVIOUS
    <3>2. \A i, j \in Q : i + 1 = j + 1 => i = j
      OBVIOUS
    <3>3. \A j \in R : j - 1 \in Q /\ (j - 1) + 1 = j
      OBVIOUS
    <3>4. f \in [Q -> R]
      BY <3>1
    <3>5. \A i, j \in Q : f[i] = f[j] => i = j
      BY <3>2
    <3>6. \A j \in R : \E i \in Q : f[i] = j
      BY <3>3
    <3>7. QED
      BY <3>4, <3>5, <3>6 DEF Bijection, Injection, Surjection, IsInjective
  <2>2. ExistsBijection(Q, R)
    BY <2>1 DEF ExistsBijection
  <2> HIDE DEF P, Q, R, f
  <2>3. QED
    BY <2>2, <1>1, FS_Bijection
<1>3. 1 \in P <=> x = Head(seq)
  OBVIOUS
<1>4. Cardinality(R) = IF 1 \in P THEN Cardinality(P) - 1 ELSE Cardinality(P)
  BY <1>1, FS_RemoveElement
<1>5. Count(seq, x) = Cardinality(P) /\ Count(Tail(seq), x) = Cardinality(Q)
  BY DEF Count
<1> HIDE DEF P, Q
<1>6. QED
  BY <1>1, <1>2, <1>3, <1>4, <1>5

-----------------------------------------------------------------------------
(* The invariant *)

LEMMA ItemsTyped ==
  /\ NoItem \notin Items
  /\ \A x \in Items : x.time \in Times
  /\ Times \subseteq Nat /\ 0 \in Times
BY BoundsAssumption DEF NoItem, Items, Times

\* What HeapAssumption says of the heap at hand.
LEMMA HeapFacts ==
  ASSUME TypeOK
  PROVE  /\ DueIn(heap) \subseteq Items
         /\ \A x, y \in DueIn(heap) : x.key = y.key => x = y
         /\ \A x \in Items : /\ Put(heap, x) \in Heaps
                             /\ DueIn(Put(heap, x)) = Merged(DueIn(heap), x)
         /\ DueIn(heap) # {} =>
              /\ Top(heap) \in DueIn(heap)
              /\ Take(heap) \in Heaps
              /\ DueIn(Take(heap)) = DueIn(heap) \ {Top(heap)}
BY HeapAssumption DEF HeapCorrect, TypeOK

LEMMA InitInv == Init => DelivererInv
<1> SUFFICES ASSUME Init PROVE DelivererInv
  OBVIOUS
<1>1. TypeOK
  <2>1. <<>> \in Seq(Items) /\ Len(<<>>) = 0
    OBVIOUS
  <2>2. /\ UpdateCap \in Nat /\ TargetCap \in Nat
        /\ 0 \in 0..MaxAsks /\ EmptyHeap \in Heaps
    BY BoundsAssumption, HeapAssumption
  <2>3. Len(updates) <= UpdateCap /\ Len(target) <= TargetCap
    BY <2>1, <2>2 DEF Init
  <2>4. QED
    BY <2>1, <2>2, <2>3, ItemsTyped DEF Init, TypeOK
<1>2. NothingEarly
  BY DEF Init, NothingEarly
<1>3. QED
  BY <1>1, <1>2 DEF Init, DelivererInv

LEMMA StepInv == DelivererInv /\ [Next]_vars => DelivererInv'
<1> SUFFICES ASSUME DelivererInv, [Next]_vars PROVE DelivererInv'
  OBVIOUS
<1> USE ItemsTyped DEF DelivererInv
<1> USE DEF runVars, handlerVars
<1>1. CASE Tick
  <2>1. clock' \in Times /\ clock <= clock'
    BY <1>1, BoundsAssumption DEF Tick, TypeOK, Times
  <2>2. TypeOK'
    BY <1>1, <2>1 DEF Tick, TypeOK
  <2>3. \A x \in Items : x.time <= clock => x.time <= clock'
    BY <2>1 DEF TypeOK, Times
  <2>4. now <= clock'
    BY <2>1 DEF TypeOK, NothingEarly, Times
  <2>5. \A i \in 1..Len(target) : target[i] \in Items
    BY DEF TypeOK
  <2>6. NothingEarly'
    BY <1>1, <2>3, <2>4, <2>5 DEF Tick, TypeOK, NothingEarly
  <2>7. QED
    BY <1>1, <2>2, <2>6 DEF Tick
<1>2. ASSUME NEW s \in Senders, NEW x \in Items, Call(s, x) PROVE DelivererInv'
  <2>1. asks' \in 0..MaxAsks
    BY <1>2, BoundsAssumption DEF Call, TypeOK
  <2>2. QED
    BY <1>2, <2>1 DEF Call, TypeOK, NothingEarly
<1>3. ASSUME NEW s \in Senders, SendUpdate(s) PROVE DelivererInv'
  <2>1. pending[s] \in Items
    BY <1>3 DEF SendUpdate, TypeOK
  <2>2. updates' \in Seq(Items) /\ Len(updates') <= UpdateCap
    BY <1>3, <2>1, BoundsAssumption DEF SendUpdate, TypeOK
  <2>3. QED
    BY <1>3, <2>2 DEF SendUpdate, TypeOK, NothingEarly
<1>4. CASE StartRound
  BY <1>4 DEF StartRound, TypeOK, NothingEarly
<1>5. CASE PopDue
  <2>1. /\ Top(heap) \in Items /\ Take(heap) \in Heaps
        /\ Top(heap).time <= now
    BY <1>5, HeapFacts DEF PopDue, IsDue
  <2>2. Top(heap).time <= clock
    BY <2>1 DEF TypeOK, NothingEarly, Times
  <2>3. TypeOK'
    BY <1>5, <2>1 DEF PopDue, TypeOK
  <2>4. NothingEarly'
    BY <1>5, <2>2 DEF PopDue, NothingEarly
  <2>5. QED
    BY <1>5, <2>1, <2>3, <2>4 DEF PopDue
<1>6. CASE SendTarget
  <2>1. inHand \in Items /\ inHand.time <= clock
    BY <1>6 DEF SendTarget, TypeOK, NothingEarly
  <2>2. /\ target' \in Seq(Items) /\ Len(target') <= TargetCap
        /\ \A i \in 1..Len(target') : target'[i].time <= clock
    <3>1. target \in Seq(Items) /\ target' = Append(target, inHand)
      BY <1>6 DEF SendTarget, TypeOK
    <3>2. Len(target') = Len(target) + 1 /\ target' \in Seq(Items)
      BY <2>1, <3>1
    <3>3. Len(target') <= TargetCap
      BY <1>6, <3>1, <3>2, BoundsAssumption DEF SendTarget
    <3>4. \A i \in 1..Len(target') :
            target'[i] = IF i <= Len(target) THEN target[i] ELSE inHand
      BY <2>1, <3>1, <3>2
    <3>5. \A i \in 1..Len(target) : target[i].time <= clock
      BY DEF NothingEarly
    <3>6. QED
      BY <2>1, <3>1, <3>2, <3>3, <3>4, <3>5
  <2>3. TypeOK'
    BY <1>6, <2>2 DEF SendTarget, TypeOK
  <2>4. NothingEarly'
    BY <1>6, <2>2 DEF SendTarget, NothingEarly
  <2>5. QED
    BY <1>6, <2>3, <2>4 DEF SendTarget
<1>7. CASE StartTimer
  <2>1. clock + (NextWakeUp - now) \in Nat
    <3>1. CASE DueIn(heap) = {}
      BY <3>1, BoundsAssumption DEF NextWakeUp, TypeOK, Times
    <3>2. CASE DueIn(heap) # {}
      <4>1. Top(heap).time \in Nat
        BY <3>2, HeapFacts
      <4>2. Top(heap).time > now
        BY <1>7, <3>2, <4>1 DEF StartTimer, IsDue, TypeOK, Times
      <4>3. QED
        BY <3>2, <4>1, <4>2 DEF NextWakeUp, TypeOK, Times
    <3>3. QED
      BY <3>1, <3>2
  <2>2. timer' \in Times
    BY <1>7, <2>1, BoundsAssumption DEF StartTimer, Instant, Times
  <2>3. QED
    BY <1>7, <2>2 DEF StartTimer, TypeOK, NothingEarly
<1>8. CASE WakeUp
  BY <1>8 DEF WakeUp, TypeOK, NothingEarly
<1>9. CASE ReceiveUpdate
  <2>1. Head(updates) \in Items /\ Tail(updates) \in Seq(Items)
        /\ Len(Tail(updates)) <= UpdateCap
    BY <1>9, BoundsAssumption DEF ReceiveUpdate, TypeOK
  <2>2. heap' \in Heaps
    BY <1>9, <2>1, HeapFacts DEF ReceiveUpdate
  <2>3. TypeOK'
    BY <1>9, <2>1, <2>2 DEF ReceiveUpdate, TypeOK
  <2>4. QED
    BY <1>9, <2>3 DEF ReceiveUpdate, NothingEarly
<1>10. CASE ReturnRun
  BY <1>10 DEF ReturnRun, TypeOK, NothingEarly
<1>11. CASE Receive
  <2>1. /\ Head(target) \in Items /\ Head(target).time <= clock
        /\ Tail(target) \in Seq(Items) /\ Len(Tail(target)) <= TargetCap
        /\ \A i \in 1..Len(Tail(target)) : Tail(target)[i].time <= clock
    BY <1>11, BoundsAssumption DEF Receive, TypeOK, NothingEarly
  <2>2. TypeOK'
    BY <1>11, <2>1 DEF Receive, TypeOK
  <2>3. NothingEarly'
    BY <1>11, <2>1 DEF Receive, NothingEarly
  <2>4. QED
    BY <1>11, <2>2, <2>3 DEF Receive
<1>12. CASE Handled
  BY <1>12 DEF Handled, TypeOK, NothingEarly
<1>13. CASE ReturnHandler
  BY <1>13 DEF ReturnHandler, TypeOK, NothingEarly
<1>14. CASE Stop
  BY <1>14 DEF Stop, TypeOK, NothingEarly
<1>15. CASE UNCHANGED vars
  BY <1>15 DEF vars, TypeOK, NothingEarly
<1>16. QED
  BY <1>1, <1>2, <1>3, <1>4, <1>5, <1>6, <1>7, <1>8, <1>9, <1>10, <1>11,
     <1>12, <1>13, <1>14, <1>15 DEF Next, Run, Handling

\* Whatever the deliverer holds for the handler is due, and has its type
\* (delaying_deliverer.go:101-109).
THEOREM NothingDeliveredEarly == Spec => []DelivererInv
<1>1. QED
  BY InitInv, StepInv, PTL DEF Spec

-----------------------------------------------------------------------------
(* The refinement *)

Asking(x) == Cardinality({s \in Senders : pending[s] = x})
InHeap(x) == IF x \in DueIn(heap) THEN 1 ELSE 0
InHand(x) == IF inHand = x THEN 1 ELSE 0

\* The parts of Owed.
LEMMA OwedParts ==
  ASSUME TypeOK, NEW x
  PROVE  /\ Owed(x) = Asking(x) + Count(updates, x) + InHeap(x) + InHand(x)
                      + Count(target, x)
         /\ Asking(x) \in Nat /\ Count(updates, x) \in Nat
         /\ InHeap(x) \in 0..1 /\ InHand(x) \in 0..1
         /\ Count(target, x) \in Nat /\ Owed(x) \in Nat
<1>1. IsFiniteSet({s \in Senders : pending[s] = x})
  BY BoundsAssumption, FS_Subset
<1>2. Asking(x) \in Nat
  BY <1>1, FS_CardinalityType DEF Asking
<1>3. Count(updates, x) \in Nat /\ Count(target, x) \in Nat
  BY CountType DEF TypeOK
<1>4. InHeap(x) \in 0..1 /\ InHand(x) \in 0..1
  BY DEF InHeap, InHand
<1>5. Owed(x) = Asking(x) + Count(updates, x) + InHeap(x) + InHand(x)
                + Count(target, x)
  BY DEF Owed, Asking, InHeap, InHand
<1>6. QED
  BY <1>2, <1>3, <1>4, <1>5

\* A caller that starts to ask counts for one.
LEMMA AskingMore ==
  ASSUME TypeOK, NEW s \in Senders, pending[s] = NoItem, NEW y \in Items,
         pending' = [pending EXCEPT ![s] = y], NEW x \in Items
  PROVE  Asking(x)' = Asking(x) + (IF x = y THEN 1 ELSE 0)
<1> DEFINE P == {t \in Senders : pending[t] = x}
           Q == {t \in Senders : pending'[t] = x}
<1>1. Asking(x) = Cardinality(P) /\ Asking(x)' = Cardinality(Q)
  BY DEF Asking
<1>2. s \notin P
  BY ItemsTyped
<1>3. Q = IF x = y THEN P \cup {s} ELSE P
  BY ItemsTyped DEF TypeOK
<1>4. IsFiniteSet(P)
  BY BoundsAssumption, FS_Subset
<1> HIDE DEF P, Q
<1>5. Cardinality(P) \in Nat /\ Cardinality(P \cup {s}) = Cardinality(P) + 1
  BY <1>2, <1>4, FS_AddElement, FS_CardinalityType
<1>6. QED
  BY <1>1, <1>3, <1>5

\* And no more when its item has been sent.
LEMMA AskingLess ==
  ASSUME TypeOK, NEW s \in Senders, pending[s] # NoItem,
         pending' = [pending EXCEPT ![s] = NoItem], NEW x \in Items
  PROVE  Asking(x) = Asking(x)' + (IF x = pending[s] THEN 1 ELSE 0)
<1> DEFINE P == {t \in Senders : pending[t] = x}
           Q == {t \in Senders : pending'[t] = x}
<1>1. Asking(x) = Cardinality(P) /\ Asking(x)' = Cardinality(Q)
  BY DEF Asking
<1>2. Q = P \ {s}
  BY ItemsTyped DEF TypeOK
<1>3. s \in P <=> x = pending[s]
  OBVIOUS
<1>4. IsFiniteSet(P)
  BY BoundsAssumption, FS_Subset
<1> HIDE DEF P, Q
<1>5. /\ Cardinality(P) \in Nat
      /\ Cardinality(P \ {s}) =
           IF s \in P THEN Cardinality(P) - 1 ELSE Cardinality(P)
  BY <1>4, FS_RemoveElement, FS_CardinalityType
<1>6. QED
  BY <1>1, <1>2, <1>3, <1>5

\* The promise's variable.
Outstanding == [x \in Items |-> Owed(x)]

\* When every request counts as before, the promise's variable is unchanged.
LEMMA SameOwed ==
  ASSUME \A x \in Items : Owed(x)' = Owed(x)
  PROVE  UNCHANGED Outstanding
BY DEF Outstanding

\* Variables that Owed does not read.
LEMMA UnreadOwed ==
  ASSUME UNCHANGED <<pending, updates, heap, inHand, target>>
  PROVE  UNCHANGED Outstanding
BY DEF Outstanding, Owed

\* One request more, or one less.
LEMMA MoreOwed ==
  ASSUME TypeOK, NEW y \in Items,
         \A x \in Items : Owed(x)' = Owed(x) + (IF x = y THEN 1 ELSE 0)
  PROVE  Outstanding' = [Outstanding EXCEPT ![y] = @ + 1]
<1>1. \A x \in Items : Owed(x) \in Nat
  BY OwedParts
<1>2. \A x \in Items : Owed(x)' = IF x = y THEN Owed(x) + 1 ELSE Owed(x)
  BY <1>1
<1>3. Outstanding' = [x \in Items |-> IF x = y THEN Owed(x) + 1 ELSE Owed(x)]
  BY <1>2 DEF Outstanding
<1>4. QED
  BY <1>3 DEF Outstanding

LEMMA LessOwed ==
  ASSUME TypeOK, NEW y \in Items, \A x \in Items : Owed(x)' \in Nat,
         \A x \in Items : Owed(x) = Owed(x)' + (IF x = y THEN 1 ELSE 0)
  PROVE  Outstanding' = [Outstanding EXCEPT ![y] = @ - 1]
<1>1. \A x \in Items : Owed(x)' = IF x = y THEN Owed(x) - 1 ELSE Owed(x)
  BY OwedParts
<1>2. Outstanding' = [x \in Items |-> IF x = y THEN Owed(x) - 1 ELSE Owed(x)]
  BY <1>1 DEF Outstanding
<1>3. QED
  BY <1>2 DEF Outstanding

\* The parts of Owed after a step.
LEMMA OwedPartsAfter ==
  ASSUME DelivererInv, [Next]_vars, NEW x
  PROVE  /\ Owed(x)' = Asking(x)' + Count(updates, x)' + InHeap(x)'
                       + InHand(x)' + Count(target, x)'
         /\ Asking(x)' \in Nat /\ Count(updates, x)' \in Nat
         /\ InHeap(x)' \in 0..1 /\ InHand(x)' \in 0..1
         /\ Count(target, x)' \in Nat /\ Owed(x)' \in Nat
<1>1. TypeOK'
  BY StepInv DEF DelivererInv
<1>2. Asking(x)' \in Nat
  <2>1. IsFiniteSet({s \in Senders : pending'[s] = x})
    BY BoundsAssumption, FS_Subset
  <2>2. QED
    BY <2>1, FS_CardinalityType DEF Asking
<1>3. Count(updates, x)' \in Nat /\ Count(target, x)' \in Nat
  <2>1. updates' \in Seq(Items) /\ target' \in Seq(Items)
    BY <1>1 DEF TypeOK
  <2>2. Count(updates', x) \in Nat /\ Count(target', x) \in Nat
    BY <2>1, CountType
  <2>3. QED
    BY <2>2 DEF Count
<1>4. InHeap(x)' \in 0..1 /\ InHand(x)' \in 0..1
  BY DEF InHeap, InHand
<1>5. Owed(x)' = Asking(x)' + Count(updates, x)' + InHeap(x)' + InHand(x)'
                 + Count(target, x)'
  BY DEF Owed, Asking, InHeap, InHand
<1>6. QED
  BY <1>2, <1>3, <1>4, <1>5

\* A call of DeliverAt asks.
LEMMA CallAsks ==
  ASSUME DelivererInv, NEW s \in Senders, NEW y \in Items, Call(s, y)
  PROVE  Outstanding' = [Outstanding EXCEPT ![y] = @ + 1]
<1> USE DEF runVars, DelivererInv
<1>1. \A x \in Items : Asking(x)' = Asking(x) + (IF x = y THEN 1 ELSE 0)
  BY AskingMore DEF Call
<1>2. \A x : InHeap(x)' = InHeap(x) /\ InHand(x)' = InHand(x)
  BY DEF Call, InHeap, InHand
<1>3. \A x : Count(updates, x)' = Count(updates, x)
             /\ Count(target, x)' = Count(target, x)
  BY DEF Call, Count
<1>4. \A x \in Items : Owed(x)' = Owed(x) + (IF x = y THEN 1 ELSE 0)
  <2> SUFFICES ASSUME NEW x \in Items
               PROVE  Owed(x)' = Owed(x) + (IF x = y THEN 1 ELSE 0)
    OBVIOUS
  <2>1. Owed(x)' = Asking(x)' + Count(updates, x)' + InHeap(x)' + InHand(x)'
                   + Count(target, x)'
    BY OwedPartsAfter DEF Next
  <2>2. QED
    BY <2>1, <1>1, <1>2, <1>3, OwedParts
<1>5. QED
  BY <1>4, MoreOwed

\* Items on their way to the heap, out of it, and to the target channel count
\* as before.
LEMMA SendUpdateMoves ==
  ASSUME DelivererInv, NEW s \in Senders, SendUpdate(s)
  PROVE  UNCHANGED Outstanding
<1> USE DEF runVars, DelivererInv
<1>1. pending[s] \in Items
  BY DEF SendUpdate, TypeOK
<1>2. SUFFICES ASSUME NEW x \in Items PROVE Owed(x)' = Owed(x)
  BY SameOwed
<1>3. Asking(x) = Asking(x)' + (IF x = pending[s] THEN 1 ELSE 0)
  BY AskingLess DEF SendUpdate
<1>4. Count(updates, x)' = Count(updates, x)
                           + (IF x = pending[s] THEN 1 ELSE 0)
  <2>1. Count(Append(updates, pending[s]), x)
          = Count(updates, x) + (IF x = pending[s] THEN 1 ELSE 0)
    BY <1>1, CountAppend DEF TypeOK
  <2>2. Count(updates', x)
          = Count(updates, x) + (IF x = pending[s] THEN 1 ELSE 0)
    BY <2>1 DEF SendUpdate
  <2>3. QED
    BY <2>2 DEF Count
<1>5. InHeap(x)' = InHeap(x) /\ InHand(x)' = InHand(x)
  BY DEF SendUpdate, InHeap, InHand
<1>6. Count(target, x)' = Count(target, x)
  BY DEF SendUpdate, Count
<1>7. Owed(x)' = Asking(x)' + Count(updates, x)' + InHeap(x)' + InHand(x)'
                 + Count(target, x)' /\ Asking(x)' \in Nat
  BY OwedPartsAfter DEF Next
<1>8. QED
  BY <1>3, <1>4, <1>5, <1>6, <1>7, OwedParts

LEMMA PopDueMoves ==
  ASSUME DelivererInv, PopDue
  PROVE  UNCHANGED Outstanding
<1> USE DEF DelivererInv
<1>1. SUFFICES ASSUME NEW x \in Items PROVE Owed(x)' = Owed(x)
  BY SameOwed
<1>2. InHeap(x)' + InHand(x)' = InHeap(x) + InHand(x)
  <2>1. /\ Top(heap) \in DueIn(heap)
        /\ DueIn(heap') = DueIn(heap) \ {Top(heap)}
    BY HeapFacts DEF PopDue, IsDue
  <2>2. inHand = NoItem /\ inHand' = Top(heap)
    BY DEF PopDue
  <2>3. QED
    BY <2>1, <2>2, ItemsTyped DEF InHeap, InHand
<1>3. Asking(x)' = Asking(x)
  BY DEF PopDue, Asking
<1>4. Count(updates, x)' = Count(updates, x) /\ Count(target, x)' = Count(target, x)
  BY DEF PopDue, Count
<1>5. Owed(x)' = Asking(x)' + Count(updates, x)' + InHeap(x)' + InHand(x)'
                 + Count(target, x)' /\ InHeap(x)' \in 0..1 /\ InHand(x)' \in 0..1
  BY OwedPartsAfter DEF Next, Run
<1>6. QED
  BY <1>2, <1>3, <1>4, <1>5, OwedParts

LEMMA SendTargetMoves ==
  ASSUME DelivererInv, SendTarget
  PROVE  UNCHANGED Outstanding
<1> USE DEF DelivererInv
<1>1. inHand \in Items
  BY DEF SendTarget, TypeOK
<1>2. SUFFICES ASSUME NEW x \in Items PROVE Owed(x)' = Owed(x)
  BY SameOwed
<1>3. InHand(x) = (IF x = inHand THEN 1 ELSE 0) /\ InHand(x)' = 0
  BY ItemsTyped DEF SendTarget, InHand
<1>4. Count(target, x)' = Count(target, x) + (IF x = inHand THEN 1 ELSE 0)
  <2>1. Count(Append(target, inHand), x)
          = Count(target, x) + (IF x = inHand THEN 1 ELSE 0)
    BY <1>1, CountAppend DEF TypeOK
  <2>2. Count(target', x)
          = Count(target, x) + (IF x = inHand THEN 1 ELSE 0)
    BY <2>1 DEF SendTarget
  <2>3. QED
    BY <2>2 DEF Count
<1>5. Asking(x)' = Asking(x) /\ InHeap(x)' = InHeap(x)
  BY DEF SendTarget, Asking, InHeap
<1>6. Count(updates, x)' = Count(updates, x)
  BY DEF SendTarget, Count
<1>7. Owed(x)' = Asking(x)' + Count(updates, x)' + InHeap(x)' + InHand(x)'
                 + Count(target, x)'
  BY OwedPartsAfter DEF Next, Run
<1>8. QED
  BY <1>3, <1>4, <1>5, <1>6, <1>7, OwedParts

\* y gives way to x.
GivesWay(x, y) ==
  /\ x.key = y.key /\ x.time <= y.time
  /\ Owed(x) > 0 /\ Owed(y) > 0 /\ (x = y => Owed(x) > 1)
  /\ Outstanding' = [Outstanding EXCEPT ![y] = @ - 1]

\* An item enters the heap, replaces another, or is dropped.
LEMMA ReceiveUpdateMoves ==
  ASSUME DelivererInv, ReceiveUpdate
  PROVE  UNCHANGED Outstanding \/ \E x, y \in Items : GivesWay(x, y)
<1> DEFINE z == Head(updates)
<1>1. /\ z \in Items /\ updates \in Seq(Items) /\ updates # <<>>
      /\ DueIn(heap') = Merged(DueIn(heap), z)
  BY HeapFacts DEF ReceiveUpdate, DelivererInv, TypeOK
<1>2. \A x : Count(updates, x) = Count(updates, x)' + (IF x = z THEN 1 ELSE 0)
  <2>1. \A x : Count(updates, x)
                 = Count(Tail(updates), x) + (IF x = z THEN 1 ELSE 0)
    BY <1>1, CountTail
  <2>2. \A x : Count(updates, x)' = Count(Tail(updates), x)
    BY DEF ReceiveUpdate, Count
  <2>3. QED
    BY <2>1, <2>2
<1>3. \A x : /\ Asking(x)' = Asking(x) /\ InHand(x)' = InHand(x)
             /\ Count(target, x)' = Count(target, x)
  BY DEF ReceiveUpdate, Asking, InHand, Count
<1>4. \A x : /\ Owed(x)' = Asking(x)' + Count(updates, x)' + InHeap(x)'
                           + InHand(x)' + Count(target, x)'
             /\ Count(updates, x)' \in Nat /\ InHeap(x)' \in 0..1
             /\ Owed(x)' \in Nat
  BY OwedPartsAfter DEF Next, Run
<1>5. \A x : /\ Owed(x) = Asking(x) + Count(updates, x) + InHeap(x)
                          + InHand(x) + Count(target, x)
             /\ Asking(x) \in Nat /\ InHeap(x) \in 0..1 /\ InHand(x) \in 0..1
             /\ Count(updates, x) \in Nat /\ Count(target, x) \in Nat
  BY OwedParts DEF DelivererInv
<1>6. \A x : Owed(x) + InHeap(x)'
               = Owed(x)' + InHeap(x) + (IF x = z THEN 1 ELSE 0)
  BY <1>2, <1>3, <1>4, <1>5
<1>7. /\ DueIn(heap) \subseteq Items
      /\ \A x, y \in DueIn(heap) : x.key = y.key => x = y
  BY HeapFacts DEF DelivererInv
<1>8. Owed(z) > 0 /\ (z \in DueIn(heap) => Owed(z) > 1)
  BY <1>2, <1>4, <1>5 DEF InHeap
<1>9. \A x \in DueIn(heap) : Owed(x) > 0
  BY <1>5 DEF InHeap
<1> HIDE DEF z
<1>10. CASE ~ \E y \in DueIn(heap) : y.key = z.key
  <2>1. DueIn(heap') = DueIn(heap) \cup {z} /\ z \notin DueIn(heap)
    BY <1>1, <1>10 DEF Merged
  <2>2. \A x : InHeap(x)' = InHeap(x) + (IF x = z THEN 1 ELSE 0)
    BY <2>1 DEF InHeap
  <2>3. \A x \in Items : Owed(x)' = Owed(x)
    BY <2>2, <1>4, <1>5, <1>6
  <2>4. QED
    BY <2>3, SameOwed
<1>11. ASSUME NEW y \in DueIn(heap), y.key = z.key
       PROVE  \E x, w \in Items : GivesWay(x, w)
  <2>1. y \in Items /\ y.time \in Nat /\ z.time \in Nat
    BY <1>1, <1>7, <1>11, ItemsTyped
  <2>2. \A x \in DueIn(heap) : x.key = z.key <=> x = y
    BY <1>7, <1>11
  <2>3. CASE z.time < y.time
    <3>1. z # y /\ z \notin DueIn(heap)
      BY <2>1, <2>2, <2>3
    <3>2. DueIn(heap') = (DueIn(heap) \ {y}) \cup {z}
      BY <1>1, <1>11, <2>2, <2>3 DEF Merged
    <3>3. \A x : InHeap(x)' + (IF x = y THEN 1 ELSE 0)
                   = InHeap(x) + (IF x = z THEN 1 ELSE 0)
      BY <1>11, <3>1, <3>2 DEF InHeap
    <3>4. \A x \in Items : Owed(x) = Owed(x)' + (IF x = y THEN 1 ELSE 0)
      <4> SUFFICES ASSUME NEW x \in Items
                   PROVE  Owed(x) = Owed(x)' + (IF x = y THEN 1 ELSE 0)
        OBVIOUS
      <4>1. InHeap(x) \in 0..1 /\ InHeap(x)' \in 0..1 /\ Owed(x)' \in Nat
            /\ Owed(x) \in Nat
        BY <1>4, <1>5, OwedParts DEF DelivererInv
      <4>2. InHeap(x)' + (IF x = y THEN 1 ELSE 0)
              = InHeap(x) + (IF x = z THEN 1 ELSE 0)
        BY <3>3
      <4>3. Owed(x) + InHeap(x)'
              = Owed(x)' + InHeap(x) + (IF x = z THEN 1 ELSE 0)
        BY <1>6
      <4> HIDE DEF InHeap
      <4>4. QED
        BY <4>1, <4>2, <4>3
    <3>5. Outstanding' = [Outstanding EXCEPT ![y] = @ - 1]
      BY <1>4, <2>1, <3>4, LessOwed DEF DelivererInv
    <3>6. GivesWay(z, y)
      BY <1>8, <1>9, <1>11, <2>1, <2>3, <3>1, <3>5 DEF GivesWay
    <3>7. QED
      BY <1>1, <2>1, <3>6
  <2>4. CASE ~(z.time < y.time)
    <3>1. DueIn(heap') = DueIn(heap)
      BY <1>1, <1>11, <2>2, <2>4 DEF Merged
    <3>2. \A x : InHeap(x)' = InHeap(x)
      BY <3>1 DEF InHeap
    <3>3. \A x \in Items : Owed(x) = Owed(x)' + (IF x = z THEN 1 ELSE 0)
      BY <1>4, <1>5, <1>6, <3>2
    <3>4. Outstanding' = [Outstanding EXCEPT ![z] = @ - 1]
      BY <1>1, <1>4, <3>3, LessOwed DEF DelivererInv
    <3>5. y.time <= z.time
      BY <2>1, <2>4
    <3>6. GivesWay(y, z)
      BY <1>8, <1>9, <1>11, <3>4, <3>5 DEF GivesWay
    <3>7. QED
      BY <1>1, <2>1, <3>6
  <2>5. QED
    BY <2>3, <2>4
<1>12. QED
  BY <1>10, <1>11

\* The handler gets an item that was owed and is due.
LEMMA ReceiveHands ==
  ASSUME DelivererInv, Receive
  PROVE  \E x \in Items :
           /\ Owed(x) > 0 /\ x.time <= clock
           /\ Outstanding' = [Outstanding EXCEPT ![x] = @ - 1]
           /\ handed' = x
<1> DEFINE z == Head(target)
<1> USE DEF runVars
<1>1. /\ z \in Items /\ z.time <= clock
      /\ target \in Seq(Items) /\ target # <<>>
  BY DEF Receive, DelivererInv, TypeOK, NothingEarly
<1>2. \A x : Count(target, x) = Count(target, x)' + (IF x = z THEN 1 ELSE 0)
  <2>1. \A x : Count(target, x)
                 = Count(Tail(target), x) + (IF x = z THEN 1 ELSE 0)
    BY <1>1, CountTail
  <2>2. \A x : Count(target, x)' = Count(Tail(target), x)
    BY DEF Receive, Count
  <2>3. QED
    BY <2>1, <2>2
<1>3. \A x : /\ Asking(x)' = Asking(x) /\ InHand(x)' = InHand(x)
             /\ InHeap(x)' = InHeap(x)
             /\ Count(updates, x)' = Count(updates, x)
  BY DEF Receive, Asking, InHand, InHeap, Count
<1>4. \A x : /\ Owed(x)' = Asking(x)' + Count(updates, x)' + InHeap(x)'
                           + InHand(x)' + Count(target, x)'
             /\ Count(target, x)' \in Nat /\ Owed(x)' \in Nat
  BY OwedPartsAfter DEF Next, Handling
<1>5. \A x : /\ Owed(x) = Asking(x) + Count(updates, x) + InHeap(x)
                          + InHand(x) + Count(target, x)
             /\ Asking(x) \in Nat /\ InHeap(x) \in 0..1 /\ InHand(x) \in 0..1
             /\ Count(updates, x) \in Nat /\ Count(target, x) \in Nat
  BY OwedParts DEF DelivererInv
<1>6. \A x : Owed(x) = Owed(x)' + (IF x = z THEN 1 ELSE 0)
  BY <1>2, <1>3, <1>4, <1>5
<1>7. handed' = z
  BY DEF Receive
<1> HIDE DEF z
<1>8. Owed(z) > 0
  BY <1>4, <1>6
<1>9. Outstanding' = [Outstanding EXCEPT ![z] = @ - 1]
  BY <1>1, <1>4, <1>6, LessOwed DEF DelivererInv
<1>10. QED
  BY <1>1, <1>7, <1>8, <1>9

-----------------------------------------------------------------------------

LEMMA PromiseItems ==
  Promise!Items = Items /\ Promise!NoItem = NoItem /\ Promise!Times = Times
BY DEF Promise!Items, Promise!NoItem, Promise!Times, Items, NoItem, Times

LEMMA InitRefines == Init => Promise!PromiseInit
<1> SUFFICES ASSUME Init PROVE Promise!PromiseInit
  OBVIOUS
<1>1. \A x \in Items : Owed(x) = 0
  <2> SUFFICES ASSUME NEW x \in Items PROVE Owed(x) = 0
    OBVIOUS
  <2>1. {s \in Senders : pending[s] = x} = {}
    BY ItemsTyped DEF Init
  <2>2. /\ {i \in DOMAIN updates : updates[i] = x} = {}
        /\ {i \in DOMAIN target : target[i] = x} = {}
    BY DEF Init
  <2>3. x \notin DueIn(heap) /\ inHand # x
    BY HeapAssumption, ItemsTyped DEF Init
  <2>4. Asking(x) = 0 /\ Count(updates, x) = 0 /\ Count(target, x) = 0
    BY <2>1, <2>2, FS_EmptySet DEF Asking, Count
  <2>5. InHeap(x) = 0 /\ InHand(x) = 0
    BY <2>3 DEF InHeap, InHand
  <2>6. Owed(x) = Asking(x) + Count(updates, x) + InHeap(x) + InHand(x)
                  + Count(target, x)
    BY DEF Owed, Asking, InHeap, InHand
  <2>7. QED
    BY <2>4, <2>5, <2>6
<1>2. QED
  BY <1>1, PromiseItems DEF Promise!PromiseInit, Init

\* Every step is a step of the promise, or none.
LEMMA StepRefines ==
  DelivererInv /\ [Next]_vars => [Promise!PromiseNext]_(Promise!promiseVars)
<1> SUFFICES ASSUME DelivererInv, [Next]_vars
             PROVE  [Promise!PromiseNext]_(Promise!promiseVars)
  OBVIOUS
<1> USE PromiseItems DEF runVars, handlerVars
<1> DEFINE Still == UNCHANGED <<clock, handed>> /\ UNCHANGED Outstanding
<1>0. Still => UNCHANGED Promise!promiseVars
  BY DEF Promise!promiseVars, Outstanding
<1>1. CASE Tick
  <2>1. UNCHANGED Outstanding
    BY <1>1, UnreadOwed DEF Tick
  <2>2. Promise!Pass
    BY <1>1, <2>1 DEF Tick, Promise!Pass, Outstanding
  <2>3. QED
    BY <2>2 DEF Promise!PromiseNext
<1>2. ASSUME NEW s \in Senders, NEW x \in Items, Call(s, x)
      PROVE  Promise!PromiseNext
  <2>1. Promise!Ask(x)
    BY <1>2, CallAsks DEF Call, Promise!Ask, Promise!More, Outstanding
  <2>2. QED
    BY <2>1 DEF Promise!PromiseNext
<1>3. ASSUME NEW s \in Senders, SendUpdate(s) PROVE Still
  BY <1>3, SendUpdateMoves DEF SendUpdate
<1>4. CASE StartRound
  BY <1>0, <1>4, UnreadOwed DEF StartRound
<1>5. CASE PopDue
  BY <1>0, <1>5, PopDueMoves DEF PopDue
<1>6. CASE SendTarget
  BY <1>0, <1>6, SendTargetMoves DEF SendTarget
<1>7. CASE StartTimer
  BY <1>0, <1>7, UnreadOwed DEF StartTimer
<1>8. CASE WakeUp
  BY <1>0, <1>8, UnreadOwed DEF WakeUp
<1>9. CASE ReceiveUpdate
  <2>1. UNCHANGED <<clock, handed>>
    BY <1>9 DEF ReceiveUpdate
  <2>2. CASE UNCHANGED Outstanding
    BY <1>0, <2>1, <2>2
  <2>3. ASSUME NEW x \in Items, NEW y \in Items, GivesWay(x, y)
        PROVE  Promise!PromiseNext
    <3>1. Promise!Coalesce(x, y)
      BY <2>1, <2>3 DEF GivesWay, Promise!Coalesce, Promise!Less, Outstanding
    <3>2. QED
      BY <3>1 DEF Promise!PromiseNext
  <2>4. QED
    BY <1>9, <2>2, <2>3, ReceiveUpdateMoves
<1>10. CASE ReturnRun
  BY <1>0, <1>10, UnreadOwed DEF ReturnRun
<1>11. CASE Receive
  <2>1. PICK x \in Items :
          /\ Owed(x) > 0 /\ x.time <= clock
          /\ Outstanding' = [Outstanding EXCEPT ![x] = @ - 1]
          /\ handed' = x
    BY <1>11, ReceiveHands
  <2>2. Promise!Hand(x)
    BY <1>11, <2>1 DEF Receive, Promise!Hand, Promise!Less, Outstanding
  <2>3. QED
    BY <2>2 DEF Promise!PromiseNext
<1>12. CASE Handled
  <2>1. UNCHANGED Outstanding
    BY <1>12, UnreadOwed DEF Handled
  <2>2. Promise!HandlerDone
    BY <1>12, <2>1 DEF Handled, Promise!HandlerDone, Outstanding
  <2>3. QED
    BY <2>2 DEF Promise!PromiseNext
<1>13. CASE ReturnHandler
  BY <1>0, <1>13, UnreadOwed DEF ReturnHandler
<1>14. CASE Stop
  BY <1>0, <1>14, UnreadOwed DEF Stop
<1>15. CASE UNCHANGED vars
  BY <1>0, <1>15, UnreadOwed DEF vars
<1>16. QED
  BY <1>0, <1>1, <1>2, <1>3, <1>4, <1>5, <1>6, <1>7, <1>8, <1>9, <1>10, <1>11,
     <1>12, <1>13, <1>14, <1>15 DEF Next, Run, Handling

\* The deliverer implements its promise: no request is handed over early or
\* twice, and none is lost but to an earlier one of its key
\* (delaying_deliverer.go:101-139, 171-183).
THEOREM DelivererKeepsPromise == Spec => KeepsPromise
<1>1. Spec => []DelivererInv
  BY NothingDeliveredEarly
<1>2. QED
  BY <1>1, InitRefines, StepRefines, PTL
  DEF Spec, KeepsPromise, Promise!PromiseSpec

-----------------------------------------------------------------------------
(* The code's heap: numbers *)

\* A set of numbers that has one has a least one.
LEMMA LeastNumber ==
  ASSUME NEW T \in SUBSET Nat, T # {}
  PROVE  \E m \in T : \A k \in T : m <= k
<1> DEFINE R == OpToRel(<, Nat)
<1>1. IsWellFoundedOn(R, Nat)
  BY NatLessThanWellFounded
<1>2. \A x, y \in Nat : x < y => <<x, y>> \in R
  BY DEF OpToRel
<1> HIDE DEF R
<1>3. PICK m \in T : \A y \in T : ~ (<<y, m>> \in R)
  BY <1>1, WFMin
<1>4. ASSUME NEW k \in T PROVE m <= k
  <2>1. m \in Nat /\ k \in Nat
    OBVIOUS
  <2>2. ~ (k < m)
    BY <2>1, <1>2, <1>3
  <2>3. QED
    BY <2>1, <2>2
<1>5. QED
  BY <1>4

\* A set of numbers with 0, and with the successor of each, has all of them.
LEMMA NumbersFromZero ==
  ASSUME NEW S, 0 \in S, \A m \in Nat : m \in S => m + 1 \in S
  PROVE  Nat \subseteq S
<1> DEFINE T == {m \in Nat : m \notin S}
<1>1. SUFFICES ASSUME T # {} PROVE FALSE
  OBVIOUS
<1>2. PICK m \in T : \A k \in T : m <= k
  BY <1>1, LeastNumber
<1>3. m \in Nat /\ m # 0 /\ m \notin S
  OBVIOUS
<1>4. m - 1 \in Nat /\ m - 1 \notin T
  BY <1>2, <1>3
<1>5. (m - 1) + 1 \in S
  BY <1>4
<1>6. QED
  BY <1>3, <1>5

-----------------------------------------------------------------------------
(* Positions *)

\* A sequence of items with each key once has one position for each.
LEMMA PositionOfItem ==
  ASSUME NEW d, KeysOnce(d), NEW i \in DOMAIN d
  PROVE  Positions(d)[d[i].key] = i
<1> DEFINE Is(j) == d[j].key = d[i].key
<1>1. Positions(d)[d[i].key] = CHOOSE j \in DOMAIN d : Is(j)
  BY DEF Positions
<1>2. Is(i)
  OBVIOUS
<1>3. \A j \in DOMAIN d : Is(j) => j = i
  BY DEF KeysOnce
<1> HIDE DEF Is
<1>4. (CHOOSE j \in DOMAIN d : Is(j)) = i
  BY <1>2, <1>3
<1>5. QED
  BY <1>1, <1>4

\* A function from the keys to where they are is their positions.
LEMMA PositionsKnown ==
  ASSUME NEW d, KeysOnce(d), NEW f,
         f = [k \in {d[i].key : i \in DOMAIN d} |-> f[k]],
         \A i \in DOMAIN d : f[d[i].key] = i
  PROVE  f = Positions(d)
<1> DEFINE D == {d[i].key : i \in DOMAIN d}
<1>1. ASSUME NEW k \in D PROVE f[k] = Positions(d)[k]
  <2>1. PICK i \in DOMAIN d : k = d[i].key
    OBVIOUS
  <2>2. QED
    BY <2>1, PositionOfItem
<1>2. Positions(d) = [k \in D |-> Positions(d)[k]]
  BY DEF Positions
<1>3. f = [k \in D |-> f[k]]
  OBVIOUS
<1> HIDE DEF D
<1>4. QED
  BY <1>1, <1>2, <1>3

\* The heap is an array whose positions are right, ordered or not yet.
Placed(h, items) ==
  /\ h = [data |-> h.data, keyPosition |-> Positions(h.data)]
  /\ h.data \in Seq(items)
  /\ KeysOnce(h.data)

\* Swap exchanges two items, and their positions with them.
LEMMA SwapPlaced ==
  ASSUME NEW items, NEW h, Placed(h, items),
         NEW i \in DOMAIN h.data, NEW j \in DOMAIN h.data
  PROVE  LET g == Swap(h, i, j) IN
         /\ Placed(g, items)
         /\ Len(g.data) = Len(h.data)
         /\ Contents(g) = Contents(h)
         /\ \A k \in DOMAIN h.data :
              g.data[k] = IF k = i THEN h.data[j]
                          ELSE IF k = j THEN h.data[i] ELSE h.data[k]
<1> DEFINE d == h.data
           e == [d EXCEPT ![i] = d[j], ![j] = d[i]]
           p == Positions(d)
           q == [p EXCEPT ![d[i].key] = j, ![d[j].key] = i]
           n == Len(d)
           D == {d[k].key : k \in DOMAIN d}
<1>1. d \in Seq(items) /\ KeysOnce(d) /\ h.keyPosition = p
  BY DEF Placed
<1>2. Swap(h, i, j) = [data |-> e, keyPosition |-> q]
  BY <1>1 DEF Swap
<1>3. n \in Nat /\ DOMAIN d = 1..n /\ \A k \in 1..n : d[k] \in items
  BY <1>1
<1>4. e \in [1..n -> items] /\ e \in Seq(items) /\ DOMAIN e = 1..n /\ Len(e) = n
  <2>1. d \in [1..n -> items]
    BY <1>1
  <2>2. e \in [1..n -> items]
    BY <2>1, <1>3
  <2> HIDE DEF e, d, n
  <2>3. e \in Seq(items)
    BY <2>2, <1>3
  <2>4. QED
    BY <2>2, <2>3, <1>3
<1>5. \A k \in 1..n :
        e[k] = IF k = i THEN d[j] ELSE IF k = j THEN d[i] ELSE d[k]
  BY <1>3
<1> HIDE DEF e
<1>6. KeysOnce(e)
  BY <1>1, <1>3, <1>4, <1>5 DEF KeysOnce
<1>7. /\ \A k \in 1..n : \E m \in 1..n : e[k] = d[m]
      /\ \A m \in 1..n : \E k \in 1..n : e[k] = d[m]
  BY <1>3, <1>5
<1>8. {e[k].key : k \in 1..n} = {d[k].key : k \in 1..n}
  <2> HIDE DEF d, n, p, q, D
  <2>1. QED
    BY <1>7
<1>9. q = Positions(e)
  <2>1. p = [k \in D |-> p[k]]
    BY DEF Positions
  <2>2. q = [k \in D |-> q[k]]
    BY <2>1
  <2>3. d[i].key \in D /\ d[j].key \in D
    OBVIOUS
  <2>4. \A k \in D : q[k] = IF k = d[j].key THEN i
                            ELSE IF k = d[i].key THEN j ELSE p[k]
    BY <2>1, <2>3
  <2>5. \A k \in 1..n : p[d[k].key] = k
    BY <1>1, <1>3, PositionOfItem
  <2>6. ASSUME NEW k \in 1..n PROVE q[e[k].key] = k
    <3>1. \A m \in 1..n : d[m].key \in D
      BY <1>3
    <3>2. \A m \in 1..n : d[m].key = d[j].key => m = j
      BY <1>1, <1>3 DEF KeysOnce
    <3>3. \A m \in 1..n : d[m].key = d[i].key => m = i
      BY <1>1, <1>3 DEF KeysOnce
    <3> HIDE DEF q, p, D
    <3>4. CASE k = i
      <4>1. e[k] = d[j]
        BY <3>4, <1>5
      <4>2. QED
        BY <3>4, <4>1, <2>4, <3>1, <1>3
    <3>5. CASE k = j /\ k # i
      BY <3>5, <1>3, <1>5, <2>4, <3>1, <3>3
    <3>6. CASE k # i /\ k # j
      BY <3>6, <1>3, <1>5, <2>4, <2>5, <3>1, <3>2, <3>3
    <3>7. QED
      BY <3>4, <3>5, <3>6
  <2> HIDE DEF q, p, D
  <2>7. q = [k \in {e[m].key : m \in DOMAIN e} |-> q[k]]
    BY <2>2, <1>3, <1>4, <1>8 DEF D
  <2>8. \A m \in DOMAIN e : q[e[m].key] = m
    BY <2>6, <1>4
  <2> HIDE DEF n, d
  <2>9. QED
    BY <2>7, <2>8, <1>6, PositionsKnown
<1> HIDE DEF q, p
<1>10. PICK g : g = Swap(h, i, j)
  OBVIOUS
<1>11. g.data = e /\ g.keyPosition = q /\ g = [data |-> e, keyPosition |-> q]
  BY <1>2, <1>10
<1>12. Placed(g, items)
  BY <1>4, <1>6, <1>9, <1>11 DEF Placed
<1>13. Contents(g) = Contents(h)
  <2>1. Contents(g) = {e[k] : k \in 1..n}
    BY <1>4, <1>11 DEF Contents
  <2>2. Contents(h) = {d[k] : k \in 1..n}
    BY <1>3 DEF Contents
  <2> HIDE DEF d, n, D
  <2>3. QED
    BY <1>7, <2>1, <2>2
<1>14. Len(g.data) = Len(h.data) /\ \A k \in DOMAIN h.data :
         g.data[k] = IF k = i THEN h.data[j]
                     ELSE IF k = j THEN h.data[i] ELSE h.data[k]
  BY <1>3, <1>4, <1>5, <1>11
<1>15. QED
  BY <1>10, <1>12, <1>13, <1>14

-----------------------------------------------------------------------------
(* Up *)

\* Due times are numbers: any numbers, and any keys.
Timed(items) == \A x \in items : x.time \in Nat

\* The due times of an array.
TimesOf(d) == [k \in DOMAIN d |-> d[k].time]

\* An array that is ordered but for the item at s.at, which may have to rise.
Rising(s, items, n, due) ==
  /\ s = [heap |-> s.heap, at |-> s.at]
  /\ Placed(s.heap, items) /\ Len(s.heap.data) = n /\ Contents(s.heap) = due
  /\ s.at \in 1..n
  /\ LET f == TimesOf(s.heap.data) IN
     /\ \A k \in 2..n : k # s.at => f[k \div 2] <= f[k]
     /\ \A k \in 2..n : k \div 2 = s.at /\ s.at > 1 => f[s.at \div 2] <= f[k]

\* An item that is not the root has its parent before it.
LEMMA Halves ==
  ASSUME NEW n \in Nat, NEW k \in 2..n
  PROVE  k \div 2 \in 1..n /\ k \div 2 < k
OBVIOUS

\* The same of due times only: f before the move from a to its parent, g after.
LEMMA TimesRise ==
  ASSUME NEW n \in Nat, NEW f \in [1..n -> Nat], NEW g \in [1..n -> Nat],
         NEW a \in 2..n, NEW p \in 1..n, p = a \div 2, f[a] < f[p],
         \A k \in 2..n : k # a => f[k \div 2] <= f[k],
         \A k \in 2..n : k \div 2 = a => f[p] <= f[k],
         \A k \in 1..n : g[k] = IF k = p THEN f[a] ELSE IF k = a THEN f[p] ELSE f[k]
  PROVE  /\ \A k \in 2..n : k # p => g[k \div 2] <= g[k]
         /\ \A k \in 2..n : k \div 2 = p /\ p > 1 => g[p \div 2] <= g[k]
<1>0. p < a /\ f[a] \in Nat /\ f[p] \in Nat /\ a \in 1..n
  BY Halves
<1>1. ASSUME NEW k \in 2..n, k # p PROVE g[k \div 2] <= g[k]
  <2>1. PICK q \in 1..n : q = k \div 2 /\ q < k
    BY Halves
  <2>2. k \in 1..n /\ f[k] \in Nat /\ f[q] \in Nat
    BY <2>1
  <2>3. CASE k = a
    <3>1. g[k] = f[p] /\ g[q] = f[a]
      BY <2>1, <2>2, <2>3, <1>0
    <3>2. QED
      BY <3>1, <1>0, <2>1
  <2>4. CASE k # a /\ q = p
    <3>1. g[k] = f[k] /\ g[q] = f[a] /\ f[p] <= f[k]
      BY <1>1, <2>1, <2>2, <2>4
    <3>2. QED
      BY <3>1, <1>0, <2>1, <2>2
  <2>5. CASE k # a /\ q = a
    <3>1. g[k] = f[k] /\ g[q] = f[p] /\ f[p] <= f[k]
      BY <1>0, <1>1, <2>1, <2>2, <2>5
    <3>2. QED
      BY <3>1, <1>0, <2>1, <2>2
  <2>6. CASE k # a /\ q # p /\ q # a
    <3>1. g[k] = f[k] /\ g[q] = f[q] /\ f[q] <= f[k]
      BY <1>1, <2>1, <2>2, <2>6
    <3>2. QED
      BY <3>1, <2>1
  <2>7. QED
    BY <2>3, <2>4, <2>5, <2>6
<1>2. ASSUME NEW k \in 2..n, k \div 2 = p, p > 1 PROVE g[p \div 2] <= g[k]
  <2>1. PICK r \in 1..n : r = p \div 2 /\ r < p
    BY <1>2, Halves
  <2>2. p \in 2..n /\ p # a /\ k # p /\ k \in 1..n
    BY <1>0, <1>2, Halves
  <2>3. f[r] <= f[p] /\ g[r] = f[r] /\ f[r] \in Nat /\ f[k] \in Nat
    BY <1>0, <2>1, <2>2
  <2>4. CASE k = a
    <3>1. g[k] = f[p]
      BY <2>2, <2>4
    <3>2. QED
      BY <2>1, <2>3, <3>1
  <2>5. CASE k # a
    <3>1. g[k] = f[k] /\ f[p] <= f[k]
      BY <1>2, <2>2, <2>5
    <3>2. QED
      BY <1>0, <2>1, <2>3, <3>1
  <2>6. QED
    BY <2>4, <2>5
<1>3. QED
  BY <1>1, <1>2

\* The due times of an array of items, and what its order says of them.
LEMMA TimesType ==
  ASSUME NEW items, Timed(items), NEW d \in Seq(items)
  PROVE  /\ TimesOf(d) \in [1..Len(d) -> Nat]
         /\ \A k \in 1..Len(d) : TimesOf(d)[k] = d[k].time
         /\ Ordered(d)
              <=> \A k \in 2..Len(d) : TimesOf(d)[k \div 2] <= TimesOf(d)[k]
<1>1. DOMAIN d = 1..Len(d) /\ Len(d) \in Nat /\ \A k \in 1..Len(d) : d[k] \in items
  OBVIOUS
<1>2. TimesOf(d) \in [1..Len(d) -> Nat]
  BY <1>1 DEF TimesOf, Timed
<1>3. \A k \in 1..Len(d) : TimesOf(d)[k] = d[k].time
  BY <1>1 DEF TimesOf
<1> DEFINE n == Len(d)
<1>4. Ordered(d) <=> \A k \in 1..n : k > 1 => d[k \div 2].time <= d[k].time
  BY <1>1 DEF Ordered
<1>5. \A k \in 2..n : /\ TimesOf(d)[k] = d[k].time
                      /\ TimesOf(d)[k \div 2] = d[k \div 2].time
  BY <1>1, <1>3, Halves
<1>6. (\A k \in 2..n : d[k \div 2].time <= d[k].time)
        <=> \A k \in 2..n : TimesOf(d)[k \div 2] <= TimesOf(d)[k]
  BY <1>5
<1>7. Ordered(d) <=> \A k \in 2..n : d[k \div 2].time <= d[k].time
  <2>1. \A k : k \in 2..n <=> k \in 1..n /\ k > 1
    BY <1>1
  <2>2. QED
    BY <1>4, <2>1
<1>8. QED
  BY <1>2, <1>3, <1>6, <1>7

\* A move upwards keeps the rest in order, and one that is not made leaves a
\* heap.
LEMMA RisenMoves ==
  ASSUME NEW items, Timed(items), NEW n \in Nat, NEW due,
         NEW s, Rising(s, items, n, due)
  PROVE  /\ Rising(Risen(s), items, n, due)
         /\ Ordered(Risen(s).heap.data) \/ Risen(s).at < s.at
         /\ Ordered(s.heap.data) => Risen(s) = s
<1> DEFINE h == s.heap
           d == h.data
           f == TimesOf(d)
           a == s.at
           p == a \div 2
<1>1. /\ Placed(h, items) /\ Contents(h) = due /\ a \in 1..n
      /\ d \in Seq(items) /\ Len(d) = n /\ DOMAIN d = 1..n
  BY DEF Rising, Placed
<1>2. /\ \A k \in 2..n : k # a => f[k \div 2] <= f[k]
      /\ \A k \in 2..n : k \div 2 = a /\ a > 1 => f[p] <= f[k]
  BY DEF Rising
<1>3. /\ f \in [1..n -> Nat] /\ \A k \in 1..n : f[k] = d[k].time
      /\ Ordered(d) <=> \A k \in 2..n : f[k \div 2] <= f[k]
  <2> HIDE DEF d, f
  <2>1. QED
    BY <1>1, TimesType DEF f
<1>4. p \in Nat /\ p < a /\ (p > 0 <=> a \in 2..n)
  BY <1>1
<1> HIDE DEF f
<1>5. CASE p > 0 /\ d[a].time < d[p].time
  <2> DEFINE g == Swap(h, p, a)
             e == TimesOf(g.data)
  <2>1. Risen(s) = [heap |-> g, at |-> p]
    BY <1>5 DEF Risen, Before
  <2>2. p \in 1..n /\ a \in 2..n
    BY <1>1, <1>4, <1>5
  <2>3. p \in DOMAIN d /\ a \in DOMAIN d
    BY <1>1, <2>2
  <2>4. /\ Placed(g, items) /\ Len(g.data) = n /\ Contents(g) = due
        /\ \A k \in 1..n : g.data[k] = IF k = p THEN d[a]
                                       ELSE IF k = a THEN d[p] ELSE d[k]
    <3> HIDE DEF p, a
    <3>1. QED
      BY <1>1, <2>3, SwapPlaced
  <2>5. /\ e \in [1..n -> Nat]
        /\ \A k \in 1..n : e[k] = g.data[k].time
    BY <2>4, TimesType DEF Placed
  <2> HIDE DEF g, e, p, a, d
  <2>6. \A k \in 1..n : e[k] = IF k = p THEN f[a] ELSE IF k = a THEN f[p] ELSE f[k]
    BY <1>1, <1>3, <2>2, <2>4, <2>5
  <2>7. f[a] < f[p] /\ a > 1 /\ a \in 1..n
    BY <1>3, <1>5, <2>2
  <2>8. /\ \A k \in 2..n : k # p => e[k \div 2] <= e[k]
        /\ \A k \in 2..n : k \div 2 = p /\ p > 1 => e[p \div 2] <= e[k]
    <3>1. p = a \div 2
      BY DEF p
    <3>2. QED
      BY <1>2, <1>3, <2>2, <2>5, <2>6, <2>7, <3>1, TimesRise
  <2>9. Rising([heap |-> g, at |-> p], items, n, due)
    BY <2>2, <2>4, <2>8 DEF Rising, e
  <2>10. ~ Ordered(d)
    <3>1. f[a] \in Nat /\ f[p] \in Nat /\ ~ (f[p] <= f[a])
      BY <1>3, <2>2, <2>7
    <3>2. p = a \div 2
      BY DEF p
    <3>3. QED
      BY <1>3, <2>2, <3>1, <3>2
  <2>11. Ordered(s.heap.data) => Risen(s) = s
    BY <2>10 DEF d
  <2>12. Risen(s).at < s.at
    BY <1>4, <2>1 DEF a
  <2>13. QED
    BY <2>1, <2>9, <2>11, <2>12
<1>6. CASE ~ (p > 0 /\ d[a].time < d[p].time)
  <2>1. Risen(s) = s
    BY <1>6 DEF Risen, Before
  <2>2. a \in 2..n => f[p] <= f[a]
    <3>1. a \in 2..n => p \in 1..n /\ f[p] \in Nat /\ f[a] \in Nat
      BY <1>1, <1>3, <1>4
    <3> HIDE DEF p, a, d
    <3>2. QED
      BY <1>1, <1>3, <1>4, <1>6, <3>1
  <2>3. \A k \in 2..n : f[k \div 2] <= f[k]
    <3>1. p = a \div 2
      OBVIOUS
    <3> HIDE DEF p, a, d
    <3>2. QED
      BY <1>2, <2>2, <3>1
  <2>4. Ordered(d)
    BY <1>3, <2>3
  <2>5. QED
    BY <2>1, <2>4
<1>7. QED
  BY <1>5, <1>6

\* The recursion of Up has a solution, and Up is its last value.
LEMMA UpReached ==
  ASSUME NEW h, Len(h.data) \in Nat, NEW i
  PROVE  \E s : /\ s[0] = [heap |-> h, at |-> i]
                /\ \A m \in 1..Len(h.data) : s[m] = Risen(s[m - 1])
                /\ Up(h, i) = s[Len(h.data)]
<1> DEFINE start == [heap |-> h, at |-> i]
           Solves(s, n) ==
             s = [m \in 0..n |-> IF m = 0 THEN start ELSE Risen(s[m - 1])]
           S == {n \in Nat : \E s : Solves(s, n)}
           n == Len(h.data)
<1>1. 0 \in S
  <2> DEFINE s == [m \in 0..0 |-> start]
  <2>1. Solves(s, 0)
    OBVIOUS
  <2>2. QED
    BY <2>1
<1>2. ASSUME NEW k \in Nat, k \in S PROVE k + 1 \in S
  <2>1. PICK s : Solves(s, k)
    BY <1>2
  <2> DEFINE t == [m \in 0..(k + 1) |-> IF m = k + 1 THEN Risen(s[k]) ELSE s[m]]
  <2>2. \A m \in 0..k : s[m] = IF m = 0 THEN start ELSE Risen(s[m - 1])
    BY <2>1, Zenon
  <2>3. \A m \in 0..(k + 1) : t[m] = IF m = 0 THEN start ELSE Risen(t[m - 1])
    <3> HIDE DEF start
    <3>1. ASSUME NEW m \in 0..(k + 1), m = k + 1
          PROVE  t[m] = Risen(t[m - 1]) /\ m # 0
      BY <3>1
    <3>2. ASSUME NEW m \in 0..(k + 1), m # k + 1, m # 0
          PROVE  t[m] = Risen(t[m - 1])
      <4>1. m \in 0..k /\ m - 1 \in 0..(k + 1) /\ m - 1 # k + 1
        BY <3>2
      <4>2. t[m] = s[m] /\ t[m - 1] = s[m - 1]
        BY <3>2, <4>1
      <4>3. QED
        BY <2>2, <3>2, <4>1, <4>2
    <3>3. t[0] = start
      BY <2>2
    <3>4. QED
      BY <3>1, <3>2, <3>3
  <2>4. t = [m \in 0..(k + 1) |-> t[m]]
    OBVIOUS
  <2> HIDE DEF t, start
  <2>5. Solves(t, k + 1)
    BY <2>3, <2>4
  <2>6. QED
    BY <2>5
<1> HIDE DEF S
<1>3. n \in S
  BY <1>1, <1>2, NumbersFromZero
<1> DEFINE s == CHOOSE x : Solves(x, n)
<1>4. Solves(s, n)
  BY <1>3 DEF S
<1>5. Up(h, i) = s[n]
  BY DEF Up
<1> HIDE DEF s, start
<1>6. \A m \in 0..n : s[m] = IF m = 0 THEN start ELSE Risen(s[m - 1])
  BY <1>4, Zenon
<1>7. s[0] = start /\ \A m \in 1..n : s[m] = Risen(s[m - 1])
  BY <1>6
<1>8. QED
  BY <1>5, <1>7 DEF start

\* Up ends with an ordered heap: every move that is not the last brings the
\* item nearer to the root.
LEMMA UpOrders ==
  ASSUME NEW items, Timed(items), NEW n \in Nat, NEW due, NEW h, NEW i,
         Rising([heap |-> h, at |-> i], items, n, due)
  PROVE  /\ Placed(Up(h, i).heap, items)
         /\ Ordered(Up(h, i).heap.data)
         /\ Contents(Up(h, i).heap) = due
<1>1. Len(h.data) = n /\ i \in 1..n
  BY DEF Rising
<1>2. PICK s : /\ s[0] = [heap |-> h, at |-> i]
               /\ \A m \in 1..n : s[m] = Risen(s[m - 1])
               /\ Up(h, i) = s[n]
  BY <1>1, UpReached
<1> DEFINE Done(m) == /\ Rising(s[m], items, n, due)
                      /\ Ordered(s[m].heap.data) \/ s[m].at + m <= i
           S == {m \in Nat : m <= n => Done(m)}
<1>3. 0 \in S
  <2>1. s[0].at = i
    BY <1>2
  <2>2. QED
    BY <1>1, <1>2, <2>1
<1>4. ASSUME NEW m \in Nat, m \in S PROVE m + 1 \in S
  <2>1. SUFFICES ASSUME m + 1 <= n PROVE Done(m + 1)
    OBVIOUS
  <2>2. Done(m)
    BY <1>1, <1>4, <2>1
  <2> DEFINE t == s[m]
             u == s[m + 1]
  <2>3. u = Risen(t)
    <3>1. m + 1 \in 1..n /\ (m + 1) - 1 = m
      BY <2>1
    <3>2. QED
      BY <1>2, <3>1
  <2>4. t.at \in 1..n /\ Rising(t, items, n, due)
    BY <2>2 DEF Rising
  <2> HIDE DEF t, u
  <2>5. /\ Rising(u, items, n, due)
        /\ Ordered(u.heap.data) \/ u.at < t.at
        /\ Ordered(t.heap.data) => u = t
    BY <2>3, <2>4, RisenMoves
  <2>6. Ordered(t.heap.data) \/ t.at + m <= i
    BY <2>2 DEF t
  <2>7. u.at \in 1..n
    BY <2>5 DEF Rising
  <2>8. Ordered(u.heap.data) \/ u.at + (m + 1) <= i
    <3>1. CASE Ordered(t.heap.data)
      BY <2>5, <3>1
    <3>2. CASE t.at + m <= i /\ u.at < t.at
      BY <1>1, <2>4, <2>7, <3>2
    <3>3. QED
      BY <2>5, <2>6, <3>1, <3>2
  <2>9. QED
    BY <2>5, <2>8 DEF u
<1>5. Done(n)
  <2>1. n \in S
    <3> HIDE DEF S
    <3>1. QED
      BY <1>3, <1>4, NumbersFromZero
  <2>2. QED
    BY <2>1
<1>6. Rising(Up(h, i), items, n, due)
  BY <1>2, <1>5
<1>7. ~ (s[n].at + n <= i)
  <2>1. s[n].at \in 1..n
    BY <1>5 DEF Rising
  <2>2. QED
    BY <1>1, <2>1
<1>8. Ordered(Up(h, i).heap.data)
  BY <1>2, <1>5, <1>7
<1>9. QED
  BY <1>6, <1>8 DEF Rising

-----------------------------------------------------------------------------
(* Down *)

\* The recursion of Down has a solution, and Down is its last value.
LEMMA DownReached ==
  ASSUME NEW h, NEW n \in Nat, NEW i
  PROVE  \E s : /\ s[0] = [heap |-> h, at |-> i]
                /\ \A m \in 1..n : s[m] = Sunk(s[m - 1], n)
                /\ Down(h, i, n) = s[n]
<1> DEFINE start == [heap |-> h, at |-> i]
           Solves(s, l) ==
             s = [m \in 0..l |-> IF m = 0 THEN start ELSE Sunk(s[m - 1], n)]
           S == {l \in Nat : \E s : Solves(s, l)}
<1>1. 0 \in S
  <2> DEFINE s == [m \in 0..0 |-> start]
  <2>1. Solves(s, 0)
    OBVIOUS
  <2>2. QED
    BY <2>1
<1>2. ASSUME NEW k \in Nat, k \in S PROVE k + 1 \in S
  <2>1. PICK s : Solves(s, k)
    BY <1>2
  <2> DEFINE t == [m \in 0..(k + 1) |-> IF m = k + 1 THEN Sunk(s[k], n) ELSE s[m]]
  <2>2. \A m \in 0..k : s[m] = IF m = 0 THEN start ELSE Sunk(s[m - 1], n)
    BY <2>1, Zenon
  <2>3. \A m \in 0..(k + 1) : t[m] = IF m = 0 THEN start ELSE Sunk(t[m - 1], n)
    <3> HIDE DEF start
    <3>1. ASSUME NEW m \in 0..(k + 1), m = k + 1
          PROVE  t[m] = Sunk(t[m - 1], n) /\ m # 0
      BY <3>1
    <3>2. ASSUME NEW m \in 0..(k + 1), m # k + 1, m # 0
          PROVE  t[m] = Sunk(t[m - 1], n)
      <4>1. m \in 0..k /\ m - 1 \in 0..(k + 1) /\ m - 1 # k + 1
        BY <3>2
      <4>2. t[m] = s[m] /\ t[m - 1] = s[m - 1]
        BY <3>2, <4>1
      <4>3. QED
        BY <2>2, <3>2, <4>1, <4>2
    <3>3. t[0] = start
      BY <2>2
    <3>4. QED
      BY <3>1, <3>2, <3>3
  <2>4. t = [m \in 0..(k + 1) |-> t[m]]
    OBVIOUS
  <2> HIDE DEF t, start
  <2>5. Solves(t, k + 1)
    BY <2>3, <2>4
  <2>6. QED
    BY <2>5
<1> HIDE DEF S
<1>3. n \in S
  BY <1>1, <1>2, NumbersFromZero
<1> DEFINE s == CHOOSE x : Solves(x, n)
<1>4. Solves(s, n)
  BY <1>3 DEF S
<1>5. Down(h, i, n) = s[n]
  BY DEF Down
<1> HIDE DEF s, start
<1>6. \A m \in 0..n : s[m] = IF m = 0 THEN start ELSE Sunk(s[m - 1], n)
  BY <1>4, Zenon
<1>7. s[0] = start /\ \A m \in 1..n : s[m] = Sunk(s[m - 1], n)
  BY <1>6
<1>8. QED
  BY <1>5, <1>7 DEF start

\* An item that is no later than its children stays where it is.
LEMMA DownStays ==
  ASSUME NEW h, NEW n \in Nat, NEW i \in Nat,
         \A k \in 1..n : h.data[k].time \in Nat,
         i \in 1..n,
         \A k \in 2..n : k \div 2 = i => h.data[i].time <= h.data[k].time
  PROVE  Down(h, i, n) = [heap |-> h, at |-> i]
<1> DEFINE start == [heap |-> h, at |-> i]
<1>1. Sunk(start, n) = start
  <2> DEFINE left == 2 * i
             child == IF left < n /\ Before(h, left + 1, left) THEN left + 1
                      ELSE left
  <2>1. ASSUME left <= n PROVE ~ Before(h, child, i)
    <3>1. child \in 2..n /\ child \div 2 = i
      <4>1. left \in 2..n /\ (2 * i) \div 2 = i /\ (2 * i + 1) \div 2 = i
        BY <2>1
      <4>2. left < n => left + 1 \in 2..n
        BY <2>1
      <4>3. QED
        BY <4>1, <4>2
    <3> HIDE DEF child
    <3>2. h.data[i].time <= h.data[child].time
      BY <3>1
    <3>3. QED
      BY <3>1, <3>2 DEF Before
  <2>2. QED
    BY <2>1 DEF Sunk
<1>2. PICK s : /\ s[0] = [heap |-> h, at |-> i]
               /\ \A m \in 1..n : s[m] = Sunk(s[m - 1], n)
               /\ Down(h, i, n) = s[n]
  BY DownReached
<1> DEFINE S == {m \in Nat : m <= n => s[m] = start}
<1> HIDE DEF start
<1>3. 0 \in S
  BY <1>2 DEF start
<1>4. ASSUME NEW m \in Nat, m \in S PROVE m + 1 \in S
  <2>1. SUFFICES ASSUME m + 1 <= n PROVE s[m + 1] = start
    OBVIOUS
  <2>2. m + 1 \in 1..n /\ (m + 1) - 1 = m /\ s[m] = start
    BY <1>4, <2>1
  <2>3. QED
    BY <1>1, <1>2, <2>2
<1>5. n \in S
  <2> HIDE DEF S
  <2>1. QED
    BY <1>3, <1>4, NumbersFromZero
<1>6. QED
  BY <1>2, <1>5 DEF start

\* Due times f and g, before and after the item at a sinks to the smaller of its
\* children, c.
Sinks(n, l, f, g, a, c) ==
  /\ f \in [1..n -> Nat] /\ g \in [1..n -> Nat]
  /\ a \in 1..l /\ c \in 2..l /\ a = c \div 2 /\ f[c] < f[a]
  /\ \A k \in 2..l : k \div 2 # a => f[k \div 2] <= f[k]
  /\ \A k \in 2..l : k \div 2 = a => f[c] <= f[k]
  /\ \A k \in 2..l : k \div 2 = a /\ a > 1 => f[a \div 2] <= f[k]
  /\ \A k \in 1..n : g[k] = IF k = a THEN f[c] ELSE IF k = c THEN f[a] ELSE f[k]

\* The move of Sinks leaves only the children of c to be ordered.
LEMMA TimesSink ==
  ASSUME NEW n \in Nat, NEW l \in Nat, l <= n, NEW f, NEW g, NEW a, NEW c,
         Sinks(n, l, f, g, a, c)
  PROVE  /\ \A k \in 2..l : k \div 2 # c => g[k \div 2] <= g[k]
         /\ \A k \in 2..l : k \div 2 = c => g[c \div 2] <= g[k]
<1>0. /\ a < c /\ a \in 1..n /\ c \in 1..n /\ f[a] \in Nat /\ f[c] \in Nat
      /\ g[a] = f[c] /\ g[c] = f[a]
  <2>1. a < c /\ a \in 1..n /\ c \in 1..n
    BY Halves DEF Sinks
  <2>2. QED
    BY <2>1 DEF Sinks
<1>1. ASSUME NEW k \in 2..l, k \div 2 # c PROVE g[k \div 2] <= g[k]
  <2>1. PICK q \in 1..l : q = k \div 2 /\ q < k
    BY Halves
  <2>2. k \in 1..n /\ q \in 1..n /\ f[k] \in Nat /\ f[q] \in Nat /\ q # c
    BY <1>1, <2>1 DEF Sinks
  <2>3. CASE k = c
    <3>1. q = a /\ f[c] < f[a]
      BY <2>1, <2>3 DEF Sinks
    <3>2. QED
      BY <1>0, <2>1, <2>3, <3>1
  <2>4. CASE k = a
    <3>1. a > 1 /\ q = a \div 2 /\ f[q] <= f[c]
      BY <2>1, <2>4 DEF Sinks
    <3>2. g[q] = f[q]
      BY <2>1, <2>2, <2>4 DEF Sinks
    <3>3. QED
      BY <1>0, <2>1, <2>2, <2>4, <3>1, <3>2
  <2>5. CASE k # c /\ k # a /\ q = a
    <3>1. f[c] <= f[k] /\ g[k] = f[k]
      BY <2>1, <2>2, <2>5 DEF Sinks
    <3>2. QED
      BY <1>0, <2>1, <2>5, <3>1
  <2>6. CASE k # c /\ k # a /\ q # a
    <3>1. f[q] <= f[k] /\ g[k] = f[k] /\ g[q] = f[q]
      BY <2>1, <2>2, <2>6 DEF Sinks
    <3>2. QED
      BY <2>1, <3>1
  <2>7. QED
    BY <2>3, <2>4, <2>5, <2>6
<1>2. ASSUME NEW k \in 2..l, k \div 2 = c PROVE g[c \div 2] <= g[k]
  <2>1. c < k /\ k \in 1..n /\ k # a /\ k # c
    BY <1>0, <1>2, Halves
  <2>2. f[c] <= f[k] /\ g[k] = f[k] /\ c \div 2 = a
    BY <1>0, <1>2, <2>1 DEF Sinks
  <2>3. QED
    BY <1>0, <2>2
<1>3. QED
  BY <1>1, <1>2

\* An array of n items, the first l of which are ordered but for the children
\* of s.at, which may have to sink; the last of the n is not touched.
Sinking(s, items, n, l, due, last) ==
  /\ s = [heap |-> s.heap, at |-> s.at]
  /\ Placed(s.heap, items) /\ Len(s.heap.data) = n /\ Contents(s.heap) = due
  /\ s.at \in 1..n /\ s.heap.data[n] = last
  /\ LET f == TimesOf(s.heap.data) IN
     /\ \A k \in 2..l : k \div 2 # s.at => f[k \div 2] <= f[k]
     /\ \A k \in 2..l : k \div 2 = s.at /\ s.at > 1 => f[s.at \div 2] <= f[k]

\* The first l items are ordered.
OrderedTo(l, d) == \A k \in 2..l : TimesOf(d)[k \div 2] <= TimesOf(d)[k]

\* The child that Sunk compares with: the earliest, if there is one.
Child(f, a, l) ==
  IF 2 * a < l /\ f[2 * a + 1] < f[2 * a] THEN 2 * a + 1 ELSE 2 * a

IsSmallestChild(f, a, l, c) ==
  /\ \A k \in 2..l : k \div 2 = a => 2 * a <= l /\ f[c] <= f[k]
  /\ 2 * a <= l => c \in 2..l /\ c \div 2 = a

\* The child that Sunk compares with is the earliest.
LEMMA SmallestChild ==
  ASSUME NEW n \in Nat, NEW l \in Nat, l <= n, NEW f \in [1..n -> Nat],
         NEW a \in 1..n
  PROVE  IsSmallestChild(f, a, l, Child(f, a, l))
<1> DEFINE c == Child(f, a, l)
<1>1. \A k \in 2..l : k \div 2 = a => (k = 2 * a \/ k = 2 * a + 1) /\ 2 * a <= k
  OBVIOUS
<1>2. 2 * a <= l => c \in 2..l /\ c \div 2 = a
  <2>1. SUFFICES ASSUME 2 * a <= l PROVE c \in 2..l /\ c \div 2 = a
    OBVIOUS
  <2>2. (2 * a) \div 2 = a /\ (2 * a + 1) \div 2 = a /\ 2 * a \in 2..l
    BY <2>1
  <2>3. CASE 2 * a < l /\ f[2 * a + 1] < f[2 * a]
    <3>1. c = 2 * a + 1 /\ 2 * a + 1 \in 2..l
      BY <2>2, <2>3 DEF Child
    <3>2. QED
      BY <2>2, <3>1
  <2>4. CASE ~ (2 * a < l /\ f[2 * a + 1] < f[2 * a])
    <3>1. c = 2 * a
      BY <2>4 DEF Child
    <3>2. QED
      BY <2>2, <3>1
  <2>5. QED
    BY <2>3, <2>4
<1>3. ASSUME NEW k \in 2..l, k \div 2 = a PROVE 2 * a <= l /\ f[c] <= f[k]
  <2>1. 2 * a <= l /\ 2 * a \in 1..n
    BY <1>1, <1>3
  <2>2. f[2 * a] \in Nat
    BY <2>1
  <2>3. CASE 2 * a < l
    <3>1. 2 * a + 1 \in 1..n
      BY <2>3, <2>1
    <3>2. f[2 * a + 1] \in Nat
      BY <3>1
    <3>3. f[c] <= f[2 * a] /\ f[c] <= f[2 * a + 1]
      BY <2>2, <2>3, <3>2 DEF Child
    <3>4. QED
      BY <1>1, <1>3, <2>1, <3>3
  <2>4. CASE ~ (2 * a < l)
    <3>1. k = 2 * a /\ c = 2 * a
      BY <1>1, <1>3, <2>1, <2>4 DEF Child
    <3>2. QED
      BY <2>1, <2>2, <3>1
  <2>5. QED
    BY <2>3, <2>4
<1>4. QED
  BY <1>2, <1>3 DEF IsSmallestChild

\* A move downwards keeps the rest in order, and one that is not made leaves
\* the first l items in order.
LEMMA SunkMoves ==
  ASSUME NEW items, Timed(items), NEW n \in Nat, NEW l \in Nat, l < n,
         NEW due, NEW last, NEW s, Sinking(s, items, n, l, due, last)
  PROVE  /\ Sinking(Sunk(s, l), items, n, l, due, last)
         /\ OrderedTo(l, Sunk(s, l).heap.data) \/ s.at < Sunk(s, l).at
         /\ OrderedTo(l, s.heap.data) => Sunk(s, l) = s
<1> DEFINE h == s.heap
           d == h.data
           f == TimesOf(d)
           a == s.at
           left == 2 * a
           c == IF left < l /\ d[left + 1].time < d[left].time THEN left + 1
                ELSE left
<1>1. /\ Placed(h, items) /\ Contents(h) = due /\ a \in 1..n
      /\ d \in Seq(items) /\ Len(d) = n /\ DOMAIN d = 1..n /\ d[n] = last
  BY DEF Sinking, Placed
<1>2. /\ \A k \in 2..l : k \div 2 # a => f[k \div 2] <= f[k]
      /\ \A k \in 2..l : k \div 2 = a /\ a > 1 => f[a \div 2] <= f[k]
  BY DEF Sinking
<1>3. f \in [1..n -> Nat] /\ \A k \in 1..n : f[k] = d[k].time
  <2> HIDE DEF d, f
  <2>1. QED
    BY <1>1, TimesType DEF f
<1> HIDE DEF f
<1>4. c = Child(f, a, l)
  <2>1. left < l => left \in 1..n /\ left + 1 \in 1..n
    BY <1>1
  <2>2. left < l => f[left] = d[left].time /\ f[left + 1] = d[left + 1].time
    BY <1>3, <2>1
  <2>3. QED
    BY <2>2 DEF Child
<1>5. Sunk(s, l) = IF left <= l /\ d[c].time < d[a].time
                     THEN [heap |-> Swap(h, a, c), at |-> c] ELSE s
  BY DEF Sunk, Before
<1> HIDE DEF c
<1>6. /\ \A k \in 2..l : k \div 2 = a => left <= l /\ f[c] <= f[k]
      /\ left <= l => c \in 2..l /\ c \div 2 = a
  <2> HIDE DEF a
  <2>1. l <= n /\ a \in 1..n /\ f \in [1..n -> Nat]
    BY <1>1, <1>3
  <2>2. IsSmallestChild(f, a, l, Child(f, a, l))
    BY <2>1, SmallestChild
  <2>3. QED
    BY <1>4, <2>2 DEF left, IsSmallestChild
<1>7. CASE left <= l /\ d[c].time < d[a].time
  <2> DEFINE g == Swap(h, a, c)
             e == TimesOf(g.data)
  <2>1. Sunk(s, l) = [heap |-> g, at |-> c]
    BY <1>5, <1>7
  <2>2. c \in 2..l /\ c \div 2 = a
    BY <1>6, <1>7
  <2> HIDE DEF a, d
  <2>3. c \in 1..n /\ a \in 1..l /\ a < c /\ c # n /\ a # n
    BY <1>1, <2>2, Halves
  <2>4. /\ Placed(g, items) /\ Len(g.data) = n /\ Contents(g) = due
        /\ \A k \in 1..n : g.data[k] = IF k = a THEN d[c]
                                       ELSE IF k = c THEN d[a] ELSE d[k]
    BY <1>1, <2>3, SwapPlaced DEF d
  <2>5. /\ e \in [1..n -> Nat]
        /\ \A k \in 1..n : e[k] = g.data[k].time
    BY <2>4, TimesType DEF Placed
  <2> HIDE DEF g, e
  <2>6. \A k \in 1..n : e[k] = IF k = a THEN f[c] ELSE IF k = c THEN f[a] ELSE f[k]
    BY <1>1, <1>3, <2>3, <2>4, <2>5
  <2>7. f[c] < f[a]
    BY <1>1, <1>3, <1>7, <2>3
  <2>8. /\ \A k \in 2..l : k \div 2 # c => e[k \div 2] <= e[k]
        /\ \A k \in 2..l : k \div 2 = c => e[c \div 2] <= e[k]
    <3>1. l <= n /\ a = c \div 2
      BY <2>2
    <3>2. \A k \in 2..l : k \div 2 = a => f[c] <= f[k]
      BY <1>6
    <3>3. f \in [1..n -> Nat] /\ e \in [1..n -> Nat] /\ a \in 1..l /\ c \in 2..l
      BY <1>3, <2>2, <2>3, <2>5
    <3>4. Sinks(n, l, f, e, a, c)
      BY <1>2, <2>6, <2>7, <3>1, <3>2, <3>3 DEF Sinks
    <3>5. QED
      BY <3>1, <3>4, TimesSink
  <2>9. g.data[n] = last
    <3>1. n \in 1..n
      BY <1>1
    <3>2. QED
      BY <1>1, <2>3, <2>4, <3>1
  <2>10. Sinking([heap |-> g, at |-> c], items, n, l, due, last)
    BY <2>3, <2>4, <2>8, <2>9 DEF Sinking, e
  <2>11. ~ OrderedTo(l, d)
    <3>1. f[a] \in Nat /\ f[c] \in Nat /\ ~ (f[a] <= f[c])
      BY <1>1, <1>3, <2>3, <2>7
    <3>2. QED
      BY <2>2, <3>1 DEF OrderedTo, f
  <2>12. OrderedTo(l, s.heap.data) => Sunk(s, l) = s
    BY <2>11 DEF d
  <2>13. s.at < Sunk(s, l).at
    BY <2>1, <2>3 DEF a
  <2>14. QED
    BY <2>1, <2>10, <2>12, <2>13
<1>8. CASE ~ (left <= l /\ d[c].time < d[a].time)
  <2>1. Sunk(s, l) = s
    BY <1>5, <1>8
  <2>2. ASSUME NEW k \in 2..l PROVE f[k \div 2] <= f[k]
    <3>1. CASE k \div 2 # a
      BY <1>2, <3>1
    <3>2. CASE k \div 2 = a
      <4>1. left <= l /\ f[c] <= f[k] /\ c \in 2..l
        BY <1>6, <3>2
      <4> HIDE DEF a, d
      <4>2. c \in 1..n /\ k \in 1..n
        BY <4>1
      <4>3. f[c] = d[c].time /\ f[a] = d[a].time
        BY <1>1, <1>3, <4>2
      <4>4. f[c] \in Nat /\ f[a] \in Nat /\ f[k] \in Nat
        BY <1>1, <1>3, <4>2
      <4>5. f[a] <= f[c]
        BY <1>8, <4>1, <4>3, <4>4
      <4>6. QED
        BY <3>2, <4>1, <4>4, <4>5
    <3>3. QED
      BY <3>1, <3>2
  <2>3. OrderedTo(l, d)
    BY <2>2 DEF OrderedTo, f
  <2>4. QED
    BY <2>1, <2>3
<1>9. QED
  BY <1>7, <1>8

\* Down ends with the first l items ordered.
LEMMA DownOrders ==
  ASSUME NEW items, Timed(items), NEW n \in Nat, NEW l \in Nat, l < n,
         NEW due, NEW last, NEW h, NEW i,
         Sinking([heap |-> h, at |-> i], items, n, l, due, last)
  PROVE  /\ Sinking(Down(h, i, l), items, n, l, due, last)
         /\ OrderedTo(l, Down(h, i, l).heap.data)
<1>1. i \in 1..n
  BY DEF Sinking
<1>2. PICK s : /\ s[0] = [heap |-> h, at |-> i]
               /\ \A m \in 1..l : s[m] = Sunk(s[m - 1], l)
               /\ Down(h, i, l) = s[l]
  BY DownReached
<1> DEFINE Done(m) == /\ Sinking(s[m], items, n, l, due, last)
                      /\ OrderedTo(l, s[m].heap.data) \/ m < s[m].at
           S == {m \in Nat : m <= l => Done(m)}
<1>3. 0 \in S
  <2>1. s[0].at = i
    BY <1>2
  <2>2. QED
    BY <1>1, <1>2, <2>1
<1>4. ASSUME NEW m \in Nat, m \in S PROVE m + 1 \in S
  <2>1. SUFFICES ASSUME m + 1 <= l PROVE Done(m + 1)
    OBVIOUS
  <2>2. Done(m)
    BY <1>1, <1>4, <2>1
  <2> DEFINE t == s[m]
             u == s[m + 1]
  <2>3. u = Sunk(t, l)
    <3>1. m + 1 \in 1..l /\ (m + 1) - 1 = m
      BY <2>1
    <3>2. QED
      BY <1>2, <3>1
  <2>4. t.at \in 1..n /\ Sinking(t, items, n, l, due, last)
    BY <2>2 DEF Sinking
  <2> HIDE DEF t, u
  <2>5. /\ Sinking(u, items, n, l, due, last)
        /\ OrderedTo(l, u.heap.data) \/ t.at < u.at
        /\ OrderedTo(l, t.heap.data) => u = t
    BY <2>3, <2>4, SunkMoves
  <2>6. OrderedTo(l, t.heap.data) \/ m < t.at
    BY <2>2 DEF t
  <2>7. u.at \in 1..n
    BY <2>5 DEF Sinking
  <2>8. OrderedTo(l, u.heap.data) \/ m + 1 < u.at
    <3>1. CASE OrderedTo(l, t.heap.data)
      BY <2>5, <3>1
    <3>2. CASE m < t.at /\ t.at < u.at
      BY <2>4, <2>7, <3>2
    <3>3. QED
      BY <2>5, <2>6, <3>1, <3>2
  <2>9. QED
    BY <2>5, <2>8 DEF u
<1>5. Done(l)
  <2>1. l \in S
    <3> HIDE DEF S
    <3>1. QED
      BY <1>3, <1>4, NumbersFromZero
  <2>2. QED
    BY <2>1
<1>6. Sinking(Down(h, i, l), items, n, l, due, last)
  BY <1>2, <1>5
<1>7. CASE l < s[l].at
  <2>1. \A k \in 2..l : k \div 2 # s[l].at
    BY <1>7, Halves
  <2>2. QED
    BY <1>2, <1>5, <1>6, <2>1 DEF Sinking, OrderedTo
<1>8. QED
  BY <1>2, <1>5, <1>6, <1>7

-----------------------------------------------------------------------------
(* The heap as a whole *)

\* HeapsIn has the arrays whose positions are right and that are ordered.
LEMMA HeapsPlaced ==
  ASSUME NEW items, NEW h
  PROVE  h \in HeapsIn(Seq(items)) <=> Placed(h, items) /\ Ordered(h.data)
<1>1. ASSUME h \in HeapsIn(Seq(items)) PROVE Placed(h, items) /\ Ordered(h.data)
  <2>1. PICK d \in Seq(items) : /\ KeysOnce(d) /\ Ordered(d)
                                /\ h = [data |-> d, keyPosition |-> Positions(d)]
    BY <1>1 DEF HeapsIn
  <2>2. h.data = d
    BY <2>1
  <2>3. QED
    BY <2>1, <2>2 DEF Placed
<1>2. ASSUME Placed(h, items), Ordered(h.data) PROVE h \in HeapsIn(Seq(items))
  BY <1>2 DEF Placed, HeapsIn
<1>3. QED
  BY <1>1, <1>2

\* The root of an ordered array is due first.
LEMMA RootFirst ==
  ASSUME NEW items, Timed(items), NEW d \in Seq(items), Ordered(d), d # <<>>
  PROVE  \A i \in DOMAIN d : d[1].time <= d[i].time
<1> DEFINE n == Len(d)
           f == TimesOf(d)
           Later == {k \in 1..n : ~ (f[1] <= f[k])}
<1>1. /\ n \in Nat /\ DOMAIN d = 1..n /\ 1 \in 1..n
      /\ f \in [1..n -> Nat] /\ \A k \in 1..n : f[k] = d[k].time
      /\ \A k \in 2..n : f[k \div 2] <= f[k]
  BY TimesType
<1> HIDE DEF n, f
<1>2. Later = {}
  <2>1. SUFFICES ASSUME Later # {} PROVE FALSE
    OBVIOUS
  <2>2. Later \in SUBSET Nat
    BY <1>1
  <2>3. PICK m \in Later : \A k \in Later : m <= k
    BY <2>1, <2>2, LeastNumber
  <2>4. m \in 1..n /\ ~ (f[1] <= f[m])
    BY <2>3
  <2>5. m # 1
    BY <1>1, <2>4
  <2>6. PICK q \in 1..n : q = m \div 2 /\ q < m
    BY <1>1, <2>4, <2>5, Halves
  <2>7. q \notin Later
    BY <1>1, <2>3, <2>4, <2>6
  <2>8. f[1] <= f[q] /\ f[q] <= f[m]
    BY <1>1, <2>4, <2>5, <2>6, <2>7
  <2>9. f[1] \in Nat /\ f[q] \in Nat /\ f[m] \in Nat
    BY <1>1, <2>4
  <2>10. QED
    BY <2>4, <2>8, <2>9
<1>3. QED
  BY <1>1, <1>2

\* A new item goes to the end.
LEMMA PushRises ==
  ASSUME NEW items, Timed(items), NEW h, Placed(h, items), Ordered(h.data),
         NEW x \in items, \A i \in DOMAIN h.data : h.data[i].key # x.key
  PROVE  Rising([heap |-> Push(h, x), at |-> Len(h.data) + 1], items,
                Len(h.data) + 1, Contents(h) \cup {x})
<1> DEFINE d == h.data
           n == Len(d)
           e == Append(d, x)
           p == Positions(d)
           q == [k \in DOMAIN p \cup {x.key} |-> IF k = x.key THEN n + 1 ELSE p[k]]
           D == {d[i].key : i \in DOMAIN d}
<1>1. /\ d \in Seq(items) /\ n \in Nat /\ DOMAIN d = 1..n
      /\ KeysOnce(d) /\ h.keyPosition = p
  BY DEF Placed
<1>2. Push(h, x) = [data |-> e, keyPosition |-> q]
  BY <1>1 DEF Push
<1>3. /\ e \in Seq(items) /\ Len(e) = n + 1 /\ DOMAIN e = 1..(n + 1)
      /\ e[n + 1] = x /\ \A k \in 1..n : e[k] = d[k]
  BY <1>1
<1>4. KeysOnce(e)
  <2> HIDE DEF e, d, n
  <2>1. \A k \in 1..(n + 1) : k \in 1..n \/ k = n + 1
    BY <1>1
  <2>2. \A k \in 1..n : e[k].key # x.key
    BY <1>1, <1>3 DEF d
  <2>3. QED
    BY <1>1, <1>3, <2>1, <2>2 DEF KeysOnce
<1>5. q = Positions(e)
  <2>1. p = [k \in D |-> p[k]]
    BY DEF Positions
  <2>2. q = [k \in D \cup {x.key} |-> IF k = x.key THEN n + 1 ELSE p[k]]
    <3> HIDE DEF D, p, n
    <3>1. DOMAIN p = D
      BY <2>1
    <3>2. QED
      BY <3>1
  <2>3. {e[i].key : i \in DOMAIN e} = D \cup {x.key}
    <3> HIDE DEF e, n
    <3>1. \A k \in 1..(n + 1) : k \in 1..n \/ k = n + 1
      BY <1>1
    <3>2. \A k \in 1..n : k \in 1..(n + 1)
      BY <1>1
    <3>3. QED
      BY <1>1, <1>3, <3>1, <3>2
  <2>4. ASSUME NEW i \in DOMAIN e PROVE q[e[i].key] = i
    <3>1. CASE i = n + 1
      <4> HIDE DEF e, D, p, q, n
      <4>1. QED
        BY <1>3, <2>2, <3>1
    <3>2. CASE i \in 1..n
      <4>1. e[i].key = d[i].key /\ d[i].key # x.key /\ d[i].key \in D
        BY <1>1, <1>3, <3>2
      <4>2. p[d[i].key] = i
        BY <1>1, <3>2, PositionOfItem
      <4> HIDE DEF e, D, p, q, n, d
      <4>3. QED
        BY <2>2, <4>1, <4>2
    <3>3. QED
      BY <1>1, <1>3, <3>1, <3>2
  <2> HIDE DEF q, e, D, p
  <2>5. q = [k \in {e[i].key : i \in DOMAIN e} |-> q[k]]
    BY <2>2, <2>3
  <2>6. QED
    BY <1>4, <2>4, <2>5, PositionsKnown
<1> DEFINE g == Push(h, x)
<1>6. g.data = e /\ Placed(g, items)
  <2> HIDE DEF e, q
  <2>1. QED
    BY <1>2, <1>3, <1>4, <1>5 DEF Placed
<1>7. Contents(g) = Contents(h) \cup {x}
  <2>1. Contents(g) = {e[k] : k \in 1..(n + 1)} /\ Contents(h) = {d[k] : k \in 1..n}
    BY <1>1, <1>3, <1>6 DEF Contents
  <2> HIDE DEF e, n, d
  <2>2. \A k \in 1..(n + 1) : k \in 1..n \/ k = n + 1
    BY <1>1
  <2>3. n + 1 \in 1..(n + 1) /\ \A k \in 1..n : k \in 1..(n + 1)
    BY <1>1
  <2>4. QED
    BY <1>3, <2>1, <2>2, <2>3
<1> DEFINE f == TimesOf(d)
           l == TimesOf(e)
<1>8. /\ f \in [1..n -> Nat] /\ \A k \in 1..n : f[k] = d[k].time
      /\ \A k \in 2..n : f[k \div 2] <= f[k]
  BY <1>1, TimesType
<1>9. \A k \in 1..(n + 1) : l[k] = e[k].time
  BY <1>3 DEF TimesOf
<1> HIDE DEF f, l, e, d, n
<1>10. \A k \in 2..(n + 1) : k # n + 1 => l[k \div 2] <= l[k]
  <2>1. SUFFICES ASSUME NEW k \in 2..n PROVE l[k \div 2] <= l[k]
    BY <1>1
  <2>2. PICK r \in 1..n : r = k \div 2
    BY <1>1, Halves
  <2>3. k \in 1..n /\ k \in 1..(n + 1) /\ r \in 1..(n + 1)
    BY <1>1, <2>2
  <2>4. l[k] = f[k] /\ l[r] = f[r]
    BY <1>3, <1>8, <1>9, <2>2, <2>3
  <2>5. QED
    BY <1>8, <2>2, <2>4
<1>11. \A k \in 2..(n + 1) : k \div 2 # n + 1
  BY <1>1, Halves
<1>12. n + 1 \in 1..(n + 1)
  BY <1>1
<1>13. QED
  BY <1>3, <1>6, <1>7, <1>10, <1>11, <1>12 DEF Rising, n, d, l

\* An item that is made earlier has to rise, if anything.
LEMMA EarlierRises ==
  ASSUME NEW items, Timed(items), NEW h, Placed(h, items), Ordered(h.data),
         NEW x \in items, NEW p \in DOMAIN h.data,
         h.data[p].key = x.key, x.time < h.data[p].time
  PROVE  LET g == [h EXCEPT !.data[p] = x] IN
         /\ Rising([heap |-> g, at |-> p], items, Len(h.data),
                   (Contents(h) \ {h.data[p]}) \cup {x})
         /\ \A k \in 2..Len(h.data) : k \div 2 = p => g.data[p].time <= g.data[k].time
<1> DEFINE d == h.data
           n == Len(d)
           e == [d EXCEPT ![p] = x]
           q == Positions(d)
           g == [h EXCEPT !.data[p] = x]
<1>1. /\ d \in Seq(items) /\ n \in Nat /\ DOMAIN d = 1..n
      /\ KeysOnce(d) /\ h = [data |-> d, keyPosition |-> q]
  BY DEF Placed
<1>2. g = [data |-> e, keyPosition |-> q]
  BY <1>1
<1>3. /\ DOMAIN e = 1..n /\ Len(e) = n
      /\ e[p] = x /\ \A k \in 1..n : k # p => e[k] = d[k]
  BY <1>1
<1>4. e \in Seq(items)
  <2>1. e \in [1..n -> items]
    BY <1>1
  <2> HIDE DEF e, d, n
  <2>2. QED
    BY <1>1, <2>1
<1>5. p \in 1..n /\ \A k \in 1..n : e[k].key = d[k].key
  BY <1>1, <1>3
<1> HIDE DEF e
<1>6. KeysOnce(e)
  BY <1>1, <1>3, <1>5 DEF KeysOnce
<1>7. q = Positions(e)
  <2>1. \A k \in DOMAIN e : q[e[k].key] = k
    BY <1>1, <1>3, <1>5, PositionOfItem
  <2>2. {e[k].key : k \in DOMAIN e} = {d[k].key : k \in DOMAIN d}
    BY <1>1, <1>3, <1>5
  <2>3. q = [k \in {d[i].key : i \in DOMAIN d} |-> q[k]]
    BY DEF Positions
  <2> HIDE DEF q
  <2>4. QED
    BY <1>6, <2>1, <2>2, <2>3, PositionsKnown
<1> HIDE DEF g
<1>8. g.data = e /\ Placed(g, items)
  <2> HIDE DEF q
  <2>1. QED
    BY <1>2, <1>4, <1>6, <1>7 DEF Placed
<1>9. Contents(g) = (Contents(h) \ {d[p]}) \cup {x}
  <2>1. Contents(g) = {e[k] : k \in 1..n} /\ Contents(h) = {d[k] : k \in 1..n}
    BY <1>1, <1>3, <1>8 DEF Contents
  <2>2. \A k \in 1..n : d[k] = d[p] => k = p
    BY <1>1, <1>5 DEF KeysOnce
  <2> HIDE DEF n, d
  <2>3. QED
    BY <1>3, <1>5, <2>1, <2>2
<1> DEFINE f == TimesOf(d)
           l == TimesOf(e)
<1>10. /\ f \in [1..n -> Nat] /\ \A k \in 1..n : f[k] = d[k].time
       /\ \A k \in 2..n : f[k \div 2] <= f[k]
  BY <1>1, TimesType
<1>11. \A k \in 1..n : l[k] = IF k = p THEN x.time ELSE f[k]
  BY <1>3, <1>10 DEF TimesOf
<1>12. x.time \in Nat /\ f[p] \in Nat /\ x.time < f[p]
  BY <1>1, <1>5, <1>10 DEF Timed
<1> HIDE DEF f, l, d, n
<1>13. ASSUME NEW k \in 2..n, k # p PROVE l[k \div 2] <= l[k]
  <2>1. PICK r \in 1..n : r = k \div 2
    BY <1>1, Halves
  <2>2. k \in 1..n /\ f[r] <= f[k] /\ l[k] = f[k] /\ f[k] \in Nat /\ f[r] \in Nat
    BY <1>10, <1>11, <1>13, <2>1
  <2>3. CASE r = p
    <3>1. l[r] = x.time
      BY <1>11, <2>3
    <3>2. QED
      BY <1>12, <2>1, <2>2, <2>3, <3>1
  <2>4. CASE r # p
    <3>1. l[r] = f[r]
      BY <1>11, <2>4
    <3>2. QED
      BY <2>1, <2>2, <3>1
  <2>5. QED
    BY <2>3, <2>4
<1>14. ASSUME NEW k \in 2..n, k \div 2 = p PROVE k # p /\ l[p] <= l[k] /\ f[p] <= l[k]
  <2>1. k # p /\ k \in 1..n
    BY <1>1, <1>14, Halves
  <2>2. f[p] <= f[k] /\ l[k] = f[k] /\ l[p] = x.time /\ f[k] \in Nat
    BY <1>5, <1>10, <1>11, <1>14, <2>1
  <2>3. QED
    BY <1>12, <2>1, <2>2
<1>15. ASSUME NEW k \in 2..n, k \div 2 = p, p > 1 PROVE l[p \div 2] <= l[k]
  <2>1. p \in 2..n
    BY <1>1, <1>5, <1>15
  <2>2. PICK r \in 1..n : r = p \div 2 /\ r < p
    BY <1>1, <2>1, Halves
  <2>3. f[r] <= f[p] /\ l[r] = f[r] /\ f[r] \in Nat
    BY <1>5, <1>10, <1>11, <2>1, <2>2
  <2>4. f[p] <= l[k] /\ l[k] \in Nat
    <3>1. k \in 1..n
      BY <1>1
    <3>2. QED
      BY <1>10, <1>11, <1>14, <1>15, <3>1
  <2>5. QED
    BY <1>12, <2>2, <2>3, <2>4
<1>16. Rising([heap |-> g, at |-> p], items, n, Contents(g))
  BY <1>3, <1>5, <1>8, <1>13, <1>15 DEF Rising, l
<1>17. \A k \in 2..n : k \div 2 = p => e[p].time <= e[k].time
  <2>1. \A k \in 1..n : l[k] = e[k].time
    BY <1>3 DEF l, TimesOf
  <2>2. \A k \in 2..n : k \in 1..n
    BY <1>1
  <2>3. QED
    BY <1>5, <1>14, <2>1, <2>2
<1>18. QED
  BY <1>8, <1>9, <1>16, <1>17 DEF g, d, n

\* The last item leaves.
LEMMA PopPlaced ==
  ASSUME NEW items, Timed(items), NEW h, Placed(h, items),
         NEW n \in Nat, n > 0, Len(h.data) = n, OrderedTo(n - 1, h.data)
  PROVE  /\ Placed(Pop(h), items) /\ Ordered(Pop(h).data)
         /\ Contents(Pop(h)) = Contents(h) \ {h.data[n]}
<1> DEFINE d == h.data
           e == SubSeq(d, 1, n - 1)
           p == Positions(d)
           D == {d[i].key : i \in DOMAIN d}
           q == [j \in D \ {d[n].key} |-> p[j]]
<1>1. /\ d \in Seq(items) /\ DOMAIN d = 1..n
      /\ KeysOnce(d) /\ h.keyPosition = p
  BY DEF Placed
<1>2. Pop(h) = [data |-> e, keyPosition |-> q]
  BY <1>1 DEF Pop, Positions
<1>3. /\ e \in Seq(items) /\ Len(e) = n - 1 /\ DOMAIN e = 1..(n - 1)
      /\ \A k \in 1..(n - 1) : e[k] = d[k]
  BY <1>1
<1>4. /\ \A k \in 1..n : k \in 1..(n - 1) \/ k = n
      /\ \A k \in 1..(n - 1) : k \in 1..n /\ k # n
      /\ n \in 1..n
  OBVIOUS
<1> HIDE DEF e
<1>5. KeysOnce(e)
  BY <1>1, <1>3, <1>4 DEF KeysOnce
<1>6. {e[k].key : k \in DOMAIN e} = D \ {d[n].key}
  <2>1. \A k \in 1..n : d[k].key = d[n].key => k = n
    BY <1>1, <1>4 DEF KeysOnce
  <2> HIDE DEF d
  <2>2. QED
    BY <1>1, <1>3, <1>4, <2>1
<1>7. q = Positions(e)
  <2>1. ASSUME NEW k \in DOMAIN e PROVE q[e[k].key] = k
    <3>1. e[k].key = d[k].key /\ k \in DOMAIN d
      BY <1>1, <1>3, <1>4
    <3>2. p[d[k].key] = k
      BY <1>1, <3>1, PositionOfItem
    <3>3. e[k].key \in D \ {d[n].key}
      BY <1>6
    <3> HIDE DEF D, p
    <3>4. QED
      BY <3>1, <3>2, <3>3
  <2>2. q = [k \in D \ {d[n].key} |-> q[k]]
    OBVIOUS
  <2> HIDE DEF q, D
  <2>3. QED
    BY <1>5, <1>6, <2>1, <2>2, PositionsKnown
<1> DEFINE g == Pop(h)
<1> HIDE DEF q
<1>8. g.data = e /\ Placed(g, items)
  BY <1>2, <1>3, <1>5, <1>7 DEF Placed
<1>9. Contents(g) = Contents(h) \ {d[n]}
  <2>1. Contents(g) = {e[k] : k \in 1..(n - 1)} /\ Contents(h) = {d[k] : k \in 1..n}
    BY <1>1, <1>3, <1>8 DEF Contents
  <2>2. \A k \in 1..n : d[k] = d[n] => k = n
    BY <1>1, <1>4 DEF KeysOnce
  <2> HIDE DEF d
  <2>3. QED
    BY <1>3, <1>4, <2>1, <2>2
<1>10. Ordered(e)
  <2> DEFINE l == n - 1
             f == TimesOf(d)
             u == TimesOf(e)
  <2>1. l \in Nat /\ Len(e) = l
    BY <1>3
  <2>2. /\ \A k \in 1..l : f[k] = d[k].time
        /\ \A k \in 1..l : u[k] = e[k].time
    BY <1>1, <1>3, <1>4 DEF TimesOf
  <2>3. Ordered(e) <=> \A k \in 2..l : u[k \div 2] <= u[k]
    BY <1>3, <2>1, TimesType
  <2>4. \A k \in 2..l : f[k \div 2] <= f[k]
    BY DEF OrderedTo
  <2>5. \A k \in 1..l : u[k] = f[k]
    BY <1>3, <2>2
  <2> HIDE DEF f, u, l
  <2>6. \A k \in 2..l : u[k \div 2] <= u[k]
    <3>1. \A k \in 2..l : k \in 1..l /\ k \div 2 \in 1..l
      BY <2>1, Halves
    <3>2. QED
      BY <2>4, <2>5, <3>1
  <2>7. QED
    BY <2>3, <2>6
<1>11. QED
  BY <1>8, <1>9, <1>10

-----------------------------------------------------------------------------
(* What run does with it *)

\* An update is merged into what is due.
LEMMA UpdateMerges ==
  ASSUME NEW items, Timed(items), NEW h \in HeapsIn(Seq(items)), NEW x \in items
  PROVE  /\ Update(h, x) \in HeapsIn(Seq(items))
         /\ Contents(Update(h, x)) = Merged(Contents(h), x)
<1> DEFINE d == h.data
           n == Len(d)
           due == Contents(h)
<1>1. Placed(h, items) /\ Ordered(d)
  BY HeapsPlaced
<1>2. d \in Seq(items) /\ n \in Nat /\ DOMAIN d = 1..n /\ KeysOnce(d)
  BY <1>1 DEF Placed
<1>3. DOMAIN h.keyPosition = {d[i].key : i \in DOMAIN d}
  BY <1>1 DEF Placed, Positions
<1>4. due = {d[i] : i \in DOMAIN d}
  BY DEF Contents
<1>5. CASE x.key \notin DOMAIN h.keyPosition
  <2>1. \A i \in DOMAIN d : d[i].key # x.key
    BY <1>3, <1>5
  <2>2. Rising([heap |-> Push(h, x), at |-> n + 1], items, n + 1, due \cup {x})
    BY <1>1, <2>1, PushRises
  <2>3. Update(h, x) = Up(Push(h, x), n + 1).heap
    BY <1>5 DEF Update, HeapPush
  <2>4. n + 1 \in Nat
    BY <1>2
  <2>5. /\ Placed(Update(h, x), items) /\ Ordered(Update(h, x).data)
        /\ Contents(Update(h, x)) = due \cup {x}
    <3> HIDE DEF n, due
    <3>1. QED
      BY <2>2, <2>3, <2>4, UpOrders
  <2>6. Merged(due, x) = due \cup {x}
    BY <1>4, <2>1 DEF Merged
  <2>7. QED
    BY <2>5, <2>6, HeapsPlaced
<1>6. CASE x.key \in DOMAIN h.keyPosition
  <2>1. PICK p \in DOMAIN d : d[p].key = x.key
    BY <1>3, <1>6
  <2>2. h.keyPosition[x.key] = p
    BY <1>1, <2>1, PositionOfItem DEF Placed
  <2>3. \A y \in due : y.key = x.key <=> y = d[p]
    BY <1>2, <1>4, <2>1 DEF KeysOnce
  <2>4. d[p] \in due /\ d[p].time \in Nat /\ x.time \in Nat /\ p \in 1..n
    BY <1>2, <1>4 DEF Timed
  <2>5. CASE x.time < d[p].time
    <3> DEFINE g == [h EXCEPT !.data[p] = x]
    <3>1. /\ Rising([heap |-> g, at |-> p], items, n, (due \ {d[p]}) \cup {x})
          /\ \A k \in 2..n : k \div 2 = p => g.data[p].time <= g.data[k].time
      BY <1>1, <2>1, <2>5, EarlierRises
    <3>2. Update(h, x) = Fix(g, p)
      BY <1>6, <2>2, <2>5 DEF Update
    <3> HIDE DEF g
    <3>3. /\ Len(g.data) = n /\ g.data \in Seq(items)
      BY <3>1 DEF Rising, Placed
    <3> HIDE DEF n
    <3>4. \A k \in 1..n : g.data[k].time \in Nat
      BY <3>3 DEF Timed
    <3>5. Down(g, p, n) = [heap |-> g, at |-> p]
      <4> HIDE DEF due, d
      <4>1. n \in Nat /\ p \in Nat /\ p \in 1..n
        BY <1>2, <2>4
      <4>2. \A k \in 2..n : k \div 2 = p => g.data[p].time <= g.data[k].time
        BY <3>1
      <4>3. QED
        BY <3>4, <4>1, <4>2, DownStays
    <3>6. Fix(g, p) = Up(g, p).heap
      <4>1. ~ (p > p)
        BY <2>4
      <4>2. QED
        BY <3>3, <3>5, <4>1 DEF Fix
    <3>7. /\ Placed(Update(h, x), items) /\ Ordered(Update(h, x).data)
          /\ Contents(Update(h, x)) = (due \ {d[p]}) \cup {x}
      <4> DEFINE all == (due \ {d[p]}) \cup {x}
      <4>1. n \in Nat /\ Rising([heap |-> g, at |-> p], items, n, all)
        BY <1>2, <3>1
      <4> HIDE DEF due, d, all
      <4>2. /\ Placed(Up(g, p).heap, items) /\ Ordered(Up(g, p).heap.data)
            /\ Contents(Up(g, p).heap) = all
        BY <4>1, UpOrders
      <4>3. QED
        BY <3>2, <3>6, <4>2 DEF all
    <3>8. Merged(due, x) = (due \ {d[p]}) \cup {x}
      <4> HIDE DEF due, d
      <4>1. Merged(due, x)
              = {IF y.key = x.key /\ x.time < y.time THEN x ELSE y : y \in due}
        BY <2>1, <2>4 DEF Merged
      <4>2. \A y \in due : (IF y.key = x.key /\ x.time < y.time THEN x ELSE y)
                             = IF y = d[p] THEN x ELSE y
        BY <2>3, <2>5
      <4>3. QED
        BY <2>4, <4>1, <4>2
    <3>9. QED
      BY <3>7, <3>8, HeapsPlaced
  <2>6. CASE ~ (x.time < d[p].time)
    <3>1. Update(h, x) = h
      BY <1>6, <2>2, <2>6 DEF Update
    <3>2. Merged(due, x) = due
      <4> HIDE DEF due, d
      <4>1. Merged(due, x)
              = {IF y.key = x.key /\ x.time < y.time THEN x ELSE y : y \in due}
        BY <2>1, <2>4 DEF Merged
      <4>2. \A y \in due : (IF y.key = x.key /\ x.time < y.time THEN x ELSE y) = y
        BY <2>3, <2>6
      <4>3. QED
        BY <4>1, <4>2
    <3>3. QED
      BY <3>1, <3>2
  <2>7. QED
    BY <2>5, <2>6
<1>7. QED
  BY <1>5, <1>6

\* What is taken is what is due first.
LEMMA PopTakesFirst ==
  ASSUME NEW items, Timed(items), NEW h \in HeapsIn(Seq(items)), Contents(h) # {}
  PROVE  /\ Head1(h) \in Contents(h)
         /\ \A y \in Contents(h) : Head1(h).time <= y.time
         /\ HeapPop(h) \in HeapsIn(Seq(items))
         /\ Contents(HeapPop(h)) = Contents(h) \ {Head1(h)}
<1> DEFINE d == h.data
           n == Len(d)
           l == n - 1
           due == Contents(h)
           g == Swap(h, 1, n)
           u == Down(g, 1, l).heap
<1>1. Placed(h, items) /\ Ordered(d)
  BY HeapsPlaced
<1>2. d \in Seq(items) /\ n \in Nat /\ DOMAIN d = 1..n /\ KeysOnce(d)
  BY <1>1 DEF Placed
<1>3. due = {d[i] : i \in 1..n}
  BY <1>2 DEF Contents
<1>4. n > 0 /\ 1 \in DOMAIN d /\ n \in DOMAIN d /\ d # <<>>
  BY <1>2, <1>3
<1>5. Head1(h) = d[1]
  BY DEF Head1
<1>6. Head1(h) \in due /\ \A y \in due : Head1(h).time <= y.time
  <2>1. \A i \in DOMAIN d : d[1].time <= d[i].time
    BY <1>1, <1>2, <1>4, RootFirst
  <2>2. QED
    BY <1>2, <1>3, <1>4, <1>5, <2>1
<1>7. l \in Nat /\ l < n /\ n \in Nat /\ n \in 1..n /\ 1 \in 1..n
  BY <1>2, <1>4
<1>8. /\ Placed(g, items) /\ Len(g.data) = n /\ Contents(g) = due
      /\ \A k \in 1..n : g.data[k] = IF k = 1 THEN d[n] ELSE IF k = n THEN d[1] ELSE d[k]
  <2>1. /\ Placed(g, items) /\ Len(g.data) = Len(h.data) /\ Contents(g) = Contents(h)
        /\ \A k \in DOMAIN h.data :
             g.data[k] = IF k = 1 THEN h.data[n] ELSE IF k = n THEN h.data[1] ELSE h.data[k]
    <3> HIDE DEF n
    <3>1. QED
      BY <1>1, <1>4, SwapPlaced
  <2>2. QED
    BY <1>2, <2>1
<1> DEFINE f == TimesOf(d)
           e == TimesOf(g.data)
<1>9. /\ f \in [1..n -> Nat] /\ \A k \in 1..n : f[k] = d[k].time
      /\ \A k \in 2..n : f[k \div 2] <= f[k]
  BY <1>1, <1>2, TimesType
<1> HIDE DEF g, d, n, l
<1>10. \A k \in 1..n : e[k] = g.data[k].time
  <2>1. g.data \in Seq(items)
    BY <1>8 DEF Placed
  <2>2. QED
    BY <1>8, <2>1, TimesType
<1> HIDE DEF e, f
<1>11. \A k \in 2..l : k \div 2 # 1 => e[k \div 2] <= e[k]
  <2>1. SUFFICES ASSUME NEW k \in 2..l, k \div 2 # 1 PROVE e[k \div 2] <= e[k]
    OBVIOUS
  <2>2. PICK r \in 1..l : r = k \div 2 /\ r < k
    BY <1>7, Halves
  <2>3. /\ k \in 1..n /\ r \in 1..n /\ k \in 2..n
        /\ k # 1 /\ k # n /\ r # 1 /\ r # n
    BY <1>7, <2>1, <2>2
  <2>4. e[k] = f[k] /\ e[r] = f[r]
    BY <1>8, <1>9, <1>10, <2>3
  <2>5. f[r] <= f[k]
    BY <1>9, <2>2, <2>3
  <2>6. QED
    BY <2>2, <2>4, <2>5
<1>12. g.data[n] = d[1]
  BY <1>7, <1>8
<1>13. Sinking([heap |-> g, at |-> 1], items, n, l, due, d[1])
  BY <1>7, <1>8, <1>11, <1>12 DEF Sinking, e
<1>14. /\ Sinking(Down(g, 1, l), items, n, l, due, d[1])
       /\ OrderedTo(l, u.data)
  <2> HIDE DEF due
  <2>1. QED
    BY <1>7, <1>13, DownOrders
<1>15. Placed(u, items) /\ Len(u.data) = n /\ Contents(u) = due /\ u.data[n] = d[1]
  BY <1>14 DEF Sinking
<1> HIDE DEF u, due
<1>16. /\ Placed(Pop(u), items) /\ Ordered(Pop(u).data)
       /\ Contents(Pop(u)) = due \ {d[1]}
  <2>1. OrderedTo(n - 1, u.data)
    BY <1>14 DEF l
  <2>2. QED
    BY <1>4, <1>7, <1>15, <2>1, PopPlaced
<1>17. HeapPop(h) = Pop(u)
  BY DEF HeapPop, u, l, g, n, d
<1>18. QED
  BY <1>5, <1>6, <1>16, <1>17, HeapsPlaced DEF due

\* The deliverer with the code's heap.
CodesHeap == INSTANCE DelayingDeliverer
               WITH Heaps <- HeapsIn(Seq(Items)), EmptyHeap <- EmptyArray,
                    DueIn <- Contents, Top <- Head1, Take <- HeapPop, Put <- Update

\* The heap of the code does what run relies on: an update is merged (delivererHeap
\* under heap.Push and heap.Fix), the root is an earliest item, and heap.Pop
\* removes it alone; positions always agree with the array.
THEOREM CodeHeapCorrect ==
  ASSUME NEW items, Timed(items)
  PROVE  LET heaps == HeapsIn(Seq(items)) IN
         /\ EmptyArray \in heaps /\ Contents(EmptyArray) = {}
         /\ CodesHeap!HeapCorrect(heaps, items)
<1> DEFINE heaps == HeapsIn(Seq(items))
<1>1. EmptyArray \in heaps
  <2>1. Positions(<<>>) = <<>>
    BY DEF Positions
  <2>2. Placed(EmptyArray, items) /\ Ordered(EmptyArray.data)
    BY <2>1 DEF Placed, EmptyArray, KeysOnce, Ordered
  <2>3. QED
    BY <2>2, HeapsPlaced
<1>2. Contents(EmptyArray) = {}
  BY DEF Contents, EmptyArray
<1>3. ASSUME NEW h \in heaps
      PROVE  /\ Contents(h) \subseteq items
             /\ \A x, y \in Contents(h) : x.key = y.key => x = y
  <2>1. h.data \in Seq(items) /\ KeysOnce(h.data)
    BY HeapsPlaced DEF Placed
  <2>2. QED
    BY <2>1 DEF Contents, KeysOnce
<1>4. \A h \in heaps : \A x \in items :
        /\ Update(h, x) \in heaps
        /\ Contents(Update(h, x)) = CodesHeap!Merged(Contents(h), x)
  BY UpdateMerges DEF Merged, CodesHeap!Merged
<1>5. CodesHeap!HeapCorrect(heaps, items)
  <2> HIDE DEF heaps
  <2>1. QED
    BY <1>3, <1>4, PopTakesFirst DEF CodesHeap!HeapCorrect, heaps
<1>6. QED
  BY <1>1, <1>2, <1>5

\* With each key in them once, arrays of finitely many keys are no longer than
\* there are keys: Arrays leaves no heap out.
LEMMA ArraysAreHeaps ==
  ASSUME NEW keys, IsFiniteSet(keys), NEW times
  PROVE  Arrays(keys, times) = HeapsIn(Seq([key : keys, time : times]))
<1> DEFINE items == [key : keys, time : times]
           bounded == UNION {[1..n -> items] : n \in 0..Cardinality(keys)}
<1>1. Cardinality(keys) \in Nat
  BY FS_CardinalityType
<1>2. ASSUME NEW d \in bounded PROVE d \in Seq(items)
  <2>1. PICK n \in 0..Cardinality(keys) : d \in [1..n -> items]
    OBVIOUS
  <2>2. n \in Nat
    BY <1>1, <2>1
  <2> HIDE DEF items
  <2>3. QED
    BY <2>1, <2>2
<1>3. ASSUME NEW d \in Seq(items), KeysOnce(d) PROVE d \in bounded
  <2> DEFINE n == Len(d)
             f == [i \in 1..n |-> d[i].key]
  <2> HIDE DEF items, bounded
  <2>0. n \in Nat
    BY <1>3
  <2>7. DOMAIN d = 1..n
    BY <1>3
  <2>8. d \in [1..n -> items]
    BY <1>3
  <2>1. n \in Nat /\ DOMAIN d = 1..n /\ d \in [1..n -> items]
    BY <2>0, <2>7, <2>8
  <2>2. f \in Injection(1..n, keys)
    <3>1. f \in [1..n -> keys]
      BY <2>1 DEF items
    <3>2. \A i, j \in 1..n : f[i] = f[j] => i = j
      BY <1>3, <2>1 DEF KeysOnce
    <3>3. QED
      BY <3>1, <3>2 DEF Injection, IsInjective
  <2>3. Cardinality(1..n) <= Cardinality(keys)
    BY <2>2, FS_Injection
  <2> HIDE DEF n, f
  <2>4. Cardinality(1..n) = n
    <3>1. 1 \in Int /\ n \in Int
      BY <2>0
    <3>2. Cardinality(1..n) = IF 1 > n THEN 0 ELSE n - 1 + 1
      BY <3>1, FS_Interval
    <3>3. QED
      BY <2>0, <3>2
  <2>5. n \in 0..Cardinality(keys)
    BY <1>1, <2>1, <2>3, <2>4
  <2>6. QED
    BY <2>1, <2>5 DEF bounded
<1>4. Arrays(keys, times) = HeapsIn(bounded)
  BY DEF Arrays
<1> HIDE DEF bounded, items
<1>5. HeapsIn(bounded) = HeapsIn(Seq(items))
  <2>1. {d \in bounded : KeysOnce(d) /\ Ordered(d)}
          = {d \in Seq(items) : KeysOnce(d) /\ Ordered(d)}
    BY <1>2, <1>3
  <2>2. QED
    BY <2>1 DEF HeapsIn
<1>6. QED
  BY <1>4, <1>5 DEF items

\* The arrays of finitely many keys do too, as the runs have them.
THEOREM CodeArraysCorrect ==
  ASSUME NEW keys, IsFiniteSet(keys), NEW times \in SUBSET Nat
  PROVE  /\ EmptyArray \in Arrays(keys, times)
         /\ CodesHeap!HeapCorrect(Arrays(keys, times),
                                  [key : keys, time : times])
<1> DEFINE items == [key : keys, time : times]
<1>1. Timed(items)
  BY DEF Timed
<1>2. Arrays(keys, times) = HeapsIn(Seq(items))
  BY ArraysAreHeaps
<1> HIDE DEF items
<1>3. /\ EmptyArray \in HeapsIn(Seq(items))
      /\ CodesHeap!HeapCorrect(HeapsIn(Seq(items)), items)
  BY <1>1, CodeHeapCorrect
<1>4. QED
  BY <1>2, <1>3 DEF items
=============================================================================
