------------------------- MODULE DelayingDeliverer -------------------------
(***************************************************************************)
(* The delaying deliverer (pkg/controller/util/delaying_deliverer.go):     *)
(* callers send items through a bounded update channel to the goroutine    *)
(* run, which keeps them in a heap and sends those that are due through a  *)
(* bounded target channel to the goroutine of the handler.                 *)
(*                                                                         *)
(* The heap is a parameter: HeapAssumption says what run relies on, and    *)
(* DelivererHeap gives the code's own.                                     *)
(***************************************************************************)
EXTENDS Naturals, Sequences, FiniteSets

CONSTANTS
  Keys,
  MaxTime,        \* the last instant: it stands for all later ones (a bound)
  Hour,           \* how long run sleeps when nothing is due
  Senders,        \* goroutines that call DeliverAt ...
  Handler,        \* ... of which the handler is one
  UpdateCap,      \* capacity of updateChannel
  TargetCap,      \* capacity of targetChannel
  MaxAsks,        \* how often DeliverAt is called (a bound)
  Heaps, EmptyHeap, DueIn(_), Top(_), Take(_), Put(_, _)

Times  == 0..MaxTime
Instant(t) == IF t <= MaxTime THEN t ELSE MaxTime
Items  == [key : Keys, time : Times]
NoItem == [key |-> {}, time |-> MaxTime + 1]

\* An item for a key that is there replaces it if earlier, and is dropped
\* otherwise.
Merged(due, x) ==
  IF \E y \in due : y.key = x.key
  THEN {IF y.key = x.key /\ x.time < y.time THEN x ELSE y : y \in due}
  ELSE due \cup {x}

\* Each key is in a heap once; Top is an earliest item; Take removes it.
HeapCorrect(heaps, items) ==
  \A h \in heaps :
    /\ DueIn(h) \subseteq items
    /\ \A x, y \in DueIn(h) : x.key = y.key => x = y
    /\ \A x \in items : /\ Put(h, x) \in heaps
                        /\ DueIn(Put(h, x)) = Merged(DueIn(h), x)
    /\ DueIn(h) # {} => /\ Top(h) \in DueIn(h)
                        /\ \A x \in DueIn(h) : Top(h).time <= x.time
                        /\ Take(h) \in heaps
                        /\ DueIn(Take(h)) = DueIn(h) \ {Top(h)}

ASSUME HeapAssumption == /\ EmptyHeap \in Heaps /\ DueIn(EmptyHeap) = {}
                         /\ HeapCorrect(Heaps, Items)

ASSUME BoundsAssumption ==
  /\ MaxTime \in Nat /\ Hour \in Nat \ {0} /\ MaxAsks \in Nat
  /\ UpdateCap \in Nat \ {0} /\ TargetCap \in Nat \ {0}
  /\ Handler \in Senders /\ IsFiniteSet(Senders)

VARIABLES
  clock,
  pending,      \* [s] the item that s is sending to updateChannel, or NoItem
  updates,      \* updateChannel
  heap,
  runAt,        \* where run is
  now, timer,   \* its now, and when time.After fires
  inHand,       \* the item that it is sending to targetChannel, or NoItem
  target,       \* targetChannel
  handed,       \* the item that the handler is busy with, or NoItem
  handlerGone,  \* the handler's goroutine has returned
  stopped,      \* stopChannel is closed
  asks          \* calls of DeliverAt so far

runVars     == <<heap, runAt, now, timer, inHand>>
handlerVars == <<handed, handlerGone>>
vars == <<clock, pending, updates, runVars, target, handlerVars, stopped, asks>>

TypeOK ==
  /\ clock \in Times
  /\ pending \in [Senders -> Items \cup {NoItem}]
  /\ updates \in Seq(Items) /\ Len(updates) <= UpdateCap
  /\ heap \in Heaps
  /\ runAt \in {"top", "deliver", "send", "select", "returned"}
  /\ now \in Times /\ timer \in Times
  /\ inHand \in Items \cup {NoItem}
  /\ target \in Seq(Items) /\ Len(target) <= TargetCap
  /\ handed \in Items \cup {NoItem}
  /\ handlerGone \in BOOLEAN /\ stopped \in BOOLEAN
  /\ asks \in 0..MaxAsks

Init ==
  /\ clock = 0
  /\ pending = [s \in Senders |-> NoItem]
  /\ updates = <<>> /\ target = <<>>
  /\ heap = EmptyHeap
  /\ runAt = "top" /\ now = 0 /\ timer = 0 /\ inHand = NoItem
  /\ handed = NoItem /\ handlerGone = FALSE
  /\ stopped = FALSE
  /\ asks = 0

Tick ==
  /\ clock < MaxTime
  /\ clock' = clock + 1
  /\ UNCHANGED <<pending, updates, runVars, target, handlerVars, stopped,
                 asks>>

-----------------------------------------------------------------------------
(* DeliverAt and DeliverAfter; the handler may call them, too *)

Call(s, x) ==
  /\ asks < MaxAsks
  /\ pending[s] = NoItem /\ (s = Handler => handed # NoItem)
  /\ x.time >= clock
  /\ pending' = [pending EXCEPT ![s] = x]
  /\ asks' = asks + 1
  /\ UNCHANGED <<clock, updates, runVars, target, handlerVars, stopped>>

SendUpdate(s) ==
  /\ pending[s] # NoItem
  /\ Len(updates) < UpdateCap
  /\ updates' = Append(updates, pending[s])
  /\ pending' = [pending EXCEPT ![s] = NoItem]
  /\ UNCHANGED <<clock, runVars, target, handlerVars, stopped, asks>>

-----------------------------------------------------------------------------
(* run *)

StartRound ==
  /\ runAt = "top"
  /\ now' = clock
  /\ runAt' = "deliver"
  /\ UNCHANGED <<clock, pending, updates, heap, timer, inHand, target,
                 handlerVars, stopped, asks>>

\* deliver(now) has an item to send.
IsDueEarly == DueIn(heap) # {} /\ Top(heap).time <= now + 1   \* mutant
IsDue == DueIn(heap) # {} /\ Top(heap).time <= now

PopDue ==
  /\ runAt = "deliver" /\ IsDue
  /\ inHand' = Top(heap) /\ heap' = Take(heap)
  /\ runAt' = "send"
  /\ UNCHANGED <<clock, pending, updates, now, timer, target, handlerVars,
                 stopped, asks>>

SendTargetOrDrop ==   \* mutant: does not wait for the handler
  /\ runAt = "send"
  /\ target' = IF Len(target) < TargetCap THEN Append(target, inHand)
               ELSE target
  /\ inHand' = NoItem
  /\ runAt' = "deliver"
  /\ UNCHANGED <<clock, pending, updates, heap, now, timer, handlerVars,
                 stopped, asks>>
SendTarget ==
  /\ runAt = "send"
  /\ Len(target) < TargetCap
  /\ target' = Append(target, inHand)
  /\ inHand' = NoItem
  /\ runAt' = "deliver"
  /\ UNCHANGED <<clock, pending, updates, heap, now, timer, handlerVars,
                 stopped, asks>>

NextWakeUp == IF DueIn(heap) # {} THEN Top(heap).time ELSE now + Hour

\* The time to sleep counts from now, which lies back by as long as sends
\* to the target channel were blocked.
StartTimer ==
  /\ runAt = "deliver" /\ ~IsDue
  /\ timer' = Instant(clock + (NextWakeUp - now))
  /\ runAt' = "select"
  /\ UNCHANGED <<clock, pending, updates, heap, now, inHand, target,
                 handlerVars, stopped, asks>>

WakeUp ==
  /\ runAt = "select" /\ clock >= timer
  /\ runAt' = "top"
  /\ UNCHANGED <<clock, pending, updates, heap, now, timer, inHand, target,
                 handlerVars, stopped, asks>>

ReceiveUpdate ==
  /\ runAt = "select" /\ updates # <<>>
  /\ heap' = Put(heap, Head(updates))
  /\ updates' = Tail(updates)
  /\ runAt' = "top"
  /\ UNCHANGED <<clock, pending, now, timer, inHand, target, handlerVars,
                 stopped, asks>>

ReturnRunBreak ==   \* mutant: break instead of return
  /\ runAt = "select" /\ stopped
  /\ runAt' = "top"
  /\ UNCHANGED <<clock, pending, updates, heap, now, timer, inHand, target,
                 handlerVars, stopped, asks>>
ReturnRun ==
  /\ runAt = "select" /\ stopped
  /\ runAt' = "returned"
  /\ UNCHANGED <<clock, pending, updates, heap, now, timer, inHand, target,
                 handlerVars, stopped, asks>>

\* Mutant: there is no timer.
RunUntimed == \/ StartRound \/ PopDue \/ SendTarget \/ StartTimer
              \/ ReceiveUpdate \/ ReturnRun
Run == \/ StartRound \/ PopDue \/ SendTarget \/ StartTimer
       \/ WakeUp \/ ReceiveUpdate \/ ReturnRun

-----------------------------------------------------------------------------
(* The goroutine of StartWithHandler *)

Receive ==
  /\ ~handlerGone /\ handed = NoItem /\ target # <<>>
  /\ handed' = Head(target)
  /\ target' = Tail(target)
  /\ UNCHANGED <<clock, pending, updates, runVars, handlerGone, stopped, asks>>

Handled ==
  /\ handed # NoItem /\ pending[Handler] = NoItem
  /\ handed' = NoItem
  /\ UNCHANGED <<clock, pending, updates, runVars, target, handlerGone,
                 stopped, asks>>

ReturnHandler ==
  /\ stopped /\ ~handlerGone /\ handed = NoItem
  /\ handlerGone' = TRUE
  /\ UNCHANGED <<clock, pending, updates, runVars, target, handed, stopped,
                 asks>>

Handling == Receive \/ Handled \/ ReturnHandler

Stop ==
  /\ ~stopped
  /\ stopped' = TRUE
  /\ UNCHANGED <<clock, pending, updates, runVars, target, handlerVars, asks>>

-----------------------------------------------------------------------------

Next == \/ Tick \/ Stop \/ Run \/ Handling
        \/ \E s \in Senders : SendUpdate(s) \/ \E x \in Items : Call(s, x)

Spec == Init /\ [][Next]_vars

\* Time passes, goroutines that can go on do so, handlers return, and select
\* chooses at random among what is ready.
FairSpec == /\ Spec
            /\ WF_vars(Tick) /\ WF_vars(Run) /\ WF_vars(Handling)
            /\ SF_vars(ReceiveUpdate) /\ SF_vars(ReturnRun)
            /\ \A s \in Senders : WF_vars(SendUpdate(s))

-----------------------------------------------------------------------------
(* Properties *)

\* What run has in hand, the target channel holds, and the handler has been
\* given is due.  deliver compares with a time read before it, perhaps long
\* before (delaying_deliverer.go:101-114).
NothingEarly ==
  /\ now <= clock
  /\ \A i \in 1..Len(target) : target[i].time <= clock
  /\ inHand # NoItem => inHand.time <= clock
  /\ handed # NoItem => handed.time <= clock

\* Inductive, and what the refinement rests on.
DelivererInv == /\ TypeOK /\ NothingEarly
                /\ (inHand # NoItem) <=> (runAt = "send")

Count(seq, x) == Cardinality({i \in DOMAIN seq : seq[i] = x})

\* The requests for x that were made and not handed to the handler yet.
Owed(x) == Cardinality({s \in Senders : pending[s] = x})
           + Count(updates, x)
           + (IF x \in DueIn(heap) THEN 1 ELSE 0)
           + (IF inHand = x THEN 1 ELSE 0)
           + Count(target, x)

Promise == INSTANCE DeliveryPromise WITH owed <- [x \in Items |-> Owed(x)]

\* The deliverer keeps its promise: no request is handed over early, twice, or
\* dropped but for an earlier one of its key (delaying_deliverer.go:101-139).
KeepsPromise == Promise!PromiseSpec

\* run waits for the handler, which waits for run: channels of 100 and 1000
\* items are full, and the handler itself calls DeliverAt, as
\* reconcileOnClusterChange does (sync/controller.go:401).
Jammed == /\ runAt = "send" /\ Len(target) = TargetCap
          /\ Len(updates) = UpdateCap /\ pending[Handler] # NoItem

\* Every request is settled, unless the deliverer is stopped or jammed.
DeliversUnlessJammed ==
  \A x \in Items : Owed(x) > 0 ~> (Owed(x) = 0 \/ stopped \/ Jammed)

\* Stop ends run, unless it is sending: run does not look at stopChannel then
\* (delaying_deliverer.go:107), and the handler may have gone or be jammed.
StopsUnlessSending ==
  stopped ~> (runAt = "returned"
                \/ (runAt = "send" /\ Len(target) = TargetCap
                      /\ (handlerGone \/ Jammed)))
=============================================================================
