-------------------------- MODULE DeliveryPromise --------------------------
(***************************************************************************)
(* What a delaying deliverer promises its callers                          *)
(* (pkg/controller/util/delaying_deliverer.go): every request is handed to *)
(* the handler once its time has come, or gives way to an earlier request  *)
(* for the same key.                                                       *)
(***************************************************************************)
EXTENDS Naturals

CONSTANTS
  Keys,
  MaxTime    \* the clock stops here (a bound)

VARIABLES
  clock,
  owed,      \* [x] how many requests for the item x are outstanding
  handed     \* the item that the handler is busy with, or NoItem

promiseVars == <<clock, owed, handed>>

Times  == 0..MaxTime
Items  == [key : Keys, time : Times]
NoItem == [key |-> {}, time |-> MaxTime + 1]

PromiseInit ==
  /\ clock = 0
  /\ owed = [x \in Items |-> 0]
  /\ handed = NoItem

Pass == /\ clock < MaxTime
        /\ clock' = clock + 1
        /\ UNCHANGED <<owed, handed>>

More(o, x) == [o EXCEPT ![x] = @ + 1]
Less(o, x) == [o EXCEPT ![x] = @ - 1]

\* A caller asks for x, which is due now or later.
Ask(x) == /\ x.time >= clock
          /\ owed' = More(owed, x)
          /\ UNCHANGED <<clock, handed>>

\* y gives way to another request for its key that is not later.
Coalesce(x, y) ==
  /\ x.key = y.key /\ x.time <= y.time
  /\ owed[x] > 0 /\ owed[y] > 0 /\ (x = y => owed[x] > 1)
  /\ owed' = Less(owed, y)
  /\ UNCHANGED <<clock, handed>>

\* x is handed to the handler, not before its time.
Hand(x) == /\ owed[x] > 0 /\ x.time <= clock
           /\ handed = NoItem
           /\ owed' = Less(owed, x) /\ handed' = x
           /\ UNCHANGED clock

HandlerDone == /\ handed # NoItem
               /\ handed' = NoItem
               /\ UNCHANGED <<clock, owed>>

PromiseNext == \/ Pass \/ HandlerDone
               \/ \E x \in Items : Ask(x) \/ Hand(x)
               \/ \E x, y \in Items : Coalesce(x, y)

PromiseSpec == PromiseInit /\ [][PromiseNext]_promiseVars
=============================================================================
