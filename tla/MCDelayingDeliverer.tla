------------------------ MODULE MCDelayingDeliverer ------------------------
(***************************************************************************)
(* The delaying deliverer with the code's own heap.                        *)
(***************************************************************************)
EXTENDS DelayingDeliverer, DelivererHeap

ValidHeaps == Arrays(Keys, Times)

\* The heap is checked with more items than the run has: four keys make it
\* three levels deep.
ASSUME DeeperHeaps ==
  HeapCorrect(Arrays(1..4, 0..2), [key : 1..4, time : 0..2])
=============================================================================
