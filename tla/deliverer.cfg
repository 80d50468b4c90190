CONSTANTS
  Keys = {k1, k2}
  MaxTime = 1
  Hour = 2
  Senders = {caller, handler}
  Handler = handler
  UpdateCap = 1
  TargetCap = 1
  MaxAsks = 5
  Heaps <- ValidHeaps
  EmptyHeap <- EmptyArray
  DueIn <- Contents
  Top <- Head1
  Take <- HeapPop
  Put <- Update
SPECIFICATION FairSpec
INVARIANT DelivererInv
PROPERTY KeepsPromise
PROPERTY DeliversUnlessJammed
PROPERTY StopsUnlessSending
CHECK_DEADLOCK FALSE
