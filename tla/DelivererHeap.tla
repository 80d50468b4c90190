--------------------------- MODULE DelivererHeap ---------------------------
(***************************************************************************)
(* The heap of the delaying deliverer (delivererHeap in                    *)
(* pkg/controller/util/delaying_deliverer.go), under Go's container/heap:  *)
(* an array of items, and the position of each key in it.  Positions count *)
(* from 1 here.                                                            *)
(***************************************************************************)
EXTENDS Naturals, Sequences, FiniteSets

EmptyArray == [data |-> <<>>, keyPosition |-> <<>>]

Before(h, i, j) == h.data[i].time < h.data[j].time

Swap(h, i, j) ==
  [data        |-> [h.data EXCEPT ![i] = h.data[j], ![j] = h.data[i]],
   keyPosition |-> [h.keyPosition EXCEPT ![h.data[i].key] = j,
                                         ![h.data[j].key] = i]]

Push(h, x) ==
  LET n == Len(h.data) + 1
  IN  [data        |-> Append(h.data, x),
       keyPosition |-> [k \in DOMAIN h.keyPosition \cup {x.key} |->
                          IF k = x.key THEN n ELSE h.keyPosition[k]]]

Pop(h) ==
  LET n == Len(h.data)
      k == h.data[n].key
  IN  [data        |-> SubSeq(h.data, 1, n - 1),
       keyPosition |-> [j \in DOMAIN h.keyPosition \ {k} |-> h.keyPosition[j]]]

\* container/heap: the item at s.at moves one level towards the root, or down
\* to the smaller of its children among the first n, if it has to.
Risen(s) == LET p == s.at \div 2
            IN  IF p > 0 /\ Before(s.heap, s.at, p)
                THEN [heap |-> Swap(s.heap, p, s.at), at |-> p] ELSE s

Sunk(s, n) ==
  LET left  == 2 * s.at
      child == IF left < n /\ Before(s.heap, left + 1, left) THEN left + 1
               ELSE left
  IN  IF left <= n /\ Before(s.heap, child, s.at)
      THEN [heap |-> Swap(s.heap, s.at, child), at |-> child] ELSE s

\* Moves until the item stays: the array is no deeper than it is long.
Up(h, i) ==
  LET s[m \in 0..Len(h.data)] ==
        IF m = 0 THEN [heap |-> h, at |-> i] ELSE Risen(s[m - 1])
  IN  s[Len(h.data)]
Down(h, i, n) ==
  LET s[m \in 0..n] ==
        IF m = 0 THEN [heap |-> h, at |-> i] ELSE Sunk(s[m - 1], n)
  IN  s[n]

Fix(h, i) == LET s == Down(h, i, Len(h.data))
             IN  IF s.at > i THEN s.heap ELSE Up(h, i).heap

HeapPush(h, x) == Up(Push(h, x), Len(h.data) + 1).heap

HeapPop(h) == LET n == Len(h.data)
              IN  Pop(Down(Swap(h, 1, n), 1, n - 1).heap)

-----------------------------------------------------------------------------
(* What run does with the heap *)

Head1(h) == h.data[1]

\* An update arrives.
Update(h, x) ==
  IF x.key \in DOMAIN h.keyPosition
  THEN LET p == h.keyPosition[x.key]
       IN  IF x.time < h.data[p].time THEN Fix([h EXCEPT !.data[p] = x], p)
           ELSE h
  ELSE HeapPush(h, x)

Contents(h) == {h.data[i] : i \in DOMAIN h.data}

\* The arrays that are heaps, with the positions that go with them.
KeysOnce(d)  == \A i, j \in DOMAIN d : d[i].key = d[j].key => i = j
Ordered(d)   == \A i \in DOMAIN d : i > 1 => d[i \div 2].time <= d[i].time
Positions(d) == [k \in {d[i].key : i \in DOMAIN d} |->
                   CHOOSE i \in DOMAIN d : d[i].key = k]

HeapsIn(sequences) ==
  {[data |-> d, keyPosition |-> Positions(d)] :
     d \in {e \in sequences : KeysOnce(e) /\ Ordered(e)}}

\* Those of items with these keys and times.
Arrays(keys, times) ==
  HeapsIn(UNION {[1..n -> [key : keys, time : times]] :
                   n \in 0..Cardinality(keys)})
=============================================================================
