--------------------------- MODULE PlannerProofs ----------------------------
(***************************************************************************)
(* The planner keeps its limits, for any number of clusters, replicas,     *)
(* weights and limits, and whatever runs already: the proof follows the    *)
(* planning step by step with what is true of the clusters that the loop   *)
(* of the step has still to come to.                                       *)
(***************************************************************************)
EXTENDS PlannerSteps, FiniteSetTheorems, WellFoundedInduction, TLAPS

-----------------------------------------------------------------------------
(* Lemmas about the operators *)

LEMMA OptionalInt ==
  ASSUME NEW L, L \in Optional(Nat) \/ L \in Optional(Int)
  PROVE L \subseteq Int /\ \A m, n \in L : m = n
BY DEF Optional

\* A capped number is at most the number and its limit, and is one of them.
LEMMA CappedInt ==
  ASSUME NEW n \in Int, NEW L, L \in Optional(Nat) \/ L \in Optional(Int)
  PROVE /\ Capped(n, L) \in Int /\ Capped(n, L) <= n
        /\ \A m \in L : Capped(n, L) <= m
        /\ Capped(n, L) = n \/ Capped(n, L) \in L
<1>1. L \subseteq Int /\ \A m, k \in L : m = k
  BY OptionalInt
<1>2. CASE \E m \in L : m < n
  <2>1. PICK m \in L : m < n
    BY <1>2
  <2>2. (CHOOSE k \in L : k < n) = m
    BY <1>1, <2>1
  <2>3. Capped(n, L) = m /\ \A k \in L : k = m
    BY <1>1, <1>2, <2>2 DEF Capped
  <2> QED BY <1>1, <2>1, <2>3
<1>3. CASE ~ \E m \in L : m < n
  BY <1>1, <1>3 DEF Capped
<1> QED BY <1>2, <1>3

\* Some cluster has none before it, since no cluster has more before it than
\* there are.
LEMMA SmallestOf ==
  ASSUME NEW N \in SUBSET Nat, N # {}
  PROVE \E k \in N : \A m \in N : k <= m
<1> DEFINE R == {ss \in Nat \X Nat : ss[1] < ss[2]}
<1>0. IsWellFoundedOn(R, Nat)
  BY NatLessThanWellFounded, Zenon DEF OpToRel
<1>1. PICK k \in N : \A m \in N : <<m, k>> \notin R
  <2> HIDE DEF R
  <2> QED BY <1>0, WFMin
<1>2. ASSUME NEW m \in N, m < k PROVE FALSE
  <2>1. <<m, k>>[1] = m /\ <<m, k>>[2] = k
    OBVIOUS
  <2>2. <<m, k>> \in R
    BY <1>2, <2>1
  <2> QED BY <1>1, <2>2
<1> QED BY <1>1, <1>2

LEMMA FirstIn ==
  ASSUME NEW r \in Request, NEW S \in SUBSET Clusters, S # {}
  PROVE First(r, S) \in S /\ \A d \in S : ~Less(r, d, First(r, S))
<1> DEFINE Before(c) == {d \in S : Less(r, d, c)}
           N == {Cardinality(Before(c)) : c \in S}
<1>0. IsFiniteSet(S)
  BY ClustersAssumption, FS_Subset
<1>1. ASSUME NEW c \in S
      PROVE IsFiniteSet(Before(c)) /\ Cardinality(Before(c)) \in Nat
  BY <1>0, FS_Subset, FS_CardinalityType
<1>2. N \in SUBSET Nat /\ N # {}
  BY <1>1
<1>3. PICK k \in N : \A m \in N : k <= m
  <2> HIDE DEF N
  <2> QED BY <1>2, SmallestOf
<1>4. PICK c \in S : k = Cardinality(Before(c))
  BY <1>3
<1>5. \A d \in S : ~Less(r, d, c)
  <2>1. SUFFICES ASSUME NEW d \in S, Less(r, d, c) PROVE FALSE
    OBVIOUS
  <2>2. Before(d) \subseteq Before(c) /\ d \in Before(c) /\ d \notin Before(d)
    BY <2>1 DEF Less, Request
  <2>3. Cardinality(Before(d)) < Cardinality(Before(c))
    <3> HIDE DEF Before
    <3> QED BY <1>1, <2>2, FS_Subset
  <2>4. Cardinality(Before(c)) <= Cardinality(Before(d))
    BY <1>3, <1>4
  <2> QED BY <1>1, <2>3, <2>4
<1> QED BY <1>5 DEF First

LEMMA ProductNat == ASSUME NEW a \in Nat, NEW b \in Nat PROVE a * b \in Nat
OBVIOUS

LEMMA QuotientNat == ASSUME NEW a \in Nat, NEW b \in Nat, b > 0
                     PROVE (a + b - 1) \div b \in Nat
OBVIOUS

LEMMA ProductPositive ==
  ASSUME NEW a \in Nat, NEW b \in Nat, a > 0, b > 0 PROVE a * b > 0
OBVIOUS

LEMMA QuotientPositive ==
  ASSUME NEW a \in Nat, NEW b \in Nat, a > 0, b > 0
  PROVE (a + b - 1) \div b > 0
OBVIOUS

LEMMA ShareNat ==
  ASSUME NEW r \in Request, NEW p \in Planning, NEW c \in Clusters, p.sum > 0
  PROVE /\ Share(r, p, c) \in Nat
        /\ p.share > 0 /\ r.weight[c] > 0 => Share(r, p, c) > 0
<1>1. p.share \in Nat /\ r.weight[c] \in Nat /\ p.sum \in Nat
  BY DEF Planning, Request
<1>2. p.share * r.weight[c] \in Nat
  BY <1>1, ProductNat
<1>3. p.share > 0 /\ r.weight[c] > 0 => p.share * r.weight[c] > 0
  BY <1>1, ProductPositive
<1> QED BY <1>1, <1>2, <1>3, QuotientNat, QuotientPositive DEF Share

-----------------------------------------------------------------------------
(* Sums over the clusters.  SumFunctionOnSet picks the clusters one by one;  *)
(* what follows holds of the sum whatever it picks first.                    *)

Sum(f) == SumFunctionOnSet(f, Clusters)

AnyOf(s) == CHOOSE x \in s : TRUE
RestOf(s) == s \ {AnyOf(s)}

\* g adds f up as SumFunctionOnSet does.
Adds(f, g, s) == g[s] = IF s = {} THEN 0 ELSE f[AnyOf(s)] + g[RestOf(s)]

\* A set and what is left of it without one element.
LEMMA OneLess ==
  ASSUME NEW s \in SUBSET Clusters, s # {}
  PROVE /\ AnyOf(s) \in s /\ RestOf(s) \in SUBSET Clusters
        /\ Cardinality(s) \in Nat /\ Cardinality(RestOf(s)) = Cardinality(s) - 1
<1>1. IsFiniteSet(s)
  BY ClustersAssumption, FS_Subset
<1>2. AnyOf(s) \in s
  BY DEF AnyOf
<1> QED BY <1>1, <1>2, FS_RemoveElement, FS_CardinalityType DEF RestOf

\* Induction over the subsets of Clusters, for a set of them.
LEMMA AllSubsets ==
  ASSUME NEW G, {} \in G,
         \A s \in SUBSET Clusters : s # {} /\ RestOf(s) \in G => s \in G
  PROVE \A s \in SUBSET Clusters : s \in G
<1> SUFFICES ASSUME NEW s0 \in SUBSET Clusters, s0 \notin G PROVE FALSE
  OBVIOUS
<1> DEFINE Bad == {s \in SUBSET Clusters : s \notin G}
           N   == {Cardinality(s) : s \in Bad}
<1>1. \A s \in Bad : Cardinality(s) \in Nat
  BY OneLess, FS_EmptySet
<1>2. N \in SUBSET Nat /\ N # {}
  BY <1>1
<1>3. PICK k \in N : \A m \in N : k <= m
  <2> HIDE DEF N
  <2> QED BY <1>2, SmallestOf
<1>4. PICK s \in Bad : k = Cardinality(s)
  BY <1>3
<1>5. s # {} /\ RestOf(s) \in Bad
  BY <1>4, OneLess
<1>6. Cardinality(s) <= Cardinality(RestOf(s))
  BY <1>3, <1>4, <1>5
<1> QED BY <1>5, <1>6, OneLess

\* There is a function that adds up all subsets up to a size, and so for any.
LEMMA AddsUpTo ==
  ASSUME NEW f \in [Clusters -> Int], NEW n \in Nat
  PROVE \E g \in [SUBSET Clusters -> Int] :
          \A s \in SUBSET Clusters : Cardinality(s) <= n => Adds(f, g, s)
<1> DEFINE Some(k) == \E g \in [SUBSET Clusters -> Int] :
                        \A s \in SUBSET Clusters : Cardinality(s) <= k => Adds(f, g, s)
           N == {k \in Nat : ~Some(k)}
<1>0. \A s \in SUBSET Clusters : Cardinality(s) \in Nat /\ (Cardinality(s) = 0 <=> s = {})
  BY ClustersAssumption, FS_Subset, FS_CardinalityType, FS_EmptySet
<1>1. Some(0)
  <2> DEFINE g == [s \in SUBSET Clusters |-> 0]
  <2>1. g \in [SUBSET Clusters -> Int]
    OBVIOUS
  <2>2. ASSUME NEW s \in SUBSET Clusters, Cardinality(s) <= 0 PROVE Adds(f, g, s)
    BY <1>0, <2>2 DEF Adds
  <2> HIDE DEF g
  <2> QED BY <2>1, <2>2
<1>2. ASSUME NEW k \in Nat, Some(k) PROVE Some(k + 1)
  <2>1. PICK g \in [SUBSET Clusters -> Int] :
          \A s \in SUBSET Clusters : Cardinality(s) <= k => Adds(f, g, s)
    BY <1>2
  <2> DEFINE h == [s \in SUBSET Clusters |-> IF s = {} THEN 0 ELSE f[AnyOf(s)] + g[RestOf(s)]]
  <2>2. h \in [SUBSET Clusters -> Int]
    <3>1. ASSUME NEW s \in SUBSET Clusters, s # {} PROVE f[AnyOf(s)] + g[RestOf(s)] \in Int
      BY <3>1, OneLess
    <3> QED BY <3>1
  <2>3. ASSUME NEW s \in SUBSET Clusters, Cardinality(s) <= k PROVE h[s] = g[s]
    BY <2>1, <2>3 DEF Adds
  <2>4. ASSUME NEW s \in SUBSET Clusters, Cardinality(s) <= k + 1 PROVE Adds(f, h, s)
    <3>1. CASE s = {}
      BY <3>1 DEF Adds
    <3>2. CASE s # {}
      <4>1. RestOf(s) \in SUBSET Clusters /\ Cardinality(RestOf(s)) <= k
        BY <1>0, <2>4, <3>2, OneLess
      <4>2. h[RestOf(s)] = g[RestOf(s)]
        BY <2>3, <4>1
      <4>3. h[s] = f[AnyOf(s)] + g[RestOf(s)]
        BY <3>2
      <4> QED BY <3>2, <4>2, <4>3 DEF Adds
    <3> QED BY <3>1, <3>2
  <2> HIDE DEF h
  <2> QED BY <2>2, <2>4
<1> HIDE DEF Some
<1>3. ASSUME N # {} PROVE FALSE
  <2>1. PICK k \in N : \A m \in N : k <= m
    <3>1. N \in SUBSET Nat
      OBVIOUS
    <3> HIDE DEF N
    <3> QED BY <1>3, <3>1, SmallestOf
  <2>2. k \in Nat /\ k # 0 /\ ~Some(k)
    BY <1>1
  <2>3. k - 1 \in Nat /\ Some(k - 1)
    BY <2>1, <2>2
  <2> QED BY <1>2, <2>2, <2>3
<1>4. Some(n)
  BY <1>3
<1> QED BY <1>4 DEF Some

\* The recursion inside SumFunctionOnSet has a solution.
LEMMA SumAdds ==
  ASSUME NEW f \in [Clusters -> Int]
  PROVE \E g \in [SUBSET Clusters -> Int] :
          /\ \A s \in SUBSET Clusters : Adds(f, g, s)
          /\ Sum(f) = g[Clusters]
<1> DEFINE R(iter) == iter = [s \in SUBSET Clusters |->
                                IF s = {} THEN 0 ELSE f[AnyOf(s)] + iter[s \ {AnyOf(s)}]]
           g == CHOOSE iter : R(iter)
<1>1. \E iter : R(iter)
  <2>1. \A s \in SUBSET Clusters : Cardinality(s) <= Cardinality(Clusters)
    BY ClustersAssumption, FS_Subset
  <2>2. Cardinality(Clusters) \in Nat
    BY ClustersAssumption, FS_CardinalityType
  <2>3. PICK h \in [SUBSET Clusters -> Int] : \A s \in SUBSET Clusters : Adds(f, h, s)
    BY <2>1, <2>2, AddsUpTo
  <2>4. R(h)
    BY <2>3 DEF Adds, RestOf
  <2> QED BY <2>4
<1>2. R(g)
  BY <1>1
<1>3. Sum(f) = g[Clusters]
  BY Zenon DEF Sum, SumFunctionOnSet, FoldFunctionOnSet, MapThenFoldSet, AnyOf
<1> HIDE DEF g
<1>4. \A s \in SUBSET Clusters : Adds(f, g, s)
  BY <1>2, Zenon DEF Adds, RestOf
<1>5. g \in [SUBSET Clusters -> Int]
  <2>1. DOMAIN g = SUBSET Clusters /\ g = [s \in SUBSET Clusters |-> g[s]]
    BY <1>2
  <2> DEFINE G == {s \in SUBSET Clusters : g[s] \in Int}
  <2>2. {} \in G
    BY <1>4 DEF Adds
  <2>3. ASSUME NEW s \in SUBSET Clusters, s # {}, RestOf(s) \in G PROVE s \in G
    BY <1>4, <2>3, OneLess DEF Adds
  <2>4. \A s \in SUBSET Clusters : s \in G
    <3> HIDE DEF G
    <3> QED BY <2>2, <2>3, AllSubsets
  <2> QED BY <2>1, <2>4
<1> QED BY <1>3, <1>4, <1>5

LEMMA SumInt == ASSUME NEW f \in [Clusters -> Int] PROVE Sum(f) \in Int
BY SumAdds

LEMMA SumOfZeros ==
  ASSUME NEW f \in [Clusters -> Int], \A c \in Clusters : f[c] = 0
  PROVE Sum(f) = 0
<1>1. PICK g \in [SUBSET Clusters -> Int] :
        /\ \A s \in SUBSET Clusters : Adds(f, g, s)
        /\ Sum(f) = g[Clusters]
  BY SumAdds
<1> DEFINE G == {s \in SUBSET Clusters : g[s] = 0}
<1>2. {} \in G
  BY <1>1 DEF Adds
<1>3. ASSUME NEW s \in SUBSET Clusters, s # {}, RestOf(s) \in G PROVE s \in G
  <2>1. g[s] = f[AnyOf(s)] + g[RestOf(s)]
    BY <1>1, <1>3 DEF Adds
  <2> QED BY <1>3, <2>1, OneLess
<1>4. \A s \in SUBSET Clusters : s \in G
  <2> HIDE DEF G
  <2> QED BY <1>2, <1>3, AllSubsets
<1> QED BY <1>1, <1>4

\* A function that is nowhere below another has a sum that is larger by the
\* difference at any one place at least.
LEMMA SumGrows ==
  ASSUME NEW f \in [Clusters -> Int], NEW h \in [Clusters -> Int],
         \A c \in Clusters : f[c] <= h[c]
  PROVE /\ Sum(f) <= Sum(h)
        /\ \A d \in Clusters : Sum(h) - Sum(f) >= h[d] - f[d]
<1>1. PICK g \in [SUBSET Clusters -> Int] :
        /\ \A s \in SUBSET Clusters : Adds(f, g, s)
        /\ Sum(f) = g[Clusters]
  BY SumAdds
<1>2. PICK k \in [SUBSET Clusters -> Int] :
        /\ \A s \in SUBSET Clusters : Adds(h, k, s)
        /\ Sum(h) = k[Clusters]
  BY SumAdds
<1> DEFINE More(s, d) == k[s] - g[s] >= h[d] - f[d]
           G == {s \in SUBSET Clusters : k[s] >= g[s] /\ \A d \in s : More(s, d)}
<1>3. {} \in G
  <2>1. g[{}] = 0 /\ k[{}] = 0
    BY <1>1, <1>2 DEF Adds
  <2> QED BY <2>1
<1>4. ASSUME NEW s \in SUBSET Clusters, s # {}, RestOf(s) \in G PROVE s \in G
  <2>1. /\ g[s] = f[AnyOf(s)] + g[RestOf(s)]
        /\ k[s] = h[AnyOf(s)] + k[RestOf(s)]
    BY <1>1, <1>2, <1>4 DEF Adds
  <2>2. /\ AnyOf(s) \in Clusters /\ RestOf(s) \in SUBSET Clusters
        /\ \A d \in s : d = AnyOf(s) \/ d \in RestOf(s)
    BY <1>4, OneLess DEF RestOf
  <2>3. /\ f[AnyOf(s)] \in Int /\ h[AnyOf(s)] \in Int
        /\ g[RestOf(s)] \in Int /\ k[RestOf(s)] \in Int
        /\ f[AnyOf(s)] <= h[AnyOf(s)]
    BY <2>2
  <2>4. k[RestOf(s)] >= g[RestOf(s)] /\ \A d \in RestOf(s) : More(RestOf(s), d)
    BY <1>4
  <2>5. k[s] >= g[s]
    BY <2>1, <2>3, <2>4
  <2>6. ASSUME NEW d \in s PROVE More(s, d)
    <3>1. f[d] \in Int /\ h[d] \in Int
      OBVIOUS
    <3>2. CASE d = AnyOf(s)
      BY <2>1, <2>3, <2>4, <3>1, <3>2
    <3>3. CASE d \in RestOf(s)
      BY <2>1, <2>3, <2>4, <3>1, <3>3
    <3> QED BY <2>2, <3>2, <3>3
  <2> QED BY <2>5, <2>6
<1>5. \A s \in SUBSET Clusters : s \in G
  <2> HIDE DEF G
  <2> QED BY <1>3, <1>4, AllSubsets
<1>6. Clusters \in G
  BY <1>5
<1> QED BY <1>1, <1>2, <1>6

LEMMA SumNat == ASSUME NEW f \in [Clusters -> Nat] PROVE Sum(f) \in Nat
<1> DEFINE zeros == [c \in Clusters |-> 0]
<1>1. zeros \in [Clusters -> Int] /\ f \in [Clusters -> Int]
  OBVIOUS
<1>2. \A c \in Clusters : zeros[c] = 0 /\ zeros[c] <= f[c]
  OBVIOUS
<1> HIDE DEF zeros
<1>3. Sum(zeros) = 0 /\ Sum(zeros) <= Sum(f) /\ Sum(f) \in Int
  BY <1>1, <1>2, SumOfZeros, SumGrows, SumInt
<1> QED BY <1>3

\* One place that changes changes the sum by as much.
LEMMA SumUpdated ==
  ASSUME NEW f \in [Clusters -> Int], NEW d \in Clusters, NEW v \in Int
  PROVE Sum([f EXCEPT ![d] = v]) = Sum(f) + v - f[d]
<1> DEFINE h == [f EXCEPT ![d] = v]
<1>h. /\ h \in [Clusters -> Int] /\ h[d] = v
      /\ \A c \in Clusters : c # d => h[c] = f[c]
  OBVIOUS
<1> HIDE DEF h
<1>1. PICK g \in [SUBSET Clusters -> Int] :
        /\ \A s \in SUBSET Clusters : Adds(f, g, s)
        /\ Sum(f) = g[Clusters]
  BY SumAdds
<1>2. PICK k \in [SUBSET Clusters -> Int] :
        /\ \A s \in SUBSET Clusters : Adds(h, k, s)
        /\ Sum(h) = k[Clusters]
  BY <1>h, SumAdds
<1> DEFINE G == {s \in SUBSET Clusters :
                   k[s] = IF d \in s THEN g[s] + v - f[d] ELSE g[s]}
<1>3. {} \in G
  <2>1. g[{}] = 0 /\ k[{}] = 0
    BY <1>1, <1>2 DEF Adds
  <2> QED BY <2>1
<1>4. ASSUME NEW s \in SUBSET Clusters, s # {}, RestOf(s) \in G PROVE s \in G
  <2>1. /\ g[s] = f[AnyOf(s)] + g[RestOf(s)]
        /\ k[s] = h[AnyOf(s)] + k[RestOf(s)]
    BY <1>1, <1>2, <1>4 DEF Adds
  <2>2. /\ AnyOf(s) \in Clusters /\ RestOf(s) \in SUBSET Clusters
        /\ d \in s <=> d = AnyOf(s) \/ d \in RestOf(s)
        /\ AnyOf(s) \notin RestOf(s)
    BY <1>4, OneLess DEF RestOf
  <2>3. /\ f[AnyOf(s)] \in Int /\ h[AnyOf(s)] \in Int /\ f[d] \in Int
        /\ g[RestOf(s)] \in Int /\ k[RestOf(s)] \in Int
    BY <1>h, <2>2
  <2>4. k[RestOf(s)] = IF d \in RestOf(s) THEN g[RestOf(s)] + v - f[d] ELSE g[RestOf(s)]
    BY <1>4
  <2>5. CASE d = AnyOf(s)
    BY <1>h, <2>1, <2>2, <2>3, <2>4, <2>5
  <2>6. CASE d # AnyOf(s)
    <3>1. h[AnyOf(s)] = f[AnyOf(s)]
      BY <1>h, <2>2, <2>6
    <3> QED BY <2>1, <2>2, <2>3, <2>4, <2>6, <3>1
  <2> QED BY <2>5, <2>6
<1>5. \A s \in SUBSET Clusters : s \in G
  <2> HIDE DEF G
  <2> QED BY <1>3, <1>4, AllSubsets
<1> QED BY <1>1, <1>2, <1>5 DEF h

-----------------------------------------------------------------------------
(* What the steps do, without their helpers *)

LEMMA MinimumEffect ==
  ASSUME NEW r \in Request, NEW p \in Planning, NEW c \in Clusters
  PROVE LET n == Minimum(r, p, c) IN
        /\ n \in Int /\ n <= p.remaining /\ n <= r.min[c]
        /\ \A m \in r.capacity[c] : n <= m
        /\ n >= 0 \/ n \in r.capacity[c]
<1>1. r.min[c] \in Nat /\ p.remaining \in Nat /\ r.capacity[c] \in Optional(Int)
  BY DEF Request, Planning
<1>2. /\ MinOf(r.min[c], p.remaining) \in Nat
      /\ MinOf(r.min[c], p.remaining) <= r.min[c]
      /\ MinOf(r.min[c], p.remaining) <= p.remaining
  BY <1>1 DEF MinOf
<1> QED BY <1>1, <1>2, CappedInt DEF Minimum

\* What stays does not go beyond the limits, if the plan does not.
LEMMA StayingEffect ==
  ASSUME NEW r \in Request, NEW p \in Planning, NEW c \in Clusters, NEW k \in Nat
  PROVE LET n == Staying(r, p, c, k) IN
        /\ n \in Nat /\ n <= p.remaining
        /\ \A m \in r.max[c] \cup r.capacity[c] : n = 0 \/ p.plan[c] + n <= m
<1> DEFINE some == Capped(k, r.max[c])
           fit  == Capped(some, r.capacity[c])
<1>1. /\ r.max[c] \in Optional(Nat) /\ r.capacity[c] \in Optional(Int)
      /\ p.plan[c] \in Int /\ p.remaining \in Nat
  BY DEF Request, Planning
<1>2. some \in Int /\ \A m \in r.max[c] : some <= m
  BY <1>1, CappedInt
<1>3. fit \in Int /\ fit <= some /\ \A m \in r.capacity[c] : fit <= m
  <2> HIDE DEF some
  <2> QED BY <1>1, <1>2, CappedInt
<1>4. r.max[c] \subseteq Int /\ r.capacity[c] \subseteq Int
  BY <1>1, OptionalInt
<1>5. \A m \in r.max[c] \cup r.capacity[c] : fit <= m
  <2> HIDE DEF some, fit
  <2> QED BY <1>2, <1>3, <1>4
<1> HIDE DEF fit
<1>6. /\ MinOf(fit - p.plan[c], p.remaining) \in Int
      /\ MinOf(fit - p.plan[c], p.remaining) <= fit - p.plan[c]
      /\ MinOf(fit - p.plan[c], p.remaining) <= p.remaining
  BY <1>1, <1>3 DEF MinOf
<1>7. Staying(r, p, c, k) = IF MinOf(fit - p.plan[c], p.remaining) < 0 THEN 0
                            ELSE MinOf(fit - p.plan[c], p.remaining)
  BY DEF Staying, fit
<1> QED BY <1>1, <1>3, <1>4, <1>5, <1>6, <1>7

\* due replicas for c, used of them preallocated: asked is what it should have,
\* n what it gets.
Given(p, c, used, asked, n, over) ==
  [p EXCEPT !.todo = p.todo \ {c},
            !.plan = [p.plan EXCEPT ![c] = n],
            !.overflow = [p.overflow EXCEPT ![c] = over],
            !.preallocated = [p.preallocated EXCEPT ![c] = p.preallocated[c] - used],
            !.remaining = p.remaining - (n - p.plan[c]),
            !.kept = IF n = asked THEN p.kept \cup {c} ELSE p.kept,
            !.modified = p.modified \/ used > 0 \/ n > p.plan[c]]

GiveTo(r, p, q, c, used, asked, n) ==
  /\ used <= p.preallocated[c]
  /\ p.plan[c] <= asked /\ n <= asked
  /\ n - p.plan[c] <= p.remaining
  /\ \A m \in r.max[c] \cup r.capacity[c] : n <= m
  /\ n = asked \/ n \in r.max[c] \cup r.capacity[c]
  /\ r.weight[c] > 0 /\ p.share > 0 /\ p.remaining > 0
       => used > 0 \/ asked > p.plan[c]
  /\ \E over \in Nat :
       /\ \/ over = p.overflow[c]
          \/ n # asked /\ \A m \in r.max[c] : n + over <= m
       /\ q = Given(p, c, used, asked, n, over)

LEMMA GiveEffect ==
  ASSUME NEW r \in Request, NEW p \in Planning, p.todo # {}, p.sum > 0
  PROVE \E c \in p.todo, used \in Nat, asked \in Int, n \in Int :
          GiveTo(r, p, Give(r, p), c, used, asked, n)
<1> DEFINE c     == First(r, p.todo)
           due   == MinOf(Share(r, p, c), p.remaining)
           used  == MinOf(due, p.preallocated[c])
           asked == p.plan[c] + due - used
           most  == Capped(asked, r.max[c])
           n     == Capped(most, r.capacity[c])
           over  == IF n < most THEN most - n ELSE p.overflow[c]
<1>1. c \in p.todo /\ c \in Clusters
  BY FirstIn DEF Planning
<1> HIDE DEF c
<1>2. /\ r.max[c] \in Optional(Nat) /\ r.capacity[c] \in Optional(Int)
      /\ p.plan[c] \in Int /\ p.remaining \in Nat /\ p.preallocated[c] \in Nat
      /\ p.overflow[c] \in Nat
  BY <1>1 DEF Request, Planning
<1>3. r.max[c] \subseteq Int /\ r.capacity[c] \subseteq Int /\ \A m, k \in r.max[c] : m = k
  BY <1>2, OptionalInt
<1>4. due \in Nat /\ due <= p.remaining
  <2>1. Share(r, p, c) \in Nat
    BY <1>1, ShareNat
  <2> QED BY <1>2, <2>1 DEF MinOf
<1>d. r.weight[c] > 0 /\ p.share > 0 /\ p.remaining > 0 => due > 0
  <2>1. Share(r, p, c) \in Nat /\ (p.share > 0 /\ r.weight[c] > 0 => Share(r, p, c) > 0)
    BY <1>1, ShareNat
  <2> QED BY <1>2, <2>1 DEF MinOf
<1> HIDE DEF due
<1>5. used \in Nat /\ used <= due /\ used <= p.preallocated[c]
  BY <1>2, <1>4 DEF MinOf
<1> HIDE DEF used
<1>6. /\ asked \in Int /\ p.plan[c] <= asked /\ asked - p.plan[c] <= p.remaining
      /\ due > 0 => used > 0 \/ asked > p.plan[c]
  BY <1>2, <1>4, <1>5
<1> HIDE DEF asked
<1>7. /\ most \in Int /\ most <= asked /\ \A m \in r.max[c] : most <= m
      /\ most = asked \/ most \in r.max[c]
  BY <1>2, <1>6, CappedInt
<1> HIDE DEF most
<1>8. /\ n \in Int /\ n <= most /\ \A m \in r.capacity[c] : n <= m
      /\ n = most \/ n \in r.capacity[c]
  BY <1>2, <1>7, CappedInt
<1> HIDE DEF n
<1>9. /\ over \in Nat
      /\ \/ over = p.overflow[c]
         \/ n # asked /\ \A m \in r.max[c] : n + over <= m
  BY <1>2, <1>3, <1>6, <1>7, <1>8
<1> HIDE DEF over
<1>10. Give(r, p) = Given(p, c, used, asked, n, over)
  <2>1. [p.overflow EXCEPT ![c] = over]
          = [p.overflow EXCEPT ![c] = IF n < most THEN most - n ELSE p.overflow[c]]
    BY DEF over
  <2> QED BY <2>1 DEF Give, Given, c, due, used, asked, most, n
<1>11. \A m \in r.max[c] \cup r.capacity[c] : n <= m
  BY <1>3, <1>7, <1>8
<1>12. /\ n <= asked /\ n - p.plan[c] <= p.remaining
       /\ n = asked \/ n \in r.max[c] \cup r.capacity[c]
  BY <1>2, <1>6, <1>7, <1>8
<1>13. GiveTo(r, p, Give(r, p), c, used, asked, n)
  BY <1>5, <1>6, <1>8, <1>9, <1>10, <1>11, <1>12, <1>d DEF GiveTo
<1> QED BY <1>1, <1>5, <1>6, <1>8, <1>13

-----------------------------------------------------------------------------
(* Types *)

LEMMA StartTyped == ASSUME NEW r \in Request PROVE StartPlanning(r) \in Planning
BY DEF StartPlanning, Planning, Request

LEMMA GiveTyped ==
  ASSUME NEW r \in Request, NEW p \in Planning, p.step = "give", p.todo # {}, p.sum > 0
  PROVE Give(r, p) \in Planning
<1>1. PICK c \in p.todo, used \in Nat, asked \in Int, n \in Int :
        GiveTo(r, p, Give(r, p), c, used, asked, n)
  BY GiveEffect
<1>2. PICK over \in Nat : Give(r, p) = Given(p, c, used, asked, n, over)
  BY <1>1 DEF GiveTo
<1>3. /\ c \in Clusters /\ n \in Int /\ p.plan \in [Clusters -> Int]
      /\ p.overflow \in [Clusters -> Nat] /\ p.preallocated \in [Clusters -> Nat]
      /\ p.preallocated[c] - used \in Nat /\ p.remaining - (n - p.plan[c]) \in Nat
  BY <1>1 DEF Planning, GiveTo
<1>4. /\ [p.plan EXCEPT ![c] = n] \in [Clusters -> Int]
      /\ [p.overflow EXCEPT ![c] = over] \in [Clusters -> Nat]
      /\ [p.preallocated EXCEPT ![c] = p.preallocated[c] - used] \in [Clusters -> Nat]
  BY <1>3
<1>5. (p.modified \/ used > 0 \/ n > p.plan[c]) \in BOOLEAN
  BY <1>1, <1>3 DEF GiveTo, Planning
<1>6. /\ p.todo \ {c} \in SUBSET Clusters
      /\ (IF n = asked THEN p.kept \cup {c} ELSE p.kept) \in SUBSET Clusters
  BY <1>3 DEF Planning
<1>7. Give(r, p) \in Planning /\ Give(r, p).sum = p.sum
  <2> DEFINE todo == p.todo \ {c}
             kept == IF n = asked THEN p.kept \cup {c} ELSE p.kept
             plan == [p.plan EXCEPT ![c] = n]
             overflow == [p.overflow EXCEPT ![c] = over]
             preallocated == [p.preallocated EXCEPT ![c] = p.preallocated[c] - used]
             remaining == p.remaining - (n - p.plan[c])
             modified == p.modified \/ used > 0 \/ n > p.plan[c]
  <2>1. /\ todo \in SUBSET Clusters /\ kept \in SUBSET Clusters
        /\ plan \in [Clusters -> Int] /\ overflow \in [Clusters -> Nat]
        /\ preallocated \in [Clusters -> Nat] /\ remaining \in Nat
        /\ modified \in BOOLEAN
    BY <1>3, <1>4, <1>5, <1>6
  <2>2. Give(r, p) = [p EXCEPT !.todo = todo, !.plan = plan, !.overflow = overflow,
                              !.preallocated = preallocated, !.remaining = remaining,
                              !.kept = kept, !.modified = modified]
    BY <1>2 DEF Given
  <2> HIDE DEF todo, kept, plan, overflow, preallocated, remaining, modified
  <2> QED BY <2>1, <2>2 DEF Planning
<1> QED BY <1>7

LEMMA MinimumTyped ==
  ASSUME NEW r \in Request, NEW p \in Planning, p.step = "minimum", p.todo # {}
  PROVE AssignMinimum(r, p) \in Planning
<1> DEFINE c == First(r, p.todo)
           n == Minimum(r, p, c)
<1>1. c \in p.todo /\ c \in Clusters
  BY FirstIn DEF Planning
<1>2. n \in Int /\ p.remaining - n \in Nat
  BY <1>1, MinimumEffect DEF Planning
<1>3. [p.plan EXCEPT ![c] = n] \in [Clusters -> Int]
  BY <1>1, <1>2 DEF Planning
<1>4. AssignMinimum(r, p) = [p EXCEPT !.todo = @ \ {c}, !.plan = [@ EXCEPT ![c] = n],
                                      !.remaining = @ - n]
  BY DEF AssignMinimum
<1> HIDE DEF c, n
<1> QED BY <1>2, <1>3, <1>4 DEF Planning

LEMMA KeepTyped ==
  ASSUME NEW r \in Request, NEW p \in Planning, p.step = "keep", p.todo # {}
  PROVE KeepRunning(r, p) \in Planning
<1> DEFINE c == First(r, p.todo)
           k == CHOOSE n \in r.current[c] : TRUE
           q == [p EXCEPT !.todo = @ \ {c}]
<1>1. c \in p.todo /\ c \in Clusters
  BY FirstIn DEF Planning
<1>2. q \in Planning /\ q.step = "keep"
  BY DEF Planning
<1>3. CASE MoreRun(r, p, c)
  <2>1. k \in Nat
    BY <1>1, <1>3 DEF MoreRun, Request, Optional
  <2> DEFINE n == Staying(r, p, c, k)
  <2>2. n \in Nat /\ p.remaining - n \in Nat
    BY <1>1, <2>1, StayingEffect DEF Planning
  <2>3. KeepRunning(r, p) = Keep(q, c, n)
    BY <1>3 DEF KeepRunning
  <2> HIDE DEF n, q, c
  <2>4. q.remaining = p.remaining
    BY DEF q
  <2>5. Keep(q, c, n) = [q EXCEPT !.plan = [@ EXCEPT ![c] = q.plan[c] + n],
                                  !.preallocated = [@ EXCEPT ![c] = n],
                                  !.remaining = @ - n]
    BY DEF Keep
  <2>6. /\ [q.plan EXCEPT ![c] = q.plan[c] + n] \in [Clusters -> Int]
        /\ [q.preallocated EXCEPT ![c] = n] \in [Clusters -> Nat]
    BY <1>1, <1>2, <2>2 DEF Planning
  <2>7. Keep(q, c, n) \in Planning /\ Keep(q, c, n).step = "keep"
    <3> DEFINE plan == [q.plan EXCEPT ![c] = q.plan[c] + n]
               preallocated == [q.preallocated EXCEPT ![c] = n]
               remaining == q.remaining - n
    <3>1. /\ plan \in [Clusters -> Int] /\ preallocated \in [Clusters -> Nat]
          /\ remaining \in Nat
      BY <2>2, <2>4, <2>6
    <3>2. Keep(q, c, n) = [q EXCEPT !.plan = plan, !.preallocated = preallocated,
                                    !.remaining = remaining]
      BY <2>5, Zenon
    <3> HIDE DEF k, plan, preallocated, remaining
    <3> QED BY <1>2, <3>1, <3>2 DEF Planning
  <2> QED BY <2>3, <2>7
<1>4. CASE ~MoreRun(r, p, c)
  BY <1>2, <1>4 DEF KeepRunning
<1> QED BY <1>3, <1>4

LEMMA FinishTyped ==
  ASSUME NEW r \in Request, NEW p \in Planning PROVE Finish(r, p) \in Planning
<1>1. [c \in Clusters |-> MinOf(p.overflow[c], p.remaining)] \in [Clusters -> Nat]
  BY DEF MinOf, Planning
<1> QED BY <1>1 DEF Planning, Finish

\* The two things a trial does after weighing.
Giving(p)    == p.step = "give" /\ p.todo # {} /\ p.sum > 0
TrialOver(p) == p.step = "give" /\ (p.todo = {} \/ p.sum = 0)

\* What the cases of a step distinguish.
LEMMA StepCases ==
  ASSUME NEW p \in Planning
  PROVE /\ p.step \in {"minimum", "keep", "trial", "weigh", "give", "done"}
        /\ p.step = "give" => Giving(p) \/ TrialOver(p)
BY DEF Planning, Giving, TrialOver

LEMMA Gives ==
  ASSUME NEW r \in Request, NEW p \in Planning, Giving(p)
  PROVE PlanStep(r, p) = Give(r, p) /\ p.step = "give" /\ p.todo # {} /\ p.sum > 0
BY DEF Giving, PlanStep

LEMMA EndsTrial ==
  ASSUME NEW r \in Request, NEW p \in Planning, TrialOver(p)
  PROVE /\ p.step = "give" /\ PlanStep(r, p) = EndTrial(p)
        /\ EndTrial(p) \in Planning
        /\ EndTrial(p).step = "trial" /\ EndTrial(p).active = p.kept
        /\ EndTrial(p).plan = p.plan /\ EndTrial(p).overflow = p.overflow
        /\ EndTrial(p).preallocated = p.preallocated
        /\ EndTrial(p).remaining = p.remaining
        /\ EndTrial(p).modified = p.modified
<1>1. p.step = "give" /\ PlanStep(r, p) = EndTrial(p)
  <2>1. CASE p.todo = {}
    BY <2>1 DEF PlanStep, TrialOver
  <2>2. CASE p.todo # {} /\ p.sum = 0
    BY <2>2 DEF PlanStep, TrialOver
  <2> QED BY <2>1, <2>2 DEF TrialOver
<1>2. EndTrial(p) \in Planning
  BY DEF EndTrial, Planning
<1>3. EndTrial(p).modified = p.modified
  BY Zenon DEF EndTrial, Planning
<1>4. /\ EndTrial(p).step = "trial" /\ EndTrial(p).active = p.kept
      /\ EndTrial(p).plan = p.plan /\ EndTrial(p).overflow = p.overflow
      /\ EndTrial(p).preallocated = p.preallocated
      /\ EndTrial(p).remaining = p.remaining
  BY DEF EndTrial, Planning
<1> QED BY <1>1, <1>2, <1>3, <1>4

\* Between the loops nothing is handed out.
LEMMA NothingGiven ==
  ASSUME NEW r \in Request, NEW p \in Planning,
         \/ p.step \in {"minimum", "keep"} /\ p.todo = {}
         \/ TrialOver(p)
         \/ p.step \in {"trial", "weigh"}
  PROVE LET q == PlanStep(r, p) IN
        /\ q.plan = p.plan /\ q.remaining = p.remaining
        /\ q.preallocated = p.preallocated
        /\ q.step # "minimum"
<1>1. CASE p.step \in {"minimum", "keep"} /\ p.todo = {}
  BY <1>1 DEF PlanStep, Goto, Planning
<1>2. CASE TrialOver(p)
  BY <1>2, EndsTrial
<1>3. CASE p.step = "trial"
  BY <1>3 DEF PlanStep, Finish, StartTrial, Planning
<1>4. CASE p.step = "weigh"
  BY <1>4 DEF PlanStep, Goto, Weigh, Planning
<1> QED BY <1>1, <1>2, <1>3, <1>4

\* The loops come one after the other.
LEMMA StepsOn ==
  ASSUME NEW r \in Request, NEW p \in Planning, p.step # "done"
  PROVE /\ PlanStep(r, p).step = "minimum" => p.step = "minimum" /\ p.todo # {}
        /\ PlanStep(r, p).step = "keep" => p.step \in {"minimum", "keep"}
<1>1. CASE p.step \in {"minimum", "keep"} /\ p.todo = {}
  BY <1>1 DEF PlanStep, Goto, Planning
<1>2. CASE p.step = "minimum" /\ p.todo # {}
  BY <1>2 DEF PlanStep, AssignMinimum, Planning
<1>3. CASE p.step = "keep" /\ p.todo # {}
  BY <1>3 DEF PlanStep, KeepRunning, Keep, Planning
<1>4. CASE Giving(p)
  <2>1. Give(r, p).step = p.step
    BY DEF Give, Planning
  <2> QED BY <1>4, <2>1, Gives
<1>5. CASE TrialOver(p)
  BY <1>5, EndsTrial
<1>6. CASE p.step = "trial"
  BY <1>6 DEF PlanStep, Finish, StartTrial, Planning
<1>7. CASE p.step = "weigh"
  BY <1>7 DEF PlanStep, Goto, Weigh, Planning
<1> QED BY StepCases, <1>1, <1>2, <1>3, <1>4, <1>5, <1>6, <1>7

LEMMA StepTyped ==
  ASSUME NEW r \in Request, NEW p \in Planning, p.step # "done"
  PROVE PlanStep(r, p) \in Planning
<1>1. CASE p.step = "minimum"
  BY <1>1, MinimumTyped DEF PlanStep, Goto, Planning, Request
<1>2. CASE p.step = "keep"
  BY <1>2, KeepTyped DEF PlanStep, Goto, Planning
<1>3. CASE p.step = "trial"
  BY <1>3, FinishTyped DEF PlanStep, StartTrial, Planning
<1>4. CASE p.step = "weigh"
  <2>1. CASE p.todo # {}
    <3>1. First(r, p.todo) \in Clusters
      BY <2>1, FirstIn DEF Planning
    <3>2. p.sum + r.weight[First(r, p.todo)] \in Nat
      BY <3>1 DEF Planning, Request
    <3>3. PlanStep(r, p) = Weigh(r, p)
      BY <1>4, <2>1 DEF PlanStep
    <3> QED BY <1>4, <3>2, <3>3 DEF Weigh, Planning
  <2>2. CASE p.todo = {}
    BY <1>4, <2>2 DEF PlanStep, Goto, Planning
  <2> QED BY <2>1, <2>2
<1>5. CASE Giving(p)
  BY <1>5, Gives, GiveTyped
<1>6. CASE TrialOver(p)
  BY <1>6, EndsTrial
<1> QED BY StepCases, <1>1, <1>2, <1>3, <1>4, <1>5, <1>6

\* Every part of the planning keeps its type: no cluster is planned a number of
\* replicas that overflow, and what is left is never below zero, even for
\* capacities below zero and maxima below the minimum (planner.go:67-231).
THEOREM PlannerTypeCorrect == Spec => []TypeOK
<1> DEFINE Inv == request \in Request /\ planning \in Planning /\ trials \in Nat
<1>1. Init => Inv
  BY RequestsAssumption, StartTyped DEF Init
<1>2. Inv /\ [Next]_vars => Inv'
  BY StepTyped, MaxTrialsAssumption DEF Next, Step, vars, MinOf
<1>3. Inv => TypeOK
  BY DEF TypeOK
<1> QED BY <1>1, <1>2, <1>3, PTL DEF Spec

-----------------------------------------------------------------------------
(* Limits *)

SaneRequest(r) ==
  \A c \in Clusters : /\ \A n \in r.capacity[c] : n >= 0
                      /\ \A n \in r.max[c] : n >= r.min[c]

WithinFor(r, p, c) ==
  /\ p.plan[c] >= 0 /\ p.overflow[c] >= 0
  /\ p.preallocated[c] \in 0 .. p.plan[c]
  /\ \A n \in r.capacity[c] : p.plan[c] <= n
  /\ \A n \in r.max[c] : p.plan[c] + p.overflow[c] <= n

\* Minimums are assigned once; what has overflowed is full and gets no more.
Untouched(p) ==
  /\ p.step = "minimum" => \A c \in Clusters : p.preallocated[c] = 0
  /\ p.step = "minimum" => \A c \in p.todo : p.plan[c] = 0
  /\ p.step \in {"minimum", "keep"} => \A c \in Clusters : p.overflow[c] = 0
  /\ p.step \in {"trial", "weigh"} => \A c \in p.active : p.overflow[c] = 0
  /\ p.step = "weigh" => p.kept = {}
  /\ p.step = "give" => \A c \in p.todo \cup p.kept : p.overflow[c] = 0
  /\ p.step = "give" => p.todo \cap p.kept = {}

Limited(r, p) == /\ p.remaining <= r.total
                 /\ \A c \in Clusters : WithinFor(r, p, c)
                 /\ Untouched(p)

LEMMA StartLimited ==
  ASSUME NEW r \in Request, SaneRequest(r) PROVE Limited(r, StartPlanning(r))
<1>1. ASSUME NEW c \in Clusters PROVE \A n \in r.max[c] : n >= 0
  BY DEF SaneRequest, Request, Optional
<1>2. ASSUME NEW c \in Clusters PROVE WithinFor(r, StartPlanning(r), c)
  BY <1>1 DEF SaneRequest, StartPlanning, WithinFor, Request, Optional
<1>3. StartPlanning(r).remaining = r.total /\ r.total \in Nat
  BY DEF StartPlanning, Request
<1>4. Untouched(StartPlanning(r))
  BY DEF StartPlanning, Untouched, Request
<1> QED BY <1>2, <1>3, <1>4 DEF Limited

LEMMA MinimumLimited ==
  ASSUME NEW r \in Request, SaneRequest(r), NEW p \in Planning, Limited(r, p),
         p.step = "minimum", p.todo # {}
  PROVE Limited(r, AssignMinimum(r, p))
<1> DEFINE c == First(r, p.todo)
           n == Minimum(r, p, c)
           q == AssignMinimum(r, p)
<1>1. c \in p.todo /\ c \in Clusters
  BY FirstIn DEF Planning
<1>2. /\ n \in Int /\ n <= p.remaining /\ n <= r.min[c]
      /\ \A m \in r.capacity[c] : n <= m
      /\ n >= 0 \/ n \in r.capacity[c]
  BY <1>1, MinimumEffect
<1>3. /\ q.todo = p.todo \ {c} /\ q.remaining = p.remaining - n
      /\ q.plan = [p.plan EXCEPT ![c] = n] /\ q.overflow = p.overflow
      /\ q.preallocated = p.preallocated /\ q.step = p.step
  BY DEF AssignMinimum, Planning
<1> HIDE DEF c, n, q
<1>4. n >= 0
  BY <1>1, <1>2 DEF SaneRequest
<1>5. q.remaining <= r.total
  BY <1>2, <1>3, <1>4 DEF Limited, Planning, Request
<1>6. /\ p.plan \in [Clusters -> Int] /\ r.max[c] \subseteq Nat /\ r.min[c] \in Nat
  BY <1>1 DEF Planning, Request, Optional
<1>7. ASSUME NEW d \in Clusters PROVE WithinFor(r, q, d)
  <2>1. CASE d = c
    BY <1>1, <1>2, <1>3, <1>4, <1>6, <2>1 DEF WithinFor, Limited, Untouched, SaneRequest
  <2>2. CASE d # c
    <3>1. q.plan[d] = p.plan[d]
      BY <1>3, <1>6, <2>2
    <3> QED BY <1>3, <3>1 DEF WithinFor, Limited
  <2> QED BY <2>1, <2>2
<1>8. Untouched(q)
  <2>1. \A d \in q.todo : q.plan[d] = p.plan[d] /\ d \in p.todo
    BY <1>3, <1>6 DEF Planning
  <2> QED BY <1>3, <2>1 DEF Limited, Untouched
<1> QED BY <1>5, <1>7, <1>8 DEF Limited, q

LEMMA KeepLimited ==
  ASSUME NEW r \in Request, SaneRequest(r), NEW p \in Planning, Limited(r, p),
         p.step = "keep", p.todo # {}
  PROVE Limited(r, KeepRunning(r, p))
<1> DEFINE c == First(r, p.todo)
           k == CHOOSE n \in r.current[c] : TRUE
           n == Staying(r, p, c, k)
           q == KeepRunning(r, p)
<1>1. c \in p.todo /\ c \in Clusters
  BY FirstIn DEF Planning
<1>2. CASE ~MoreRun(r, p, c)
  BY <1>2 DEF KeepRunning, Limited, Untouched, WithinFor, Planning
<1>3. CASE MoreRun(r, p, c)
  <2>1. k \in Nat
    BY <1>1, <1>3 DEF MoreRun, Request, Optional
  <2>2. /\ n \in Nat /\ n <= p.remaining
        /\ \A m \in r.max[c] \cup r.capacity[c] : n = 0 \/ p.plan[c] + n <= m
    <3> HIDE DEF k, c
    <3> QED BY <1>1, <2>1, StayingEffect
  <2>3. /\ q.remaining = p.remaining - n /\ q.step = p.step
        /\ q.plan = [p.plan EXCEPT ![c] = p.plan[c] + n] /\ q.overflow = p.overflow
        /\ q.preallocated = [p.preallocated EXCEPT ![c] = n]
    BY <1>3 DEF KeepRunning, Keep, Planning
  <2> HIDE DEF c, k, n, q
  <2>4. q.remaining <= r.total
    BY <2>2, <2>3 DEF Limited, Planning, Request
  <2>5. /\ p.plan \in [Clusters -> Int] /\ p.preallocated \in [Clusters -> Nat]
        /\ p.overflow[c] = 0 /\ WithinFor(r, p, c)
    BY <1>1 DEF Planning, Limited, Untouched
  <2>6. ASSUME NEW d \in Clusters PROVE WithinFor(r, q, d)
    <3>1. CASE d = c
      <4>1. /\ q.plan[c] = p.plan[c] + n /\ q.preallocated[c] = n /\ q.overflow[c] = 0
            /\ p.plan[c] \in Int /\ p.plan[c] >= 0
        BY <1>1, <2>2, <2>3, <2>5 DEF WithinFor
      <4>2. \A m \in r.max[c] \cup r.capacity[c] : q.plan[c] <= m
        BY <2>2, <2>5, <4>1 DEF WithinFor
      <4> QED BY <2>2, <3>1, <4>1, <4>2 DEF WithinFor
    <3>2. CASE d # c
      <4>1. q.plan[d] = p.plan[d] /\ q.preallocated[d] = p.preallocated[d]
        BY <2>3, <2>5, <3>2
      <4> QED BY <2>3, <4>1 DEF WithinFor, Limited
    <3> QED BY <3>1, <3>2
  <2>7. Untouched(q)
    BY <2>3 DEF Limited, Untouched
  <2> QED BY <2>4, <2>6, <2>7 DEF Limited, q
<1> QED BY <1>2, <1>3

LEMMA GiveLimited ==
  ASSUME NEW r \in Request, SaneRequest(r), NEW p \in Planning, Limited(r, p),
         p.step = "give", p.todo # {}, p.sum > 0
  PROVE Limited(r, Give(r, p))
<1> DEFINE q == Give(r, p)
<1>1. PICK c \in p.todo, used \in Nat, asked \in Int, n \in Int :
        GiveTo(r, p, q, c, used, asked, n)
  BY GiveEffect
<1>a. PICK over \in Nat :
        /\ over = p.overflow[c] \/ (n # asked /\ \A m \in r.max[c] : n + over <= m)
        /\ q = Given(p, c, used, asked, n, over)
  <2> HIDE DEF q
  <2> QED BY <1>1, Zenon DEF GiveTo
<1> HIDE DEF q
<1>2. /\ over = p.overflow[c] \/ (n # asked /\ \A m \in r.max[c] : n + over <= m)
      /\ q.todo = p.todo \ {c} /\ q.step = p.step
      /\ q.plan = [p.plan EXCEPT ![c] = n]
      /\ q.overflow = [p.overflow EXCEPT ![c] = over]
      /\ q.preallocated = [p.preallocated EXCEPT ![c] = p.preallocated[c] - used]
      /\ q.remaining = p.remaining - (n - p.plan[c])
      /\ q.kept = IF n = asked THEN p.kept \cup {c} ELSE p.kept
  <2>1. q = Given(p, c, used, asked, n, over)
    BY <1>a
  <2>2. /\ q.todo = p.todo \ {c} /\ q.step = p.step
        /\ q.plan = [p.plan EXCEPT ![c] = n]
        /\ q.overflow = [p.overflow EXCEPT ![c] = over]
        /\ q.preallocated = [p.preallocated EXCEPT ![c] = p.preallocated[c] - used]
        /\ q.remaining = p.remaining - (n - p.plan[c])
        /\ q.kept = IF n = asked THEN p.kept \cup {c} ELSE p.kept
    BY <2>1 DEF Given, Planning
  <2> QED BY <1>a, <2>2
<1>3. /\ c \in Clusters /\ WithinFor(r, p, c) /\ p.overflow[c] = 0
      /\ p.plan \in [Clusters -> Int] /\ p.preallocated \in [Clusters -> Nat]
      /\ p.overflow \in [Clusters -> Nat] /\ p.remaining \in Nat /\ r.total \in Nat
      /\ r.max[c] \subseteq Int /\ r.capacity[c] \subseteq Int
  BY <1>1, OptionalInt DEF Planning, Limited, Untouched, Request
<1>4. /\ used \in Nat /\ used <= p.preallocated[c] /\ n \in Int
      /\ \A m \in r.max[c] \cup r.capacity[c] : n <= m
  BY <1>1 DEF GiveTo
<1>5. p.plan[c] <= n
  <2>1. \A m \in r.max[c] \cup r.capacity[c] : p.plan[c] <= m
    BY <1>3 DEF WithinFor
  <2> QED BY <1>1, <2>1 DEF GiveTo
<1>6. q.remaining <= r.total
  BY <1>2, <1>3, <1>4, <1>5 DEF Limited
<1>7. ASSUME NEW d \in Clusters PROVE WithinFor(r, q, d)
  <2>1. CASE d = c
    <3>1. /\ q.plan[c] = n /\ q.overflow[c] = over
          /\ q.preallocated[c] = p.preallocated[c] - used
      BY <1>2, <1>3
    <3>2. \A m \in r.max[c] : n + over <= m
      BY <1>2, <1>3, <1>4
    <3>3. \A m \in r.capacity[c] : n <= m
      BY <1>4
    <3>4. /\ p.plan[c] \in Int /\ p.plan[c] >= 0 /\ p.preallocated[c] \in Nat
          /\ p.preallocated[c] <= p.plan[c]
      BY <1>3 DEF WithinFor
    <3>5. n >= 0 /\ p.preallocated[c] - used \in 0 .. n /\ over >= 0
      BY <1>2, <1>4, <1>5, <3>4
    <3> QED BY <2>1, <3>1, <3>2, <3>3, <3>5 DEF WithinFor
  <2>2. CASE d # c
    <3>1. /\ q.plan[d] = p.plan[d] /\ q.overflow[d] = p.overflow[d]
          /\ q.preallocated[d] = p.preallocated[d]
      BY <1>2, <1>3, <2>2
    <3> QED BY <3>1 DEF WithinFor, Limited
  <2> QED BY <2>1, <2>2
<1>8. Untouched(q)
  <2>1. ASSUME NEW d \in q.todo \cup q.kept PROVE q.overflow[d] = 0
    <3>1. d \in Clusters /\ q.overflow[d] = IF d = c THEN over ELSE p.overflow[d]
      BY <1>2, <1>3 DEF Planning
    <3>2. d = c => over = 0
      BY <1>1, <1>2, <1>3 DEF Limited, Untouched
    <3>3. d # c => p.overflow[d] = 0
      BY <1>2 DEF Limited, Untouched
    <3> QED BY <3>1, <3>2, <3>3
  <2>2. q.todo \cap q.kept = {}
    BY <1>1, <1>2 DEF Limited, Untouched
  <2> QED BY <1>2, <2>1, <2>2 DEF Untouched
<1> QED BY <1>6, <1>7, <1>8 DEF Limited, q

\* Finish takes no more off the overflow than there is.
LEMMA FinishLimited ==
  ASSUME NEW r \in Request, NEW p \in Planning, Limited(r, p)
  PROVE Limited(r, Finish(r, p))
<1> DEFINE q == Finish(r, p)
<1>1. /\ q.step = "done" /\ q.plan = p.plan /\ q.preallocated = p.preallocated
      /\ q.remaining = p.remaining
  BY DEF Finish, Planning
<1>2. ASSUME NEW c \in Clusters
      PROVE /\ q.overflow[c] \in Nat /\ q.overflow[c] <= p.overflow[c]
            /\ p.plan[c] \in Int /\ p.overflow[c] \in Nat
  BY DEF Finish, Planning, MinOf
<1> HIDE DEF q
<1>3. ASSUME NEW c \in Clusters PROVE WithinFor(r, q, c)
  <2>1. r.max[c] \subseteq Int
    BY OptionalInt DEF Request
  <2> QED BY <1>1, <1>2, <2>1 DEF WithinFor, Limited
<1> QED BY <1>1, <1>3 DEF Limited, Untouched, q

LEMMA StepLimited ==
  ASSUME NEW r \in Request, SaneRequest(r), NEW p \in Planning, Limited(r, p),
         p.step # "done"
  PROVE Limited(r, PlanStep(r, p))
<1> USE DEF Planning
<1>1. CASE p.step = "minimum" /\ p.todo # {}
  BY <1>1, MinimumLimited DEF PlanStep
<1>2. CASE p.step = "keep" /\ p.todo # {}
  BY <1>2, KeepLimited DEF PlanStep
<1>3. CASE Giving(p)
  BY <1>3, Gives, GiveLimited
<1>4. CASE p.step = "trial" /\ ~(p.modified /\ p.remaining > 0)
  BY <1>4, FinishLimited DEF PlanStep
<1>5. CASE p.step = "trial" /\ p.modified /\ p.remaining > 0
  BY <1>5 DEF PlanStep, StartTrial, Limited, WithinFor, Untouched
<1>6. CASE p.step \in {"minimum", "keep"} /\ p.todo = {}
  BY <1>6 DEF PlanStep, Goto, Limited, WithinFor, Untouched
<1>7. CASE p.step = "weigh" /\ p.todo # {}
  BY <1>7 DEF PlanStep, Weigh, Limited, WithinFor, Untouched
<1>8. CASE p.step = "weigh" /\ p.todo = {}
  BY <1>8 DEF PlanStep, Goto, Limited, WithinFor, Untouched
<1>9. CASE TrialOver(p)
  BY <1>9, EndsTrial DEF Limited, WithinFor, Untouched
<1> QED BY StepCases, <1>1, <1>2, <1>3, <1>4, <1>5, <1>6, <1>7, <1>8, <1>9

\* No cluster is planned less than nothing or more than its limits allow, and no
\* more replicas are handed out than there are (planner.go:103-216), for any
\* clusters, weights and limits.
THEOREM PlansWithinLimits == Spec => []WithinLimits
<1> DEFINE Inv == /\ request \in Request /\ planning \in Planning
                  /\ SaneRequest(request) => Limited(request, planning)
<1>1. Init => Inv
  BY RequestsAssumption, StartTyped, StartLimited DEF Init
<1>2. Inv /\ [Next]_vars => Inv'
  BY StepTyped, StepLimited DEF Next, Step, vars
<1>3. Inv => WithinLimits
  <2>1. Inv /\ SaneRequest(request) => planning.remaining \in 0 .. request.total
    BY DEF Planning, Limited, Request
  <2> QED BY <2>1 DEF WithinLimits, Sane, SaneRequest, Limited, WithinFor
<1> QED BY <1>1, <1>2, <1>3, PTL DEF Spec

-----------------------------------------------------------------------------
(* Nothing is left over *)

FullIn(r, p, c) == \/ \E m \in r.max[c] : p.plan[c] >= m
                   \/ \E m \in r.capacity[c] : p.plan[c] >= m

FullBut(r, p, S)  == \A c \in r.wanted \ S : r.weight[c] > 0 => FullIn(r, p, c)
Weightless(r, S) == \A c \in S : r.weight[c] = 0

\* Clusters with a weight that are not distributed to any more are full, and a
\* trial that has changed nothing so far has kept none of them.
Filled(r, p) ==
  /\ p.step \in {"minimum", "keep"} => p.modified /\ p.active = r.wanted
  /\ p.step = "trial" => /\ FullBut(r, p, p.active)
                         /\ ~p.modified => Weightless(r, p.active)
  /\ p.step = "weigh" => /\ FullBut(r, p, p.active)
                         /\ p.share > 0 /\ p.remaining >= p.share
                         /\ p.kept = {}
                         /\ p.sum = 0 => Weightless(r, p.active \ p.todo)
  /\ p.step = "give" => /\ FullBut(r, p, p.todo \cup p.kept)
                        /\ p.share > 0
                        /\ p.sum = 0 => Weightless(r, p.todo)
                        /\ ~p.modified => /\ p.remaining >= p.share
                                          /\ Weightless(r, p.kept)
  /\ p.step = "done" /\ p.remaining > 0 => FullBut(r, p, {})

LEMMA WeighFilled ==
  ASSUME NEW r \in Request, NEW p \in Planning, Filled(r, p),
         p.step = "weigh", p.todo # {}
  PROVE Filled(r, Weigh(r, p))
<1> DEFINE c == First(r, p.todo)
           q == Weigh(r, p)
<1>1. c \in p.todo /\ r.weight[c] \in Nat
  BY FirstIn DEF Planning, Request
<1> HIDE DEF c
<1>2. /\ q.step = "weigh" /\ q.todo = p.todo \ {c} /\ q.sum = p.sum + r.weight[c]
      /\ q.plan = p.plan /\ q.active = p.active /\ q.kept = p.kept
      /\ q.share = p.share /\ q.remaining = p.remaining
  BY DEF Weigh, Planning, c
<1> HIDE DEF q
<1>3. q.sum = 0 => Weightless(r, q.active \ q.todo)
  <2>1. SUFFICES ASSUME q.sum = 0 PROVE Weightless(r, q.active \ q.todo)
    OBVIOUS
  <2>2. p.sum = 0 /\ r.weight[c] = 0
    BY <1>1, <1>2, <2>1 DEF Planning
  <2> QED BY <1>2, <2>2 DEF Filled, Weightless
<1> QED BY <1>2, <1>3 DEF Filled, FullBut, FullIn, q

LEMMA GiveFilled ==
  ASSUME NEW r \in Request, NEW p \in Planning, Filled(r, p),
         p.step = "give", p.todo # {}, p.sum > 0
  PROVE Filled(r, Give(r, p))
<1> DEFINE q == Give(r, p)
<1>1. PICK c \in p.todo, used \in Nat, asked \in Int, n \in Int :
        GiveTo(r, p, q, c, used, asked, n)
  BY GiveEffect
<1>2. PICK over \in Nat : q = Given(p, c, used, asked, n, over)
  <2> HIDE DEF q
  <2> QED BY <1>1 DEF GiveTo
<1> HIDE DEF q
<1>3. /\ q.step = "give" /\ q.todo = p.todo \ {c} /\ q.share = p.share
      /\ q.plan = [p.plan EXCEPT ![c] = n]
      /\ q.remaining = p.remaining - (n - p.plan[c])
      /\ q.kept = IF n = asked THEN p.kept \cup {c} ELSE p.kept
  BY <1>2 DEF Given, Planning
<1>4. q.modified = (p.modified \/ used > 0 \/ n > p.plan[c])
  BY <1>2, Zenon DEF Given, Planning
<1>5. /\ c \in Clusters /\ p.plan \in [Clusters -> Int] /\ p.plan[c] \in Int
      /\ r.weight[c] \in Nat /\ p.remaining \in Nat /\ p.share \in Nat
  BY DEF Planning, Request
<1>6. FullBut(r, q, q.todo \cup q.kept)
  <2>1. SUFFICES ASSUME NEW d \in r.wanted \ (q.todo \cup q.kept), r.weight[d] > 0
                 PROVE FullIn(r, q, d)
    BY DEF FullBut
  <2>2. CASE d = c
    <3>1. n # asked
      BY <1>3, <2>1, <2>2
    <3>2. n \in r.max[c] \cup r.capacity[c]
      BY <1>1, <3>1 DEF GiveTo
    <3>3. q.plan[c] = n
      BY <1>3, <1>5
    <3> QED BY <2>2, <3>2, <3>3 DEF FullIn
  <2>3. CASE d # c
    <3>1. d \notin p.todo \cup p.kept
      BY <1>3, <2>1, <2>3
    <3>2. FullIn(r, p, d)
      BY <2>1, <3>1 DEF Filled, FullBut
    <3>3. d \in Clusters
      BY DEF Request
    <3>4. q.plan[d] = p.plan[d]
      BY <1>3, <1>5, <2>3, <3>3
    <3> QED BY <3>2, <3>4 DEF FullIn
  <2> QED BY <2>2, <2>3
<1>7. ~q.modified => q.remaining >= q.share /\ Weightless(r, q.kept)
  <2>1. SUFFICES ASSUME ~q.modified PROVE q.remaining >= q.share /\ Weightless(r, q.kept)
    OBVIOUS
  <2>2. ~p.modified /\ ~(used > 0) /\ ~(n > p.plan[c])
    BY <1>4, <2>1
  <2>3. p.remaining >= p.share /\ Weightless(r, p.kept) /\ p.share > 0
    BY <2>2 DEF Filled
  <2>4. q.remaining >= q.share
    BY <1>3, <1>5, <2>2, <2>3
  <2>5. n = asked => r.weight[c] = 0
    BY <1>1, <1>5, <2>2, <2>3 DEF GiveTo
  <2> QED BY <1>3, <2>3, <2>4, <2>5 DEF Weightless
<1>8. q.sum = 0 => Weightless(r, q.todo)
  <2>1. q.sum = p.sum
    BY <1>2 DEF Given, Planning
  <2> QED BY <2>1
<1> QED BY <1>3, <1>6, <1>7, <1>8 DEF Filled, q

LEMMA StepFilled ==
  ASSUME NEW r \in Request, NEW p \in Planning, Filled(r, p), p.step # "done"
  PROVE Filled(r, PlanStep(r, p))
<1> USE DEF Planning
<1>1. CASE p.step = "minimum" /\ p.todo # {}
  BY <1>1 DEF PlanStep, AssignMinimum, Filled
<1>2. CASE p.step = "keep" /\ p.todo # {}
  BY <1>2 DEF PlanStep, KeepRunning, Keep, Filled
<1>3. CASE Giving(p)
  BY <1>3, Gives, GiveFilled
<1>4. CASE p.step = "trial" /\ ~(p.modified /\ p.remaining > 0)
  <2> DEFINE q == Finish(r, p)
  <2>1. q.step = "done" /\ q.plan = p.plan /\ q.remaining = p.remaining
    BY DEF Finish
  <2>2. PlanStep(r, p) = q
    BY <1>4 DEF PlanStep
  <2> HIDE DEF q
  <2>3. p.remaining > 0 => FullBut(r, p, {})
    BY <1>4 DEF Filled, FullBut, Weightless
  <2> QED BY <2>1, <2>2, <2>3 DEF Filled, FullBut, FullIn
<1>5. CASE p.step = "trial" /\ p.modified /\ p.remaining > 0
  <2> DEFINE q == StartTrial(p)
  <2>1. /\ q.step = "weigh" /\ q.plan = p.plan /\ q.remaining = p.remaining
        /\ q.share = p.remaining /\ q.kept = {} /\ q.active = p.active
        /\ q.todo = p.active
    BY DEF StartTrial
  <2>2. PlanStep(r, p) = q
    BY <1>5 DEF PlanStep
  <2> HIDE DEF q
  <2> QED BY <1>5, <2>1, <2>2 DEF Filled, FullBut, FullIn, Weightless
<1>6. CASE p.step \in {"minimum", "keep"} /\ p.todo = {}
  BY <1>6 DEF PlanStep, Goto, Filled, FullBut
<1>7. CASE p.step = "weigh" /\ p.todo # {}
  BY <1>7, WeighFilled DEF PlanStep
<1>8. CASE p.step = "weigh" /\ p.todo = {}
  <2> DEFINE q == PlanStep(r, p)
  <2>1. /\ q.step = "give" /\ q.plan = p.plan /\ q.remaining = p.remaining
        /\ q.share = p.share /\ q.kept = p.kept
        /\ q.sum = p.sum /\ q.todo = p.active
    BY <1>8 DEF PlanStep, Goto
  <2> HIDE DEF q
  <2>2. FullBut(r, q, q.todo \cup q.kept)
    BY <1>8, <2>1 DEF Filled, FullBut, FullIn
  <2> QED BY <1>8, <2>1, <2>2 DEF Filled, Weightless, q
<1>9. CASE TrialOver(p)
  <2> DEFINE q == PlanStep(r, p)
  <2>1. /\ q.step = "trial" /\ q.plan = p.plan /\ q.modified = p.modified
        /\ q.active = p.kept /\ p.step = "give"
    BY <1>9, EndsTrial
  <2> HIDE DEF q
  <2>2. p.todo = {} \/ Weightless(r, p.todo)
    BY <1>9 DEF Filled, TrialOver
  <2>3. FullBut(r, q, p.kept)
    BY <2>1, <2>2 DEF Filled, FullBut, FullIn, Weightless
  <2>4. ~q.modified => Weightless(r, p.kept)
    BY <2>1 DEF Filled
  <2> QED BY <2>1, <2>3, <2>4 DEF Filled, q
<1> QED BY StepCases, <1>1, <1>2, <1>3, <1>4, <1>5, <1>6, <1>7, <1>8, <1>9

\* Replicas are left over only when every cluster with a weight is full: the
\* loop never gives up early (the TODO at planner.go:152), for any clusters,
\* weights and limits, sane or not.
THEOREM NothingLeftOver == Spec => []NoneLeftOver
<1> DEFINE Inv == /\ request \in Request /\ planning \in Planning
                  /\ Filled(request, planning)
<1>1. Init => Inv
  <2>1. ASSUME NEW r \in Request PROVE Filled(r, StartPlanning(r))
    BY DEF Filled, StartPlanning
  <2> QED BY <2>1, RequestsAssumption, StartTyped DEF Init
<1>2. Inv /\ [Next]_vars => Inv'
  BY StepTyped, StepFilled DEF Next, Step, vars
<1>3. Inv => NoneLeftOver
  BY DEF NoneLeftOver, Full, Filled, FullBut, FullIn
<1> QED BY <1>1, <1>2, <1>3, PTL DEF Spec

-----------------------------------------------------------------------------
(* Plans only grow *)

\* From p to q no cluster is planned less, and nothing moves once nothing remains.
Grows(p, q) ==
  /\ \A c \in Clusters : p.plan[c] <= q.plan[c]
  /\ p.remaining = 0 => /\ \A c \in Clusters : q.plan[c] = p.plan[c]
                        /\ q.remaining = 0

LEMMA MinimumGrows ==
  ASSUME NEW r \in Request, SaneRequest(r), NEW p \in Planning, Limited(r, p),
         p.step = "minimum", p.todo # {}
  PROVE Grows(p, AssignMinimum(r, p))
<1> DEFINE c == First(r, p.todo)
           n == Minimum(r, p, c)
           q == AssignMinimum(r, p)
<1>1. c \in p.todo /\ c \in Clusters
  BY FirstIn DEF Planning
<1>2. /\ n \in Int /\ n <= p.remaining
      /\ n >= 0 \/ n \in r.capacity[c]
  BY <1>1, MinimumEffect
<1>3. q.plan = [p.plan EXCEPT ![c] = n] /\ q.remaining = p.remaining - n
  BY DEF AssignMinimum, Planning
<1>4. p.plan[c] = 0 /\ n >= 0
  BY <1>1, <1>2 DEF Limited, Untouched, SaneRequest
<1> HIDE DEF c, n, q
<1>5. /\ p.plan \in [Clusters -> Int] /\ p.remaining \in Nat
      /\ \A d \in Clusters : p.plan[d] \in Int
  BY DEF Planning
<1>6. ASSUME NEW d \in Clusters
      PROVE p.plan[d] <= q.plan[d] /\ (n = 0 => q.plan[d] = p.plan[d])
  BY <1>3, <1>4, <1>5
<1> QED BY <1>2, <1>3, <1>4, <1>5, <1>6 DEF Grows, q

LEMMA KeepGrows ==
  ASSUME NEW r \in Request, NEW p \in Planning, p.step = "keep", p.todo # {}
  PROVE Grows(p, KeepRunning(r, p))
<1> DEFINE c == First(r, p.todo)
           k == CHOOSE n \in r.current[c] : TRUE
           n == Staying(r, p, c, k)
           q == KeepRunning(r, p)
<1>1. c \in p.todo /\ c \in Clusters
  BY FirstIn DEF Planning
<1>5. /\ p.plan \in [Clusters -> Int] /\ p.remaining \in Nat
      /\ \A d \in Clusters : p.plan[d] \in Int
  BY DEF Planning
<1>2. CASE ~MoreRun(r, p, c)
  <2>1. q.plan = p.plan /\ q.remaining = p.remaining
    BY <1>2 DEF KeepRunning, Planning
  <2> QED BY <1>5, <2>1 DEF Grows
<1>3. CASE MoreRun(r, p, c)
  <2>1. k \in Nat
    BY <1>1, <1>3 DEF MoreRun, Request, Optional
  <2>2. n \in Nat /\ n <= p.remaining
    <3> HIDE DEF k, c
    <3> QED BY <1>1, <2>1, StayingEffect
  <2>3. q.remaining = p.remaining - n /\ q.plan = [p.plan EXCEPT ![c] = p.plan[c] + n]
    BY <1>3 DEF KeepRunning, Keep, Planning
  <2> HIDE DEF c, k, n, q
  <2>4. ASSUME NEW d \in Clusters
        PROVE p.plan[d] <= q.plan[d] /\ (n = 0 => q.plan[d] = p.plan[d])
    BY <1>5, <2>2, <2>3
  <2> QED BY <1>5, <2>2, <2>3, <2>4 DEF Grows, q
<1> QED BY <1>2, <1>3

LEMMA GiveGrows ==
  ASSUME NEW r \in Request, SaneRequest(r), NEW p \in Planning, Limited(r, p),
         p.step = "give", p.todo # {}, p.sum > 0
  PROVE Grows(p, Give(r, p))
<1> DEFINE q == Give(r, p)
<1>1. PICK c \in p.todo, used \in Nat, asked \in Int, n \in Int :
        GiveTo(r, p, q, c, used, asked, n)
  BY GiveEffect
<1>2. PICK over \in Nat : q = Given(p, c, used, asked, n, over)
  <2> HIDE DEF q
  <2> QED BY <1>1 DEF GiveTo
<1> HIDE DEF q
<1>3. /\ q.plan = [p.plan EXCEPT ![c] = n]
      /\ q.remaining = p.remaining - (n - p.plan[c])
  BY <1>2 DEF Given, Planning
<1>4. /\ c \in Clusters /\ p.plan \in [Clusters -> Int] /\ p.remaining \in Nat
      /\ \A d \in Clusters : p.plan[d] \in Int
  BY DEF Planning
<1>5. p.plan[c] <= n
  <2>1. WithinFor(r, p, c) /\ p.overflow[c] = 0
    BY <1>4 DEF Limited, Untouched
  <2>2. \A m \in r.max[c] \cup r.capacity[c] : p.plan[c] <= m
    BY <1>4, <2>1 DEF WithinFor
  <2> QED BY <1>1, <2>2 DEF GiveTo
<1>6. n - p.plan[c] <= p.remaining
  BY <1>1 DEF GiveTo
<1>7. ASSUME NEW d \in Clusters
      PROVE p.plan[d] <= q.plan[d] /\ (n = p.plan[c] => q.plan[d] = p.plan[d])
  BY <1>3, <1>4, <1>5
<1>8. p.remaining = 0 => n = p.plan[c] /\ q.remaining = 0
  <2>1. p.plan[c] \in Int
    BY <1>4
  <2>2. p.remaining = 0 => n = p.plan[c]
    BY <1>5, <1>6, <2>1
  <2>3. q.remaining = p.remaining - (n - p.plan[c])
    BY <1>3
  <2> QED BY <2>1, <2>2, <2>3
<1> QED BY <1>7, <1>8 DEF Grows, q

LEMMA StepGrows ==
  ASSUME NEW r \in Request, SaneRequest(r), NEW p \in Planning, Limited(r, p),
         p.step # "done"
  PROVE Grows(p, PlanStep(r, p))
<1> DEFINE q == PlanStep(r, p)
<1>1. CASE p.step = "minimum" /\ p.todo # {}
  BY <1>1, MinimumGrows DEF PlanStep
<1>2. CASE p.step = "keep" /\ p.todo # {}
  BY <1>2, KeepGrows DEF PlanStep
<1>3. CASE Giving(p)
  BY <1>3, Gives, GiveGrows
<1>4. CASE \/ p.step \in {"minimum", "keep"} /\ p.todo = {}
           \/ TrialOver(p)
           \/ p.step \in {"trial", "weigh"}
  <2>1. q.plan = p.plan /\ q.remaining = p.remaining
    BY <1>4, NothingGiven
  <2>2. \A c \in Clusters : p.plan[c] \in Int
    BY DEF Planning
  <2> QED BY <2>1, <2>2 DEF Grows
<1> QED BY StepCases, <1>1, <1>2, <1>3, <1>4

-----------------------------------------------------------------------------
(* Minimums in order *)

MinimumFor(r, c) == Capped(r.min[c], r.capacity[c])

\* Clusters whose minimum has been assigned, or all.
Served(r, p) == IF p.step = "minimum" THEN r.wanted \ p.todo ELSE r.wanted

\* Minimums are assigned in order, and a cluster gets less than it has room for
\* only when nothing remains.
InOrder(r, p) ==
  /\ p.step = "minimum" =>
       \A c, d \in r.wanted : Less(r, c, d) /\ c \in p.todo => d \in p.todo
  /\ \A c \in Served(r, p) : p.plan[c] < MinimumFor(r, c) =>
       /\ p.remaining = 0
       /\ \A d \in r.wanted : Less(r, c, d) => p.plan[d] = 0

LEMMA MinimumForInt ==
  ASSUME NEW r \in Request, NEW c \in Clusters
  PROVE MinimumFor(r, c) \in Int
BY CappedInt DEF MinimumFor, Request

\* The minimum is short of what c has room for only if it takes all that remains.
LEMMA MinimumShort ==
  ASSUME NEW r \in Request, NEW p \in Planning, NEW c \in Clusters,
         Minimum(r, p, c) < MinimumFor(r, c)
  PROVE Minimum(r, p, c) = p.remaining
<1> DEFINE asked == MinOf(r.min[c], p.remaining)
<1>1. /\ r.min[c] \in Nat /\ p.remaining \in Nat /\ r.capacity[c] \in Optional(Int)
  BY DEF Request, Planning
<1>2. /\ asked = r.min[c] \/ asked = p.remaining
      /\ asked \in Nat /\ asked <= r.min[c]
  BY <1>1 DEF MinOf
<1> HIDE DEF asked
<1>3. Minimum(r, p, c) = Capped(asked, r.capacity[c])
  BY DEF Minimum, asked
<1>4. asked # r.min[c]
  BY <1>3, MinimumForInt DEF MinimumFor
<1>5. CASE Capped(asked, r.capacity[c]) = asked
  BY <1>2, <1>3, <1>4, <1>5
<1>6. CASE Capped(asked, r.capacity[c]) \in r.capacity[c]
  <2>1. /\ Capped(asked, r.capacity[c]) \in Int /\ MinimumFor(r, c) \in Int
        /\ \A m \in r.capacity[c] : MinimumFor(r, c) <= m
    BY <1>1, <1>2, CappedInt DEF MinimumFor
  <2> QED BY <1>3, <1>6, <2>1
<1> QED BY <1>1, <1>2, <1>5, <1>6, CappedInt

LEMMA MinimumInOrder ==
  ASSUME NEW r \in Request, SaneRequest(r), NEW p \in Planning, Limited(r, p),
         InOrder(r, p), p.step = "minimum", p.todo # {}
  PROVE InOrder(r, AssignMinimum(r, p))
<1> DEFINE c == First(r, p.todo)
           n == Minimum(r, p, c)
           q == AssignMinimum(r, p)
<1>1. c \in p.todo /\ c \in Clusters /\ \A d \in p.todo : ~Less(r, d, c)
  BY FirstIn DEF Planning
<1>2. /\ q.todo = p.todo \ {c} /\ q.step = "minimum"
      /\ q.plan = [p.plan EXCEPT ![c] = n] /\ q.remaining = p.remaining - n
  BY DEF AssignMinimum, Planning
<1>3. Grows(p, q)
  BY MinimumGrows
<1>4. n < MinimumFor(r, c) => n = p.remaining
  BY <1>1, MinimumShort
<1> HIDE DEF c, n, q
<1>5. /\ p.plan \in [Clusters -> Int] /\ p.remaining \in Nat
      /\ \A d \in Clusters : p.plan[d] \in Int /\ q.plan[d] \in Int
      /\ r.wanted \subseteq Clusters /\ n \in Int
  <2>1. n \in Int
    BY <1>1, MinimumEffect DEF n
  <2> QED BY <1>1, <1>2, <2>1 DEF Planning, Request
<1>6. \A d, e \in r.wanted : Less(r, d, e) /\ d \in q.todo => e \in q.todo
  BY <1>1, <1>2 DEF InOrder
<1>7. ASSUME NEW d \in Served(r, q), q.plan[d] < MinimumFor(r, d)
      PROVE /\ q.remaining = 0
            /\ \A e \in r.wanted : Less(r, d, e) => q.plan[e] = 0
  <2>1. d \in r.wanted /\ d \notin q.todo /\ MinimumFor(r, d) \in Int
    BY <1>2, <1>5, MinimumForInt DEF Served
  <2>2. CASE d = c
    <3>1. n = p.remaining /\ q.remaining = 0
      BY <1>2, <1>4, <1>5, <1>7, <2>1, <2>2
    <3>2. ASSUME NEW e \in r.wanted, Less(r, d, e) PROVE q.plan[e] = 0
      <4>1. e \in p.todo
        BY <1>1, <2>1, <2>2, <3>2 DEF InOrder
      <4>2. p.plan[e] = 0
        BY <4>1 DEF Limited, Untouched
      <4>3. e # c
        BY <1>1, <2>2, <3>2
      <4> QED BY <1>2, <1>5, <4>2, <4>3
    <3> QED BY <3>1, <3>2
  <2>3. CASE d # c
    <3>1. d \in Served(r, p) /\ p.plan[d] < MinimumFor(r, d)
      BY <1>2, <1>5, <1>7, <2>1, <2>3 DEF Served
    <3>2. /\ p.remaining = 0
          /\ \A e \in r.wanted : Less(r, d, e) => p.plan[e] = 0
      BY <3>1 DEF InOrder
    <3> QED BY <1>3, <1>5, <3>2 DEF Grows
  <2> QED BY <2>2, <2>3
<1> QED BY <1>6, <1>7 DEF InOrder, q

LEMMA StepInOrder ==
  ASSUME NEW r \in Request, SaneRequest(r), NEW p \in Planning, Limited(r, p),
         InOrder(r, p), p.step # "done"
  PROVE InOrder(r, PlanStep(r, p))
<1> DEFINE q == PlanStep(r, p)
<1>0. p \in Planning /\ q \in Planning
  BY StepTyped
<1>1. CASE p.step = "minimum" /\ p.todo # {}
  BY <1>0, <1>1, MinimumInOrder DEF PlanStep
<1>2. CASE ~(p.step = "minimum" /\ p.todo # {})
  <2>1. q.step # "minimum"
    BY <1>2, StepsOn
  <2>2. Served(r, p) = r.wanted /\ Served(r, q) = r.wanted
    BY <1>2, <2>1 DEF Served
  <2>3. Grows(p, q)
    BY StepGrows
  <2> HIDE DEF q
  <2>4. ASSUME NEW c \in r.wanted, q.plan[c] < MinimumFor(r, c)
        PROVE /\ q.remaining = 0
              /\ \A d \in r.wanted : Less(r, c, d) => q.plan[d] = 0
    <3>1. /\ c \in Clusters /\ r.wanted \subseteq Clusters
          /\ p.plan[c] \in Int /\ q.plan[c] \in Int /\ MinimumFor(r, c) \in Int
      BY <1>0, MinimumForInt DEF Planning, Request
    <3>2. p.plan[c] < MinimumFor(r, c)
      BY <2>3, <2>4, <3>1 DEF Grows
    <3>3. p.remaining = 0 /\ \A d \in r.wanted : Less(r, c, d) => p.plan[d] = 0
      BY <2>2, <3>2 DEF InOrder
    <3> QED BY <2>3, <3>1, <3>3 DEF Grows
  <2> QED BY <2>1, <2>2, <2>4 DEF InOrder, q
<1> QED BY <1>1, <1>2

\* Clusters of a higher weight get their minimum first (planner.go:57-59, 103-110):
\* one that did not get the minimum it has room for leaves nothing to those
\* after it, whatever the rest of the planning does.
THEOREM HeaviestServedFirst == Spec => []MinimumsInOrder
<1> DEFINE Inv == /\ request \in Request /\ planning \in Planning
                  /\ SaneRequest(request) => /\ Limited(request, planning)
                                             /\ InOrder(request, planning)
<1>1. Init => Inv
  <2>1. ASSUME NEW r \in Request PROVE InOrder(r, StartPlanning(r))
    BY DEF InOrder, Served, StartPlanning
  <2> QED BY <2>1, RequestsAssumption, StartTyped, StartLimited DEF Init
<1>2. Inv /\ [Next]_vars => Inv'
  BY StepTyped, StepLimited, StepInOrder DEF Next, Step, vars
<1>3. Inv => MinimumsInOrder
  BY DEF MinimumsInOrder, Sane, SaneRequest, InOrder, Served, MinimumFor
<1> QED BY <1>1, <1>2, <1>3, PTL DEF Spec

-----------------------------------------------------------------------------
(* Every replica is planned or left over *)

Conserving(r, p) ==
  /\ p.step = "minimum" => \A c \in p.todo : p.plan[c] = 0
  /\ Sum(p.plan) + p.remaining = r.total

\* What one cluster gets more is taken off what remains.
LEMMA OneGets ==
  ASSUME NEW r \in Request, NEW p \in Planning, Conserving(r, p),
         NEW q, NEW c \in Clusters, NEW n \in Int,
         q.plan = [p.plan EXCEPT ![c] = n],
         q.remaining = p.remaining - (n - p.plan[c])
  PROVE Sum(q.plan) + q.remaining = r.total
<1>1. p.plan \in [Clusters -> Int] /\ p.plan[c] \in Int /\ p.remaining \in Nat
  BY DEF Planning
<1>2. Sum(q.plan) = Sum(p.plan) + n - p.plan[c]
  BY <1>1, SumUpdated
<1>3. Sum(p.plan) \in Int /\ r.total \in Nat
  BY <1>1, SumInt DEF Request
<1> QED BY <1>1, <1>2, <1>3 DEF Conserving

LEMMA MinimumConserves ==
  ASSUME NEW r \in Request, NEW p \in Planning, Conserving(r, p),
         p.step = "minimum", p.todo # {}
  PROVE Conserving(r, AssignMinimum(r, p))
<1> DEFINE c == First(r, p.todo)
           n == Minimum(r, p, c)
           q == AssignMinimum(r, p)
<1>1. c \in p.todo /\ c \in Clusters
  BY FirstIn DEF Planning
<1>2. n \in Int
  BY <1>1, MinimumEffect
<1>3. /\ q.plan = [p.plan EXCEPT ![c] = n] /\ q.remaining = p.remaining - n
      /\ q.todo = p.todo \ {c}
  BY DEF AssignMinimum, Planning
<1> HIDE DEF c, n, q
<1>4. p.plan[c] = 0 /\ p.plan \in [Clusters -> Int] /\ p.remaining \in Nat
  BY <1>1 DEF Conserving, Planning
<1>5. Sum(q.plan) + q.remaining = r.total
  <2>1. q.remaining = p.remaining - (n - p.plan[c])
    BY <1>2, <1>3, <1>4
  <2> QED BY <1>1, <1>2, <1>3, <2>1, OneGets
<1>6. \A d \in q.todo : q.plan[d] = 0
  BY <1>3, <1>4 DEF Conserving, Planning
<1> QED BY <1>5, <1>6 DEF Conserving, q

LEMMA KeepConserves ==
  ASSUME NEW r \in Request, NEW p \in Planning, Conserving(r, p),
         p.step = "keep", p.todo # {}
  PROVE Conserving(r, KeepRunning(r, p))
<1> DEFINE c == First(r, p.todo)
           k == CHOOSE n \in r.current[c] : TRUE
           n == Staying(r, p, c, k)
           q == KeepRunning(r, p)
<1>1. c \in p.todo /\ c \in Clusters
  BY FirstIn DEF Planning
<1>2. q.step = "keep"
  BY DEF KeepRunning, Keep, Planning
<1>3. CASE ~MoreRun(r, p, c)
  <2>1. q.plan = p.plan /\ q.remaining = p.remaining
    BY <1>3 DEF KeepRunning, Planning
  <2> QED BY <1>2, <2>1 DEF Conserving
<1>4. CASE MoreRun(r, p, c)
  <2>1. k \in Nat
    BY <1>1, <1>4 DEF MoreRun, Request, Optional
  <2>2. n \in Nat
    <3> HIDE DEF k, c
    <3> QED BY <1>1, <2>1, StayingEffect
  <2>3. q.remaining = p.remaining - n /\ q.plan = [p.plan EXCEPT ![c] = p.plan[c] + n]
    BY <1>4 DEF KeepRunning, Keep, Planning
  <2> HIDE DEF c, k, n, q
  <2>4. p.plan[c] \in Int /\ p.remaining \in Nat
    BY <1>1 DEF Planning
  <2> DEFINE m == p.plan[c] + n
  <2>5. /\ m \in Int /\ q.plan = [p.plan EXCEPT ![c] = m]
        /\ q.remaining = p.remaining - (m - p.plan[c])
    BY <2>2, <2>3, <2>4
  <2> HIDE DEF m
  <2>6. Sum(q.plan) + q.remaining = r.total
    BY <1>1, <2>5, OneGets
  <2> QED BY <1>2, <2>6 DEF Conserving, q
<1> QED BY <1>3, <1>4

LEMMA GiveConserves ==
  ASSUME NEW r \in Request, NEW p \in Planning, Conserving(r, p),
         p.step = "give", p.todo # {}, p.sum > 0
  PROVE Conserving(r, Give(r, p))
<1> DEFINE q == Give(r, p)
<1>1. PICK c \in p.todo, used \in Nat, asked \in Int, n \in Int :
        GiveTo(r, p, q, c, used, asked, n)
  BY GiveEffect
<1>2. PICK over \in Nat : q = Given(p, c, used, asked, n, over)
  <2> HIDE DEF q
  <2> QED BY <1>1 DEF GiveTo
<1> HIDE DEF q
<1>3. /\ q.plan = [p.plan EXCEPT ![c] = n] /\ q.step = "give"
      /\ q.remaining = p.remaining - (n - p.plan[c])
  BY <1>2 DEF Given, Planning
<1>4. c \in Clusters
  BY DEF Planning
<1>5. Sum(q.plan) + q.remaining = r.total
  BY <1>3, <1>4, OneGets
<1> QED BY <1>3, <1>5 DEF Conserving, q

LEMMA StepConserves ==
  ASSUME NEW r \in Request, NEW p \in Planning, Conserving(r, p), p.step # "done"
  PROVE Conserving(r, PlanStep(r, p))
<1> DEFINE q == PlanStep(r, p)
<1>1. CASE p.step = "minimum" /\ p.todo # {}
  BY <1>1, MinimumConserves DEF PlanStep
<1>2. CASE p.step = "keep" /\ p.todo # {}
  BY <1>2, KeepConserves DEF PlanStep
<1>3. CASE Giving(p)
  BY <1>3, Gives, GiveConserves
<1>4. CASE \/ p.step \in {"minimum", "keep"} /\ p.todo = {}
           \/ TrialOver(p)
           \/ p.step \in {"trial", "weigh"}
  <2>1. q.plan = p.plan /\ q.remaining = p.remaining /\ q.step # "minimum"
    BY <1>4, NothingGiven
  <2> QED BY <2>1 DEF Conserving
<1> QED BY StepCases, <1>1, <1>2, <1>3, <1>4

LEMMA StartConserves ==
  ASSUME NEW r \in Request PROVE Conserving(r, StartPlanning(r))
<1> DEFINE zeros == [c \in Clusters |-> 0]
<1>1. /\ StartPlanning(r).plan = zeros /\ StartPlanning(r).remaining = r.total
      /\ r.total \in Nat /\ \A c \in Clusters : zeros[c] = 0
      /\ zeros \in [Clusters -> Int] /\ StartPlanning(r).todo \subseteq Clusters
  BY DEF StartPlanning, Request
<1> HIDE DEF zeros
<1>2. Sum(zeros) = 0
  BY <1>1, SumOfZeros
<1> QED BY <1>1, <1>2 DEF Conserving

\* No replica is lost or planned twice: at every step, the replicas of the plan
\* and those that remain are the replicas of the request, whatever the limits
\* are (planner.go:103-216).
THEOREM ReplicasConserved == Spec => []Conserved
<1> DEFINE Inv == /\ request \in Request /\ planning \in Planning
                  /\ Conserving(request, planning)
<1>1. Init => Inv
  BY RequestsAssumption, StartTyped, StartConserves DEF Init
<1>2. Inv /\ [Next]_vars => Inv'
  BY StepTyped, StepConserves DEF Next, Step, vars
<1>3. Inv => Conserved
  BY DEF Conserved, Conserving, Sum
<1> QED BY <1>1, <1>2, <1>3, PTL DEF Spec

-----------------------------------------------------------------------------
(* Trials *)

\* What a trial may still take: replicas that remain or are preallocated.
Open(p) == p.remaining + Sum(p.preallocated)

\* Each trial so far has taken something, but for the one that runs.
Paced(r, p, t) ==
  /\ p.step \in {"minimum", "keep"} => t = 0
  /\ p.step \in {"trial", "weigh", "give"} =>
       t + Open(p) <= r.total + (IF p.modified THEN 0 ELSE 1)
  /\ t <= r.total + 1

LEMMA OpenNat ==
  ASSUME NEW p \in Planning
  PROVE Open(p) \in Nat /\ Sum(p.preallocated) \in Nat /\ p.remaining \in Nat
BY SumNat DEF Open, Planning

\* What is preallocated is planned.
LEMMA OpenBounded ==
  ASSUME NEW r \in Request, NEW p \in Planning, Limited(r, p), Conserving(r, p)
  PROVE Open(p) <= r.total
<1>1. /\ p.preallocated \in [Clusters -> Int] /\ p.plan \in [Clusters -> Int]
      /\ \A c \in Clusters : p.preallocated[c] <= p.plan[c]
  BY DEF Planning, Limited, WithinFor
<1>2. Sum(p.preallocated) <= Sum(p.plan) /\ Sum(p.plan) \in Int
  BY <1>1, SumGrows, SumInt
<1>3. r.total \in Nat
  BY DEF Request
<1> QED BY <1>2, <1>3, OpenNat DEF Conserving, Open

LEMMA GivePaced ==
  ASSUME NEW r \in Request, SaneRequest(r), NEW p \in Planning, Limited(r, p),
         NEW t \in Nat, Paced(r, p, t), p.step = "give", p.todo # {}, p.sum > 0
  PROVE Paced(r, Give(r, p), t)
<1> DEFINE q == Give(r, p)
<1>0. q \in Planning
  BY GiveTyped
<1>1. PICK c \in p.todo, used \in Nat, asked \in Int, n \in Int :
        GiveTo(r, p, q, c, used, asked, n)
  BY GiveEffect
<1>2. PICK over \in Nat : q = Given(p, c, used, asked, n, over)
  <2> HIDE DEF q
  <2> QED BY <1>1 DEF GiveTo
<1>3. Grows(p, q)
  BY GiveGrows
<1> HIDE DEF q
<1>4. /\ q.plan = [p.plan EXCEPT ![c] = n] /\ q.step = "give"
      /\ q.preallocated = [p.preallocated EXCEPT ![c] = p.preallocated[c] - used]
      /\ q.remaining = p.remaining - (n - p.plan[c])
  BY <1>2 DEF Given, Planning
<1>5. q.modified = (p.modified \/ used > 0 \/ n > p.plan[c])
  BY <1>2, Zenon DEF Given, Planning
<1>6. /\ c \in Clusters /\ p.plan \in [Clusters -> Int] /\ p.plan[c] \in Int
      /\ p.preallocated \in [Clusters -> Int] /\ p.preallocated[c] \in Nat
      /\ p.remaining \in Nat /\ r.total \in Nat
  BY DEF Planning, Request
<1>7. p.plan[c] <= n
  BY <1>3, <1>4, <1>6 DEF Grows
<1>8. Sum(q.preallocated) = Sum(p.preallocated) - used
  <2> DEFINE left == p.preallocated[c] - used
  <2>1. left \in Int /\ q.preallocated = [p.preallocated EXCEPT ![c] = left]
    BY <1>4, <1>6
  <2> HIDE DEF left
  <2>2. Sum(q.preallocated) = Sum(p.preallocated) + left - p.preallocated[c]
    BY <1>6, <2>1, SumUpdated
  <2> QED BY <1>6, <2>2, OpenNat DEF left
<1>9. Open(q) = Open(p) - used - (n - p.plan[c])
  BY <1>4, <1>6, <1>8, OpenNat DEF Open
<1>10. Open(q) \in Nat /\ Open(p) \in Nat
  BY <1>0, OpenNat
<1>11. t + Open(q) <= r.total + (IF q.modified THEN 0 ELSE 1)
  <2>1. t + Open(p) <= r.total + (IF p.modified THEN 0 ELSE 1)
    BY DEF Paced
  <2>2. CASE p.modified
    <3>1. q.modified
      BY <1>5, <2>2
    <3> QED BY <1>6, <1>7, <1>9, <1>10, <2>1, <2>2, <3>1
  <2>3. CASE ~p.modified /\ (used > 0 \/ n > p.plan[c])
    <3>1. q.modified
      BY <1>5, <2>3
    <3>2. t + Open(p) <= r.total + 1
      BY <2>1, <2>3
    <3> QED BY <1>6, <1>7, <1>9, <1>10, <2>3, <3>1, <3>2
  <2>4. CASE ~p.modified /\ ~(used > 0 \/ n > p.plan[c])
    <3>1. ~q.modified
      BY <1>5, <2>4
    <3>2. t + Open(p) <= r.total + 1
      BY <2>1, <2>4
    <3> QED BY <1>6, <1>7, <1>9, <1>10, <3>1, <3>2
  <2> QED BY <2>2, <2>3, <2>4
<1> QED BY <1>4, <1>11 DEF Paced, q

\* A step of the planning, with the trials it counts.
Counted(p, q, t) == IF p.step = "trial" /\ q.step = "weigh"
                      THEN MinOf(t + 1, MaxTrials) ELSE t

LEMMA StepPaced ==
  ASSUME NEW r \in Request, SaneRequest(r), NEW p \in Planning, Limited(r, p),
         Conserving(r, p), Filled(r, p), NEW t \in Nat, Paced(r, p, t),
         p.step # "done"
  PROVE Paced(r, PlanStep(r, p), Counted(p, PlanStep(r, p), t))
<1> DEFINE q == PlanStep(r, p)
<1>0. p \in Planning /\ q \in Planning /\ r.total \in Nat
  BY StepTyped DEF Request
<1>1. Open(p) \in Nat /\ Open(p) <= r.total /\ Open(q) \in Nat
  BY <1>0, OpenNat, OpenBounded
<1>2. CASE p.step \in {"minimum", "keep"} /\ p.todo # {}
  <2>1. q.step = p.step
    BY <1>0, <1>2
       DEF PlanStep, AssignMinimum, KeepRunning, Keep, Planning
  <2> QED BY <1>2, <2>1 DEF Counted, Paced
<1>3. CASE Giving(p)
  <2>1. q = Give(r, p)
    BY <1>0, <1>3, Gives
  <2> QED BY <1>0, <1>3, <2>1, Gives, GivePaced DEF Counted
<1>4. CASE p.step \in {"minimum", "keep"} /\ p.todo = {}
  <2>1. /\ q.step \in {"keep", "trial"} /\ q.modified = p.modified
        /\ q.remaining = p.remaining /\ q.preallocated = p.preallocated
    BY <1>0, <1>4 DEF PlanStep, Goto, Planning
  <2>2. p.modified /\ t = 0
    BY <1>4 DEF Filled, Paced
  <2>3. Open(q) = Open(p)
    BY <2>1 DEF Open
  <2> QED BY <1>0, <1>1, <1>4, <2>1, <2>2, <2>3 DEF Counted, Paced
<1>5. CASE p.step = "trial" /\ ~(p.modified /\ p.remaining > 0)
  <2>1. q.step = "done"
    BY <1>0, <1>5 DEF PlanStep, Finish, Planning
  <2> QED BY <1>5, <2>1 DEF Counted, Paced
<1>6. CASE p.step = "trial" /\ p.modified /\ p.remaining > 0
  <2>1. /\ q.step = "weigh" /\ ~q.modified
        /\ q.remaining = p.remaining /\ q.preallocated = p.preallocated
    BY <1>0, <1>6 DEF PlanStep, StartTrial, Planning
  <2> DEFINE u == Counted(p, q, t)
  <2>2. u \in Nat /\ u <= t + 1
    BY <1>6, <2>1, MaxTrialsAssumption DEF Counted, MinOf
  <2>3. Open(q) = Open(p)
    BY <2>1 DEF Open
  <2>4. t + Open(p) <= r.total
    BY <1>0, <1>6 DEF Paced
  <2> HIDE DEF u, q
  <2>5. u + Open(q) <= r.total + 1 /\ u <= r.total + 1
    BY <1>0, <1>1, <2>2, <2>3, <2>4
  <2> QED BY <2>1, <2>5 DEF Paced, u, q
<1>7. CASE p.step = "weigh"
  <2>1. /\ q.step \in {"weigh", "give"} /\ q.modified = p.modified
        /\ q.remaining = p.remaining /\ q.preallocated = p.preallocated
    BY <1>0, <1>7 DEF PlanStep, Goto, Weigh, Planning
  <2>2. Open(q) = Open(p)
    BY <2>1 DEF Open
  <2> QED BY <1>7, <2>1, <2>2 DEF Counted, Paced
<1>8. CASE TrialOver(p)
  <2>1. /\ q.step = "trial" /\ q.modified = p.modified /\ p.step = "give"
        /\ q.remaining = p.remaining /\ q.preallocated = p.preallocated
    BY <1>0, <1>8, EndsTrial
  <2>2. Open(q) = Open(p)
    BY <2>1 DEF Open
  <2> QED BY <2>1, <2>2 DEF Counted, Paced
<1> QED BY StepCases, <1>0, <1>2, <1>3, <1>4, <1>5, <1>6, <1>7, <1>8

\* There are not more trials than replicas, and one: every trial but the last
\* places a replica or takes one off those that are preallocated
\* (planner.go:144-155), for any number of clusters.
THEOREM TrialsPaced == Spec => []TrialsBounded
<1> DEFINE Inv == /\ request \in Request /\ planning \in Planning /\ trials \in Nat
                  /\ Conserving(request, planning) /\ Filled(request, planning)
                  /\ SaneRequest(request) => /\ Limited(request, planning)
                                             /\ Paced(request, planning, trials)
<1>1. Init => Inv
  <2>1. ASSUME NEW r \in Request
        PROVE Filled(r, StartPlanning(r)) /\ Paced(r, StartPlanning(r), 0)
    BY DEF Filled, Paced, StartPlanning, Request
  <2> QED
    BY <2>1, RequestsAssumption, StartTyped, StartLimited, StartConserves DEF Init
<1>2. Inv /\ [Next]_vars => Inv'
  <2> SUFFICES ASSUME Inv, Step PROVE Inv'
    BY DEF Next, vars
  <2>1. /\ request' = request /\ planning' = PlanStep(request, planning)
        /\ trials' = Counted(planning, planning', trials)
        /\ planning.step # "done"
    BY DEF Step, Counted
  <2>2. planning' \in Planning /\ Conserving(request, planning') /\ Filled(request, planning')
    BY <2>1, StepTyped, StepConserves, StepFilled
  <2>3. SaneRequest(request) => /\ Limited(request, planning')
                                /\ Paced(request, planning', trials')
    BY <2>1, StepLimited, StepPaced
  <2>4. trials' \in Nat
    BY <2>1, MaxTrialsAssumption DEF Counted, MinOf
  <2> QED BY <2>1, <2>2, <2>3, <2>4
<1>3. Inv => TrialsBounded
  BY DEF TrialsBounded, Sane, SaneRequest, Paced
<1> QED BY <1>1, <1>2, <1>3, PTL DEF Spec

-----------------------------------------------------------------------------
(* What runs stays *)

RunsIn(r, c) == {Capped(Capped(n, r.max[c]), r.capacity[c]) : n \in r.current[c]}

Needs(r) == [c \in Clusters |-> IF c \notin r.wanted THEN 0
               ELSE Max({MinimumFor(r, c)} \cup RunsIn(r, c))]

Enough(r) == Sum(Needs(r)) <= r.total

\* Until all is kept that runs, no cluster is planned more than it needs: there
\* is enough for what the others need.
Staid(r, p) ==
  /\ p.step = "minimum" => \A c \in Clusters : p.plan[c] <= Needs(r)[c]
  /\ p.step = "keep" => /\ \A c \in Clusters : p.plan[c] <= Needs(r)[c]
                        /\ \A c \in r.wanted \ p.todo : \A n \in RunsIn(r, c) :
                             p.plan[c] >= n
  /\ p.step \notin {"minimum", "keep"} =>
       \A c \in r.wanted : \A n \in RunsIn(r, c) : p.plan[c] >= n

\* A cluster needs no more than its minimum or what runs, and no less.
LEMMA NeedsBound ==
  ASSUME NEW r \in Request, NEW c \in r.wanted
  PROVE /\ Needs(r)[c] \in Int /\ MinimumFor(r, c) <= Needs(r)[c]
        /\ \A n \in RunsIn(r, c) : n \in Int /\ n <= Needs(r)[c]
<1> DEFINE S == {MinimumFor(r, c)} \cup RunsIn(r, c)
<1>1. /\ c \in Clusters /\ r.current[c] \in Optional(Nat)
      /\ r.max[c] \in Optional(Nat) /\ r.capacity[c] \in Optional(Int)
      /\ MinimumFor(r, c) \in Int
  BY MinimumForInt DEF Request
<1>2. ASSUME NEW n \in r.current[c]
      PROVE Capped(Capped(n, r.max[c]), r.capacity[c]) \in Int
  <2>1. n \in Int
    BY <1>1, OptionalInt
  <2>2. Capped(n, r.max[c]) \in Int
    BY <1>1, <2>1, CappedInt
  <2> QED BY <1>1, <2>2, CappedInt
<1>3. RunsIn(r, c) \subseteq Int /\ \A m, n \in RunsIn(r, c) : m = n
  BY <1>1, <1>2, OptionalInt DEF RunsIn
<1>4. S \subseteq Int
  BY <1>1, <1>3
<1>5. \E x \in S : \A y \in S : x >= y
  <2>1. CASE RunsIn(r, c) = {}
    BY <1>1, <2>1
  <2>2. CASE RunsIn(r, c) # {}
    <3>1. PICK n \in RunsIn(r, c) : \A m \in RunsIn(r, c) : m = n
      BY <1>3, <2>2
    <3>2. n \in Int
      BY <1>3
    <3>3. \A y \in S : y = n \/ y = MinimumFor(r, c)
      BY <3>1
    <3>4. n \in S /\ MinimumFor(r, c) \in S
      OBVIOUS
    <3> HIDE DEF S
    <3>5. n >= MinimumFor(r, c) => \A y \in S : n >= y
      BY <1>1, <3>2, <3>3
    <3>6. ~(n >= MinimumFor(r, c)) => \A y \in S : MinimumFor(r, c) >= y
      BY <1>1, <3>2, <3>3
    <3> QED BY <3>4, <3>5, <3>6
  <2> QED BY <2>1, <2>2
<1>6. Max(S) \in S /\ \A y \in S : Max(S) >= y
  <2> HIDE DEF S
  <2> QED BY <1>5 DEF Max
<1>7. Needs(r)[c] = Max(S)
  BY <1>1 DEF Needs
<1> QED BY <1>3, <1>4, <1>6, <1>7

LEMMA NeedsType ==
  ASSUME NEW r \in Request PROVE Needs(r) \in [Clusters -> Int]
<1>1. ASSUME NEW c \in Clusters PROVE Needs(r)[c] \in Int
  <2>1. CASE c \in r.wanted
    BY <2>1, NeedsBound
  <2>2. CASE c \notin r.wanted
    BY <2>2 DEF Needs
  <2> QED BY <2>1, <2>2
<1>2. DOMAIN Needs(r) = Clusters /\ Needs(r) = [c \in Clusters |-> Needs(r)[c]]
  BY DEF Needs
<1> QED BY <1>1, <1>2

\* There is enough left for what any one cluster still needs.
LEMMA EnoughLeft ==
  ASSUME NEW r \in Request, Enough(r), NEW p \in Planning, Conserving(r, p),
         \A c \in Clusters : p.plan[c] <= Needs(r)[c], NEW d \in Clusters
  PROVE Needs(r)[d] - p.plan[d] <= p.remaining
<1>1. p.plan \in [Clusters -> Int] /\ Needs(r) \in [Clusters -> Int]
  BY NeedsType DEF Planning
<1>2. Sum(Needs(r)) - Sum(p.plan) >= Needs(r)[d] - p.plan[d]
  BY <1>1, SumGrows
<1>3. /\ Sum(Needs(r)) \in Int /\ Sum(p.plan) \in Int /\ p.remaining \in Nat
      /\ r.total \in Nat /\ Needs(r)[d] \in Int /\ p.plan[d] \in Int
  BY <1>1, SumInt DEF Planning, Request
<1>4. Sum(Needs(r)) <= r.total /\ Sum(p.plan) + p.remaining = r.total
  BY DEF Enough, Conserving
<1> HIDE DEF Enough
<1> QED BY <1>2, <1>3, <1>4

LEMMA MinimumStaid ==
  ASSUME NEW r \in Request, NEW p \in Planning, Staid(r, p),
         p.step = "minimum", p.todo # {}, p.todo \subseteq r.wanted
  PROVE Staid(r, AssignMinimum(r, p))
<1> DEFINE c == First(r, p.todo)
           n == Minimum(r, p, c)
           q == AssignMinimum(r, p)
<1>1. c \in r.wanted /\ c \in Clusters
  BY FirstIn DEF Planning
<1>2. /\ n \in Int /\ n <= r.min[c]
      /\ \A m \in r.capacity[c] : n <= m
  BY <1>1, MinimumEffect
<1>3. q.plan = [p.plan EXCEPT ![c] = n] /\ q.step = "minimum"
  BY DEF AssignMinimum, Planning
<1> HIDE DEF c, n, q
<1>4. n <= MinimumFor(r, c)
  <2>1. r.min[c] \in Int /\ r.capacity[c] \in Optional(Int)
    BY <1>1 DEF Request
  <2>2. MinimumFor(r, c) = r.min[c] \/ MinimumFor(r, c) \in r.capacity[c]
    BY <2>1, CappedInt DEF MinimumFor
  <2> QED BY <1>2, <2>2
<1>5. n <= Needs(r)[c]
  BY <1>1, <1>2, <1>4, NeedsBound, MinimumForInt
<1>6. p.plan \in [Clusters -> Int]
  BY DEF Planning
<1>7. \A d \in Clusters : q.plan[d] <= Needs(r)[d]
  BY <1>3, <1>5, <1>6 DEF Staid
<1> QED BY <1>3, <1>7 DEF Staid, q

LEMMA KeepStaid ==
  ASSUME NEW r \in Request, Enough(r), NEW p \in Planning, Conserving(r, p),
         Staid(r, p), p.step = "keep", p.todo # {}, p.todo \subseteq r.wanted
  PROVE Staid(r, KeepRunning(r, p))
<1> DEFINE c == First(r, p.todo)
           k == CHOOSE n \in r.current[c] : TRUE
           n == Staying(r, p, c, k)
           fit == Capped(Capped(k, r.max[c]), r.capacity[c])
           q == KeepRunning(r, p)
<1>1. c \in r.wanted /\ c \in Clusters
  BY FirstIn DEF Planning
<1>2. q.step = "keep" /\ q.todo = p.todo \ {c}
  BY DEF KeepRunning, Keep, Planning
<1>3. /\ p.plan \in [Clusters -> Int] /\ p.plan[c] \in Int /\ p.remaining \in Nat
      /\ r.current[c] \in Optional(Nat)
      /\ r.max[c] \in Optional(Nat) /\ r.capacity[c] \in Optional(Int)
  BY <1>1 DEF Planning, Request
<1>4. CASE ~MoreRun(r, p, c)
  <2>1. q.plan = p.plan
    BY <1>4 DEF KeepRunning, Planning
  <2>2. ASSUME NEW m \in r.current[c]
        PROVE Capped(Capped(m, r.max[c]), r.capacity[c]) <= p.plan[c]
    <3>1. m \in Int /\ m <= p.plan[c]
      BY <1>3, <1>4, OptionalInt DEF MoreRun
    <3>2. Capped(m, r.max[c]) \in Int /\ Capped(m, r.max[c]) <= m
      BY <1>3, <3>1, CappedInt
    <3>3. /\ Capped(Capped(m, r.max[c]), r.capacity[c]) \in Int
          /\ Capped(Capped(m, r.max[c]), r.capacity[c]) <= Capped(m, r.max[c])
      BY <1>3, <3>2, CappedInt
    <3> QED BY <1>3, <3>1, <3>2, <3>3
  <2>3. \A m \in RunsIn(r, c) : p.plan[c] >= m
    BY <1>1, <1>3, <2>2, NeedsBound DEF RunsIn
  <2> HIDE DEF c, q
  <2> QED BY <1>2, <2>1, <2>3 DEF Staid, q
<1>5. CASE MoreRun(r, p, c)
  <2>1. /\ k \in Nat /\ k \in r.current[c]
        /\ \A m \in r.current[c] : m = k
    BY <1>3, <1>5 DEF MoreRun, Optional
  <2>2. q.plan = [p.plan EXCEPT ![c] = p.plan[c] + n]
    BY <1>5 DEF KeepRunning, Keep, Planning
  <2> HIDE DEF c, k
  <2>3. fit \in RunsIn(r, c) /\ \A m \in RunsIn(r, c) : m = fit
    BY <2>1 DEF RunsIn
  <2>4. fit \in Int /\ fit <= Needs(r)[c] /\ Needs(r)[c] \in Int
    BY <1>1, <2>3, NeedsBound
  <2>5. n = IF MinOf(fit - p.plan[c], p.remaining) < 0 THEN 0
            ELSE MinOf(fit - p.plan[c], p.remaining)
    BY DEF Staying
  <2> HIDE DEF fit, n, q
  <2>6. Needs(r)[c] - p.plan[c] <= p.remaining /\ p.plan[c] <= Needs(r)[c]
    BY <1>1, EnoughLeft DEF Staid
  <2>7. n = IF fit - p.plan[c] < 0 THEN 0 ELSE fit - p.plan[c]
    BY <1>3, <2>4, <2>5, <2>6 DEF MinOf
  <2>8. n \in Int /\ p.plan[c] + n >= fit /\ p.plan[c] + n <= Needs(r)[c]
    BY <1>3, <2>4, <2>6, <2>7
  <2>9. \A d \in Clusters : q.plan[d] = IF d = c THEN p.plan[c] + n ELSE p.plan[d]
    BY <1>3, <2>2
  <2>10. \A d \in Clusters : q.plan[d] <= Needs(r)[d]
    BY <2>8, <2>9 DEF Staid
  <2>11. ASSUME NEW d \in r.wanted \ q.todo, NEW m \in RunsIn(r, d)
         PROVE q.plan[d] >= m
    <3>1. d \in Clusters
      BY DEF Request
    <3>2. CASE d = c
      BY <2>3, <2>8, <2>9, <3>1, <3>2
    <3>3. CASE d # c
      BY <1>2, <2>9, <3>1, <3>3 DEF Staid
    <3> QED BY <3>2, <3>3
  <2> QED BY <1>2, <2>10, <2>11 DEF Staid, q
<1> QED BY <1>4, <1>5

\* Minimums and what runs are assigned to the clusters that are wanted.
WantedFirst(r, p) == p.step \in {"minimum", "keep"} => p.todo \subseteq r.wanted

LEMMA StepWanted ==
  ASSUME NEW r \in Request, NEW p \in Planning, WantedFirst(r, p), p.step # "done"
  PROVE WantedFirst(r, PlanStep(r, p))
<1>1. CASE p.step \in {"minimum", "keep"} /\ p.todo # {}
  BY <1>1
     DEF PlanStep, AssignMinimum, KeepRunning, Keep, WantedFirst, Planning
<1>2. CASE p.step \in {"minimum", "keep"} /\ p.todo = {}
  BY <1>2 DEF PlanStep, Goto, WantedFirst, Planning, Request
<1>3. CASE p.step \in {"trial", "weigh", "give"}
  BY <1>3, StepsOn DEF WantedFirst
<1> QED BY StepCases, <1>1, <1>2, <1>3

LEMMA StepStaid ==
  ASSUME NEW r \in Request, SaneRequest(r), Enough(r), ~r.rebalance,
         NEW p \in Planning, Limited(r, p), Conserving(r, p), WantedFirst(r, p),
         Staid(r, p), p.step # "done"
  PROVE Staid(r, PlanStep(r, p))
<1> DEFINE q == PlanStep(r, p)
<1>0. p \in Planning /\ q \in Planning
  BY StepTyped
<1>1. CASE p.step = "minimum" /\ p.todo # {}
  BY <1>0, <1>1, MinimumStaid DEF PlanStep, WantedFirst
<1>2. CASE p.step = "keep" /\ p.todo # {}
  BY <1>0, <1>2, KeepStaid DEF PlanStep, WantedFirst
<1>3. CASE p.step = "minimum" /\ p.todo = {}
  <2>1. q.step = "keep" /\ q.plan = p.plan /\ q.todo = r.wanted
    BY <1>0, <1>3 DEF PlanStep, Goto, Planning
  <2> QED BY <1>3, <2>1 DEF Staid
<1>4. CASE p.step = "keep" /\ p.todo = {}
  <2>1. q.step = "trial" /\ q.plan = p.plan
    BY <1>0, <1>4 DEF PlanStep, Goto, Planning
  <2> QED BY <1>4, <2>1 DEF Staid
<1>5. CASE p.step \in {"trial", "weigh", "give"}
  <2>1. q.step \notin {"minimum", "keep"}
    BY <1>5, StepsOn
  <2>2. Grows(p, q)
    BY StepGrows
  <2> HIDE DEF q
  <2>3. ASSUME NEW c \in r.wanted, NEW n \in RunsIn(r, c) PROVE q.plan[c] >= n
    <3>1. /\ c \in Clusters /\ n \in Int /\ p.plan[c] \in Int /\ q.plan[c] \in Int
      BY <1>0, NeedsBound DEF Planning, Request
    <3>2. p.plan[c] >= n /\ p.plan[c] <= q.plan[c]
      BY <1>5, <2>2, <3>1 DEF Staid, Grows
    <3> QED BY <3>1, <3>2
  <2> QED BY <2>1, <2>3 DEF Staid, q
<1> QED BY StepCases, <1>0, <1>1, <1>2, <1>3, <1>4, <1>5

\* Minimums are at least zero, so nothing is planned more than is needed at first.
LEMMA StartStaid ==
  ASSUME NEW r \in Request, SaneRequest(r) PROVE Staid(r, StartPlanning(r))
<1>1. ASSUME NEW c \in Clusters PROVE 0 <= Needs(r)[c]
  <2>1. CASE c \in r.wanted
    <3>1. /\ r.min[c] \in Nat /\ r.capacity[c] \in Optional(Int)
          /\ \A n \in r.capacity[c] : n >= 0
      BY DEF SaneRequest, Request
    <3>2. MinimumFor(r, c) \in Int /\ MinimumFor(r, c) >= 0
      BY <3>1, CappedInt DEF MinimumFor
    <3> QED BY <2>1, <3>2, NeedsBound
  <2>2. CASE c \notin r.wanted
    BY <2>2 DEF Needs
  <2> QED BY <2>1, <2>2
<1>2. /\ StartPlanning(r).step = "minimum"
      /\ \A c \in Clusters : StartPlanning(r).plan[c] = 0
  BY DEF StartPlanning
<1> QED BY <1>1, <1>2 DEF Staid

\* Without rebalancing, replicas that run stay where they are, as far as the
\* limits allow and if there are enough of them for what every cluster needs
\* (planner.go:112-142), for any number of clusters.
THEOREM RunningReplicasStay == Spec => []RunningStay
<1> DEFINE Apt(r) == SaneRequest(r) /\ ~r.rebalance /\ Enough(r)
           Inv == /\ request \in Request /\ planning \in Planning
                  /\ Conserving(request, planning) /\ WantedFirst(request, planning)
                  /\ SaneRequest(request) => Limited(request, planning)
                  /\ Apt(request) => Staid(request, planning)
<1>1. Init => Inv
  <2>1. ASSUME NEW r \in Request PROVE WantedFirst(r, StartPlanning(r))
    BY DEF WantedFirst, StartPlanning
  <2> QED
    BY <2>1, RequestsAssumption, StartTyped, StartLimited, StartConserves, StartStaid
       DEF Init
<1>2. Inv /\ [Next]_vars => Inv'
  <2> SUFFICES ASSUME Inv, Step PROVE Inv'
    BY DEF Next, vars
  <2>1. /\ request' = request /\ planning' = PlanStep(request, planning)
        /\ planning.step # "done"
    BY DEF Step
  <2>2. /\ planning' \in Planning /\ Conserving(request, planning')
        /\ WantedFirst(request, planning')
    BY <2>1, StepTyped, StepConserves, StepWanted
  <2>3. SaneRequest(request) => Limited(request, planning')
    BY <2>1, StepLimited
  <2>4. Apt(request) => Staid(request, planning')
    BY <2>1, StepStaid
  <2> QED BY <2>1, <2>2, <2>3, <2>4
<1>3. Inv => RunningStay
  <2>1. Needed = Needs(request)
    BY DEF Needed, Needs, Runs, RunsIn, MinimumFor
  <2> SUFFICES ASSUME Inv, planning.step = "done", ~request.rebalance,
                      \A c \in Clusters : Sane(c),
                      SumFunctionOnSet(Needed, Clusters) <= request.total
               PROVE \A c \in request.wanted : \A n \in Runs(c) : planning.plan[c] >= n
    BY DEF RunningStay
  <2>2. SaneRequest(request) /\ Enough(request)
    BY <2>1 DEF SaneRequest, Sane, Enough, Sum
  <2> QED BY <2>2 DEF Staid, Runs, RunsIn
<1> QED BY <1>1, <1>2, <1>3, PTL DEF Spec

-----------------------------------------------------------------------------
(* The planning ends *)

\* The loops inside a trial, and those before the trials, go through clusters.
Size == Cardinality(Clusters) + 1

Rank(p) == CASE p.step = "minimum"         -> Size + Size + Size + Cardinality(p.todo)
             [] p.step \in {"keep", "weigh"} -> Size + Size + Cardinality(p.todo)
             [] p.step = "give"            -> Size + Cardinality(p.todo)
             [] OTHER                      -> 0

LEMMA SizeOfTodo ==
  /\ Size \in Nat /\ Size > 0
  /\ \A S \in SUBSET Clusters :
       /\ Cardinality(S) \in Nat /\ Cardinality(S) < Size
       /\ \A c \in S : Cardinality(S \ {c}) = Cardinality(S) - 1
<1>1. Cardinality(Clusters) \in Nat
  BY ClustersAssumption, FS_CardinalityType
<1>2. ASSUME NEW S \in SUBSET Clusters
      PROVE /\ Cardinality(S) \in Nat /\ Cardinality(S) < Size
            /\ \A c \in S : Cardinality(S \ {c}) = Cardinality(S) - 1
  <2>1. IsFiniteSet(S) /\ Cardinality(S) <= Cardinality(Clusters)
    BY ClustersAssumption, FS_Subset
  <2> QED BY <1>1, <2>1, FS_CardinalityType, FS_RemoveElement DEF Size
<1> QED BY <1>1, <1>2 DEF Size

LEMMA RankFalls ==
  ASSUME NEW r \in Request, NEW p \in Planning, p.step \notin {"trial", "done"}
  PROVE /\ Rank(p) \in Nat /\ Rank(PlanStep(r, p)) \in Nat
        /\ Rank(PlanStep(r, p)) < Rank(p)
<1> DEFINE q == PlanStep(r, p)
           c == First(r, p.todo)
<1>1. /\ p.todo \in SUBSET Clusters /\ q.todo \in SUBSET Clusters
      /\ p.todo # {} => c \in p.todo
  <2>1. q \in Planning
    BY StepTyped
  <2> QED BY <2>1, FirstIn DEF Planning
<1>2. ASSUME p.todo # {}, ~TrialOver(p)
      PROVE q.todo = p.todo \ {c} /\ q.step = p.step
  <2>1. CASE p.step = "minimum"
    BY <1>2, <2>1 DEF PlanStep, AssignMinimum, Planning
  <2>2. CASE p.step = "keep"
    BY <1>2, <2>2 DEF PlanStep, KeepRunning, Keep, Planning
  <2>3. CASE p.step = "weigh"
    BY <1>2, <2>3 DEF PlanStep, Weigh, Planning
  <2>4. CASE p.step = "give"
    <3>1. q = Give(r, p)
      BY <1>2, <2>4, StepCases, Gives
    <3> QED BY <3>1 DEF Give, Planning
  <2> QED BY <2>1, <2>2, <2>3, <2>4, StepCases
<1>3. CASE p.todo # {} /\ ~TrialOver(p)
  <2>1. q.todo = p.todo \ {c} /\ q.step = p.step /\ c \in p.todo
    BY <1>1, <1>2, <1>3
  <2> HIDE DEF c, q
  <2>2. Cardinality(q.todo) = Cardinality(p.todo) - 1
    BY <1>1, <2>1, SizeOfTodo
  <2>3. Cardinality(p.todo) \in Nat /\ Cardinality(q.todo) \in Nat
    BY <1>1, SizeOfTodo
  <2> QED BY <2>1, <2>2, <2>3, SizeOfTodo, StepCases DEF Rank, q
<1>4. CASE TrialOver(p)
  <2>1. q.step = "trial" /\ p.step = "give"
    BY <1>4, EndsTrial
  <2> HIDE DEF c, q
  <2> QED BY <1>1, <2>1, SizeOfTodo DEF Rank, q
<1>5. CASE p.todo = {} /\ ~TrialOver(p)
  <2>1. \/ p.step = "minimum" /\ q.step \in {"keep", "trial"}
        \/ p.step = "keep" /\ q.step = "trial"
        \/ p.step = "weigh" /\ q.step = "give"
    <3>1. p.step # "give"
      BY <1>5 DEF TrialOver
    <3> QED BY <1>5, <3>1, StepCases DEF PlanStep, Goto, Planning
  <2>2. /\ Cardinality(p.todo) \in Nat /\ Cardinality(q.todo) \in Nat
        /\ Cardinality(q.todo) < Size /\ Size \in Nat
    BY <1>1, SizeOfTodo
  <2> HIDE DEF c, q
  <2> QED BY <2>1, <2>2 DEF Rank, q
<1> QED BY <1>3, <1>4, <1>5

\* So a set that the steps do not leave has a planning in it that is about to
\* start a trial, or done.
LEMMA ToTrial ==
  ASSUME NEW r \in Request, NEW S \in SUBSET Planning, S # {},
         \A p \in S : p.step \notin {"trial", "done"} => PlanStep(r, p) \in S
  PROVE \E p \in S : p.step \in {"trial", "done"}
<1> SUFFICES ASSUME \A p \in S : p.step \notin {"trial", "done"} PROVE FALSE
  OBVIOUS
<1> DEFINE N == {Rank(p) : p \in S}
<1>1. N \in SUBSET Nat /\ N # {}
  BY RankFalls
<1>2. PICK k \in N : \A m \in N : k <= m
  <2> HIDE DEF N
  <2> QED BY <1>1, SmallestOf
<1>3. PICK p \in S : k = Rank(p)
  BY <1>2
<1>4. Rank(PlanStep(r, p)) \in N
  OBVIOUS
<1>5. k <= Rank(PlanStep(r, p))
  BY <1>2, <1>4
<1> QED BY <1>3, <1>5, RankFalls

\* In a trial that was started at t, p has not found anything yet, or has found
\* a cluster that is full, or has taken what it changed off what is open.
Found(t, p, S) ==
  /\ S \subseteq t.active
  /\ S = t.active => Open(p) + (IF p.modified THEN 1 ELSE 0) <= Open(t)

InTrial(t, p) ==
  \/ /\ p.step = "weigh" /\ p.active = t.active /\ p.kept = {}
     /\ ~p.modified /\ Open(p) = Open(t)
  \/ /\ p.step = "give" /\ p.todo \cap p.kept = {}
     /\ Found(t, p, p.todo \cup p.kept)
  \/ /\ p.step = "trial"
     /\ Found(t, p, p.active)

LEMMA GiveInTrial ==
  ASSUME NEW r \in Request, NEW t \in Planning, NEW p \in Planning, InTrial(t, p),
         p.step = "give", p.todo # {}, p.sum > 0
  PROVE InTrial(t, Give(r, p))
<1> DEFINE q == Give(r, p)
<1>0. q \in Planning
  BY GiveTyped
<1>1. PICK c \in p.todo, used \in Nat, asked \in Int, n \in Int :
        GiveTo(r, p, q, c, used, asked, n)
  BY GiveEffect
<1>2. PICK over \in Nat : q = Given(p, c, used, asked, n, over)
  <2> HIDE DEF q
  <2> QED BY <1>1 DEF GiveTo
<1> HIDE DEF q
<1>3. /\ q.step = "give" /\ q.todo = p.todo \ {c}
      /\ q.preallocated = [p.preallocated EXCEPT ![c] = p.preallocated[c] - used]
      /\ q.remaining = p.remaining - (n - p.plan[c])
      /\ q.kept = IF n = asked THEN p.kept \cup {c} ELSE p.kept
  BY <1>2 DEF Given, Planning
<1>4. q.modified = (p.modified \/ used > 0 \/ n > p.plan[c])
  BY <1>2, Zenon DEF Given, Planning
<1>5. p.todo \cap p.kept = {} /\ Found(t, p, p.todo \cup p.kept)
  BY DEF InTrial
<1>6. /\ c \in Clusters /\ p.plan[c] \in Int
      /\ p.preallocated \in [Clusters -> Int] /\ p.preallocated[c] \in Nat
      /\ p.remaining \in Nat
  BY DEF Planning
<1>7. q.todo \cap q.kept = {} /\ q.todo \cup q.kept \subseteq p.todo \cup p.kept
  BY <1>3, <1>5
<1>8. CASE n # asked
  <2>1. c \notin q.todo \cup q.kept
    BY <1>1, <1>3, <1>5, <1>8
  <2>2. q.todo \cup q.kept \subseteq t.active /\ q.todo \cup q.kept # t.active
    BY <1>5, <1>7, <2>1 DEF Found
  <2> QED BY <1>3, <1>7, <2>2 DEF InTrial, Found, q
<1>9. CASE n = asked
  <2>1. q.todo \cup q.kept = p.todo \cup p.kept
    BY <1>3, <1>9
  <2>2. p.plan[c] <= n /\ used <= p.preallocated[c]
    BY <1>1, <1>9 DEF GiveTo
  <2>3. Sum(q.preallocated) = Sum(p.preallocated) - used
    <3> DEFINE left == p.preallocated[c] - used
    <3>1. left \in Int /\ q.preallocated = [p.preallocated EXCEPT ![c] = left]
      BY <1>3, <1>6
    <3> HIDE DEF left
    <3>2. Sum(q.preallocated) = Sum(p.preallocated) + left - p.preallocated[c]
      BY <1>6, <3>1, SumUpdated
    <3> QED BY <1>6, <3>2, OpenNat DEF left
  <2>4. Open(q) = Open(p) - used - (n - p.plan[c])
    BY <1>3, <1>6, <2>3, OpenNat DEF Open
  <2>5. Open(q) \in Nat /\ Open(p) \in Nat /\ Open(t) \in Nat
    BY <1>0, OpenNat
  <2>6. ASSUME Open(p) + (IF p.modified THEN 1 ELSE 0) <= Open(t)
        PROVE Open(q) + (IF q.modified THEN 1 ELSE 0) <= Open(t)
    <3>1. CASE p.modified
      <4>1. q.modified
        BY <1>4, <3>1
      <4>2. Open(p) + 1 <= Open(t)
        BY <2>6, <3>1
      <4> QED BY <1>6, <2>2, <2>4, <2>5, <4>1, <4>2
    <3>2. CASE ~p.modified /\ (used > 0 \/ n > p.plan[c])
      <4>1. q.modified
        BY <1>4, <3>2
      <4>2. Open(p) <= Open(t)
        BY <2>5, <2>6, <3>2
      <4> QED BY <1>6, <2>2, <2>4, <2>5, <3>2, <4>1, <4>2
    <3>3. CASE ~p.modified /\ ~(used > 0 \/ n > p.plan[c])
      <4>1. ~q.modified
        BY <1>4, <3>3
      <4>2. Open(p) <= Open(t)
        BY <2>5, <2>6, <3>3
      <4> QED BY <1>6, <2>2, <2>4, <2>5, <4>1, <4>2
    <3> QED BY <3>1, <3>2, <3>3
  <2>7. Found(t, q, q.todo \cup q.kept)
    BY <1>5, <2>1, <2>6 DEF Found
  <2> QED BY <1>3, <1>7, <2>7 DEF InTrial, q
<1> QED BY <1>8, <1>9

LEMMA TrialGoesOn ==
  ASSUME NEW r \in Request, NEW t \in Planning, NEW p \in Planning, InTrial(t, p),
         p.step # "trial"
  PROVE InTrial(t, PlanStep(r, p))
<1> DEFINE q == PlanStep(r, p)
<1>1. CASE Giving(p)
  BY <1>1, Gives, GiveInTrial
<1>2. CASE TrialOver(p)
  <2>1. /\ q.step = "trial" /\ q.active = p.kept /\ p.step = "give"
        /\ q.remaining = p.remaining /\ q.preallocated = p.preallocated
        /\ q.modified = p.modified
    BY <1>2, EndsTrial
  <2>2. Open(q) = Open(p)
    BY <2>1 DEF Open
  <2> HIDE DEF q
  <2>3. p.todo \cap p.kept = {} /\ Found(t, p, p.todo \cup p.kept)
    BY <2>1 DEF InTrial
  <2>4. p.kept = t.active => p.todo = {}
    BY <2>3 DEF Found
  <2>5. Found(t, q, p.kept)
    BY <2>1, <2>2, <2>3, <2>4 DEF Found
  <2> QED BY <2>1, <2>5 DEF InTrial, q
<1>3. CASE p.step = "weigh"
  <2>1. /\ p.active = t.active /\ p.kept = {} /\ ~p.modified /\ Open(p) = Open(t)
    BY <1>3 DEF InTrial
  <2>2. /\ q.active = p.active /\ q.kept = p.kept /\ ~q.modified
        /\ q.remaining = p.remaining /\ q.preallocated = p.preallocated
        /\ q.step = "weigh" \/ (q.step = "give" /\ q.todo = p.active)
    BY <1>3, <2>1 DEF PlanStep, Goto, Weigh, Planning
  <2>3. Open(q) = Open(t) /\ Open(t) \in Nat
    BY <2>1, <2>2, OpenNat DEF Open
  <2> HIDE DEF q
  <2>4. CASE q.step = "weigh"
    BY <2>1, <2>2, <2>3, <2>4 DEF InTrial, q
  <2>5. CASE q.step = "give" /\ q.todo = p.active
    <3>1. Found(t, q, q.todo \cup q.kept)
      BY <2>1, <2>2, <2>3, <2>5 DEF Found
    <3> QED BY <2>1, <2>2, <2>5, <3>1 DEF InTrial, q
  <2> QED BY <2>2, <2>4, <2>5
<1> QED BY <1>1, <1>2, <1>3, StepCases DEF InTrial

\* A set of plannings that the steps do not leave has one that is done: the trial
\* that starts with the fewest clusters, and of these with the least open, finds
\* nothing, and the loop is left.
LEMMA SomeDone ==
  ASSUME NEW r \in Request, NEW B \in SUBSET Planning, B # {},
         \A p \in B : p.step # "done" => PlanStep(r, p) \in B
  PROVE \E p \in B : p.step = "done"
<1> SUFFICES ASSUME \A p \in B : p.step # "done" PROVE FALSE
  OBVIOUS
<1> DEFINE T == {p \in B : p.step = "trial"}
           Sizes == {Cardinality(p.active) : p \in T}
<1>1. T # {}
  BY ToTrial
<1>2. \A p \in T : p \in Planning /\ Cardinality(p.active) \in Nat
  BY SizeOfTodo DEF Planning
<1>3. PICK k \in Sizes : \A m \in Sizes : k <= m
  <2>1. Sizes \in SUBSET Nat /\ Sizes # {}
    BY <1>1, <1>2
  <2> HIDE DEF Sizes
  <2> QED BY <2>1, SmallestOf
<1> DEFINE Fewest == {p \in T : Cardinality(p.active) = k}
           Opens  == {Open(p) : p \in Fewest}
<1>4. PICK m \in Opens : \A n \in Opens : m <= n
  <2>1. Opens \in SUBSET Nat /\ Opens # {}
    BY <1>2, <1>3, OpenNat
  <2> HIDE DEF Opens
  <2> QED BY <2>1, SmallestOf
<1>5. PICK t \in Fewest : Open(t) = m
  BY <1>4
<1>6. /\ t \in B /\ t \in Planning /\ t.step = "trial" /\ Cardinality(t.active) = k
      /\ \A p \in T : Cardinality(t.active) <= Cardinality(p.active)
      /\ \A p \in T : Cardinality(p.active) = k => Open(t) <= Open(p)
  BY <1>3, <1>4, <1>5
<1> HIDE DEF Sizes, Opens, Fewest
<1>7. \A p \in T : p.modified /\ p.remaining > 0
  <2> SUFFICES ASSUME NEW p \in T, ~(p.modified /\ p.remaining > 0) PROVE FALSE
    OBVIOUS
  <2>1. PlanStep(r, p).step = "done"
    BY <1>2 DEF PlanStep, Finish, Planning
  <2>2. PlanStep(r, p) \in B
    OBVIOUS
  <2> QED BY <2>1, <2>2
<1> DEFINE S == {p \in B : InTrial(t, p)}
<1>8. StartTrial(t) \in S
  <2> DEFINE s == StartTrial(t)
  <2>1. t \in T
    BY <1>6
  <2>2. s = PlanStep(r, t)
    BY <1>6, <1>7, <2>1 DEF PlanStep
  <2>3. s \in B
    BY <1>6, <2>2
  <2>4. /\ s.step = "weigh" /\ s.active = t.active /\ s.kept = {} /\ ~s.modified
        /\ s.remaining = t.remaining /\ s.preallocated = t.preallocated
    BY <1>6 DEF StartTrial, Planning
  <2>5. Open(s) = Open(t)
    BY <2>4 DEF Open
  <2> HIDE DEF s
  <2>6. InTrial(t, s)
    BY <2>4, <2>5 DEF InTrial
  <2> QED BY <2>3, <2>6 DEF s
<1>9. PICK u \in S : u.step \in {"trial", "done"}
  <2>1. S \in SUBSET Planning /\ S # {}
    BY <1>8
  <2>2. \A p \in S : p.step \notin {"trial", "done"} => PlanStep(r, p) \in S
    BY <1>6, TrialGoesOn
  <2> HIDE DEF S
  <2> QED BY <2>1, <2>2, ToTrial
<1>10. u \in T /\ InTrial(t, u)
  BY <1>9
<1> HIDE DEF S, T
<1>11. Found(t, u, u.active)
  BY <1>2, <1>10 DEF InTrial, T
<1>12. u.active \in SUBSET t.active /\ t.active \in SUBSET Clusters
  BY <1>6, <1>11 DEF Found, Planning
<1>13. CASE u.active # t.active
  <2>1. Cardinality(u.active) < Cardinality(t.active)
    <3>1. IsFiniteSet(t.active)
      BY <1>12, ClustersAssumption, FS_Subset
    <3>2. u.active \subseteq t.active /\ u.active # t.active
      BY <1>12, <1>13
    <3>3. Cardinality(u.active) <= Cardinality(t.active)
      BY <3>1, <3>2, FS_Subset
    <3>4. Cardinality(u.active) # Cardinality(t.active)
      BY <3>1, <3>2, FS_Subset
    <3>5. Cardinality(u.active) \in Nat /\ Cardinality(t.active) \in Nat
      BY <1>12, SizeOfTodo
    <3> QED BY <3>3, <3>4, <3>5
  <2> QED BY <1>2, <1>6, <1>10, <2>1, SizeOfTodo, <1>12
<1>14. CASE u.active = t.active
  <2>1. Open(u) + 1 <= Open(t)
    BY <1>7, <1>10, <1>11, <1>14 DEF Found
  <2>2. Open(t) <= Open(u)
    BY <1>6, <1>10, <1>14
  <2>3. Open(u) \in Nat /\ Open(t) \in Nat
    BY <1>2, <1>6, <1>10, OpenNat
  <2> QED BY <2>1, <2>2, <2>3
<1> QED BY <1>13, <1>14

\* Every planning comes to an end after finitely many steps (the TODO at
\* planner.go:152), for any clusters and any request, sane or not: no run of
\* Plan's loops goes on for ever.
THEOREM EveryPlanningEnds ==
  ASSUME NEW r \in Request, NEW run,
         run[0] = StartPlanning(r),
         \A i \in Nat : run[i].step # "done" => run[i + 1] = PlanStep(r, run[i])
  PROVE \E i \in Nat : run[i].step = "done"
<1> SUFFICES ASSUME \A i \in Nat : run[i].step # "done" PROVE FALSE
  OBVIOUS
<1> DEFINE Wrong == {i \in Nat : run[i] \notin Planning}
           B == {run[i] : i \in Nat}
<1>1. Wrong = {}
  <2> SUFFICES ASSUME Wrong # {} PROVE FALSE
    OBVIOUS
  <2>1. PICK k \in Wrong : \A m \in Wrong : k <= m
    <3>1. Wrong \in SUBSET Nat
      OBVIOUS
    <3> HIDE DEF Wrong
    <3> QED BY <3>1, SmallestOf
  <2>2. k # 0
    BY StartTyped
  <2>3. k - 1 \in Nat /\ k - 1 \notin Wrong
    BY <2>1, <2>2
  <2>4. run[k - 1] \in Planning /\ run[(k - 1) + 1] = PlanStep(r, run[k - 1])
    BY <2>3
  <2>5. run[(k - 1) + 1] \in Planning
    BY <2>3, <2>4, StepTyped
  <2> QED BY <2>5
<1>2. B \in SUBSET Planning /\ B # {}
  BY <1>1
<1>3. \A p \in B : p.step # "done" /\ PlanStep(r, p) \in B
  <2> SUFFICES ASSUME NEW i \in Nat
               PROVE run[i].step # "done" /\ PlanStep(r, run[i]) \in B
    OBVIOUS
  <2>1. run[i + 1] = PlanStep(r, run[i]) /\ i + 1 \in Nat
    OBVIOUS
  <2> QED BY <2>1
<1> HIDE DEF B
<1> QED BY <1>2, <1>3, SomeDone

-----------------------------------------------------------------------------
(* What is planned *)

Outcome(p) == [c \in Clusters |-> p.plan[c] + p.overflow[c]]

\* f has the outcome of a planning that is done, and goes on with one that is not.
Follows(r, f) ==
  f = [p \in Planning |-> IF p.step = "done" THEN Outcome(p) ELSE f[PlanStep(r, p)]]

\* Plannings that the steps do not leave.
Closed(r, S) == \A p \in S : p.step # "done" => PlanStep(r, p) \in S

\* The ends that every set has that p is in and the steps do not leave.
DoneFrom(r, p) ==
  {q \in Planning : q.step = "done" /\ \A S \in SUBSET Planning :
                                         p \in S /\ Closed(r, S) => q \in S}

LEMMA DoneFromDone ==
  ASSUME NEW r \in Request, NEW p \in Planning, p.step = "done"
  PROVE DoneFrom(r, p) = {p}
<1>1. {p} \in SUBSET Planning /\ Closed(r, {p})
  BY DEF Closed
<1> QED BY <1>1 DEF DoneFrom

LEMMA DoneFromStep ==
  ASSUME NEW r \in Request, NEW p \in Planning, p.step # "done"
  PROVE DoneFrom(r, p) = DoneFrom(r, PlanStep(r, p))
<1>1. ASSUME NEW q \in DoneFrom(r, PlanStep(r, p)) PROVE q \in DoneFrom(r, p)
  <2>1. ASSUME NEW S \in SUBSET Planning, p \in S, Closed(r, S)
        PROVE PlanStep(r, p) \in S
    BY <2>1 DEF Closed
  <2> QED BY <1>1, <2>1 DEF DoneFrom
<1>2. ASSUME NEW q \in DoneFrom(r, p) PROVE q \in DoneFrom(r, PlanStep(r, p))
  <2> SUFFICES ASSUME NEW S \in SUBSET Planning, PlanStep(r, p) \in S, Closed(r, S)
               PROVE q \in S
    BY <1>2 DEF DoneFrom
  <2>1. S \cup {p} \in SUBSET Planning /\ Closed(r, S \cup {p})
    BY DEF Closed
  <2>2. q \in S \cup {p} /\ q # p
    BY <1>2, <2>1 DEF DoneFrom
  <2> QED BY <2>2
<1> QED BY <1>1, <1>2

\* The recursion of PlannedReplicas has a solution, whether or not a planning that
\* nothing leads to would come to an end.
LEMMA SomeFollows == ASSUME NEW r \in Request PROVE \E f : Follows(r, f)
<1> DEFINE f == [p \in Planning |-> Outcome(CHOOSE q \in DoneFrom(r, p) : TRUE)]
<1>1. ASSUME NEW p \in Planning, p.step = "done" PROVE f[p] = Outcome(p)
  <2>1. DoneFrom(r, p) = {p}
    BY <1>1, DoneFromDone
  <2>2. (CHOOSE q \in {p} : TRUE) = p
    OBVIOUS
  <2> QED BY <2>1, <2>2
<1>2. ASSUME NEW p \in Planning, p.step # "done" PROVE f[p] = f[PlanStep(r, p)]
  BY <1>2, StepTyped, DoneFromStep
<1>3. f = [p \in Planning |-> f[p]]
  OBVIOUS
<1> HIDE DEF f
<1>4. f = [p \in Planning |-> IF p.step = "done" THEN Outcome(p) ELSE f[PlanStep(r, p)]]
  BY <1>1, <1>2, <1>3
<1> QED BY <1>4 DEF Follows

\* What is true of the first planning and stays true in every step is true of the
\* planning that the recursion ends with.
LEMMA FollowsReached ==
  ASSUME NEW r \in Request, NEW f, Follows(r, f), NEW S \in SUBSET Planning,
         StartPlanning(r) \in S, Closed(r, S)
  PROVE \E p \in S : p.step = "done" /\ f[StartPlanning(r)] = Outcome(p)
<1>1. \A p \in Planning : f[p] = IF p.step = "done" THEN Outcome(p) ELSE f[PlanStep(r, p)]
  BY Zenon DEF Follows
<1> DEFINE B == {p \in S : f[p] = f[StartPlanning(r)]}
<1>2. B \in SUBSET Planning /\ B # {}
  OBVIOUS
<1>3. \A p \in B : p.step # "done" => PlanStep(r, p) \in B
  BY <1>1 DEF Closed
<1>4. PICK p \in B : p.step = "done"
  <2> HIDE DEF B
  <2> QED BY <1>2, <1>3, SomeDone
<1> QED BY <1>1, <1>4

LEMMA PlannedReached ==
  ASSUME NEW r \in Request, NEW S \in SUBSET Planning,
         StartPlanning(r) \in S, Closed(r, S)
  PROVE \E p \in S : p.step = "done" /\ PlannedReplicas[r] = Outcome(p)
<1> DEFINE f == CHOOSE g : Follows(r, g)
<1>1. Follows(r, f)
  BY SomeFollows
<1>2. PlannedReplicas[r] = f[StartPlanning(r)]
  BY Zenon DEF PlannedReplicas, Follows, Outcome
<1> HIDE DEF f
<1> QED BY <1>1, <1>2, FollowsReached

\* The planner gives every cluster a number of replicas, perhaps below zero, for
\* any request (planner.go:67-232).
LEMMA FollowsTyped ==
  ASSUME NEW r \in Request, NEW f, Follows(r, f)
  PROVE f[StartPlanning(r)] \in [Clusters -> Int]
<1>1. Closed(r, Planning) /\ StartPlanning(r) \in Planning
  BY StepTyped, StartTyped DEF Closed
<1>2. PICK p \in Planning : f[StartPlanning(r)] = Outcome(p)
  BY <1>1, FollowsReached
<1>3. p.plan \in [Clusters -> Int] /\ p.overflow \in [Clusters -> Nat]
  BY DEF Planning
<1> QED BY <1>2, <1>3 DEF Outcome

\* Without rebalancing, no more overflows than is left over.
Trimmed(r, p) ==
  p.step = "done" /\ ~r.rebalance => \A c \in Clusters : p.overflow[c] <= p.remaining

LEMMA StepTrimmed ==
  ASSUME NEW r \in Request, NEW p \in Planning, p.step # "done"
  PROVE Trimmed(r, PlanStep(r, p))
<1> USE DEF Planning
<1>1. CASE p.step = "trial" /\ ~(p.modified /\ p.remaining > 0)
  <2>1. PlanStep(r, p) = Finish(r, p)
    BY <1>1 DEF PlanStep
  <2>2. \A c \in Clusters : MinOf(p.overflow[c], p.remaining) <= p.remaining
    BY DEF MinOf
  <2>3. Finish(r, p).remaining = p.remaining
    BY DEF Finish
  <2>4. ~r.rebalance => \A c \in Clusters : Finish(r, p).overflow[c]
                                              = MinOf(p.overflow[c], p.remaining)
    BY DEF Finish
  <2> QED BY <2>1, <2>2, <2>3, <2>4 DEF Trimmed
<1>2. CASE p.step = "trial" /\ p.modified /\ p.remaining > 0
  BY <1>2 DEF PlanStep, StartTrial, Trimmed
<1>3. CASE p.step = "minimum" /\ p.todo # {}
  BY <1>3 DEF PlanStep, AssignMinimum, Trimmed
<1>4. CASE p.step = "keep" /\ p.todo # {}
  BY <1>4 DEF PlanStep, KeepRunning, Keep, Trimmed
<1>5. CASE p.step \in {"minimum", "keep"} /\ p.todo = {}
  BY <1>5 DEF PlanStep, Goto, Trimmed
<1>6. CASE p.step = "weigh"
  BY <1>6 DEF PlanStep, Goto, Weigh, Trimmed
<1>7. CASE Giving(p)
  <2>1. Give(r, p).step = p.step
    BY DEF Give
  <2> QED BY <1>7, <2>1, Gives DEF Trimmed, Giving
<1>8. CASE TrialOver(p)
  BY <1>8, EndsTrial DEF Trimmed
<1> QED BY StepCases, <1>1, <1>2, <1>3, <1>4, <1>5, <1>6, <1>7, <1>8

\* No cluster is scheduled less than nothing or more than its maximum, what
\* overflows included (planner.go:103-231, scheduler.go:294-308): no sane
\* preference makes the scheduler write replicas that the API of a member refuses.
THEOREM ScheduleWithinLimits ==
  ASSUME NEW r \in Request, SaneRequest(r), NEW c \in Clusters
  PROVE /\ PlannedReplicas[r][c] >= 0
        /\ \A n \in r.max[c] : PlannedReplicas[r][c] <= n
<1> DEFINE S == {p \in Planning : Limited(r, p)}
<1>1. StartPlanning(r) \in S /\ Closed(r, S)
  BY StartTyped, StartLimited, StepTyped, StepLimited DEF Closed
<1>2. PICK p \in S : PlannedReplicas[r] = Outcome(p)
  <2> HIDE DEF S
  <2>1. S \in SUBSET Planning
    BY DEF S
  <2> QED BY <1>1, <2>1, PlannedReached
<1>3. WithinFor(r, p, c) /\ p.plan[c] \in Int /\ p.overflow[c] \in Nat
  BY <1>2 DEF Limited, Planning
<1>4. PlannedReplicas[r][c] = p.plan[c] + p.overflow[c]
  BY <1>2 DEF Outcome
<1> QED BY <1>3, <1>4 DEF WithinFor

\* If some cluster of the preference has a weight and no limit, all the replicas
\* are scheduled, and without rebalancing no replica is scheduled twice, whatever
\* overflows (planner.go:218-231): with rebalancing, what a capacity estimate
\* refuses is kept where it waits and scheduled elsewhere as well.
THEOREM AllReplicasScheduled ==
  ASSUME NEW r \in Request, NEW d \in r.wanted,
         r.weight[d] > 0, r.max[d] = {}, r.capacity[d] = {}
  PROVE /\ Sum(PlannedReplicas[r]) >= r.total
        /\ ~r.rebalance => Sum(PlannedReplicas[r]) = r.total
<1> DEFINE S == {p \in Planning : Filled(r, p) /\ Conserving(r, p) /\ Trimmed(r, p)}
<1>1. StartPlanning(r) \in S
  <2>1. Filled(r, StartPlanning(r)) /\ Trimmed(r, StartPlanning(r))
    BY DEF Filled, Trimmed, StartPlanning
  <2> QED BY <2>1, StartTyped, StartConserves
<1>2. Closed(r, S)
  BY StepTyped, StepFilled, StepConserves, StepTrimmed DEF Closed
<1>3. PICK p \in S : p.step = "done" /\ PlannedReplicas[r] = Outcome(p)
  <2> HIDE DEF S
  <2>1. S \in SUBSET Planning
    BY DEF S
  <2> QED BY <1>1, <1>2, <2>1, PlannedReached
<1>4. /\ p.plan \in [Clusters -> Int] /\ p.overflow \in [Clusters -> Nat]
      /\ p.remaining \in Nat /\ d \in Clusters /\ r.total \in Nat
  BY <1>3 DEF Planning, Request
<1>5. p.remaining = 0
  BY <1>3, <1>4 DEF Filled, FullBut, FullIn
<1>6. Sum(p.plan) = r.total
  BY <1>3, <1>4, <1>5, SumInt DEF Conserving
<1>7. Outcome(p) \in [Clusters -> Int] /\ \A c \in Clusters : p.plan[c] <= Outcome(p)[c]
  BY <1>4 DEF Outcome
<1>8. Sum(p.plan) <= Sum(Outcome(p))
  BY <1>4, <1>7, SumGrows
<1>9. ~r.rebalance => Outcome(p) = p.plan
  <2>1. ~r.rebalance => \A c \in Clusters : p.overflow[c] = 0
    BY <1>3, <1>4, <1>5 DEF Trimmed
  <2>2. ~r.rebalance => \A c \in Clusters : Outcome(p)[c] = p.plan[c]
    BY <1>4, <2>1 DEF Outcome
  <2> QED BY <1>4, <1>7, <2>2
<1>10. Sum(Outcome(p)) \in Int
  BY <1>7, SumInt
<1> QED BY <1>3, <1>6, <1>8, <1>9, <1>10
=============================================================================
