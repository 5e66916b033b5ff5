--------------------- MODULE WorkflowScheduler_proofs ---------------------
(***************************************************************************)
(* Proofs about the scheduler: any flow, with loops, joins and conditions, *)
(* any limits, any checkpoint it is seeded from, any order of completions. *)
(***************************************************************************)
EXTENDS WorkflowScheduler, Induction, SequenceTheorems

-----------------------------------------------------------------------------
(* Numbers, and ranks in a set of numbers *)

\* Least returns the least number of a set.
LEMMA LeastIsLeast ==
  ASSUME NEW S, S \subseteq Nat, S # {}
  PROVE  Least(S) \in S /\ \A k \in S : Least(S) <= k
<1> DEFINE Below == {n \in Nat : \A k \in 0 .. n : k \notin S}
<1>1. \E m \in S : \A k \in S : m <= k
  <2> SUFFICES ASSUME ~ \E m \in S : \A k \in S : m <= k
               PROVE  FALSE
    OBVIOUS
  <2>1. 0 \in Below
    OBVIOUS
  <2>2. ASSUME NEW n \in Nat, n \in Below
        PROVE  n + 1 \in Below
    <3>1. n + 1 \notin S
      BY <2>2
    <3> QED
      BY <2>2, <3>1
  <2>3. Nat \subseteq Below
    <3> HIDE DEF Below
    <3> QED
      BY <2>1, <2>2, NatSetInduction
  <2>4. PICK k \in S : TRUE
    OBVIOUS
  <2>5. k \in Nat /\ k \in Below /\ k \in 0 .. k
    BY <2>3
  <2> QED
    BY <2>5
<1> QED
  BY <1>1 DEF Least

\* Greatest returns the greatest number of a bounded set.
LEMMA GreatestIsGreatest ==
  ASSUME NEW S, S \subseteq Nat, S # {}, NEW n \in Nat, \A k \in S : k <= n
  PROVE  Greatest(S) \in S /\ \A k \in S : k <= Greatest(S)
<1> DEFINE Bounds == {m \in Nat : \A k \in S : k <= m}
<1>1. Bounds \subseteq Nat /\ Bounds # {}
  OBVIOUS
<1> DEFINE b == Least(Bounds)
<1>2. b \in Bounds /\ \A m \in Bounds : b <= m
  BY <1>1, LeastIsLeast
<1>3. b \in S
  <2> SUFFICES ASSUME b \notin S PROVE FALSE
    OBVIOUS
  <2>1. PICK k \in S : TRUE
    OBVIOUS
  <2>2. b - 1 \in Bounds
    BY <1>2, <2>1
  <2> QED
    BY <1>2, <2>2
<1>4. \E m \in S : \A k \in S : k <= m
  BY <1>2, <1>3
<1> QED
  BY <1>4 DEF Greatest

\* How many elements of a set of numbers are less than k.
Rank(S, k) == Cardinality({j \in S : j < k})

\* Ranks count from 0 and grow with the number.
LEMMA RanksGrow ==
  ASSUME NEW S, S \subseteq Nat, IsFiniteSet(S), NEW k \in S
  PROVE  /\ Rank(S, k) \in 0 .. Cardinality(S) - 1
         /\ \A l \in S : k < l => Rank(S, k) < Rank(S, l)
<1> DEFINE Low(l) == {j \in S : j < l}
<1>1. \A l \in S : IsFiniteSet(Low(l)) /\ Cardinality(Low(l)) \in Nat
  BY FS_Subset, FS_CardinalityType
<1>2. ASSUME NEW U, Low(k) \cup {k} \subseteq U, U \subseteq S
      PROVE  Cardinality(Low(k)) < Cardinality(U)
  <2>1. IsFiniteSet(U) /\ Cardinality(U) \in Nat
    BY <1>2, FS_Subset, FS_CardinalityType
  <2>2. k \notin Low(k)
    OBVIOUS
  <2>3. Cardinality(Low(k) \cup {k}) = Cardinality(Low(k)) + 1
    BY <1>1, <2>2, FS_AddElement
  <2>4. Cardinality(Low(k) \cup {k}) <= Cardinality(U)
    BY <1>2, <2>1, FS_Subset
  <2>5. Cardinality(Low(k)) \in Nat
    BY <1>1
  <2> QED
    BY <2>1, <2>3, <2>4, <2>5
<1>3. Cardinality(Low(k)) < Cardinality(S)
  BY <1>2
<1>4. ASSUME NEW l \in S, k < l PROVE Cardinality(Low(k)) < Cardinality(Low(l))
  <2>1. \A j \in S : j < k => j < l
    <3> SUFFICES ASSUME NEW j \in S, j < k PROVE j < l
      OBVIOUS
    <3>1. j \in Nat /\ k \in Nat /\ l \in Nat
      OBVIOUS
    <3> QED
      BY <1>4, <3>1
  <2>2. Low(k) \cup {k} \subseteq Low(l) /\ Low(l) \subseteq S
    BY <1>4, <2>1
  <2> QED
    BY <1>2, <2>2
<1>5. Cardinality(S) \in Nat /\ Cardinality(Low(k)) \in Nat
  BY <1>1, FS_CardinalityType
<1>6. \A l \in S : Rank(S, l) = Cardinality(Low(l))
  BY DEF Rank
<1> HIDE DEF Low
<1> QED
  BY <1>3, <1>4, <1>5, <1>6

\* Every number below the size of a set is the rank of an element.
LEMMA RanksCover ==
  ASSUME NEW S, S \subseteq Nat, IsFiniteSet(S), NEW r \in 0 .. Cardinality(S) - 1
  PROVE  \E k \in S : Rank(S, k) = r
<1> DEFINE Good == {n \in Nat : \A U \in SUBSET Nat :
                      IsFiniteSet(U) /\ Cardinality(U) = n =>
                        \A q \in 0 .. n - 1 : \E k \in U : Rank(U, k) = q}
<1>1. 0 \in Good
  OBVIOUS
<1>2. ASSUME NEW n \in Nat, n \in Good
      PROVE  n + 1 \in Good
  <2> SUFFICES ASSUME NEW U \in SUBSET Nat, IsFiniteSet(U), Cardinality(U) = n + 1,
                      NEW q \in 0 .. n
               PROVE  \E k \in U : Rank(U, k) = q
    OBVIOUS
  <2>1. U # {}
    BY FS_EmptySet
  <2>2. PICK m \in U : \A k \in U : k <= m
    <3> DEFINE Bounded == {i \in Nat : \A V \in SUBSET Nat :
                 IsFiniteSet(V) /\ Cardinality(V) = i => \E b \in Nat : \A k \in V : k <= b}
    <3>1. 0 \in Bounded
      <4>1. ASSUME NEW V, IsFiniteSet(V), Cardinality(V) = 0 PROVE V = {}
        BY <4>1, FS_EmptySet
      <4>2. 0 \in Nat
        OBVIOUS
      <4> QED
        BY <4>1, <4>2
    <3>2. ASSUME NEW i \in Nat, i \in Bounded PROVE i + 1 \in Bounded
      <4> SUFFICES ASSUME NEW V \in SUBSET Nat, IsFiniteSet(V), Cardinality(V) = i + 1
                   PROVE  \E b \in Nat : \A k \in V : k <= b
        OBVIOUS
      <4>0. V # {}
        BY FS_EmptySet
      <4>1. PICK x \in V : TRUE
        BY <4>0
      <4>2. IsFiniteSet(V \ {x}) /\ Cardinality(V \ {x}) = i
        BY FS_RemoveElement
      <4>3. PICK b \in Nat : \A k \in V \ {x} : k <= b
        BY <3>2, <4>2
      <4>4. \A k \in V : k <= b + x
        BY <4>3
      <4> QED
        BY <4>4
    <3>3. Nat \subseteq Bounded
      <4> HIDE DEF Bounded
      <4> QED
        BY <3>1, <3>2, NatSetInduction
    <3>4. PICK b \in Nat : \A k \in U : k <= b
      BY <3>3
    <3> QED
      BY <2>1, <3>4, GreatestIsGreatest
  <2>3. IsFiniteSet(U \ {m}) /\ Cardinality(U \ {m}) = n /\ U \ {m} \in SUBSET Nat
    <3>1. IsFiniteSet(U \ {m}) /\ Cardinality(U \ {m}) = (n + 1) - 1
      BY FS_RemoveElement
    <3> QED
      BY <3>1
  <2>4. CASE q = n
    <3>1. {j \in U : j < m} = U \ {m}
      <4>1. \A j \in U : j < m <=> j # m
        <5> SUFFICES ASSUME NEW j \in U PROVE j < m <=> j # m
          OBVIOUS
        <5>1. j \in Nat /\ m \in Nat /\ j <= m
          BY <2>2
        <5> QED
          BY <5>1
      <4> QED
        BY <4>1
    <3> QED
      BY <2>3, <2>4, <3>1 DEF Rank
  <2>5. CASE q # n
    <3>1. q \in 0 .. n - 1
      BY <2>5
    <3>2. PICK k \in U \ {m} : Rank(U \ {m}, k) = q
      BY <1>2, <2>3, <3>1
    <3>3. {j \in U \ {m} : j < k} = {j \in U : j < k}
      BY <2>2, <3>2
    <3> QED
      BY <3>2, <3>3 DEF Rank
  <2> QED
    BY <2>4, <2>5
<1>3. Nat \subseteq Good
  <2> HIDE DEF Good
  <2> QED
    BY <1>1, <1>2, NatSetInduction
<1>4. Cardinality(S) \in Nat
  BY FS_CardinalityType
<1> QED
  BY <1>3, <1>4

-----------------------------------------------------------------------------
(* The operators on joins *)

Typed(nd, ps) == nd \in [Ids -> Node \cup {NoNode}] /\ ps \in [Ids -> Seq(Ids)]

\* How AppendNew walks the sequence it appends.
Merges(g, f, s) ==
  /\ g[0] = f
  /\ \A n \in 1 .. Len(s) : g[n] = IF s[n] \in Elements(g[n - 1]) THEN g[n - 1]
                                   ELSE Append(g[n - 1], s[n])

\* AppendNew is the end of that walk.
LEMMA AppendNewMerges ==
  ASSUME NEW T, NEW f \in Seq(T), NEW s \in Seq(T)
  PROVE  \E g : Merges(g, f, s) /\ AppendNew(f, s) = g[Len(s)]
<1> DEFINE l == Len(s)
           Step == [p \in Nat \X Seq(T) |->
                      IF p[1] \notin 1 .. l \/ s[p[1]] \in Elements(p[2]) THEN p[2]
                      ELSE Append(p[2], s[p[1]])]
           IsMerged(g) ==
             g = [n \in 0 .. Len(s) |->
                    IF n = 0 THEN f
                    ELSE IF s[n] \in Elements(g[n - 1]) THEN g[n - 1]
                    ELSE Append(g[n - 1], s[n])]
           merged[n \in 0 .. Len(s)] ==
             IF n = 0 THEN f
             ELSE IF s[n] \in Elements(merged[n - 1]) THEN merged[n - 1]
             ELSE Append(merged[n - 1], s[n])
<1>1. l \in Nat
  OBVIOUS
<1>2. \E g : IsMerged(g)
  <2>1. Step \in [Nat \X Seq(T) -> Seq(T)]
    <3>1. \A n \in 1 .. l, x \in Seq(T) : Append(x, s[n]) \in Seq(T)
      BY AppendProperties
    <3> QED
      BY <3>1
  <2>2. PICK g \in [0 .. l -> Seq(T)] :
           \A n \in 0 .. l : g[n] = IF n = 0 THEN f ELSE Step[<<n, g[n - 1]>>]
    <3> HIDE DEF Step, l
    <3>1. \E g \in [0 .. l -> Seq(T)] : Unfolds(g, f, Step, l)
      BY <1>1, <2>1, RecursionExists
    <3> QED
      BY <3>1 DEF Unfolds
  <2>3. ASSUME NEW n \in 0 .. l, n # 0
        PROVE  g[n] = IF s[n] \in Elements(g[n - 1]) THEN g[n - 1]
                      ELSE Append(g[n - 1], s[n])
    <3>1. n - 1 \in 0 .. l /\ n \in 1 .. l /\ <<n, g[n - 1]>> \in Nat \X Seq(T)
      BY <1>1, <2>3
    <3> QED
      BY <2>2, <2>3, <3>1
  <2>4. g[0] = f
    BY <1>1, <2>2
  <2>5. g = [n \in 0 .. l |-> g[n]]
    OBVIOUS
  <2>6. IsMerged(g)
    <3> HIDE DEF Step
    <3> QED
      BY <2>3, <2>4, <2>5
  <2> QED
    BY <2>6
<1>3. IsMerged(merged)
  BY <1>2, Zenon
<1>4. AppendNew(f, s) = merged[Len(s)]
  BY Zenon DEF AppendNew
<1> HIDE DEF merged
<1>5. Merges(merged, f, s)
  <2>1. merged[0] = f
    BY <1>1, <1>3
  <2>2. ASSUME NEW n \in 1 .. Len(s)
        PROVE  merged[n] = IF s[n] \in Elements(merged[n - 1]) THEN merged[n - 1]
                           ELSE Append(merged[n - 1], s[n])
    <3>1. n \in 0 .. Len(s) /\ n # 0
      BY <1>1
    <3> QED
      BY <1>3, <3>1
  <2> QED
    BY <2>1, <2>2 DEF Merges
<1> QED
  BY <1>4, <1>5

\* What appending an element does.
LEMMA AppendElements ==
  ASSUME NEW T, NEW f \in Seq(T), NEW x \in T
  PROVE  /\ Append(f, x) \in Seq(T) /\ Len(Append(f, x)) = Len(f) + 1
         /\ \A k \in 1 .. Len(f) : Append(f, x)[k] = f[k]
         /\ Append(f, x)[Len(f) + 1] = x
         /\ Elements(Append(f, x)) = Elements(f) \cup {x}
<1>1. PICK h : h = Append(f, x)
  OBVIOUS
<1>2. /\ h \in Seq(T) /\ Len(h) = Len(f) + 1 /\ Len(f) \in Nat
      /\ \A k \in 1 .. Len(f) : h[k] = f[k]
      /\ h[Len(f) + 1] = x
  BY <1>1, AppendProperties
<1>3. Elements(h) = Elements(f) \cup {x}
  BY <1>2 DEF Elements
<1> QED
  BY <1>1, <1>2, <1>3

NoRepeat(f) == \A k, l \in 1 .. Len(f) : f[k] = f[l] => k = l

\* AppendNew adds the elements of s behind those of f, and repeats none.
LEMMA AppendNewProperties ==
  ASSUME NEW T, NEW f \in Seq(T), NEW s \in Seq(T)
  PROVE  /\ AppendNew(f, s) \in Seq(T)
         /\ Elements(AppendNew(f, s)) = Elements(f) \cup Elements(s)
         /\ NoRepeat(f) => NoRepeat(AppendNew(f, s))
         /\ Len(f) <= Len(AppendNew(f, s))
         /\ \A k \in 1 .. Len(f) : AppendNew(f, s)[k] = f[k]
<1>1. PICK g : Merges(g, f, s) /\ AppendNew(f, s) = g[Len(s)]
  BY AppendNewMerges
<1> DEFINE First(n) == {s[k] : k \in 1 .. n}
           Good == {n \in 0 .. Len(s) :
                      /\ g[n] \in Seq(T)
                      /\ Elements(g[n]) = Elements(f) \cup First(n)
                      /\ NoRepeat(f) => NoRepeat(g[n])
                      /\ Len(f) <= Len(g[n])
                      /\ \A k \in 1 .. Len(f) : g[n][k] = f[k]}
<1>2. Len(s) \in Nat /\ Len(f) \in Nat
  OBVIOUS
<1>3. 0 \in Good
  <2>1. g[0] = f /\ First(0) = {}
    BY <1>1 DEF Merges
  <2> QED
    BY <1>2, <2>1
<1>4. ASSUME NEW n \in 0 .. Len(s) - 1, n \in Good
      PROVE  n + 1 \in Good
  <2>1. /\ n + 1 \in 1 .. Len(s) /\ n + 1 \in 0 .. Len(s) /\ (n + 1) - 1 = n
        /\ s[n + 1] \in T
    BY <1>2
  <2>2. g[n + 1] = IF s[n + 1] \in Elements(g[n]) THEN g[n] ELSE Append(g[n], s[n + 1])
    BY <1>1, <2>1 DEF Merges
  <2>3. First(n + 1) = First(n) \cup {s[n + 1]}
    BY <1>2
  <2>4. /\ g[n] \in Seq(T) /\ Len(g[n]) \in Nat
        /\ Elements(g[n]) = Elements(f) \cup First(n)
        /\ NoRepeat(f) => NoRepeat(g[n])
        /\ Len(f) <= Len(g[n])
        /\ \A k \in 1 .. Len(f) : g[n][k] = f[k]
    BY <1>4
  <2> HIDE DEF First
  <2>5. CASE s[n + 1] \in Elements(g[n])
    BY <2>1, <2>2, <2>3, <2>4, <2>5
  <2>6. CASE s[n + 1] \notin Elements(g[n])
    <3>1. PICK x : x = s[n + 1]
      OBVIOUS
    <3>2. PICK h : h = g[n]
      OBVIOUS
    <3>3. /\ Append(h, x) \in Seq(T) /\ Len(Append(h, x)) = Len(h) + 1
          /\ \A k \in 1 .. Len(h) : Append(h, x)[k] = h[k]
          /\ Append(h, x)[Len(h) + 1] = x
      BY <2>1, <2>4, <3>1, <3>2, AppendProperties
    <3>4. PICK a : a = Append(h, x)
      OBVIOUS
    <3>5. g[n + 1] = a
      BY <2>2, <2>6, <3>1, <3>2, <3>4
    <3>6. Elements(a) = Elements(h) \cup {x}
      BY <2>4, <3>2, <3>3, <3>4 DEF Elements
    <3>7. NoRepeat(h) => NoRepeat(a)
      <4> SUFFICES ASSUME NoRepeat(h), NEW k \in 1 .. Len(a), NEW l \in 1 .. Len(a), a[k] = a[l]
                   PROVE  k = l
        BY DEF NoRepeat
      <4>1. Len(h) \in Nat /\ Len(a) = Len(h) + 1 /\ a[Len(h) + 1] = x
        BY <2>4, <3>2, <3>3, <3>4
      <4>2. \A m \in 1 .. Len(h) : a[m] = h[m] /\ a[m] # x
        BY <2>6, <3>1, <3>2, <3>3, <3>4 DEF Elements
      <4>3. k \in 1 .. Len(h) \/ k = Len(h) + 1
        BY <4>1
      <4>4. l \in 1 .. Len(h) \/ l = Len(h) + 1
        BY <4>1
      <4> QED
        BY <4>1, <4>2, <4>3, <4>4 DEF NoRepeat
    <3>8. Len(f) <= Len(a) /\ \A k \in 1 .. Len(f) : a[k] = f[k]
      BY <1>2, <2>4, <3>2, <3>3, <3>4
    <3> QED
      BY <2>1, <2>3, <2>4, <3>1, <3>2, <3>3, <3>4, <3>5, <3>6, <3>7, <3>8
  <2> QED
    BY <2>5, <2>6
<1>5. 0 .. Len(s) \subseteq Good
  <2> HIDE DEF Good
  <2> QED
    BY <1>2, <1>3, <1>4, BoundedInduction
<1>6. Len(s) \in Good
  <2> HIDE DEF Good
  <2> QED
    BY <1>2, <1>5
<1>7. First(Len(s)) = Elements(s)
  BY DEF Elements
<1> QED
  BY <1>1, <1>6, <1>7

\* What the breadth-first walk does at its k-th step: it looks up the k-th id.
Look(d, f, k) == IF k <= Len(f) /\ f[k] \in Elements(d)
                 THEN AppendNew(f, parents[f[k]]) ELSE f

\* The walk over the ancestors of i.
Walks(g, d, i) ==
  /\ g[0] = AppendNew(<< >>, parents[i])
  /\ \A k \in 1 .. MaxId : g[k] = Look(d, g[k - 1], k)

\* Ancestors is the end of that walk.
LEMMA AncestorsWalk ==
  ASSUME Typed(node, parents), NEW d, NEW i \in Ids
  PROVE  \E g : Walks(g, d, i) /\ Ancestors(d, i) = g[MaxId]
<1> DEFINE Step == [p \in Nat \X Seq(Ids) |-> IF p[1] = 0 THEN p[2] ELSE Look(d, p[2], p[1])]
           first == AppendNew(<< >>, parents[i])
           IsFound(g) ==
             g = [k \in 0 .. MaxId |->
                    IF k = 0 THEN AppendNew(<< >>, parents[i])
                    ELSE LET f == g[k - 1]
                         IN IF k <= Len(f) /\ f[k] \in Elements(d)
                            THEN AppendNew(f, parents[f[k]]) ELSE f]
           found[k \in 0 .. MaxId] ==
             IF k = 0 THEN AppendNew(<< >>, parents[i])
             ELSE LET f == found[k - 1]
                  IN IF k <= Len(f) /\ f[k] \in Elements(d)
                     THEN AppendNew(f, parents[f[k]]) ELSE f
<1>1. MaxId \in Nat
  BY BoundsAssumption
<1>2. first \in Seq(Ids)
  <2>1. << >> \in Seq(Ids)
    OBVIOUS
  <2>2. parents[i] \in Seq(Ids)
    BY DEF Typed
  <2> QED
    BY <2>1, <2>2, AppendNewProperties
<1>3. ASSUME NEW k \in Nat, k # 0, NEW f \in Seq(Ids)
      PROVE  Look(d, f, k) \in Seq(Ids)
  <2> SUFFICES ASSUME k <= Len(f)
               PROVE  AppendNew(f, parents[f[k]]) \in Seq(Ids)
    BY DEF Look
  <2>1. k \in 1 .. Len(f) /\ f[k] \in Ids
    BY <1>3
  <2>2. parents[f[k]] \in Seq(Ids)
    BY <2>1 DEF Typed
  <2> QED
    BY <2>2, AppendNewProperties
<1>4. \E g : IsFound(g)
  <2>1. Step \in [Nat \X Seq(Ids) -> Seq(Ids)]
    BY <1>3
  <2>2. PICK g \in [0 .. MaxId -> Seq(Ids)] :
           \A k \in 0 .. MaxId : g[k] = IF k = 0 THEN first ELSE Step[<<k, g[k - 1]>>]
    <3> HIDE DEF Step, first
    <3>1. \E g \in [0 .. MaxId -> Seq(Ids)] : Unfolds(g, first, Step, MaxId)
      BY <1>1, <1>2, <2>1, RecursionExists
    <3> QED
      BY <3>1 DEF Unfolds
  <2>3. ASSUME NEW k \in 0 .. MaxId, k # 0
        PROVE  g[k] = Look(d, g[k - 1], k)
    <3>1. k - 1 \in 0 .. MaxId /\ <<k, g[k - 1]>> \in Nat \X Seq(Ids)
      BY <1>1, <2>3
    <3> QED
      BY <2>2, <2>3, <3>1
  <2>4. g[0] = first
    <3> HIDE DEF first, Step
    <3>1. 0 \in 0 .. MaxId
      BY <1>1
    <3> QED
      BY <2>2, <3>1
  <2>5. g = [k \in 0 .. MaxId |-> g[k]]
    OBVIOUS
  <2>6. IsFound(g)
    <3> HIDE DEF Step
    <3> QED
      BY <2>3, <2>4, <2>5 DEF Look
  <2> QED
    BY <2>6
<1>5. IsFound(found)
  BY <1>4, Zenon
<1>6. Ancestors(d, i) = found[MaxId]
  BY Zenon DEF Ancestors
<1> HIDE DEF found
<1>7. found[0] = first
  <2>1. 0 \in 0 .. MaxId
    BY <1>1
  <2> QED
    BY <1>5, <2>1
<1>8. ASSUME NEW k \in 1 .. MaxId
      PROVE  found[k] = Look(d, found[k - 1], k)
  <2>1. k \in 0 .. MaxId /\ k # 0
    BY <1>1
  <2> QED
    BY <1>5, <2>1 DEF Look
<1>9. Walks(found, d, i)
  BY <1>7, <1>8 DEF Walks
<1> QED
  BY <1>6, <1>9

\* Ids are finitely many.
LEMMA IdsFinite == IsFiniteSet(Ids) /\ Ids \subseteq Nat
  BY BoundsAssumption, FS_Interval DEF Ids

\* A sequence of ids that repeats none has at most MaxId of them.
LEMMA IdsWithoutRepeat ==
  ASSUME NEW f \in Seq(Ids), NoRepeat(f)
  PROVE  Len(f) <= MaxId
<1>1. Len(f) \in Nat /\ MaxId \in Nat
  BY BoundsAssumption
<1>2. f \in Injection(1 .. Len(f), Ids)
  BY DEF NoRepeat, Injection, IsInjective
<1>3. \A n \in Nat : Cardinality(1 .. n) = n
  <2> SUFFICES ASSUME NEW n \in Nat PROVE Cardinality(1 .. n) = n
    OBVIOUS
  <2>1. 1 \in Int /\ n \in Int
    OBVIOUS
  <2>2. Cardinality(1 .. n) = IF 1 > n THEN 0 ELSE n - 1 + 1
    BY <2>1, FS_Interval
  <2> QED
    BY <2>2
<1>4. Cardinality(1 .. Len(f)) <= Cardinality(Ids)
  BY <1>2, IdsFinite, FS_Injection
<1>5. Cardinality(Ids) = MaxId
  BY <1>1, <1>3 DEF Ids
<1> QED
  BY <1>1, <1>3, <1>4, <1>5

\* With an activation of d that it holds, S holds the activation's parents.
Closed(S, d) == \A a \in S \cap Elements(d) : Elements(parents[a]) \subseteq S

\* Ancestors finds its activations: the parents of i, with any completed
\* activation its parents too, and nothing else.
ReachedFrom(d, i) ==
  LET found == Elements(Ancestors(d, i)) IN
  /\ Elements(parents[i]) \subseteq found
  /\ Closed(found, d)
  /\ \A S : Elements(parents[i]) \subseteq S /\ Closed(S, d) => found \subseteq S

\* The walk of activationAncestorIds is exact: what it returns is the least set
\* that holds the parents of i and, with every completed activation, its parents;
\* and it visits no activation twice, whatever cycles and shared ancestors the
\* parents form.
THEOREM AncestorsAreReachable ==
  ASSUME Typed(node, parents), NEW d, NEW i \in Ids
  PROVE  /\ Ancestors(d, i) \in Seq(Ids)
         /\ NoRepeat(Ancestors(d, i))
         /\ ReachedFrom(d, i)
<1>1. PICK g : Walks(g, d, i) /\ Ancestors(d, i) = g[MaxId]
  BY AncestorsWalk
<1>2. MaxId \in Nat
  BY BoundsAssumption
<1> DEFINE Within(f) == \A S : Elements(parents[i]) \subseteq S /\ Closed(S, d) => Elements(f) \subseteq S
           Seen(f, k) == \A l \in 1 .. k : l <= Len(f) /\ f[l] \in Elements(d) =>
                           Elements(parents[f[l]]) \subseteq Elements(f)
           Good == {k \in 0 .. MaxId :
                      /\ g[k] \in Seq(Ids) /\ NoRepeat(g[k])
                      /\ Elements(parents[i]) \subseteq Elements(g[k])
                      /\ Within(g[k]) /\ Seen(g[k], k)}
<1>3. 0 \in Good
  <2>1. PICK ps : ps = parents[i]
    OBVIOUS
  <2>2. ps \in Seq(Ids)
    BY <2>1 DEF Typed
  <2> HIDE DEF Within, Seen, Good
  <2>3. << >> \in Seq(Ids) /\ Elements(<< >>) = {} /\ NoRepeat(<< >>)
    BY DEF Elements, NoRepeat
  <2>4. PICK e : e = << >>
    OBVIOUS
  <2>5. e \in Seq(Ids) /\ NoRepeat(e)
    BY <2>3, <2>4
  <2>6. /\ AppendNew(e, ps) \in Seq(Ids) /\ NoRepeat(AppendNew(e, ps))
        /\ Elements(AppendNew(e, ps)) = Elements(e) \cup Elements(ps)
    BY <2>2, <2>5, AppendNewProperties
  <2>7. /\ g[0] \in Seq(Ids) /\ NoRepeat(g[0])
        /\ Elements(g[0]) = Elements(parents[i])
    BY <1>1, <2>1, <2>3, <2>4, <2>6 DEF Walks
  <2> USE DEF Within, Seen, Good
  <2>8. Within(g[0]) /\ Seen(g[0], 0)
    BY <2>7
  <2> QED
    BY <1>2, <2>7, <2>8
<1>4. ASSUME NEW k \in 0 .. MaxId - 1, k \in Good
      PROVE  k + 1 \in Good
  <2>1. k \in Nat /\ k + 1 \in 1 .. MaxId /\ k + 1 \in 0 .. MaxId /\ (k + 1) - 1 = k
    BY <1>2
  <2>2. PICK f : f = g[k]
    OBVIOUS
  <2>3. g[k + 1] = Look(d, f, k + 1)
    BY <1>1, <2>1, <2>2 DEF Walks
  <2>4. /\ f \in Seq(Ids) /\ NoRepeat(f) /\ Len(f) \in Nat
        /\ Elements(parents[i]) \subseteq Elements(f)
        /\ Within(f) /\ Seen(f, k)
    BY <1>4, <2>2
  <2> HIDE DEF Within
  <2>5. CASE k + 1 <= Len(f) /\ f[k + 1] \in Elements(d)
    <3>1. PICK a : a = f[k + 1]
      OBVIOUS
    <3>2. a \in Ids /\ a \in Elements(f) /\ a \in Elements(d)
      BY <2>1, <2>4, <2>5, <3>1 DEF Elements
    <3>3. parents[a] \in Seq(Ids)
      BY <3>2 DEF Typed
    <3>4. PICK h : h = AppendNew(f, parents[a])
      OBVIOUS
    <3>5. g[k + 1] = h
      BY <2>3, <2>5, <3>1, <3>4 DEF Look
    <3>6. /\ h \in Seq(Ids) /\ NoRepeat(h)
          /\ Elements(h) = Elements(f) \cup Elements(parents[a])
          /\ Len(f) <= Len(h) /\ \A l \in 1 .. Len(f) : h[l] = f[l]
      BY <2>4, <3>3, <3>4, AppendNewProperties
    <3>7. Within(h)
      BY <2>4, <3>2, <3>6 DEF Within, Closed
    <3>8. Seen(h, k + 1)
      <4> SUFFICES ASSUME NEW l \in 1 .. k + 1, h[l] \in Elements(d)
                   PROVE  Elements(parents[h[l]]) \subseteq Elements(h)
        OBVIOUS
      <4>1. l \in 1 .. Len(f) /\ h[l] = f[l]
        BY <2>1, <2>4, <2>5, <3>6
      <4>2. CASE l = k + 1
        BY <3>1, <3>6, <4>1, <4>2
      <4>3. CASE l \in 1 .. k
        BY <2>4, <3>6, <4>1, <4>3
      <4> QED
        BY <2>1, <4>2, <4>3
    <3> QED
      BY <2>1, <2>4, <3>5, <3>6, <3>7, <3>8
  <2>6. CASE ~(k + 1 <= Len(f) /\ f[k + 1] \in Elements(d))
    <3>1. g[k + 1] = f
      BY <2>3, <2>6 DEF Look
    <3>2. Seen(f, k + 1)
      <4> SUFFICES ASSUME NEW l \in 1 .. k + 1, l <= Len(f), f[l] \in Elements(d)
                   PROVE  Elements(parents[f[l]]) \subseteq Elements(f)
        OBVIOUS
      <4>1. l \in 1 .. k
        BY <2>1, <2>6
      <4> QED
        BY <2>4, <4>1
    <3> QED
      BY <2>1, <2>4, <3>1, <3>2
  <2> QED
    BY <2>5, <2>6
<1>5. 0 .. MaxId \subseteq Good
  <2> HIDE DEF Good
  <2> QED
    BY <1>2, <1>3, <1>4, BoundedInduction
<1>6. MaxId \in Good
  <2> HIDE DEF Good
  <2> QED
    BY <1>2, <1>5
<1>7. PICK f : f = Ancestors(d, i)
  OBVIOUS
<1>8. /\ f \in Seq(Ids) /\ NoRepeat(f) /\ Len(f) \in Nat
      /\ Elements(parents[i]) \subseteq Elements(f)
      /\ Within(f) /\ Seen(f, MaxId)
  BY <1>1, <1>6, <1>7
<1>9. Len(f) <= MaxId
  BY <1>8, IdsWithoutRepeat
<1>10. Closed(Elements(f), d)
  <2> SUFFICES ASSUME NEW l \in 1 .. Len(f), f[l] \in Elements(d)
               PROVE  Elements(parents[f[l]]) \subseteq Elements(f)
    BY DEF Closed, Elements
  <2>1. l \in 1 .. MaxId /\ l <= Len(f)
    BY <1>2, <1>8, <1>9
  <2> QED
    BY <1>8, <2>1
<1> QED
  BY <1>7, <1>8, <1>10 DEF ReachedFrom
\* The ancestors of an activation are activations.
LEMMA AncestorsType ==
  ASSUME Typed(node, parents), NEW d, NEW i \in Ids
  PROVE  Ancestors(d, i) \in Seq(Ids)
BY AncestorsAreReachable

\* The candidates for a common generation are ids, or Roots.
LEMMA GenerationsType ==
  ASSUME Typed(node, parents), NEW d, NEW i \in Ids, NEW join
  PROVE  Generations(d, i, join) \in Seq(Nat)
<1>1. PICK anc : anc = Ancestors(d, i)
  OBVIOUS
<1> DEFINE cuts == {k \in 1 .. Len(anc) : /\ anc[k] \in Elements(d)
                                          /\ node[anc[k]] \in Elements(WaitFor[join])}
<1>2. anc \in Seq(Ids) /\ Len(anc) \in Nat
  BY <1>1, AncestorsType
<1>3. anc \in Seq(Nat)
  <2>1. \A k \in 1 .. Len(anc) : anc[k] \in Nat
    <3>1. \A k \in 1 .. Len(anc) : anc[k] \in Ids
      BY <1>2
    <3> QED
      BY <3>1, BoundsAssumption DEF Ids
  <2>2. anc = [k \in 1 .. Len(anc) |-> anc[k]]
    BY <1>2
  <2> QED
    BY <1>2, <2>1, <2>2
<1>4. <<Roots>> \in Seq(Nat)
  BY DEF Roots
<1>5. cuts # {} => SubSeq(anc, 1, Least(cuts) - 1) \in Seq(Nat)
  <2> SUFFICES ASSUME cuts # {} PROVE SubSeq(anc, 1, Least(cuts) - 1) \in Seq(Nat)
    OBVIOUS
  <2>1. cuts \subseteq 1 .. Len(anc) /\ cuts \subseteq Nat
    BY <1>2
  <2>2. Least(cuts) \in 1 .. Len(anc)
    <3> HIDE DEF cuts
    <3> QED
      BY <2>1, LeastIsLeast
  <2> HIDE DEF cuts
  <2>3. \A k \in 1 .. Least(cuts) - 1 : anc[k] \in Nat
    BY <1>2, <1>3, <2>2
  <2> QED
    BY <1>2, <1>3, <2>2, SubSeqProperties
<1>6. Generations(d, i, join) = IF anc = << >> THEN <<Roots>>
                                ELSE IF cuts = {} THEN anc
                                ELSE SubSeq(anc, 1, Least(cuts) - 1)
  BY <1>1 DEF Generations
<1> HIDE DEF cuts
<1> QED
  BY <1>3, <1>4, <1>5, <1>6

\* The latest activation of a node is a completed activation, or none.
LEMMA LatestType ==
  ASSUME NEW d \in Seq(Ids), NEW n, NEW g
  PROVE  Latest(d, n, g) \in Ids \cup {0}
<1> DEFINE at == {k \in 1 .. Len(d) : node[d[k]] = n /\ InGeneration(d, d[k], g)}
<1>1. at # {} => Greatest(at) \in 1 .. Len(d)
  <2>1. at \subseteq 1 .. Len(d) /\ at \subseteq Nat /\ Len(d) \in Nat
    OBVIOUS
  <2>2. \A k \in at : k <= Len(d)
    BY <2>1
  <2> HIDE DEF at
  <2> QED
    BY <2>1, <2>2, GreatestIsGreatest
<1>2. Latest(d, n, g) = IF at = {} THEN 0 ELSE d[Greatest(at)]
  BY DEF Latest
<1> HIDE DEF at
<1> QED
  BY <1>1, <1>2

\* The parents of a join are activations.
LEMMA JoinParentsType ==
  ASSUME Typed(node, parents), NEW d \in Seq(Ids), NEW i \in Ids, NEW join \in Node
  PROVE  JoinParents(d, i, join) \in Seq(Ids)
<1> DEFINE waits == WaitFor[join]
           outside == node[i] \notin Elements(waits)
           gens == Generations(d, i, join) \o (IF outside THEN <<Anyone>> ELSE << >>)
           rows == [k \in 1 .. Len(gens) |->
                      [m \in 1 .. Len(waits) |-> Latest(d, waits[m], gens[k])]]
           ready == {k \in 1 .. Len(gens) : 0 \notin Elements(rows[k])}
           row(g) == [m \in 1 .. Len(waits) |-> Latest(d, waits[m], g)]
<1>1. JoinParents(d, i, join) = IF ready = {} THEN << >>
                                ELSE rows[Least(ready)] \o (IF outside THEN <<i>> ELSE << >>)
  BY Zenon DEF JoinParents
<1>2. waits \in Seq(Node) /\ Len(waits) \in Nat
  BY GraphAssumption
<1>3. ASSUME NEW k \in 1 .. Len(gens) PROVE rows[k] = row(gens[k])
  OBVIOUS
<1>5. gens \in Seq(Nat) /\ Len(gens) \in Nat
  <2>1. Generations(d, i, join) \in Seq(Nat)
    BY GenerationsType
  <2>2. <<Anyone>> \in Seq(Nat) /\ << >> \in Seq(Nat)
    BY BoundsAssumption DEF Anyone
  <2> HIDE DEF outside
  <2> QED
    BY <2>1, <2>2
<1> HIDE DEF waits, outside, gens
<1>6. ASSUME NEW g, 0 \notin Elements(row(g))
      PROVE  row(g) \in Seq(Ids)
  <2>1. Len(row(g)) = Len(waits) /\ \A m \in 1 .. Len(waits) : row(g)[m] = Latest(d, waits[m], g)
    BY <1>2
  <2>2. ASSUME NEW m \in 1 .. Len(waits)
        PROVE  row(g)[m] \in Ids
    <3>1. row(g)[m] \in Elements(row(g))
      BY <2>1 DEF Elements
    <3>2. Latest(d, waits[m], g) \in Ids \cup {0}
      BY LatestType
    <3> HIDE DEF row
    <3> QED
      BY <1>6, <2>1, <3>1, <3>2
  <2> QED
    BY <1>2, <2>2
<1>7. ready # {} => rows[Least(ready)] \in Seq(Ids)
  <2> SUFFICES ASSUME ready # {} PROVE rows[Least(ready)] \in Seq(Ids)
    OBVIOUS
  <2>1. ready \subseteq Nat
    BY <1>5
  <2>2. Least(ready) \in ready
    <3> HIDE DEF ready
    <3> QED
      BY <2>1, LeastIsLeast
  <2> DEFINE l == Least(ready)
  <2>3. l \in 1 .. Len(gens) /\ 0 \notin Elements(rows[l])
    BY <2>2
  <2>4. rows[l] = row(gens[l])
    BY <1>3, <2>3
  <2> HIDE DEF rows, row, l
  <2> QED
    BY <1>6, <2>3, <2>4 DEF l
<1>9. <<i>> \in Seq(Ids) /\ << >> \in Seq(Ids)
  OBVIOUS
<1> HIDE DEF rows, ready
<1> QED
  BY <1>1, <1>7, <1>9

\* A child is a node with its parents.
LEMMA ReadyType ==
  ASSUME Typed(node, parents), NEW d \in Seq(Ids), NEW i \in Ids, NEW taken
  PROVE  /\ DOMAIN Ready(d, i, taken) \subseteq 1 .. Len(Edges)
         /\ \A k \in DOMAIN Ready(d, i, taken) : Ready(d, i, taken)[k] \in Node \X Seq(Ids)
<1> DEFINE open == {k \in 1 .. Len(Edges) : /\ Edges[k].from = node[i]
                                            /\ Edges[k].conditional => k \in taken}
           child == [k \in open |-> <<Edges[k].to, ChildParents(d, i, Edges[k].to)>>]
<1>1. ASSUME NEW k \in open PROVE child[k] \in Node \X Seq(Ids)
  <2>1. Edges[k].to \in Node
    <3>1. k \in 1 .. Len(Edges)
      OBVIOUS
    <3>2. Edges[k] \in [from : Node, to : Node, conditional : BOOLEAN]
      <4>1. Edges \in Seq([from : Node, to : Node, conditional : BOOLEAN])
        BY GraphAssumption
      <4> HIDE DEF open, child
      <4> QED
        BY <3>1, <4>1, ElementOfSeq
    <3> QED
      BY <3>2
  <2>2. ASSUME NEW n \in Node PROVE ChildParents(d, i, n) \in Seq(Ids)
    <3>1. JoinParents(d, i, n) \in Seq(Ids)
      BY JoinParentsType
    <3> QED
      BY <3>1 DEF ChildParents
  <2> QED
    BY <2>1, <2>2
<1>2. Ready(d, i, taken) = [k \in {e \in open : child[e][2] # << >>} |-> child[k]]
  BY DEF Ready
<1>3. open \subseteq 1 .. Len(Edges)
  OBVIOUS
<1> HIDE DEF open, child
<1> QED
  BY <1>1, <1>2, <1>3


-----------------------------------------------------------------------------
(* Starting and enqueuing *)

Statuses == {"none", "queued", "running", "completed", "failed", "aborted"}

\* What was begun when the queue has been started up to i.
BeforeIn(st, i) ==
  {j \in Ids : st[j] \notin {"none", "queued"}} \cup {j \in Queued(st) : j < i}

AdmittedIn(nd, st, i) ==
  /\ Cardinality(BeforeIn(st, i) \ Seeded) < MaxActivations
  /\ Cardinality({j \in BeforeIn(st, i) : nd[j] = nd[i]}) < MaxNodeActivations

\* A queued activation that a limit keeps out.
Blocked(nd, st) == \E i \in Queued(st) : ~AdmittedIn(nd, st, i)

\* What a limit keeps out it keeps out when more has begun.
LEMMA NeverAdmittedAgain ==
  ASSUME NEW nd, NEW st, NEW nd2, NEW st2, NEW i \in Ids,
         ~AdmittedIn(nd, st, i),
         \A j \in BeforeIn(st, i) : j \in BeforeIn(st2, i) /\ nd2[j] = nd[j],
         nd2[i] = nd[i]
  PROVE  ~AdmittedIn(nd2, st2, i)
<1> DEFINE B == BeforeIn(st, i)
           B2 == BeforeIn(st2, i)
           N == {j \in B : nd[j] = nd[i]}
           N2 == {j \in B2 : nd2[j] = nd2[i]}
<1>1. IsFiniteSet(B2)
  <2>1. B2 \subseteq Ids
    BY DEF BeforeIn, Queued
  <2> HIDE DEF B2
  <2> QED
    BY <2>1, IdsFinite, FS_Subset
<1>2. B \ Seeded \subseteq B2 \ Seeded /\ N \subseteq N2 /\ N2 \subseteq B2
  OBVIOUS
<1> HIDE DEF B, B2, N, N2
<1>3. IsFiniteSet(B2 \ Seeded) /\ IsFiniteSet(N2)
  <2>1. B2 \ Seeded \subseteq B2
    OBVIOUS
  <2> QED
    BY <1>1, <1>2, <2>1, FS_Subset
<1>4. /\ Cardinality(B \ Seeded) <= Cardinality(B2 \ Seeded)
      /\ Cardinality(N) <= Cardinality(N2)
      /\ IsFiniteSet(B \ Seeded) /\ IsFiniteSet(N)
  BY <1>2, <1>3, FS_Subset
<1>5. /\ Cardinality(B \ Seeded) \in Nat /\ Cardinality(B2 \ Seeded) \in Nat
      /\ Cardinality(N) \in Nat /\ Cardinality(N2) \in Nat
  BY <1>3, <1>4, FS_CardinalityType
<1>6. /\ AdmittedIn(nd, st, i) <=> /\ Cardinality(B \ Seeded) < MaxActivations
                                   /\ Cardinality(N) < MaxNodeActivations
      /\ AdmittedIn(nd2, st2, i) <=> /\ Cardinality(B2 \ Seeded) < MaxActivations
                                     /\ Cardinality(N2) < MaxNodeActivations
  BY Zenon DEF AdmittedIn, B, B2, N, N2
<1> QED
  BY <1>4, <1>5, <1>6, BoundsAssumption

\* startReadyActivations, whatever was queued: a queued activation runs or
\* stays, and if one stays, a limit keeps one out.
LEMMA StartReadyEffect ==
  ASSUME NEW nd, NEW st \in [Ids -> Statuses], StartReady(nd, st),
         limitReached \in BOOLEAN
  PROVE  /\ status' \in [Ids -> Statuses]
         /\ \A i \in Ids : \/ status'[i] = st[i]
                           \/ st[i] = "queued" /\ status'[i] = "running"
         /\ limitReached' \in BOOLEAN
         /\ limitReached => limitReached'
         /\ Queued(status') # {} => limitReached'
         /\ (limitReached => Blocked(nd, st)) => (limitReached' => Blocked(nd, status'))
<1> DEFINE started == Startable(nd, st)
<1>1. started = {i \in Queued(st) : \A j \in Queued(st) : j <= i => AdmittedIn(nd, st, j)}
  BY Zenon DEF Startable, AdmittedIn, BeforeIn
<1>2. /\ status' = [i \in Ids |-> IF i \in started THEN "running" ELSE st[i]]
      /\ limitReached' = (limitReached \/ started # Queued(st))
  BY Zenon DEF StartReady
<1>3. started \subseteq Queued(st) /\ Queued(st) \subseteq Ids
  BY <1>1 DEF Queued
<1> HIDE DEF started
<1>4. \A i \in Ids : /\ i \in started => st[i] = "queued" /\ status'[i] = "running"
                     /\ i \notin started => status'[i] = st[i]
  BY <1>2, <1>3 DEF Queued
<1>5. Queued(status') = Queued(st) \ started
  BY <1>3, <1>4 DEF Queued
<1>6. ASSUME NEW i \in Queued(st), ~AdmittedIn(nd, st, i)
      PROVE  Blocked(nd, status')
  <2>1. i \in Ids /\ i \in Nat
    BY <1>3, IdsFinite
  <2>2. i \notin started
    BY <1>1, <1>6, <2>1
  <2>3. ASSUME NEW j \in BeforeIn(st, i)
        PROVE  j \in BeforeIn(status', i)
    <3>1. CASE j \in Ids /\ st[j] \notin {"none", "queued"}
      <4>1. status'[j] = st[j]
        BY <1>3, <1>4, <3>1 DEF Queued
      <4> QED
        BY <3>1, <4>1 DEF BeforeIn
    <3>2. CASE j \in Queued(st) /\ j < i
      <4>1. CASE j \in started
        BY <1>3, <1>4, <4>1 DEF BeforeIn
      <4>2. CASE j \notin started
        <5>1. j \in Queued(status')
          BY <1>5, <3>2, <4>2
        <5> QED
          BY <3>2, <5>1 DEF BeforeIn
      <4> QED
        BY <4>1, <4>2
    <3> QED
      BY <3>1, <3>2 DEF BeforeIn
  <2>4. ~AdmittedIn(nd, status', i)
    BY <1>6, <2>1, <2>3, NeverAdmittedAgain
  <2> QED
    BY <1>5, <2>2, <2>4 DEF Blocked
<1>7. started # Queued(st) => \E i \in Queued(st) : ~AdmittedIn(nd, st, i)
  BY <1>1, <1>3
<1>8. status' \in [Ids -> Statuses]
  BY <1>2 DEF Statuses
<1>9. (limitReached => Blocked(nd, st)) => (limitReached' => Blocked(nd, status'))
  BY <1>2, <1>6, <1>7 DEF Blocked
<1> QED
  BY <1>2, <1>3, <1>4, <1>5, <1>8, <1>9

ReadyTyped(ready) ==
  /\ DOMAIN ready \subseteq 1 .. Len(Edges)
  /\ \A k \in DOMAIN ready : ready[k] \in Node \X Seq(Ids)

New == next .. next' - 1

\* What enqueueReadyChildren does with the queue: nd and ps are the new nodes and
\* parents, and st the statuses before anything is started.
Enqueued(ready, nd, ps, st) ==
  /\ Typed(nd, ps) /\ st \in [Ids -> Statuses]
  /\ next' \in next .. MaxId + 1
  /\ \A i \in Ids \ New : nd[i] = node[i] /\ ps[i] = parents[i]
  /\ \A i \in Ids \ New : st[i] = IF i = winner THEN "completed" ELSE status[i]
  /\ \A i \in New : st[i] = "queued" /\ <<nd[i], ps[i]>> \in ChildrenIn(ready)
  /\ \A i \in New : IsJoin(nd[i]) => <<nd[i], ps[i]>> \notin joinKeys
  /\ \A i, k \in New :
       IsJoin(nd[i]) /\ <<nd[i], ps[i]>> = <<nd[k], ps[k]>> => i = k
  /\ \A d \in ChildrenIn(ready) :
       d \in joinKeys \/ \E i \in New : <<nd[i], ps[i]>> = d
  /\ joinKeys' = joinKeys \cup
       {<<nd[i], ps[i]>> : i \in {k \in New : IsJoin(nd[k])}}

\* Two children that different edges have made ready.
OfTwoEdges(ready, c1, c2) ==
  \E e, f \in DOMAIN ready : e # f /\ ready[e] = c1 /\ ready[f] = c2

\* Every child of a continuing completion gets the next id, a join only for
\* parents it has not been activated for, and each has an edge of its own.
LEMMA ContinuingEffect ==
  ASSUME TypeOK, NEW ready, ReadyTyped(ready), ConsumeContinuing(ready)
  PROVE  \E nd, ps, st : /\ Enqueued(ready, nd, ps, st)
                         /\ node' = nd /\ parents' = ps
                         /\ StartReady(nd, st)
                         /\ \A i, k \in New : i # k =>
                              OfTwoEdges(ready, <<nd[i], ps[i]>>, <<nd[k], ps[k]>>)
<1> DEFINE edges == Enqueuing(ready)
           size == Cardinality(edges)
           Pick(i) == CHOOSE k \in edges : next + Cardinality({j \in edges : j < k}) = i
           child == Children(ready)
           nd == With(node, [i \in DOMAIN child |-> child[i][1]])
           ps == With(parents, [i \in DOMAIN child |-> child[i][2]])
           st == With([status EXCEPT ![winner] = "completed"],
                      [i \in DOMAIN child |-> "queued"])
<1>1. /\ DOMAIN child \subseteq Ids
      /\ next' = next + Cardinality(DOMAIN child)
      /\ node' = nd
      /\ parents' = ps
      /\ joinKeys' = joinKeys \cup {c \in ChildrenIn(child) : IsJoin(c[1])}
      /\ StartReady(nd, st)
  BY Zenon DEF ConsumeContinuing
<1>2. next \in 1 .. MaxId + 1 /\ next \in Nat /\ MaxId \in Nat
  BY BoundsAssumption DEF TypeOK
<1>3. edges \subseteq DOMAIN ready /\ edges \subseteq Nat /\ IsFiniteSet(edges)
  <2>1. edges \subseteq DOMAIN ready
    BY DEF Enqueuing
  <2>2. 1 .. Len(Edges) \subseteq Nat /\ IsFiniteSet(1 .. Len(Edges))
    <3>1. Len(Edges) \in Nat
      BY GraphAssumption
    <3> QED
      BY <3>1, FS_Interval
  <2>3. edges \subseteq 1 .. Len(Edges)
    BY <2>1 DEF ReadyTyped
  <2> HIDE DEF edges
  <2> QED
    BY <2>1, <2>2, <2>3, FS_Subset
<1>4. size \in Nat
  <2> HIDE DEF edges
  <2> QED
    BY <1>3, FS_CardinalityType
<1>5. /\ DOMAIN child = next .. next + size - 1
      /\ \A i \in next .. next + size - 1 : child[i] = ready[Pick(i)]
  BY DEF Children
<1>6. \A i \in Ids : Pick(i) = CHOOSE k \in edges : next + Rank(edges, k) = i
  BY DEF Rank
<1> HIDE DEF edges, size, child
<1>7. ASSUME NEW i \in next .. next + size - 1
      PROVE  Pick(i) \in edges /\ next + Rank(edges, Pick(i)) = i
  <2>1. i - next \in 0 .. Cardinality(edges) - 1
    BY <1>2, <1>4 DEF size
  <2>2. PICK k \in edges : Rank(edges, k) = i - next
    BY <1>3, <2>1, RanksCover
  <2>3. next + Rank(edges, k) = i
    BY <1>2, <2>2
  <2>4. Pick(i) = CHOOSE l \in edges : next + Rank(edges, l) = i
    BY DEF Rank
  <2> HIDE DEF Pick
  <2> QED
    BY <2>3, <2>4
<1>8. ASSUME NEW k \in edges
      PROVE  \E i \in next .. next + size - 1 : Pick(i) = k
  <2> DEFINE i == next + Rank(edges, k)
  <2>1. Rank(edges, k) \in 0 .. size - 1
    BY <1>3, RanksGrow DEF size
  <2>2. i \in next .. next + size - 1
    BY <1>2, <1>4, <2>1
  <2>3. Pick(i) \in edges /\ next + Rank(edges, Pick(i)) = i
    BY <1>7, <2>2
  <2> HIDE DEF Pick
  <2>4. Rank(edges, Pick(i)) \in 0 .. size - 1
    BY <1>3, <2>3, RanksGrow DEF size
  <2>5. Rank(edges, Pick(i)) = Rank(edges, k)
    BY <1>2, <1>4, <2>1, <2>3, <2>4
  <2>6. Pick(i) \in Nat /\ k \in Nat
    BY <1>3, <2>3
  <2>7. Pick(i) = k
    <3>1. CASE Pick(i) < k
      BY <1>3, <2>1, <2>3, <2>4, <2>5, <3>1, RanksGrow
    <3>2. CASE k < Pick(i)
      BY <1>3, <2>1, <2>3, <2>4, <2>5, <3>2, RanksGrow
    <3> QED
      BY <2>6, <3>1, <3>2
  <2> QED
    BY <2>2, <2>7
<1> HIDE DEF Pick
<1>9. /\ New = next .. next + size - 1
      /\ next' \in next .. MaxId + 1
      /\ New \subseteq Ids
      /\ DOMAIN child = New
  <2>1. Cardinality(next .. next + size - 1) = size
    <3>1. next + size - 1 \in Int /\ next \in Int
      BY <1>2, <1>4
    <3>2. CASE size = 0
      <4>1. next .. next + size - 1 = {}
        BY <1>2, <3>2
      <4> QED
        BY <3>2, <4>1, FS_EmptySet
    <3>3. CASE size > 0
      <4>1. Cardinality(next .. next + size - 1) = (next + size - 1) - next + 1
        BY <1>2, <1>4, <3>1, <3>3, FS_Interval
      <4> QED
        BY <1>2, <1>4, <4>1
    <3> QED
      BY <1>4, <3>2, <3>3
  <2>2. next' = next + size
    BY <1>1, <1>5, <2>1
  <2>3. New = next .. next + size - 1
    BY <1>2, <1>4, <2>2 DEF New
  <2>4. next' <= MaxId + 1
    <3>1. CASE size = 0
      BY <1>2, <2>2, <3>1
    <3>2. CASE size > 0
      <4>1. next + size - 1 \in Ids
        BY <1>1, <1>2, <1>4, <1>5, <3>2
      <4> QED
        BY <1>2, <1>4, <2>2, <4>1 DEF Ids
    <3> QED
      BY <1>4, <3>1, <3>2
  <2> QED
    BY <1>1, <1>2, <1>4, <1>5, <2>2, <2>3, <2>4
<1>10. ASSUME NEW i \in New
       PROVE  /\ child[i] \in Node \X Seq(Ids) /\ child[i] = ready[Pick(i)]
              /\ nd[i] = child[i][1] /\ ps[i] = child[i][2] /\ st[i] = "queued"
              /\ <<nd[i], ps[i]>> = child[i]
              /\ Pick(i) \in edges
  <2>1. child[i] = ready[Pick(i)] /\ Pick(i) \in edges
    BY <1>5, <1>7, <1>9
  <2>2. child[i] \in Node \X Seq(Ids)
    BY <1>3, <2>1 DEF ReadyTyped
  <2>3. nd[i] = child[i][1] /\ ps[i] = child[i][2] /\ st[i] = "queued"
    BY <1>9 DEF With
  <2> QED
    BY <2>1, <2>2, <2>3
<1>11. ASSUME NEW i \in Ids \ New
       PROVE  /\ nd[i] = node[i] /\ ps[i] = parents[i]
              /\ st[i] = IF i = winner THEN "completed" ELSE status[i]
  BY <1>9 DEF With, TypeOK
<1>12. Typed(nd, ps) /\ st \in [Ids -> Statuses]
  <2>1. \A i \in Ids : /\ nd[i] \in Node \cup {NoNode} /\ ps[i] \in Seq(Ids)
                       /\ st[i] \in Statuses
    BY <1>10, <1>11 DEF TypeOK, Statuses
  <2>2. /\ nd = [i \in Ids |-> nd[i]] /\ ps = [i \in Ids |-> ps[i]]
        /\ st = [i \in Ids |-> st[i]]
    BY DEF With
  <2> HIDE DEF nd, ps, st
  <2> QED
    BY <2>1, <2>2 DEF Typed
<1> HIDE DEF nd, ps, st
<1>13. ASSUME NEW i \in New
       PROVE  /\ <<nd[i], ps[i]>> \in ChildrenIn(ready)
              /\ IsJoin(nd[i]) => <<nd[i], ps[i]>> \notin joinKeys
  <2>1. Pick(i) \in Enqueuing(ready) /\ <<nd[i], ps[i]>> = ready[Pick(i)]
    BY <1>10 DEF edges
  <2>2. nd[i] = ready[Pick(i)][1]
    BY <1>10
  <2> QED
    BY <2>1, <2>2 DEF Enqueuing, ChildrenIn
<1>14. ASSUME NEW i \in New, NEW k \in New, IsJoin(nd[i]),
              <<nd[i], ps[i]>> = <<nd[k], ps[k]>>
       PROVE  i = k
  <2>1. ready[Pick(i)] = ready[Pick(k)] /\ IsJoin(ready[Pick(i)][1])
    BY <1>10, <1>14
  <2>2. Pick(i) \in Enqueuing(ready) /\ Pick(k) \in Enqueuing(ready)
    BY <1>10 DEF edges
  <2>3. ~(Pick(i) < Pick(k)) /\ ~(Pick(k) < Pick(i))
    BY <2>1, <2>2 DEF Enqueuing
  <2>4. Pick(i) \in Nat /\ Pick(k) \in Nat
    BY <1>3, <1>10
  <2>5. Pick(i) = Pick(k)
    BY <2>3, <2>4
  <2>6. i = next + Rank(edges, Pick(i)) /\ k = next + Rank(edges, Pick(k))
    BY <1>7, <1>9
  <2> QED
    BY <2>5, <2>6
<1>15. ASSUME NEW d \in ChildrenIn(ready), d \notin joinKeys
       PROVE  \E i \in New : <<nd[i], ps[i]>> = d
  <2> DEFINE same == {k \in DOMAIN ready : ready[k] = d}
  <2>1. same # {} /\ same \subseteq Nat /\ same \subseteq DOMAIN ready
    <3>1. 1 .. Len(Edges) \subseteq Nat
      BY GraphAssumption
    <3> QED
      BY <3>1 DEF ChildrenIn, ReadyTyped
  <2>2. Least(same) \in same /\ \A k \in same : Least(same) <= k
    <3> HIDE DEF same
    <3> QED
      BY <2>1, LeastIsLeast
  <2>3. PICK l : l = Least(same)
    OBVIOUS
  <2>4. l \in DOMAIN ready /\ ready[l] = d
    BY <2>2, <2>3
  <2>5. ASSUME NEW j \in DOMAIN ready, j < l PROVE ready[j] # d
    <3> SUFFICES ASSUME ready[j] = d PROVE FALSE
      OBVIOUS
    <3>1. j \in same
      OBVIOUS
    <3>2. l <= j /\ j \in Nat /\ l \in Nat
      <4> HIDE DEF same
      <4> QED
        BY <2>1, <2>2, <2>3, <3>1
    <3> QED
      BY <2>5, <3>2
  <2>6. l \in edges
    BY <1>15, <2>4, <2>5 DEF Enqueuing, edges
  <2>7. PICK i \in New : Pick(i) = l
    BY <1>8, <1>9, <2>6
  <2> QED
    BY <1>10, <2>4, <2>7
<1>16. joinKeys' = joinKeys \cup {<<nd[i], ps[i]>> : i \in {k \in New : IsJoin(nd[k])}}
  <2>1. ChildrenIn(child) = {child[i] : i \in New}
    BY <1>9 DEF ChildrenIn
  <2>2. {c \in ChildrenIn(child) : IsJoin(c[1])}
          = {<<nd[i], ps[i]>> : i \in {k \in New : IsJoin(nd[k])}}
    BY <1>10, <2>1
  <2> QED
    BY <1>1, <2>2
<1>17. Enqueued(ready, nd, ps, st)
  BY <1>9, <1>11, <1>12, <1>10, <1>13, <1>14, <1>15, <1>16 DEF Enqueued
<1>18. ASSUME NEW i \in New, NEW k \in New, i # k
       PROVE  OfTwoEdges(ready, <<nd[i], ps[i]>>, <<nd[k], ps[k]>>)
  <2>1. Pick(i) \in DOMAIN ready /\ Pick(k) \in DOMAIN ready
    BY <1>3, <1>10
  <2>2. Pick(i) # Pick(k)
    BY <1>7, <1>9, <1>18
  <2> QED
    BY <1>10, <2>1, <2>2 DEF OfTwoEdges
<1> QED
  BY <1>1, <1>17, <1>18


-----------------------------------------------------------------------------
(* The inductive invariant *)

Created == {i \in Ids : status[i] # "none"}

\* The first id that is not a start activation's.
FirstChild == FirstId + Len(StartNodes)

Work(i) == <<node[i], parents[i]>>

\* Ids are given in order, to activations of nodes.
IdsInv ==
  /\ next >= FirstChild
  /\ \A i \in Created : i < next /\ node[i] \in Node
  /\ \A i \in Created \ Seeded : i >= FirstId
  /\ \A i \in Seeded : status[i] = "completed"

\* queuedJoinKeys are the joins that were activated, once each.
JoinInv ==
  /\ \A c \in joinKeys : \E j \in Created \ Seeded : Work(j) = c
  /\ \A i \in Created : i >= FirstChild /\ IsJoin(node[i]) => Work(i) \in joinKeys
  /\ \A i, j \in Created :
       /\ i >= FirstChild /\ j >= FirstChild
       /\ IsJoin(node[i]) /\ Work(i) = Work(j)
       => i = j

\* Scheduling stops for a reason, and the frontier is fixed only then; what
\* is queued at that time is part of it.
StopInv ==
  /\ stopScheduling => stopReason \/ cause # "none"
  /\ frontier # NoFrontier => stopScheduling /\ QueuedNodes \subseteq frontier
  /\ loop = "boot" => frontier = NoFrontier

InFrontier(n) == frontier # NoFrontier /\ n \in frontier

\* What is aborted or became ready is in the frontier or was activated.
WorkInv ==
  /\ \A i \in Ids : status[i] = "aborted" /\ Failed = {} => InFrontier(node[i])
  /\ \A i \in Ids : \A d \in due[i] :
       InFrontier(d[1]) \/ \E j \in Created \ Seeded : Work(j) = d

\* Only a limit, or a frontier, leaves an activation queued.
LimitInv ==
  /\ limitReached => Blocked(node, status)
  /\ loop = "boot" => Queued(status) # {}
  /\ loop = "racing" /\ Queued(status) # {} => limitReached \/ frontier # NoFrontier

SchedulerInv == TypeOK /\ IdsInv /\ JoinInv /\ StopInv /\ WorkInv /\ LimitInv


-----------------------------------------------------------------------------
(* Types *)

\* The race is won by an activation that runs; so is the next one, if any.
LEMMA WinnerRuns ==
  ASSUME TypeOK, Consume
  PROVE  winner \in Ids /\ status[winner] = "running" /\ winner' \in Ids \cup {0}
<1> DEFINE settled == {i \in Running \ {winner} : result[i] # "pending"}
<1>1. settled \subseteq Ids /\ settled \subseteq Nat
  BY IdsFinite DEF Running
<1>2. settled # {} => Least(settled) \in Ids
  <2> HIDE DEF settled
  <2> QED
    BY <1>1, LeastIsLeast
<1>3. winner' = IF settled = {} THEN 0 ELSE Least(settled)
  BY DEF Consume, NextWinner
<1> HIDE DEF settled
<1> QED
  BY <1>2, <1>3 DEF Consume, TypeOK

\* What a completion makes ready is a set of children.
LEMMA ReadyChildren ==
  ASSUME TypeOK, winner \in Ids, NEW taken, NEW ready,
         ready = Ready(Append(done, winner), winner, taken)
  PROVE  ReadyTyped(ready) /\ ChildrenIn(ready) \subseteq Node \X Seq(Ids)
<1>1. Typed(node, parents)
  BY DEF TypeOK, Typed
<1>2. Append(done, winner) \in Seq(Ids)
  BY AppendProperties DEF TypeOK
<1>3. ReadyTyped(ready)
  BY <1>1, <1>2, ReadyType DEF ReadyTyped
<1> QED
  BY <1>3 DEF ReadyTyped, ChildrenIn

\* The frontier a step leaves is a set of nodes.
LEMMA FrontierNodes ==
  ASSUME TypeOK, IdsInv
  PROVE  /\ QueuedNodes \subseteq Node /\ FrontierSoFar \subseteq Node
         /\ Queued(status) \subseteq Created
<1>1. Queued(status) \subseteq Created
  BY DEF Queued, Created
<1>2. QueuedNodes \subseteq Node
  BY <1>1 DEF QueuedNodes, IdsInv
<1> QED
  BY <1>1, <1>2 DEF FrontierSoFar, TypeOK

\* What the environment does keeps the types.
LEMMA EnvironmentTypes ==
  ASSUME TypeOK, StopSignalled \/ SettleNext
  PROVE  TypeOK'
<1>1. CASE StopSignalled
  BY <1>1 DEF TypeOK, StopSignalled, activationVars, stopVars
<1>2. CASE SettleNext
  <2>1. PICK i \in Ids, r \in Outputs : Settle(i, r)
    BY <1>2 DEF SettleNext
  <2>2. result' \in [Ids -> Outputs \cup {"pending"}] /\ winner' \in Ids \cup {0}
    BY <2>1 DEF Settle, TypeOK
  <2> QED
    BY <2>1, <2>2 DEF Settle, TypeOK, activationVars, stopVars
<1> QED
  BY <1>1, <1>2

\* The first start keeps the types.
LEMMA BootTypes ==
  ASSUME TypeOK, IdsInv, BootStart \/ BootHalted
  PROVE  TypeOK'
<1>1. CASE BootStart
  <2>1. StartReady(node, status) /\ status \in [Ids -> Statuses] /\ limitReached \in BOOLEAN
    BY <1>1 DEF BootStart, TypeOK, Statuses
  <2>2. status' \in [Ids -> Statuses] /\ limitReached' \in BOOLEAN
    BY <2>1, StartReadyEffect
  <2> QED
    BY <1>1, <2>2 DEF BootStart, TypeOK, Statuses, activationVars, stopVars
<1>2. CASE BootHalted
  <2>1. /\ limitReached' \in BOOLEAN /\ stopScheduling' \in BOOLEAN
        /\ frontier' = NoFrontier \/ frontier' \subseteq Node
        /\ loop' = "racing"
    BY <1>2, FrontierNodes DEF BootHalted, TypeOK
  <2>2. UNCHANGED <<activationVars, status, result, winner, stopReason, cause, due>>
    BY <1>2 DEF BootHalted
  <2> QED
    BY <2>1, <2>2 DEF TypeOK, activationVars
<1> QED
  BY <1>1, <1>2

\* An end without a completion keeps the types.
LEMMA EndTypes ==
  ASSUME TypeOK, IdsInv, ConsumeAborted \/ ConsumeFailed \/ ConsumeDiscarded
  PROVE  TypeOK'
<1>1. Consume
  BY DEF ConsumeAborted, ConsumeFailed, ConsumeDiscarded
<1>2. winner \in Ids /\ winner' \in Ids \cup {0}
  BY <1>1, WinnerRuns
<1>3. CASE ConsumeAborted
  <2>1. frontier' \subseteq Node
    BY <1>1, <1>2, <1>3, FrontierNodes, WinnerRuns DEF ConsumeAborted, IdsInv, Created
  <2> QED
    BY <1>2, <1>3, <2>1 DEF ConsumeAborted, TypeOK, activationVars
<1>4. CASE ConsumeFailed
  BY <1>2, <1>4 DEF ConsumeFailed, TypeOK, activationVars
<1>5. CASE ConsumeDiscarded
  BY <1>2, <1>5 DEF ConsumeDiscarded, TypeOK, activationVars, stopVars
<1> QED
  BY <1>3, <1>4, <1>5

\* A completion keeps the types.
LEMMA CompletionTypes ==
  ASSUME TypeOK, IdsInv, NEW ready, Record(ready),
         ReadyTyped(ready), ChildrenIn(ready) \subseteq Node \X Seq(Ids),
         ConsumeHolding(ready) \/ ConsumeContinuing(ready)
  PROVE  TypeOK'
<1>1. winner \in Ids /\ winner' \in Ids \cup {0}
  BY WinnerRuns DEF Record
<1>2. done' \in Seq(Ids) /\ due' \in [Ids -> SUBSET (Node \X Seq(Ids))]
  <2>1. Append(done, winner) \in Seq(Ids)
    BY <1>1, AppendProperties DEF TypeOK
  <2> QED
    BY <1>1, <2>1 DEF Record, TypeOK
<1>3. CASE ConsumeHolding(ready)
  <2>1. {c[1] : c \in ChildrenIn(ready)} \subseteq Node
    OBVIOUS
  <2>2. frontier' \subseteq Node
    BY <1>3, <2>1, FrontierNodes DEF ConsumeHolding
  <2>3. status' \in [Ids -> Statuses] /\ stopReason' \in BOOLEAN /\ stopScheduling' = TRUE
    BY <1>3 DEF ConsumeHolding, TypeOK, Statuses
  <2>4. UNCHANGED <<node, parents, next, joinKeys, result, loop, limitReached, cause>>
    BY <1>3 DEF ConsumeHolding
  <2> QED
    BY <1>1, <1>2, <2>2, <2>3, <2>4 DEF TypeOK, Statuses
<1>4. CASE ConsumeContinuing(ready)
  <2>1. PICK nd, ps, st : /\ Enqueued(ready, nd, ps, st)
                          /\ node' = nd /\ parents' = ps
                          /\ StartReady(nd, st)
    BY <1>4, ContinuingEffect
  <2>2. st \in [Ids -> Statuses] /\ limitReached \in BOOLEAN
    BY <2>1 DEF Enqueued, TypeOK
  <2>3. status' \in [Ids -> Statuses] /\ limitReached' \in BOOLEAN
    BY <2>1, <2>2, StartReadyEffect
  <2>4. /\ node' \in [Ids -> Node \cup {NoNode}] /\ parents' \in [Ids -> Seq(Ids)]
        /\ next' \in 1 .. MaxId + 1
    BY <2>1, BoundsAssumption DEF Enqueued, Typed, TypeOK
  <2>5. joinKeys' \subseteq Node \X Seq(Ids)
    BY <2>1 DEF Enqueued, TypeOK
  <2>6. UNCHANGED <<result, loop, stopVars, cause>>
    BY <1>4 DEF ConsumeContinuing
  <2> QED
    BY <1>1, <1>2, <2>3, <2>4, <2>5, <2>6 DEF TypeOK, Statuses, stopVars
<1> QED
  BY <1>3, <1>4


-----------------------------------------------------------------------------
(* The steps of the invariant *)

\* The values of the constants the invariant speaks of.
LEMMA FirstIds ==
  /\ FirstId \in Nat /\ FirstId >= 1 /\ FirstChild \in Nat
  /\ FirstChild > FirstId /\ FirstChild <= MaxId + 1
  /\ Seeded \subseteq Ids /\ \A i \in Seeded : i < FirstId
<1>1. Seeded \subseteq Ids
  <2>1. \A k \in 1 .. Len(Seed) : Seed[k] \in [id : Ids, node : Node, parents : Seq(Ids)]
    BY BoundsAssumption, ElementOfSeq
  <2> QED
    BY <2>1 DEF Seeded
<1> DEFINE S == Seeded \cup {0}
<1>2. S \subseteq Nat /\ S # {} /\ MaxId \in Nat /\ \A k \in S : k <= MaxId
  BY <1>1, BoundsAssumption DEF Ids
<1> HIDE DEF S
<1>3. Greatest(S) \in S /\ \A k \in S : k <= Greatest(S)
  BY <1>2, GreatestIsGreatest
<1>4. FirstId = Greatest(S) + 1
  BY DEF FirstId, S
<1>5. FirstId \in Nat /\ FirstId >= 1 /\ \A i \in Seeded : i < FirstId
  BY <1>2, <1>3, <1>4 DEF S
<1>6. Len(StartNodes) \in Nat /\ Len(StartNodes) > 0
  BY GraphAssumption, StartAssumption, EmptySeq
<1> QED
  BY <1>1, <1>5, <1>6, StartAssumption DEF FirstChild

\* A step that touches neither queue nor frontier, ends no activation and
\* takes no reason to stop away keeps the invariant.
LEMMA QuietKeeps ==
  ASSUME IdsInv, JoinInv, StopInv, WorkInv, LimitInv,
         UNCHANGED <<node, parents, next, joinKeys, status, loop, stopVars, limitReached, due>>,
         cause # "none" => cause' # "none"
  PROVE  IdsInv' /\ JoinInv' /\ StopInv' /\ WorkInv' /\ LimitInv'
<1>1. Created' = Created /\ QueuedNodes' = QueuedNodes /\ Failed' = Failed
  BY DEF Created, QueuedNodes, Queued, Failed
<1>2. \A i : Work(i)' = Work(i)
  BY DEF Work
<1>3. UNCHANGED <<stopScheduling, frontier, stopReason>>
  BY DEF stopVars
<1>4. IdsInv'
  BY <1>1 DEF IdsInv
<1>5. JoinInv'
  BY <1>1, <1>2 DEF JoinInv
<1>6. StopInv'
  BY <1>1, <1>3 DEF StopInv
<1>7. WorkInv'
  BY <1>1, <1>2, <1>3 DEF WorkInv, InFrontier
<1>8. LimitInv'
  BY <1>1, <1>3 DEF LimitInv
<1> QED
  BY <1>4, <1>5, <1>6, <1>7, <1>8

\* The end of a running activation changes nothing in the queue.
LEMMA EndKeeps ==
  ASSUME TypeOK, IdsInv, JoinInv, LimitInv,
         winner \in Ids, status[winner] = "running",
         NEW x \in {"completed", "failed", "aborted"},
         status' = [status EXCEPT ![winner] = x],
         UNCHANGED <<node, parents, next, joinKeys, limitReached, loop>>
  PROVE  /\ IdsInv' /\ JoinInv'
         /\ Created' = Created /\ QueuedNodes' = QueuedNodes
         /\ Queued(status') = Queued(status)
         /\ \A i : Work(i)' = Work(i)
         /\ limitReached' => Blocked(node', status')
         /\ loop' = "boot" => Queued(status') # {}
<1>1. \A i \in Ids : status'[i] = IF i = winner THEN x ELSE status[i]
  BY DEF TypeOK
<1>2. Created' = Created /\ Queued(status') = Queued(status)
  BY <1>1 DEF Created, Queued
<1>3. QueuedNodes' = QueuedNodes
  BY <1>2 DEF QueuedNodes
<1>4. \A i : Work(i)' = Work(i)
  BY DEF Work
<1>5. winner \notin Seeded
  BY DEF IdsInv
<1>6. IdsInv'
  BY <1>1, <1>2, <1>5, FirstIds DEF IdsInv
<1>7. JoinInv'
  BY <1>2, <1>4 DEF JoinInv
<1>8. ASSUME limitReached' PROVE Blocked(node', status')
  <2>1. PICK i \in Queued(status) : ~AdmittedIn(node, status, i)
    BY <1>8 DEF LimitInv, Blocked
  <2>2. BeforeIn(status', i) = BeforeIn(status, i)
    BY <1>1, <1>2 DEF BeforeIn
  <2>3. ~AdmittedIn(node', status', i)
    BY <2>1, <2>2 DEF AdmittedIn
  <2> QED
    BY <1>2, <2>1, <2>3 DEF Blocked
<1> QED
  BY <1>2, <1>3, <1>4, <1>6, <1>7, <1>8 DEF LimitInv

\* The first start of what is queued keeps the invariant.
LEMMA BootKeeps ==
  ASSUME SchedulerInv, BootStart \/ BootHalted
  PROVE  IdsInv' /\ JoinInv' /\ StopInv' /\ WorkInv' /\ LimitInv'
<1> USE DEF SchedulerInv
<1>1. UNCHANGED <<node, parents, next, joinKeys, due, cause>> /\ stopReason' = stopReason
  BY DEF BootStart, BootHalted, activationVars, stopVars
<1>2. \A i : Work(i)' = Work(i)
  BY <1>1 DEF Work
<1>3. loop = "boot" /\ loop' = "racing" /\ Queued(status) # {}
  BY DEF BootStart, BootHalted, LimitInv
<1>4. CASE BootStart
  <2>1. StartReady(node, status) /\ status \in [Ids -> Statuses] /\ limitReached \in BOOLEAN
    BY <1>4 DEF BootStart, TypeOK, Statuses
  <2>2. /\ \A i \in Ids : \/ status'[i] = status[i]
                          \/ status[i] = "queued" /\ status'[i] = "running"
        /\ Queued(status') # {} => limitReached'
        /\ limitReached' => Blocked(node, status')
    BY <2>1, StartReadyEffect DEF LimitInv
  <2>3. UNCHANGED <<stopScheduling, frontier>>
    BY <1>4 DEF BootStart, stopVars
  <2>4. Created' = Created /\ Failed' = Failed /\ Queued(status') \subseteq Queued(status)
    BY <2>2 DEF Created, Failed, Queued
  <2>5. QueuedNodes' \subseteq QueuedNodes
    BY <1>1, <2>4 DEF QueuedNodes
  <2>6. IdsInv'
    BY <1>1, <2>2, <2>4, FirstIds DEF IdsInv
  <2>7. JoinInv'
    BY <1>1, <1>2, <2>4 DEF JoinInv
  <2>8. StopInv'
    BY <1>1, <1>3, <2>3, <2>5 DEF StopInv
  <2>9. WorkInv'
    <3>1. \A i \in Ids : status'[i] = "aborted" => status[i] = "aborted"
      BY <2>2
    <3> QED
      BY <1>1, <1>2, <2>3, <2>4, <3>1 DEF WorkInv, InFrontier
  <2>10. LimitInv'
    BY <1>1, <1>3, <2>2 DEF LimitInv
  <2> QED
    BY <2>6, <2>7, <2>8, <2>9, <2>10
<1>5. CASE BootHalted
  <2>1. status' = status /\ cause # "none"
    BY <1>5 DEF BootHalted
  <2>2. Created' = Created /\ Failed' = Failed /\ QueuedNodes' = QueuedNodes
    BY <1>1, <2>1 DEF Created, Failed, Queued, QueuedNodes
  <2>3. IdsInv' /\ JoinInv'
    BY <1>1, <1>2, <2>1, <2>2 DEF IdsInv, JoinInv
  <2>4. CASE MaxActivations = 0
    <3>1. limitReached' = TRUE /\ UNCHANGED <<frontier, stopScheduling>>
      BY <1>5, <2>4 DEF BootHalted
    <3>2. StopInv' /\ WorkInv'
      BY <1>1, <1>2, <1>3, <2>1, <2>2, <3>1 DEF StopInv, WorkInv, InFrontier
    <3>3. Blocked(node, status)
      <4>1. PICK i \in Queued(status) : TRUE
        BY <1>3
      <4>2. IsFiniteSet(BeforeIn(status, i) \ Seeded)
        <5>1. BeforeIn(status, i) \ Seeded \subseteq Ids
          BY DEF BeforeIn, Queued
        <5> QED
          BY <5>1, IdsFinite, FS_Subset
      <4>3. Cardinality(BeforeIn(status, i) \ Seeded) \in Nat
        BY <4>2, FS_CardinalityType
      <4>4. ~AdmittedIn(node, status, i)
        BY <2>4, <4>3 DEF AdmittedIn
      <4> QED
        BY <4>4 DEF Blocked
    <3>4. LimitInv'
      BY <1>1, <1>3, <2>1, <3>1, <3>3 DEF LimitInv
    <3> QED
      BY <2>3, <3>2, <3>4
  <2>5. CASE MaxActivations # 0
    <3>1. frontier' = QueuedNodes /\ stopScheduling' = TRUE /\ limitReached' = limitReached
      BY <1>5, <2>5 DEF BootHalted
    <3>2. frontier' # NoFrontier
      BY <3>1, FrontierNodes, GraphAssumption DEF NoFrontier
    <3>3. StopInv'
      BY <1>1, <1>3, <2>1, <2>2, <3>1 DEF StopInv
    <3>4. frontier = NoFrontier
      BY <1>3 DEF StopInv
    <3>5. WorkInv'
      BY <1>1, <1>2, <2>1, <2>2, <3>2, <3>4 DEF WorkInv, InFrontier
    <3>6. LimitInv'
      BY <1>1, <1>3, <2>1, <3>1, <3>2 DEF LimitInv
    <3> QED
      BY <2>3, <3>3, <3>5, <3>6
  <2> QED
    BY <2>4, <2>5
<1> QED
  BY <1>4, <1>5


\* An activation that ended without a completion keeps the invariant.
LEMMA EndsKeep ==
  ASSUME SchedulerInv, ConsumeAborted \/ ConsumeFailed \/ ConsumeDiscarded
  PROVE  IdsInv' /\ JoinInv' /\ StopInv' /\ WorkInv' /\ LimitInv'
<1> USE DEF SchedulerInv
<1>1. /\ Consume /\ winner \in Ids /\ status[winner] = "running" /\ loop = "racing"
      /\ UNCHANGED <<node, parents, next, joinKeys, limitReached, loop, due>>
  BY WinnerRuns DEF ConsumeAborted, ConsumeFailed, ConsumeDiscarded, Consume, activationVars
<1>2. \E x \in {"completed", "failed", "aborted"} : status' = [status EXCEPT ![winner] = x]
  BY DEF ConsumeAborted, ConsumeFailed, ConsumeDiscarded
<1>3. /\ IdsInv' /\ JoinInv'
      /\ Created' = Created /\ QueuedNodes' = QueuedNodes
      /\ Queued(status') = Queued(status)
      /\ \A i : Work(i)' = Work(i)
      /\ limitReached' => Blocked(node', status')
  BY <1>1, <1>2, EndKeeps
<1>4. CASE ConsumeAborted
  <2>1. /\ \A i \in Ids : status'[i] = IF i = winner THEN "aborted" ELSE status[i]
        /\ stopReason' = TRUE /\ stopScheduling' = TRUE /\ cause' = cause
        /\ frontier' = FrontierSoFar \cup {node[winner]}
    BY <1>4 DEF ConsumeAborted, TypeOK
  <2>2. /\ frontier' # NoFrontier /\ QueuedNodes \subseteq frontier'
        /\ \A n : InFrontier(n) => InFrontier(n)'
        /\ node[winner] \in frontier'
    <3>1. node[winner] \in Node /\ node[winner] # NoNode
      BY <1>1, GraphAssumption DEF IdsInv, Created
    <3>2. frontier' # NoFrontier
      BY <2>1, <3>1 DEF NoFrontier
    <3>3. QueuedNodes \subseteq FrontierSoFar
      BY DEF FrontierSoFar, StopInv
    <3> QED
      BY <1>1, <2>1, <3>2, <3>3 DEF FrontierSoFar, InFrontier
  <2>3. Failed' = Failed
    BY <1>1, <2>1 DEF Failed
  <2>4. StopInv'
    BY <1>1, <1>3, <2>1, <2>2 DEF StopInv
  <2>5. WorkInv'
    <3>1. ASSUME NEW i \in Ids, status'[i] = "aborted", Failed' = {}
          PROVE  InFrontier(node[i])'
      <4>1. CASE i = winner
        BY <1>1, <2>2, <4>1 DEF InFrontier
      <4>2. CASE i # winner
        BY <1>1, <2>1, <2>2, <2>3, <3>1, <4>2 DEF WorkInv
      <4> QED
        BY <4>1, <4>2
    <3>2. ASSUME NEW i \in Ids, NEW d \in due'[i]
          PROVE  InFrontier(d[1])' \/ \E j \in Created \ Seeded : Work(j) = d
      BY <1>1, <2>2, <3>2 DEF WorkInv
    <3> QED
      BY <1>3, <3>1, <3>2 DEF WorkInv
  <2>6. LimitInv'
    BY <1>1, <1>3, <2>2 DEF LimitInv
  <2> QED
    BY <1>3, <2>4, <2>5, <2>6
<1>5. CASE ConsumeFailed
  <2>1. /\ \A i \in Ids : status'[i] = IF i = winner THEN "failed" ELSE status[i]
        /\ stopScheduling' = TRUE /\ cause' # "none"
        /\ UNCHANGED <<frontier, stopReason>>
    BY <1>5 DEF ConsumeFailed, TypeOK
  <2>2. winner \in Failed'
    BY <1>1, <2>1 DEF Failed
  <2>3. StopInv'
    BY <1>1, <1>3, <2>1 DEF StopInv
  <2>4. WorkInv'
    BY <1>1, <1>3, <2>1, <2>2 DEF WorkInv, InFrontier
  <2>5. LimitInv'
    BY <1>1, <1>3, <2>1 DEF LimitInv
  <2> QED
    BY <1>3, <2>3, <2>4, <2>5
<1>6. CASE ConsumeDiscarded
  <2>1. /\ \A i \in Ids : status'[i] = IF i = winner THEN "aborted" ELSE status[i]
        /\ UNCHANGED <<stopScheduling, frontier, stopReason, cause>>
        /\ Failed # {}
    BY <1>6 DEF ConsumeDiscarded, TypeOK, stopVars
  <2>2. Failed' # {}
    BY <1>1, <2>1 DEF Failed
  <2>3. StopInv'
    BY <1>1, <1>3, <2>1 DEF StopInv
  <2>4. WorkInv'
    BY <1>1, <1>3, <2>1, <2>2 DEF WorkInv, InFrontier
  <2>5. LimitInv'
    BY <1>1, <1>3, <2>1 DEF LimitInv
  <2> QED
    BY <1>3, <2>3, <2>4, <2>5
<1> QED
  BY <1>4, <1>5, <1>6

\* A completion that only adds to the frontier keeps the invariant.
LEMMA HoldingKeeps ==
  ASSUME SchedulerInv, NEW ready, ConsumeHolding(ready),
         ReadyTyped(ready), ChildrenIn(ready) \subseteq Node \X Seq(Ids)
  PROVE  IdsInv' /\ JoinInv' /\ StopInv' /\ WorkInv' /\ LimitInv'
<1> USE DEF SchedulerInv
<1>1. /\ Record(ready) /\ Consume /\ winner \in Ids /\ status[winner] = "running"
      /\ loop = "racing"
      /\ UNCHANGED <<node, parents, next, joinKeys, limitReached, loop, cause>>
  BY WinnerRuns DEF ConsumeHolding, Record, Consume
<1>2. status' = [status EXCEPT ![winner] = "completed"]
  BY DEF ConsumeHolding
<1>3. /\ IdsInv' /\ JoinInv'
      /\ Created' = Created /\ QueuedNodes' = QueuedNodes
      /\ Queued(status') = Queued(status)
      /\ \A i : Work(i)' = Work(i)
      /\ limitReached' => Blocked(node', status')
  BY <1>1, <1>2, EndKeeps
<1>4. /\ stopScheduling' = TRUE
      /\ frontier' = FrontierSoFar \cup {c[1] : c \in ChildrenIn(ready)}
      /\ stopReason' = (stopReason \/ node[winner] \in CheckpointAfter)
      /\ node[winner] \in CheckpointAfter \/ cause # "none" \/ stopScheduling
  BY DEF ConsumeHolding
<1>5. /\ frontier' # NoFrontier /\ QueuedNodes \subseteq frontier'
      /\ \A n : InFrontier(n) => InFrontier(n)'
      /\ \A d \in ChildrenIn(ready) : InFrontier(d[1])'
  <2>1. frontier' \subseteq Node
    BY <1>4, FrontierNodes
  <2>2. frontier' # NoFrontier
    BY <2>1, GraphAssumption DEF NoFrontier
  <2>3. QueuedNodes \subseteq FrontierSoFar
    BY DEF FrontierSoFar, StopInv
  <2> QED
    BY <1>4, <2>2, <2>3 DEF FrontierSoFar, InFrontier
<1>6. StopInv'
  BY <1>1, <1>3, <1>4, <1>5 DEF StopInv
<1>7. WorkInv'
  <2>1. \A i \in Ids : status'[i] = "aborted" => status[i] = "aborted"
    BY <1>2 DEF TypeOK
  <2>2. Failed' = Failed
    BY <1>1, <1>2 DEF Failed, TypeOK
  <2>3. \A i \in Ids : due'[i] = IF i = winner THEN ChildrenIn(ready) ELSE due[i]
    BY <1>1 DEF Record, TypeOK
  <2>4. ASSUME NEW i \in Ids, status'[i] = "aborted", Failed' = {}
        PROVE  InFrontier(node[i])'
    BY <1>1, <1>5, <2>1, <2>2, <2>4 DEF WorkInv
  <2>5. ASSUME NEW i \in Ids, NEW d \in due'[i]
        PROVE  InFrontier(d[1])' \/ \E j \in Created \ Seeded : Work(j) = d
    BY <1>5, <2>3, <2>5 DEF WorkInv
  <2> QED
    BY <1>1, <1>3, <2>4, <2>5 DEF WorkInv
<1>8. LimitInv'
  BY <1>1, <1>3, <1>5 DEF LimitInv
<1> QED
  BY <1>3, <1>6, <1>7, <1>8


\* The new ids are those from the next one on.
LEMMA NewIds ==
  ASSUME NEW a \in Nat, NEW b \in Nat
  PROVE  /\ \A i \in a .. b - 1 : i \in Nat
         /\ \A i \in Nat : i \in a .. b - 1 <=> a <= i /\ i < b
  OBVIOUS

\* A completion that enqueues its children keeps the invariant.
LEMMA ContinuingKeeps ==
  ASSUME SchedulerInv, NEW ready, ConsumeContinuing(ready), ReadyTyped(ready)
  PROVE  IdsInv' /\ JoinInv' /\ StopInv' /\ WorkInv' /\ LimitInv'
<1> USE DEF SchedulerInv
<1>1. /\ Record(ready) /\ winner \in Ids /\ status[winner] = "running"
      /\ loop = "racing" /\ ~stopScheduling /\ Failed = {}
      /\ UNCHANGED <<loop, cause, stopScheduling, frontier, stopReason>>
  BY WinnerRuns DEF ConsumeContinuing, Record, Consume, stopVars
<1>2. PICK nd, ps, st : /\ Enqueued(ready, nd, ps, st)
                        /\ node' = nd /\ parents' = ps
                        /\ StartReady(nd, st)
  BY ContinuingEffect
<1>3. st \in [Ids -> Statuses] /\ limitReached \in BOOLEAN
  BY <1>2 DEF Enqueued, TypeOK
<1>4. /\ \A i \in Ids : \/ status'[i] = st[i]
                        \/ st[i] = "queued" /\ status'[i] = "running"
      /\ Queued(status') # {} => limitReached'
      /\ (limitReached => Blocked(nd, st)) => (limitReached' => Blocked(nd, status'))
  BY <1>2, <1>3, StartReadyEffect
<1>5. next \in Nat /\ next' \in next .. MaxId + 1 /\ MaxId \in Nat
  BY <1>2, BoundsAssumption DEF Enqueued, TypeOK
<1>6. New \subseteq Ids /\ \A i \in Ids : i \in New <=> next <= i /\ i < next'
  <2>1. next >= 1 /\ next' \in Nat /\ next' <= MaxId + 1
    BY <1>5 DEF TypeOK
  <2>2. /\ \A i \in New : i \in Nat
        /\ \A i \in Nat : i \in New <=> next <= i /\ i < next'
    BY <1>5, <2>1, NewIds DEF New
  <2>3. ASSUME NEW i \in New PROVE i \in Ids
    <3>1. i \in Nat /\ next <= i /\ i < next'
      BY <2>2
    <3>2. 1 <= i /\ i <= MaxId
      BY <1>5, <2>1, <3>1
    <3> QED
      BY <1>5, <3>1, <3>2 DEF Ids
  <2>4. Ids \subseteq Nat
    BY IdsFinite
  <2> QED
    BY <2>2, <2>3, <2>4
<1>7. Created \cap New = {} /\ winner \in Created /\ winner \notin New
  <2>1. ASSUME NEW i \in Created PROVE i \notin New
    <3>1. i < next /\ i \in Nat /\ i \in Ids
      BY IdsFinite DEF IdsInv, Created
    <3> QED
      BY <1>5, <1>6, <3>1
  <2>2. winner \in Created
    BY <1>1 DEF Created
  <2> QED
    BY <2>1, <2>2
<1>8. Created' = Created \cup New
  <2>1. ASSUME NEW i \in New PROVE status'[i] # "none"
    BY <1>2, <1>4, <1>6 DEF Enqueued
  <2>2. ASSUME NEW i \in Ids \ New PROVE status'[i] # "none" <=> status[i] # "none"
    BY <1>1, <1>2, <1>4 DEF Enqueued
  <2> QED
    BY <1>6, <2>1, <2>2 DEF Created
<1>9. ASSUME NEW i \in Created
      PROVE  node'[i] = node[i] /\ parents'[i] = parents[i] /\ Work(i)' = Work(i)
  <2>1. i \in Ids \ New
    BY <1>7 DEF Created
  <2> QED
    BY <1>2, <2>1 DEF Enqueued, Work
<1>10. ASSUME NEW i \in New
       PROVE  /\ node'[i] \in Node /\ Work(i)' \in ChildrenIn(ready)
              /\ Work(i)' = <<nd[i], ps[i]>> /\ node'[i] = nd[i]
  <2>1. <<nd[i], ps[i]>> \in ChildrenIn(ready)
    BY <1>2 DEF Enqueued
  <2>2. <<nd[i], ps[i]>> \in Node \X Seq(Ids)
    BY <2>1 DEF ReadyTyped, ChildrenIn
  <2> QED
    BY <1>2, <2>1, <2>2 DEF Work
<1>11. IdsInv'
  <2>1. next' >= FirstChild
    BY <1>5, FirstIds DEF IdsInv
  <2>2. ASSUME NEW i \in Created' PROVE i < next' /\ node'[i] \in Node
    <3>1. CASE i \in Created
      <4>1. i < next /\ i \in Nat
        BY <3>1, IdsFinite DEF IdsInv, Created
      <4> QED
        BY <1>5, <1>9, <3>1, <4>1 DEF IdsInv
    <3>2. CASE i \in New
      BY <1>6, <1>10, <3>2
    <3> QED
      BY <1>8, <2>2, <3>1, <3>2
  <2>3. ASSUME NEW i \in Created' \ Seeded PROVE i >= FirstId
    <3>1. CASE i \in Created
      BY <2>3, <3>1 DEF IdsInv
    <3>2. CASE i \in New
      <4>1. i >= next /\ i \in Nat
        BY <1>6, <3>2, IdsFinite
      <4> QED
        BY <1>5, <4>1, FirstIds DEF IdsInv
    <3> QED
      BY <1>8, <2>3, <3>1, <3>2
  <2>4. ASSUME NEW i \in Seeded PROVE status'[i] = "completed"
    <3>1. i \in Created /\ i \in Ids \ New /\ status[i] = "completed"
      BY <1>7, FirstIds DEF IdsInv, Created
    <3>2. st[i] = "completed"
      BY <1>2, <3>1 DEF Enqueued
    <3> QED
      BY <1>4, <3>1, <3>2
  <2> QED
    BY <2>1, <2>2, <2>3, <2>4 DEF IdsInv
<1>12. JoinInv'
  <2>1. joinKeys' = joinKeys \cup {<<nd[i], ps[i]>> : i \in {k \in New : IsJoin(nd[k])}}
    BY <1>2 DEF Enqueued
  <2>2. ASSUME NEW i \in New PROVE i \notin Seeded
    <3>1. i >= next /\ i \in Nat
      BY <1>6, IdsFinite
    <3> QED
      BY <1>5, <3>1, FirstIds DEF IdsInv
  <2>3. ASSUME NEW c \in joinKeys'
        PROVE  \E j \in Created' \ Seeded : Work(j)' = c
    <3>1. CASE c \in joinKeys
      <4>1. PICK j \in Created \ Seeded : Work(j) = c
        BY <3>1 DEF JoinInv
      <4> QED
        BY <1>8, <1>9, <4>1
    <3>2. CASE c \notin joinKeys
      <4>1. PICK i \in New : c = <<nd[i], ps[i]>>
        BY <2>1, <2>3, <3>2
      <4> QED
        BY <1>8, <1>10, <2>2, <4>1
    <3> QED
      BY <3>1, <3>2
  <2>4. ASSUME NEW i \in Created', i >= FirstChild, IsJoin(node'[i])
        PROVE  Work(i)' \in joinKeys'
    <3>1. CASE i \in Created
      BY <1>9, <2>1, <2>4, <3>1 DEF JoinInv
    <3>2. CASE i \in New
      BY <1>10, <2>1, <2>4, <3>2
    <3> QED
      BY <1>8, <2>4, <3>1, <3>2
  <2>5. ASSUME NEW i \in Created', NEW j \in Created', i >= FirstChild, j >= FirstChild,
               IsJoin(node'[i]), Work(i)' = Work(j)'
        PROVE  i = j
    <3>1. node'[i] = node'[j]
      BY <2>5 DEF Work
    <3>2. CASE i \in Created /\ j \in Created
      BY <1>9, <2>5, <3>2 DEF JoinInv
    <3>3. CASE i \in New /\ j \in New
      BY <1>2, <1>10, <2>5, <3>3 DEF Enqueued
    <3>4. CASE i \in New /\ j \in Created
      <4>1. Work(j) \in joinKeys
        BY <1>9, <2>5, <3>1, <3>4 DEF JoinInv
      <4>2. Work(i)' \notin joinKeys
        BY <1>2, <1>10, <2>5, <3>4 DEF Enqueued
      <4> QED
        BY <1>9, <2>5, <3>4, <4>1, <4>2
    <3>5. CASE i \in Created /\ j \in New
      <4>1. Work(i) \in joinKeys
        BY <1>9, <2>5, <3>5 DEF JoinInv
      <4>2. Work(j)' \notin joinKeys
        BY <1>2, <1>10, <2>5, <3>1, <3>5 DEF Enqueued
      <4> QED
        BY <1>9, <2>5, <3>5, <4>1, <4>2
    <3> QED
      BY <1>8, <2>5, <3>2, <3>3, <3>4, <3>5
  <2> QED
    BY <2>3, <2>4, <2>5 DEF JoinInv
<1>13. frontier = NoFrontier /\ frontier' = NoFrontier
  BY <1>1 DEF StopInv
<1>14. StopInv'
  BY <1>1, <1>13 DEF StopInv
<1>15. WorkInv'
  <2>1. ASSUME NEW i \in Ids, status'[i] = "aborted"
        PROVE  FALSE
    <3>1. status[i] # "aborted"
      BY <1>1, <1>13 DEF WorkInv, InFrontier
    <3>2. st[i] # "aborted"
      BY <1>2, <3>1 DEF Enqueued
    <3> QED
      BY <1>4, <2>1, <3>2
  <2>2. ASSUME NEW i \in Ids, NEW d \in due'[i]
        PROVE  \E j \in Created' \ Seeded : Work(j)' = d
    <3>1. ASSUME \E j \in Created \ Seeded : Work(j) = d
          PROVE  \E j \in Created' \ Seeded : Work(j)' = d
      BY <1>8, <1>9, <3>1
    <3>2. CASE i = winner
      <4>1. d \in ChildrenIn(ready)
        BY <1>1, <2>2, <3>2 DEF Record, TypeOK
      <4>2. CASE d \in joinKeys
        BY <3>1, <4>2 DEF JoinInv
      <4>3. CASE d \notin joinKeys
        <5>1. PICK j \in New : <<nd[j], ps[j]>> = d
          BY <1>2, <4>1, <4>3 DEF Enqueued
        <5>2. j \notin Seeded
          <6>1. j >= next /\ j \in Nat
            BY <1>6, IdsFinite
          <6> QED
            BY <1>5, <6>1, FirstIds DEF IdsInv
        <5> QED
          BY <1>8, <1>10, <5>1, <5>2
      <4> QED
        BY <4>2, <4>3
    <3>3. CASE i # winner
      <4>1. d \in due[i]
        BY <1>1, <2>2, <3>3 DEF Record, TypeOK
      <4> QED
        BY <1>13, <3>1, <4>1 DEF WorkInv, InFrontier
    <3> QED
      BY <3>2, <3>3
  <2> QED
    BY <2>1, <2>2 DEF WorkInv
<1>16. LimitInv'
  <2>1. ASSUME limitReached PROVE Blocked(nd, st)
    <3>1. PICK i \in Queued(status) : ~AdmittedIn(node, status, i)
      BY <2>1 DEF LimitInv, Blocked
    <3>2. i \in Created /\ i \in Ids \ New /\ i # winner
      BY <1>1, <1>7, <3>1 DEF Created, Queued
    <3>3. i \in Queued(st) /\ nd[i] = node[i]
      BY <1>2, <3>1, <3>2 DEF Enqueued, Queued
    <3>4. ASSUME NEW j \in BeforeIn(status, i)
          PROVE  j \in BeforeIn(st, i) /\ nd[j] = node[j]
      <4>1. j \in Created
        BY DEF BeforeIn, Created, Queued
      <4>2. j \in Ids \ New
        BY <1>7, <4>1 DEF Created
      <4>3. nd[j] = node[j] /\ st[j] = IF j = winner THEN "completed" ELSE status[j]
        BY <1>2, <4>2 DEF Enqueued
      <4> QED
        BY <1>1, <4>2, <4>3 DEF BeforeIn, Queued
    <3>5. ~AdmittedIn(nd, st, i)
      BY <3>1, <3>2, <3>3, <3>4, NeverAdmittedAgain
    <3> QED
      BY <3>3, <3>5 DEF Blocked
  <2> QED
    BY <1>1, <1>2, <1>4, <2>1 DEF LimitInv
<1> QED
  BY <1>11, <1>12, <1>14, <1>15, <1>16

\* What the attempt begins with: the seeded activations are completed, those of
\* the start nodes are queued, and there is nothing else.
LEMMA InitialActivations ==
  ASSUME SchedulerInit, NEW i \in Ids
  PROVE  /\ i \in Seeded => /\ status[i] = "completed" /\ node[i] \in Node
                            /\ parents[i] \in Seq(Ids) /\ i < FirstId
                            /\ \E k \in 1 .. Len(Seed) : parents[i] = Seed[k].parents
         /\ i \in StartIds => /\ status[i] = "queued" /\ node[i] \in Node
                              /\ parents[i] \in Seq(Ids) /\ parents[i] = StartParents
                              /\ i >= FirstId /\ i < FirstChild
         /\ i \notin Seeded \cup StartIds =>
              status[i] = "none" /\ node[i] = NoNode /\ parents[i] = << >>
<1>1. /\ node[i] = CASE i \in Seeded -> SeedOf(i).node
                     [] i \in StartIds -> StartNodes[i - FirstId + 1]
                     [] OTHER -> NoNode
      /\ parents[i] = CASE i \in Seeded -> SeedOf(i).parents
                        [] i \in StartIds -> StartParents
                        [] OTHER -> << >>
      /\ status[i] = CASE i \in Seeded -> "completed"
                       [] i \in StartIds -> "queued"
                       [] OTHER -> "none"
  BY DEF SchedulerInit
<1>2. i \in Nat /\ FirstId \in Nat /\ Len(StartNodes) \in Nat
  BY IdsFinite, FirstIds, GraphAssumption, LenProperties
<1>3. i \in StartIds => i >= FirstId /\ i < FirstChild
  BY <1>2 DEF StartIds, FirstChild
<1>4. i \in Seeded => i < FirstId /\ i \notin StartIds
  BY <1>2, <1>3, FirstIds
<1>5. CASE i \in Seeded
  <2>1. PICK k \in 1 .. Len(Seed) : Seed[k].id = i
    BY <1>5 DEF Seeded
  <2>2. /\ SeedOf(i) \in [id : Ids, node : Node, parents : Seq(Ids)]
        /\ \E m \in 1 .. Len(Seed) : SeedOf(i) = Seed[m]
    <3> DEFINE c == CHOOSE m \in 1 .. Len(Seed) : Seed[m].id = i
    <3>1. c \in 1 .. Len(Seed)
      BY <2>1
    <3>2. SeedOf(i) = Seed[c]
      BY DEF SeedOf
    <3> HIDE DEF c
    <3> QED
      BY <3>1, <3>2, BoundsAssumption, ElementOfSeq
  <2>3. SeedOf(i).node \in Node /\ SeedOf(i).parents \in Seq(Ids)
    BY <2>2
  <2>4. node[i] = SeedOf(i).node /\ parents[i] = SeedOf(i).parents /\ status[i] = "completed"
    BY <1>1, <1>4, <1>5
  <2> QED
    BY <1>4, <1>5, <2>2, <2>3, <2>4
<1>6. CASE i \in StartIds
  <2>1. i \notin Seeded
    BY <1>4, <1>6
  <2>2. i - FirstId + 1 \in 1 .. Len(StartNodes)
    BY <1>2, <1>3, <1>6 DEF FirstChild
  <2>3. StartNodes[i - FirstId + 1] \in Node
    BY <2>2, GraphAssumption, ElementOfSeq
  <2>4. node[i] = StartNodes[i - FirstId + 1] /\ parents[i] = StartParents /\ status[i] = "queued"
    BY <1>1, <1>6, <2>1
  <2> QED
    BY <1>3, <1>6, <2>1, <2>3, <2>4, BoundsAssumption
<1>7. CASE i \notin Seeded \cup StartIds
  BY <1>1, <1>7
<1> QED
  BY <1>5, <1>6, <1>7

\* The types hold initially.
LEMMA InitialTypes ==
  ASSUME SchedulerInit
  PROVE  TypeOK
<1>1. \A i \in Ids : /\ node[i] \in Node \cup {NoNode}
                     /\ parents[i] \in Seq(Ids)
                     /\ status[i] \in Statuses
  <2>1. << >> \in Seq(Ids)
    BY EmptySeq
  <2> QED
    BY <2>1, InitialActivations DEF Statuses
<1>2. /\ node \in [Ids -> Node \cup {NoNode}]
      /\ parents \in [Ids -> Seq(Ids)]
      /\ status \in [Ids -> Statuses]
  <2>1. /\ node = [i \in Ids |-> node[i]]
        /\ parents = [i \in Ids |-> parents[i]]
        /\ status = [i \in Ids |-> status[i]]
    BY DEF SchedulerInit
  <2> QED
    BY <1>1, <2>1
<1>3. next \in 1 .. MaxId + 1
  <2>1. next = FirstChild
    BY DEF SchedulerInit, FirstChild
  <2> QED
    BY <2>1, FirstIds, BoundsAssumption
<1>4. done \in Seq(Ids)
  <2>1. Len(Seed) \in Nat
    BY BoundsAssumption, LenProperties
  <2>2. \A k \in 1 .. Len(Seed) : Seed[k] \in [id : Ids, node : Node, parents : Seq(Ids)]
    BY BoundsAssumption, ElementOfSeq
  <2>3. done \in [1 .. Len(Seed) -> Ids]
    BY <2>2 DEF SchedulerInit
  <2> QED
    BY <2>1, <2>3, SeqDef
<1>5. /\ joinKeys = {} /\ result = [i \in Ids |-> "pending"] /\ winner = 0
      /\ loop = "boot" /\ stopScheduling = FALSE /\ frontier = NoFrontier
      /\ stopReason = FALSE /\ limitReached = FALSE /\ cause = "none"
      /\ due = [i \in Ids |-> {}]
  BY DEF SchedulerInit
<1> QED
  BY <1>2, <1>3, <1>4, <1>5 DEF TypeOK, Statuses

\* The invariant holds initially.
LEMMA SchedulerInvInit ==
  ASSUME SchedulerInit
  PROVE  SchedulerInv
<1>1. /\ next = FirstChild /\ joinKeys = {} /\ loop = "boot" /\ frontier = NoFrontier
      /\ ~stopScheduling /\ ~limitReached
      /\ \A i \in Ids : due[i] = {}
  BY DEF SchedulerInit, FirstChild
<1>2. \A i \in Created : i \in Ids /\ (i \in Seeded \/ i \in StartIds)
  BY InitialActivations DEF Created
<1>3. \A i \in Created : i < FirstChild /\ node[i] \in Node
  <2>1. ASSUME NEW i \in Created, i \in Seeded PROVE i < FirstChild /\ node[i] \in Node
    <3>1. i \in Ids /\ i \in Nat
      BY <1>2, IdsFinite
    <3>2. i < FirstId /\ node[i] \in Node
      BY <2>1, <3>1, InitialActivations
    <3> QED
      BY <3>1, <3>2, FirstIds
  <2> QED
    BY <1>2, <2>1, InitialActivations
<1>4. IdsInv
  <2>1. \A i \in Created \ Seeded : i >= FirstId
    BY <1>2, InitialActivations
  <2>2. \A i \in Seeded : status[i] = "completed"
    BY InitialActivations, FirstIds
  <2>3. next >= FirstChild
    BY <1>1, FirstIds
  <2> QED
    BY <1>1, <1>3, <2>1, <2>2, <2>3 DEF IdsInv
<1>5. JoinInv
  <2>1. ASSUME NEW i \in Created PROVE ~(i >= FirstChild)
    <3>1. i \in Nat
      BY <1>2, IdsFinite
    <3> QED
      BY <1>3, <3>1, FirstIds
  <2> QED
    BY <1>1, <2>1 DEF JoinInv
<1>6. StopInv
  BY <1>1 DEF StopInv
<1>7. WorkInv
  <2>1. \A i \in Ids : status[i] # "aborted"
    BY InitialActivations
  <2> QED
    BY <1>1, <2>1 DEF WorkInv
<1>8. Queued(status) # {}
  <2>1. FirstId \in Ids /\ FirstId \in StartIds
    BY FirstIds, BoundsAssumption DEF Ids, StartIds, FirstChild
  <2> QED
    BY <2>1, InitialActivations DEF Queued
<1>9. LimitInv
  BY <1>1, <1>8 DEF LimitInv
<1> QED
  BY <1>4, <1>5, <1>6, <1>7, <1>9, InitialTypes DEF SchedulerInv

\* Every step keeps the invariant.
LEMMA SchedulerInvStep ==
  ASSUME SchedulerInv, [SchedulerNext]_schedulerVars
  PROVE  SchedulerInv'
<1>1. TypeOK /\ IdsInv /\ JoinInv /\ StopInv /\ WorkInv /\ LimitInv
  BY DEF SchedulerInv
<1>2. CASE BootStart \/ BootHalted
  BY <1>1, <1>2, BootTypes, BootKeeps DEF SchedulerInv
<1>3. CASE StopSignalled \/ SettleNext
  <2>1. TypeOK'
    BY <1>1, <1>3, EnvironmentTypes
  <2>2. /\ UNCHANGED <<node, parents, next, joinKeys, status, loop, stopVars,
                       limitReached, due>>
        /\ cause # "none" => cause' # "none"
    BY <1>3 DEF StopSignalled, SettleNext, Settle, activationVars, stopVars
  <2> QED
    BY <1>1, <2>1, <2>2, QuietKeeps DEF SchedulerInv
<1>4. CASE ConsumeNext
  <2>1. CASE ConsumeAborted \/ ConsumeFailed \/ ConsumeDiscarded
    BY <1>1, <2>1, EndTypes, EndsKeep DEF SchedulerInv
  <2>2. ASSUME winner # 0,
               NEW taken \in SUBSET Conditional(winner),
               NEW ready, ready = Ready(Append(done, winner), winner, taken),
               ConsumeHolding(ready) \/ ConsumeContinuing(ready)
        PROVE  SchedulerInv'
    <3>1. winner \in Ids
      BY <1>1, <2>2 DEF TypeOK
    <3>2. ReadyTyped(ready) /\ ChildrenIn(ready) \subseteq Node \X Seq(Ids)
      BY <1>1, <2>2, <3>1, ReadyChildren
    <3>3. Record(ready)
      BY <2>2 DEF ConsumeHolding, ConsumeContinuing
    <3>4. TypeOK'
      BY <1>1, <2>2, <3>2, <3>3, CompletionTypes
    <3>5. IdsInv' /\ JoinInv' /\ StopInv' /\ WorkInv' /\ LimitInv'
      <4>1. CASE ConsumeHolding(ready)
        BY <3>2, <4>1, HoldingKeeps
      <4>2. CASE ConsumeContinuing(ready)
        BY <3>2, <4>2, ContinuingKeeps
      <4> QED
        BY <2>2, <4>1, <4>2
    <3> QED
      BY <3>4, <3>5 DEF SchedulerInv
  <2> QED
    BY <1>4, <2>1, <2>2 DEF ConsumeNext
<1>5. CASE UNCHANGED schedulerVars
  <2>1. UNCHANGED <<node, parents, next, done, joinKeys, status, result, winner, loop,
                    stopScheduling, frontier, stopReason, limitReached, cause, due>>
    BY <1>5 DEF schedulerVars, activationVars, stopVars
  <2>2. TypeOK'
    BY <1>1, <2>1 DEF TypeOK
  <2> QED
    BY <1>1, <2>1, <2>2, QuietKeeps DEF SchedulerInv, stopVars
<1> QED
  BY <1>2, <1>3, <1>4, <1>5 DEF SchedulerNext

\* The invariant holds in every behaviour of the scheduler.
THEOREM SchedulerInvariant == SchedulerSpec => []SchedulerInv
<1>1. SchedulerInit => SchedulerInv
  BY SchedulerInvInit
<1>2. SchedulerInv /\ [SchedulerNext]_schedulerVars => SchedulerInv'
  BY SchedulerInvStep
<1> QED
  BY <1>1, <1>2, PTL DEF SchedulerSpec


-----------------------------------------------------------------------------
(* What the scheduler promises *)

\* Types, for runWorkflowScheduler.
THEOREM SchedulerTyped == SchedulerSpec => []TypeOK
<1>1. SchedulerInv => TypeOK
  BY DEF SchedulerInv
<1> QED
  BY <1>1, SchedulerInvariant, PTL

\* A node that waits keeps a nonempty frontier: what a limit left queued is in it.
LEMMA BlockedIsFrontier ==
  ASSUME SchedulerInv
  PROVE  /\ \A i \in Queued(status) : node[i] \in Frontier
         /\ limitReached => Frontier # {}
         /\ \A n : InFrontier(n) => n \in Frontier
<1>1. \A i \in Queued(status) : node[i] \in Frontier
  BY DEF Frontier, FrontierSoFar, QueuedNodes, SchedulerInv, StopInv
<1>2. limitReached => Queued(status) # {}
  BY DEF SchedulerInv, LimitInv, Blocked
<1> QED
  BY <1>1, <1>2 DEF InFrontier, Frontier, FrontierSoFar

\* What is neither queued nor running at the end has an outcome.
LEMMA EndedOrQueued ==
  ASSUME SchedulerInv, SchedulerDone, Failed = {}, NEW j \in Created
  PROVE  status[j] \in {"completed", "aborted"} \/ j \in Queued(status)
<1>1. j \in Ids /\ status[j] \in Statuses /\ status[j] # "none"
  BY DEF Created, SchedulerInv, TypeOK, Statuses
<1> QED
  BY <1>1 DEF Statuses, SchedulerDone, Running, Failed, Queued

\* No work is lost: when nothing runs any more, what a completion made ready has
\* been run or is in the frontier of the checkpoint.
THEOREM WorkIsNeverLost == SchedulerSpec => []NoWorkLost
<1>1. ASSUME SchedulerInv, SchedulerDone, Failed = {}, NEW i \in Ids
      PROVE  /\ status[i] = "aborted" => node[i] \in Frontier
             /\ \A d \in due[i] :
                  \/ d[1] \in Frontier
                  \/ \E j \in Ids : /\ <<node[j], parents[j]>> = d
                                    /\ status[j] \in {"completed", "aborted"}
  <2>1. status[i] = "aborted" => node[i] \in Frontier
    BY <1>1, BlockedIsFrontier DEF SchedulerInv, WorkInv
  <2>2. ASSUME NEW d \in due[i], NEW j \in Created \ Seeded, Work(j) = d
        PROVE  \/ d[1] \in Frontier
               \/ \E k \in Ids : /\ <<node[k], parents[k]>> = d
                                 /\ status[k] \in {"completed", "aborted"}
    <3>1. j \in Ids /\ <<node[j], parents[j]>> = d /\ d[1] = node[j]
      BY <2>2 DEF Created, Work
    <3> QED
      BY <1>1, <2>2, <3>1, EndedOrQueued, BlockedIsFrontier
  <2>3. \A d \in due[i] : InFrontier(d[1]) \/ \E j \in Created \ Seeded : Work(j) = d
    BY <1>1 DEF SchedulerInv, WorkInv
  <2> QED
    BY <1>1, <2>1, <2>2, <2>3, BlockedIsFrontier
<1>2. SchedulerInv => NoWorkLost
  BY <1>1 DEF NoWorkLost
<1> QED
  BY <1>2, SchedulerInvariant, PTL

\* Without a reason for a checkpoint nothing is left: all that was activated is
\* completed, and all that became ready was activated.
LEMMA NothingLeft ==
  ASSUME SchedulerInv, SchedulerDone, Failed = {}, ~CheckpointReason
  PROVE  /\ \A j \in Created : status[j] = "completed"
         /\ \A i \in Ids : \A d \in due[i] : \E j \in Created \ Seeded : Work(j) = d
<1>1. ~limitReached /\ (Frontier # {} => ~stopReason /\ cause = "none")
  BY DEF CheckpointReason
<1>2. frontier = NoFrontier \/ frontier = {}
  <2>1. ASSUME frontier # NoFrontier, frontier # {} PROVE FALSE
    <3>1. Frontier # {}
      BY <2>1 DEF Frontier, FrontierSoFar
    <3> QED
      BY <1>1, <2>1, <3>1 DEF SchedulerInv, StopInv
  <2> QED
    BY <2>1
<1>3. \A n : ~InFrontier(n)
  BY <1>2 DEF InFrontier
<1>4. Queued(status) = {}
  <2>1. QueuedNodes = {} => Queued(status) = {}
    BY DEF QueuedNodes
  <2>2. CASE frontier = NoFrontier
    BY <1>1, <2>2 DEF SchedulerInv, LimitInv, SchedulerDone
  <2>3. CASE frontier # NoFrontier
    BY <1>2, <2>1, <2>3 DEF SchedulerInv, StopInv
  <2> QED
    BY <2>2, <2>3
<1>5. ASSUME NEW j \in Created PROVE status[j] = "completed"
  BY <1>3, <1>4, EndedOrQueued DEF SchedulerInv, WorkInv, Created
<1> QED
  BY <1>3, <1>5 DEF SchedulerInv, WorkInv

\* A run that is reported completed has completed all that became ready.
THEOREM CompletedIsAllDone == SchedulerSpec => []CompletedMeansAllDone
<1>1. ASSUME SchedulerInv, SchedulerDone, Failed = {}, ~CheckpointReason, NEW i \in Ids
      PROVE  /\ status[i] \in {"none", "completed"}
             /\ \A d \in due[i] : \E j \in Ids : /\ <<node[j], parents[j]>> = d
                                                 /\ status[j] = "completed"
  <2>1. status[i] \in {"none", "completed"}
    BY <1>1, NothingLeft DEF Created
  <2>2. ASSUME NEW d \in due[i]
        PROVE  \E j \in Ids : /\ <<node[j], parents[j]>> = d
                              /\ status[j] = "completed"
    <3>1. PICK j \in Created \ Seeded : Work(j) = d
      BY <1>1, NothingLeft
    <3> QED
      BY <1>1, <3>1, NothingLeft DEF Created, Work
  <2> QED
    BY <2>1, <2>2
<1>2. SchedulerInv => CompletedMeansAllDone
  BY <1>1 DEF CompletedMeansAllDone
<1> QED
  BY <1>2, SchedulerInvariant, PTL

\* A run that is checkpointed has a node to be restarted from.
THEOREM CheckpointsAreRestartable == SchedulerSpec => []CheckpointIsRestartable
<1>1. SchedulerInv => CheckpointIsRestartable
  BY BlockedIsFrontier DEF CheckpointIsRestartable, CheckpointReason
<1> QED
  BY <1>1, SchedulerInvariant, PTL

\* A join is activated once for the same completed parents.
THEOREM JoinsOnce == SchedulerSpec => []JoinOnce
<1>1. ASSUME SchedulerInv, NEW i \in Ids, status[i] # "none",
             i \notin Seeded \cup StartIds
      PROVE  i \in Created /\ i >= FirstChild
  <2>1. i \in Created /\ i >= FirstId /\ i \in Nat
    BY <1>1, IdsFinite DEF Created, SchedulerInv, IdsInv
  <2>2. FirstId \in Nat /\ Len(StartNodes) \in Nat
    BY FirstIds, GraphAssumption, LenProperties
  <2> QED
    BY <1>1, <2>1, <2>2 DEF StartIds, FirstChild
<1>2. SchedulerInv => JoinOnce
  <2>1. ASSUME SchedulerInv, NEW i \in Ids, NEW j \in Ids,
               status[i] # "none", status[j] # "none",
               i \notin Seeded \cup StartIds, j \notin Seeded \cup StartIds,
               node[i] = node[j], IsJoin(node[i]), parents[i] = parents[j]
        PROVE  i = j
    <3>1. /\ i \in Created /\ i >= FirstChild
          /\ j \in Created /\ j >= FirstChild
      BY <1>1, <2>1
    <3>2. Work(i) = Work(j)
      BY <2>1 DEF Work
    <3> QED
      BY <2>1, <3>1, <3>2 DEF SchedulerInv, JoinInv
  <2> QED
    BY <2>1 DEF JoinOnce
<1> QED
  BY <1>2, SchedulerInvariant, PTL

\* Once the scheduler's signal is aborted no step starts an activation.
THEOREM StopsAreQuiet == SchedulerSpec => StopHolds
<1>1. SchedulerInv /\ [SchedulerNext]_schedulerVars => [StopIsQuiet]_schedulerVars
  <2> SUFFICES ASSUME SchedulerInv, [SchedulerNext]_schedulerVars, cause # "none",
                      schedulerVars' # schedulerVars
               PROVE  \A i \in Ids : status'[i] = "running" => status[i] = "running"
    BY DEF StopIsQuiet
  <2>1. status \in [Ids -> Statuses]
    BY DEF SchedulerInv, TypeOK, Statuses
  <2>2. ASSUME NEW x \in {"completed", "failed", "aborted"},
               status' = [status EXCEPT ![winner] = x]
        PROVE  \A i \in Ids : status'[i] = "running" => status[i] = "running"
    BY <2>1, <2>2
  <2>3. CASE BootStart
    BY <2>3 DEF BootStart
  <2>4. CASE BootHalted
    BY <2>4 DEF BootHalted
  <2>5. CASE StopSignalled \/ SettleNext
    BY <2>5 DEF StopSignalled, SettleNext, Settle
  <2>6. CASE ConsumeNext
    <3>1. CASE ConsumeAborted
      BY <2>2, <3>1 DEF ConsumeAborted
    <3>2. CASE ConsumeFailed
      BY <2>2, <3>2 DEF ConsumeFailed
    <3>3. CASE ConsumeDiscarded
      BY <2>2, <3>3 DEF ConsumeDiscarded
    <3>4. ASSUME NEW ready, ConsumeHolding(ready)
          PROVE  \A i \in Ids : status'[i] = "running" => status[i] = "running"
      BY <2>2, <3>4 DEF ConsumeHolding
    <3>5. ASSUME NEW ready, ConsumeContinuing(ready) PROVE FALSE
      BY <3>5 DEF ConsumeContinuing
    <3> QED
      BY <2>6, <3>1, <3>2, <3>3, <3>4, <3>5 DEF ConsumeNext
  <2> QED
    BY <2>3, <2>4, <2>5, <2>6 DEF SchedulerNext
<1> QED
  BY <1>1, SchedulerInvariant, PTL DEF SchedulerSpec, StopHolds

-----------------------------------------------------------------------------
(* What an activation has been given *)

\* What the scheduler's main loop does to an activation: it is created, queued or
\* started, or it has won the race and gets the status its result stands for.
Moves(i) ==
  \/ status'[i] = status[i]
  \/ status[i] \in {"none", "queued"} /\ status'[i] \in {"queued", "running"}
  \/ /\ status[i] = "running"
     /\ \/ result[i] = "output" /\ status'[i] = "completed"
        \/ result[i] = "error" /\ status'[i] = "failed"
        \/ result[i] = "aborted" /\ status'[i] = "aborted"
        \/ result[i] = "output" /\ status'[i] = "aborted" /\ Failed # {}

\* ... and it changes no result, no node or parents of an activation there is,
\* and never goes back to the start.
LEMMA SchedulerMoves ==
  ASSUME SchedulerInv, BootStart \/ BootHalted \/ ConsumeNext
  PROVE  /\ result' = result /\ loop' = "racing"
         /\ \A i \in Ids : Moves(i)
         /\ \A i \in Ids : status[i] # "none" => node'[i] = node[i] /\ parents'[i] = parents[i]
<1>1. TypeOK /\ IdsInv
  BY DEF SchedulerInv
<1>2. status \in [Ids -> Statuses] /\ limitReached \in BOOLEAN
  BY <1>1 DEF TypeOK, Statuses
<1>3. CASE BootStart
  <2>1. StartReady(node, status)
    BY <1>3 DEF BootStart
  <2>2. \A i \in Ids : \/ status'[i] = status[i]
                       \/ status[i] = "queued" /\ status'[i] = "running"
    BY <1>2, <2>1, StartReadyEffect
  <2> QED
    BY <1>3, <2>2 DEF BootStart, Moves, activationVars
<1>4. CASE BootHalted
  BY <1>4 DEF BootHalted, Moves, activationVars
<1>5. CASE ConsumeAborted \/ ConsumeFailed \/ ConsumeDiscarded
  <2>1. /\ winner \in Ids /\ status[winner] = "running" /\ loop = "racing"
        /\ result' = result /\ loop' = loop /\ node' = node /\ parents' = parents
    BY <1>1, <1>5, WinnerRuns DEF ConsumeAborted, ConsumeFailed, ConsumeDiscarded, Consume,
                                  activationVars
  <2>2. CASE ConsumeAborted
    BY <1>2, <2>1, <2>2 DEF ConsumeAborted, Moves
  <2>3. CASE ConsumeFailed
    BY <1>2, <2>1, <2>3 DEF ConsumeFailed, Moves
  <2>4. CASE ConsumeDiscarded
    BY <1>2, <2>1, <2>4 DEF ConsumeDiscarded, Moves
  <2> QED
    BY <1>5, <2>2, <2>3, <2>4, <2>1
<1>6. ASSUME winner # 0,
             NEW taken \in SUBSET Conditional(winner),
             NEW ready, ready = Ready(Append(done, winner), winner, taken),
             ConsumeHolding(ready) \/ ConsumeContinuing(ready)
      PROVE  /\ result' = result /\ loop' = "racing"
             /\ \A i \in Ids : Moves(i)
             /\ \A i \in Ids : status[i] # "none" => node'[i] = node[i] /\ parents'[i] = parents[i]
  <2>1. Record(ready) /\ result' = result /\ loop' = loop
    BY <1>6 DEF ConsumeHolding, ConsumeContinuing
  <2>2. /\ winner \in Ids /\ status[winner] = "running" /\ loop = "racing"
        /\ result[winner] = "output"
    BY <1>1, <2>1, WinnerRuns DEF Record, Consume
  <2>3. CASE ConsumeHolding(ready)
    BY <1>2, <2>1, <2>2, <2>3 DEF ConsumeHolding, Moves
  <2>4. CASE ConsumeContinuing(ready)
    <3>1. ReadyTyped(ready)
      BY <1>1, <1>6, <2>2, ReadyChildren
    <3>2. PICK nd, ps, st : /\ Enqueued(ready, nd, ps, st)
                            /\ node' = nd /\ parents' = ps
                            /\ StartReady(nd, st)
      BY <1>1, <2>4, <3>1, ContinuingEffect
    <3>3. st \in [Ids -> Statuses]
      BY <3>2 DEF Enqueued
    <3>4. \A i \in Ids : \/ status'[i] = st[i]
                         \/ st[i] = "queued" /\ status'[i] = "running"
      BY <1>2, <3>2, <3>3, StartReadyEffect
    <3>5. ASSUME NEW i \in Ids, i \in New
          PROVE  status[i] = "none"
      <4>1. i \in Nat /\ next \in Nat /\ next' \in Nat
        BY <1>1, <3>2, IdsFinite, BoundsAssumption DEF TypeOK, Enqueued
      <4>2. next <= i
        BY <3>5, <4>1, NewIds DEF New
      <4> QED
        BY <1>1, <4>1, <4>2 DEF IdsInv, Created
    <3>6. ASSUME NEW i \in Ids
          PROVE  Moves(i) /\ (status[i] # "none" => node'[i] = node[i] /\ parents'[i] = parents[i])
      <4>1. CASE i \in New
        BY <3>2, <3>4, <3>5, <4>1 DEF Enqueued, Moves
      <4>2. CASE i \notin New
        <5>1. /\ nd[i] = node[i] /\ ps[i] = parents[i]
              /\ st[i] = IF i = winner THEN "completed" ELSE status[i]
          BY <3>2, <4>2 DEF Enqueued
        <5> QED
          BY <2>2, <3>2, <3>4, <5>1 DEF Moves
      <4> QED
        BY <4>1, <4>2
    <3> QED
      BY <2>1, <2>2, <3>6
  <2> QED
    BY <1>6, <2>3, <2>4
<1>7. CASE ConsumeNext
  BY <1>5, <1>6, <1>7 DEF ConsumeNext
<1> QED
  BY <1>3, <1>4, <1>7

\* The activations that have completed.
Completed == {i \in Ids : status[i] = "completed"}

\* The work c is fed by the activations in C: a join has a parent in C for every
\* node it waits for, in their order; any other activation has one parent in C,
\* and an edge leads from it.
Fed(C, c) ==
  IF IsJoin(c[1])
  THEN \A m \in 1 .. Len(WaitFor[c[1]]) :
         c[2][m] \in C /\ node[c[2][m]] = WaitFor[c[1]][m]
  ELSE \E p \in C : /\ c[2] = <<p>>
                    /\ \E k \in 1 .. Len(Edges) : /\ Edges[k].from = node[p]
                                                  /\ Edges[k].to = c[1]

\* A node never runs without its inputs: every activation that completions have
\* enqueued is fed by completed ones.
InputsCompleted ==
  \A j \in Created \ (Seeded \cup StartIds) : Fed(Completed, Work(j))

\* completedByNode and completedById hold completed activations only.
FedInv ==
  /\ \A k \in 1 .. Len(done) : done[k] \in Completed
  /\ InputsCompleted

\* The latest activation of a node is one of it that has completed, and it
\* belongs to the generation asked for.
LEMMA LatestIsOfNode ==
  ASSUME NEW d \in Seq(Ids), NEW n, NEW g, Latest(d, n, g) # 0
  PROVE  /\ Latest(d, n, g) \in Elements(d)
         /\ node[Latest(d, n, g)] = n
         /\ InGeneration(d, Latest(d, n, g), g)
<1> DEFINE at == {k \in 1 .. Len(d) : node[d[k]] = n /\ InGeneration(d, d[k], g)}
<1>1. Latest(d, n, g) = IF at = {} THEN 0 ELSE d[Greatest(at)]
  BY DEF Latest
<1>2. at # {} => Greatest(at) \in at
  <2>1. at \subseteq 1 .. Len(d) /\ at \subseteq Nat /\ Len(d) \in Nat
    OBVIOUS
  <2>2. \A k \in at : k <= Len(d)
    BY <2>1
  <2> HIDE DEF at
  <2> QED
    BY <2>1, <2>2, GreatestIsGreatest
<1>3. at # {} => /\ Greatest(at) \in 1 .. Len(d)
                 /\ node[d[Greatest(at)]] = n
                 /\ InGeneration(d, d[Greatest(at)], g)
  <2> SUFFICES ASSUME at # {}
               PROVE  /\ Greatest(at) \in 1 .. Len(d)
                      /\ node[d[Greatest(at)]] = n
                      /\ InGeneration(d, d[Greatest(at)], g)
    OBVIOUS
  <2>1. PICK l : l = Greatest(at)
    OBVIOUS
  <2> QED
    BY <1>2, <2>1
<1> HIDE DEF at
<1> QED
  BY <1>1, <1>3 DEF Elements

\* The parents collectJoinParentIds finds are, for one generation g, the latest
\* activations of the nodes the join waits for, and the activation that led to
\* the join itself if it is of another node.
JoinParentsFrom(d, i, join, g, f) ==
  LET outside == node[i] \notin Elements(WaitFor[join]) IN
  /\ g \in Elements(Generations(d, i, join)) \/ (outside /\ g = Anyone)
  /\ f \in Seq(Ids) /\ Len(f) = Len(WaitFor[join])
  /\ \A m \in 1 .. Len(f) : f[m] = Latest(d, WaitFor[join][m], g) /\ f[m] # 0
  /\ JoinParents(d, i, join) = IF outside THEN Append(f, i) ELSE f

\* collectJoinParentIds looks for all of them in the same generation.
LEMMA JoinParentsOfOneGeneration ==
  ASSUME Typed(node, parents), NEW d \in Seq(Ids), NEW i \in Ids, NEW join \in Node,
         JoinParents(d, i, join) # << >>
  PROVE  \E g, f : JoinParentsFrom(d, i, join, g, f)
<1> DEFINE waits == WaitFor[join]
           outside == node[i] \notin Elements(waits)
           cands == Generations(d, i, join)
           last == IF outside THEN <<Anyone>> ELSE << >>
           gens == cands \o last
           rows == [k \in 1 .. Len(gens) |->
                      [n \in 1 .. Len(waits) |-> Latest(d, waits[n], gens[k])]]
           ready == {k \in 1 .. Len(gens) : 0 \notin Elements(rows[k])}
           row(g) == [n \in 1 .. Len(waits) |-> Latest(d, waits[n], g)]
           rest == IF outside THEN <<i>> ELSE << >>
<1>1. JoinParents(d, i, join) = IF ready = {} THEN << >> ELSE rows[Least(ready)] \o rest
  BY Zenon DEF JoinParents
<1>2. waits \in Seq(Node) /\ Len(waits) \in Nat
  BY GraphAssumption
<1>3. ready # {} /\ ready \subseteq Nat
  <2>1. ready \subseteq Nat
    OBVIOUS
  <2> QED
    BY <1>1, <2>1
<1>4. Least(ready) \in ready
  <2> HIDE DEF ready
  <2> QED
    BY <1>3, LeastIsLeast
<1>5. PICK l : l = Least(ready)
  OBVIOUS
<1>6. l \in 1 .. Len(gens) /\ 0 \notin Elements(rows[l]) /\ rows[l] = row(gens[l])
  BY <1>4, <1>5
<1>7. PICK g : g = gens[l]
  OBVIOUS
<1>8. PICK f : f = row(g)
  OBVIOUS
<1>9. /\ Len(f) = Len(waits)
      /\ \A n \in 1 .. Len(waits) : f[n] = Latest(d, waits[n], g)
  <2> HIDE DEF waits
  <2> QED
    BY <1>2, <1>8
<1>10. JoinParents(d, i, join) = f \o rest /\ 0 \notin Elements(f)
  <2> HIDE DEF gens, rows, ready, row, rest
  <2> QED
    BY <1>1, <1>3, <1>5, <1>6, <1>7, <1>8
<1>11. \A n \in 1 .. Len(waits) : f[n] # 0
  BY <1>9, <1>10 DEF Elements
<1>12. f \in Seq(Ids)
  <2>1. \A n \in 1 .. Len(waits) : f[n] \in Ids
    <3> HIDE DEF waits
    <3> QED
      BY <1>9, <1>11, LatestType
  <2>2. f = [n \in 1 .. Len(waits) |-> f[n]]
    <3> HIDE DEF waits
    <3> QED
      BY <1>8
  <2>3. f \in [1 .. Len(waits) -> Ids]
    <3> HIDE DEF waits
    <3> QED
      BY <2>1, <2>2
  <2> QED
    BY <1>2, <2>3, SeqDef
<1>13. g \in Elements(cands) \/ (outside /\ g = Anyone)
  <2>1. cands \in Seq(Nat)
    BY GenerationsType
  <2>2. last \in Seq(Nat) /\ (outside => Len(last) = 1 /\ last[1] = Anyone)
                          /\ (~outside => Len(last) = 0)
    BY BoundsAssumption DEF Anyone
  <2> HIDE DEF cands, outside, last, rows
  <2>3. /\ Len(cands) \in Nat /\ Len(last) \in Nat
        /\ Len(cands \o last) = Len(cands) + Len(last)
        /\ \A k \in 1 .. Len(cands) + Len(last) :
             (cands \o last)[k] = IF k <= Len(cands) THEN cands[k] ELSE last[k - Len(cands)]
    BY <2>1, <2>2
  <2>4. l \in 1 .. Len(cands) + Len(last)
    BY <1>6, <2>3
  <2>5. CASE l <= Len(cands)
    BY <1>7, <2>3, <2>4, <2>5 DEF Elements
  <2>6. CASE l > Len(cands)
    BY <1>7, <2>2, <2>3, <2>4, <2>6
  <2> QED
    BY <2>3, <2>4, <2>5, <2>6
<1>14. f \o rest = IF outside THEN Append(f, i) ELSE f
  <2> HIDE DEF outside
  <2>1. CASE outside
    BY <1>12, <2>1
  <2>2. CASE ~outside
    BY <1>12, <2>2
  <2> QED
    BY <2>1, <2>2
<1>15. \A n \in 1 .. Len(f) : f[n] = Latest(d, waits[n], g) /\ f[n] # 0
  BY <1>9, <1>11
<1>16. /\ \/ g \in Elements(Generations(d, i, join))
          \/ node[i] \notin Elements(WaitFor[join]) /\ g = Anyone
       /\ f \in Seq(Ids) /\ Len(f) = Len(WaitFor[join])
       /\ \A m \in 1 .. Len(f) : f[m] = Latest(d, WaitFor[join][m], g) /\ f[m] # 0
       /\ JoinParents(d, i, join) = IF node[i] \notin Elements(WaitFor[join])
                                    THEN Append(f, i) ELSE f
  BY <1>9, <1>10, <1>12, <1>13, <1>14, <1>15
<1> QED
  BY <1>16 DEF JoinParentsFrom

\* A generation that is tried is Roots or an ancestor of the completed activation,
\* and no completed activation of a node the join waits for.
LEMMA GenerationsOf ==
  ASSUME Typed(node, parents), NEW d, NEW i \in Ids, NEW join,
         NEW g \in Elements(Generations(d, i, join))
  PROVE  \/ g = Roots
         \/ /\ g \in Elements(Ancestors(d, i))
            /\ ~(g \in Elements(d) /\ node[g] \in Elements(WaitFor[join]))
<1>1. PICK anc : anc = Ancestors(d, i)
  OBVIOUS
<1> DEFINE cuts == {k \in 1 .. Len(anc) : /\ anc[k] \in Elements(d)
                                          /\ node[anc[k]] \in Elements(WaitFor[join])}
<1>2. anc \in Seq(Ids) /\ Len(anc) \in Nat
  BY <1>1, AncestorsType
<1>3. Generations(d, i, join) = IF anc = << >> THEN <<Roots>>
                                ELSE IF cuts = {} THEN anc
                                ELSE SubSeq(anc, 1, Least(cuts) - 1)
  BY <1>1 DEF Generations
<1>4. cuts \subseteq Nat
  BY <1>2
<1>5. CASE anc = << >>
  <2>1. g \in Elements(<<Roots>>)
    BY <1>3, <1>5
  <2> QED
    BY <2>1 DEF Elements
<1>6. ASSUME NEW k \in 1 .. Len(anc), k \notin cuts, g = anc[k]
      PROVE  /\ g \in Elements(Ancestors(d, i))
             /\ ~(g \in Elements(d) /\ node[g] \in Elements(WaitFor[join]))
  BY <1>1, <1>6 DEF Elements
<1>7. CASE anc # << >> /\ cuts = {}
  <2>1. PICK k \in 1 .. Len(anc) : g = anc[k]
    <3> HIDE DEF cuts
    <3> QED
      BY <1>3, <1>7 DEF Elements
  <2> HIDE DEF cuts
  <2> QED
    BY <1>6, <1>7, <2>1
<1>8. CASE anc # << >> /\ cuts # {}
  <2> HIDE DEF cuts
  <2>1. PICK l : l = Least(cuts)
    OBVIOUS
  <2>2. l \in cuts /\ \A k \in cuts : l <= k
    BY <1>4, <1>8, <2>1, LeastIsLeast
  <2>3. l \in 1 .. Len(anc)
    BY <2>2 DEF cuts
  <2>4. PICK s : s = SubSeq(anc, 1, l - 1)
    OBVIOUS
  <2>5. Len(s) = l - 1 /\ \A k \in 1 .. l - 1 : s[k] = anc[k]
    BY <1>2, <2>3, <2>4
  <2>6. g \in Elements(s)
    BY <1>3, <1>8, <2>1, <2>4
  <2>7. PICK k \in 1 .. l - 1 : g = anc[k]
    BY <2>5, <2>6 DEF Elements
  <2>8. k \in 1 .. Len(anc) /\ k \notin cuts
    BY <1>2, <2>2, <2>3, <2>7
  <2> QED
    BY <1>6, <2>7, <2>8
<1> QED
  BY <1>5, <1>7, <1>8

\* collectJoinParentIds finds a completed activation for every node of waitFor.
LEMMA JoinParentsFed ==
  ASSUME Typed(node, parents), NEW d \in Seq(Ids), NEW i \in Ids, NEW join \in Node,
         JoinParents(d, i, join) # << >>,
         NEW m \in 1 .. Len(WaitFor[join])
  PROVE  /\ JoinParents(d, i, join)[m] \in Elements(d)
         /\ node[JoinParents(d, i, join)[m]] = WaitFor[join][m]
<1>1. PICK g, f : JoinParentsFrom(d, i, join, g, f)
  BY JoinParentsOfOneGeneration
<1>2. /\ f \in Seq(Ids) /\ m \in 1 .. Len(f)
      /\ f[m] = Latest(d, WaitFor[join][m], g) /\ f[m] # 0
      /\ JoinParents(d, i, join) \in {f, Append(f, i)}
  BY <1>1 DEF JoinParentsFrom
<1>3. JoinParents(d, i, join)[m] = f[m]
  <2>1. Append(f, i)[m] = f[m]
    BY <1>2
  <2> QED
    BY <1>2, <2>1
<1>4. f[m] \in Elements(d) /\ node[f[m]] = WaitFor[join][m]
  BY <1>2, LatestIsOfNode
<1> QED
  BY <1>3, <1>4

\* What a completion makes ready is fed by what has completed until then.
LEMMA ReadyFed ==
  ASSUME Typed(node, parents), NEW d \in Seq(Ids), NEW i \in Ids, i \in Elements(d),
         NEW taken, NEW c \in ChildrenIn(Ready(d, i, taken))
  PROVE  Fed(Elements(d), c)
<1> DEFINE open == {k \in 1 .. Len(Edges) : /\ Edges[k].from = node[i]
                                            /\ Edges[k].conditional => k \in taken}
           child == [k \in open |-> <<Edges[k].to, ChildParents(d, i, Edges[k].to)>>]
<1>1. Ready(d, i, taken) = [k \in {e \in open : child[e][2] # << >>} |-> child[k]]
  BY DEF Ready
<1>2. PICK k \in open : c = child[k] /\ child[k][2] # << >>
  <2> HIDE DEF open, child
  <2> QED
    BY <1>1 DEF ChildrenIn
<1>3. /\ k \in 1 .. Len(Edges) /\ Edges[k].from = node[i]
      /\ c = <<Edges[k].to, ChildParents(d, i, Edges[k].to)>>
  BY <1>2
<1>4. PICK n : n = Edges[k].to
  OBVIOUS
<1>5. n \in Node
  <2>1. Edges \in Seq([from : Node, to : Node, conditional : BOOLEAN])
    BY GraphAssumption
  <2>2. Edges[k] \in [from : Node, to : Node, conditional : BOOLEAN]
    BY <1>3, <2>1, ElementOfSeq
  <2> QED
    BY <1>4, <2>2
<1>6. c[1] = n /\ c[2] = ChildParents(d, i, n) /\ c[2] # << >>
  BY <1>2, <1>3, <1>4
<1> HIDE DEF open, child
<1>7. CASE IsJoin(n)
  <2>1. c[2] = JoinParents(d, i, n)
    BY <1>6, <1>7 DEF ChildParents
  <2>2. ASSUME NEW m \in 1 .. Len(WaitFor[n])
        PROVE  c[2][m] \in Elements(d) /\ node[c[2][m]] = WaitFor[n][m]
    BY <1>5, <1>6, <2>1, JoinParentsFed
  <2> QED
    BY <1>6, <1>7, <2>2 DEF Fed
<1>8. CASE ~IsJoin(n)
  <2>1. c[2] = <<i>>
    BY <1>6, <1>8 DEF ChildParents
  <2> QED
    BY <1>3, <1>4, <1>6, <1>8, <2>1 DEF Fed
<1> QED
  BY <1>7, <1>8

\* Work that is fed stays fed when more completes.
LEMMA FedKept ==
  ASSUME NEW C, NEW C2, C \subseteq C2, \A p \in C : node'[p] = node[p],
         NEW c, Fed(C, c)
  PROVE  Fed(C2, c)'
<1>1. CASE IsJoin(c[1])
  BY <1>1 DEF Fed
<1>2. CASE ~IsJoin(c[1])
  <2>1. PICK p \in C : /\ c[2] = <<p>>
                       /\ \E k \in 1 .. Len(Edges) : /\ Edges[k].from = node[p]
                                                     /\ Edges[k].to = c[1]
    BY <1>2 DEF Fed
  <2> QED
    BY <1>2, <2>1 DEF Fed
<1> QED
  BY <1>1, <1>2

\* A step of the main loop creates nothing, or what the completion it records
\* has made ready.
LEMMA WhatIsCreated ==
  ASSUME SchedulerInv, BootStart \/ BootHalted \/ ConsumeNext
  PROVE  \/ done' = done /\ Created' = Created /\ Completed' = Completed
         \/ /\ done' = Append(done, winner) /\ winner \in Ids
            /\ status[winner] = "running" /\ status'[winner] = "completed"
            /\ Completed' = Completed \cup {winner}
            /\ \E taken :
                 /\ \A j \in Created' \ Created :
                      /\ Work(j)' \in ChildrenIn(Ready(Append(done, winner), winner, taken))
                      /\ next <= j
                 /\ \A i, j \in Created' \ Created : i # j =>
                      OfTwoEdges(Ready(Append(done, winner), winner, taken), Work(i)', Work(j)')
<1>1. TypeOK /\ IdsInv
  BY DEF SchedulerInv
<1>2. status \in [Ids -> Statuses] /\ limitReached \in BOOLEAN
  BY <1>1 DEF TypeOK, Statuses
<1>3. CASE BootStart
  <2>1. StartReady(node, status) /\ done' = done
    BY <1>3 DEF BootStart, activationVars
  <2>2. \A i \in Ids : \/ status'[i] = status[i]
                       \/ status[i] = "queued" /\ status'[i] = "running"
    BY <1>2, <2>1, StartReadyEffect
  <2> QED
    BY <2>1, <2>2 DEF Created, Completed
<1>4. CASE BootHalted
  BY <1>4 DEF BootHalted, Created, Completed, activationVars
<1>5. CASE ConsumeAborted \/ ConsumeFailed \/ ConsumeDiscarded
  <2>1. /\ winner \in Ids /\ status[winner] = "running" /\ done' = done
    BY <1>1, <1>5, WinnerRuns DEF ConsumeAborted, ConsumeFailed, ConsumeDiscarded, activationVars
  <2>2. \E x \in {"failed", "aborted"} : status' = [status EXCEPT ![winner] = x]
    BY <1>5 DEF ConsumeAborted, ConsumeFailed, ConsumeDiscarded
  <2> QED
    BY <1>2, <2>1, <2>2 DEF Created, Completed
<1>6. ASSUME winner # 0,
             NEW taken \in SUBSET Conditional(winner),
             NEW ready, ready = Ready(Append(done, winner), winner, taken),
             ConsumeHolding(ready) \/ ConsumeContinuing(ready)
      PROVE  /\ done' = Append(done, winner) /\ winner \in Ids
             /\ status[winner] = "running" /\ status'[winner] = "completed"
             /\ Completed' = Completed \cup {winner}
             /\ \A j \in Created' \ Created : Work(j)' \in ChildrenIn(ready) /\ next <= j
             /\ \A i, j \in Created' \ Created :
                  i # j => OfTwoEdges(ready, Work(i)', Work(j)')
  <2>1. Record(ready) /\ done' = Append(done, winner)
    BY <1>6 DEF ConsumeHolding, ConsumeContinuing, Record
  <2>2. winner \in Ids /\ status[winner] = "running"
    BY <1>1, <2>1, WinnerRuns DEF Record
  <2>3. CASE ConsumeHolding(ready)
    <3>1. status' = [status EXCEPT ![winner] = "completed"]
      BY <2>3 DEF ConsumeHolding
    <3> QED
      BY <1>2, <2>1, <2>2, <3>1 DEF Created, Completed
  <2>4. CASE ConsumeContinuing(ready)
    <3>1. ReadyTyped(ready)
      BY <1>1, <1>6, <2>2, ReadyChildren
    <3>2. PICK nd, ps, st : /\ Enqueued(ready, nd, ps, st)
                            /\ node' = nd /\ parents' = ps
                            /\ StartReady(nd, st)
                            /\ \A i, k \in New : i # k =>
                                 OfTwoEdges(ready, <<nd[i], ps[i]>>, <<nd[k], ps[k]>>)
      BY <1>1, <2>4, <3>1, ContinuingEffect
    <3>3. st \in [Ids -> Statuses]
      BY <3>2 DEF Enqueued
    <3>4. \A i \in Ids : \/ status'[i] = st[i]
                         \/ st[i] = "queued" /\ status'[i] = "running"
      BY <1>2, <3>2, <3>3, StartReadyEffect
    <3>5. winner \notin New
      <4>1. winner \in Nat /\ next \in Nat /\ next' \in Nat /\ winner < next
        BY <1>1, <2>2, <3>2, IdsFinite, BoundsAssumption DEF TypeOK, Enqueued, IdsInv, Created
      <4>2. \A j \in New : j \in Nat /\ next <= j
        BY <4>1, NewIds DEF New
      <4> QED
        BY <4>1, <4>2
    <3>6. status'[winner] = "completed"
      BY <2>2, <3>2, <3>4, <3>5 DEF Enqueued
    <3>7. ASSUME NEW j \in Created', j \notin Created
          PROVE  Work(j)' \in ChildrenIn(ready) /\ next <= j /\ j \in New
      <4>1. j \in Ids /\ status[j] = "none" /\ status'[j] # "none"
        BY <3>7 DEF Created
      <4>2. j \in New
        BY <2>2, <3>2, <3>4, <4>1 DEF Enqueued
      <4>3. next \in Nat /\ next' \in Nat
        BY <1>1, <3>2, BoundsAssumption DEF TypeOK, Enqueued
      <4>4. next <= j
        BY <4>2, <4>3, NewIds DEF New
      <4> QED
        BY <3>2, <4>2, <4>4 DEF Enqueued, Work
    <3>8. ASSUME NEW i \in Created' \ Created, NEW j \in Created' \ Created, i # j
          PROVE  OfTwoEdges(ready, Work(i)', Work(j)')
      BY <3>2, <3>7, <3>8 DEF Work
    <3>9. Completed' = Completed \cup {winner}
      <4>1. ASSUME NEW i \in Ids, i # winner
            PROVE  status'[i] = "completed" <=> status[i] = "completed"
        <5>1. CASE i \in New
          <6>1. i \in Nat /\ next \in Nat /\ next' \in Nat
            BY <1>1, <3>2, IdsFinite, BoundsAssumption DEF TypeOK, Enqueued
          <6>2. next <= i
            BY <5>1, <6>1, NewIds DEF New
          <6>3. status[i] = "none"
            BY <1>1, <6>1, <6>2 DEF IdsInv, Created
          <6>4. st[i] = "queued"
            BY <3>2, <5>1 DEF Enqueued
          <6> QED
            BY <3>4, <6>3, <6>4
        <5>2. CASE i \notin New
          <6>1. st[i] = status[i]
            BY <3>2, <4>1, <5>2 DEF Enqueued
          <6> QED
            BY <3>4, <6>1
        <5> QED
          BY <5>1, <5>2
      <4> QED
        BY <2>2, <3>6, <4>1 DEF Completed
    <3> QED
      BY <2>1, <2>2, <3>6, <3>7, <3>8, <3>9
  <2> QED
    BY <1>6, <2>3, <2>4
<1>7. CASE ConsumeNext
  BY <1>5, <1>6, <1>7 DEF ConsumeNext
<1> QED
  BY <1>3, <1>4, <1>7

\* Nothing that is completed is taken back, so what is fed stays fed.
LEMMA FedInvStep ==
  ASSUME SchedulerInv, FedInv, [SchedulerNext]_schedulerVars
  PROVE  FedInv'
<1>1. CASE StopSignalled \/ SettleNext \/ UNCHANGED schedulerVars
  <2>1. UNCHANGED <<node, parents, done, status>>
    BY <1>1 DEF StopSignalled, SettleNext, Settle, schedulerVars, activationVars
  <2>2. Completed' = Completed /\ Created' = Created
    BY <2>1 DEF Completed, Created
  <2>3. \A j : Fed(Completed, Work(j))' <=> Fed(Completed, Work(j))
    BY <2>1, <2>2 DEF Fed, Work
  <2> QED
    BY <2>1, <2>2, <2>3 DEF FedInv, InputsCompleted
<1>2. CASE BootStart \/ BootHalted \/ ConsumeNext
  <2>1. /\ \A i \in Ids : Moves(i)
        /\ \A i \in Ids : status[i] # "none" => node'[i] = node[i] /\ parents'[i] = parents[i]
    BY <1>2, SchedulerMoves
  <2>2. Completed \subseteq Completed' /\ \A p \in Completed : node'[p] = node[p]
    BY <2>1 DEF Completed, Moves
  <2>3. ASSUME NEW j \in Created, j \notin Seeded \cup StartIds
        PROVE  Fed(Completed, Work(j))'
    <3>1. Fed(Completed, Work(j)) /\ Work(j)' = Work(j)
      BY <2>1, <2>3 DEF FedInv, InputsCompleted, Created, Work
    <3>2. PICK c : c = Work(j)
      OBVIOUS
    <3>3. PICK C : C = Completed
      OBVIOUS
    <3>4. PICK C2 : C2 = Completed'
      OBVIOUS
    <3>5. Fed(C2, c)'
      BY <2>2, <3>1, <3>2, <3>3, <3>4, FedKept
    <3> QED
      BY <3>1, <3>2, <3>4, <3>5 DEF Fed
  <2>4. CASE done' = done /\ Created' = Created
    BY <2>2, <2>3, <2>4 DEF FedInv, InputsCompleted
  <2>5. ASSUME done' = Append(done, winner), winner \in Ids,
               status'[winner] = "completed",
               NEW taken,
               \A j \in Created' \ Created :
                 Work(j)' \in ChildrenIn(Ready(Append(done, winner), winner, taken))
        PROVE  FedInv'
    <3>1. done \in Seq(Ids) /\ Typed(node, parents)
      BY DEF SchedulerInv, TypeOK, Typed
    <3>2. PICK d : d = Append(done, winner)
      OBVIOUS
    <3>3. /\ d \in Seq(Ids) /\ Len(d) = Len(done) + 1 /\ Len(done) \in Nat
          /\ \A k \in 1 .. Len(done) : d[k] = done[k]
          /\ d[Len(done) + 1] = winner
      BY <2>5, <3>1, <3>2
    <3>4. winner \in Completed'
      BY <2>5 DEF Completed
    <3>5. \A k \in 1 .. Len(d) : d[k] \in Completed'
      <4>1. \A k \in 1 .. Len(done) : done[k] \in Completed'
        BY <2>2 DEF FedInv
      <4> QED
        BY <3>3, <3>4, <4>1
    <3>6. winner \in Elements(d) /\ Elements(d) \subseteq Completed'
      BY <3>3, <3>5 DEF Elements
    <3>7. \A p \in Elements(d) : node'[p] = node[p]
      <4>1. ASSUME NEW k \in 1 .. Len(d) PROVE d[k] \in Created
        <5>1. winner \in Created
          BY <2>1, <2>5 DEF Created, Moves
        <5>2. \A n \in 1 .. Len(done) : done[n] \in Created
          BY DEF FedInv, Completed, Created
        <5> QED
          BY <3>3, <5>1, <5>2
      <4> QED
        BY <2>1, <4>1 DEF Elements, Created
    <3>8. ASSUME NEW j \in Created' \ Created
          PROVE  Fed(Completed, Work(j))'
      <4>1. PICK c : c = Work(j)'
        OBVIOUS
      <4>2. c \in ChildrenIn(Ready(d, winner, taken))
        BY <2>5, <3>2, <4>1
      <4>3. Fed(Elements(d), c)
        BY <2>5, <3>1, <3>3, <3>6, <4>2, ReadyFed
      <4>4. PICK C : C = Elements(d)
        OBVIOUS
      <4>5. PICK C2 : C2 = Completed'
        OBVIOUS
      <4>6. Fed(C2, c)'
        BY <3>6, <3>7, <4>3, <4>4, <4>5, FedKept
      <4> QED
        BY <4>1, <4>5, <4>6 DEF Fed
    <3>9. \A k \in 1 .. Len(done') : done'[k] \in Completed'
      BY <2>5, <3>2, <3>5
    <3> QED
      BY <2>3, <3>8, <3>9 DEF FedInv, InputsCompleted
  <2> QED
    BY <1>2, <2>4, <2>5, WhatIsCreated
<1> QED
  BY <1>1, <1>2 DEF SchedulerNext

\* Completed activations, and what they feed.
LEMMA FedInvariant == SchedulerSpec => []FedInv
<1>1. SchedulerInit => FedInv
  <2> SUFFICES ASSUME SchedulerInit PROVE FedInv
    OBVIOUS
  <2>1. ASSUME NEW k \in 1 .. Len(done) PROVE done[k] \in Completed
    <3>1. done = [m \in 1 .. Len(Seed) |-> Seed[m].id] /\ Len(Seed) \in Nat
      BY BoundsAssumption DEF SchedulerInit
    <3>2. k \in 1 .. Len(Seed) /\ done[k] = Seed[k].id
      BY <2>1, <3>1
    <3>3. done[k] \in Seeded /\ done[k] \in Ids
      BY <3>2, FirstIds DEF Seeded
    <3> QED
      BY <3>3, InitialActivations DEF Completed
  <2>2. Created \ (Seeded \cup StartIds) = {}
    BY InitialActivations DEF Created
  <2> QED
    BY <2>1, <2>2 DEF FedInv, InputsCompleted
<1>2. SchedulerInv /\ FedInv /\ [SchedulerNext]_schedulerVars => FedInv'
  BY FedInvStep
<1> QED
  BY <1>1, <1>2, SchedulerInvariant, PTL DEF SchedulerSpec

\* A node never runs without its inputs: what was enqueued for it are completed
\* activations, for a join one of every node it waits for.
THEOREM InputsAreCompleted == SchedulerSpec => []InputsCompleted
<1>1. FedInv => InputsCompleted
  BY DEF FedInv
<1> QED
  BY <1>1, FedInvariant, PTL

-----------------------------------------------------------------------------
(* Where the inputs of an activation come from *)

\* AncestorsAreReachable, for the state a step leads to.
LEMMA EveryReach == Typed(node, parents) => \A d : \A i \in Ids : ReachedFrom(d, i)
BY AncestorsAreReachable

\* ... and so for the next state, since it holds of every state.
LEMMA EveryReachLater == (Typed(node, parents) => \A d : \A i \in Ids : ReachedFrom(d, i))'
BY EveryReach, PTL

\* What was an ancestor stays one when more completes.
LEMMA AncestorsKept ==
  ASSUME Typed(node, parents), Typed(node, parents)',
         NEW d, NEW d2, Elements(d) \subseteq Elements(d2),
         NEW p \in Ids, parents'[p] = parents[p],
         \A a \in Elements(d) : parents'[a] = parents[a]
  PROVE  Elements(Ancestors(d, p)) \subseteq Elements(Ancestors(d2, p)')
<1>1. PICK S : S = Elements(Ancestors(d2, p)')
  OBVIOUS
<1>2. (Typed(node, parents) => \A e : \A i \in Ids : ReachedFrom(e, i))'
  BY EveryReachLater
<1>3. ReachedFrom(d2, p)'
  BY <1>2
<1>4. /\ Elements(parents'[p]) \subseteq S
      /\ \A a \in S \cap Elements(d2) : Elements(parents'[a]) \subseteq S
  BY <1>1, <1>3 DEF ReachedFrom, Closed
<1>5. Elements(parents[p]) \subseteq S /\ Closed(S, d)
  BY <1>4 DEF Closed
<1>6. ReachedFrom(d, p)
  BY AncestorsAreReachable
<1> QED
  BY <1>1, <1>5, <1>6 DEF ReachedFrom

\* The activations ps belong together: they all start the flow, or they all
\* descend from one activation that is none of them.
Related(d, ps) ==
  \/ \A p \in Elements(ps) : parents[p] = << >>
  \/ \E g \in Ids \ Elements(ps) : \A p \in Elements(ps) : g \in Elements(Ancestors(d, p))

\* collectJoinParentIds combines related activations, unless the join was led to
\* by an activation it does not wait for: that one it appends.
LEMMA JoinParentsRelated ==
  ASSUME Typed(node, parents), NEW d \in Seq(Ids), NEW i \in Ids, NEW join \in Node,
         JoinParents(d, i, join) # << >>
  PROVE  /\ Elements(JoinParents(d, i, join)) \subseteq Elements(d) \cup {i}
         /\ Len(JoinParents(d, i, join)) = Len(WaitFor[join]) =>
              Related(d, JoinParents(d, i, join))
<1>1. PICK g, f : JoinParentsFrom(d, i, join, g, f)
  BY JoinParentsOfOneGeneration
<1> DEFINE outside == node[i] \notin Elements(WaitFor[join])
<1>2. /\ f \in Seq(Ids) /\ Len(f) = Len(WaitFor[join]) /\ Len(f) \in Nat
      /\ \A m \in 1 .. Len(f) : f[m] = Latest(d, WaitFor[join][m], g) /\ f[m] # 0
      /\ JoinParents(d, i, join) = IF outside THEN Append(f, i) ELSE f
      /\ g \in Elements(Generations(d, i, join)) \/ outside
  BY <1>1 DEF JoinParentsFrom
<1> HIDE DEF outside
<1>3. ASSUME NEW m \in 1 .. Len(f)
      PROVE  /\ f[m] \in Elements(d) /\ node[f[m]] \in Elements(WaitFor[join])
             /\ InGeneration(d, f[m], g)
  <2>1. PICK w : w = WaitFor[join][m]
    OBVIOUS
  <2>2. w \in Elements(WaitFor[join])
    BY <1>2, <2>1 DEF Elements
  <2>3. f[m] = Latest(d, w, g) /\ f[m] # 0
    BY <1>2, <2>1
  <2> QED
    BY <2>2, <2>3, LatestIsOfNode
<1>4. Len(Append(f, i)) = Len(f) + 1 /\ Elements(Append(f, i)) = Elements(f) \cup {i}
  BY <1>2, AppendElements
<1>5. Elements(f) \subseteq Elements(d)
  BY <1>3 DEF Elements
<1>6. ASSUME ~outside
      PROVE  Related(d, f)
  <2>1. CASE g = Roots
    <3>1. \A p \in Elements(f) : p \in Ids /\ InGeneration(d, p, Roots)
      BY <1>2, <1>3, <2>1 DEF Elements
    <3>2. ASSUME NEW p \in Ids, InGeneration(d, p, Roots)
          PROVE  parents[p] = << >>
      <4>1. Elements(Ancestors(d, p)) \subseteq Ids
        BY AncestorsType DEF Elements
      <4>2. Roots \notin Ids /\ Roots # Anyone
        BY BoundsAssumption DEF Ids, Roots, Anyone
      <4> QED
        BY <3>2, <4>1, <4>2 DEF InGeneration
    <3> QED
      BY <3>1, <3>2 DEF Related
  <2>2. CASE g # Roots
    <3>1. /\ g \in Elements(Ancestors(d, i))
          /\ ~(g \in Elements(d) /\ node[g] \in Elements(WaitFor[join]))
      BY <1>2, <1>6, <2>2, GenerationsOf
    <3>2. g \in Ids
      BY <3>1, AncestorsType DEF Elements
    <3>3. g # Roots /\ g # Anyone
      BY <3>2, BoundsAssumption DEF Ids, Roots, Anyone
    <3>4. \A p \in Elements(f) : g # p /\ InGeneration(d, p, g)
      BY <1>3, <3>1 DEF Elements
    <3>5. \A p \in Elements(f) : g \in Elements(Ancestors(d, p))
      BY <3>3, <3>4 DEF InGeneration
    <3> QED
      BY <3>2, <3>4, <3>5 DEF Related
  <2> QED
    BY <2>1, <2>2
<1>7. CASE outside
  BY <1>2, <1>4, <1>5, <1>7
<1>8. CASE ~outside
  BY <1>2, <1>5, <1>6, <1>8
<1> QED
  BY <1>7, <1>8

\* The activation of a join by a node it waits for.
JoinsItsInputs(c) == IsJoin(c[1]) /\ Len(c[2]) = Len(WaitFor[c[1]])

\* What a completion makes ready has completed parents, for a join related ones.
LEMMA ReadyRelated ==
  ASSUME Typed(node, parents), NEW d \in Seq(Ids), NEW i \in Ids, i \in Elements(d),
         NEW taken, NEW c \in ChildrenIn(Ready(d, i, taken))
  PROVE  Elements(c[2]) \subseteq Elements(d) /\ (JoinsItsInputs(c) => Related(d, c[2]))
<1> DEFINE open == {k \in 1 .. Len(Edges) : /\ Edges[k].from = node[i]
                                            /\ Edges[k].conditional => k \in taken}
           child == [k \in open |-> <<Edges[k].to, ChildParents(d, i, Edges[k].to)>>]
<1>1. Ready(d, i, taken) = [k \in {e \in open : child[e][2] # << >>} |-> child[k]]
  BY DEF Ready
<1>2. PICK k \in open : c = child[k] /\ child[k][2] # << >>
  <2> HIDE DEF open, child
  <2> QED
    BY <1>1 DEF ChildrenIn
<1>3. k \in 1 .. Len(Edges) /\ c = <<Edges[k].to, ChildParents(d, i, Edges[k].to)>>
  BY <1>2
<1>4. PICK n : n = Edges[k].to
  OBVIOUS
<1>5. n \in Node
  <2>1. Edges \in Seq([from : Node, to : Node, conditional : BOOLEAN])
    BY GraphAssumption
  <2>2. Edges[k] \in [from : Node, to : Node, conditional : BOOLEAN]
    BY <1>3, <2>1, ElementOfSeq
  <2> QED
    BY <1>4, <2>2
<1>6. c[1] = n /\ c[2] = ChildParents(d, i, n) /\ c[2] # << >>
  BY <1>2, <1>3, <1>4
<1> HIDE DEF open, child
<1>7. CASE IsJoin(n)
  <2>1. PICK ps : ps = JoinParents(d, i, n)
    OBVIOUS
  <2>2. c[2] = ps
    BY <1>6, <1>7, <2>1 DEF ChildParents
  <2>3. /\ Elements(ps) \subseteq Elements(d) \cup {i}
        /\ Len(ps) = Len(WaitFor[n]) => Related(d, ps)
    BY <1>5, <1>6, <2>1, <2>2, JoinParentsRelated
  <2> QED
    BY <1>6, <2>2, <2>3 DEF JoinsItsInputs
<1>8. CASE ~IsJoin(n)
  <2>1. c[2] = <<i>>
    BY <1>6, <1>8 DEF ChildParents
  <2> QED
    BY <1>6, <1>8, <2>1 DEF JoinsItsInputs, Elements
<1> QED
  BY <1>7, <1>8

\* Parents come before their children: what completions have enqueued has
\* completed parents only, created before it.
ParentsOlder ==
  \A j \in Created \ (Seeded \cup StartIds) :
    \A p \in Elements(parents[j]) : p \in Completed /\ p < j

\* A join led to by a node it waits for combines related activations.
JoinsShareOrigin ==
  \A j \in Created \ (Seeded \cup StartIds) :
    JoinsItsInputs(Work(j)) => Related(done, parents[j])

OriginInv == ParentsOlder /\ JoinsShareOrigin

\* Related activations stay related.
LEMMA RelatedKept ==
  ASSUME Typed(node, parents), Typed(node, parents)',
         NEW d, NEW d2, Elements(d) \subseteq Elements(d2),
         NEW ps, Elements(ps) \subseteq Ids,
         \A p \in Elements(ps) : parents'[p] = parents[p],
         \A a \in Elements(d) : parents'[a] = parents[a],
         Related(d, ps)
  PROVE  Related(d2, ps)'
<1>1. ASSUME NEW p \in Elements(ps)
      PROVE  Elements(Ancestors(d, p)) \subseteq Elements(Ancestors(d2, p)')
  BY AncestorsKept
<1>2. CASE \A p \in Elements(ps) : parents[p] = << >>
  BY <1>2 DEF Related
<1>3. ASSUME NEW g \in Ids \ Elements(ps),
             \A p \in Elements(ps) : g \in Elements(Ancestors(d, p))
      PROVE  Related(d2, ps)'
  <2>1. \A p \in Elements(ps) : g \in Elements(Ancestors(d2, p)')
    BY <1>1, <1>3
  <2> QED
    BY <2>1 DEF Related, Elements
<1> QED
  BY <1>2, <1>3 DEF Related

\* Every step keeps the origin of what there is, and what a completion creates
\* has one.
LEMMA OriginInvStep ==
  ASSUME SchedulerInv, FedInv, OriginInv, [SchedulerNext]_schedulerVars, TypeOK'
  PROVE  OriginInv'
<1>1. TypeOK /\ IdsInv
  BY DEF SchedulerInv
<1>2. Typed(node, parents) /\ Typed(node, parents)' /\ done \in Seq(Ids) /\ next \in Nat
  BY <1>1, BoundsAssumption DEF TypeOK, Typed
<1>3. /\ Completed \subseteq Completed'
      /\ \A i \in Created : i \in Created' /\ node'[i] = node[i] /\ parents'[i] = parents[i]
  <2>1. CASE StopSignalled \/ SettleNext \/ UNCHANGED schedulerVars
    BY <2>1 DEF StopSignalled, SettleNext, Settle, schedulerVars, activationVars, Completed,
                Created
  <2>2. CASE BootStart \/ BootHalted \/ ConsumeNext
    BY <2>2, SchedulerMoves DEF Completed, Created, Moves
  <2> QED
    BY <2>1, <2>2 DEF SchedulerNext
<1>4. Completed \subseteq Created
  BY DEF Completed, Created
<1>5. Elements(done) \subseteq Completed
  BY DEF FedInv, Elements
<1>6. ASSUME NEW j \in Created, j \notin Seeded \cup StartIds
      PROVE  /\ \A p \in Elements(parents'[j]) : p \in Completed' /\ p < j
             /\ Elements(parents[j]) \subseteq Created
  BY <1>3, <1>4, <1>6 DEF OriginInv, ParentsOlder
<1>7. ASSUME NEW d2, Elements(done) \subseteq Elements(d2),
             NEW j \in Created, j \notin Seeded \cup StartIds, JoinsItsInputs(Work(j))'
      PROVE  Related(d2, parents[j])'
  <2>1. PICK ps : ps = parents[j]
    OBVIOUS
  <2>2. Work(j)' = Work(j) /\ parents'[j] = ps
    BY <1>3, <2>1 DEF Work
  <2>3. Related(done, ps)
    BY <1>7, <2>1, <2>2 DEF OriginInv, JoinsShareOrigin, JoinsItsInputs
  <2>4. Elements(ps) \subseteq Created
    BY <1>6, <1>7, <2>1
  <2>5. Related(d2, ps)'
    BY <1>2, <1>3, <1>4, <1>5, <1>7, <2>3, <2>4, RelatedKept DEF Created
  <2> QED
    BY <2>2, <2>5 DEF Related
<1>8. CASE done' = done /\ Created' = Created
  <2>1. ParentsOlder'
    BY <1>6, <1>8 DEF ParentsOlder
  <2>2. ASSUME NEW j \in Created, j \notin Seeded \cup StartIds, JoinsItsInputs(Work(j))'
        PROVE  Related(done, parents[j])'
    <3>1. PICK d2 : d2 = done
      OBVIOUS
    <3>2. Related(d2, parents[j])'
      BY <1>7, <2>2, <3>1
    <3> QED
      BY <1>8, <3>1, <3>2 DEF Related
  <2> QED
    BY <1>8, <2>1, <2>2 DEF OriginInv, JoinsShareOrigin
<1>9. ASSUME done' = Append(done, winner), winner \in Ids,
             status[winner] = "running", status'[winner] = "completed",
             NEW taken,
             \A j \in Created' \ Created :
               /\ Work(j)' \in ChildrenIn(Ready(Append(done, winner), winner, taken))
               /\ next <= j
      PROVE  OriginInv'
  <2>1. PICK d : d = Append(done, winner)
    OBVIOUS
  <2>2. d \in Seq(Ids) /\ Elements(d) = Elements(done) \cup {winner}
    BY <1>2, <1>9, <2>1, AppendElements
  <2>3. winner \in Completed' /\ winner \in Created
    BY <1>9 DEF Completed, Created
  <2>4. Elements(d) \subseteq Completed' /\ Elements(d) \subseteq Created
    BY <1>3, <1>4, <1>5, <2>2, <2>3
  <2>5. ASSUME NEW j \in Created', j \notin Created
        PROVE  /\ \A p \in Elements(parents'[j]) : p \in Completed' /\ p < j
               /\ JoinsItsInputs(Work(j))' => Related(d, parents[j])'
    <3>1. PICK c : c = Work(j)'
      OBVIOUS
    <3>2. c \in ChildrenIn(Ready(d, winner, taken)) /\ next <= j /\ c[2] = parents'[j]
      BY <1>9, <2>1, <2>5, <3>1 DEF Work
    <3>3. winner \in Elements(d)
      BY <2>2
    <3>4. Elements(c[2]) \subseteq Elements(d) /\ (JoinsItsInputs(c) => Related(d, c[2]))
      BY <1>2, <1>9, <2>2, <3>2, <3>3, ReadyRelated
    <3>5. ASSUME NEW p \in Elements(d) PROVE p < j
      <4>1. p < next /\ p \in Nat /\ j \in Nat
        BY <1>1, <2>4, IdsFinite DEF IdsInv, Created
      <4> QED
        BY <1>2, <3>2, <4>1
    <3>6. ASSUME JoinsItsInputs(c)
          PROVE  Related(d, parents[j])'
      <4>1. PICK ps : ps = c[2]
        OBVIOUS
      <4>2. Elements(ps) \subseteq Created
        BY <2>4, <3>4, <4>1
      <4>3. Related(d, ps)'
        BY <1>2, <1>3, <2>4, <3>4, <3>6, <4>1, <4>2, RelatedKept DEF Created
      <4> QED
        BY <3>2, <4>1, <4>3 DEF Related
    <3>7. JoinsItsInputs(Work(j))' <=> JoinsItsInputs(c)
      BY <3>1 DEF JoinsItsInputs
    <3> QED
      BY <2>4, <3>2, <3>4, <3>5, <3>6, <3>7
  <2>6. ParentsOlder'
    BY <1>6, <2>5 DEF ParentsOlder
  <2>7. ASSUME NEW j \in Created', j \notin Seeded \cup StartIds, JoinsItsInputs(Work(j))'
        PROVE  Related(done, parents[j])'
    <3>1. Related(d, parents[j])'
      BY <1>7, <2>2, <2>5, <2>7
    <3> QED
      BY <1>9, <2>1, <3>1 DEF Related
  <2> QED
    BY <2>6, <2>7 DEF OriginInv, JoinsShareOrigin
<1>10. CASE StopSignalled \/ SettleNext \/ UNCHANGED schedulerVars
  <2>1. done' = done /\ Created' = Created
    BY <1>10 DEF StopSignalled, SettleNext, Settle, schedulerVars, activationVars, Created
  <2> QED
    BY <1>8, <2>1
<1>11. CASE BootStart \/ BootHalted \/ ConsumeNext
  BY <1>8, <1>9, <1>11, WhatIsCreated
<1> QED
  BY <1>10, <1>11 DEF SchedulerNext

\* The origin of every activation.
LEMMA OriginInvariant == SchedulerSpec => []OriginInv
<1>1. SchedulerInit => OriginInv
  <2> SUFFICES ASSUME SchedulerInit PROVE OriginInv
    OBVIOUS
  <2>1. Created \ (Seeded \cup StartIds) = {}
    BY InitialActivations DEF Created
  <2> QED
    BY <2>1 DEF OriginInv, ParentsOlder, JoinsShareOrigin
<1>2. SchedulerInv /\ SchedulerInv' /\ FedInv /\ OriginInv /\ [SchedulerNext]_schedulerVars
      => OriginInv'
  BY OriginInvStep DEF SchedulerInv
<1> QED
  BY <1>1, <1>2, SchedulerInvariant, FedInvariant, PTL DEF SchedulerSpec

\* An activation comes after its parents, which completed before it was enqueued:
\* whatever loops the flow has, the activations of an attempt form none.
THEOREM ParentsComeFirst == SchedulerSpec => []ParentsOlder
<1>1. OriginInv => ParentsOlder
  BY DEF OriginInv
<1> QED
  BY <1>1, OriginInvariant, PTL

\* A join led to by a node it waits for never combines activations that have
\* nothing in common: they all start the flow, or they all descend from one
\* activation that is none of them, whatever has completed in whatever order.
THEOREM JoinsCombineRelated == SchedulerSpec => []JoinsShareOrigin
<1>1. OriginInv => JoinsShareOrigin
  BY DEF OriginInv
<1> QED
  BY <1>1, OriginInvariant, PTL

\* The activations of the checkpoint, and the start activations, have their parents
\* among the activations before the attempt.
SeedIsOlder ==
  /\ \A p \in Elements(StartParents) : p < FirstId
  /\ \A k \in 1 .. Len(Seed) : \A p \in Elements(Seed[k].parents) : p < FirstId

\* What the attempt began with keeps its parents.
SeedParents ==
  \A i \in Seeded \cup StartIds : i \in Created /\ \A p \in Elements(parents[i]) : p < FirstId

\* The seed and the start activations of the attempt.
LEMMA SeedParentsInvariant ==
  ASSUME SeedIsOlder
  PROVE  SchedulerSpec => []SeedParents
<1>1. SchedulerInit => SeedParents
  <2> SUFFICES ASSUME SchedulerInit PROVE SeedParents
    OBVIOUS
  <2>1. ASSUME NEW i \in Seeded \cup StartIds
        PROVE  i \in Created /\ \A p \in Elements(parents[i]) : p < FirstId
    <3>1. i \in Ids
      <4>1. CASE i \in Seeded
        BY <4>1, FirstIds
      <4>2. CASE i \in StartIds
        <5>1. FirstId \in Nat /\ FirstChild \in Nat /\ i \in FirstId .. FirstChild - 1
          BY <4>2, FirstIds DEF StartIds, FirstChild
        <5>2. i \in Nat /\ FirstId <= i /\ i < FirstChild
          BY <5>1, NewIds
        <5> QED
          BY <5>1, <5>2, FirstIds, BoundsAssumption DEF Ids
      <4> QED
        BY <2>1, <4>1, <4>2
    <3>2. i \in Created
      BY <2>1, <3>1, InitialActivations DEF Created
    <3>3. \/ parents[i] = StartParents
          \/ \E k \in 1 .. Len(Seed) : parents[i] = Seed[k].parents
      BY <2>1, <3>1, InitialActivations
    <3> QED
      BY <3>2, <3>3 DEF SeedIsOlder
  <2> QED
    BY <2>1 DEF SeedParents
<1>2. SchedulerInv /\ SeedParents /\ [SchedulerNext]_schedulerVars => SeedParents'
  <2> SUFFICES ASSUME SchedulerInv, SeedParents, [SchedulerNext]_schedulerVars
               PROVE  SeedParents'
    OBVIOUS
  <2>1. \A i \in Created : i \in Created' /\ parents'[i] = parents[i]
    <3>1. CASE StopSignalled \/ SettleNext \/ UNCHANGED schedulerVars
      BY <3>1 DEF StopSignalled, SettleNext, Settle, schedulerVars, activationVars, Created
    <3>2. CASE BootStart \/ BootHalted \/ ConsumeNext
      BY <3>2, SchedulerMoves DEF Created, Moves
    <3> QED
      BY <3>1, <3>2 DEF SchedulerNext
  <2> QED
    BY <2>1 DEF SeedParents
<1> QED
  BY <1>1, <1>2, SchedulerInvariant, PTL DEF SchedulerSpec

\* No activation of the attempt descends from itself or from a later one.
NoneDescendsFromLater ==
  \A j \in Created \ Seeded : \A a \in Elements(Ancestors(done, j)) : a < j

\* Whatever loops the flow has, the walk of activationAncestorIds only finds older
\* activations, when the checkpoint the attempt was started from is older than it.
THEOREM AncestorsComeFirst ==
  ASSUME SeedIsOlder
  PROVE  SchedulerSpec => []NoneDescendsFromLater
<1>1. SchedulerInv /\ FedInv /\ OriginInv /\ SeedParents => NoneDescendsFromLater
  <2> SUFFICES ASSUME SchedulerInv, FedInv, OriginInv, SeedParents,
                      NEW j \in Created, j \notin Seeded
               PROVE  \A a \in Elements(Ancestors(done, j)) : a < j
    BY DEF NoneDescendsFromLater
  <2>1. Typed(node, parents) /\ IdsInv /\ TypeOK
    BY DEF SchedulerInv, TypeOK, Typed
  <2>2. j \in Ids /\ j \in Nat /\ FirstId \in Nat /\ FirstId <= j
    BY <2>1, IdsFinite, FirstIds DEF IdsInv, Created
  <2> DEFINE S == {a \in Ids : a < j}
  <2>3. ASSUME NEW a \in Ids, a = j \/ (a < j /\ a \in Created)
        PROVE  \A p \in Elements(parents[a]) : p \in Ids /\ p < j
    <3>1. \A p \in Elements(parents[a]) : p \in Ids /\ p \in Nat
      <4>1. PICK ps : ps = parents[a]
        OBVIOUS
      <4>2. ps \in Seq(Ids)
        BY <2>1, <4>1 DEF Typed
      <4>3. Elements(ps) \subseteq Ids
        BY <4>2 DEF Elements
      <4> QED
        BY <4>1, <4>3, IdsFinite
    <3>2. a \in Created /\ a \in Nat /\ a <= j
      BY <2>2, <2>3, IdsFinite
    <3>3. CASE a \in Seeded \cup StartIds
      BY <2>2, <3>1, <3>3 DEF SeedParents
    <3>4. CASE a \notin Seeded \cup StartIds
      BY <2>2, <3>1, <3>2, <3>4 DEF OriginInv, ParentsOlder
    <3> QED
      BY <3>3, <3>4
  <2>4. Elements(parents[j]) \subseteq S
    BY <2>2, <2>3
  <2>5. Closed(S, done)
    <3>1. Elements(done) \subseteq Created
      BY DEF FedInv, Completed, Created, Elements
    <3> QED
      BY <2>3, <3>1 DEF Closed
  <2>6. ReachedFrom(done, j)
    BY <2>1, <2>2, AncestorsAreReachable
  <2>7. Elements(Ancestors(done, j)) \subseteq S
    <3> HIDE DEF S
    <3> QED
      BY <2>4, <2>5, <2>6 DEF ReachedFrom
  <2> QED
    BY <2>7
<1> QED
  BY <1>1, SeedParentsInvariant, SchedulerInvariant, FedInvariant, OriginInvariant, PTL

\* The activations C of this attempt, in a checkpoint, have their parents before the
\* first id of an attempt that restarts it.
CheckpointIsOlder ==
  \A C \in SUBSET (Completed \ Seeded) :
    \A i \in C : \A p \in Elements(parents[i]) : p < Greatest(C) + 1

\* SeedIsOlder passes from an attempt to the one that restarts its checkpoint, which
\* is seeded with those of the attempt's own activations that the checkpoint lists
\* (workflow/runner.ts) and starts from them (slash-commands/helpers/workflow.ts).
\* So it holds in a chain of restarts of any length.
THEOREM CheckpointsAreOlder ==
  ASSUME SeedIsOlder
  PROVE  SchedulerSpec => []CheckpointIsOlder
<1>1. SchedulerInv /\ OriginInv /\ SeedParents => CheckpointIsOlder
  <2> SUFFICES ASSUME SchedulerInv, OriginInv, SeedParents,
                      NEW C \in SUBSET (Completed \ Seeded), NEW i \in C,
                      NEW p \in Elements(parents[i])
               PROVE  p < Greatest(C) + 1
    BY DEF CheckpointIsOlder
  <2>1. Typed(node, parents) /\ IdsInv
    BY DEF SchedulerInv, TypeOK, Typed
  <2>2. C \subseteq Ids /\ i \in Created /\ i \notin Seeded /\ i \in Ids
    BY DEF Completed, Created
  <2>3. i \in Nat /\ FirstId \in Nat /\ FirstId <= i /\ MaxId \in Nat
    BY <2>1, <2>2, IdsFinite, FirstIds, BoundsAssumption DEF IdsInv
  <2>4. p \in Nat
    <3>1. parents[i] \in Seq(Ids)
      BY <2>1, <2>2 DEF Typed
    <3>2. p \in Ids
      BY <3>1 DEF Elements
    <3> QED
      BY <3>2, IdsFinite
  <2>5. p < i
    <3>1. CASE i \in StartIds
      BY <2>3, <2>4, <3>1 DEF SeedParents
    <3>2. CASE i \notin StartIds
      BY <2>2, <3>2 DEF OriginInv, ParentsOlder
    <3> QED
      BY <3>1, <3>2
  <2>6. PICK g : g = Greatest(C)
    OBVIOUS
  <2>7. g \in C /\ i <= g
    <3>1. C \subseteq Nat /\ \A k \in C : k <= MaxId
      BY <2>2, <2>3 DEF Ids
    <3> QED
      BY <2>3, <2>6, <3>1, GreatestIsGreatest
  <2>8. g \in Nat
    BY <2>2, <2>7, IdsFinite
  <2> QED
    BY <2>3, <2>4, <2>5, <2>6, <2>7, <2>8
<1> QED
  BY <1>1, SeedParentsInvariant, SchedulerInvariant, OriginInvariant, PTL

-----------------------------------------------------------------------------
(* Joins in a loop *)

\* The nodes the join waits for.
Workers(J) == Elements(WaitFor[J])

\* What the activations of a loop have for parents: an activation of S nothing or
\* one of J, a worker's one of S, one of J a completed worker for each node it
\* waits for.
LoopShape(S, J) ==
  \A i \in Created :
    /\ node[i] = S =>
         parents[i] = << >> \/ \E b \in Completed : parents[i] = <<b>> /\ node[b] = J
    /\ node[i] \in Workers(J) => \E s \in Completed : parents[i] = <<s>> /\ node[s] = S
    /\ node[i] = J =>
         \A m \in 1 .. Len(WaitFor[J]) :
           parents[i][m] \in Completed /\ node[parents[i][m]] = WaitFor[J][m]

\* The start activation.
Begun(S) == FirstId \in Created /\ node[FirstId] = S /\ parents[FirstId] = << >>

\* An activation forks once to every worker, and one of J leads back to S once.
OneEach(S, J) ==
  \A i, j \in Created :
    node[i] = node[j] /\ node[i] \in Workers(J) \cup {S} /\ parents[i] = parents[j] => i = j

\* What a join combines comes from one fork.
OneFork(J) ==
  \A j \in Created : node[j] = J =>
    /\ Len(parents[j]) = Len(WaitFor[J])
    /\ \A p, q \in Elements(parents[j]) : parents[p] = parents[q]

\* completedById has every completed activation.
Recorded == Completed \subseteq Elements(done)

LoopInv(S, J) == Begun(S) /\ Recorded /\ OneEach(S, J) /\ OneFork(J)

\* The start activation of a fresh attempt is the first, and there is no other.
LEMMA FreshIds ==
  ASSUME NEW S, FreshFrom(S)
  PROVE  Seeded = {} /\ StartIds = {FirstId} /\ FirstId \in Ids
<1>1. Seeded = {}
  BY DEF Seeded, FreshFrom
<1>2. FirstId \in Nat /\ StartIds = FirstId .. FirstId + 1 - 1
  BY FirstIds DEF StartIds, FreshFrom
<1>3. StartIds = {FirstId}
  BY <1>2
<1>4. 1 <= FirstId /\ FirstId + 1 <= MaxId + 1
  BY FirstIds, StartAssumption DEF FreshFrom
<1> QED
  BY <1>1, <1>2, <1>3, <1>4, BoundsAssumption DEF Ids

\* The edges of the loop give its activations their parents.
LEMMA ShapeHolds ==
  ASSUME NEW S \in Node, NEW J \in Node, ForkJoinLoop(S, J), FreshFrom(S),
         FedInv, Begun(S)
  PROVE  LoopShape(S, J)
<1> SUFFICES ASSUME NEW i \in Created
             PROVE
    /\ node[i] = S =>
         parents[i] = << >> \/ \E b \in Completed : parents[i] = <<b>> /\ node[b] = J
    /\ node[i] \in Workers(J) => \E s \in Completed : parents[i] = <<s>> /\ node[s] = S
    /\ node[i] = J =>
         \A m \in 1 .. Len(WaitFor[J]) :
           parents[i][m] \in Completed /\ node[parents[i][m]] = WaitFor[J][m]
  BY DEF LoopShape
<1>1. CASE i = FirstId
  BY <1>1 DEF Begun, ForkJoinLoop, Workers
<1>2. CASE i # FirstId
  <2>1. Fed(Completed, Work(i))
    BY <1>2, FreshIds DEF FedInv, InputsCompleted
  <2>2. CASE node[i] = J
    <3>1. IsJoin(J) /\ S # J /\ J \notin Workers(J)
      BY DEF ForkJoinLoop, Workers
    <3> QED
      BY <2>1, <2>2, <3>1 DEF Fed, Work
  <2>3. CASE node[i] \in Workers(J) \cup {S}
    <3>1. ~IsJoin(node[i]) /\ node[i] # J /\ S \notin Workers(J)
      <4>1. Workers(J) \subseteq Node
        <5>1. WaitFor[J] \in Seq(Node)
          BY GraphAssumption
        <5> QED
          BY <5>1 DEF Workers, Elements
      <4> QED
        BY <2>3, <4>1 DEF ForkJoinLoop, Workers
    <3>2. PICK p \in Completed :
            /\ parents[i] = <<p>>
            /\ \E k \in 1 .. Len(Edges) : Edges[k].from = node[p] /\ Edges[k].to = node[i]
      BY <2>1, <3>1 DEF Fed, Work
    <3>3. node[i] = S => node[p] = J
      BY <3>2 DEF ForkJoinLoop
    <3>4. node[i] \in Workers(J) => node[p] = S
      BY <3>2 DEF ForkJoinLoop, Workers
    <3> QED
      BY <3>1, <3>2, <3>3, <3>4
  <2> QED
    BY <2>2, <2>3
<1> QED
  BY <1>1, <1>2

\* While a fork has a worker that has not completed, all that descends from it
\* among the workers is its own workers; and so for the activation of J that led
\* to it.
LEMMA OpenFork ==
  ASSUME NEW S \in Node, NEW J \in Node, ForkJoinLoop(S, J), Typed(node, parents),
         LoopShape(S, J), OneEach(S, J), OneFork(J),
         NEW i \in Created, i \notin Completed, node[i] \in Workers(J),
         NEW a, parents[i] = <<a>>
  PROVE  \A d, b, x :
           /\ b = a \/ parents[a] = <<b>>
           /\ x \in Created /\ node[x] \in Workers(J) /\ b \in Elements(Ancestors(d, x))
           => parents[x] = <<a>>
<1> SUFFICES ASSUME NEW d, NEW b, b = a \/ parents[a] = <<b>>,
                    NEW x \in Created, node[x] \in Workers(J),
                    b \in Elements(Ancestors(d, x)), parents[x] # <<a>>
             PROVE  FALSE
  OBVIOUS
<1>0. Created \subseteq Ids
  BY DEF Created
<1> DEFINE T == {y \in Created : /\ node[y] \in Workers(J) \cup {S, J}
                                 /\ y # a /\ y # b
                                 /\ node[y] \in Workers(J) => parents[y] # <<a>>}
<1>1. S # J /\ S \notin Workers(J) /\ J \notin Workers(J) /\ Completed \subseteq Created
  BY DEF ForkJoinLoop, Workers, Completed, Created
<1>2. /\ a \in Created /\ node[a] = S
      /\ b # a => b \in Created /\ node[b] = J
  <2>1. \E s \in Completed : parents[i] = <<s>> /\ node[s] = S
    BY DEF LoopShape
  <2>2. a \in Created /\ node[a] = S
    BY <1>1, <2>1
  <2>3. b # a => \E p \in Completed : parents[a] = <<p>> /\ node[p] = J
    BY <2>2 DEF LoopShape
  <2> QED
    BY <1>1, <2>2, <2>3
<1>3. \A s : Elements(<<s>>) = {s}
  BY DEF Elements
<1>4. ASSUME NEW y \in Created, node[y] \in Workers(J), parents[y] # <<a>>
      PROVE  Elements(parents[y]) \subseteq T
  <2>1. PICK s \in Completed : parents[y] = <<s>> /\ node[s] = S
    BY <1>4 DEF LoopShape
  <2> QED
    BY <1>1, <1>2, <1>3, <1>4, <2>1
<1>5. ASSUME NEW y \in Created, node[y] = S, y # a
      PROVE  Elements(parents[y]) \subseteq T
  <2>1. CASE parents[y] = << >>
    BY <2>1 DEF Elements
  <2>2. ASSUME NEW p \in Completed, parents[y] = <<p>>, node[p] = J
        PROVE  Elements(parents[y]) \subseteq T
    <3>1. p # a
      BY <1>1, <1>2, <2>2
    <3>2. p # b
      <4> SUFFICES ASSUME p = b PROVE FALSE
        OBVIOUS
      <4>1. parents[a] = parents[y] /\ node[a] = node[y]
        BY <1>2, <1>5, <2>2, <3>1
      <4> QED
        BY <1>2, <1>5, <4>1 DEF OneEach
    <3> QED
      BY <1>1, <1>3, <2>2, <3>1, <3>2
  <2> QED
    BY <1>5, <2>1, <2>2 DEF LoopShape
<1>6. ASSUME NEW y \in Created, node[y] = J
      PROVE  Elements(parents[y]) \subseteq T
  <2>1. /\ Len(parents[y]) = Len(WaitFor[J])
        /\ \A p, q \in Elements(parents[y]) : parents[p] = parents[q]
    BY <1>6 DEF OneFork
  <2>2. \A m \in 1 .. Len(WaitFor[J]) :
          parents[y][m] \in Completed /\ node[parents[y][m]] = WaitFor[J][m]
    BY <1>6 DEF LoopShape
  <2>3. ASSUME NEW p \in Elements(parents[y])
        PROVE  p \in Completed /\ node[p] \in Workers(J)
    BY <2>1, <2>2 DEF Elements, Workers
  <2>4. ASSUME NEW p \in Elements(parents[y])
        PROVE  parents[p] # <<a>>
    <3> SUFFICES ASSUME parents[p] = <<a>> PROVE FALSE
      OBVIOUS
    <3>1. PICK m \in 1 .. Len(WaitFor[J]) : WaitFor[J][m] = node[i]
      BY DEF Workers, Elements
    <3>2. PICK q : q = parents[y][m]
      OBVIOUS
    <3>3. q \in Elements(parents[y]) /\ q \in Completed /\ node[q] = node[i]
      BY <2>1, <2>2, <3>1, <3>2 DEF Elements
    <3>4. parents[q] = parents[i]
      BY <2>1, <3>3
    <3>5. q = i
      BY <1>1, <3>3, <3>4 DEF OneEach
    <3> QED
      BY <3>3, <3>5
  <2> QED
    BY <1>1, <1>2, <2>3, <2>4
<1>7. Elements(parents[x]) \subseteq T /\ Closed(T, d)
  <2>1. Elements(parents[x]) \subseteq T
    BY <1>4
  <2>2. \A y \in T : Elements(parents[y]) \subseteq T
    BY <1>4, <1>5, <1>6
  <2> QED
    BY <2>1, <2>2 DEF Closed
<1>8. b \notin T
  OBVIOUS
<1> HIDE DEF T
<1>9. ReachedFrom(d, x)
  BY <1>0, AncestorsAreReachable
<1> QED
  BY <1>7, <1>8, <1>9 DEF ReachedFrom

\* A sequence that repeats nothing and has only a is <<a>>.
LEMMA OnlyOne ==
  ASSUME NEW T, NEW f \in Seq(T), NEW a, NoRepeat(f), Elements(f) = {a}
  PROVE  f = <<a>>
<1>1. PICK n : n = Len(f)
  OBVIOUS
<1>2. n \in Nat /\ \A k \in 1 .. n : f[k] \in Elements(f)
  BY <1>1 DEF Elements
<1>3. \A k \in 1 .. n : f[k] = a
  BY <1>2
<1>4. n # 0
  BY <1>1 DEF Elements
<1>5. ~(n >= 2)
  <2> SUFFICES ASSUME n >= 2 PROVE FALSE
    OBVIOUS
  <2>1. 1 \in 1 .. n /\ 2 \in 1 .. n
    BY <1>2
  <2>2. f[1] = f[2]
    BY <1>3, <2>1
  <2> QED
    BY <1>1, <2>1, <2>2 DEF NoRepeat
<1>6. n = 1 /\ f[1] = a
  BY <1>2, <1>3, <1>4, <1>5
<1>7. a \in T
  <2>1. 1 \in 1 .. Len(f)
    BY <1>1, <1>6
  <2> QED
    BY <1>6, <2>1, ElementOfSeq
<1>8. PICK h : h = <<a>>
  OBVIOUS
<1>9. h \in Seq(T) /\ Len(h) = 1 /\ h[1] = a
  BY <1>7, <1>8
<1>10. \A k \in 1 .. 1 : k = 1
  OBVIOUS
<1> QED
  BY <1>1, <1>6, <1>8, <1>9, <1>10, SeqEqual

\* One that begins with a and has only a and b is <<a, b>>.
LEMMA OnlyTwo ==
  ASSUME NEW T, NEW f \in Seq(T), NEW a, NEW b, a # b, NoRepeat(f),
         Elements(f) = {a} \cup {b}, Len(f) >= 1, f[1] = a
  PROVE  f = <<a, b>>
<1>1. PICK n : n = Len(f)
  OBVIOUS
<1>2. n \in Nat /\ \A k \in 1 .. n : f[k] \in Elements(f)
  BY <1>1 DEF Elements
<1>3. ASSUME NEW k \in 1 .. n, k # 1
      PROVE  f[k] = b
  <2>1. f[k] # f[1]
    <3>1. 1 \in 1 .. n
      BY <1>2
    <3> QED
      BY <1>1, <1>3, <3>1 DEF NoRepeat
  <2> QED
    BY <1>2, <2>1
<1>4. n >= 2
  <2>1. PICK k \in 1 .. n : f[k] = b
    BY <1>1 DEF Elements
  <2> QED
    BY <1>2, <2>1
<1>5. ~(n >= 3)
  <2> SUFFICES ASSUME n >= 3 PROVE FALSE
    OBVIOUS
  <2>1. 2 \in 1 .. n /\ 3 \in 1 .. n
    BY <1>2
  <2>2. f[2] = f[3]
    BY <1>3, <2>1
  <2> QED
    BY <1>1, <2>1, <2>2 DEF NoRepeat
<1>6. n = 2 /\ f[2] = b
  BY <1>2, <1>3, <1>4, <1>5
<1>7. a \in T /\ b \in T
  <2>1. 1 \in 1 .. Len(f) /\ 2 \in 1 .. Len(f)
    BY <1>1, <1>6
  <2> QED
    BY <1>6, <2>1, ElementOfSeq
<1>8. PICK h : h = <<a, b>>
  OBVIOUS
<1>9. h \in Seq(T) /\ Len(h) = 2 /\ h[1] = a /\ h[2] = b
  BY <1>7, <1>8
<1>10. \A k \in 1 .. 2 : k \in {1, 2}
  OBVIOUS
<1> QED
  BY <1>1, <1>6, <1>8, <1>9, <1>10, SeqEqual

\* The first ids the walk over the ancestors of i finds, when i has the parent a,
\* a the parent b, and b any others: a and b, and a third is a parent of b.
LEMMA FirstFound ==
  ASSUME Typed(node, parents), NEW d, NEW i \in Ids, NEW a \in Ids, NEW b \in Ids, a # b,
         parents[i] = <<a>>, parents[a] = <<b>>, a \in Elements(d), b \in Elements(d),
         NEW c \in Elements(parents[b]), c \notin {a, b}
  PROVE  LET anc == Ancestors(d, i) IN
         /\ Len(anc) >= 3 /\ anc[1] = a /\ anc[2] = b
         /\ anc[3] \in Elements(parents[b])
<1>1. PICK g : Walks(g, d, i) /\ Ancestors(d, i) = g[MaxId]
  BY AncestorsWalk
<1>2. MaxId \in Nat /\ MaxId >= 2 /\ a \in Nat /\ b \in Nat
  BY BoundsAssumption DEF Ids
<1> DEFINE Starts(f) == /\ f \in Seq(Ids) /\ Len(f) >= 3 /\ f[1] = a /\ f[2] = b
                        /\ f[3] \in Elements(parents[b])
           Good == {k \in 0 .. MaxId : k >= 2 => Starts(g[k])}
<1>3. \A x : Elements(<<x>>) = {x}
  BY DEF Elements
<1>4. g[0] = <<a>>
  <2>1. PICK e, s : e = << >> /\ s = <<a>>
    OBVIOUS
  <2>2. e \in Seq(Ids) /\ s \in Seq(Ids) /\ Elements(e) = {} /\ NoRepeat(e) /\ Elements(s) = {a}
    BY <1>3, <2>1 DEF Elements, NoRepeat
  <2>3. PICK f : f = AppendNew(e, s)
    OBVIOUS
  <2>4. f \in Seq(Ids) /\ Elements(f) = {a} /\ NoRepeat(f)
    BY <2>2, <2>3, AppendNewProperties
  <2>5. g[0] = f
    BY <1>1, <2>1, <2>3 DEF Walks
  <2> QED
    BY <2>4, <2>5, OnlyOne
<1>5. g[1] = <<a, b>>
  <2>1. PICK e, s : e = <<a>> /\ s = <<b>>
    OBVIOUS
  <2>2. /\ e \in Seq(Ids) /\ s \in Seq(Ids) /\ Elements(e) = {a} /\ Elements(s) = {b}
        /\ NoRepeat(e) /\ Len(e) = 1 /\ e[1] = a
    <3>1. Elements(<<a>>) = {a} /\ Elements(<<b>>) = {b}
      BY <1>3
    <3>2. NoRepeat(<<a>>)
      BY DEF NoRepeat
    <3> QED
      BY <2>1, <3>1, <3>2
  <2>3. PICK f : f = AppendNew(e, s)
    OBVIOUS
  <2>4. /\ f \in Seq(Ids) /\ Elements(f) = {a} \cup {b} /\ NoRepeat(f)
        /\ 1 <= Len(f) /\ \A k \in 1 .. 1 : f[k] = e[k]
    <3> HIDE <1>3
    <3> QED
      BY <2>2, <2>3, AppendNewProperties
  <2>5. g[1] = f
    <3>1. 1 \in 1 .. MaxId /\ 1 - 1 = 0
      BY <1>2
    <3>2. g[1] = Look(d, g[0], 1)
      BY <1>1, <3>1 DEF Walks
    <3>3. g[0] = e /\ 1 <= Len(e) /\ e[1] \in Elements(d) /\ parents[e[1]] = s
      BY <1>4, <2>1
    <3> QED
      BY <2>3, <3>2, <3>3 DEF Look
  <2>6. Len(f) >= 1 /\ f[1] = a
    BY <2>2, <2>4
  <2>7. f = <<a, b>>
    BY <2>4, <2>6, OnlyTwo
  <2> QED
    BY <2>5, <2>7
<1>6. Starts(g[2])
  <2>1. PICK e, s : e = <<a, b>> /\ s = parents[b]
    OBVIOUS
  <2>2. /\ e \in Seq(Ids) /\ s \in Seq(Ids) /\ Elements(e) = {a, b} /\ NoRepeat(e)
        /\ Len(e) = 2 /\ e[1] = a /\ e[2] = b
    <3>1. Elements(<<a, b>>) = {a, b}
      BY DEF Elements
    <3>2. NoRepeat(<<a, b>>)
      BY DEF NoRepeat
    <3>3. parents[b] \in Seq(Ids)
      BY DEF Typed
    <3> QED
      BY <2>1, <3>1, <3>2, <3>3
  <2>3. PICK f : f = AppendNew(e, s)
    OBVIOUS
  <2>4. /\ f \in Seq(Ids) /\ Elements(f) = Elements(e) \cup Elements(s) /\ NoRepeat(f)
        /\ Len(e) <= Len(f) /\ \A k \in 1 .. Len(e) : f[k] = e[k]
    <3>1. e \in Seq(Ids) /\ s \in Seq(Ids) /\ NoRepeat(e)
      BY <2>2
    <3> HIDE DEF Starts, Good
    <3> QED
      BY <2>3, <3>1, AppendNewProperties
  <2>5. g[2] = f
    <3>1. 2 \in 1 .. MaxId /\ 2 - 1 = 1
      BY <1>2
    <3>2. g[2] = Look(d, g[1], 2)
      BY <1>1, <3>1 DEF Walks
    <3>3. g[1] = e /\ 2 <= Len(e) /\ e[2] \in Elements(d) /\ parents[e[2]] = s
      BY <1>5, <2>1, <2>2
    <3> QED
      BY <2>3, <3>2, <3>3 DEF Look
  <2>6. Len(f) \in Nat /\ f[1] = a /\ f[2] = b
    BY <2>2, <2>4
  <2>7. Len(f) >= 3
    <3>0. c \in Elements(f)
      BY <2>1, <2>4
    <3>1. PICK k \in 1 .. Len(f) : f[k] = c
      BY <3>0 DEF Elements
    <3>2. k # 1 /\ k # 2
      BY <2>6, <3>1
    <3> QED
      BY <2>6, <3>1, <3>2
  <2>8. f[3] \in Elements(s)
    <3>1. 1 \in 1 .. Len(f) /\ 2 \in 1 .. Len(f) /\ 3 \in 1 .. Len(f)
      BY <2>6, <2>7
    <3>2. f[3] # a /\ f[3] # b
      BY <2>4, <2>6, <3>1 DEF NoRepeat
    <3>3. f[3] \in Elements(f)
      BY <3>1 DEF Elements
    <3> QED
      BY <2>2, <2>4, <3>2, <3>3
  <2> QED
    BY <2>1, <2>4, <2>5, <2>6, <2>7, <2>8
<1>7. ASSUME NEW k \in 1 .. MaxId, Starts(g[k - 1])
      PROVE  Starts(g[k])
  <2>1. PICK f : f = g[k - 1]
    OBVIOUS
  <2>2. /\ f \in Seq(Ids) /\ Len(f) >= 3 /\ f[1] = a /\ f[2] = b
        /\ f[3] \in Elements(parents[b]) /\ g[k] = Look(d, f, k)
    BY <1>1, <1>7, <2>1 DEF Walks
  <2>3. CASE k <= Len(f) /\ f[k] \in Elements(d)
    <3>1. PICK s : s = parents[f[k]]
      OBVIOUS
    <3>2. s \in Seq(Ids)
      <4>1. f[k] \in Ids
        BY <2>2, <2>3, <1>2
      <4> QED
        BY <3>1, <4>1 DEF Typed
    <3>3. PICK h : h = AppendNew(f, s)
      OBVIOUS
    <3>4. h \in Seq(Ids) /\ Len(f) <= Len(h) /\ \A l \in 1 .. Len(f) : h[l] = f[l]
      BY <2>2, <3>2, <3>3, AppendNewProperties
    <3>5. g[k] = h
      BY <2>2, <2>3, <3>1, <3>3 DEF Look
    <3>6. Len(h) >= 3 /\ h[1] = f[1] /\ h[2] = f[2] /\ h[3] = f[3]
      <4>1. Len(f) \in Nat /\ Len(h) \in Nat
        BY <2>2, <3>4
      <4> QED
        BY <2>2, <3>4, <4>1
    <3> QED
      BY <2>2, <3>4, <3>5, <3>6
  <2>4. CASE ~(k <= Len(f) /\ f[k] \in Elements(d))
    BY <2>2, <2>4 DEF Look
  <2> QED
    BY <2>3, <2>4
<1>8. 0 .. MaxId \subseteq Good
  <2> HIDE DEF Starts
  <2>1. 0 \in Good
    BY <1>2
  <2>2. ASSUME NEW k \in 0 .. MaxId - 1, k \in Good
        PROVE  k + 1 \in Good
    <3>1. k + 1 \in 1 .. MaxId /\ (k + 1) - 1 = k /\ k + 1 \in 0 .. MaxId
      BY <1>2
    <3>2. CASE k + 1 = 2
      BY <1>6, <3>1, <3>2
    <3>3. CASE k >= 2
      BY <1>7, <2>2, <3>1, <3>3
    <3>4. CASE k + 1 < 2
      BY <3>1, <3>4
    <3> QED
      BY <3>2, <3>3, <3>4
  <2> HIDE DEF Good
  <2> QED
    BY <1>2, <2>1, <2>2, BoundedInduction
<1>9. Starts(g[MaxId])
  <2> HIDE DEF Starts
  <2>1. MaxId \in Good
    <3> HIDE DEF Good
    <3> QED
      BY <1>2, <1>8
  <2> QED
    BY <1>2, <2>1
<1> QED
  BY <1>1, <1>9

\* A generation that is tried comes before every completed activation of a node the
\* join waits for.
LEMMA GenerationsBefore ==
  ASSUME Typed(node, parents), NEW d, NEW i \in Ids, NEW join,
         NEW g \in Elements(Generations(d, i, join)), g # Roots
  PROVE  \E k \in 1 .. Len(Ancestors(d, i)) :
           /\ g = Ancestors(d, i)[k]
           /\ \A l \in 1 .. k : ~(/\ Ancestors(d, i)[l] \in Elements(d)
                                  /\ node[Ancestors(d, i)[l]] \in Elements(WaitFor[join]))
<1>1. PICK anc : anc = Ancestors(d, i)
  OBVIOUS
<1> DEFINE cuts == {k \in 1 .. Len(anc) : /\ anc[k] \in Elements(d)
                                          /\ node[anc[k]] \in Elements(WaitFor[join])}
<1>2. anc \in Seq(Ids) /\ Len(anc) \in Nat
  BY <1>1, AncestorsType
<1>3. Generations(d, i, join) = IF anc = << >> THEN <<Roots>>
                                ELSE IF cuts = {} THEN anc
                                ELSE SubSeq(anc, 1, Least(cuts) - 1)
  BY <1>1 DEF Generations
<1>4. cuts \subseteq Nat
  BY <1>2
<1>5. anc # << >>
  <2> SUFFICES ASSUME anc = << >> PROVE FALSE
    OBVIOUS
  <2>1. g \in Elements(<<Roots>>)
    BY <1>3
  <2> QED
    BY <2>1 DEF Elements
<1>6. \E k \in 1 .. Len(anc) : g = anc[k] /\ \A l \in 1 .. k : l \notin cuts
  <2> HIDE DEF cuts
  <2>1. CASE cuts = {}
    BY <1>3, <1>5, <2>1 DEF Elements
  <2>2. CASE cuts # {}
    <3>1. PICK m : m = Least(cuts)
      OBVIOUS
    <3>2. m \in cuts /\ \A k \in cuts : m <= k
      BY <1>4, <2>2, <3>1, LeastIsLeast
    <3>3. m \in 1 .. Len(anc)
      BY <3>2 DEF cuts
    <3>4. PICK s : s = SubSeq(anc, 1, m - 1)
      OBVIOUS
    <3>5. Len(s) = m - 1 /\ \A k \in 1 .. m - 1 : s[k] = anc[k]
      BY <1>2, <3>3, <3>4
    <3>6. g \in Elements(s)
      BY <1>3, <1>5, <2>2, <3>1, <3>4
    <3>7. PICK k \in 1 .. m - 1 : g = anc[k]
      BY <3>5, <3>6 DEF Elements
    <3>8. k \in 1 .. Len(anc) /\ \A l \in 1 .. k : l \notin cuts
      BY <1>2, <3>2, <3>3, <3>7
    <3> QED
      BY <3>7, <3>8
  <2> QED
    BY <2>1, <2>2
<1>7. PICK k \in 1 .. Len(anc) : g = anc[k] /\ \A l \in 1 .. k : l \notin cuts
  BY <1>6
<1>8. \A l \in 1 .. k : ~(anc[l] \in Elements(d) /\ node[anc[l]] \in Elements(WaitFor[join]))
  BY <1>2, <1>7
<1> HIDE DEF cuts
<1> QED
  BY <1>1, <1>7, <1>8

\* The join that the completion of a worker makes ready combines the workers of
\* that worker's own fork.
LEMMA JoinOfTheFork ==
  ASSUME NEW S \in Node, NEW J \in Node, ForkJoinLoop(S, J), Typed(node, parents),
         LoopShape(S, J), OneEach(S, J), OneFork(J),
         NEW d \in Seq(Ids), Completed \subseteq Elements(d), Elements(d) \subseteq Created,
         NEW i \in Created, i \notin Completed, node[i] \in Workers(J),
         JoinParents(d, i, J) # << >>
  PROVE  /\ Len(JoinParents(d, i, J)) = Len(WaitFor[J])
         /\ \A p \in Elements(JoinParents(d, i, J)) : p \in Elements(d) /\ parents[p] = parents[i]
<1>1. /\ S # J /\ S \notin Workers(J) /\ J \notin Workers(J) /\ IsJoin(J)
      /\ Completed \subseteq Created /\ Created \subseteq Ids
  BY DEF ForkJoinLoop, Workers, Completed, Created
<1>2. PICK a \in Completed : parents[i] = <<a>> /\ node[a] = S
  BY DEF LoopShape
<1>3. PICK g, f : JoinParentsFrom(d, i, J, g, f)
  BY <1>1, JoinParentsOfOneGeneration
<1>4. /\ f \in Seq(Ids) /\ Len(f) = Len(WaitFor[J]) /\ JoinParents(d, i, J) = f
      /\ \A m \in 1 .. Len(f) : f[m] = Latest(d, WaitFor[J][m], g) /\ f[m] # 0
      /\ g \in Elements(Generations(d, i, J))
  BY <1>3 DEF JoinParentsFrom, Workers
<1>5. ASSUME NEW p \in Elements(f)
      PROVE  /\ p \in Elements(d) /\ p \in Created /\ node[p] \in Workers(J)
             /\ InGeneration(d, p, g)
  <2>1. PICK m \in 1 .. Len(f) : p = f[m]
    BY <1>5 DEF Elements
  <2>2. PICK w : w = WaitFor[J][m]
    OBVIOUS
  <2>3. w \in Workers(J)
    BY <1>4, <2>2 DEF Elements, Workers
  <2>4. p = Latest(d, w, g) /\ p # 0
    BY <1>4, <2>1, <2>2
  <2>5. p \in Elements(d) /\ node[p] = w /\ InGeneration(d, p, g)
    BY <2>4, LatestIsOfNode
  <2> QED
    BY <2>3, <2>5
<1>6. ASSUME NEW p \in Elements(f), NEW b, b = a \/ parents[a] = <<b>>,
             b \in Ids, node[b] \notin Workers(J), g = b
      PROVE  parents[p] = <<a>>
  <2>1. b # Anyone /\ b # Roots
    BY <1>6, BoundsAssumption DEF Ids, Anyone, Roots
  <2>2. b # p
    BY <1>5, <1>6
  <2>3. b \in Elements(Ancestors(d, p))
    BY <1>5, <1>6, <2>1, <2>2 DEF InGeneration
  <2>4. p \in Created /\ node[p] \in Workers(J)
    BY <1>5
  <2>5. \A e, c, x :
          /\ c = a \/ parents[a] = <<c>>
          /\ x \in Created /\ node[x] \in Workers(J) /\ c \in Elements(Ancestors(e, x))
          => parents[x] = <<a>>
    <3>1. parents[i] = <<a>>
      BY <1>2
    <3> QED
      BY <3>1, OpenFork
  <2> QED
    BY <1>6, <2>3, <2>4, <2>5
<1>7. CASE g = Roots
  <2>1. 1 \in 1 .. Len(f)
    <3>1. WaitFor[J] \in Seq(Node) /\ WaitFor[J] # << >>
      BY <1>1, GraphAssumption DEF IsJoin
    <3>2. Len(WaitFor[J]) \in Nat /\ Len(WaitFor[J]) # 0
      BY <3>1
    <3> QED
      BY <1>4, <3>2
  <2>2. PICK p : p = f[1]
    OBVIOUS
  <2>3. p \in Elements(f)
    BY <2>1, <2>2 DEF Elements
  <2>4. p \in Created /\ node[p] \in Workers(J) /\ InGeneration(d, p, Roots)
    BY <1>5, <1>7, <2>3
  <2>5. parents[p] # << >>
    BY <2>4 DEF LoopShape
  <2>6. p \in Ids /\ Elements(Ancestors(d, p)) \subseteq Ids
    BY <1>1, <2>4, AncestorsType DEF Elements
  <2>7. Roots \notin Ids /\ Roots # Anyone
    BY BoundsAssumption DEF Ids, Roots, Anyone
  <2> QED
    BY <2>4, <2>5, <2>6, <2>7 DEF InGeneration
<1>8. CASE g # Roots
  <2>1. PICK anc : anc = Ancestors(d, i)
    OBVIOUS
  <2>2. anc \in Seq(Ids) /\ Len(anc) \in Nat /\ ReachedFrom(d, i)
    BY <1>1, <2>1, AncestorsAreReachable
  <2>3. PICK k \in 1 .. Len(anc) :
          /\ g = anc[k]
          /\ \A l \in 1 .. k : ~(anc[l] \in Elements(d) /\ node[anc[l]] \in Elements(WaitFor[J]))
    BY <1>1, <1>4, <1>8, <2>1, GenerationsBefore
  <2>4. g = a \/ parents[a] = <<g>>
    <3>1. CASE parents[a] = << >>
      <4>1. Elements(parents[i]) \subseteq {a} /\ Closed({a}, d)
        BY <1>2, <3>1 DEF Elements, Closed
      <4>2. Elements(anc) \subseteq {a}
        BY <2>1, <2>2, <4>1 DEF ReachedFrom
      <4> QED
        BY <2>3, <4>2 DEF Elements
    <3>2. ASSUME NEW b \in Completed, parents[a] = <<b>>, node[b] = J
          PROVE  g = a \/ g = b
      <4>1. a \in Ids /\ b \in Ids /\ b \in Created /\ a # b /\ i \in Ids
        BY <1>1, <1>2, <3>2
      <4>2. PICK c : c = parents[b][1]
        OBVIOUS
      <4>3. Len(parents[b]) = Len(WaitFor[J]) /\ 1 \in 1 .. Len(WaitFor[J])
        <5>1. WaitFor[J] \in Seq(Node) /\ WaitFor[J] # << >>
          BY <1>1, GraphAssumption DEF IsJoin
        <5>2. Len(WaitFor[J]) \in Nat /\ Len(WaitFor[J]) # 0
          BY <5>1
        <5> QED
          BY <3>2, <4>1, <5>2 DEF OneFork
      <4>4. ASSUME NEW q \in Elements(parents[b])
            PROVE  q \in Completed /\ node[q] \in Workers(J)
        <5>1. PICK m \in 1 .. Len(WaitFor[J]) : q = parents[b][m]
          BY <4>3, <4>4 DEF Elements
        <5>2. q \in Completed /\ node[q] = WaitFor[J][m]
          BY <3>2, <4>1, <5>1 DEF LoopShape
        <5> QED
          BY <5>2 DEF Workers, Elements
      <4>5. c \in Elements(parents[b])
        BY <4>2, <4>3 DEF Elements
      <4>6. c \notin {a, b}
        BY <1>1, <1>2, <3>2, <4>4, <4>5
      <4>7. a \in Elements(d) /\ b \in Elements(d)
        BY <1>2, <3>2
      <4>8. /\ Len(anc) >= 3 /\ anc[1] = a /\ anc[2] = b
            /\ anc[3] \in Elements(parents[b])
        BY <1>2, <2>1, <3>2, <4>1, <4>5, <4>6, <4>7, FirstFound
      <4>9. anc[3] \in Elements(d) /\ node[anc[3]] \in Elements(WaitFor[J])
        BY <4>4, <4>8 DEF Workers
      <4>10. ~(k >= 3)
        BY <2>2, <2>3, <4>9
      <4>11. k = 1 \/ k = 2
        BY <2>2, <4>10
      <4> QED
        BY <2>3, <4>8, <4>11
    <3> QED
      <4>1. a \in Created /\ node[a] = S
        BY <1>1, <1>2
      <4>2. parents[a] = << >> \/ \E b \in Completed : parents[a] = <<b>> /\ node[b] = J
        BY <4>1 DEF LoopShape
      <4> QED
        BY <3>1, <3>2, <4>2
  <2>5. g \in Ids /\ node[g] \notin Workers(J)
    <3>1. CASE g = a
      BY <1>1, <1>2, <3>1
    <3>2. CASE parents[a] = <<g>>
      <4>1. a \in Created /\ node[a] = S
        BY <1>1, <1>2
      <4>2. PICK b \in Completed : parents[a] = <<b>> /\ node[b] = J
        <5>1. parents[a] = << >> \/ \E b \in Completed : parents[a] = <<b>> /\ node[b] = J
          BY <4>1 DEF LoopShape
        <5>2. <<g>> # << >>
          OBVIOUS
        <5> QED
          BY <3>2, <5>1, <5>2
      <4>3. g = b
        BY <3>2, <4>2
      <4> QED
        BY <1>1, <4>2, <4>3
    <3> QED
      BY <2>4, <3>1, <3>2
  <2>6. \A p \in Elements(f) : parents[p] = <<a>>
    BY <1>6, <2>4, <2>5
  <2> QED
    BY <1>2, <1>4, <1>5, <2>6
<1> QED
  BY <1>7, <1>8

\* Every child is made ready by an edge that leads to it from the completed node.
LEMMA ReadyEdges ==
  ASSUME NEW d, NEW i, NEW taken, NEW e \in DOMAIN Ready(d, i, taken)
  PROVE  /\ e \in 1 .. Len(Edges) /\ Edges[e].from = node[i]
         /\ Ready(d, i, taken)[e] = <<Edges[e].to, ChildParents(d, i, Edges[e].to)>>
         /\ ChildParents(d, i, Edges[e].to) # << >>
<1> DEFINE open == {k \in 1 .. Len(Edges) : /\ Edges[k].from = node[i]
                                            /\ Edges[k].conditional => k \in taken}
           child == [k \in open |-> <<Edges[k].to, ChildParents(d, i, Edges[k].to)>>]
<1>1. Ready(d, i, taken) = [k \in {l \in open : child[l][2] # << >>} |-> child[k]]
  BY DEF Ready
<1>2. e \in open /\ child[e][2] # << >> /\ Ready(d, i, taken)[e] = child[e]
  <2> HIDE DEF open, child
  <2> QED
    BY <1>1
<1>3. child[e] = <<Edges[e].to, ChildParents(d, i, Edges[e].to)>>
  BY <1>2
<1>4. child[e][2] = ChildParents(d, i, Edges[e].to)
  BY <1>3
<1> QED
  BY <1>2, <1>3, <1>4

\* Every step keeps the loop's invariant.
LEMMA LoopInvStep ==
  ASSUME NEW S \in Node, NEW J \in Node, ForkJoinLoop(S, J), FreshFrom(S),
         SchedulerInv, FedInv, LoopInv(S, J), [SchedulerNext]_schedulerVars
  PROVE  LoopInv(S, J)'
<1>1. Typed(node, parents) /\ done \in Seq(Ids) /\ IdsInv
  BY DEF SchedulerInv, TypeOK, Typed
<1>2. LoopShape(S, J) /\ Begun(S) /\ Recorded /\ OneEach(S, J) /\ OneFork(J)
  BY ShapeHolds, <1>1 DEF LoopInv
<1>3. \A i \in Created : i \in Created' /\ node'[i] = node[i] /\ parents'[i] = parents[i]
  <2>1. CASE StopSignalled \/ SettleNext \/ UNCHANGED schedulerVars
    BY <2>1 DEF StopSignalled, SettleNext, Settle, schedulerVars, activationVars, Created
  <2>2. CASE BootStart \/ BootHalted \/ ConsumeNext
    BY <2>2, SchedulerMoves DEF Created, Moves
  <2> QED
    BY <2>1, <2>2 DEF SchedulerNext
<1>4. Begun(S)'
  BY <1>2, <1>3 DEF Begun
<1>5. Completed \subseteq Created /\ Elements(done) \subseteq Completed
  BY DEF Completed, Created, FedInv, Elements
<1>6. ASSUME NEW j \in Created, node'[j] = J
      PROVE  /\ Len(parents'[j]) = Len(WaitFor[J])
             /\ \A p, q \in Elements(parents'[j]) : parents'[p] = parents'[q]
  <2>1. node[j] = J /\ parents'[j] = parents[j]
    BY <1>3, <1>6
  <2>2. /\ Len(parents[j]) = Len(WaitFor[J])
        /\ \A p, q \in Elements(parents[j]) : parents[p] = parents[q]
    BY <1>2, <2>1 DEF OneFork
  <2>3. \A p \in Elements(parents[j]) : p \in Created
    BY <1>2, <1>5, <2>1, <2>2 DEF LoopShape, Elements
  <2> QED
    BY <1>3, <2>1, <2>2, <2>3
<1>7. ASSUME NEW i \in Created, NEW j \in Created,
             node'[i] = node'[j], node'[i] \in Workers(J) \cup {S}, parents'[i] = parents'[j]
      PROVE  i = j
  BY <1>2, <1>3, <1>7 DEF OneEach
<1>8. CASE done' = done /\ Created' = Created /\ Completed' = Completed
  <2>1. Recorded'
    BY <1>2, <1>8 DEF Recorded
  <2>2. OneEach(S, J)'
    BY <1>7, <1>8 DEF OneEach, Workers
  <2>3. OneFork(J)'
    BY <1>6, <1>8 DEF OneFork
  <2> QED
    BY <1>4, <2>1, <2>2, <2>3 DEF LoopInv
<1>9. ASSUME done' = Append(done, winner), winner \in Ids,
             status[winner] = "running", Completed' = Completed \cup {winner},
             NEW taken,
             \A j \in Created' \ Created :
               Work(j)' \in ChildrenIn(Ready(Append(done, winner), winner, taken)),
             \A i, j \in Created' \ Created : i # j =>
               OfTwoEdges(Ready(Append(done, winner), winner, taken), Work(i)', Work(j)')
      PROVE  LoopInv(S, J)'
  <2>1. PICK d : d = Append(done, winner)
    OBVIOUS
  <2>2. d \in Seq(Ids) /\ Elements(d) = Elements(done) \cup {winner}
    BY <1>1, <1>9, <2>1, AppendElements
  <2>3. winner \in Created /\ winner \notin Completed
    BY <1>9 DEF Created, Completed
  <2>4. Recorded'
    BY <1>2, <1>9, <2>1, <2>2 DEF Recorded
  <2>5. PICK ready : ready = Ready(d, winner, taken)
    OBVIOUS
  <2>6. ASSUME NEW e \in DOMAIN ready
        PROVE  /\ e \in 1 .. Len(Edges) /\ Edges[e].from = node[winner]
               /\ ready[e] = <<Edges[e].to, ChildParents(d, winner, Edges[e].to)>>
               /\ ChildParents(d, winner, Edges[e].to) # << >>
    BY <2>5, <2>6, ReadyEdges
  <2>7. \A n \in Workers(J) \cup {S} : n \in Node /\ ~IsJoin(n)
    <3>1. WaitFor[J] \in Seq(Node)
      BY GraphAssumption
    <3>2. Workers(J) \subseteq Node
      BY <3>1 DEF Workers, Elements
    <3> QED
      BY <3>2 DEF ForkJoinLoop, Workers
  <2>8. ASSUME NEW j \in Created', j \notin Created
        PROVE  /\ node'[j] \in Workers(J) \cup {S} => parents'[j] = <<winner>>
               /\ node'[j] = J =>
                    /\ Len(parents'[j]) = Len(WaitFor[J])
                    /\ \A p, q \in Elements(parents'[j]) : parents'[p] = parents'[q]
    <3>1. PICK e \in DOMAIN ready : Work(j)' = ready[e]
      BY <1>9, <2>1, <2>5, <2>8 DEF ChildrenIn
    <3>2. node'[j] = Edges[e].to /\ parents'[j] = ChildParents(d, winner, Edges[e].to)
      BY <2>6, <3>1 DEF Work
    <3>3. CASE node'[j] \in Workers(J) \cup {S}
      <4>1. ~IsJoin(Edges[e].to) /\ node'[j] # J
        BY <2>7, <3>2, <3>3 DEF ForkJoinLoop, Workers
      <4> QED
        BY <3>2, <3>3, <4>1 DEF ChildParents
    <3>4. CASE node'[j] = J
      <4>1. node[winner] \in Workers(J) /\ IsJoin(J) /\ J \notin Workers(J) \cup {S}
        BY <2>6, <3>2, <3>4 DEF ForkJoinLoop, Workers
      <4>2. PICK ps : ps = JoinParents(d, winner, J)
        OBVIOUS
      <4>3. parents'[j] = ps /\ ps # << >>
        BY <2>6, <3>2, <3>4, <4>1, <4>2 DEF ChildParents
      <4>4. Completed \subseteq Elements(d) /\ Elements(d) \subseteq Created
        BY <1>2, <1>5, <2>2, <2>3 DEF Recorded
      <4>5. /\ Len(ps) = Len(WaitFor[J])
            /\ \A p \in Elements(ps) : p \in Elements(d) /\ parents[p] = parents[winner]
        BY <1>1, <1>2, <2>2, <2>3, <4>1, <4>2, <4>3, <4>4, JoinOfTheFork
      <4>6. \A p \in Elements(ps) : parents'[p] = parents[winner]
        BY <1>3, <4>4, <4>5
      <4> QED
        BY <3>4, <4>1, <4>3, <4>5, <4>6
    <3> QED
      BY <3>3, <3>4
  <2>9. ASSUME NEW i \in Created, NEW j \in Created', j \notin Created,
               node'[i] = node'[j], node'[i] \in Workers(J) \cup {S}, parents'[i] = parents'[j]
        PROVE  FALSE
    <3>1. parents[i] = <<winner>> /\ node[i] \in Workers(J) \cup {S}
      BY <1>3, <2>8, <2>9
    <3>2. parents[i] = << >> \/ \E b \in Completed : parents[i] = <<b>>
      BY <1>2, <3>1 DEF LoopShape
    <3>3. \A b : <<winner>> = <<b>> => winner = b
      OBVIOUS
    <3>4. <<winner>> # << >>
      OBVIOUS
    <3> QED
      BY <2>3, <3>1, <3>2, <3>3, <3>4
  <2>10. ASSUME NEW i \in Created', i \notin Created, NEW j \in Created', j \notin Created, i # j,
                node'[i] = node'[j], node'[i] \in Workers(J) \cup {S}
         PROVE  FALSE
    <3>1. OfTwoEdges(ready, Work(i)', Work(j)')
      BY <1>9, <2>1, <2>5, <2>10
    <3>2. PICK e, f \in DOMAIN ready : e # f /\ ready[e] = Work(i)' /\ ready[f] = Work(j)'
      BY <3>1 DEF OfTwoEdges
    <3>3. Edges[e].to = node'[i] /\ Edges[f].to = node'[j]
      BY <2>6, <3>2 DEF Work
    <3>4. e \in 1 .. Len(Edges) /\ f \in 1 .. Len(Edges)
      BY <2>6
    <3> QED
      BY <2>10, <3>2, <3>3, <3>4 DEF ForkJoinLoop, Workers
  <2>11. OneEach(S, J)'
    BY <1>7, <2>9, <2>10 DEF OneEach, Workers
  <2>12. OneFork(J)'
    BY <1>6, <2>8 DEF OneFork
  <2> QED
    BY <1>4, <2>4, <2>11, <2>12 DEF LoopInv
<1>10. CASE StopSignalled \/ SettleNext \/ UNCHANGED schedulerVars
  <2>1. done' = done /\ Created' = Created /\ Completed' = Completed
    BY <1>10 DEF StopSignalled, SettleNext, Settle, schedulerVars, activationVars, Created,
                 Completed
  <2> QED
    BY <1>8, <2>1
<1>11. CASE BootStart \/ BootHalted \/ ConsumeNext
  BY <1>8, <1>9, <1>11, WhatIsCreated
<1> QED
  BY <1>10, <1>11 DEF SchedulerNext

\* The start activation begins it.
LEMMA LoopInvInit ==
  ASSUME NEW S \in Node, NEW J \in Node, ForkJoinLoop(S, J), FreshFrom(S), SchedulerInit
  PROVE  LoopInv(S, J)
<1>1. Seeded = {} /\ StartIds = {FirstId} /\ FirstId \in Ids
  BY FreshIds
<1>2. node[FirstId] = S /\ parents[FirstId] = << >> /\ FirstId \in Created
  <2>1. status[FirstId] = "queued" /\ parents[FirstId] = StartParents
    BY <1>1, InitialActivations
  <2>2. node[FirstId] = StartNodes[FirstId - FirstId + 1]
    BY <1>1 DEF SchedulerInit
  <2>3. FirstId - FirstId + 1 = 1
    BY FirstIds
  <2> QED
    BY <1>1, <2>1, <2>2, <2>3 DEF FreshFrom, Created
<1>3. Created = {FirstId} /\ Completed = {}
  <2>1. \A i \in Ids : i # FirstId => status[i] = "none"
    BY <1>1, InitialActivations
  <2>2. status[FirstId] = "queued"
    BY <1>1, InitialActivations
  <2> QED
    BY <1>2, <2>1, <2>2 DEF Created, Completed
<1> QED
  BY <1>2, <1>3 DEF LoopInv, Begun, Recorded, OneEach, OneFork, ForkJoinLoop

\* A join in a loop combines the outputs of one iteration: when the flow forks to
\* the nodes the join waits for and only the join leads back (ForkJoinLoop), no two
\* of its inputs descend from different numbers of starts, however the iterations'
\* completions interleave.
THEOREM LoopsJoinOneIteration ==
  ASSUME NEW S \in Node, NEW J \in Node, ForkJoinLoop(S, J), FreshFrom(S)
  PROVE  SchedulerSpec => []JoinsOneIteration
<1>1. SchedulerInit => LoopInv(S, J)
  BY LoopInvInit
<1>2. SchedulerInv /\ FedInv /\ LoopInv(S, J) /\ [SchedulerNext]_schedulerVars => LoopInv(S, J)'
  BY LoopInvStep
<1>3. SchedulerInv /\ FedInv /\ LoopInv(S, J) => JoinsOneIteration
  <2> SUFFICES ASSUME SchedulerInv, FedInv, LoopInv(S, J),
                      NEW j \in Ids, status[j] # "none", IsJoin(node[j]),
                      NEW p \in Elements(parents[j]), NEW q \in Elements(parents[j])
               PROVE  Rounds(p) = Rounds(q)
    BY DEF JoinsOneIteration
  <2>1. Typed(node, parents) /\ IdsInv
    BY DEF SchedulerInv, TypeOK, Typed
  <2>2. j \in Created /\ node[j] = J
    BY <2>1 DEF IdsInv, Created, ForkJoinLoop
  <2>3. parents[p] = parents[q]
    BY <2>2 DEF LoopInv, OneFork
  <2>4. p \in Ids /\ q \in Ids
    <3>1. parents[j] \in Seq(Ids)
      BY <2>1 DEF Typed
    <3> QED
      BY <3>1 DEF Elements
  <2>5. ReachedFrom(done, p) /\ ReachedFrom(done, q)
    BY <2>1, <2>4, AncestorsAreReachable
  <2>6. Elements(Ancestors(done, p)) = Elements(Ancestors(done, q))
    BY <2>3, <2>5 DEF ReachedFrom
  <2> QED
    BY <2>6 DEF Rounds
<1> QED
  BY <1>1, <1>2, <1>3, SchedulerInvariant, FedInvariant, PTL DEF SchedulerSpec

=============================================================================
