-------------------------- MODULE AsyncJobs_proofs --------------------------
(***************************************************************************)
(* Proofs about the job manager and the spawn semaphore: any jobs, limits  *)
(* and settings, and any order of registering, cancelling and ending.      *)
(***************************************************************************)
EXTENDS AsyncJobs, Induction, FiniteSetTheorems, SequenceTheorems, TLAPS

-----------------------------------------------------------------------------
(* Lemmas about queues *)

Distinct(q) == \A i, k \in 1 .. Len(q) : q[i] = q[k] => i = k

\* What Without is computed from: the entries kept among the first n.
KeptUpTo(q, S, g, n) ==
  g = [i \in 0 .. n |-> IF i = 0 THEN << >>
                        ELSE IF q[i] \in S THEN g[i - 1] ELSE Append(g[i - 1], q[i])]

\* The recursion of Without defines a function: it does so up to every index.
LEMMA KeptExists ==
  ASSUME NEW q, NEW S, NEW m \in Nat
  PROVE  \E g : KeptUpTo(q, S, g, m)
<1> DEFINE Defined == {n \in Nat : \E g : KeptUpTo(q, S, g, n)}
<1>1. 0 \in Defined
  <2>1. KeptUpTo(q, S, [i \in 0 .. 0 |-> << >>], 0)
    BY DEF KeptUpTo
  <2> QED
    BY <2>1
<1>2. ASSUME NEW n \in Nat, n \in Defined
      PROVE  n + 1 \in Defined
  <2>1. PICK g : KeptUpTo(q, S, g, n)
    BY <1>2
  <2> DEFINE h == [i \in 0 .. n + 1 |->
                    IF i = n + 1
                    THEN IF q[n + 1] \in S THEN g[n] ELSE Append(g[n], q[n + 1])
                    ELSE g[i]]
  <2>2. ASSUME NEW i \in 0 .. n + 1
        PROVE  h[i] = IF i = 0 THEN << >>
                      ELSE IF q[i] \in S THEN h[i - 1] ELSE Append(h[i - 1], q[i])
    <3>1. CASE i = 0
      BY <2>1, <3>1 DEF KeptUpTo
    <3>2. CASE i \in 1 .. n
      <4>1. i \in 0 .. n /\ i - 1 \in 0 .. n + 1 /\ i # 0 /\ i # n + 1 /\ i - 1 # n + 1
        BY <3>2
      <4>2. h[i] = g[i] /\ h[i - 1] = g[i - 1]
        BY <4>1
      <4> QED
        BY <2>1, <4>1, <4>2 DEF KeptUpTo
    <3>3. CASE i = n + 1
      <4>1. h[i - 1] = g[n]
        BY <3>3
      <4> QED
        BY <3>3, <4>1
    <3> QED
      BY <3>1, <3>2, <3>3
  <2>3. KeptUpTo(q, S, h, n + 1)
    <3> HIDE DEF h
    <3>1. h = [i \in 0 .. n + 1 |-> h[i]]
      BY DEF h
    <3> QED
      BY <2>2, <3>1 DEF KeptUpTo
  <2> QED
    BY <2>3
<1>3. Nat \subseteq Defined
  BY <1>1, <1>2, NatSetInduction
<1> QED
  BY <1>3

\* What Without returns: a queue of the entries that stay, once each.
LEMMA WithoutProperties ==
  ASSUME NEW T, NEW q \in Seq(T), NEW S
  PROVE  /\ Without(q, S) \in Seq(T)
         /\ Elements(Without(q, S)) = Elements(q) \ S
         /\ Distinct(q) => Distinct(Without(q, S))
<1> DEFINE n == Len(q)
           kept[i \in 0 .. Len(q)] ==
             IF i = 0 THEN << >>
             ELSE IF q[i] \in S THEN kept[i - 1] ELSE Append(kept[i - 1], q[i])
           First(i) == {q[k] : k \in 1 .. i} \ S
           Good == {i \in Nat : i <= n =>
                      /\ kept[i] \in Seq(T)
                      /\ Elements(kept[i]) = First(i)
                      /\ Distinct(q) => Distinct(kept[i])}
<1>1. n \in Nat
  OBVIOUS
<1>2. KeptUpTo(q, S, kept, n)
  <2>1. \E g : KeptUpTo(q, S, g, n)
    BY <1>1, KeptExists
  <2> QED
    BY <2>1, Zenon DEF KeptUpTo
<1>3. Without(q, S) = kept[n]
  BY Zenon DEF Without
<1> HIDE DEF kept
<1>4. 0 \in Good
  <2>1. kept[0] = << >>
    BY <1>1, <1>2 DEF KeptUpTo
  <2>2. << >> \in Seq(T) /\ Len(<< >>) = 0
    BY EmptySeq
  <2>3. Elements(<< >>) = {} /\ First(0) = {} /\ Distinct(<< >>)
    BY <2>2 DEF Elements, Distinct
  <2> QED
    BY <2>1, <2>2, <2>3
<1>5. ASSUME NEW i \in Nat, i \in Good
      PROVE  i + 1 \in Good
  <2> SUFFICES ASSUME i + 1 <= n
               PROVE  /\ kept[i + 1] \in Seq(T)
                      /\ Elements(kept[i + 1]) = First(i + 1)
                      /\ Distinct(q) => Distinct(kept[i + 1])
    OBVIOUS
  <2>1. /\ kept[i] \in Seq(T)
        /\ Elements(kept[i]) = First(i)
        /\ Distinct(q) => Distinct(kept[i])
    BY <1>1, <1>5
  <2>2. kept[i + 1] = IF q[i + 1] \in S THEN kept[i] ELSE Append(kept[i], q[i + 1])
    <3>1. i + 1 \in 0 .. n /\ i + 1 # 0 /\ (i + 1) - 1 = i
      BY <1>1
    <3> QED
      BY <1>2, <3>1 DEF KeptUpTo
  <2>3. {q[k] : k \in 1 .. i + 1} = {q[k] : k \in 1 .. i} \cup {q[i + 1]}
    OBVIOUS
  <2>4. CASE q[i + 1] \in S
    BY <2>1, <2>2, <2>3, <2>4
  <2>5. CASE q[i + 1] \notin S
    <3> DEFINE l == Len(kept[i])
               more == Append(kept[i], q[i + 1])
    <3>1. q[i + 1] \in T
      BY <1>1
    <3>2. /\ more \in Seq(T) /\ Len(more) = l + 1 /\ l \in Nat
          /\ \A k \in 1 .. l : more[k] = kept[i][k]
          /\ more[l + 1] = q[i + 1]
      BY <2>1, <3>1, AppendProperties
    <3>3. Elements(more) = Elements(kept[i]) \cup {q[i + 1]}
      BY <3>2 DEF Elements
    <3>4. ASSUME Distinct(q)
          PROVE  Distinct(more)
      <4>1. \A k \in 1 .. l : more[k] # q[i + 1]
        <5> SUFFICES ASSUME NEW k \in 1 .. l, more[k] = q[i + 1] PROVE FALSE
          OBVIOUS
        <5>1. kept[i][k] \in Elements(kept[i])
          BY DEF Elements
        <5>2. PICK e \in 1 .. i : q[e] = q[i + 1]
          BY <2>1, <3>2, <5>1
        <5> QED
          BY <1>1, <3>4, <5>2 DEF Distinct
      <4>2. \A a, b \in 1 .. l : more[a] = more[b] => a = b
        BY <2>1, <3>2, <3>4 DEF Distinct
      <4> QED
        BY <3>2, <4>1, <4>2 DEF Distinct
    <3>5. First(i + 1) = First(i) \cup {q[i + 1]}
      BY <2>3, <2>5
    <3> QED
      BY <2>1, <2>2, <2>5, <3>2, <3>3, <3>4, <3>5
  <2> QED
    BY <2>4, <2>5
<1>6. Nat \subseteq Good
  <2> HIDE DEF Good
  <2> QED
    BY <1>4, <1>5, NatSetInduction
<1>7. n \in Good
  BY <1>1, <1>6
<1>8. First(n) = Elements(q) \ S
  BY DEF Elements
<1> QED
  BY <1>1, <1>3, <1>7, <1>8

\* The first n entries of a queue and the rest of it.
LEMMA PrefixAndRest ==
  ASSUME NEW T, NEW q \in Seq(T), Distinct(q), NEW n \in 0 .. Len(q)
  PROVE  LET first == Elements(SubSeq(q, 1, n))
             rest == SubSeq(q, n + 1, Len(q))
         IN /\ first \subseteq Elements(q) /\ IsFiniteSet(first) /\ Cardinality(first) = n
            /\ rest \in Seq(T) /\ Len(rest) = Len(q) - n /\ Distinct(rest)
            /\ Elements(rest) = Elements(q) \ first
<1> DEFINE first == Elements(SubSeq(q, 1, n))
           rest == SubSeq(q, n + 1, Len(q))
<1>1. Len(q) \in Nat /\ \A i \in 1 .. Len(q) : q[i] \in T
  OBVIOUS
<1>2. /\ Len(SubSeq(q, 1, n)) = n
      /\ \A i \in 1 .. n : SubSeq(q, 1, n)[i] = q[i]
  BY <1>1, SubSeqProperties
<1>3. /\ rest \in Seq(T) /\ Len(rest) = Len(q) - n
      /\ \A i \in 1 .. Len(q) - n : rest[i] = q[n + i]
  <2>1. \A i \in n + 1 .. Len(q) : q[i] \in T
    BY <1>1
  <2>2. /\ rest \in Seq(T)
        /\ Len(rest) = IF n + 1 <= Len(q) THEN Len(q) - (n + 1) + 1 ELSE 0
        /\ \A i \in 1 .. Len(q) - (n + 1) + 1 : rest[i] = q[(n + 1) + i - 1]
    BY <1>1, <2>1, SubSeqProperties
  <2> QED
    BY <1>1, <2>2
<1>4. first = {q[i] : i \in 1 .. n}
  BY <1>1, <1>2 DEF Elements
<1>5. Elements(rest) = {q[i] : i \in n + 1 .. Len(q)}
  <2>1. Elements(rest) = {q[n + i] : i \in 1 .. Len(q) - n}
    BY <1>1, <1>3 DEF Elements
  <2>2. \A i \in n + 1 .. Len(q) : i - n \in 1 .. Len(q) - n /\ q[i] = q[n + (i - n)]
    BY <1>1
  <2>3. \A i \in 1 .. Len(q) - n : n + i \in n + 1 .. Len(q)
    BY <1>1
  <2> QED
    BY <2>1, <2>2, <2>3
<1>6. IsFiniteSet(first) /\ Cardinality(first) = n
  <2> DEFINE f == [i \in 1 .. n |-> q[i]]
  <2>1. f \in Bijection(1 .. n, first)
    <3>1. f \in [1 .. n -> first] /\ \A x \in first : \E i \in 1 .. n : f[i] = x
      BY <1>4
    <3>2. \A i, k \in 1 .. n : f[i] = f[k] => i = k
      BY <1>1 DEF Distinct
    <3> QED
      BY <3>1, <3>2 DEF Bijection, Injection, Surjection, IsInjective
  <2>2. IsFiniteSet(1 .. n) /\ Cardinality(1 .. n) = n
    BY FS_Interval
  <2>3. ExistsBijection(1 .. n, first)
    BY <2>1 DEF ExistsBijection
  <2> HIDE DEF first
  <2> QED
    BY <2>2, <2>3, FS_Bijection
<1>7. first \subseteq Elements(q)
  BY <1>1, <1>4 DEF Elements
<1>8. Distinct(rest)
  BY <1>1, <1>3 DEF Distinct
<1>9. Elements(rest) = Elements(q) \ first
  <2>1. \A i \in 1 .. n, k \in n + 1 .. Len(q) : q[i] # q[k]
    BY <1>1 DEF Distinct
  <2>2. Elements(q) = {q[i] : i \in 1 .. n} \cup {q[i] : i \in n + 1 .. Len(q)}
    BY <1>1 DEF Elements
  <2> QED
    BY <1>4, <1>5, <2>1, <2>2
<1> QED
  BY <1>3, <1>6, <1>7, <1>8, <1>9

-----------------------------------------------------------------------------
(* The inductive invariant *)

\* A spawn queues at most once, only spawns queue, and a job that is not
\* registered has no run function under way.
QueueInv ==
  /\ Distinct(waiters)
  /\ \A b \in Bash : phase[b] \notin {"waiting", "granted"}
  /\ \A j \in Job : status[j] = "none" => phase[j] = "none"

ManagerInv == ManagerTypeOK /\ QueueInv /\ PermitsAccounted

\* The phases of the jobs are typed, only spawns hold or await permits, and a
\* run function starts with a step of its own job.
PhasesKept ==
  /\ phase' \in [Job -> Phases]
  /\ \A b \in Bash : phase'[b] = phase[b]

\* Besides the spawn s, only spawns that wait change their phase: they are admitted.
OthersKept(s) ==
  \A j \in Job \ {s} : \/ phase'[j] = phase[j]
                       \/ phase[j] = "waiting" /\ phase'[j] = "granted"

\* What a step keeps of the semaphore.
PermitsKept ==
  /\ max' \in Limits /\ current' \in 0 .. Cardinality(Job)
  /\ waiters' \in Seq(Spawn) /\ Distinct(waiters)'
  /\ PermitsAccounted' /\ LimitRespected

-----------------------------------------------------------------------------
(* Lemmas about permits *)

\* There are finitely many holders, and no more than jobs.
LEMMA HoldersFinite ==
  ASSUME phase \in [Job -> Phases]
  PROVE  /\ IsFiniteSet(Holders) /\ Cardinality(Holders) \in Nat
         /\ Cardinality(Holders) <= Cardinality(Job) /\ Cardinality(Job) \in Nat
<1>1. Holders \in SUBSET Job /\ IsFiniteSet(Job)
  BY JobAssumption DEF Holders, Job
<1> QED
  BY <1>1, FS_Subset, FS_CardinalityType

\* A limit admits a natural number of spawns.
LEMMA CeilingType ==
  ASSUME NEW l \in Limits
  PROVE  Ceiling(l) \in Nat
<1>1. Cardinality(Job) \in Nat /\ l \in Nat
  BY JobAssumption, FS_CardinalityType
<1> QED
  BY <1>1 DEF Ceiling

\* What becomes of the holders when the first n waiters are admitted, after
\* the spawn s has moved to a phase in which it holds no permit.
LEMMA Admission ==
  ASSUME ManagerInv, NEW n \in 0 .. Len(waiters), NEW s \in Spawn,
         phase[s] \in {"granted", "executing"},
         phase' = Grant([phase EXCEPT ![s] = "ended"], n),
         waiters' = SubSeq(waiters, n + 1, Len(waiters))
  PROVE  /\ PhasesKept /\ OthersKept(s) /\ phase'[s] = "ended"
         /\ waiters' \in Seq(Spawn) /\ Distinct(waiters)' /\ Len(waiters') = Len(waiters) - n
         /\ Elements(waiters') = {r \in Spawn : phase'[r] = "waiting"}
         /\ Cardinality(Holders') = Cardinality(Holders) - 1 + n
         /\ Cardinality(Holders') \in Nat /\ Cardinality(Holders') <= Cardinality(Job)
         /\ n = 0 => Holders' \subseteq Holders
<1> DEFINE first == Elements(SubSeq(waiters, 1, n))
<1>1. /\ phase \in [Job -> Phases] /\ waiters \in Seq(Spawn) /\ s \in Job
      /\ Bash \cap Spawn = {} /\ Bash \subseteq Job /\ Spawn \subseteq Job
  BY JobAssumption DEF ManagerInv, ManagerTypeOK, Job
<1>2. Elements(waiters) = {r \in Spawn : phase[r] = "waiting"} /\ Distinct(waiters)
  BY DEF ManagerInv, PermitsAccounted, QueueInv
<1>3. /\ first \subseteq Elements(waiters) /\ IsFiniteSet(first) /\ Cardinality(first) = n
      /\ waiters' \in Seq(Spawn) /\ Len(waiters') = Len(waiters) - n /\ Distinct(waiters')
      /\ Elements(waiters') = Elements(waiters) \ first
  BY <1>1, <1>2, PrefixAndRest
<1> HIDE DEF first
<1>4. phase' = [j \in Job |-> IF j \in first THEN "granted"
                              ELSE IF j = s THEN "ended" ELSE phase[j]]
  BY <1>1 DEF Grant, first
<1>5. first \subseteq Spawn /\ s \notin first /\ \A r \in first : phase[r] = "waiting"
  BY <1>2, <1>3
<1>6. PhasesKept
  BY <1>1, <1>4, <1>5 DEF PhasesKept, Phases
<1>7. OthersKept(s) /\ phase'[s] = "ended"
  BY <1>1, <1>4, <1>5 DEF OthersKept
<1>8. Elements(waiters') = {r \in Spawn : phase'[r] = "waiting"}
  BY <1>1, <1>2, <1>3, <1>4
<1>9. Holders' = (Holders \ {s}) \cup first
  BY <1>1, <1>4, <1>5 DEF Holders
<1>10. Cardinality(Holders') = Cardinality(Holders) - 1 + n
  <2>1. IsFiniteSet(Holders) /\ Cardinality(Holders) \in Nat /\ s \in Holders
    BY <1>1, HoldersFinite DEF Holders
  <2>2. IsFiniteSet(Holders \ {s}) /\ Cardinality(Holders \ {s}) = Cardinality(Holders) - 1
    BY <2>1, FS_RemoveElement
  <2>3. (Holders \ {s}) \cap first = {}
    BY <1>5 DEF Holders
  <2>4. Cardinality(Holders') = Cardinality(Holders \ {s}) + Cardinality(first) - Cardinality({})
    BY <1>3, <1>9, <2>2, <2>3, FS_Union
  <2> QED
    BY <1>3, <2>1, <2>2, <2>4, FS_EmptySet
<1>11. Cardinality(Holders') \in Nat /\ Cardinality(Holders') <= Cardinality(Job)
  <2>1. Holders' \in SUBSET Job /\ IsFiniteSet(Job)
    BY <1>1, JobAssumption DEF Holders
  <2> QED
    BY <2>1, FS_Subset, FS_CardinalityType
<1>12. n = 0 => Holders' \subseteq Holders
  <2>1. n = 0 => first = {}
    BY <1>3, FS_EmptySet
  <2> QED
    BY <1>9, <2>1
<1>13. Distinct(waiters)'
  BY <1>3 DEF Distinct
<1> QED
  BY <1>3, <1>6, <1>7, <1>8, <1>10, <1>11, <1>12, <1>13

\* A release returns one permit and admits as many waiters as the setting then
\* leaves room for.
LEMMA ReleaseKeepsPermits ==
  ASSUME ManagerInv, NEW s \in Spawn, phase[s] \in {"granted", "executing"},
         Release([phase EXCEPT ![s] = "ended"])
  PROVE  PhasesKept /\ PermitsKept /\ OthersKept(s) /\ phase'[s] = "ended"
<1> DEFINE c == Ceiling(limit)
           resized == Fitting(limit)
           left == current + resized - 1
           next == IF left < Ceiling(limit) /\ resized < Len(waiters) THEN 1 ELSE 0
<1>1. /\ limit \in Limits /\ waiters \in Seq(Spawn) /\ Len(waiters) \in Nat
      /\ current = Cardinality(Holders) /\ phase \in [Job -> Phases] /\ s \in Job
  BY DEF ManagerInv, ManagerTypeOK, PermitsAccounted, Job
<1>2. c \in Nat /\ current \in Nat
  BY <1>1, CeilingType, HoldersFinite
<1>3. current >= 1
  <2>1. s \in Holders /\ IsFiniteSet(Holders)
    BY <1>1, HoldersFinite DEF Holders
  <2> QED
    BY <1>1, <1>2, <2>1, FS_EmptySet
<1>4. /\ resized \in Nat /\ resized <= Len(waiters)
      /\ resized = 0 \/ current + resized <= c
      /\ resized < Len(waiters) => current + resized >= c
  BY <1>1, <1>2 DEF Fitting, Least
<1> DEFINE n == resized + next
<1>5. n \in 0 .. Len(waiters) /\ left + next = current - 1 + n
  BY <1>1, <1>2, <1>4
<1>6. /\ max' = limit /\ current' = left + next
      /\ phase' = Grant([phase EXCEPT ![s] = "ended"], n)
      /\ waiters' = SubSeq(waiters, n + 1, Len(waiters))
  BY DEF Release
<1>7. n < Len(waiters) => left + next >= c
  BY <1>1, <1>2, <1>3, <1>4
<1>8. n # 0 => left + next <= c
  BY <1>1, <1>2, <1>3, <1>4
<1> HIDE DEF n, left, next, resized
<1>9. /\ PhasesKept /\ OthersKept(s) /\ phase'[s] = "ended"
      /\ waiters' \in Seq(Spawn) /\ Distinct(waiters)' /\ Len(waiters') = Len(waiters) - n
      /\ Elements(waiters') = {r \in Spawn : phase'[r] = "waiting"}
      /\ Cardinality(Holders') = Cardinality(Holders) - 1 + n
      /\ Cardinality(Holders') \in Nat /\ Cardinality(Holders') <= Cardinality(Job)
      /\ n = 0 => Holders' \subseteq Holders
  BY <1>5, <1>6, Admission
<1>10. current' = Cardinality(Holders')
  BY <1>1, <1>5, <1>6, <1>9
<1>11. waiters' # << >> => current' >= c
  <2>1. waiters' # << >> => Len(waiters') # 0
    BY <1>9
  <2> QED
    BY <1>1, <1>5, <1>6, <1>7, <1>9, <2>1
<1>12. Ceiling(max)' = c
  BY <1>6 DEF Ceiling
<1>13. PermitsAccounted'
  BY <1>9, <1>10, <1>11, <1>12 DEF PermitsAccounted
<1>14. LimitRespected
  BY <1>6, <1>8, <1>9, <1>10 DEF LimitRespected
<1>15. current' \in 0 .. Cardinality(Job) /\ max' \in Limits
  BY <1>1, <1>6, <1>9, <1>10, HoldersFinite
<1> QED
  BY <1>9, <1>13, <1>14, <1>15 DEF PermitsKept

\* A spawn that registers gets a permit after all that waited, or waits last.
LEMMA StartKeepsPermits ==
  ASSUME ManagerInv, NEW s \in Spawn, StartSpawn(s)
  PROVE  PhasesKept /\ PermitsKept /\ OthersKept(s)
<1> DEFINE c == Ceiling(limit)
           n == Fitting(limit)
           room == current + n < c
           first == Elements(SubSeq(waiters, 1, n))
           rest == SubSeq(waiters, n + 1, Len(waiters))
<1>1. /\ limit \in Limits /\ waiters \in Seq(Spawn) /\ Len(waiters) \in Nat
      /\ current = Cardinality(Holders) /\ phase \in [Job -> Phases]
      /\ s \in Job /\ Bash \subseteq Job /\ Spawn \subseteq Job /\ Bash \cap Spawn = {}
  BY JobAssumption DEF ManagerInv, ManagerTypeOK, PermitsAccounted, Job
<1>2. c \in Nat /\ current \in Nat
  BY <1>1, CeilingType, HoldersFinite
<1>3. /\ n \in 0 .. Len(waiters)
      /\ n = 0 \/ current + n <= c
      /\ n < Len(waiters) => current + n >= c
  BY <1>1, <1>2 DEF Fitting, Least
<1>4. phase[s] = "none"
  BY <1>1 DEF ManagerInv, QueueInv, StartSpawn, MayRegister
<1>5. Elements(waiters) = {r \in Spawn : phase[r] = "waiting"} /\ Distinct(waiters)
  BY DEF ManagerInv, PermitsAccounted, QueueInv
<1>6. /\ first \subseteq Elements(waiters) /\ IsFiniteSet(first) /\ Cardinality(first) = n
      /\ rest \in Seq(Spawn) /\ Len(rest) = Len(waiters) - n /\ Distinct(rest)
      /\ Elements(rest) = Elements(waiters) \ first
  BY <1>1, <1>3, <1>5, PrefixAndRest
<1>7. /\ max' = limit
      /\ current' = current + n + (IF room THEN 1 ELSE 0)
      /\ waiters' = IF room THEN rest ELSE Append(rest, s)
      /\ phase' = [Grant(phase, n) EXCEPT ![s] = IF room THEN "granted" ELSE "waiting"]
  BY DEF StartSpawn
<1>8. Grant(phase, n) = [j \in Job |-> IF j \in first THEN "granted" ELSE phase[j]]
  BY DEF Grant
<1> HIDE DEF first, rest, n
<1>9. phase' = [j \in Job |-> IF j = s THEN IF room THEN "granted" ELSE "waiting"
                              ELSE IF j \in first THEN "granted" ELSE phase[j]]
  BY <1>1, <1>7, <1>8
<1>10. first \subseteq Spawn /\ s \notin first /\ \A r \in first : phase[r] = "waiting"
  BY <1>4, <1>5, <1>6
<1>11. PhasesKept
  BY <1>1, <1>9, <1>10 DEF PhasesKept, Phases
<1>12. OthersKept(s)
  BY <1>9, <1>10 DEF OthersKept
<1>13. IsFiniteSet(Holders) /\ s \notin Holders /\ Holders \cap first = {}
  BY <1>1, <1>4, <1>10, HoldersFinite DEF Holders
<1> DEFINE more == Holders \cup first
<1>14. IsFiniteSet(more) /\ Cardinality(more) = current + n /\ s \notin more
  <2>1. IsFiniteSet(more)
        /\ Cardinality(more) = Cardinality(Holders) + Cardinality(first) - Cardinality({})
    BY <1>6, <1>13, FS_Union
  <2> QED
    BY <1>1, <1>2, <1>3, <1>6, <1>10, <1>13, <2>1, FS_EmptySet
<1>15. Holders' = IF room THEN more \cup {s} ELSE more
  <2>1. CASE room
    <3>1. \A r \in Spawn : phase'[r] \in {"granted", "executing"} <=> r \in more \cup {s}
      BY <1>1, <1>9, <1>10, <2>1 DEF Holders
    <3> QED
      BY <1>10, <2>1, <3>1 DEF Holders
  <2>2. CASE ~room
    <3>1. \A r \in Spawn : phase'[r] \in {"granted", "executing"} <=> r \in more
      BY <1>1, <1>4, <1>9, <1>10, <2>2 DEF Holders
    <3> QED
      BY <1>10, <2>2, <3>1 DEF Holders
  <2> QED
    BY <2>1, <2>2
<1> HIDE DEF more
<1>16. current' = Cardinality(Holders')
  <2>1. Cardinality(more \cup {s}) = current + n + 1
    BY <1>14, FS_AddElement
  <2>2. CASE room
    BY <1>7, <1>15, <2>1, <2>2
  <2>3. CASE ~room
    BY <1>1, <1>2, <1>3, <1>7, <1>14, <1>15, <2>3
  <2> QED
    BY <2>2, <2>3
<1>17. current' \in 0 .. Cardinality(Job) /\ max' \in Limits
  <2>1. Holders' \in SUBSET Job /\ IsFiniteSet(Job)
    BY <1>1, JobAssumption DEF Holders
  <2> QED
    BY <1>1, <1>7, <1>16, <2>1, FS_Subset, FS_CardinalityType
<1>18. /\ waiters' \in Seq(Spawn) /\ Distinct(waiters')
       /\ Elements(waiters') = {r \in Spawn : phase'[r] = "waiting"}
       /\ waiters' # << >> => current' >= c
  <2>1. CASE room
    <3>1. n = Len(waiters)
      BY <1>1, <1>2, <1>3, <2>1
    <3>2. Len(rest) = 0 /\ rest = << >>
      BY <1>1, <1>6, <3>1
    <3>3. Elements(rest) = {}
      BY <3>2 DEF Elements
    <3>4. waiters' = rest
      BY <1>7, <2>1
    <3>5. \A r \in Spawn : phase'[r] # "waiting"
      BY <1>1, <1>5, <1>6, <1>9, <2>1, <3>3
    <3> QED
      BY <1>6, <3>2, <3>3, <3>4, <3>5
  <2>2. CASE ~room
    <3> DEFINE l == Len(rest)
    <3>1. /\ waiters' \in Seq(Spawn) /\ Len(waiters') = l + 1 /\ l \in Nat
          /\ \A k \in 1 .. l : waiters'[k] = rest[k]
          /\ waiters'[l + 1] = s
      BY <1>6, <1>7, <2>2, AppendProperties
    <3>2. \A k \in 1 .. l : rest[k] \in Elements(rest)
      BY DEF Elements
    <3>3. s \notin Elements(rest)
      BY <1>4, <1>5, <1>6
    <3>4. Distinct(waiters')
      BY <1>6, <3>1, <3>2, <3>3 DEF Distinct
    <3>5. Elements(waiters') = Elements(rest) \cup {s}
      BY <3>1 DEF Elements
    <3>6. current' >= c
      BY <1>2, <1>3, <1>7, <2>2
    <3>7. Elements(waiters') = {r \in Spawn : phase'[r] = "waiting"}
      BY <1>1, <1>4, <1>5, <1>6, <1>9, <2>2, <3>5
    <3> QED
      BY <3>1, <3>4, <3>6, <3>7
  <2> QED
    BY <2>1, <2>2
<1>19. Distinct(waiters)'
  BY <1>18 DEF Distinct
<1>20. Ceiling(max)' = c
  BY <1>7 DEF Ceiling
<1>21. PermitsAccounted'
  BY <1>16, <1>18, <1>20 DEF PermitsAccounted
<1>22. LimitRespected
  <2>1. n = 0 /\ ~room => Holders' = Holders
    <3>1. n = 0 => first = {}
      BY <1>6, FS_EmptySet
    <3> QED
      BY <1>15, <3>1 DEF more
  <2>2. ~(n = 0 /\ ~room) => current' <= c
    BY <1>2, <1>3, <1>7
  <2> QED
    BY <1>16, <2>1, <2>2 DEF LimitRespected
<1> QED
  BY <1>11, <1>12, <1>17, <1>18, <1>19, <1>21, <1>22 DEF PermitsKept

\* A step that moves no spawn into or out of the queue or a permit.
LEMMA QuietKeepsPermits ==
  ASSUME ManagerInv, UNCHANGED <<max, current, waiters>>,
         \A s \in Spawn : /\ phase'[s] = "waiting" <=> phase[s] = "waiting"
                          /\ phase'[s] \in {"granted", "executing"}
                               <=> phase[s] \in {"granted", "executing"}
  PROVE  PermitsKept
<1>1. Holders' = Holders
  BY DEF Holders
<1>2. Ceiling(max)' = Ceiling(max)
  BY DEF Ceiling
<1>3. PermitsAccounted'
  BY <1>1, <1>2 DEF ManagerInv, PermitsAccounted
<1>4. LimitRespected
  BY <1>1 DEF LimitRespected
<1>5. /\ max' \in Limits /\ current' \in 0 .. Cardinality(Job)
      /\ waiters' \in Seq(Spawn) /\ Distinct(waiters)'
  BY DEF ManagerInv, ManagerTypeOK, QueueInv, Distinct
<1> QED
  BY <1>3, <1>4, <1>5 DEF PermitsKept

\* Cancelled waiters leave the queue, and no permit moves.
LEMMA CancelKeepsPermits ==
  ASSUME ManagerInv, NEW S \in SUBSET Job, Cancelled(S)
  PROVE  /\ PhasesKept /\ PermitsKept
         /\ \A j \in Job : phase[j] = "none" => phase'[j] = "none"
<1>1. /\ phase \in [Job -> Phases] /\ waiters \in Seq(Spawn)
      /\ Bash \subseteq Job /\ Spawn \subseteq Job
      /\ max \in Limits /\ current \in 0 .. Cardinality(Job)
  BY DEF ManagerInv, ManagerTypeOK, Job
<1>2. /\ phase' = [j \in Job |-> IF j \in S /\ phase[j] = "waiting" THEN "ended"
                                 ELSE phase[j]]
      /\ waiters' = Without(waiters, S)
      /\ max' = max /\ current' = current
  BY DEF Cancelled
<1>3. /\ Elements(waiters) = {s \in Spawn : phase[s] = "waiting"} /\ Distinct(waiters)
      /\ current = Cardinality(Holders)
      /\ waiters # << >> => current >= Ceiling(max)
      /\ \A b \in Bash : phase[b] # "waiting"
  BY DEF ManagerInv, PermitsAccounted, QueueInv
<1>4. /\ waiters' \in Seq(Spawn) /\ Distinct(waiters')
      /\ Elements(waiters') = Elements(waiters) \ S
  BY <1>1, <1>2, <1>3, WithoutProperties
<1>5. PhasesKept /\ \A j \in Job : phase[j] = "none" => phase'[j] = "none"
  BY <1>1, <1>2, <1>3 DEF PhasesKept, Phases
<1>6. Holders' = Holders
  BY <1>1, <1>2 DEF Holders
<1>7. Elements(waiters') = {s \in Spawn : phase'[s] = "waiting"}
  BY <1>1, <1>2, <1>3, <1>4
<1>8. waiters' # << >> => waiters # << >>
  <2> SUFFICES ASSUME waiters' # << >> PROVE Elements(waiters') # {} /\ waiters # << >>
    OBVIOUS
  <2>1. waiters'[1] \in Elements(waiters')
    BY <1>4 DEF Elements
  <2> QED
    BY <1>4, <2>1 DEF Elements
<1>9. Ceiling(max)' = Ceiling(max)
  BY <1>2 DEF Ceiling
<1>10. PermitsAccounted' /\ LimitRespected
  BY <1>2, <1>3, <1>6, <1>7, <1>8, <1>9 DEF PermitsAccounted, LimitRespected
<1>11. Distinct(waiters)'
  BY <1>4 DEF Distinct
<1> QED
  BY <1>1, <1>2, <1>4, <1>5, <1>10, <1>11 DEF PermitsKept

-----------------------------------------------------------------------------
(* Every step of the manager *)

\* The part of the type invariant that is not about the semaphore.
JobsTyped ==
  /\ status \in [Job -> {"none", "running", "completed", "failed", "cancelled"}]
  /\ phase \in [Job -> Phases]
  /\ known \subseteq Job /\ suppressed \subseteq Job /\ watched \subseteq Job
  /\ deliveries \subseteq Job /\ inFlight \subseteq Job
  /\ tracked \in [Poll -> SUBSET Job] /\ watching \in [Poll -> SUBSET Job]
  /\ foreground \subseteq Bash /\ limit \in Limits
  /\ failures \in 0 .. MaxFailures /\ seen \in [Job -> Learnt]

JobsKept ==
  /\ JobsTyped'
  /\ \A b \in Bash : phase'[b] \notin {"waiting", "granted"}
  /\ \A j \in Job : status'[j] = "none" => phase'[j] = "none"

\* The two parts together make the invariant.
LEMMA PartsMakeInv ==
  ASSUME JobsKept, PermitsKept
  PROVE  ManagerInv' /\ LimitRespected
<1>1. ManagerTypeOK'
  BY DEF JobsKept, PermitsKept, JobsTyped, ManagerTypeOK
<1>2. QueueInv'
  BY DEF JobsKept, PermitsKept, QueueInv
<1> QED
  BY <1>1, <1>2 DEF PermitsKept, ManagerInv

\* What a step of the runs keeps: the setting, starts, ends and cancellations.
LEMMA RunStepKeeps ==
  ASSUME ManagerInv, RunStep
  PROVE  JobsKept /\ PermitsKept
<1>1. /\ JobsTyped
      /\ \A b \in Bash : phase[b] \notin {"waiting", "granted"}
      /\ \A j \in Job : status[j] = "none" => phase[j] = "none"
  BY DEF ManagerInv, ManagerTypeOK, QueueInv, JobsTyped
<1>2. Bash \subseteq Job /\ Spawn \subseteq Job /\ Bash \cap Spawn = {}
  BY JobAssumption DEF Job
<1> USE DEF jobVars, deliveryVars, toolVars, permitVars
<1>3. ASSUME NEW l \in Limits, ChangeLimit(l)
      PROVE  JobsKept /\ PermitsKept
  <2>1. PermitsKept
    BY <1>3, QuietKeepsPermits DEF ChangeLimit
  <2>2. JobsKept
    BY <1>1, <1>3 DEF ChangeLimit, JobsKept, JobsTyped
  <2> QED
    BY <2>1, <2>2
<1>4. ASSUME NEW b \in Bash, StartBackground(b)
      PROVE  JobsKept /\ PermitsKept
  <2>1. phase' = [phase EXCEPT ![b] = "executing"] /\ b \in Job
    BY <1>2, <1>4 DEF StartBackground
  <2>2. PermitsKept
    BY <1>1, <1>2, <1>4, <2>1, QuietKeepsPermits DEF StartBackground, JobsTyped
  <2>3. JobsKept
    BY <1>1, <1>2, <1>4, <2>1 DEF StartBackground, Enrolled, JobsKept, JobsTyped, Phases
  <2> QED
    BY <2>2, <2>3
<1>5. ASSUME NEW b \in Bash, StartForeground(b)
      PROVE  JobsKept /\ PermitsKept
  <2>1. phase' = [phase EXCEPT ![b] = "executing"] /\ b \in Job
    BY <1>2, <1>5 DEF StartForeground
  <2>2. PermitsKept
    BY <1>1, <1>2, <1>5, <2>1, QuietKeepsPermits DEF StartForeground, JobsTyped
  <2>3. JobsKept
    BY <1>1, <1>2, <1>5, <2>1 DEF StartForeground, Enrolled, JobsKept, JobsTyped, Phases
  <2> QED
    BY <2>2, <2>3
<1>6. ASSUME NEW b \in Bash, CommandEnds(b)
      PROVE  JobsKept /\ PermitsKept
  <2>1. phase' = [phase EXCEPT ![b] = "output"] /\ b \in Job /\ phase[b] = "executing"
    BY <1>2, <1>6 DEF CommandEnds
  <2>2. PermitsKept
    BY <1>1, <1>2, <1>6, <2>1, QuietKeepsPermits DEF CommandEnds, JobsTyped
  <2>3. JobsKept
    BY <1>1, <1>2, <1>6, <2>1 DEF CommandEnds, JobsKept, JobsTyped, Phases
  <2> QED
    BY <2>2, <2>3
<1>7. ASSUME NEW b \in Bash, NEW e \in Ends, BashSettles(b, e)
      PROVE  JobsKept /\ PermitsKept
  <2>1. phase' = [phase EXCEPT ![b] = "ended"] /\ b \in Job /\ phase[b] = "output"
    BY <1>2, <1>7 DEF BashSettles
  <2>2. PermitsKept
    BY <1>1, <1>2, <1>7, <2>1, QuietKeepsPermits DEF BashSettles, JobsTyped
  <2>3. JobsKept
    BY <1>1, <1>2, <1>7, <2>1 DEF BashSettles, Settled, Ends, JobsKept, JobsTyped, Phases
  <2> QED
    BY <2>2, <2>3
<1>8. ASSUME NEW s \in Spawn, StartSpawn(s)
      PROVE  JobsKept /\ PermitsKept
  <2>1. PhasesKept /\ PermitsKept /\ OthersKept(s)
    BY <1>8, StartKeepsPermits
  <2>2. status' = [status EXCEPT ![s] = "running"] /\ known' = known \cup {s}
    BY <1>8 DEF StartSpawn, Enrolled
  <2>3. JobsKept
    BY <1>1, <1>2, <1>8, <2>1, <2>2 DEF StartSpawn, PhasesKept, OthersKept, JobsKept, JobsTyped
  <2> QED
    BY <2>1, <2>3
<1>9. ASSUME NEW s \in Spawn, ResumeSpawn(s)
      PROVE  JobsKept /\ PermitsKept
  <2>1. CASE status[s] = "running"
    <3>1. phase' = [phase EXCEPT ![s] = "executing"] /\ s \in Job /\ phase[s] = "granted"
      BY <1>2, <1>9, <2>1 DEF ResumeSpawn
    <3>2. PermitsKept
      BY <1>1, <1>2, <1>9, <2>1, <3>1, QuietKeepsPermits DEF ResumeSpawn, JobsTyped
    <3>3. JobsKept
      BY <1>1, <1>2, <1>9, <2>1, <3>1 DEF ResumeSpawn, JobsKept, JobsTyped, Phases
    <3> QED
      BY <3>2, <3>3
  <2>2. CASE status[s] # "running"
    <3>1. PhasesKept /\ PermitsKept /\ OthersKept(s) /\ phase[s] = "granted"
      BY <1>9, <2>2, ReleaseKeepsPermits DEF ResumeSpawn
    <3>2. JobsKept
      BY <1>1, <1>2, <1>9, <3>1
         DEF ResumeSpawn, PhasesKept, OthersKept, JobsKept, JobsTyped
    <3> QED
      BY <3>1, <3>2
  <2> QED
    BY <2>1, <2>2
<1>10. ASSUME NEW s \in Spawn, NEW e \in Ends, SpawnSettles(s, e)
       PROVE  JobsKept /\ PermitsKept
  <2>1. PhasesKept /\ PermitsKept /\ OthersKept(s) /\ phase[s] = "executing"
    BY <1>10, ReleaseKeepsPermits DEF SpawnSettles
  <2>2. JobsKept
    BY <1>1, <1>2, <1>10, <2>1
       DEF SpawnSettles, Settled, Ends, PhasesKept, OthersKept, JobsKept, JobsTyped
  <2> QED
    BY <2>1, <2>2
<1>11. CASE CancelAll
  <2>1. Running \in SUBSET Job
    BY <1>1 DEF Running, JobsTyped
  <2>2. /\ PhasesKept /\ PermitsKept
        /\ \A j \in Job : phase[j] = "none" => phase'[j] = "none"
    BY <1>11, <2>1, CancelKeepsPermits DEF CancelAll
  <2>3. JobsKept
    BY <1>1, <1>11, <2>2 DEF CancelAll, Cancelled, PhasesKept, JobsKept, JobsTyped
  <2> QED
    BY <2>2, <2>3
<1>12. ASSUME NEW j \in Job, Evict(j)
       PROVE  JobsKept /\ PermitsKept
  <2>1. PermitsKept
    BY <1>12, QuietKeepsPermits DEF Evict
  <2>2. JobsKept
    BY <1>1, <1>12 DEF Evict, JobsKept, JobsTyped
  <2> QED
    BY <2>1, <2>2
<1> QED
  BY <1>3, <1>4, <1>5, <1>6, <1>7, <1>8, <1>9, <1>10, <1>11, <1>12 DEF RunStep

\* What a step of the tools keeps: polls, cancellations, foreground waits.
LEMMA ToolStepKeeps ==
  ASSUME ManagerInv, ToolStep
  PROVE  JobsKept /\ PermitsKept
<1>1. /\ JobsTyped
      /\ \A b \in Bash : phase[b] \notin {"waiting", "granted"}
      /\ \A j \in Job : status[j] = "none" => phase[j] = "none"
  BY DEF ManagerInv, ManagerTypeOK, QueueInv, JobsTyped
<1>2. Bash \subseteq Job /\ Running \subseteq Job
  BY <1>1 DEF Job, Running, JobsTyped
<1> USE DEF jobVars, deliveryVars, toolVars, permitVars
<1>3. \A S : Reported(S) => seen' \in [Job -> Learnt]
  BY <1>1 DEF Reported, JobsTyped, Learnt
<1>4. ASSUME NEW S \in SUBSET Job, NEW W \in SUBSET Job, Report(S, W)
      PROVE  /\ seen' \in [Job -> Learnt] /\ watched' \subseteq Job
             /\ suppressed' \subseteq Job /\ deliveries' \subseteq Job
             /\ inFlight' = inFlight /\ failures' = failures
  BY <1>1, <1>3, <1>4 DEF Report, JobsTyped
<1>5. ASSUME NEW S \in SUBSET Job, ReportNow(S)
      PROVE  JobsKept /\ PermitsKept
  <2>1. PermitsKept
    BY <1>5, QuietKeepsPermits DEF ReportNow
  <2>2. watched \in SUBSET Job
    BY <1>1 DEF JobsTyped
  <2>3. Report(S, watched)
    BY <1>5 DEF ReportNow
  <2>4. JobsKept
    BY <1>1, <1>4, <1>5, <2>2, <2>3 DEF ReportNow, JobsKept, JobsTyped
  <2> QED
    BY <2>1, <2>4
<1>6. ASSUME NEW p \in Poll, NEW S \in SUBSET Job, StartPoll(p, S)
      PROVE  JobsKept /\ PermitsKept
  <2>1. PermitsKept
    BY <1>6, QuietKeepsPermits DEF StartPoll
  <2>2. S \cap Running \in SUBSET Job
    BY <1>2
  <2>3. JobsKept
    BY <1>1, <1>6, <2>2 DEF StartPoll, JobsKept, JobsTyped
  <2> QED
    BY <2>1, <2>3
<1>7. ASSUME NEW p \in Poll, EndPoll(p)
      PROVE  JobsKept /\ PermitsKept
  <2>1. PermitsKept
    BY <1>7, QuietKeepsPermits DEF EndPoll
  <2>2. tracked[p] \in SUBSET Job /\ watched \ watching[p] \in SUBSET Job
    BY <1>1 DEF JobsTyped
  <2>3. Report(tracked[p], watched \ watching[p])
    BY <1>7 DEF EndPoll
  <2>4. JobsKept
    BY <1>1, <1>4, <1>7, <2>2, <2>3 DEF EndPoll, JobsKept, JobsTyped
  <2> QED
    BY <2>1, <2>4
<1>8. ASSUME NEW j \in Job, CancelByTool(j)
      PROVE  JobsKept /\ PermitsKept
  <2>1. /\ PhasesKept /\ PermitsKept
        /\ \A i \in Job : phase[i] = "none" => phase'[i] = "none"
    BY <1>8, CancelKeepsPermits DEF CancelByTool
  <2>2. JobsKept
    BY <1>1, <1>3, <1>8, <2>1
       DEF CancelByTool, Cancelled, PhasesKept, JobsKept, JobsTyped
  <2> QED
    BY <2>1, <2>2
<1>9. ASSUME NEW b \in Bash, ForegroundReturns(b)
      PROVE  JobsKept /\ PermitsKept
  <2>1. PermitsKept
    BY <1>9, QuietKeepsPermits DEF ForegroundReturns
  <2>2. JobsKept
    BY <1>1, <1>3, <1>9 DEF ForegroundReturns, JobsKept, JobsTyped
  <2> QED
    BY <2>1, <2>2
<1>10. ASSUME NEW b \in Bash, ForegroundAborts(b)
       PROVE  JobsKept /\ PermitsKept
  <2>1. {b} \cap Running \in SUBSET Job
    BY <1>2
  <2>2. /\ PhasesKept /\ PermitsKept
        /\ \A i \in Job : phase[i] = "none" => phase'[i] = "none"
    BY <1>10, <2>1, CancelKeepsPermits DEF ForegroundAborts
  <2>3. JobsKept
    BY <1>1, <1>3, <1>10, <2>2
       DEF ForegroundAborts, Cancelled, PhasesKept, JobsKept, JobsTyped
  <2> QED
    BY <2>2, <2>3
<1>11. ASSUME NEW b \in Bash, ForegroundElapses(b)
       PROVE  JobsKept /\ PermitsKept
  <2>1. PermitsKept
    BY <1>11, QuietKeepsPermits DEF ForegroundElapses
  <2>2. JobsKept
    BY <1>1, <1>11 DEF ForegroundElapses, JobsKept, JobsTyped
  <2> QED
    BY <2>1, <2>2
<1> QED
  BY <1>5, <1>6, <1>7, <1>8, <1>9, <1>10, <1>11 DEF ToolStep

\* What a step of a delivery keeps.
LEMMA DeliveryStepKeeps ==
  ASSUME ManagerInv, NEW j \in Job, Deliver(j) \/ DeliveryFails(j) \/ Delivered(j)
  PROVE  JobsKept /\ PermitsKept
<1>1. /\ JobsTyped
      /\ \A b \in Bash : phase[b] \notin {"waiting", "granted"}
      /\ \A i \in Job : status[i] = "none" => phase[i] = "none"
  BY DEF ManagerInv, ManagerTypeOK, QueueInv, JobsTyped
<1> USE DEF jobVars, deliveryVars, toolVars, permitVars
<1>2. PermitsKept
  BY QuietKeepsPermits DEF Deliver, DeliveryFails, Delivered
<1>3. CASE Deliver(j) \/ Delivered(j)
  BY <1>1, <1>2, <1>3 DEF Deliver, Delivered, JobsKept, JobsTyped
<1>4. CASE DeliveryFails(j)
  <2>1. failures' \in 0 .. MaxFailures
    BY <1>1, <1>4, JobAssumption DEF DeliveryFails, JobsTyped
  <2> QED
    BY <1>1, <1>2, <1>4, <2>1 DEF DeliveryFails, JobsKept, JobsTyped
<1> QED
  BY <1>3, <1>4

\* A step that leaves the jobs and the semaphore alone, whatever it says was seen.
LEMMA SeenStepKeeps ==
  ASSUME ManagerInv, seen' \in [Job -> Learnt],
         UNCHANGED <<jobVars, deliveryVars, tracked, watching, foreground, permitVars>>
  PROVE  JobsKept /\ PermitsKept
<1> USE DEF jobVars, deliveryVars, permitVars
<1>1. PermitsKept
  BY QuietKeepsPermits
<1>2. JobsKept
  BY DEF ManagerInv, ManagerTypeOK, QueueInv, JobsKept, JobsTyped
<1> QED
  BY <1>1, <1>2

-----------------------------------------------------------------------------
(* The theorems *)

\* The invariant of the manager holds at first.
LEMMA ManagerInvInit == ManagerInit => ManagerInv
<1> SUFFICES ASSUME ManagerInit PROVE ManagerInv
  OBVIOUS
<1>1. Holders = {} /\ Cardinality(Holders) = 0
  BY FS_EmptySet DEF ManagerInit, Holders, Job
<1>2. Len(<< >>) = 0 /\ waiters = << >> /\ waiters \in Seq(Spawn)
  BY EmptySeq DEF ManagerInit
<1>3. Elements(waiters) = {s \in Spawn : phase[s] = "waiting"} /\ Distinct(waiters)
  BY <1>2 DEF ManagerInit, Elements, Distinct, Job
<1>4. PermitsAccounted
  BY <1>1, <1>2, <1>3 DEF ManagerInit, PermitsAccounted
<1>5. QueueInv
  BY <1>3 DEF ManagerInit, QueueInv, Job
<1>6. ManagerTypeOK
  <2>1. 0 \in 0 .. Cardinality(Job) /\ 0 \in 0 .. MaxFailures
    BY JobAssumption, FS_CardinalityType
  <2> QED
    BY <1>2, <2>1 DEF ManagerInit, ManagerTypeOK, Phases, Learnt
<1> QED
  BY <1>4, <1>5, <1>6 DEF ManagerInv

\* Every step of the manager and its tools keeps the invariant, and gives a permit
\* to a waiter only within the setting.
LEMMA ManagerInvStep ==
  ManagerInv /\ [ManagerNext]_managerVars => ManagerInv' /\ [LimitRespected]_managerVars
<1> SUFFICES ASSUME ManagerInv, [ManagerNext]_managerVars
             PROVE  ManagerInv' /\ [LimitRespected]_managerVars
  OBVIOUS
<1>1. CASE ManagerNext
  BY <1>1, RunStepKeeps, ToolStepKeeps, DeliveryStepKeeps, PartsMakeInv
     DEF ManagerNext, ManagerStep, DeliveryStep
<1>2. CASE UNCHANGED managerVars
  <2>1. JobsKept /\ PermitsKept
    BY <1>2, SeenStepKeeps DEF managerVars, toolVars, ManagerInv, ManagerTypeOK
  <2> QED
    BY <1>2, <2>1, PartsMakeInv
<1> QED
  BY <1>1, <1>2

\* The job manager and the semaphore keep their types: in particular never
\* more permits are counted than there are jobs.
THEOREM ManagerTyped == ManagerSpec => []ManagerTypeOK
<1>1. ManagerSpec => []ManagerInv
  BY ManagerInvInit, ManagerInvStep, PTL DEF ManagerSpec
<1>2. ManagerInv => ManagerTypeOK
  BY DEF ManagerInv
<1> QED
  BY <1>1, <1>2, PTL

\* Permits are neither leaked nor forged (task/parallel.ts, acquire, release,
\* resize), for any number of spawns, any limits and any cancellations.
THEOREM PermitsAlwaysAccounted == ManagerSpec => []PermitsAccounted
<1>1. ManagerSpec => []ManagerInv
  BY ManagerInvInit, ManagerInvStep, PTL DEF ManagerSpec
<1>2. ManagerInv => PermitsAccounted
  BY DEF ManagerInv
<1> QED
  BY <1>1, <1>2, PTL

\* No step hands out a permit past the setting of that moment.
THEOREM WaitersAlwaysRespectLimit == ManagerSpec => WaitersRespectLimit
<1>1. ManagerInv /\ [ManagerNext]_managerVars => [LimitRespected]_managerVars
  BY ManagerInvStep
<1> QED
  BY <1>1, ManagerInvInit, ManagerInvStep, PTL DEF ManagerSpec, WaitersRespectLimit
=============================================================================
