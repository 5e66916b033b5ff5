---------------------------- MODULE Agents_proofs ----------------------------
(***************************************************************************)
(* Proofs about the life of a subagent and the messages to it: any peers,  *)
(* messages and sessions, any mailbox size.                                *)
(***************************************************************************)
EXTENDS Agents, FiniteSetTheorems, SequenceTheorems, TLAPS

-----------------------------------------------------------------------------
(* The inductive invariant *)

\* The session that was created last, 0 if none was.
Latest == Cardinality(Created)

\* Sessions are created one after another, and all but the last are disposed;
\* what is parked, released or registered is the last one.
SessionsInv ==
  /\ Created = 1..Latest
  /\ \A s \in Created : s # Latest => sess[s] = "disposed"
  /\ \A s \in Session : turn[s] # "none" => sess[s] \in {"live", "disposing"}
  /\ ref.session \in {Null, Latest}
  /\ parks \cup releases \subseteq {Latest}
  /\ ref.status = "unknown" => ref = NoRef

\* A session that is not disposed is the registered one, unless the agent was
\* removed or lives on as a transcript only.
WriterRegistered ==
  \A s \in Writers : ref.session = s \/ ~Registered \/ ref.historyOnly

\* A revival that has not brought its session yet has the agent for itself.
RevivalAlone ==
  /\ revival \in {"resolving", "opening", "building"} =>
       /\ Writers = {} /\ parks = {} /\ releases = {}
       /\ ref.session = Null /\ Latest < MaxSessions
       /\ revival = "resolving" => ref.status \in {"parked", "unknown"}
  /\ revival = "attached" => Latest > 0

\* Until the spawning task is over the agent has its first session, and
\* nobody parks or revives it.
RunOwnsAgent ==
  /\ run # "over" => Latest = 1 /\ revival = "none" /\ ~adopted /\ parks = {}
  /\ run \in {"prompting", "ending"} =>
       ref.status # "parked" /\ ~ref.historyOnly /\ (Registered => ref.session = 1)
  /\ run = "terminal" => ref.status # "parked"
  /\ run \in {"isolating", "abandoned"} => ~Registered \/ ref.historyOnly

\* A transcript-only agent is neither adopted nor revived.
HistoryRests == ref.historyOnly => revival = "none" /\ ~adopted

\* The lifecycle manager's idle agents have a session to park.
IdleHasSession == adopted /\ ref.status = "idle" => ref.session # Null

\* An adoption without a registration is that of a cold revive.
PoisonInv == adopted /\ ~Registered => revival = "opening" /\ coldAdopted

\* Messages are pending in the live session that is registered.
PendingRegistered ==
  \A s \in Session : pending[s] # {} => sess[s] = "live" /\ ref.session = s

\* A message is at most once in the mailbox.
MailOnce == \A k, l \in DOMAIN mailbox : mailbox[k] = mailbox[l] => k = l

\* A message is heard once at most, and in one place.
OnePlace ==
  \A m \in Msg :
    /\ heard[m] <= 1
    /\ \A s \in Session : m \in pending[s] => heard[m] = 0 /\ m \notin ToSet(mailbox)
    /\ m \in ToSet(mailbox) => heard[m] = 0

\* Where a message is, from what its sender was told.
ReceiptsTell ==
  \A m \in Msg :
    /\ sending[m] # "done" <=> receipt[m] = "none"
    /\ receipt[m] = "none" =>
         heard[m] = 0 /\ m \notin ToSet(mailbox) /\ \A s \in Session : m \notin pending[s]
    /\ receipt[m] = "delivered" =>
         m \notin ToSet(mailbox) /\ (heard[m] = 1 \/ \E s \in Session : m \in pending[s])

AgentInv ==
  /\ TypeOK /\ SessionsInv /\ WriterRegistered /\ RevivalAlone /\ RunOwnsAgent
  /\ HistoryRests /\ IdleHasSession /\ IdleIsTimed /\ PoisonInv
MailInv ==
  PendingRegistered /\ MailOnce /\ OnePlace /\ ReceiptsTell /\ NoMailBehindAWait

Inv == AgentInv /\ MailInv

-----------------------------------------------------------------------------
(* Sequences and numbers of sessions *)

\* A sequence with one element cut out.
LEMMA CutOut ==
  ASSUME NEW S, NEW s \in Seq(S), NEW k \in 1..Len(s)
  PROVE  /\ RemoveAt(s, k) \in Seq(S)
         /\ Len(RemoveAt(s, k)) = Len(s) - 1
         /\ \A i \in 1..k - 1 : RemoveAt(s, k)[i] = s[i]
         /\ \A i \in k..Len(s) - 1 : RemoveAt(s, k)[i] = s[i + 1]
<1> DEFINE a == SubSeq(s, 1, k - 1)
           b == SubSeq(s, k + 1, Len(s))
<1>1. Len(s) \in Nat /\ k \in Int /\ k - 1 \in Int /\ k + 1 \in Int /\ k <= Len(s) /\ 1 <= k
      /\ \A i \in 1..Len(s) : s[i] \in S
  OBVIOUS
<1>2. a \in Seq(S) /\ Len(a) = k - 1 /\ \A i \in 1..k - 1 : a[i] = s[i]
  <2>1. \A i \in 1..k - 1 : s[i] \in S
    BY <1>1
  <2>2. /\ a \in Seq(S) /\ Len(a) = IF 1 <= k - 1 THEN (k - 1) - 1 + 1 ELSE 0
        /\ \A i \in 1..(k - 1) - 1 + 1 : a[i] = s[1 + i - 1]
    BY <1>1, <2>1, SubSeqProperties
  <2> QED BY <1>1, <2>2
<1>3. /\ b \in Seq(S) /\ Len(b) = Len(s) - k
      /\ \A i \in 1..Len(s) - k : b[i] = s[k + i]
  <2>1. \A i \in k + 1..Len(s) : s[i] \in S
    BY <1>1
  <2>2. /\ b \in Seq(S) /\ Len(b) = IF k + 1 <= Len(s) THEN Len(s) - (k + 1) + 1 ELSE 0
        /\ \A i \in 1..Len(s) - (k + 1) + 1 : b[i] = s[(k + 1) + i - 1]
    BY <1>1, <2>1, SubSeqProperties
  <2> QED BY <1>1, <2>2
<1>4. /\ a \o b \in Seq(S) /\ Len(a \o b) = Len(a) + Len(b)
      /\ \A i \in 1..Len(a) + Len(b) : (a \o b)[i] = IF i <= Len(a) THEN a[i] ELSE b[i - Len(a)]
  BY <1>2, <1>3, ConcatProperties
<1>5. RemoveAt(s, k) = a \o b
  BY DEF RemoveAt
<1> HIDE DEF a, b
<1>6. Len(a) + Len(b) = Len(s) - 1
  BY <1>1, <1>2, <1>3
<1>7. ASSUME NEW i \in 1..k - 1
      PROVE  (a \o b)[i] = s[i]
  <2>1. i \in 1..Len(a) + Len(b) /\ i <= Len(a)
    BY <1>1, <1>2, <1>6
  <2> QED BY <1>2, <1>4, <2>1
<1>8. ASSUME NEW i \in k..Len(s) - 1
      PROVE  (a \o b)[i] = s[i + 1]
  <2>1. /\ i \in 1..Len(a) + Len(b) /\ ~(i <= Len(a)) /\ i - Len(a) = i - k + 1
        /\ i - k + 1 \in 1..Len(s) - k /\ k + (i - k + 1) = i + 1
    BY <1>1, <1>2, <1>6
  <2> QED BY <1>3, <1>4, <2>1
<1> QED BY <1>4, <1>5, <1>6, <1>7, <1>8

\* Cutting one out of a sequence without repetitions takes just its element.
LEMMA CutOutDistinct ==
  ASSUME NEW S, NEW s \in Seq(S), NEW k \in 1..Len(s),
         \A i, j \in 1..Len(s) : s[i] = s[j] => i = j
  PROVE  /\ \A i, j \in 1..Len(s) - 1 : RemoveAt(s, k)[i] = RemoveAt(s, k)[j] => i = j
         /\ ToSet(RemoveAt(s, k)) = ToSet(s) \ {s[k]}
<1> DEFINE r == RemoveAt(s, k)
<1>1. Len(s) \in Nat /\ DOMAIN s = 1..Len(s) /\ k \in Nat /\ 1 <= k /\ k <= Len(s)
  OBVIOUS
<1>2. /\ r \in Seq(S) /\ Len(r) = Len(s) - 1
      /\ \A i \in 1..k - 1 : r[i] = s[i]
      /\ \A i \in k..Len(s) - 1 : r[i] = s[i + 1]
  BY CutOut
<1> HIDE DEF r
<1>3. DOMAIN r = 1..Len(s) - 1
  BY <1>1, <1>2
<1>4. ASSUME NEW i \in 1..Len(s) - 1
      PROVE  \E d \in {0, 1} : /\ i + d \in 1..Len(s) /\ r[i] = s[i + d]
                               /\ d = 0 <=> i < k
  <2>1. CASE i < k
    <3>1. i \in 1..k - 1 /\ i + 0 = i
      BY <1>1, <2>1
    <3> QED BY <1>1, <1>2, <2>1, <3>1
  <2>2. CASE ~(i < k)
    <3>1. i \in k..Len(s) - 1
      BY <1>1, <2>2
    <3> QED BY <1>1, <1>2, <2>2, <3>1
  <2> QED BY <2>1, <2>2
<1>5. ASSUME NEW i \in 1..Len(s) - 1, NEW j \in 1..Len(s) - 1, r[i] = r[j]
      PROVE  i = j
  <2>1. PICK d \in {0, 1} : i + d \in 1..Len(s) /\ r[i] = s[i + d] /\ (d = 0 <=> i < k)
    BY <1>4
  <2>2. PICK e \in {0, 1} : j + e \in 1..Len(s) /\ r[j] = s[j + e] /\ (e = 0 <=> j < k)
    BY <1>4
  <2>3. i + d = j + e
    BY <1>5, <2>1, <2>2
  <2> QED BY <1>1, <2>1, <2>2, <2>3
<1>6. ASSUME NEW i \in 1..Len(s) - 1
      PROVE  r[i] \in ToSet(s) \ {s[k]}
  <2>1. PICK d \in {0, 1} : i + d \in 1..Len(s) /\ r[i] = s[i + d] /\ (d = 0 <=> i < k)
    BY <1>4
  <2>2. i + d # k
    BY <1>1, <2>1
  <2>3. s[i + d] # s[k]
    BY <2>1, <2>2
  <2>4. s[i + d] \in ToSet(s)
    BY <1>1, <2>1 DEF ToSet
  <2> QED BY <2>1, <2>3, <2>4
<1>7. ASSUME NEW x \in ToSet(s), x # s[k]
      PROVE  x \in ToSet(r)
  <2>1. PICK i \in 1..Len(s) : x = s[i]
    BY <1>1 DEF ToSet
  <2>2. i # k
    BY <1>7, <2>1
  <2>3. CASE i < k
    <3>1. i \in 1..k - 1 /\ i \in 1..Len(s) - 1
      BY <1>1, <2>3
    <3>2. r[i] = x
      BY <1>2, <2>1, <3>1
    <3> QED BY <1>3, <3>1, <3>2 DEF ToSet
  <2>4. CASE i > k
    <3>1. i - 1 \in k..Len(s) - 1 /\ i - 1 \in 1..Len(s) - 1 /\ (i - 1) + 1 = i
      BY <1>1, <2>4
    <3>2. r[i - 1] = x
      BY <1>2, <2>1, <3>1
    <3> QED BY <1>3, <3>1, <3>2 DEF ToSet
  <2> QED BY <1>1, <2>2, <2>3, <2>4
<1>8. ToSet(r) \subseteq ToSet(s) \ {s[k]}
  <2>1. ASSUME NEW x \in ToSet(r) PROVE x \in ToSet(s) \ {s[k]}
    <3>1. PICK i \in 1..Len(s) - 1 : x = r[i]
      BY <1>3 DEF ToSet
    <3> QED BY <1>6, <3>1
  <2> QED BY <2>1
<1>9. ToSet(s) \ {s[k]} \subseteq ToSet(r)
  BY <1>7
<1> QED BY <1>5, <1>8, <1>9 DEF r

Queued(s, m, cap) == IF Len(s) = cap THEN Tail(s) \o <<m>> ELSE Append(s, m)

\* A mailbox that takes one more message is shifted by one if it is full.
LEMMA QueuedShape ==
  ASSUME NEW S, NEW s \in Seq(S), NEW m \in S, NEW cap \in Nat \ {0}, Len(s) <= cap
  PROVE  LET t == Queued(s, m, cap) IN
         /\ t \in Seq(S) /\ Len(t) <= cap
         /\ Len(s) = cap => /\ Len(t) = Len(s) /\ t[Len(s)] = m
                           /\ \A i \in 1..Len(s) - 1 : t[i] = s[i + 1]
         /\ Len(s) # cap => /\ Len(t) = Len(s) + 1 /\ t[Len(s) + 1] = m
                           /\ \A i \in 1..Len(s) : t[i] = s[i]
<1> DEFINE t == Queued(s, m, cap)
<1>1. Len(s) \in Nat
  OBVIOUS
<1>2. CASE Len(s) = cap
  <2> DEFINE u == Tail(s)
  <2>1. s # <<>> /\ Len(s) > 0
    BY <1>1, <1>2
  <2>2. u \in Seq(S) /\ Len(u) = Len(s) - 1 /\ \A i \in 1..Len(s) - 1 : u[i] = s[i + 1]
    BY <2>1, HeadTailProperties
  <2>3. <<m>> \in Seq(S) /\ Len(<<m>>) = 1 /\ <<m>>[1] = m
    OBVIOUS
  <2>4. t = u \o <<m>>
    BY <1>2 DEF Queued
  <2> HIDE DEF u, t
  <2>5. /\ t \in Seq(S) /\ Len(t) = Len(u) + Len(<<m>>)
        /\ \A i \in 1..Len(u) + Len(<<m>>) :
             t[i] = IF i <= Len(u) THEN u[i] ELSE <<m>>[i - Len(u)]
    BY <2>2, <2>3, <2>4, ConcatProperties
  <2>6. Len(u) + Len(<<m>>) = Len(s) /\ Len(t) = Len(s)
    BY <1>1, <2>2, <2>3, <2>5
  <2>7. t[Len(s)] = m
    <3>1. Len(s) \in 1..Len(u) + Len(<<m>>) /\ ~(Len(s) <= Len(u)) /\ Len(s) - Len(u) = 1
      BY <1>1, <2>1, <2>2, <2>6
    <3> QED BY <2>3, <2>5, <3>1
  <2>8. ASSUME NEW i \in 1..Len(s) - 1 PROVE t[i] = s[i + 1]
    <3>1. i \in 1..Len(u) + Len(<<m>>) /\ i <= Len(u)
      BY <1>1, <2>1, <2>2, <2>6
    <3> QED BY <2>2, <2>5, <3>1
  <2>9. Len(t) <= cap
    BY <1>1, <2>6
  <2> QED BY <1>2, <2>5, <2>6, <2>7, <2>8, <2>9 DEF t
<1>3. CASE Len(s) # cap
  <2>1. t = Append(s, m)
    BY <1>3 DEF Queued
  <2> HIDE DEF t
  <2>2. /\ t \in Seq(S) /\ Len(t) = Len(s) + 1 /\ \A i \in 1..Len(s) : t[i] = s[i]
        /\ t[Len(s) + 1] = m
    BY <2>1, AppendProperties
  <2>3. Len(s) + 1 <= cap
    <3>1. Len(s) \in Nat /\ cap \in Nat /\ Len(s) <= cap /\ Len(s) # cap
      BY <1>1, <1>3
    <3> QED BY <3>1
  <2>4. Len(t) <= cap
    BY <2>2, <2>3
  <2> QED BY <1>3, <2>2, <2>4 DEF t
<1> QED BY <1>2, <1>3

\* A mailbox that takes one more message, the oldest giving way if it is full.
LEMMA MailAdded ==
  ASSUME NEW S, NEW s \in Seq(S), NEW m \in S, NEW cap \in Nat \ {0},
         Len(s) <= cap, \A i, j \in 1..Len(s) : s[i] = s[j] => i = j, m \notin ToSet(s)
  PROVE  LET t == Queued(s, m, cap) IN
         /\ t \in Seq(S) /\ Len(t) <= cap
         /\ \A i, j \in 1..Len(t) : t[i] = t[j] => i = j
         /\ ToSet(t) \subseteq ToSet(s) \cup {m}
<1> DEFINE t == Queued(s, m, cap)
<1>1. Len(s) \in Nat /\ DOMAIN s = 1..Len(s) /\ \A i \in 1..Len(s) : s[i] \in ToSet(s)
  BY DEF ToSet
<1>2. PICK d \in {0, 1} :
        /\ t \in Seq(S) /\ Len(t) = Len(s) + 1 - d /\ Len(t) <= cap
        /\ \A i \in 1..Len(s) - d : t[i] = s[i + d]
        /\ t[Len(s) + 1 - d] = m
  <2>1. /\ t \in Seq(S) /\ Len(t) <= cap
        /\ Len(s) = cap => /\ Len(t) = Len(s) /\ t[Len(s)] = m
                          /\ \A i \in 1..Len(s) - 1 : t[i] = s[i + 1]
        /\ Len(s) # cap => /\ Len(t) = Len(s) + 1 /\ t[Len(s) + 1] = m
                          /\ \A i \in 1..Len(s) : t[i] = s[i]
    BY QueuedShape
  <2> HIDE DEF t
  <2>2. /\ Len(s) + 1 - 1 = Len(s)
        /\ Len(s) + 1 - 0 = Len(s) + 1 /\ Len(s) - 0 = Len(s) /\ \A i \in 1..Len(s) : i + 0 = i
    BY <1>1
  <2>3. CASE Len(s) = cap
    BY <2>1, <2>2, <2>3
  <2>4. CASE Len(s) # cap
    BY <2>1, <2>2, <2>4
  <2> QED BY <2>3, <2>4
<1> HIDE DEF t
<1>3. DOMAIN t = 1..Len(t) /\ Len(t) \in Nat
  BY <1>2
<1>4. ASSUME NEW i \in 1..Len(t)
      PROVE  \/ t[i] = s[i + d] /\ i + d \in 1..Len(s) /\ t[i] # m
             \/ i = Len(t) /\ t[i] = m
  <2>1. CASE i = Len(t)
    BY <1>2, <2>1
  <2>2. CASE i # Len(t)
    <3>1. i \in 1..Len(s) - d /\ i + d \in 1..Len(s)
      BY <1>1, <1>2, <1>3, <2>2
    <3>2. t[i] = s[i + d] /\ s[i + d] \in ToSet(s)
      BY <1>1, <1>2, <3>1
    <3> QED BY <3>1, <3>2
  <2> QED BY <2>1, <2>2
<1>5. ASSUME NEW i \in 1..Len(t), NEW j \in 1..Len(t), t[i] = t[j]
      PROVE  i = j
  <2>1. CASE t[i] = m
    BY <1>4, <1>5, <2>1
  <2>2. CASE t[i] # m
    <3>1. i + d \in 1..Len(s) /\ j + d \in 1..Len(s) /\ s[i + d] = s[j + d]
      BY <1>4, <1>5, <2>2
    <3>2. i + d = j + d
      BY <3>1
    <3> QED BY <1>3, <3>2
  <2> QED BY <2>1, <2>2
<1>6. ASSUME NEW x \in ToSet(t) PROVE x \in ToSet(s) \cup {m}
  <2>1. PICK i \in 1..Len(t) : x = t[i]
    BY <1>3 DEF ToSet
  <2> QED BY <1>1, <1>4, <2>1
<1> QED BY <1>2, <1>5, <1>6 DEF t

\* The sessions and the created ones can be counted.
LEMMA SessionCount ==
  ASSUME AgentsAssumption
  PROVE  /\ IsFiniteSet(Session)
         /\ Latest \in 0..MaxSessions /\ Fresh = Latest + 1
<1>1. MaxSessions \in Nat
  BY DEF AgentsAssumption
<1>2. IsFiniteSet(Session) /\ Cardinality(Session) = MaxSessions
  BY <1>1, FS_Interval DEF Session
<1>3. Created \subseteq Session
  BY DEF Created
<1>4. IsFiniteSet(Created) /\ Cardinality(Created) <= MaxSessions
  BY <1>2, <1>3, FS_Subset
<1>5. Cardinality(Created) \in Nat
  BY <1>4, FS_CardinalityType
<1> QED BY <1>1, <1>2, <1>4, <1>5 DEF Latest, Fresh

\* A step that takes no session from "none" and brings none.
LEMMA NoneCreated ==
  ASSUME \A s \in Session : sess'[s] # "none" <=> sess[s] # "none"
  PROVE  Created' = Created /\ Latest' = Latest
<1>1. Created' = Created
  BY DEF Created, Session
<1> QED BY <1>1 DEF Latest

\* A session that is created takes the next number.
LEMMA NextCreated ==
  ASSUME AgentsAssumption, Created = 1..Latest, Latest < MaxSessions,
         \A s \in Session : sess'[s] # "none" <=> sess[s] # "none" \/ s = Latest + 1
  PROVE  Created' = 1..Latest' /\ Latest' = Latest + 1
<1>0. MaxSessions \in Nat /\ Latest \in Nat
  BY SessionCount DEF AgentsAssumption
<1>1. Created' = 1..Latest + 1
  <2>1. ASSUME NEW s PROVE s \in Created' <=> s \in 1..Latest + 1
    <3>1. s \in Created' <=> s \in Session /\ (s \in Created \/ s = Latest + 1)
      BY DEF Created, Session
    <3> QED BY <1>0, <3>1 DEF Session
  <2> QED BY <2>1
<1>2. Cardinality(1..Latest + 1) = Latest + 1
  BY <1>0, FS_Interval
<1> QED BY <1>1, <1>2 DEF Latest

-----------------------------------------------------------------------------
(* Types *)

Refs == [status : Statuses, session : Session \cup {Null}, historyOnly : BOOLEAN]

\* TypeOK, taken apart as the actions use it.
RegistryTypes ==
  /\ ref \in Refs /\ adopted \in BOOLEAN /\ timer \in BOOLEAN /\ restored \in BOOLEAN
  /\ timer => adopted
  /\ run \in {"prompting", "ending", "terminal", "isolating", "abandoned", "over"}
SessionTypes ==
  /\ sess \in [Session -> {"none", "live", "disposing", "disposed"}]
  /\ turn \in [Session -> {"none", "preparing", "waking", "running"}]
LifecycleTypes ==
  parks \subseteq Session /\ releases \subseteq Session /\ revival \in Revivals /\ coldAdopted \in BOOLEAN
InboxTypes ==
  /\ pending \in [Session -> SUBSET Msg] /\ heard \in [Msg -> Nat]
  /\ mailbox \in Seq(Msg) /\ Len(mailbox) <= MailboxCap
  /\ waiting \in Peers \cup {"no", "any"}
BusTypes ==
  /\ sending \in [Msg -> {"unsent", "reviving", "ready", "done"}]
  /\ receipt \in [Msg -> {"none", "delivered", "failed"}]
Types == RegistryTypes /\ SessionTypes /\ LifecycleTypes /\ InboxTypes /\ BusTypes

\* The parts are the whole.
LEMMA TypeParts ==
  TypeOK <=> Types
BY DEF TypeOK, Types, RegistryTypes, SessionTypes, LifecycleTypes, InboxTypes, BusTypes, Refs

\* What the values of the variables are made of.
LEMMA Values ==
  ASSUME AgentsAssumption
  PROVE  /\ Null \notin Session /\ 1 \in Session
         /\ Latest \in Session \cup {Null}
         /\ Latest < MaxSessions => Fresh \in Session
         /\ Fresh - 1 = Latest /\ Latest \in Nat
         /\ NoRef \in Refs
BY SessionCount DEF AgentsAssumption, Session, Null, NoRef, Statuses, Refs

\* The registry's entry of the agent when a field of it is set.
LEMMA RefFields ==
  ASSUME NEW r \in Refs
  PROVE  /\ r.status \in Statuses /\ r.session \in Session \cup {Null} /\ r.historyOnly \in BOOLEAN
         /\ \A v \in Statuses :
              /\ [r EXCEPT !.status = v] \in Refs
              /\ [r EXCEPT !.status = v].status = v
              /\ [r EXCEPT !.status = v].session = r.session
              /\ [r EXCEPT !.status = v].historyOnly = r.historyOnly
         /\ \A v \in Session \cup {Null} :
              /\ [r EXCEPT !.session = v] \in Refs
              /\ [r EXCEPT !.session = v].session = v
              /\ [r EXCEPT !.session = v].status = r.status
              /\ [r EXCEPT !.session = v].historyOnly = r.historyOnly
BY DEF Refs

\* What setStatus and the listener of its event do to entry and timer.
LEMMA BecomesEffect ==
  ASSUME AgentsAssumption, RegistryTypes, NEW r \in Refs, NEW v \in Statuses \ {"unknown"}, Becomes(r, v)
  PROVE  /\ ref' \in Refs /\ timer' \in BOOLEAN /\ (timer' => adopted)
         /\ r = NoRef => ref' = NoRef
         /\ r # NoRef =>
              ref'.status = v /\ ref'.session = r.session /\ ref'.historyOnly = r.historyOnly
         /\ adopted /\ r # NoRef /\ v = "idle" /\ r.status # "idle" => timer'
         /\ r = NoRef \/ r.status = v \/ v \notin {"idle", "running"} => (timer' <=> timer)
<1>1. ref' \in Refs /\ (r = NoRef => ref' = NoRef)
  BY Values, RefFields DEF Becomes
<1>2. r # NoRef => ref'.status = v /\ ref'.session = r.session /\ ref'.historyOnly = r.historyOnly
  BY RefFields DEF Becomes
<1>3. CASE adopted /\ r # NoRef /\ r.status # v /\ v \in {"running", "idle"}
  <2>1. timer' = (v = "idle")
    BY <1>3 DEF Becomes
  <2> QED BY <1>1, <1>2, <1>3, <2>1
<1>4. CASE ~(adopted /\ r # NoRef /\ r.status # v /\ v \in {"running", "idle"})
  <2>1. timer' = timer
    BY <1>4 DEF Becomes
  <2>2. timer' \in BOOLEAN /\ (timer' => adopted) /\ (timer' <=> timer)
    BY <2>1 DEF RegistryTypes
  <2> QED BY <1>1, <1>2, <1>4, <2>2
<1> QED BY <1>3, <1>4

\* What taking all messages pending in a session gives the agent.
LEMMA HeardTypes ==
  ASSUME InboxTypes, NEW S \in SUBSET Msg
  PROVE  [m \in Msg |-> heard[m] + (IF m \in S THEN 1 ELSE 0)] \in [Msg -> Nat]
BY DEF InboxTypes

\* What the start of a dispose does.
LEMMA DisposeTypes ==
  ASSUME SessionTypes, InboxTypes, NEW s \in Session, BeginDispose(s), UNCHANGED <<turn, mailbox, waiting>>
  PROVE  SessionTypes' /\ InboxTypes'
<1>1. SessionTypes'
  BY DEF BeginDispose, SessionTypes
<1>2. pending[s] \in SUBSET Msg /\ pending' \in [Session -> SUBSET Msg]
  BY DEF BeginDispose, InboxTypes
<1>3. heard' \in [Msg -> Nat]
  BY <1>2, HeardTypes DEF BeginDispose
<1> QED BY <1>1, <1>2, <1>3 DEF InboxTypes

\* The steps of a turn keep the types.
LEMMA SessionStepTypes ==
  ASSUME AgentsAssumption, Types, NEW s \in Session, SessionStep(s)
  PROVE  Types'
<1> USE DEF Types, registryVars, sessionVars, lifecycleVars, agentVars, busVars, inboxVars,
            messageVars
<1>1. CASE Prompt(s)
  <2>1. RegistryTypes'
    BY <1>1 DEF Prompt, RegistryTypes
  <2>2. SessionTypes'
    BY <1>1 DEF Prompt, SessionTypes
  <2>3. LifecycleTypes'
    BY <1>1 DEF Prompt, LifecycleTypes
  <2>4. InboxTypes'
    BY <1>1 DEF Prompt, InboxTypes
  <2>5. BusTypes'
    BY <1>1 DEF Prompt, BusTypes
  <2> QED BY <2>1, <2>2, <2>3, <2>4, <2>5
<1>2. CASE AgentStart(s)
  <2>1. RegistryTypes'
    <3>1. CASE Listening(s)
      <4>1. Becomes(ref, "running") /\ ref \in Refs /\ UNCHANGED <<adopted, restored>>
        BY <1>2, <3>1 DEF AgentStart, RegistryTypes
      <4>2. ref' \in Refs /\ timer' \in BOOLEAN /\ (timer' => adopted)
        BY <4>1, BecomesEffect DEF Statuses
      <4> QED BY <1>2, <4>1, <4>2 DEF AgentStart, RegistryTypes, registryVars
    <3>2. CASE ~Listening(s)
      BY <1>2, <3>2 DEF AgentStart, RegistryTypes, registryVars
    <3> QED BY <3>1, <3>2
  <2>2. SessionTypes'
    BY <1>2 DEF AgentStart, SessionTypes
  <2>3. LifecycleTypes'
    BY <1>2 DEF AgentStart, LifecycleTypes
  <2>4. InboxTypes'
    BY <1>2 DEF AgentStart, InboxTypes
  <2>5. BusTypes'
    BY <1>2 DEF AgentStart, BusTypes
  <2> QED BY <2>1, <2>2, <2>3, <2>4, <2>5
<1>3. CASE Boundary(s)
  <2>1. RegistryTypes'
    BY <1>3 DEF Boundary, RegistryTypes
  <2>2. SessionTypes'
    BY <1>3 DEF Boundary, SessionTypes
  <2>3. LifecycleTypes'
    BY <1>3 DEF Boundary, LifecycleTypes
  <2>4. InboxTypes'
    <3>1. pending[s] \in SUBSET Msg
      BY DEF InboxTypes
    <3>2. heard' \in [Msg -> Nat]
      BY <1>3, <3>1, HeardTypes DEF Boundary
    <3> QED BY <1>3, <3>2 DEF Boundary, InboxTypes
  <2>5. BusTypes'
    BY <1>3 DEF Boundary, BusTypes
  <2> QED BY <2>1, <2>2, <2>3, <2>4, <2>5
<1>4. CASE TurnEnds(s)
  <2>1. RegistryTypes'
    <3>1. CASE Listening(s)
      <4>1. Becomes(ref, "idle") /\ ref \in Refs /\ UNCHANGED <<adopted, restored>>
        BY <1>4, <3>1 DEF TurnEnds, RegistryTypes
      <4>2. ref' \in Refs /\ timer' \in BOOLEAN /\ (timer' => adopted)
        BY <4>1, BecomesEffect DEF Statuses
      <4> QED BY <1>4, <4>1, <4>2 DEF TurnEnds, RegistryTypes, RunAfter
    <3>2. CASE ~Listening(s)
      BY <1>4, <3>2 DEF TurnEnds, RegistryTypes, RunAfter
    <3> QED BY <3>1, <3>2
  <2>2. SessionTypes'
    BY <1>4 DEF TurnEnds, Settle, SessionTypes
  <2>3. LifecycleTypes'
    BY <1>4 DEF TurnEnds, LifecycleTypes
  <2>4. InboxTypes'
    <3>1. pending[s] \in SUBSET Msg
      BY DEF InboxTypes
    <3>2. heard' \in [Msg -> Nat]
      BY <1>4, <3>1, HeardTypes DEF TurnEnds, Settle
    <3> QED BY <1>4, <3>2 DEF TurnEnds, Settle, InboxTypes
  <2>5. BusTypes'
    BY <1>4 DEF TurnEnds, BusTypes
  <2> QED BY <2>1, <2>2, <2>3, <2>4, <2>5
<1>5. CASE PromptFails(s)
  <2>1. RegistryTypes'
    BY <1>5 DEF PromptFails, RegistryTypes
  <2>2. SessionTypes'
    BY <1>5 DEF PromptFails, Settle, SessionTypes
  <2>3. LifecycleTypes'
    BY <1>5 DEF PromptFails, LifecycleTypes
  <2>4. InboxTypes'
    <3>1. pending[s] \in SUBSET Msg
      BY DEF InboxTypes
    <3>2. heard' \in [Msg -> Nat]
      BY <1>5, <3>1, HeardTypes DEF PromptFails, Settle
    <3> QED BY <1>5, <3>2 DEF PromptFails, Settle, InboxTypes
  <2>5. BusTypes'
    BY <1>5 DEF PromptFails, BusTypes
  <2> QED BY <2>1, <2>2, <2>3, <2>4, <2>5
<1>6. CASE TurnDies(s)
  <2>1. RegistryTypes'
    <3>1. CASE Listening(s)
      <4>1. Becomes(ref, "idle") /\ ref \in Refs /\ UNCHANGED <<adopted, restored>>
        BY <1>6, <3>1 DEF TurnDies, RegistryTypes
      <4>2. ref' \in Refs /\ timer' \in BOOLEAN /\ (timer' => adopted)
        BY <4>1, BecomesEffect DEF Statuses
      <4> QED BY <1>6, <4>1, <4>2 DEF TurnDies, RegistryTypes, RunAfter
    <3>2. CASE ~Listening(s)
      BY <1>6, <3>2 DEF TurnDies, RegistryTypes, RunAfter
    <3> QED BY <3>1, <3>2
  <2>2. SessionTypes'
    BY <1>6 DEF TurnDies, SessionTypes
  <2>3. LifecycleTypes'
    BY <1>6 DEF TurnDies, LifecycleTypes
  <2>4. InboxTypes'
    BY <1>6 DEF TurnDies, InboxTypes
  <2>5. BusTypes'
    BY <1>6 DEF TurnDies, BusTypes
  <2> QED BY <2>1, <2>2, <2>3, <2>4, <2>5
<1>7. CASE DisposeEnds(s)
  <2>1. RegistryTypes'
    BY <1>7 DEF DisposeEnds, RunAfter, RegistryTypes
  <2>2. SessionTypes'
    BY <1>7 DEF DisposeEnds, SessionTypes
  <2>3. LifecycleTypes'
    BY <1>7 DEF DisposeEnds, LifecycleTypes
  <2>4. InboxTypes'
    BY <1>7 DEF DisposeEnds, InboxTypes
  <2>5. BusTypes'
    BY <1>7 DEF DisposeEnds, BusTypes
  <2> QED BY <2>1, <2>2, <2>3, <2>4, <2>5
<1> QED BY <1>1, <1>2, <1>3, <1>4, <1>5, <1>6, <1>7 DEF SessionStep

\* The end of the task keeps the types.
LEMMA FinishTypes ==
  ASSUME AgentsAssumption, Types,
         FinishKeepAlive \/ FinishAborted \/ FinishIsolated \/ FinishAbandons \/ FinishDisposed
  PROVE  Types'
<1> USE DEF Types, registryVars, sessionVars, lifecycleVars, agentVars, busVars, inboxVars,
            messageVars
<1>1. CASE FinishKeepAlive
  <2>1. RegistryTypes'
    <3>1. ref' \in Refs
      BY <1>1, RefFields DEF FinishKeepAlive, RegistryTypes, Statuses
    <3>2. adopted' \in BOOLEAN /\ timer' \in BOOLEAN /\ (timer' => adopted')
      BY <1>1, Zenon DEF FinishKeepAlive, RegistryTypes
    <3> QED BY <1>1, <3>1, <3>2 DEF FinishKeepAlive, RegistryTypes
  <2>2. SessionTypes'
    BY <1>1 DEF FinishKeepAlive, SessionTypes
  <2>3. LifecycleTypes'
    BY <1>1 DEF FinishKeepAlive, LifecycleTypes
  <2>4. InboxTypes'
    BY <1>1 DEF FinishKeepAlive, InboxTypes
  <2>5. BusTypes'
    BY <1>1 DEF FinishKeepAlive, BusTypes
  <2> QED BY <2>1, <2>2, <2>3, <2>4, <2>5
<1>2. CASE FinishAborted
  <2>1. RegistryTypes'
    <3>1. Becomes(ref, "aborted") /\ ref \in Refs
      BY <1>2 DEF FinishAborted, RegistryTypes
    <3>2. ref' \in Refs /\ timer' \in BOOLEAN /\ (timer' => adopted)
      BY <3>1, BecomesEffect DEF Statuses
    <3> QED BY <1>2, <3>2 DEF FinishAborted, RegistryTypes
  <2>2. SessionTypes'
    BY <1>2, Values, DisposeTypes DEF FinishAborted
  <2>3. LifecycleTypes'
    BY <1>2 DEF FinishAborted, LifecycleTypes
  <2>4. InboxTypes'
    BY <1>2, Values, DisposeTypes DEF FinishAborted
  <2>5. BusTypes'
    BY <1>2 DEF FinishAborted, BusTypes
  <2> QED BY <2>1, <2>2, <2>3, <2>4, <2>5
<1>3. CASE FinishIsolated
  <2>1. RegistryTypes'
    <3>1. ref' \in Refs
      BY <1>3 DEF FinishIsolated, RegistryTypes, Refs, Statuses
    <3> QED BY <1>3, <3>1 DEF FinishIsolated, RegistryTypes
  <2>2. SessionTypes'
    BY <1>3, Values, DisposeTypes DEF FinishIsolated
  <2>3. LifecycleTypes'
    BY <1>3 DEF FinishIsolated, LifecycleTypes
  <2>4. InboxTypes'
    BY <1>3, Values, DisposeTypes DEF FinishIsolated
  <2>5. BusTypes'
    BY <1>3 DEF FinishIsolated, BusTypes
  <2> QED BY <2>1, <2>2, <2>3, <2>4, <2>5
<1>4. CASE FinishAbandons
  <2>1. RegistryTypes'
    <3>1. ref' \in Refs
      BY <1>4, RefFields DEF FinishAbandons, RegistryTypes
    <3> QED BY <1>4, <3>1 DEF FinishAbandons, RegistryTypes
  <2>2. SessionTypes'
    BY <1>4 DEF FinishAbandons, SessionTypes
  <2>3. LifecycleTypes'
    BY <1>4 DEF FinishAbandons, LifecycleTypes
  <2>4. InboxTypes'
    BY <1>4 DEF FinishAbandons, InboxTypes
  <2>5. BusTypes'
    BY <1>4 DEF FinishAbandons, BusTypes
  <2> QED BY <2>1, <2>2, <2>3, <2>4, <2>5
<1>5. CASE FinishDisposed
  <2>1. RegistryTypes'
    <3>1. ref' \in Refs
      BY <1>5, RefFields, Values DEF FinishDisposed, Unregister, RegistryTypes
    <3>2. adopted' \in BOOLEAN /\ timer' \in BOOLEAN /\ (timer' => adopted')
      BY <1>5, Zenon DEF FinishDisposed, Unregister, RegistryTypes
    <3> QED BY <1>5, <3>1, <3>2 DEF FinishDisposed, RegistryTypes
  <2>2. SessionTypes'
    BY <1>5 DEF FinishDisposed, SessionTypes
  <2>3. LifecycleTypes'
    BY <1>5 DEF FinishDisposed, LifecycleTypes
  <2>4. InboxTypes'
    BY <1>5 DEF FinishDisposed, InboxTypes
  <2>5. BusTypes'
    BY <1>5 DEF FinishDisposed, BusTypes
  <2> QED BY <2>1, <2>2, <2>3, <2>4, <2>5
<1> QED BY <1>1, <1>2, <1>3, <1>4, <1>5

\* Parking and release keep the types.
LEMMA ParkTypes ==
  ASSUME AgentsAssumption, Types,
         TimerFires \/ (\E s \in Session : ParkEnds(s)) \/ Release \/ (\E s \in Session : ReleaseEnds(s))
  PROVE  Types'
<1> USE DEF Types, registryVars, sessionVars, lifecycleVars, agentVars, busVars, inboxVars,
            messageVars
<1>1. CASE TimerFires
  <2>1. RegistryTypes'
    BY <1>1 DEF TimerFires, RegistryTypes
  <2>2. SessionTypes'
    <3>1. CASE ref.session = Null
      BY <1>1, <3>1 DEF TimerFires, SessionTypes
    <3>2. CASE ref.session # Null
      <4>1. ref.session \in Session
        BY <3>2, RefFields DEF RegistryTypes
      <4> QED BY <1>1, <3>2, <4>1, DisposeTypes DEF TimerFires
    <3> QED BY <3>1, <3>2
  <2>3. LifecycleTypes'
    <3>1. ref.session \in Session \cup {Null}
      BY RefFields DEF RegistryTypes
    <3> QED BY <1>1, <3>1 DEF TimerFires, LifecycleTypes
  <2>4. InboxTypes'
    <3>1. CASE ref.session = Null
      BY <1>1, <3>1 DEF TimerFires, InboxTypes
    <3>2. CASE ref.session # Null
      <4>1. ref.session \in Session
        BY <3>2, RefFields DEF RegistryTypes
      <4> QED BY <1>1, <3>2, <4>1, DisposeTypes DEF TimerFires
    <3> QED BY <3>1, <3>2
  <2>5. BusTypes'
    BY <1>1 DEF TimerFires, BusTypes
  <2> QED BY <2>1, <2>2, <2>3, <2>4, <2>5
<1>2. ASSUME NEW s \in Session, ParkEnds(s) PROVE Types'
  <2>1. RegistryTypes'
    <3>1. Becomes([ref EXCEPT !.session = Null], "parked") /\ UNCHANGED <<adopted, restored, run>>
      BY <1>2 DEF ParkEnds
    <3>2. [ref EXCEPT !.session = Null] \in Refs
      BY RefFields DEF RegistryTypes
    <3>3. ref' \in Refs /\ timer' \in BOOLEAN /\ (timer' => adopted)
      BY <3>1, <3>2, BecomesEffect DEF Statuses
    <3> QED BY <3>1, <3>3 DEF RegistryTypes
  <2>2. SessionTypes'
    BY <1>2 DEF ParkEnds, SessionTypes
  <2>3. LifecycleTypes'
    BY <1>2 DEF ParkEnds, LifecycleTypes
  <2>4. InboxTypes'
    BY <1>2 DEF ParkEnds, InboxTypes
  <2>5. BusTypes'
    BY <1>2 DEF ParkEnds, BusTypes
  <2> QED BY <2>1, <2>2, <2>3, <2>4, <2>5
<1>3. CASE Release
  <2>1. RegistryTypes'
    <3>1. ref' \in Refs
      BY <1>3, Values DEF Release, RegistryTypes
    <3> QED BY <1>3, <3>1 DEF Release, RegistryTypes
  <2>2. SessionTypes'
    <3>1. CASE ref.session = Null
      BY <1>3, <3>1 DEF Release, SessionTypes
    <3>2. CASE ref.session # Null
      <4>1. ref.session \in Session
        BY <3>2, RefFields DEF RegistryTypes
      <4> QED BY <1>3, <3>2, <4>1, DisposeTypes DEF Release
    <3> QED BY <3>1, <3>2
  <2>3. LifecycleTypes'
    <3>1. ref.session \in Session \cup {Null}
      BY RefFields DEF RegistryTypes
    <3> QED BY <1>3, <3>1 DEF Release, LifecycleTypes
  <2>4. InboxTypes'
    <3>1. CASE ref.session = Null
      BY <1>3, <3>1 DEF Release, InboxTypes
    <3>2. CASE ref.session # Null
      <4>1. ref.session \in Session
        BY <3>2, RefFields DEF RegistryTypes
      <4> QED BY <1>3, <3>2, <4>1, DisposeTypes DEF Release
    <3> QED BY <3>1, <3>2
  <2>5. BusTypes'
    BY <1>3 DEF Release, BusTypes
  <2> QED BY <2>1, <2>2, <2>3, <2>4, <2>5
<1>4. ASSUME NEW s \in Session, ReleaseEnds(s) PROVE Types'
  <2>1. RegistryTypes'
    <3>1. ref' \in Refs
      BY <1>4, Values DEF ReleaseEnds, Unregister
    <3>2. adopted' \in BOOLEAN /\ timer' \in BOOLEAN /\ (timer' => adopted')
      BY <1>4, Zenon DEF ReleaseEnds, Unregister, RegistryTypes
    <3> QED BY <1>4, <3>1, <3>2 DEF ReleaseEnds, RegistryTypes
  <2>2. SessionTypes'
    BY <1>4 DEF ReleaseEnds, SessionTypes
  <2>3. LifecycleTypes'
    BY <1>4 DEF ReleaseEnds, LifecycleTypes
  <2>4. InboxTypes'
    BY <1>4 DEF ReleaseEnds, InboxTypes
  <2>5. BusTypes'
    BY <1>4 DEF ReleaseEnds, BusTypes
  <2> QED BY <2>1, <2>2, <2>3, <2>4, <2>5
<1> QED BY <1>1, <1>2, <1>3, <1>4

\* A revival keeps the types.
LEMMA RevivalTypes ==
  ASSUME AgentsAssumption, Types, RevivalAlone,
         Revive \/ ReviverResolved \/ RevivalRegisters \/ RevivalAttaches \/ RevivalEnds \/ RevivalFails
  PROVE  Types'
<1> USE DEF Types, registryVars, sessionVars, lifecycleVars, agentVars, busVars, inboxVars,
            messageVars
<1>1. CASE Revive
  <2>1. RegistryTypes'
    BY <1>1 DEF Revive, RegistryTypes
  <2>2. SessionTypes'
    BY <1>1 DEF Revive, SessionTypes
  <2>3. LifecycleTypes'
    BY <1>1 DEF Revive, StartRevival, LifecycleTypes, Revivals
  <2>4. InboxTypes'
    BY <1>1 DEF Revive, InboxTypes
  <2>5. BusTypes'
    BY <1>1 DEF Revive, BusTypes
  <2> QED BY <2>1, <2>2, <2>3, <2>4, <2>5
<1>2. CASE ReviverResolved
  <2>1. RegistryTypes'
    BY <1>2 DEF ReviverResolved, RegistryTypes
  <2>2. SessionTypes'
    BY <1>2 DEF ReviverResolved, SessionTypes
  <2>3. LifecycleTypes'
    BY <1>2 DEF ReviverResolved, LifecycleTypes, Revivals
  <2>4. InboxTypes'
    BY <1>2 DEF ReviverResolved, InboxTypes
  <2>5. BusTypes'
    BY <1>2 DEF ReviverResolved, BusTypes
  <2> QED BY <2>1, <2>2, <2>3, <2>4, <2>5
<1>3. CASE RevivalRegisters
  <2>1. RegistryTypes'
    <3>1. ref' \in Refs
      BY <1>3 DEF RevivalRegisters, Refs, Statuses
    <3> QED BY <1>3, <3>1 DEF RevivalRegisters, RegistryTypes
  <2>2. SessionTypes'
    BY <1>3 DEF RevivalRegisters, SessionTypes
  <2>3. LifecycleTypes'
    BY <1>3 DEF RevivalRegisters, LifecycleTypes, Revivals
  <2>4. InboxTypes'
    BY <1>3 DEF RevivalRegisters, InboxTypes
  <2>5. BusTypes'
    BY <1>3 DEF RevivalRegisters, BusTypes
  <2> QED BY <2>1, <2>2, <2>3, <2>4, <2>5
<1>4. CASE RevivalAttaches
  <2>0. Fresh \in Session
    BY <1>4, Values DEF RevivalAttaches, RevivalAlone
  <2>1. RegistryTypes'
    <3>1. Attached(Fresh) \in Refs
      BY <2>0, RefFields DEF Attached, RegistryTypes
    <3>2. CASE restored
      BY <1>4, <3>1, <3>2 DEF RevivalAttaches, RegistryTypes
    <3>3. CASE ~restored
      <4>1. Becomes(Attached(Fresh), "idle")
        BY <1>4, <3>3 DEF RevivalAttaches
      <4>2. ref' \in Refs /\ timer' \in BOOLEAN /\ (timer' => adopted)
        BY <3>1, <4>1, BecomesEffect DEF Statuses
      <4> QED BY <1>4, <4>2 DEF RevivalAttaches, RegistryTypes
    <3> QED BY <3>2, <3>3
  <2>2. SessionTypes'
    BY <1>4 DEF RevivalAttaches, SessionTypes
  <2>3. LifecycleTypes'
    BY <1>4 DEF RevivalAttaches, LifecycleTypes, Revivals
  <2>4. InboxTypes'
    BY <1>4 DEF RevivalAttaches, InboxTypes, inboxVars
  <2>5. BusTypes'
    BY <1>4 DEF RevivalAttaches, Resolved, BusTypes
  <2> QED BY <2>1, <2>2, <2>3, <2>4, <2>5
<1>5. CASE RevivalEnds
  <2>1. RegistryTypes'
    <3>1. Attached(Fresh - 1) \in Refs
      BY RefFields, Values DEF Attached, RegistryTypes
    <3>2. Becomes(Attached(Fresh - 1), "idle")
      BY <1>5 DEF RevivalEnds
    <3>3. ref' \in Refs /\ timer' \in BOOLEAN /\ (timer' => adopted)
      BY <3>1, <3>2, BecomesEffect DEF Statuses
    <3> QED BY <1>5, <3>3 DEF RevivalEnds, RegistryTypes
  <2>2. SessionTypes'
    BY <1>5 DEF RevivalEnds, SessionTypes
  <2>3. LifecycleTypes'
    BY <1>5 DEF RevivalEnds, LifecycleTypes, Revivals
  <2>4. InboxTypes'
    BY <1>5 DEF RevivalEnds, InboxTypes
  <2>5. BusTypes'
    BY <1>5 DEF RevivalEnds, Resolved, BusTypes
  <2> QED BY <2>1, <2>2, <2>3, <2>4, <2>5
<1>6. CASE RevivalFails
  <2>1. RegistryTypes'
    <3>1. ref' \in Refs
      BY <1>6, Values DEF RevivalFails, RegistryTypes
    <3>2. adopted' \in BOOLEAN /\ timer' \in BOOLEAN /\ (timer' => adopted')
      BY <1>6, Zenon DEF RevivalFails, RegistryTypes
    <3> QED BY <1>6, <3>1, <3>2 DEF RevivalFails, RevivalGivesUp, RegistryTypes
  <2>2. SessionTypes'
    BY <1>6 DEF RevivalFails, RevivalGivesUp, SessionTypes, sessionVars
  <2>3. LifecycleTypes'
    BY <1>6 DEF RevivalFails, RevivalGivesUp, LifecycleTypes, Revivals
  <2>4. InboxTypes'
    BY <1>6 DEF RevivalFails, RevivalGivesUp, InboxTypes, inboxVars
  <2>5. BusTypes'
    BY <1>6 DEF RevivalFails, RevivalGivesUp, Rejected, BusTypes
  <2> QED BY <2>1, <2>2, <2>3, <2>4, <2>5
<1> QED BY <1>1, <1>2, <1>3, <1>4, <1>5, <1>6

-----------------------------------------------------------------------------
(* The agent, its sessions and its adoption *)

AgentRest ==
  /\ SessionsInv /\ WriterRegistered /\ RevivalAlone /\ RunOwnsAgent
  /\ HistoryRests /\ IdleHasSession /\ IdleIsTimed /\ PoisonInv

\* An agent the registry does not know has no session and no policy.
LEMMA Unknown ==
  ASSUME SessionsInv
  PROVE  /\ ~Registered <=> ref.status = "unknown"
         /\ ~Registered => ref.session = Null /\ ref.historyOnly = FALSE
BY DEF SessionsInv, Registered, NoRef

\* Steps that change at most what the loops of undisposed sessions do.
LEMMA TurnKeepsAgent ==
  ASSUME AgentsAssumption, Types, AgentRest, Types',
         UNCHANGED <<ref, adopted, timer, run, sess, parks, releases, revival, coldAdopted>>,
         \A s \in Session : turn'[s] # "none" => sess[s] \in {"live", "disposing"}
  PROVE  AgentRest'
<1>1. Created' = Created /\ Latest' = Latest
  BY NoneCreated
<1>2. SessionsInv'
  BY <1>1 DEF AgentRest, SessionsInv
<1> QED BY <1>1, <1>2 DEF AgentRest, WriterRegistered, Writers, Registered, RevivalAlone,
           RunOwnsAgent, HistoryRests, IdleHasSession, IdleIsTimed, PoisonInv

\* A turn of an undisposed session starts or ends, or its dispose ends.
LEMMA StatusKeepsAgent ==
  ASSUME AgentsAssumption, Types, AgentRest, Types', NEW s \in Writers,
         UNCHANGED <<adopted, parks, releases, revival, coldAdopted>>,
         \A t \in Session : \/ sess'[t] = sess[t]
                            \/ t = s /\ sess[t] = "disposing" /\ sess'[t] = "disposed",
         \A t \in Session : turn'[t] # "none" => sess'[t] \in {"live", "disposing"},
         run' = run \/ (run = "prompting" /\ run' = "ending"),
         UNCHANGED <<ref, timer>> \/ \E v \in {"running", "idle"} : Becomes(ref, v)
  PROVE  AgentRest'
<1>1. /\ sess \in [Session -> {"none", "live", "disposing", "disposed"}]
      /\ sess' \in [Session -> {"none", "live", "disposing", "disposed"}]
      /\ s \in Session /\ sess[s] \in {"live", "disposing"}
      /\ ref \in Refs /\ ref' \in Refs /\ adopted \in BOOLEAN /\ timer \in BOOLEAN
  BY DEF Types, SessionTypes, RegistryTypes, Writers
<1>2. Created' = Created /\ Latest' = Latest
  BY <1>1, NoneCreated
<1>3. s = Latest /\ revival \notin {"resolving", "opening", "building"}
  BY <1>1 DEF AgentRest, SessionsInv, RevivalAlone, Created
<1>4. /\ ref'.session = ref.session /\ ref'.historyOnly = ref.historyOnly
      /\ ref' = NoRef <=> ref = NoRef
      /\ ref'.status = ref.status \/ ref'.status \in {"running", "idle"}
      /\ adopted /\ ref'.status = "idle" /\ ref.status # "idle" => timer'
      /\ ref'.status = "idle" /\ ref.status = "idle" => (timer' <=> timer)
  <2>1. CASE UNCHANGED <<ref, timer>>
    BY <2>1
  <2>2. ASSUME NEW v \in {"running", "idle"}, Becomes(ref, v)
        PROVE  /\ ref'.session = ref.session /\ ref'.historyOnly = ref.historyOnly
               /\ ref' = NoRef <=> ref = NoRef
               /\ ref'.status = ref.status \/ ref'.status \in {"running", "idle"}
               /\ adopted /\ ref'.status = "idle" /\ ref.status # "idle" => timer'
               /\ ref'.status = "idle" /\ ref.status = "idle" => (timer' <=> timer)
    <3>1. RegistryTypes /\ v \in Statuses \ {"unknown"}
      BY DEF Types, Statuses
    <3>2. /\ ref = NoRef => ref' = NoRef
          /\ ref # NoRef =>
               ref'.status = v /\ ref'.session = ref.session /\ ref'.historyOnly = ref.historyOnly
          /\ adopted /\ ref # NoRef /\ v = "idle" /\ ref.status # "idle" => timer'
          /\ ref = NoRef \/ ref.status = v \/ v \notin {"idle", "running"} => (timer' <=> timer)
      BY <1>1, <2>2, <3>1, BecomesEffect
    <3>3. NoRef.status = "unknown"
      BY DEF NoRef
    <3> QED BY <3>2, <3>3
  <2> QED BY <2>1, <2>2
<1>5. Registered' <=> Registered
  BY <1>4 DEF Registered
<1>6. Writers' \subseteq Writers
  BY <1>1 DEF Writers
<1>7. SessionsInv'
  BY <1>1, <1>2, <1>3, <1>4 DEF AgentRest, SessionsInv, NoRef, Created
<1>8. WriterRegistered'
  BY <1>4, <1>5, <1>6 DEF AgentRest, WriterRegistered
<1>9. RevivalAlone'
  BY <1>2, <1>3 DEF AgentRest, RevivalAlone
<1>10. RunOwnsAgent'
  BY <1>2, <1>4, <1>5 DEF AgentRest, RunOwnsAgent
<1>11. HistoryRests'
  BY <1>4 DEF AgentRest, HistoryRests
<1>12. IdleHasSession'
  <2>1. ref.session = s \/ ~Registered \/ ref.historyOnly
    BY DEF AgentRest, WriterRegistered
  <2>2. ~Registered => ref.status = "unknown"
    BY DEF Registered, NoRef
  <2>3. s # Null
    BY <1>1, Values
  <2>4. Registered' => ref'.status # "unknown"
    BY <1>7 DEF SessionsInv, Registered
  <2>5. ~Registered' => ref'.status = "unknown"
    BY DEF Registered, NoRef
  <2>6. CASE ref.session = s
    BY <1>4, <2>3, <2>6 DEF IdleHasSession
  <2>7. CASE ~Registered
    BY <1>4, <1>5, <2>5, <2>7 DEF IdleHasSession
  <2>8. CASE ref.historyOnly
    BY <2>8 DEF AgentRest, HistoryRests, IdleHasSession
  <2> QED BY <2>1, <2>6, <2>7, <2>8
<1>13. IdleIsTimed'
  BY <1>4 DEF AgentRest, IdleIsTimed
<1>14. PoisonInv'
  BY <1>5 DEF AgentRest, PoisonInv
<1> QED BY <1>7, <1>8, <1>9, <1>10, <1>11, <1>12, <1>13, <1>14 DEF AgentRest
\* Steps that create no session, end none and leave the turns alone.
LEMMA SessionsKept ==
  ASSUME AgentsAssumption, Types, SessionsInv, Types', UNCHANGED turn,
         \A t \in Session :
           /\ sess'[t] = "none" <=> sess[t] = "none"
           /\ sess[t] = "disposed" <=> sess'[t] = "disposed",
         ref'.session \in {Null, Latest}, ref'.status = "unknown" => ref' = NoRef,
         parks' \cup releases' \subseteq {Latest}
  PROVE  /\ SessionsInv' /\ Writers' = Writers /\ Latest' = Latest /\ Created' = Created
         /\ \A t \in Session : sess[t] = "none" \/ sess[t] = "disposed" \/ t \in Writers
<1>1. /\ sess \in [Session -> {"none", "live", "disposing", "disposed"}]
      /\ sess' \in [Session -> {"none", "live", "disposing", "disposed"}]
  BY DEF Types, SessionTypes
<1>2. Created' = Created /\ Latest' = Latest
  BY NoneCreated
<1>3. Writers' = Writers
  BY <1>1 DEF Writers
<1>4. \A t \in Session : sess[t] = "none" \/ sess[t] = "disposed" \/ t \in Writers
  BY <1>1 DEF Writers
<1>5. SessionsInv'
  BY <1>1, <1>2 DEF SessionsInv, Created
<1> QED BY <1>2, <1>3, <1>4, <1>5

\* The registry's entry with a new status.
LEMMA EntryStatus ==
  ASSUME NEW r \in Refs, NEW v \in Statuses \ {"unknown"},
         NEW q, q = IF r = NoRef THEN r ELSE [r EXCEPT !.status = v]
  PROVE  /\ q.session = r.session /\ q.historyOnly = r.historyOnly /\ (q = NoRef <=> r = NoRef)
         /\ q.status = IF r = NoRef THEN "unknown" ELSE v
<1>1. NoRef.status = "unknown"
  BY DEF NoRef
<1>2. CASE r = NoRef
  BY <1>1, <1>2
<1>3. CASE r # NoRef
  <2>1. q = [r EXCEPT !.status = v]
    BY <1>3
  <2>2. q.session = r.session /\ q.historyOnly = r.historyOnly /\ q.status = v
    BY <2>1 DEF Refs
  <2> QED BY <1>1, <1>3, <2>2
<1> QED BY <1>2, <1>3

\* The registry's entry with its session detached.
LEMMA EntryDetached ==
  ASSUME AgentsAssumption, NEW r \in Refs, r.status = "unknown" => r = NoRef,
         NEW q, q = [r EXCEPT !.session = Null]
  PROVE  /\ q \in Refs /\ q.session = Null /\ q.historyOnly = r.historyOnly
         /\ q.status = r.status /\ (q = NoRef <=> r = NoRef)
<1>1. NoRef.status = "unknown" /\ NoRef.session = Null /\ NoRef.historyOnly = FALSE
  BY DEF NoRef
<1>2. q \in Refs /\ q.session = Null /\ q.historyOnly = r.historyOnly /\ q.status = r.status
  BY RefFields
<1>3. ASSUME r = NoRef PROVE q = NoRef
  <2>1. NoRef \in Refs
    BY Values
  <2>2. q.session = NoRef.session /\ q.historyOnly = NoRef.historyOnly /\ q.status = NoRef.status
    BY <1>1, <1>2, <1>3
  <2> QED BY <1>2, <2>1, <2>2 DEF Refs
<1> QED BY <1>1, <1>2, <1>3

\* The registry's entry with a session attached.
LEMMA EntryAttached ==
  ASSUME RegistryTypes, SessionsInv, NEW s \in Session \cup {Null}, NEW r, r = Attached(s)
  PROVE  /\ r \in Refs /\ r.status = ref.status /\ r.historyOnly = ref.historyOnly
         /\ r.session = IF Registered THEN s ELSE Null
         /\ r = NoRef <=> ref = NoRef
<1>1. ref \in Refs /\ (ref.status = "unknown" => ref = NoRef) /\ NoRef.status = "unknown" /\ NoRef.session = Null
  BY DEF RegistryTypes, SessionsInv, NoRef
<1>2. CASE Registered
  <2>1. r = [ref EXCEPT !.session = s]
    BY <1>2 DEF Attached
  <2>2. r \in Refs /\ r.status = ref.status /\ r.historyOnly = ref.historyOnly /\ r.session = s
    BY <1>1, <2>1 DEF Refs
  <2> QED BY <1>1, <1>2, <2>2 DEF Registered
<1>3. CASE ~Registered
  <2>1. r = ref
    BY <1>3 DEF Attached
  <2> QED BY <1>1, <1>3, <2>1 DEF Registered
<1> QED BY <1>2, <1>3

\* What the start of a dispose does to the sessions.
LEMMA DisposeKeepsSessions ==
  ASSUME SessionTypes, NEW s \in Session, BeginDispose(s)
  PROVE  \A t \in Session :
           /\ sess'[t] = "none" <=> sess[t] = "none"
           /\ sess[t] = "disposed" <=> sess'[t] = "disposed"
BY DEF SessionTypes, BeginDispose

\* An agent whose last session is disposed has no writer.
LEMMA LastDisposed ==
  ASSUME AgentsAssumption, Types, SessionsInv, NEW s \in Session, s = Latest, sess[s] = "disposed"
  PROVE  Writers = {}
BY DEF SessionsInv, Writers, Created

\* The task that spawned the agent ends.
LEMMA FinishKeepsAgent ==
  ASSUME AgentsAssumption, Types, AgentRest, Types',
         FinishKeepAlive \/ FinishAborted \/ FinishIsolated \/ FinishAbandons \/ FinishDisposed
  PROVE  AgentRest'
<1>0. /\ ref \in Refs /\ ref' \in Refs /\ adopted \in BOOLEAN /\ timer \in BOOLEAN
      /\ adopted' \in BOOLEAN /\ timer' \in BOOLEAN /\ (timer => adopted)
      /\ SessionTypes /\ RegistryTypes /\ SessionsInv
      /\ parks \subseteq {Latest} /\ releases \subseteq {Latest}
      /\ ~Registered <=> ref.status = "unknown"
      /\ ~Registered => ref.session = Null /\ ref.historyOnly = FALSE
      /\ ref.session \in {Null, Latest} /\ Latest \in Session \cup {Null} /\ Null \notin Session
      /\ 1 # Null
  BY Unknown, Values DEF Types, RegistryTypes, SessionTypes, AgentRest, SessionsInv
<1>1. CASE FinishKeepAlive
  <2>1. /\ run = "ending" /\ run' = "over" /\ (adopted' <=> adopted \/ Registered) /\ (timer' <=> timer \/ Registered)
        /\ UNCHANGED <<turn, parks, releases, revival, coldAdopted>>
    BY <1>0, <1>1 DEF FinishKeepAlive, registryVars, sessionVars, lifecycleVars, messageVars, agentVars
  <2>2. /\ ref'.session = ref.session /\ ref'.historyOnly = ref.historyOnly /\ (Registered' <=> Registered)
        /\ ref'.status = IF Registered THEN "idle" ELSE "unknown"
        /\ ref'.status = "unknown" => ref' = NoRef
    <3>1. ref' = IF Registered THEN [ref EXCEPT !.status = "idle"] ELSE ref
      BY <1>1 DEF FinishKeepAlive
    <3>2. "idle" \in Statuses \ {"unknown"}
      BY <1>0 DEF Statuses
    <3> QED BY <1>0, <3>1, <3>2, EntryStatus DEF Registered

  <2>3. \A t \in Session : /\ sess'[t] = "none" <=> sess[t] = "none"
                           /\ sess[t] = "disposed" <=> sess'[t] = "disposed"
    BY <1>1 DEF FinishKeepAlive, sessionVars
  <2>4. /\ SessionsInv' /\ Writers' = Writers /\ Latest' = Latest /\ Created' = Created
        /\ \A t \in Session : sess[t] = "none" \/ sess[t] = "disposed" \/ t \in Writers
    BY <1>0, <2>1, <2>2, <2>3, SessionsKept
  <2>5. /\ Latest = 1 /\ revival = "none" /\ ~adopted /\ parks = {}
        /\ ~ref.historyOnly /\ (Registered => ref.session = 1)
    BY <2>1 DEF AgentRest, RunOwnsAgent
  <2>6. WriterRegistered'
    BY <1>0, <2>1, <2>2, <2>4, <2>5 DEF WriterRegistered, AgentRest
  <2>7. RevivalAlone'
    BY <1>0, <2>1, <2>2, <2>4, <2>5 DEF RevivalAlone, AgentRest
  <2>8. RunOwnsAgent'
    BY <1>0, <2>1, <2>2, <2>4, <2>5 DEF RunOwnsAgent, AgentRest
  <2>9. HistoryRests'
    BY <1>0, <2>1, <2>2, <2>4, <2>5 DEF HistoryRests, AgentRest
  <2>10. IdleHasSession'
    BY <1>0, <2>1, <2>2, <2>4, <2>5 DEF IdleHasSession, AgentRest
  <2>11. IdleIsTimed'
    BY <1>0, <2>1, <2>2, <2>4, <2>5 DEF IdleIsTimed, AgentRest
  <2>12. PoisonInv'
    BY <1>0, <2>1, <2>2, <2>4, <2>5 DEF PoisonInv, AgentRest
  <2> QED BY <2>4, <2>6, <2>7, <2>8, <2>9, <2>10, <2>11, <2>12 DEF AgentRest
<1>2. CASE FinishAborted
  <2>1. /\ run = "ending" /\ run' = "terminal" /\ adopted' = adopted
        /\ UNCHANGED <<turn, parks, releases, revival, coldAdopted>>
    BY <1>0, <1>2 DEF FinishAborted, registryVars, sessionVars, lifecycleVars, messageVars, agentVars
  <2>2. /\ ref'.session = ref.session /\ ref'.historyOnly = ref.historyOnly /\ (Registered' <=> Registered)
        /\ ref'.status = IF Registered THEN "aborted" ELSE "unknown"
        /\ ref'.status = "unknown" => ref' = NoRef
    <3>1. Becomes(ref, "aborted")
      BY <1>2 DEF FinishAborted
    <3>2. /\ ref' = IF ref = NoRef THEN ref ELSE [ref EXCEPT !.status = "aborted"]
          /\ "aborted" \in Statuses \ {"unknown"}
      BY <3>1 DEF Becomes, Statuses
    <3> QED BY <1>0, <3>2, EntryStatus DEF Registered

  <2>3. \A t \in Session : /\ sess'[t] = "none" <=> sess[t] = "none"
                           /\ sess[t] = "disposed" <=> sess'[t] = "disposed"
    BY <1>0, <1>2, Values, DisposeKeepsSessions DEF FinishAborted
  <2>4. /\ SessionsInv' /\ Writers' = Writers /\ Latest' = Latest /\ Created' = Created
        /\ \A t \in Session : sess[t] = "none" \/ sess[t] = "disposed" \/ t \in Writers
    BY <1>0, <2>1, <2>2, <2>3, SessionsKept
  <2>5. /\ Latest = 1 /\ revival = "none" /\ ~adopted /\ parks = {}
        /\ ~ref.historyOnly /\ (Registered => ref.session = 1)
    BY <2>1 DEF AgentRest, RunOwnsAgent
  <2>6. WriterRegistered'
    BY <1>0, <2>1, <2>2, <2>4, <2>5 DEF WriterRegistered, AgentRest
  <2>7. RevivalAlone'
    BY <1>0, <2>1, <2>2, <2>4, <2>5 DEF RevivalAlone, AgentRest
  <2>8. RunOwnsAgent'
    BY <1>0, <2>1, <2>2, <2>4, <2>5 DEF RunOwnsAgent, AgentRest
  <2>9. HistoryRests'
    BY <1>0, <2>1, <2>2, <2>4, <2>5 DEF HistoryRests, AgentRest
  <2>10. IdleHasSession'
    BY <1>0, <2>1, <2>2, <2>4, <2>5 DEF IdleHasSession, AgentRest
  <2>11. IdleIsTimed'
    BY <1>0, <2>1, <2>2, <2>4, <2>5 DEF IdleIsTimed, AgentRest
  <2>12. PoisonInv'
    BY <1>0, <2>1, <2>2, <2>4, <2>5 DEF PoisonInv, AgentRest
  <2> QED BY <2>4, <2>6, <2>7, <2>8, <2>9, <2>10, <2>11, <2>12 DEF AgentRest
<1>3. CASE FinishIsolated
  <2>1. /\ run = "ending" /\ run' = "isolating" /\ adopted' = adopted
        /\ UNCHANGED <<turn, parks, releases, revival, coldAdopted>>
    BY <1>0, <1>3 DEF FinishIsolated, registryVars, sessionVars, lifecycleVars, messageVars, agentVars
  <2>2. /\ ref'.session = ref.session /\ (ref'.historyOnly <=> Registered) /\ (Registered' <=> Registered)
        /\ ref'.status = IF Registered THEN "parked" ELSE "unknown"
        /\ ref'.status = "unknown" => ref' = NoRef
    <3>1. ref' = IF Registered THEN [ref EXCEPT !.status = "parked", !.historyOnly = TRUE] ELSE ref
      BY <1>3 DEF FinishIsolated
    <3>2. CASE Registered
      <4>1. ref'.status = "parked" /\ ref'.historyOnly = TRUE /\ ref'.session = ref.session
        BY <1>0, <3>1, <3>2 DEF Refs
      <4> QED BY <3>2, <4>1 DEF Registered, NoRef
    <3>3. CASE ~Registered
      BY <1>0, <3>1, <3>3 DEF Registered
    <3> QED BY <3>2, <3>3

  <2>3. \A t \in Session : /\ sess'[t] = "none" <=> sess[t] = "none"
                           /\ sess[t] = "disposed" <=> sess'[t] = "disposed"
    BY <1>0, <1>3, Values, DisposeKeepsSessions DEF FinishIsolated
  <2>4. /\ SessionsInv' /\ Writers' = Writers /\ Latest' = Latest /\ Created' = Created
        /\ \A t \in Session : sess[t] = "none" \/ sess[t] = "disposed" \/ t \in Writers
    BY <1>0, <2>1, <2>2, <2>3, SessionsKept
  <2>5. /\ Latest = 1 /\ revival = "none" /\ ~adopted /\ parks = {}
        /\ ~ref.historyOnly /\ (Registered => ref.session = 1)
    BY <2>1 DEF AgentRest, RunOwnsAgent
  <2>6. WriterRegistered'
    BY <1>0, <2>1, <2>2, <2>4, <2>5 DEF WriterRegistered, AgentRest
  <2>7. RevivalAlone'
    BY <1>0, <2>1, <2>2, <2>4, <2>5 DEF RevivalAlone, AgentRest
  <2>8. RunOwnsAgent'
    BY <1>0, <2>1, <2>2, <2>4, <2>5 DEF RunOwnsAgent, AgentRest
  <2>9. HistoryRests'
    BY <1>0, <2>1, <2>2, <2>4, <2>5 DEF HistoryRests, AgentRest
  <2>10. IdleHasSession'
    BY <1>0, <2>1, <2>2, <2>4, <2>5 DEF IdleHasSession, AgentRest
  <2>11. IdleIsTimed'
    BY <1>0, <2>1, <2>2, <2>4, <2>5 DEF IdleIsTimed, AgentRest
  <2>12. PoisonInv'
    BY <1>0, <2>1, <2>2, <2>4, <2>5 DEF PoisonInv, AgentRest
  <2> QED BY <2>4, <2>6, <2>7, <2>8, <2>9, <2>10, <2>11, <2>12 DEF AgentRest
<1>4. CASE FinishAbandons
  <2>1. /\ run = "isolating" /\ run' = "abandoned" /\ adopted' = adopted
        /\ UNCHANGED <<turn, parks, releases, revival, coldAdopted>>
    BY <1>0, <1>4 DEF FinishAbandons, registryVars, sessionVars, lifecycleVars, messageVars, agentVars
  <2>2. /\ ref'.session = Null /\ ref'.historyOnly = ref.historyOnly /\ (Registered' <=> Registered)
        /\ ref'.status = ref.status
        /\ ref'.status = "unknown" => ref' = NoRef
    <3>1. ref' = [ref EXCEPT !.session = Null]
      BY <1>4 DEF FinishAbandons
    <3>2. CASE ref = NoRef
      BY <3>1, <3>2 DEF Registered, NoRef
    <3>3. CASE ref # NoRef
      <4>1. ref'.session = Null /\ ref'.historyOnly = ref.historyOnly /\ ref'.status = ref.status
        BY <1>0, <3>1, RefFields
      <4> QED BY <1>0, <3>3, <4>1 DEF Registered, NoRef
    <3> QED BY <3>2, <3>3

  <2>3. \A t \in Session : /\ sess'[t] = "none" <=> sess[t] = "none"
                           /\ sess[t] = "disposed" <=> sess'[t] = "disposed"
    BY <1>4 DEF FinishAbandons, sessionVars
  <2>4. /\ SessionsInv' /\ Writers' = Writers /\ Latest' = Latest /\ Created' = Created
        /\ \A t \in Session : sess[t] = "none" \/ sess[t] = "disposed" \/ t \in Writers
    BY <1>0, <2>1, <2>2, <2>3, SessionsKept
  <2>5. /\ Latest = 1 /\ revival = "none" /\ ~adopted /\ parks = {}
        /\ ~Registered \/ ref.historyOnly
    BY <2>1 DEF AgentRest, RunOwnsAgent
  <2>6. WriterRegistered'
    BY <1>0, <2>1, <2>2, <2>4, <2>5 DEF WriterRegistered, AgentRest
  <2>7. RevivalAlone'
    BY <1>0, <2>1, <2>2, <2>4, <2>5 DEF RevivalAlone, AgentRest
  <2>8. RunOwnsAgent'
    BY <1>0, <2>1, <2>2, <2>4, <2>5 DEF RunOwnsAgent, AgentRest
  <2>9. HistoryRests'
    BY <1>0, <2>1, <2>2, <2>4, <2>5 DEF HistoryRests, AgentRest
  <2>10. IdleHasSession'
    BY <1>0, <2>1, <2>2, <2>4, <2>5 DEF IdleHasSession, AgentRest
  <2>11. IdleIsTimed'
    BY <1>0, <2>1, <2>2, <2>4, <2>5 DEF IdleIsTimed, AgentRest
  <2>12. PoisonInv'
    BY <1>0, <2>1, <2>2, <2>4, <2>5 DEF PoisonInv, AgentRest
  <2> QED BY <2>4, <2>6, <2>7, <2>8, <2>9, <2>10, <2>11, <2>12 DEF AgentRest
<1>5. CASE FinishDisposed
  <2>1. /\ run \in {"terminal", "isolating", "abandoned"} /\ run' = "over" /\ sess[1] = "disposed"
        /\ UNCHANGED <<turn, parks, releases, revival, coldAdopted>>
    BY <1>0, <1>5 DEF FinishDisposed, registryVars, sessionVars, lifecycleVars, messageVars, agentVars
  <2>2. /\ ref'.session = Null /\ (ref'.historyOnly => ref.historyOnly)
        /\ ref'.status = "unknown" <=> ref' = NoRef
        /\ ref'.status \in {"unknown", "parked"} /\ (adopted' => adopted)
    <3>1. CASE ref.status = "parked"
      <4>1. ref' = [ref EXCEPT !.session = Null] /\ adopted' = adopted
        BY <1>5, <3>1 DEF FinishDisposed
      <4>2. ref'.session = Null /\ ref'.historyOnly = ref.historyOnly /\ ref'.status = "parked"
        BY <1>0, <3>1, <4>1, RefFields
      <4> QED BY <4>1, <4>2 DEF NoRef
    <3>2. CASE ref.status # "parked"
      <4>1. ref' = NoRef /\ adopted' = (adopted /\ ~Registered)
        BY <1>5, <3>2 DEF FinishDisposed, Unregister
      <4> QED BY <4>1 DEF NoRef
    <3> QED BY <3>1, <3>2

  <2>3. \A t \in Session : /\ sess'[t] = "none" <=> sess[t] = "none"
                           /\ sess[t] = "disposed" <=> sess'[t] = "disposed"
    BY <1>5 DEF FinishDisposed, sessionVars
  <2>4. /\ SessionsInv' /\ Writers' = Writers /\ Latest' = Latest /\ Created' = Created
        /\ \A t \in Session : sess[t] = "none" \/ sess[t] = "disposed" \/ t \in Writers
    BY <1>0, <2>1, <2>2, <2>3, SessionsKept
  <2>5. /\ revival = "none" /\ ~adopted /\ parks = {} /\ Writers = {}
    <3>1. /\ Latest = 1 /\ revival = "none" /\ ~adopted /\ parks = {}
      BY <2>1 DEF AgentRest, RunOwnsAgent
    <3> QED BY <1>0, <2>1, <3>1, Values, LastDisposed
  <2>6. WriterRegistered'
    BY <1>0, <2>1, <2>2, <2>4, <2>5 DEF WriterRegistered, AgentRest
  <2>7. RevivalAlone'
    BY <1>0, <2>1, <2>2, <2>4, <2>5 DEF RevivalAlone, AgentRest
  <2>8. RunOwnsAgent'
    BY <1>0, <2>1, <2>2, <2>4, <2>5 DEF RunOwnsAgent, AgentRest
  <2>9. HistoryRests'
    BY <1>0, <2>1, <2>2, <2>4, <2>5 DEF HistoryRests, AgentRest
  <2>10. IdleHasSession'
    BY <1>0, <2>1, <2>2, <2>4, <2>5 DEF IdleHasSession, AgentRest
  <2>11. IdleIsTimed'
    BY <1>0, <2>1, <2>2, <2>4, <2>5 DEF IdleIsTimed, AgentRest
  <2>12. PoisonInv'
    BY <1>0, <2>1, <2>2, <2>4, <2>5 DEF PoisonInv, AgentRest
  <2> QED BY <2>4, <2>6, <2>7, <2>8, <2>9, <2>10, <2>11, <2>12 DEF AgentRest
<1> QED BY <1>1, <1>2, <1>3, <1>4, <1>5

\* The lifecycle manager parks the agent, or a user removes it.
LEMMA ParkKeepsAgent ==
  ASSUME AgentsAssumption, Types, AgentRest, Types',
         TimerFires \/ (\E s \in Session : ParkEnds(s)) \/ Release \/ (\E s \in Session : ReleaseEnds(s))
  PROVE  AgentRest'
<1>0. /\ ref \in Refs /\ ref' \in Refs /\ adopted \in BOOLEAN /\ timer \in BOOLEAN
      /\ adopted' \in BOOLEAN /\ timer' \in BOOLEAN /\ (timer => adopted)
      /\ SessionTypes /\ RegistryTypes /\ SessionsInv
      /\ parks \subseteq {Latest} /\ releases \subseteq {Latest}
      /\ ~Registered <=> ref.status = "unknown"
      /\ ~Registered => ref.session = Null /\ ref.historyOnly = FALSE
      /\ ref.session \in {Null, Latest} /\ Latest \in Session \cup {Null} /\ Null \notin Session
      /\ 1 # Null
  BY Unknown, Values DEF Types, RegistryTypes, SessionTypes, AgentRest, SessionsInv
<1>1. CASE TimerFires
  <2>1. /\ timer /\ ~timer' /\ UNCHANGED <<ref, adopted, run, turn, releases, revival, coldAdopted>>
        /\ parks' = IF ref.session = Null THEN parks ELSE parks \cup {ref.session}
    BY <1>0, <1>1 DEF TimerFires, registryVars, sessionVars, lifecycleVars, messageVars, agentVars
  <2>2. ref'.session = ref.session /\ (ref'.status = "unknown" => ref' = NoRef) /\ (Registered' <=> Registered)
    BY <1>0, <2>1 DEF Registered

  <2>3. \A t \in Session : /\ sess'[t] = "none" <=> sess[t] = "none"
                           /\ sess[t] = "disposed" <=> sess'[t] = "disposed"
    <3>1. CASE ref.session = Null
      BY <1>1, <3>1 DEF TimerFires
    <3>2. CASE ref.session # Null
      <4>1. ref.session \in Session
        BY <1>0, <3>2, RefFields
      <4> QED BY <1>0, <1>1, <3>2, <4>1, DisposeKeepsSessions DEF TimerFires
    <3> QED BY <3>1, <3>2
  <2>4. /\ SessionsInv' /\ Writers' = Writers /\ Latest' = Latest /\ Created' = Created
        /\ \A t \in Session : sess[t] = "none" \/ sess[t] = "disposed" \/ t \in Writers
    BY <1>0, <2>1, <2>2, <2>3, SessionsKept
  <2>5. adopted /\ run = "over" /\ ref.session \in {Null, Latest}
    BY <1>0, <2>1 DEF AgentRest, RunOwnsAgent
  <2>6. WriterRegistered'
    BY <1>0, <2>1, <2>2, <2>4, <2>5 DEF WriterRegistered, AgentRest
  <2>7. RevivalAlone'
    BY <1>0, <2>1, <2>2, <2>4, <2>5 DEF RevivalAlone, AgentRest
  <2>8. RunOwnsAgent'
    BY <1>0, <2>1, <2>2, <2>4, <2>5 DEF RunOwnsAgent, AgentRest
  <2>9. HistoryRests'
    BY <1>0, <2>1, <2>2, <2>4, <2>5 DEF HistoryRests, AgentRest
  <2>10. IdleHasSession'
    BY <1>0, <2>1, <2>2, <2>4, <2>5 DEF IdleHasSession, AgentRest
  <2>11. IdleIsTimed'
    <3>1. ref.status = "idle" => ref.session # Null
      BY <2>5 DEF AgentRest, IdleHasSession
    <3> QED BY <2>1, <3>1 DEF IdleIsTimed
  <2>12. PoisonInv'
    BY <1>0, <2>1, <2>2, <2>4, <2>5 DEF PoisonInv, AgentRest
  <2> QED BY <2>4, <2>6, <2>7, <2>8, <2>9, <2>10, <2>11, <2>12 DEF AgentRest
<1>2. ASSUME NEW s \in Session, ParkEnds(s) PROVE AgentRest'
  <2>1. /\ s \in parks /\ sess[s] = "disposed" /\ parks' = parks \ {s}
        /\ UNCHANGED <<adopted, run, turn, releases, revival, coldAdopted>>
    BY <1>0, <1>2 DEF ParkEnds, registryVars, sessionVars, lifecycleVars, messageVars, agentVars
  <2>2. /\ ref'.session = Null /\ ref'.historyOnly = ref.historyOnly
        /\ ref'.status = "unknown" => ref' = NoRef
        /\ ref'.status \in {"parked", "unknown"} /\ (Registered' <=> Registered)
    <3> DEFINE q == [ref EXCEPT !.session = Null]
    <3>1. Becomes(q, "parked") /\ "parked" \in Statuses \ {"unknown"}
      BY <1>2 DEF ParkEnds, Statuses
    <3>2. /\ q \in Refs /\ q.session = Null /\ q.historyOnly = ref.historyOnly
          /\ q.status = ref.status /\ (q = NoRef <=> ref = NoRef)
      BY <1>0, EntryDetached DEF Registered
    <3> HIDE DEF q
    <3>3. ref' = IF q = NoRef THEN q ELSE [q EXCEPT !.status = "parked"]
      BY <3>1 DEF Becomes
    <3>4. /\ ref'.session = q.session /\ ref'.historyOnly = q.historyOnly /\ (ref' = NoRef <=> q = NoRef)
          /\ ref'.status = IF q = NoRef THEN "unknown" ELSE "parked"
      BY <3>1, <3>2, <3>3, EntryStatus
    <3> QED BY <3>2, <3>4 DEF Registered

  <2>3. \A t \in Session : /\ sess'[t] = "none" <=> sess[t] = "none"
                           /\ sess[t] = "disposed" <=> sess'[t] = "disposed"
    BY <1>2 DEF ParkEnds, sessionVars
  <2>4. /\ SessionsInv' /\ Writers' = Writers /\ Latest' = Latest /\ Created' = Created
        /\ \A t \in Session : sess[t] = "none" \/ sess[t] = "disposed" \/ t \in Writers
    BY <1>0, <2>1, <2>2, <2>3, SessionsKept
  <2>5. /\ Writers = {} /\ run = "over" /\ revival \notin {"resolving", "opening", "building"}
    <3>1. s = Latest
      BY <1>0, <2>1
    <3>2. Writers = {}
      BY <1>0, <2>1, <3>1, LastDisposed
    <3> QED BY <2>1, <3>2 DEF AgentRest, RunOwnsAgent, RevivalAlone
  <2>6. WriterRegistered'
    BY <1>0, <2>1, <2>2, <2>4, <2>5 DEF WriterRegistered, AgentRest
  <2>7. RevivalAlone'
    BY <1>0, <2>1, <2>2, <2>4, <2>5 DEF RevivalAlone, AgentRest
  <2>8. RunOwnsAgent'
    BY <1>0, <2>1, <2>2, <2>4, <2>5 DEF RunOwnsAgent, AgentRest
  <2>9. HistoryRests'
    BY <1>0, <2>1, <2>2, <2>4, <2>5 DEF HistoryRests, AgentRest
  <2>10. IdleHasSession'
    BY <1>0, <2>1, <2>2, <2>4, <2>5 DEF IdleHasSession, AgentRest
  <2>11. IdleIsTimed'
    BY <1>0, <2>1, <2>2, <2>4, <2>5 DEF IdleIsTimed, AgentRest
  <2>12. PoisonInv'
    BY <1>0, <2>1, <2>2, <2>4, <2>5 DEF PoisonInv, AgentRest
  <2> QED BY <2>4, <2>6, <2>7, <2>8, <2>9, <2>10, <2>11, <2>12 DEF AgentRest
<1>3. CASE Release
  <2>1. /\ Registered /\ ~adopted' /\ ~timer' /\ UNCHANGED <<run, turn, parks, revival, coldAdopted>>
        /\ ref' = IF ref.session = Null THEN NoRef ELSE ref
        /\ releases' = IF ref.session = Null THEN releases ELSE releases \cup {ref.session}
    BY <1>0, <1>3 DEF Release, registryVars, sessionVars, lifecycleVars, messageVars, agentVars
  <2>2. /\ ref'.session = ref.session /\ (ref'.historyOnly => ref.historyOnly)
        /\ ref'.status = "unknown" => ref' = NoRef
        /\ ref' = NoRef => ref.session = Null /\ ref'.status = "unknown" /\ ~ref'.historyOnly
        /\ ref' # NoRef => ref' = ref
        /\ Registered' <=> ref' # NoRef
    BY <1>0, <2>1 DEF Registered, NoRef

  <2>3. \A t \in Session : /\ sess'[t] = "none" <=> sess[t] = "none"
                           /\ sess[t] = "disposed" <=> sess'[t] = "disposed"
    <3>1. CASE ref.session = Null
      BY <1>3, <3>1 DEF Release
    <3>2. CASE ref.session # Null
      <4>1. ref.session \in Session
        BY <1>0, <3>2, RefFields
      <4> QED BY <1>0, <1>3, <3>2, <4>1, DisposeKeepsSessions DEF Release
    <3> QED BY <3>1, <3>2
  <2>4. /\ SessionsInv' /\ Writers' = Writers /\ Latest' = Latest /\ Created' = Created
        /\ \A t \in Session : sess[t] = "none" \/ sess[t] = "disposed" \/ t \in Writers
    BY <1>0, <2>1, <2>2, <2>3, SessionsKept
  <2>5. TRUE
    OBVIOUS
  <2>6. WriterRegistered'
    BY <1>0, <2>1, <2>2, <2>4 DEF WriterRegistered, AgentRest
  <2>7. RevivalAlone'
    BY <1>0, <2>1, <2>2, <2>4, <2>5 DEF RevivalAlone, AgentRest
  <2>8. RunOwnsAgent'
    <3>1. run \in {"prompting", "ending"} => ref.session = 1
      BY <2>1 DEF AgentRest, RunOwnsAgent
    <3>2. ref' # NoRef \/ ~Registered'
      BY <2>2
    <3>3. run' # "over" => Latest' = 1 /\ revival' = "none" /\ ~adopted' /\ parks' = {}
      BY <2>1, <2>4 DEF AgentRest, RunOwnsAgent
    <3>4. run' \in {"prompting", "ending"} =>
            ref'.status # "parked" /\ ~ref'.historyOnly /\ (Registered' => ref'.session = 1)
      BY <1>0, <2>1, <2>2, <3>1 DEF AgentRest, RunOwnsAgent, Null
    <3>5. run' = "terminal" => ref'.status # "parked"
      BY <2>1, <2>2 DEF AgentRest, RunOwnsAgent
    <3>6. run' \in {"isolating", "abandoned"} => ~Registered' \/ ref'.historyOnly
      BY <2>1, <2>2 DEF AgentRest, RunOwnsAgent
    <3> QED BY <3>3, <3>4, <3>5, <3>6 DEF RunOwnsAgent
  <2>9. HistoryRests'
    BY <1>0, <2>1, <2>2, <2>4, <2>5 DEF HistoryRests, AgentRest
  <2>10. IdleHasSession'
    BY <1>0, <2>1, <2>2, <2>4, <2>5 DEF IdleHasSession, AgentRest
  <2>11. IdleIsTimed'
    BY <1>0, <2>1, <2>2, <2>4, <2>5 DEF IdleIsTimed, AgentRest
  <2>12. PoisonInv'
    BY <1>0, <2>1, <2>2, <2>4, <2>5 DEF PoisonInv, AgentRest
  <2> QED BY <2>4, <2>6, <2>7, <2>8, <2>9, <2>10, <2>11, <2>12 DEF AgentRest
<1>4. ASSUME NEW s \in Session, ReleaseEnds(s) PROVE AgentRest'
  <2>1. /\ s \in releases /\ sess[s] = "disposed" /\ releases' = releases \ {s}
        /\ UNCHANGED <<run, turn, parks, revival, coldAdopted>>
        /\ ref' = NoRef /\ (adopted' <=> adopted /\ ~Registered)
    BY <1>0, <1>4, Zenon DEF ReleaseEnds, Unregister, registryVars, sessionVars, lifecycleVars,
       messageVars, agentVars
  <2>2. /\ ref'.session = Null /\ ref'.historyOnly = FALSE
        /\ ref'.status = "unknown" /\ ref' = NoRef /\ ~Registered'
    BY <2>1 DEF Registered, NoRef

  <2>3. \A t \in Session : /\ sess'[t] = "none" <=> sess[t] = "none"
                           /\ sess[t] = "disposed" <=> sess'[t] = "disposed"
    BY <1>4 DEF ReleaseEnds, sessionVars
  <2>4. /\ SessionsInv' /\ Writers' = Writers /\ Latest' = Latest /\ Created' = Created
        /\ \A t \in Session : sess[t] = "none" \/ sess[t] = "disposed" \/ t \in Writers
    BY <1>0, <2>1, <2>2, <2>3, SessionsKept
  <2>5. /\ Writers = {} /\ revival \notin {"resolving", "opening", "building"}
    <3>1. s = Latest
      BY <1>0, <2>1
    <3>2. Writers = {}
      BY <1>0, <2>1, <3>1, LastDisposed
    <3> QED BY <2>1, <3>2 DEF AgentRest, RevivalAlone
  <2>6. WriterRegistered'
    BY <1>0, <2>1, <2>2, <2>4, <2>5 DEF WriterRegistered, AgentRest
  <2>7. RevivalAlone'
    BY <1>0, <2>1, <2>2, <2>4, <2>5 DEF RevivalAlone, AgentRest
  <2>8. RunOwnsAgent'
    BY <1>0, <2>1, <2>2, <2>4, <2>5 DEF RunOwnsAgent, AgentRest
  <2>9. HistoryRests'
    BY <1>0, <2>1, <2>2, <2>4, <2>5 DEF HistoryRests, AgentRest
  <2>10. IdleHasSession'
    BY <1>0, <2>1, <2>2, <2>4, <2>5 DEF IdleHasSession, AgentRest
  <2>11. IdleIsTimed'
    BY <1>0, <2>1, <2>2, <2>4, <2>5 DEF IdleIsTimed, AgentRest
  <2>12. PoisonInv'
    BY <1>0, <2>1, <2>2, <2>4, <2>5 DEF PoisonInv, AgentRest
  <2> QED BY <2>4, <2>6, <2>7, <2>8, <2>9, <2>10, <2>11, <2>12 DEF AgentRest
<1> QED BY <1>1, <1>2, <1>3, <1>4

\* A revival starts only when the agent has no session that is not disposed,
\* nobody parks or removes it, and its task is over.
LEMMA StartKeepsAgent ==
  ASSUME AgentsAssumption, Types, AgentRest, ~Resumes,
         ref.session = Null, revival = "none", CanRevive, StartRevival,
         UNCHANGED <<ref, adopted, timer, run, sess, turn, parks, releases>>
  PROVE  AgentRest'
<1>1. /\ sess \in [Session -> {"none", "live", "disposing", "disposed"}] /\ parks \subseteq Session
      /\ releases \subseteq Session /\ Null \notin Session /\ Registered /\ ~ref.historyOnly
      /\ ref.status = "parked" /\ Fresh <= MaxSessions /\ Fresh = Latest + 1 /\ Latest \in Nat
      /\ MaxSessions \in Nat
      /\ revival' \in {"opening", "resolving"} /\ coldAdopted' = FALSE
      /\ adopted => revival' = "opening"
  BY Values, SessionCount DEF Types, SessionTypes, LifecycleTypes, CanRevive, StartRevival,
     Registered, NoRef, AgentsAssumption
<1>2. Created' = Created /\ Latest' = Latest
  BY NoneCreated
<1>3. Writers = {}
  BY <1>1 DEF AgentRest, WriterRegistered, Writers
<1>4. \A s \in Session : sess[s] = "none" \/ sess[s] = "disposed"
  BY <1>1, <1>3 DEF Writers
<1>5. parks = {} /\ releases = {}
  <2>1. ASSUME NEW s \in parks \cup releases PROVE FALSE
    <3>1. s \in Session /\ s = Latest /\ Created = 1..Latest
      BY <1>1, <2>1 DEF AgentRest, SessionsInv
    <3>2. s \in Created
      BY <1>1, <3>1 DEF Session
    <3>3. sess[s] = "disposed"
      BY <1>4, <3>1, <3>2 DEF Created
    <3> QED BY <2>1, <3>3 DEF Resumes
  <2> QED BY <2>1
<1>6. run = "over"
  <2>1. run \in {"prompting", "ending", "terminal", "isolating", "abandoned", "over"}
    BY DEF Types, RegistryTypes
  <2> QED BY <1>1, <2>1 DEF AgentRest, RunOwnsAgent
<1>7. SessionsInv' /\ WriterRegistered'
  BY <1>2 DEF AgentRest, SessionsInv, WriterRegistered, Writers, Registered
<1>8. RevivalAlone'
  BY <1>1, <1>2, <1>3, <1>5 DEF RevivalAlone, Writers
<1>9. RunOwnsAgent' /\ HistoryRests'
  BY <1>1, <1>6 DEF RunOwnsAgent, HistoryRests
<1>10. IdleHasSession' /\ IdleIsTimed' /\ PoisonInv'
  BY <1>1 DEF AgentRest, IdleHasSession, IdleIsTimed, PoisonInv, Registered
<1> QED BY <1>7, <1>8, <1>9, <1>10 DEF AgentRest

\* A revival of the agent, from its start to its end or failure.
LEMMA RevivalKeepsAgent ==
  ASSUME AgentsAssumption, Types, AgentRest, Types', ~Resumes,
         Revive \/ ReviverResolved \/ RevivalRegisters \/ RevivalAttaches \/ RevivalEnds \/ RevivalFails
  PROVE  AgentRest'
<1>0. /\ ref \in Refs /\ ref' \in Refs /\ adopted \in BOOLEAN /\ timer \in BOOLEAN
      /\ adopted' \in BOOLEAN /\ timer' \in BOOLEAN /\ (timer => adopted)
      /\ SessionTypes /\ RegistryTypes /\ SessionsInv
      /\ parks \subseteq {Latest} /\ releases \subseteq {Latest}
      /\ ~Registered <=> ref.status = "unknown"
      /\ ~Registered => ref.session = Null /\ ref.historyOnly = FALSE
      /\ ref.session \in {Null, Latest} /\ Latest \in Session \cup {Null} /\ Null \notin Session
      /\ 1 # Null
  BY Unknown, Values DEF Types, RegistryTypes, SessionTypes, AgentRest, SessionsInv
<1>00. /\ sess \in [Session -> {"none", "live", "disposing", "disposed"}]
      /\ turn \in [Session -> {"none", "preparing", "waking", "running"}]
      /\ run \in {"prompting", "ending", "terminal", "isolating", "abandoned", "over"}
      /\ Latest \in Nat /\ Fresh = Latest + 1
  BY SessionCount DEF Types, RegistryTypes, SessionTypes
<1>1. CASE Revive
  <2>1. /\ ref.session = Null /\ revival = "none" /\ CanRevive /\ StartRevival
        /\ UNCHANGED <<ref, adopted, timer, run, sess, turn, parks, releases>>
    BY <1>1 DEF Revive, registryVars, sessionVars
  <2> QED BY <2>1, StartKeepsAgent
<1>2. CASE ReviverResolved
  <2>1. /\ revival = "resolving" /\ revival' = "opening" /\ adopted' = TRUE /\ coldAdopted' = TRUE
        /\ UNCHANGED <<ref, timer, run, turn, parks, releases>>
    BY <1>0, <1>2 DEF ReviverResolved, registryVars, sessionVars, lifecycleVars, messageVars, agentVars
  <2>2. ref'.session = ref.session /\ (ref'.status = "unknown" => ref' = NoRef) /\ (Registered' <=> Registered)
    BY <1>0, <2>1 DEF Registered

  <2>3. \A t \in Session : /\ sess'[t] = "none" <=> sess[t] = "none"
                           /\ sess[t] = "disposed" <=> sess'[t] = "disposed"
    BY <1>2 DEF ReviverResolved, sessionVars
  <2>4. /\ SessionsInv' /\ Writers' = Writers /\ Latest' = Latest /\ Created' = Created
        /\ \A t \in Session : sess[t] = "none" \/ sess[t] = "disposed" \/ t \in Writers
    BY <1>0, <2>1, <2>2, <2>3, SessionsKept
  <2>5. /\ run = "over" /\ ~ref.historyOnly /\ ref.status \in {"parked", "unknown"}
        /\ Writers = {} /\ parks = {} /\ releases = {} /\ ref.session = Null /\ Latest < MaxSessions
    BY <1>0, <2>1 DEF AgentRest, RunOwnsAgent, HistoryRests, RevivalAlone
  <2>6. WriterRegistered'
    BY <1>0, <2>1, <2>2, <2>4, <2>5 DEF WriterRegistered, AgentRest
  <2>7. RevivalAlone'
    BY <1>0, <2>1, <2>2, <2>4, <2>5 DEF RevivalAlone, AgentRest
  <2>8. RunOwnsAgent'
    BY <1>0, <2>1, <2>2, <2>4, <2>5 DEF RunOwnsAgent, AgentRest
  <2>9. HistoryRests'
    BY <1>0, <2>1, <2>2, <2>4, <2>5 DEF HistoryRests, AgentRest
  <2>10. IdleHasSession'
    BY <1>0, <2>1, <2>2, <2>4, <2>5 DEF IdleHasSession, AgentRest
  <2>11. IdleIsTimed'
    BY <1>0, <2>1, <2>2, <2>4, <2>5 DEF IdleIsTimed, AgentRest
  <2>12. PoisonInv'
    BY <1>0, <2>1, <2>2, <2>4, <2>5 DEF PoisonInv, AgentRest
  <2> QED BY <2>4, <2>6, <2>7, <2>8, <2>9, <2>10, <2>11, <2>12 DEF AgentRest
<1>3. CASE RevivalRegisters
  <2>1. /\ revival = "opening" /\ revival' = "building"
        /\ UNCHANGED <<adopted, timer, run, turn, parks, releases, coldAdopted>>
    BY <1>0, <1>3 DEF RevivalRegisters, registryVars, sessionVars, lifecycleVars, messageVars, agentVars
  <2>2. /\ ref'.session = Null /\ ref'.historyOnly = FALSE /\ ref'.status = "running" /\ Registered'
        /\ ref'.status = "unknown" => ref' = NoRef
    BY <1>3 DEF RevivalRegisters, Registered, NoRef

  <2>3. \A t \in Session : /\ sess'[t] = "none" <=> sess[t] = "none"
                           /\ sess[t] = "disposed" <=> sess'[t] = "disposed"
    BY <1>3 DEF RevivalRegisters, sessionVars
  <2>4. /\ SessionsInv' /\ Writers' = Writers /\ Latest' = Latest /\ Created' = Created
        /\ \A t \in Session : sess[t] = "none" \/ sess[t] = "disposed" \/ t \in Writers
    BY <1>0, <2>1, <2>2, <2>3, SessionsKept
  <2>5. /\ run = "over"
        /\ Writers = {} /\ parks = {} /\ releases = {} /\ ref.session = Null /\ Latest < MaxSessions
    BY <1>0, <2>1 DEF AgentRest, RunOwnsAgent, RevivalAlone
  <2>6. WriterRegistered'
    BY <1>0, <2>1, <2>2, <2>4, <2>5 DEF WriterRegistered, AgentRest
  <2>7. RevivalAlone'
    BY <1>0, <2>1, <2>2, <2>4, <2>5 DEF RevivalAlone, AgentRest
  <2>8. RunOwnsAgent'
    BY <1>0, <2>1, <2>2, <2>4, <2>5 DEF RunOwnsAgent, AgentRest
  <2>9. HistoryRests'
    BY <1>0, <2>1, <2>2, <2>4, <2>5 DEF HistoryRests, AgentRest
  <2>10. IdleHasSession'
    BY <1>0, <2>1, <2>2, <2>4, <2>5 DEF IdleHasSession, AgentRest
  <2>11. IdleIsTimed'
    BY <1>0, <2>1, <2>2, <2>4, <2>5 DEF IdleIsTimed, AgentRest
  <2>12. PoisonInv'
    BY <1>0, <2>1, <2>2, <2>4, <2>5 DEF PoisonInv, AgentRest
  <2> QED BY <2>4, <2>6, <2>7, <2>8, <2>9, <2>10, <2>11, <2>12 DEF AgentRest
<1>4. CASE RevivalAttaches
  <2>1. /\ revival = "building" /\ sess' = [sess EXCEPT ![Latest + 1] = "live"]
        /\ UNCHANGED <<adopted, run, turn, parks, releases>>
        /\ revival' = IF restored THEN "attached" ELSE "none"
        /\ IF restored THEN ref' = Attached(Latest + 1) /\ timer' = timer
                       ELSE Becomes(Attached(Latest + 1), "idle")
    BY <1>00, <1>4 DEF RevivalAttaches
  <2>2. /\ run = "over" /\ ~ref.historyOnly /\ Latest < MaxSessions /\ Latest + 1 \in Session
        /\ Writers = {} /\ parks = {} /\ releases = {} /\ ref.session = Null /\ Created = 1..Latest
        /\ adopted => Registered /\ ref.status # "idle"
    <3>1. Latest < MaxSessions /\ Latest + 1 \in Session
      BY <1>00, <2>1, Values DEF AgentRest, RevivalAlone
    <3>2. adopted => Registered /\ ref.status # "idle"
      BY <2>1 DEF AgentRest, PoisonInv, RevivalAlone, IdleHasSession
    <3> QED BY <2>1, <3>1, <3>2 DEF AgentRest, RunOwnsAgent, HistoryRests, RevivalAlone, SessionsInv
  <2>3. Created' = 1..Latest' /\ Latest' = Latest + 1
    <3>1. \A s \in Session : sess'[s] # "none" <=> sess[s] # "none" \/ s = Latest + 1
      BY <1>00, <2>1
    <3> QED BY <2>2, <3>1, NextCreated
  <2>4. /\ ref'.historyOnly = ref.historyOnly /\ (ref' = NoRef <=> ref = NoRef)
        /\ ref'.status = "unknown" => ref' = NoRef
        /\ ref'.session = IF Registered THEN Latest + 1 ELSE Null
        /\ adopted /\ ref'.status = "idle" => timer'
    <3>0. PICK r : r = Attached(Latest + 1)
      OBVIOUS
    <3>1. /\ r \in Refs /\ r.status = ref.status /\ r.historyOnly = ref.historyOnly
          /\ r.session = IF Registered THEN Latest + 1 ELSE Null
          /\ r = NoRef <=> ref = NoRef
      BY <1>0, <2>2, <3>0, EntryAttached
    <3>2. CASE restored
      <4>1. ref' = r /\ timer' = timer
        BY <2>1, <3>0, <3>2
      <4>2. adopted => ref'.status # "idle"
        BY <2>2, <3>1, <4>1
      <4> QED BY <1>0, <3>1, <4>1, <4>2 DEF Registered
    <3>3. CASE ~restored
      <4>1. Becomes(r, "idle") /\ "idle" \in Statuses \ {"unknown"}
        BY <2>1, <3>0, <3>3 DEF Statuses
      <4>2. ref' = IF r = NoRef THEN r ELSE [r EXCEPT !.status = "idle"]
        BY <4>1 DEF Becomes
      <4>3. /\ ref'.session = r.session /\ ref'.historyOnly = r.historyOnly /\ (ref' = NoRef <=> r = NoRef)
            /\ ref'.status = IF r = NoRef THEN "unknown" ELSE "idle"
        BY <3>1, <4>1, <4>2, EntryStatus
      <4>4. adopted /\ r # NoRef /\ r.status # "idle" => timer'
        BY <1>0, <3>1, <4>1, BecomesEffect
      <4>5. adopted => timer'
        BY <2>2, <3>1, <4>4 DEF Registered
      <4> QED BY <1>0, <3>1, <4>3, <4>5 DEF Registered
    <3> QED BY <3>2, <3>3
  <2>5. /\ Registered' <=> Registered
        /\ \A s \in Session : s # Latest + 1 => sess'[s] = sess[s]
        /\ sess'[Latest + 1] = "live"
    BY <1>00, <2>1, <2>2, <2>4 DEF Registered
  <2>6. Writers' = {Latest + 1}
    BY <1>00, <2>2, <2>5 DEF Writers
  <2>7. SessionsInv'
    <3>1. \A s \in Created' : s # Latest' => sess'[s] = "disposed"
      <4>1. ASSUME NEW s \in Created', s # Latest' PROVE sess'[s] = "disposed"
        <5>1. s \in Created /\ s \in Session /\ s # Latest + 1
          BY <1>00, <2>2, <2>3, <4>1 DEF Created
        <5> QED BY <1>00, <2>2, <2>5, <5>1 DEF Writers, Created
      <4> QED BY <4>1
    <3>2. \A s \in Session : turn'[s] # "none" => sess'[s] \in {"live", "disposing"}
      BY <2>1, <2>5 DEF AgentRest, SessionsInv
    <3>3. ref'.session \in {Null, Latest'} /\ parks' \cup releases' \subseteq {Latest'}
      BY <2>1, <2>2, <2>3, <2>4
    <3> QED BY <2>3, <2>4, <3>1, <3>2, <3>3 DEF SessionsInv
  <2>8. WriterRegistered'
    BY <1>0, <1>00, <2>1, <2>2, <2>3, <2>4, <2>5, <2>6 DEF WriterRegistered, AgentRest
  <2>9. RevivalAlone'
    BY <1>0, <1>00, <2>1, <2>2, <2>3, <2>4, <2>5, <2>6 DEF RevivalAlone, AgentRest
  <2>10. RunOwnsAgent'
    BY <1>0, <1>00, <2>1, <2>2, <2>3, <2>4, <2>5, <2>6 DEF RunOwnsAgent, AgentRest
  <2>11. HistoryRests'
    BY <1>0, <1>00, <2>1, <2>2, <2>3, <2>4, <2>5, <2>6 DEF HistoryRests, AgentRest
  <2>12. IdleHasSession'
    BY <1>0, <1>00, <2>1, <2>2, <2>3, <2>4, <2>5, <2>6 DEF IdleHasSession, AgentRest
  <2>13. IdleIsTimed'
    BY <1>0, <1>00, <2>1, <2>2, <2>3, <2>4, <2>5, <2>6 DEF IdleIsTimed, AgentRest
  <2>14. PoisonInv'
    BY <1>0, <1>00, <2>1, <2>2, <2>3, <2>4, <2>5, <2>6 DEF PoisonInv, AgentRest
  <2> QED BY <2>7, <2>8, <2>9, <2>10, <2>11, <2>12, <2>13, <2>14 DEF AgentRest
<1>5. CASE RevivalEnds
  <2>1. /\ revival = "attached" /\ revival' = "none" /\ Becomes(Attached(Latest), "idle")
        /\ UNCHANGED <<adopted, run, turn, parks, releases, coldAdopted>>
    BY <1>00, <1>5 DEF RevivalEnds, registryVars, sessionVars, lifecycleVars, messageVars, agentVars
  <2>2. /\ ref'.session = IF Registered THEN Latest ELSE Null
        /\ ref'.historyOnly = ref.historyOnly /\ (Registered' <=> Registered)
        /\ ref'.status = IF Registered THEN "idle" ELSE "unknown"
        /\ ref'.status = "unknown" => ref' = NoRef
        /\ adopted /\ Registered /\ ref.status # "idle" => timer'
        /\ ref.status = "idle" => (timer' <=> timer)
    <3>0. PICK r : r = Attached(Latest)
      OBVIOUS
    <3>1. /\ r \in Refs /\ r.status = ref.status /\ r.historyOnly = ref.historyOnly
          /\ r.session = IF Registered THEN Latest ELSE Null
          /\ r = NoRef <=> ref = NoRef
      BY <1>0, <3>0, EntryAttached
    <3>2. Becomes(r, "idle") /\ "idle" \in Statuses \ {"unknown"}
      BY <2>1, <3>0 DEF Statuses
    <3>3. ref' = IF r = NoRef THEN r ELSE [r EXCEPT !.status = "idle"]
      BY <3>2 DEF Becomes
    <3>4. /\ ref'.session = r.session /\ ref'.historyOnly = r.historyOnly /\ (ref' = NoRef <=> r = NoRef)
          /\ ref'.status = IF r = NoRef THEN "unknown" ELSE "idle"
      BY <3>1, <3>2, <3>3, EntryStatus
    <3>5. /\ adopted /\ r # NoRef /\ "idle" = "idle" /\ r.status # "idle" => timer'
          /\ r = NoRef \/ r.status = "idle" \/ "idle" \notin {"idle", "running"} => (timer' <=> timer)
      BY <1>0, <3>1, <3>2, BecomesEffect
    <3> QED BY <3>1, <3>4, <3>5 DEF Registered

  <2>3. \A t \in Session : /\ sess'[t] = "none" <=> sess[t] = "none"
                           /\ sess[t] = "disposed" <=> sess'[t] = "disposed"
    BY <1>5 DEF RevivalEnds, sessionVars
  <2>4. /\ SessionsInv' /\ Writers' = Writers /\ Latest' = Latest /\ Created' = Created
        /\ \A t \in Session : sess[t] = "none" \/ sess[t] = "disposed" \/ t \in Writers
    BY <1>0, <2>1, <2>2, <2>3, SessionsKept
  <2>5. /\ run = "over" /\ ~ref.historyOnly /\ Latest > 0 /\ Latest # Null
        /\ \A s \in Writers : s = Latest
    <3>1. Latest > 0 /\ Latest # Null
      BY <1>00, <2>1 DEF AgentRest, RevivalAlone, Null
    <3>2. \A s \in Writers : s = Latest
      BY DEF AgentRest, SessionsInv, Writers, Created
    <3> QED BY <2>1, <3>1, <3>2 DEF AgentRest, RunOwnsAgent, HistoryRests
  <2>6. WriterRegistered'
    BY <1>0, <2>1, <2>2, <2>4, <2>5 DEF WriterRegistered, AgentRest
  <2>7. RevivalAlone'
    BY <1>0, <2>1, <2>2, <2>4, <2>5 DEF RevivalAlone, AgentRest
  <2>8. RunOwnsAgent'
    BY <1>0, <2>1, <2>2, <2>4, <2>5 DEF RunOwnsAgent, AgentRest
  <2>9. HistoryRests'
    BY <1>0, <2>1, <2>2, <2>4, <2>5 DEF HistoryRests, AgentRest
  <2>10. IdleHasSession'
    BY <1>0, <2>1, <2>2, <2>4, <2>5 DEF IdleHasSession, AgentRest
  <2>11. IdleIsTimed'
    BY <1>0, <2>1, <2>2, <2>4, <2>5 DEF IdleIsTimed, AgentRest
  <2>12. PoisonInv'
    BY <1>0, <2>1, <2>2, <2>4, <2>5 DEF PoisonInv, AgentRest
  <2> QED BY <2>4, <2>6, <2>7, <2>8, <2>9, <2>10, <2>11, <2>12 DEF AgentRest
<1>6. CASE RevivalFails
  <2>1. /\ revival \in {"resolving", "opening", "building"} /\ revival' = "none"
        /\ UNCHANGED <<run, turn, parks, releases>>
        /\ adopted' => adopted /\ ~coldAdopted /\ ~(revival = "building" /\ Registered)
        /\ adopted' => ref' = ref /\ (timer' <=> timer)
        /\ ref' = ref \/ ref' = NoRef
    BY <1>0, <1>6, Zenon DEF RevivalFails, RevivalGivesUp, registryVars, sessionVars,
       lifecycleVars, messageVars, agentVars
  <2>2. /\ ref'.session = Null /\ (ref'.historyOnly => ref.historyOnly)
        /\ ref'.status = "unknown" => ref' = NoRef
    <3>1. ref.session = Null
      BY <2>1 DEF AgentRest, RevivalAlone
    <3> QED BY <1>0, <2>1, <3>1 DEF Registered, NoRef

  <2>3. \A t \in Session : /\ sess'[t] = "none" <=> sess[t] = "none"
                           /\ sess[t] = "disposed" <=> sess'[t] = "disposed"
    BY <1>6 DEF RevivalFails, RevivalGivesUp, sessionVars
  <2>4. /\ SessionsInv' /\ Writers' = Writers /\ Latest' = Latest /\ Created' = Created
        /\ \A t \in Session : sess[t] = "none" \/ sess[t] = "disposed" \/ t \in Writers
    BY <1>0, <2>1, <2>2, <2>3, SessionsKept
  <2>5. /\ run = "over" /\ ~ref.historyOnly /\ Writers = {} /\ parks = {} /\ releases = {}
    BY <2>1 DEF AgentRest, RunOwnsAgent, HistoryRests, RevivalAlone
  <2>6. WriterRegistered'
    BY <1>0, <2>1, <2>2, <2>4, <2>5 DEF WriterRegistered, AgentRest
  <2>7. RevivalAlone'
    BY <1>0, <2>1, <2>2, <2>4, <2>5 DEF RevivalAlone, AgentRest
  <2>8. RunOwnsAgent'
    BY <1>0, <2>1, <2>2, <2>4, <2>5 DEF RunOwnsAgent, AgentRest
  <2>9. HistoryRests'
    BY <1>0, <2>1, <2>2, <2>4, <2>5 DEF HistoryRests, AgentRest
  <2>10. IdleHasSession'
    BY <1>0, <2>1, <2>2, <2>4, <2>5 DEF IdleHasSession, AgentRest
  <2>11. IdleIsTimed'
    BY <1>0, <2>1, <2>2, <2>4, <2>5 DEF IdleIsTimed, AgentRest
  <2>12. PoisonInv'
    <3>1. adopted' => Registered
      BY <2>1 DEF AgentRest, PoisonInv
    <3>2. adopted' => Registered'
      BY <2>1, <3>1 DEF Registered
    <3> QED BY <3>2 DEF PoisonInv
  <2> QED BY <2>4, <2>6, <2>7, <2>8, <2>9, <2>10, <2>11, <2>12 DEF AgentRest
<1> QED BY <1>1, <1>2, <1>3, <1>4, <1>5, <1>6

-----------------------------------------------------------------------------
(* The messages *)

\* Sending keeps the types.
LEMMA SendTypes ==
  ASSUME AgentsAssumption, Types, NEW m \in Msg, Send(m)
  PROVE  Types'
<1>1. RegistryTypes' /\ SessionTypes' /\ InboxTypes'
  BY DEF Send, Types, RegistryTypes, SessionTypes, InboxTypes, registryVars, sessionVars, inboxVars
<1>2. LifecycleTypes'
  <2>1. UNCHANGED <<revival, coldAdopted>> \/ StartRevival
    BY DEF Send, SendFails, SendDirectly, SendRevives
  <2> QED BY <2>1 DEF Send, StartRevival, Revivals, Types, LifecycleTypes
<1>3. BusTypes'
  BY DEF Send, SendFails, SendDirectly, SendRevives, Types, BusTypes
<1> QED BY <1>1, <1>2, <1>3 DEF Types

\* Handing a message over keeps the types.
LEMMA HandOverTypes ==
  ASSUME AgentsAssumption, Types, MailOnce, NEW m \in Msg, m \notin ToSet(mailbox), HandOver(m)
  PROVE  Types'
<1>1. RegistryTypes' /\ LifecycleTypes'
  BY DEF HandOver, Types, RegistryTypes, LifecycleTypes, registryVars, lifecycleVars
<1>2. SessionTypes'
  BY DEF HandOver, ToWaiter, ToNobody, ToMailbox, ToSession, Types, SessionTypes
<1>3. BusTypes'
  BY DEF HandOver, ToWaiter, ToNobody, ToMailbox, ToSession, Types, BusTypes
<1>4. InboxTypes'
  <2>1. CASE ToWaiter(m)
    BY <2>1 DEF ToWaiter, Give, Types, InboxTypes
  <2>2. CASE ToNobody(m)
    BY <2>2 DEF ToNobody, Types, InboxTypes, inboxVars
  <2>3. CASE ToMailbox(m)
    <3>1. /\ mailbox \in Seq(Msg) /\ Len(mailbox) <= MailboxCap /\ MailboxCap \in Nat \ {0}
          /\ DOMAIN mailbox = 1..Len(mailbox)
      BY DEF Types, InboxTypes, AgentsAssumption
    <3>2. \A i, j \in 1..Len(mailbox) : mailbox[i] = mailbox[j] => i = j
      BY <3>1 DEF MailOnce
    <3>3. mailbox' = Queued(mailbox, m, MailboxCap)
      BY <2>3 DEF ToMailbox, Queued
    <3>4. mailbox' \in Seq(Msg) /\ Len(mailbox') <= MailboxCap
      BY <3>1, <3>2, <3>3, MailAdded
    <3> QED BY <2>3, <3>4 DEF ToMailbox, Types, InboxTypes
  <2>4. CASE ToSession(m)
    BY <2>4 DEF ToSession, Give, Types, InboxTypes
  <2> QED BY <2>1, <2>2, <2>3, <2>4 DEF HandOver
<1> QED BY <1>1, <1>2, <1>3, <1>4 DEF Types

\* Cutting a message out of the mailbox keeps its type.
LEMMA MailCut ==
  ASSUME Types, MailOnce, NEW k \in DOMAIN mailbox
  PROVE  /\ mailbox[k] \in Msg /\ mailbox[k] \in ToSet(mailbox)
         /\ RemoveAt(mailbox, k) \in Seq(Msg)
         /\ Len(RemoveAt(mailbox, k)) <= MailboxCap
         /\ ToSet(RemoveAt(mailbox, k)) = ToSet(mailbox) \ {mailbox[k]}
         /\ \A i, j \in DOMAIN RemoveAt(mailbox, k) :
              RemoveAt(mailbox, k)[i] = RemoveAt(mailbox, k)[j] => i = j
<1>1. /\ mailbox \in Seq(Msg) /\ Len(mailbox) <= MailboxCap /\ Len(mailbox) \in Nat
      /\ DOMAIN mailbox = 1..Len(mailbox) /\ mailbox[k] \in Msg
      /\ \A i, j \in 1..Len(mailbox) : mailbox[i] = mailbox[j] => i = j
  BY DEF Types, InboxTypes, MailOnce
<1>2. /\ RemoveAt(mailbox, k) \in Seq(Msg) /\ Len(RemoveAt(mailbox, k)) = Len(mailbox) - 1
  BY <1>1, CutOut
<1>3. /\ \A i, j \in 1..Len(mailbox) - 1 :
           RemoveAt(mailbox, k)[i] = RemoveAt(mailbox, k)[j] => i = j
      /\ ToSet(RemoveAt(mailbox, k)) = ToSet(mailbox) \ {mailbox[k]}
  BY <1>1, CutOutDistinct
<1>4. DOMAIN RemoveAt(mailbox, k) = 1..Len(mailbox) - 1
  BY <1>1, <1>2
<1>5. Len(mailbox) - 1 <= MailboxCap
  <2>1. MailboxCap \in Nat
    BY AgentsAssumption DEF AgentsAssumption
  <2> QED BY <1>1, <2>1
<1>6. mailbox[k] \in ToSet(mailbox)
  BY DEF ToSet
<1> QED BY <1>1, <1>2, <1>3, <1>4, <1>5, <1>6

\* The irc tool keeps the types.
LEMMA ToolTypes ==
  ASSUME AgentsAssumption, Types, MailOnce,
         (\E from \in Peers \cup {"any"} : Wait(from)) \/ WaitEnds \/ Inbox
  PROVE  Types'
<1>1. UNCHANGED <<agentVars, busVars>>
  BY DEF Wait, WaitEnds, Inbox
<1>2. RegistryTypes' /\ SessionTypes' /\ LifecycleTypes' /\ BusTypes'
  BY <1>1 DEF agentVars, busVars, registryVars, sessionVars, lifecycleVars, Types, RegistryTypes,
     SessionTypes, LifecycleTypes, BusTypes
<1>3. InboxTypes
  BY DEF Types
<1>4. ASSUME NEW from \in Peers \cup {"any"}, Wait(from) PROVE InboxTypes'
  <2>1. ASSUME NEW m \in Unshown, TakePending(m) PROVE InboxTypes'
    <3>1. m \in Msg /\ ref.session \in Session
      BY <1>3, RefFields DEF Unshown, Types, RegistryTypes, InboxTypes
    <3> QED BY <1>3, <2>1, <3>1 DEF TakePending, Give, InboxTypes
  <2>2. ASSUME NEW k \in DOMAIN mailbox, mailbox' = RemoveAt(mailbox, k), Give(mailbox[k]),
               UNCHANGED <<pending, waiting>>
        PROVE  InboxTypes'
    <3>1. heard' \in [Msg -> Nat]
      BY <1>3, <2>2, MailCut DEF Give, InboxTypes
    <3> QED BY <1>3, <2>2, <3>1, MailCut DEF InboxTypes
  <2>3. CASE waiting' = from /\ UNCHANGED <<pending, heard, mailbox>>
    BY <1>3, <2>3 DEF InboxTypes
  <2> QED BY <1>4, <2>1, <2>2, <2>3 DEF Wait, TakeMail
<1>5. CASE WaitEnds
  BY <1>2, <1>3, <1>5 DEF WaitEnds, InboxTypes, Types
<1>6. CASE Inbox
  <2>1. mailbox' = <<>> /\ <<>> \in Seq(Msg) /\ Len(<<>>) = 0 /\ 0 <= MailboxCap
    BY <1>6 DEF Inbox, AgentsAssumption
  <2>2. pending' \in [Session -> SUBSET Msg] /\ waiting' = waiting
    BY <1>3, <1>6 DEF Inbox, InboxTypes
  <2>3. Unshown \cup ToSet(mailbox) \in SUBSET Msg
    BY <1>3, RefFields DEF Unshown, ToSet, Types, RegistryTypes, InboxTypes
  <2>4. heard' \in [Msg -> Nat]
    BY <1>3, <1>6, <2>3, HeardTypes DEF Inbox
  <2> QED BY <1>2, <1>3, <2>1, <2>2, <2>4 DEF InboxTypes, Types
<1> QED BY <1>2, <1>4, <1>5, <1>6 DEF Types


\* Messages are pending in one session only: the last one, registered and live.
LEMMA OnePending ==
  ASSUME AgentsAssumption, Types, SessionsInv, PendingRegistered,
         NEW s \in Session, pending[s] # {}
  PROVE  s = Latest /\ sess[s] = "live" /\ ref.session = s /\ s # Null
<1>1. sess[s] = "live" /\ ref.session = s
  BY DEF PendingRegistered
<1>2. s \in Created /\ sess[s] # "disposed"
  BY <1>1 DEF Created
<1> QED BY <1>1, <1>2, Values DEF SessionsInv

\* Steps that move no message: nothing pending loses its session.
LEMMA QuietKeepsMail ==
  ASSUME AgentsAssumption, Types, SessionsInv, MailInv, Types',
         UNCHANGED <<pending, heard, mailbox>>, waiting' \in {waiting, "no"},
         \/ \A s \in Session : pending[s] = {}
         \/ ref'.session = ref.session /\ \A s \in Session : sess[s] = "live" => sess'[s] = "live",
         \A m \in Msg :
           /\ sending'[m] # "done" <=> receipt'[m] = "none"
           /\ receipt'[m] = receipt[m] \/ (receipt[m] = "none" /\ receipt'[m] = "failed")
  PROVE  MailInv'
<1>1. PendingRegistered'
  BY DEF MailInv, PendingRegistered
<1>2. MailOnce'
  BY DEF MailInv, MailOnce
<1>3. OnePlace'
  BY DEF MailInv, OnePlace, ToSet
<1>4. ReceiptsTell'
  BY DEF MailInv, ReceiptsTell, ToSet
<1>5. NoMailBehindAWait'
  <2>1. ASSUME NEW m \in Unshown' \cup ToSet(mailbox') PROVE ~Awaits(m)'
    <3>0. /\ pending' \in [Session -> SUBSET Msg] /\ mailbox' \in Seq(Msg)
          /\ ref'.session \in Session \cup {Null}
      BY RefFields DEF Types, InboxTypes, RegistryTypes
    <3>1. m \in Msg /\ m.from \in Peers /\ m.from # "no"
      <4>1. m \in Msg
        BY <2>1, <3>0 DEF Unshown, ToSet
      <4> QED BY <4>1 DEF Msg, AgentsAssumption
    <3>2. m \in Unshown \cup ToSet(mailbox)
      <4>1. CASE m \in ToSet(mailbox')
        BY <4>1
      <4>2. CASE m \in Unshown'
        <5>1. ref'.session # Null /\ m \in pending[ref'.session] /\ ref'.session \in Session
          BY <4>2, RefFields DEF Unshown, Types, RegistryTypes
        <5>2. ref'.session = ref.session
          BY <5>1
        <5> QED BY <5>1, <5>2 DEF Unshown
      <4> QED BY <2>1, <4>1, <4>2
    <3>3. ~Awaits(m)
      BY <3>2 DEF MailInv, NoMailBehindAWait
    <3> QED BY <3>1, <3>3 DEF Awaits
  <2> QED BY <2>1 DEF NoMailBehindAWait
<1> QED BY <1>1, <1>2, <1>3, <1>4, <1>5 DEF MailInv

\* Steps that give the agent all that is pending in its last session.
LEMMA FlushKeepsMail ==
  ASSUME AgentsAssumption, Types, SessionsInv, MailInv, Types', NEW s \in Session,
         \A t \in Session : pending[t] # {} => t = s,
         pending' = [pending EXCEPT ![s] = {}],
         heard' = [m \in Msg |-> heard[m] + (IF m \in pending[s] THEN 1 ELSE 0)],
         waiting' = waiting, UNCHANGED <<mailbox, sending, receipt>>
  PROVE  MailInv'
<1>1. \A t \in Session : pending'[t] = {}
  BY DEF Types, InboxTypes
<1>2. PendingRegistered'
  BY <1>1 DEF PendingRegistered
<1>3. MailOnce'
  BY DEF MailInv, MailOnce
<1>4. \A m \in Msg : heard[m] \in Nat /\ heard'[m] = IF m \in pending[s] THEN heard[m] + 1 ELSE heard[m]
  BY DEF Types, InboxTypes
<1>5. OnePlace'
  <2>1. ASSUME NEW m \in Msg
        PROVE  heard'[m] <= 1 /\ (m \in ToSet(mailbox') => heard'[m] = 0)
    <3>1. /\ heard[m] <= 1
          /\ m \in pending[s] => heard[m] = 0 /\ m \notin ToSet(mailbox)
          /\ m \in ToSet(mailbox) => heard[m] = 0
      BY DEF MailInv, OnePlace
    <3> QED BY <1>4, <3>1
  <2> QED BY <1>1, <2>1 DEF OnePlace
<1>6. ReceiptsTell'
  <2>1. ASSUME NEW m \in Msg
        PROVE  /\ sending'[m] # "done" <=> receipt'[m] = "none"
               /\ receipt'[m] = "none" => heard'[m] = 0 /\ m \notin ToSet(mailbox')
               /\ receipt'[m] = "delivered" => m \notin ToSet(mailbox') /\ heard'[m] = 1
    <3>1. /\ sending[m] # "done" <=> receipt[m] = "none"
          /\ receipt[m] = "none" =>
               heard[m] = 0 /\ m \notin ToSet(mailbox) /\ m \notin pending[s]
          /\ receipt[m] = "delivered" =>
               m \notin ToSet(mailbox) /\ (heard[m] = 1 \/ \E t \in Session : m \in pending[t])
      BY DEF MailInv, ReceiptsTell
    <3>2. m \in pending[s] => heard[m] = 0
      BY DEF MailInv, OnePlace
    <3>3. (\E t \in Session : m \in pending[t]) <=> m \in pending[s]
      OBVIOUS
    <3> QED BY <1>4, <3>1, <3>2, <3>3
  <2> QED BY <1>1, <2>1 DEF ReceiptsTell
<1>7. NoMailBehindAWait'
  <2>1. ASSUME NEW m \in Unshown' \cup ToSet(mailbox') PROVE ~Awaits(m)'
    <3>1. m \in ToSet(mailbox)
      BY <1>1, <2>1, RefFields DEF Unshown, Types, RegistryTypes
    <3> QED BY <3>1 DEF MailInv, NoMailBehindAWait, Awaits
  <2> QED BY <2>1 DEF NoMailBehindAWait
<1> QED BY <1>2, <1>3, <1>5, <1>6, <1>7 DEF MailInv

\* A send that is ready hands its message to a waiter, to nobody, to the
\* mailbox of a disposed session or to a live one.
LEMMA HandOverKeepsMail ==
  ASSUME AgentsAssumption, Types, SessionsInv, MailInv, Types', NEW m \in Msg, HandOver(m)
  PROVE  MailInv'
<1>0. /\ pending \in [Session -> SUBSET Msg] /\ heard \in [Msg -> Nat] /\ mailbox \in Seq(Msg)
      /\ sending \in [Msg -> {"unsent", "reviving", "ready", "done"}]
      /\ receipt \in [Msg -> {"none", "delivered", "failed"}]
      /\ ref.session \in Session \cup {Null}
      /\ sending[m] = "ready" /\ sending' = [sending EXCEPT ![m] = "done"]
      /\ UNCHANGED <<ref, sess>>
  BY RefFields DEF Types, InboxTypes, BusTypes, RegistryTypes, HandOver, registryVars
<1>1. /\ receipt[m] = "none" /\ heard[m] = 0 /\ m \notin ToSet(mailbox)
      /\ \A s \in Session : m \notin pending[s]
  BY <1>0 DEF MailInv, ReceiptsTell
<1>2. \A k \in Msg : k.from \in Peers /\ k.from # "no"
  BY DEF Msg, AgentsAssumption
<1>3. CASE ToNobody(m)
  BY <1>0, <1>1, <1>3, QuietKeepsMail DEF ToNobody, inboxVars, MailInv, ReceiptsTell
<1>4. CASE ToWaiter(m)
  <2>1. /\ heard' = [heard EXCEPT ![m] = heard[m] + 1] /\ receipt' = [receipt EXCEPT ![m] = "delivered"]
        /\ waiting' = "no" /\ UNCHANGED <<pending, mailbox>>
    BY <1>4 DEF ToWaiter, Give
  <2>2. heard'[m] = 1 /\ \A k \in Msg : k # m => heard'[k] = heard[k]
    BY <1>0, <1>1, <2>1
  <2>3. PendingRegistered' /\ MailOnce'
    BY <1>0, <2>1 DEF MailInv, PendingRegistered, MailOnce
  <2>4. OnePlace'
    BY <1>0, <1>1, <2>1, <2>2 DEF MailInv, OnePlace, ToSet
  <2>5. ReceiptsTell'
    BY <1>0, <1>1, <2>1, <2>2 DEF MailInv, ReceiptsTell, ToSet
  <2>6. NoMailBehindAWait'
    <3>1. ASSUME NEW k \in Unshown' \cup ToSet(mailbox') PROVE ~Awaits(k)'
      <4>1. k \in Msg
        BY <1>0, <2>1 DEF Unshown, ToSet
      <4> QED BY <1>2, <2>1, <4>1 DEF Awaits
    <3> QED BY <3>1 DEF NoMailBehindAWait
  <2> QED BY <2>3, <2>4, <2>5, <2>6 DEF MailInv
<1>5. CASE ToMailbox(m)
  <2>1. /\ ~Awaits(m) /\ ref.session # Null /\ sess[ref.session] # "live"
        /\ mailbox' = IF Len(mailbox) = MailboxCap THEN Tail(mailbox) \o <<m>> ELSE Append(mailbox, m)
        /\ receipt' = [receipt EXCEPT ![m] = "failed"] /\ UNCHANGED <<pending, heard, waiting>>
    BY <1>5 DEF ToMailbox
  <2>2. /\ \A i, j \in 1..Len(mailbox) : mailbox[i] = mailbox[j] => i = j
        /\ Len(mailbox) <= MailboxCap /\ MailboxCap \in Nat \ {0}
    <3>1. DOMAIN mailbox = 1..Len(mailbox)
      BY <1>0
    <3> QED BY <3>1 DEF MailInv, MailOnce, Types, InboxTypes, AgentsAssumption
  <2>3. /\ mailbox' \in Seq(Msg)
        /\ \A i, j \in 1..Len(mailbox') : mailbox'[i] = mailbox'[j] => i = j
        /\ ToSet(mailbox') \subseteq ToSet(mailbox) \cup {m}
    <3>1. mailbox' = Queued(mailbox, m, MailboxCap)
      BY <2>1 DEF Queued
    <3> QED BY <1>0, <1>1, <2>2, <3>1, MailAdded
  <2>4. \A s \in Session : pending[s] = {}
    BY <2>1, OnePending DEF MailInv
  <2>5. PendingRegistered' /\ MailOnce'
    <3>1. DOMAIN mailbox' = 1..Len(mailbox')
      BY <2>3
    <3> QED BY <2>1, <2>3, <2>4, <3>1 DEF PendingRegistered, MailOnce
  <2>6. OnePlace'
    <3>1. ASSUME NEW k \in Msg
          PROVE  /\ heard'[k] <= 1 /\ (k \in ToSet(mailbox') => heard'[k] = 0)
                 /\ \A s \in Session : k \notin pending'[s]
      BY <1>1, <2>1, <2>3, <2>4 DEF MailInv, OnePlace
    <3> QED BY <3>1 DEF OnePlace
  <2>7. ReceiptsTell'
    <3>1. ASSUME NEW k \in Msg, k # m
          PROVE  /\ sending'[k] # "done" <=> receipt'[k] = "none"
                 /\ receipt'[k] = "none" =>
                      heard'[k] = 0 /\ k \notin ToSet(mailbox') /\ \A s \in Session : k \notin pending'[s]
                 /\ receipt'[k] = "delivered" =>
                      /\ k \notin ToSet(mailbox')
                      /\ heard'[k] = 1 \/ \E s \in Session : k \in pending'[s]
      <4>1. receipt'[k] = receipt[k] /\ sending'[k] = sending[k]
        BY <1>0, <2>1, <3>1
      <4> QED BY <2>1, <2>3, <3>1, <4>1 DEF MailInv, ReceiptsTell
    <3>2. receipt'[m] = "failed" /\ sending'[m] = "done"
      BY <1>0, <2>1
    <3> QED BY <3>1, <3>2 DEF ReceiptsTell
  <2>8. NoMailBehindAWait'
    <3>1. ASSUME NEW k \in Unshown' \cup ToSet(mailbox') PROVE ~Awaits(k)'
      <4>1. k \in ToSet(mailbox) \/ k = m
        BY <1>0, <2>1, <2>3, <2>4 DEF Unshown
      <4>2. ~Awaits(k)
        BY <2>1, <4>1 DEF MailInv, NoMailBehindAWait
      <4> QED BY <2>1, <4>2 DEF Awaits
    <3> QED BY <3>1 DEF NoMailBehindAWait
  <2> QED BY <2>5, <2>6, <2>7, <2>8 DEF MailInv
<1>6. CASE ToSession(m)
  <2>1. /\ ~Awaits(m) /\ ref.session \in Session /\ sess[ref.session] = "live"
        /\ receipt' = [receipt EXCEPT ![m] = "delivered"] /\ UNCHANGED <<mailbox, waiting>>
    BY <1>0, <1>6 DEF ToSession
  <2>2. PICK s \in Session : s = ref.session
    BY <2>1
  <2>3. MailOnce'
    BY <2>1 DEF MailInv, MailOnce
  <2>4. CASE pending' = [pending EXCEPT ![s] = pending[s] \cup {m}] /\ UNCHANGED heard
    <3>1. /\ pending'[s] = pending[s] \cup {m}
          /\ \A t \in Session : t # s => pending'[t] = pending[t]
      BY <1>0, <2>4
    <3>2. PendingRegistered'
      BY <1>0, <2>1, <2>2, <3>1 DEF MailInv, PendingRegistered
    <3>3. OnePlace'
      <4>1. ASSUME NEW k \in Msg
            PROVE  /\ heard'[k] <= 1
                   /\ \A t \in Session : k \in pending'[t] => heard'[k] = 0 /\ k \notin ToSet(mailbox')
                   /\ k \in ToSet(mailbox') => heard'[k] = 0
        BY <1>1, <2>1, <2>4, <3>1 DEF MailInv, OnePlace
      <4> QED BY <4>1 DEF OnePlace
    <3>4. ReceiptsTell'
      <4>1. ASSUME NEW k \in Msg, k # m
            PROVE  /\ receipt'[k] = receipt[k] /\ sending'[k] = sending[k]
                   /\ \A t \in Session : k \in pending'[t] <=> k \in pending[t]
        BY <1>0, <2>1, <3>1, <4>1
      <4>2. receipt'[m] = "delivered" /\ sending'[m] = "done" /\ m \in pending'[s]
        BY <1>0, <2>1, <3>1
      <4>3. ASSUME NEW k \in Msg
            PROVE  /\ sending'[k] # "done" <=> receipt'[k] = "none"
                   /\ receipt'[k] = "none" =>
                        heard'[k] = 0 /\ k \notin ToSet(mailbox') /\ \A t \in Session : k \notin pending'[t]
                   /\ receipt'[k] = "delivered" =>
                        /\ k \notin ToSet(mailbox')
                        /\ heard'[k] = 1 \/ \E t \in Session : k \in pending'[t]
        <5>1. CASE k = m
          BY <1>1, <2>1, <4>2, <5>1
        <5>2. CASE k # m
          BY <2>1, <2>4, <4>1, <5>2 DEF MailInv, ReceiptsTell
        <5> QED BY <5>1, <5>2
      <4> QED BY <4>3 DEF ReceiptsTell
    <3>5. NoMailBehindAWait'
      <4>1. ASSUME NEW k \in Unshown' \cup ToSet(mailbox') PROVE ~Awaits(k)'
        <5>1. k \in Unshown \cup ToSet(mailbox) \/ k = m
          BY <1>0, <2>1, <2>2, <3>1 DEF Unshown
        <5>2. ~Awaits(k)
          BY <2>1, <5>1 DEF MailInv, NoMailBehindAWait
        <5> QED BY <2>1, <5>2 DEF Awaits
      <4> QED BY <4>1 DEF NoMailBehindAWait
    <3> QED BY <2>3, <3>2, <3>3, <3>4, <3>5 DEF MailInv
  <2>5. CASE heard' = [heard EXCEPT ![m] = heard[m] + 1] /\ UNCHANGED pending
    <3>1. heard'[m] = 1 /\ \A k \in Msg : k # m => heard'[k] = heard[k]
      BY <1>0, <1>1, <2>5
    <3>2. PendingRegistered'
      BY <1>0, <2>5 DEF MailInv, PendingRegistered
    <3>3. OnePlace'
      BY <1>0, <1>1, <2>1, <2>5, <3>1 DEF MailInv, OnePlace, ToSet
    <3>4. ReceiptsTell'
      BY <1>0, <1>1, <2>1, <2>5, <3>1 DEF MailInv, ReceiptsTell, ToSet
    <3>5. NoMailBehindAWait'
      BY <1>0, <2>1, <2>5 DEF MailInv, NoMailBehindAWait, Unshown, Awaits, ToSet
    <3> QED BY <2>3, <3>2, <3>3, <3>4, <3>5 DEF MailInv
  <2> QED BY <1>6, <2>2, <2>4, <2>5 DEF ToSession, Give
<1> QED BY <1>3, <1>4, <1>5, <1>6 DEF HandOver

\* A message that was pending or in the mailbox is given to the agent.
LEMMA GivenKeepsReceipts ==
  ASSUME Types, MailInv, Types', UNCHANGED <<sending, receipt>>, NEW G \in SUBSET Msg,
         \A m \in G : \/ m \in ToSet(mailbox)
                      \/ \E s \in Session : m \in pending[s],
         \A m \in Msg : heard'[m] = heard[m] + (IF m \in G THEN 1 ELSE 0),
         \A m \in Msg : m \in ToSet(mailbox') <=> m \in ToSet(mailbox) /\ m \notin G,
         \A m \in Msg, s \in Session : m \in pending'[s] <=> m \in pending[s] /\ m \notin G
  PROVE  OnePlace' /\ ReceiptsTell'
<1>1. ASSUME NEW m \in Msg
      PROVE  /\ heard[m] \in Nat /\ heard'[m] = IF m \in G THEN heard[m] + 1 ELSE heard[m]
             /\ m \in G => heard[m] = 0 /\ receipt[m] # "none"
  BY DEF MailInv, OnePlace, ReceiptsTell, Types, InboxTypes
<1>2. OnePlace'
  <2>1. ASSUME NEW m \in Msg
        PROVE  /\ heard'[m] <= 1
               /\ \A s \in Session : m \in pending'[s] => heard'[m] = 0 /\ m \notin ToSet(mailbox')
               /\ m \in ToSet(mailbox') => heard'[m] = 0
    BY <1>1 DEF MailInv, OnePlace
  <2> QED BY <2>1 DEF OnePlace
<1>3. ReceiptsTell'
  <2>1. ASSUME NEW m \in Msg
        PROVE  /\ sending'[m] # "done" <=> receipt'[m] = "none"
               /\ receipt'[m] = "none" =>
                    heard'[m] = 0 /\ m \notin ToSet(mailbox') /\ \A s \in Session : m \notin pending'[s]
               /\ receipt'[m] = "delivered" =>
                    /\ m \notin ToSet(mailbox')
                    /\ heard'[m] = 1 \/ \E s \in Session : m \in pending'[s]
    BY <1>1 DEF MailInv, ReceiptsTell
  <2> QED BY <2>1 DEF ReceiptsTell
<1> QED BY <1>2, <1>3

\* The agent waits for a message, takes one or takes all.
LEMMA ToolKeepsMail ==
  ASSUME AgentsAssumption, Types, SessionsInv, MailInv, Types',
         (\E from \in Peers \cup {"any"} : Wait(from)) \/ WaitEnds \/ Inbox
  PROVE  MailInv'
<1>0. /\ UNCHANGED <<ref, sess, sending, receipt>>
      /\ pending \in [Session -> SUBSET Msg] /\ heard \in [Msg -> Nat] /\ mailbox \in Seq(Msg)
      /\ ref.session \in Session \cup {Null} /\ Null \notin Session
  BY RefFields, Values DEF Wait, WaitEnds, Inbox, agentVars, busVars, registryVars, sessionVars, Types,
     InboxTypes, RegistryTypes
<1>1. Unshown \in SUBSET Msg /\ ToSet(mailbox) \in SUBSET Msg
  BY <1>0 DEF Unshown, ToSet
<1>2. \A k \in Msg : k.from \in Peers /\ k.from # "no"
  BY DEF Msg, AgentsAssumption
<1>3. PendingRegistered /\ MailOnce
  BY DEF MailInv
<1>4. ASSUME NEW from \in Peers \cup {"any"}, Wait(from) PROVE MailInv'
  <2>1. ASSUME NEW m \in Unshown, TakePending(m) PROVE MailInv'
    <3>1. PICK s \in Session : s = ref.session /\ m \in pending[s]
      BY <1>0, <2>1 DEF Unshown
    <3>2. /\ pending' = [pending EXCEPT ![s] = pending[s] \ {m}] /\ UNCHANGED <<mailbox, waiting>>
          /\ heard' = [heard EXCEPT ![m] = heard[m] + 1] /\ m \in Msg
      BY <1>1, <2>1, <3>1 DEF TakePending, Give
    <3>3. m \notin ToSet(mailbox) /\ \A t \in Session : t # s => m \notin pending[t]
      BY <1>0, <3>1, <3>2 DEF MailInv, OnePlace, PendingRegistered
    <3>4. \A k \in Msg : heard'[k] = heard[k] + (IF k \in {m} THEN 1 ELSE 0)
      BY <1>0, <3>2
    <3>5. OnePlace' /\ ReceiptsTell'
      <4>1. \A k \in {m} : k \in ToSet(mailbox) \/ \E t \in Session : k \in pending[t]
        BY <3>1
      <4>2. \A k \in Msg : k \in ToSet(mailbox') <=> k \in ToSet(mailbox) /\ k \notin {m}
        BY <3>2, <3>3
      <4>3. \A k \in Msg, t \in Session : k \in pending'[t] <=> k \in pending[t] /\ k \notin {m}
        BY <1>0, <3>1, <3>2, <3>3
      <4>4. {m} \in SUBSET Msg
        BY <3>2
      <4> QED BY <1>0, <3>4, <4>1, <4>2, <4>3, <4>4, GivenKeepsReceipts
    <3>6. PendingRegistered' /\ MailOnce'
      BY <1>0, <1>3, <3>1, <3>2 DEF PendingRegistered, MailOnce
    <3>7. NoMailBehindAWait'
      <4>1. ASSUME NEW k \in Unshown' \cup ToSet(mailbox') PROVE ~Awaits(k)'
        <5>1. k \in Unshown \cup ToSet(mailbox)
          BY <1>0, <3>1, <3>2 DEF Unshown
        <5> QED BY <3>2, <5>1 DEF MailInv, NoMailBehindAWait, Awaits
      <4> QED BY <4>1 DEF NoMailBehindAWait
    <3> QED BY <3>5, <3>6, <3>7 DEF MailInv
  <2>2. ASSUME NEW k \in DOMAIN mailbox, mailbox' = RemoveAt(mailbox, k), Give(mailbox[k]),
               UNCHANGED <<pending, waiting>>
        PROVE  MailInv'
    <3>1. /\ mailbox[k] \in Msg /\ mailbox[k] \in ToSet(mailbox)
          /\ ToSet(mailbox') = ToSet(mailbox) \ {mailbox[k]}
          /\ \A i, j \in DOMAIN mailbox' : mailbox'[i] = mailbox'[j] => i = j
      BY <1>3, <2>2, MailCut
    <3>2. PICK m \in Msg : m = mailbox[k]
      BY <3>1
    <3>3. \A l \in Msg : heard'[l] = heard[l] + (IF l \in {m} THEN 1 ELSE 0)
      BY <1>0, <2>2, <3>2 DEF Give
    <3>4. OnePlace' /\ ReceiptsTell'
      <4>1. \A l \in {m} : l \in ToSet(mailbox) \/ \E t \in Session : l \in pending[t]
        BY <3>1, <3>2
      <4>2. \A l \in Msg : l \in ToSet(mailbox') <=> l \in ToSet(mailbox) /\ l \notin {m}
        BY <3>1, <3>2
      <4>3. \A l \in Msg, t \in Session : l \in pending'[t] <=> l \in pending[t] /\ l \notin {m}
        BY <2>2, <3>1, <3>2 DEF MailInv, OnePlace
      <4>4. {m} \in SUBSET Msg
        OBVIOUS
      <4> QED BY <1>0, <3>3, <4>1, <4>2, <4>3, <4>4, GivenKeepsReceipts
    <3>5. PendingRegistered' /\ MailOnce'
      BY <1>0, <1>3, <2>2, <3>1 DEF PendingRegistered, MailOnce
    <3>6. NoMailBehindAWait'
      <4>1. ASSUME NEW l \in Unshown' \cup ToSet(mailbox') PROVE ~Awaits(l)'
        <5>1. l \in Unshown \cup ToSet(mailbox)
          BY <1>0, <2>2, <3>1 DEF Unshown
        <5> QED BY <2>2, <5>1 DEF MailInv, NoMailBehindAWait, Awaits
      <4> QED BY <4>1 DEF NoMailBehindAWait
    <3> QED BY <3>4, <3>5, <3>6 DEF MailInv
  <2>3. CASE /\ {m \in Unshown : Accepts(from, m)} = {} /\ {m \in ToSet(mailbox) : Accepts(from, m)} = {}
             /\ waiting' = from /\ UNCHANGED <<pending, heard, mailbox>>
    <3>1. PendingRegistered' /\ MailOnce'
      BY <1>0, <1>3, <2>3 DEF PendingRegistered, MailOnce
    <3>2. OnePlace' /\ ReceiptsTell'
      BY <1>0, <2>3 DEF MailInv, OnePlace, ReceiptsTell, ToSet
    <3>3. NoMailBehindAWait'
      <4>1. ASSUME NEW m \in Unshown' \cup ToSet(mailbox') PROVE ~Awaits(m)'
        <5>1. m \in Unshown \cup ToSet(mailbox)
          BY <1>0, <2>3 DEF Unshown
        <5>2. ~Accepts(from, m)
          BY <2>3, <5>1
        <5> QED BY <2>3, <5>2 DEF Accepts, Awaits
      <4> QED BY <4>1 DEF NoMailBehindAWait
    <3> QED BY <3>1, <3>2, <3>3 DEF MailInv
  <2> QED BY <1>4, <2>1, <2>2, <2>3 DEF Wait, TakeMail
<1>5. CASE WaitEnds
  <2>1. UNCHANGED <<pending, heard, mailbox>> /\ waiting' = "no"
    BY <1>5 DEF WaitEnds
  <2> QED BY <1>0, <2>1, QuietKeepsMail DEF MailInv, ReceiptsTell
<1>6. CASE Inbox
  <2> DEFINE G == Unshown \cup ToSet(mailbox)
  <2>1. /\ mailbox' = <<>> /\ waiting' = waiting
        /\ pending' = IF ref.session = Null THEN pending ELSE [pending EXCEPT ![ref.session] = {}]
        /\ heard' = [m \in Msg |-> heard[m] + (IF m \in G THEN 1 ELSE 0)]
    BY <1>6 DEF Inbox
  <2>2. ToSet(mailbox') = {} /\ DOMAIN mailbox' = {}
    BY <2>1 DEF ToSet
  <2>3. \A s \in Session : pending'[s] = {}
    BY <1>0, <1>3, <2>1 DEF PendingRegistered
  <2>4. \A s \in Session : pending[s] \subseteq Unshown
    BY <1>0, <1>3 DEF PendingRegistered, Unshown
  <2>5. \A m \in Unshown : \E s \in Session : m \in pending[s]
    BY <1>0 DEF Unshown
  <2>6. OnePlace' /\ ReceiptsTell'
    <3>1. G \in SUBSET Msg
      BY <1>1
    <3>2. \A m \in G : m \in ToSet(mailbox) \/ \E s \in Session : m \in pending[s]
      BY <2>5
    <3>3. \A m \in Msg : m \in ToSet(mailbox') <=> m \in ToSet(mailbox) /\ m \notin G
      BY <2>2
    <3>4. \A m \in Msg, s \in Session : m \in pending'[s] <=> m \in pending[s] /\ m \notin G
      BY <2>3, <2>4
    <3>5. \A m \in Msg : heard'[m] = heard[m] + (IF m \in G THEN 1 ELSE 0)
      BY <2>1
    <3> HIDE DEF G
    <3> QED BY <1>0, <3>1, <3>2, <3>3, <3>4, <3>5, GivenKeepsReceipts
  <2>7. PendingRegistered' /\ MailOnce'
    BY <2>2, <2>3 DEF PendingRegistered, MailOnce
  <2>8. NoMailBehindAWait'
    BY <1>0, <2>2, <2>3 DEF NoMailBehindAWait, Unshown
  <2> QED BY <2>6, <2>7, <2>8 DEF MailInv
<1> QED BY <1>4, <1>5, <1>6

-----------------------------------------------------------------------------
(* The steps *)

\* The invariant, as the lemmas take it apart.
LEMMA InvParts ==
  /\ Inv <=> Types /\ AgentRest /\ MailInv
  /\ Inv' <=> Types' /\ AgentRest' /\ MailInv'
BY TypeParts, PTL DEF Inv, AgentInv, AgentRest

\* Whatever is pending is pending in the last session.
LEMMA PendingInLast ==
  ASSUME AgentsAssumption, Types, AgentRest, MailInv
  PROVE  /\ \A s \in Session : pending[s] # {} => s = Latest /\ sess[s] = "live" /\ ref.session = s
         /\ ref.session = Null => \A s \in Session : pending[s] = {}
         /\ SessionsInv /\ PendingRegistered
BY OnePending DEF AgentRest, MailInv

\* What senders were told, while their messages stay where they are.
LEMMA BusKept ==
  ASSUME MailInv, Types, UNCHANGED receipt,
         \A m \in Msg : sending'[m] = "done" <=> sending[m] = "done"
  PROVE  \A m \in Msg :
           /\ sending'[m] # "done" <=> receipt'[m] = "none"
           /\ receipt'[m] = receipt[m] \/ (receipt[m] = "none" /\ receipt'[m] = "failed")
BY DEF MailInv, ReceiptsTell

\* The steps of a turn.
LEMMA SessionStepKeeps ==
  ASSUME AgentsAssumption, Types, AgentRest, MailInv, NEW s \in Session, SessionStep(s)
  PROVE  Types' /\ AgentRest' /\ MailInv'
<1>1. Types'
  BY SessionStepTypes
<1>2. /\ sess \in [Session -> {"none", "live", "disposing", "disposed"}]
      /\ turn \in [Session -> {"none", "preparing", "waking", "running"}]
      /\ ref \in Refs /\ RegistryTypes
      /\ \A t \in Session : turn[t] # "none" => sess[t] \in {"live", "disposing"}
      /\ SessionsInv
  BY DEF Types, SessionTypes, RegistryTypes, AgentRest, SessionsInv
<1>3. \A t \in Session : pending[t] # {} => t = Latest /\ sess[t] = "live"
  BY PendingInLast
<1>4. \A t \in Session : sess[t] \in {"live", "disposing"} => t = Latest /\ t \in Writers
  BY <1>2 DEF SessionsInv, Created, Writers
<1>5. \A v \in {"running", "idle"} : Becomes(ref, v) => ref'.session = ref.session
  <2>1. ASSUME NEW v \in {"running", "idle"}, Becomes(ref, v) PROVE ref'.session = ref.session
    <3>1. v \in Statuses \ {"unknown"}
      BY DEF Statuses
    <3> QED BY <1>2, <2>1, <3>1, BecomesEffect
  <2> QED BY <2>1
<1>6. CASE Prompt(s)
  <2>1. /\ UNCHANGED <<ref, adopted, timer, run, sess, parks, releases, revival, coldAdopted>>
        /\ UNCHANGED <<pending, heard, mailbox, waiting, sending, receipt>>
        /\ sess[s] = "live" /\ turn' = [turn EXCEPT ![s] = "preparing"]
    BY <1>6 DEF Prompt, registryVars, lifecycleVars, messageVars, busVars, inboxVars
  <2>2. AgentRest'
    BY <1>1, <1>2, <2>1, TurnKeepsAgent
  <2>3. MailInv'
    BY <1>1, <1>2, <2>1, BusKept, QuietKeepsMail
  <2> QED BY <1>1, <2>2, <2>3
<1>7. CASE AgentStart(s)
  <2>1. /\ UNCHANGED <<adopted, run, sess, parks, releases, revival, coldAdopted>>
        /\ UNCHANGED <<pending, heard, mailbox, waiting, sending, receipt>>
        /\ turn[s] # "none" /\ turn' = [turn EXCEPT ![s] = "running"]
        /\ Becomes(ref, "running") \/ UNCHANGED <<ref, timer>>
    BY <1>7 DEF AgentStart, lifecycleVars, messageVars, busVars, inboxVars
  <2>2. AgentRest'
    BY <1>1, <1>2, <1>4, <2>1, StatusKeepsAgent
  <2>3. MailInv'
    BY <1>1, <1>2, <1>5, <2>1, BusKept, QuietKeepsMail
  <2> QED BY <1>1, <2>2, <2>3
<1>8. CASE Boundary(s)
  <2>1. /\ UNCHANGED <<ref, adopted, timer, run, sess, turn, parks, releases, revival, coldAdopted>>
        /\ UNCHANGED <<mailbox, waiting, sending, receipt>>
        /\ sess[s] = "live" /\ pending' = [pending EXCEPT ![s] = {}]
        /\ heard' = [m \in Msg |-> heard[m] + (IF m \in pending[s] THEN 1 ELSE 0)]
    BY <1>8 DEF Boundary, agentVars, registryVars, sessionVars, lifecycleVars, busVars
  <2>2. AgentRest'
    BY <1>1, <1>2, <2>1, TurnKeepsAgent
  <2>3. MailInv'
    BY <1>1, <1>2, <1>3, <1>4, <2>1, FlushKeepsMail
  <2> QED BY <1>1, <2>2, <2>3
<1>9. CASE TurnEnds(s)
  <2>1. /\ UNCHANGED <<adopted, sess, parks, releases, revival, coldAdopted>>
        /\ UNCHANGED <<mailbox, waiting, sending, receipt>>
        /\ sess[s] = "live" /\ pending' = [pending EXCEPT ![s] = {}]
        /\ heard' = [m \in Msg |-> heard[m] + (IF m \in pending[s] THEN 1 ELSE 0)]
        /\ turn' = [turn EXCEPT ![s] = IF pending[s] = {} THEN "none" ELSE "waking"]
        /\ Becomes(ref, "idle") \/ UNCHANGED <<ref, timer>>
        /\ run' = run \/ (run = "prompting" /\ run' = "ending")
    BY <1>9 DEF TurnEnds, Settle, RunAfter, lifecycleVars, busVars
  <2>2. AgentRest'
    BY <1>1, <1>2, <1>4, <2>1, StatusKeepsAgent
  <2>3. MailInv'
    BY <1>1, <1>2, <1>3, <1>4, <2>1, FlushKeepsMail
  <2> QED BY <1>1, <2>2, <2>3
<1>10. CASE PromptFails(s)
  <2>1. /\ UNCHANGED <<ref, adopted, timer, run, sess, parks, releases, revival, coldAdopted>>
        /\ UNCHANGED <<mailbox, waiting, sending, receipt>>
        /\ sess[s] = "live" /\ pending' = [pending EXCEPT ![s] = {}]
        /\ heard' = [m \in Msg |-> heard[m] + (IF m \in pending[s] THEN 1 ELSE 0)]
        /\ turn' = [turn EXCEPT ![s] = IF pending[s] = {} THEN "none" ELSE "waking"]
    BY <1>10 DEF PromptFails, Settle, registryVars, lifecycleVars, busVars
  <2>2. AgentRest'
    BY <1>1, <1>2, <2>1, TurnKeepsAgent
  <2>3. MailInv'
    BY <1>1, <1>2, <1>3, <1>4, <2>1, FlushKeepsMail
  <2> QED BY <1>1, <2>2, <2>3
<1>11. CASE TurnDies(s)
  <2>1. /\ UNCHANGED <<adopted, sess, parks, releases, revival, coldAdopted>>
        /\ UNCHANGED <<pending, heard, mailbox, sending, receipt>> /\ waiting' = "no"
        /\ turn[s] # "none" /\ turn' = [turn EXCEPT ![s] = "none"]
        /\ Becomes(ref, "idle") \/ UNCHANGED <<ref, timer>>
        /\ run' = run \/ (run = "prompting" /\ run' = "ending")
    BY <1>11 DEF TurnDies, RunAfter, lifecycleVars, busVars
  <2>2. AgentRest'
    BY <1>1, <1>2, <1>4, <2>1, StatusKeepsAgent
  <2>3. MailInv'
    BY <1>1, <1>2, <1>5, <2>1, BusKept, QuietKeepsMail
  <2> QED BY <1>1, <2>2, <2>3
<1>12. CASE DisposeEnds(s)
  <2>1. /\ UNCHANGED <<ref, timer, adopted, parks, releases, revival, coldAdopted>>
        /\ UNCHANGED <<pending, heard, mailbox, sending, receipt>> /\ waiting' \in {waiting, "no"}
        /\ sess[s] = "disposing" /\ sess' = [sess EXCEPT ![s] = "disposed"]
        /\ turn' = [turn EXCEPT ![s] = "none"]
        /\ run' = run \/ (run = "prompting" /\ run' = "ending")
    BY <1>12 DEF DisposeEnds, RunAfter, lifecycleVars, busVars
  <2>2. /\ \A t \in Session : \/ sess'[t] = sess[t]
                              \/ t = s /\ sess[t] = "disposing" /\ sess'[t] = "disposed"
        /\ \A t \in Session : turn'[t] # "none" => sess'[t] \in {"live", "disposing"}
        /\ \A t \in Session : sess[t] = "live" => sess'[t] = "live"
    BY <1>2, <2>1
  <2>3. AgentRest'
    BY <1>1, <1>2, <1>4, <2>1, <2>2, StatusKeepsAgent
  <2>4. MailInv'
    BY <1>1, <1>2, <2>1, <2>2, BusKept, QuietKeepsMail
  <2> QED BY <1>1, <2>3, <2>4
<1> QED BY <1>6, <1>7, <1>8, <1>9, <1>10, <1>11, <1>12 DEF SessionStep

\* The end of the spawning task.
LEMMA FinishKeepsMail ==
  ASSUME AgentsAssumption, Types, AgentRest, MailInv, Types',
         FinishKeepAlive \/ FinishAborted \/ FinishIsolated \/ FinishAbandons \/ FinishDisposed
  PROVE  MailInv'
<1>1. /\ UNCHANGED <<mailbox, waiting, sending, receipt>> /\ run # "over"
      /\ Latest = 1 /\ 1 \in Session /\ ref \in Refs /\ SessionsInv
      /\ \A m \in Msg :
           /\ sending'[m] # "done" <=> receipt'[m] = "none"
           /\ receipt'[m] = receipt[m] \/ (receipt[m] = "none" /\ receipt'[m] = "failed")
  <2>1. UNCHANGED <<mailbox, waiting, sending, receipt>> /\ run # "over"
    BY DEF FinishKeepAlive, FinishAborted, FinishIsolated, FinishAbandons, FinishDisposed, messageVars,
       busVars, inboxVars
  <2> QED BY <2>1, BusKept, Values DEF AgentRest, RunOwnsAgent, Types, RegistryTypes
<1>2. \A s \in Session : pending[s] # {} => s = 1 /\ sess[s] = "live"
  BY <1>1, PendingInLast
<1>3. CASE FinishKeepAlive
  <2>1. UNCHANGED <<sess, pending, heard>> /\ ref'.session = ref.session
    BY <1>1, <1>3, RefFields DEF FinishKeepAlive, sessionVars, messageVars, inboxVars, Statuses
  <2> QED BY <1>1, <2>1, QuietKeepsMail
<1>4. CASE FinishAborted \/ FinishIsolated
  <2>1. BeginDispose(1)
    BY <1>4 DEF FinishAborted, FinishIsolated
  <2> QED BY <1>1, <1>2, <2>1, FlushKeepsMail DEF BeginDispose
<1>5. CASE FinishAbandons \/ FinishDisposed
  <2>1. UNCHANGED <<sess, pending, heard>> /\ sess[1] # "live"
    BY <1>5 DEF FinishAbandons, FinishDisposed, sessionVars, messageVars, inboxVars
  <2>2. \A s \in Session : pending[s] = {}
    BY <1>2, <2>1
  <2> QED BY <1>1, <2>1, <2>2, QuietKeepsMail
<1> QED BY <1>3, <1>4, <1>5

\* Parking and release.
LEMMA ParkKeepsMail ==
  ASSUME AgentsAssumption, Types, AgentRest, MailInv, Types',
         \/ TimerFires \/ Release
         \/ \E s \in Session : ParkEnds(s) \/ ReleaseEnds(s)
  PROVE  MailInv'
<1>1. /\ UNCHANGED <<mailbox, waiting, sending, receipt>> /\ ref \in Refs /\ SessionsInv
      /\ \A m \in Msg :
           /\ sending'[m] # "done" <=> receipt'[m] = "none"
           /\ receipt'[m] = receipt[m] \/ (receipt[m] = "none" /\ receipt'[m] = "failed")
  <2>1. UNCHANGED <<mailbox, waiting, sending, receipt>>
    BY DEF TimerFires, Release, ParkEnds, ReleaseEnds, messageVars, busVars, inboxVars
  <2> QED BY <2>1, BusKept DEF AgentRest, Types, RegistryTypes
<1>2. /\ \A s \in Session : pending[s] # {} => s = Latest /\ sess[s] = "live" /\ ref.session = s
      /\ ref.session = Null => \A s \in Session : pending[s] = {}
  BY PendingInLast
<1>3. CASE TimerFires \/ Release
  <2>1. CASE ref.session = Null
    <3>1. UNCHANGED <<pending, heard>>
      BY <1>3, <2>1 DEF TimerFires, Release
    <3> QED BY <1>1, <1>2, <2>1, <3>1, QuietKeepsMail
  <2>2. CASE ref.session # Null
    <3>1. PICK s \in Session : s = ref.session
      BY <1>1, <2>2, RefFields
    <3>2. BeginDispose(s)
      BY <1>3, <2>2, <3>1 DEF TimerFires, Release
    <3> QED BY <1>1, <1>2, <3>1, <3>2, FlushKeepsMail DEF BeginDispose
  <2> QED BY <2>1, <2>2
<1>4. ASSUME NEW s \in Session, ParkEnds(s) \/ ReleaseEnds(s) PROVE MailInv'
  <2>1. UNCHANGED <<pending, heard>> /\ s \in parks \cup releases /\ sess[s] = "disposed"
    BY <1>4 DEF ParkEnds, ReleaseEnds, messageVars, inboxVars
  <2>2. \A t \in Session : pending[t] = {}
    BY <1>1, <1>2, <2>1 DEF SessionsInv
  <2> QED BY <1>1, <2>1, <2>2, QuietKeepsMail
<1> QED BY <1>3, <1>4

\* The revival.
LEMMA RevivalKeepsMail ==
  ASSUME AgentsAssumption, Types, AgentRest, MailInv, Types',
         \/ Revive \/ ReviverResolved \/ RevivalRegisters \/ RevivalAttaches
         \/ RevivalEnds \/ RevivalFails
  PROVE  MailInv'
<1>1. /\ UNCHANGED <<pending, heard, mailbox, waiting>> /\ ref \in Refs /\ SessionsInv /\ RegistryTypes
      /\ sending \in [Msg -> {"unsent", "reviving", "ready", "done"}]
      /\ receipt \in [Msg -> {"none", "delivered", "failed"}]
      /\ \A m \in Msg : sending[m] # "done" <=> receipt[m] = "none"
  BY DEF Revive, ReviverResolved, RevivalRegisters, RevivalAttaches, RevivalEnds, RevivalFails,
     RevivalGivesUp, messageVars, busVars, inboxVars, AgentRest, Types, RegistryTypes, BusTypes,
     MailInv, ReceiptsTell
<1>2. /\ \A s \in Session : pending[s] # {} => s = Latest /\ sess[s] = "live" /\ ref.session = s
      /\ ref.session = Null => \A s \in Session : pending[s] = {}
  BY PendingInLast
<1>3. \A m \in Msg :
        /\ sending'[m] # "done" <=> receipt'[m] = "none"
        /\ receipt'[m] = receipt[m] \/ (receipt[m] = "none" /\ receipt'[m] = "failed")
  <2>1. CASE Rejected
    BY <1>1, <2>1 DEF Rejected, Reviving
  <2>2. CASE Resolved /\ UNCHANGED receipt
    BY <1>1, <2>2 DEF Resolved, Reviving
  <2>3. CASE UNCHANGED <<sending, receipt>>
    BY <1>1, <2>3
  <2> QED BY <2>1, <2>2, <2>3 DEF Revive, ReviverResolved, RevivalRegisters, RevivalAttaches,
             RevivalEnds,
        RevivalFails, RevivalGivesUp, messageVars, busVars
<1>4. CASE revival \in {"resolving", "opening", "building"} \/ Revive
  <2>1. ref.session = Null
    BY <1>4 DEF AgentRest, RevivalAlone, Revive
  <2> QED BY <1>1, <1>2, <1>3, <2>1, QuietKeepsMail
<1>5. CASE RevivalEnds
  <2>1. CASE \A s \in Session : pending[s] = {}
    BY <1>1, <1>3, <2>1, QuietKeepsMail
  <2>2. CASE ~\A s \in Session : pending[s] = {}
    <3>1. ref.session = Latest /\ ref.session # Null /\ Registered /\ Latest \in Session \cup {Null}
      BY <1>1, <1>2, <2>2, Unknown, Values
    <3>2. PICK r : r = Attached(Latest)
      OBVIOUS
    <3>3. r \in Refs /\ r.session = Latest /\ r # NoRef
      BY <1>1, <3>1, <3>2, EntryAttached DEF Registered
    <3>4. Becomes(r, "idle") /\ sess' = sess /\ "idle" \in Statuses \ {"unknown"}
      BY <1>5, <3>2, Values DEF RevivalEnds, sessionVars, Statuses
    <3>5. ref'.session = ref.session
      BY <1>1, <3>1, <3>3, <3>4, BecomesEffect
    <3> QED BY <1>1, <1>3, <3>4, <3>5, QuietKeepsMail
  <2> QED BY <2>1, <2>2
<1> QED BY <1>4, <1>5 DEF ReviverResolved, RevivalRegisters, RevivalAttaches, RevivalFails,
           RevivalGivesUp

\* Sending.
LEMMA SendKeeps ==
  ASSUME AgentsAssumption, Types, AgentRest, MailInv, ~Resumes, NEW m \in Msg, Send(m)
  PROVE  Types' /\ AgentRest' /\ MailInv'
<1>1. Types'
  BY SendTypes
<1>2. /\ UNCHANGED <<ref, adopted, timer, run, sess, turn, parks, releases>>
      /\ UNCHANGED <<pending, heard, mailbox, waiting>> /\ SessionsInv
  BY DEF Send, registryVars, sessionVars, inboxVars, AgentRest
<1>3. AgentRest'
  <2>1. CASE UNCHANGED <<revival, coldAdopted>>
    BY <1>1, <1>2, <2>1, TurnKeepsAgent DEF AgentRest, SessionsInv
  <2>2. CASE ref.session = Null /\ revival = "none" /\ CanRevive /\ StartRevival
    BY <1>2, <2>2, StartKeepsAgent
  <2> QED BY <2>1, <2>2 DEF Send, SendFails, SendDirectly, SendRevives
<1>4. \A k \in Msg :
        /\ sending'[k] # "done" <=> receipt'[k] = "none"
        /\ receipt'[k] = receipt[k] \/ (receipt[k] = "none" /\ receipt'[k] = "failed")
  <2>1. /\ sending \in [Msg -> {"unsent", "reviving", "ready", "done"}]
        /\ receipt \in [Msg -> {"none", "delivered", "failed"}]
        /\ \A k \in Msg : sending[k] # "done" <=> receipt[k] = "none"
        /\ sending[m] = "unsent"
    BY DEF Types, BusTypes, MailInv, ReceiptsTell, Send
  <2>2. CASE SendFails(m)
    BY <2>1, <2>2 DEF SendFails
  <2>3. CASE SendDirectly(m)
    BY <2>1, <2>3 DEF SendDirectly
  <2>4. CASE SendRevives(m)
    BY <2>1, <2>4 DEF SendRevives
  <2> QED BY <2>2, <2>3, <2>4 DEF Send
<1>5. MailInv'
  BY <1>1, <1>2, <1>4, QuietKeepsMail
<1> QED BY <1>1, <1>3, <1>5

\* Handing a message over.
LEMMA HandOverKeeps ==
  ASSUME AgentsAssumption, Types, AgentRest, MailInv, NEW m \in Msg, HandOver(m)
  PROVE  Types' /\ AgentRest' /\ MailInv'
<1>1. m \notin ToSet(mailbox) /\ MailOnce /\ SessionsInv
  BY DEF MailInv, ReceiptsTell, HandOver, AgentRest
<1>2. Types'
  BY <1>1, HandOverTypes
<1>3. /\ turn \in [Session -> {"none", "preparing", "waking", "running"}]
      /\ \A s \in Session : turn[s] # "none" => sess[s] \in {"live", "disposing"}
      /\ UNCHANGED <<ref, adopted, timer, run, sess, parks, releases, revival, coldAdopted>>
  BY <1>1 DEF Types, SessionTypes, SessionsInv, HandOver, registryVars, lifecycleVars
<1>4. \A s \in Session : turn'[s] # "none" => sess[s] \in {"live", "disposing"}
  <2>1. CASE UNCHANGED turn
    BY <1>3, <2>1
  <2>2. CASE ToSession(m)
    BY <1>3, <2>2 DEF ToSession
  <2> QED BY <2>1, <2>2 DEF HandOver, ToWaiter, ToNobody, ToMailbox
<1>5. AgentRest'
  BY <1>2, <1>3, <1>4, TurnKeepsAgent
<1>6. MailInv'
  BY <1>1, <1>2, HandOverKeepsMail
<1> QED BY <1>2, <1>5, <1>6

\* The irc tool.
LEMMA ToolKeeps ==
  ASSUME AgentsAssumption, Types, AgentRest, MailInv,
         (\E from \in Peers \cup {"any"} : Wait(from)) \/ WaitEnds \/ Inbox
  PROVE  Types' /\ AgentRest' /\ MailInv'
<1>1. MailOnce /\ SessionsInv
  BY DEF MailInv, AgentRest
<1>2. Types'
  BY <1>1, ToolTypes
<1>3. UNCHANGED <<ref, adopted, timer, run, sess, turn, parks, releases, revival, coldAdopted>>
  BY DEF Wait, WaitEnds, Inbox, agentVars, registryVars, sessionVars, lifecycleVars
<1>4. AgentRest'
  BY <1>1, <1>2, <1>3, TurnKeepsAgent DEF SessionsInv
<1>5. MailInv'
  BY <1>1, <1>2, ToolKeepsMail
<1> QED BY <1>2, <1>4, <1>5

-----------------------------------------------------------------------------
(* The invariant *)

\* A subagent just spawned, or restored, satisfies the invariant.
LEMMA InvInit ==
  ASSUME AgentsAssumption, Init
  PROVE  Inv
<1>1. Types
  <2>1. /\ 1 \in Session /\ Null \notin Session /\ <<>> \in Seq(Msg) /\ Len(<<>>) = 0
        /\ 0 <= MailboxCap
    BY Values DEF AgentsAssumption
  <2>2. RegistryTypes
    BY <2>1 DEF Init, RegistryTypes, Refs, Statuses
  <2>3. SessionTypes /\ LifecycleTypes /\ BusTypes
    BY DEF Init, SessionTypes, LifecycleTypes, BusTypes, Revivals
  <2>4. InboxTypes
    BY <2>1 DEF Init, InboxTypes
  <2> QED BY <2>2, <2>3, <2>4 DEF Types
<1>2. Created = 1..Latest /\ Latest = IF restored THEN 0 ELSE 1
  <2>1. 1 \in Session /\ 1..0 = {} /\ 1..1 = {1}
    BY Values
  <2>2. CASE restored
    <3>1. Created = {}
      BY <2>2 DEF Init, Created
    <3> QED BY <2>1, <2>2, <3>1, FS_EmptySet DEF Latest
  <2>3. CASE ~restored
    <3>1. Created = {1}
      BY <2>1, <2>3 DEF Init, Created
    <3> QED BY <2>1, <2>3, <3>1, FS_Singleton DEF Latest
  <2> QED BY <2>2, <2>3 DEF Init
<1>3. SessionsInv
  <2>1. 1..0 = {} /\ 1..1 = {1}
    OBVIOUS
  <2>2. \A s \in Created : s # Latest => sess[s] = "disposed"
    BY <1>2, <2>1
  <2>3. \A s \in Session : turn[s] # "none" => sess[s] \in {"live", "disposing"}
    BY DEF Init
  <2>4. ref.session \in {Null, Latest} /\ ref.status # "unknown" /\ parks \cup releases = {}
    BY <1>2 DEF Init
  <2> QED BY <1>2, <2>2, <2>3, <2>4 DEF SessionsInv
<1>4. ref # NoRef
  BY DEF Init, NoRef
<1>5. WriterRegistered
  BY DEF Init, WriterRegistered, Writers
<1>6. RevivalAlone /\ HistoryRests /\ IdleHasSession /\ IdleIsTimed /\ PoisonInv
  BY DEF Init, RevivalAlone, HistoryRests, IdleHasSession, IdleIsTimed, PoisonInv
<1>7. RunOwnsAgent
  BY <1>2 DEF Init, RunOwnsAgent
<1>8. MailInv
  <2>1. DOMAIN mailbox = {} /\ ToSet(mailbox) = {}
    BY DEF Init, ToSet
  <2>2. PendingRegistered /\ OnePlace /\ ReceiptsTell
    BY <2>1 DEF Init, PendingRegistered, OnePlace, ReceiptsTell
  <2>3. MailOnce
    BY <2>1 DEF MailOnce
  <2>4. Unshown = {}
    BY Values DEF Init, Unshown
  <2> QED BY <2>1, <2>2, <2>3, <2>4 DEF MailInv, NoMailBehindAWait
<1> QED BY <1>1, <1>3, <1>5, <1>6, <1>7, <1>8, InvParts DEF AgentRest

\* Every step keeps the invariant.
LEMMA InvStep ==
  ASSUME AgentsAssumption, Inv, [Next]_vars
  PROVE  Inv'
<1>1. Types /\ AgentRest /\ MailInv
  BY InvParts
<1> DEFINE Goal == Types' /\ AgentRest' /\ MailInv'
<1> HIDE DEF Goal
<1>2. SUFFICES Goal
  BY InvParts DEF Goal
<1>3. ASSUME NEW s \in Session, ParkEnds(s) \/ ReleaseEnds(s) PROVE Goal
  <2>1. Types'
    BY <1>1, <1>3, ParkTypes
  <2>2. AgentRest'
    BY <1>1, <1>3, <2>1, ParkKeepsAgent
  <2>3. MailInv'
    BY <1>1, <1>3, <2>1, ParkKeepsMail
  <2> QED BY <2>1, <2>2, <2>3 DEF Goal
<1>4. CASE TimerFires \/ Release
  <2>1. Types'
    BY <1>1, <1>4, ParkTypes
  <2>2. AgentRest'
    BY <1>1, <1>4, <2>1, ParkKeepsAgent
  <2>3. MailInv'
    BY <1>1, <1>4, <2>1, ParkKeepsMail
  <2> QED BY <2>1, <2>2, <2>3 DEF Goal
<1>5. CASE FinishKeepAlive \/ FinishAborted \/ FinishIsolated \/ FinishAbandons \/ FinishDisposed
  <2>1. Types'
    BY <1>1, <1>5, FinishTypes
  <2>2. AgentRest'
    BY <1>1, <1>5, <2>1, FinishKeepsAgent
  <2>3. MailInv'
    BY <1>1, <1>5, <2>1, FinishKeepsMail
  <2> QED BY <2>1, <2>2, <2>3 DEF Goal
<1>6. CASE /\ ~Resumes
           /\ \/ Revive \/ ReviverResolved \/ RevivalRegisters \/ RevivalAttaches
              \/ RevivalEnds \/ RevivalFails
  <2>1. Types'
    BY <1>1, <1>6, RevivalTypes DEF AgentRest
  <2>2. AgentRest'
    BY <1>1, <1>6, <2>1, RevivalKeepsAgent
  <2>3. MailInv'
    BY <1>1, <1>6, <2>1, RevivalKeepsMail
  <2> QED BY <2>1, <2>2, <2>3 DEF Goal
<1>7. ASSUME NEW m \in Msg, HandOver(m) PROVE Goal
  BY <1>1, <1>7, HandOverKeeps DEF Goal
<1>8. ASSUME NEW m \in Msg, ~Resumes, Send(m) PROVE Goal
  BY <1>1, <1>8, SendKeeps DEF Goal
<1>9. ASSUME NEW s \in Session, SessionStep(s) PROVE Goal
  BY <1>1, <1>9, SessionStepKeeps DEF Goal
<1>10. CASE (\E from \in Peers \cup {"any"} : Wait(from)) \/ WaitEnds \/ Inbox
  BY <1>1, <1>10, ToolKeeps DEF Goal
<1>11. CASE UNCHANGED vars
  <2>1. UNCHANGED <<ref, adopted, timer, restored, run, sess, turn, parks, releases, revival, coldAdopted>>
    BY <1>11 DEF vars, agentVars, registryVars, sessionVars, lifecycleVars
  <2>2. UNCHANGED <<pending, heard, mailbox, waiting, sending, receipt>>
    BY <1>11 DEF vars, messageVars, busVars, inboxVars
  <2>3. Types'
    BY <1>1, <2>1, <2>2 DEF Types, RegistryTypes, SessionTypes, LifecycleTypes, InboxTypes, BusTypes
  <2>4. AgentRest'
    BY <1>1, <2>1, <2>3, TurnKeepsAgent DEF AgentRest, SessionsInv
  <2>5. MailInv'
    BY <1>1, <2>1, <2>2, <2>3, BusKept, QuietKeepsMail DEF AgentRest
  <2> QED BY <2>3, <2>4, <2>5 DEF Goal
<1> QED BY <1>3, <1>4, <1>5, <1>6, <1>7, <1>8, <1>9, <1>10, <1>11 DEF Next, Resumption, Event

\* At most one session of the agent is not disposed.
LEMMA WritersCounted ==
  ASSUME AgentInv
  PROVE  OneWriter
<1>1. \A s \in Writers : s = Latest
  BY DEF AgentInv, SessionsInv, Writers, Created
<1>2. CASE Writers = {}
  <2>1. Cardinality(Writers) = 0
    BY <1>2, FS_EmptySet
  <2> QED BY <2>1 DEF OneWriter
<1>3. CASE Writers # {}
  <2>1. Writers = {Latest}
    BY <1>1, <1>3
  <2>2. Cardinality(Writers) = 1
    BY <2>1, FS_Singleton
  <2>3. revival \notin {"opening", "building"}
    BY <1>3 DEF AgentInv, RevivalAlone
  <2> QED BY <2>2, <2>3 DEF OneWriter
<1> QED BY <1>2, <1>3

\* The copies of a message, counted where it is.
LEMMA CopiesCounted ==
  ASSUME AgentsAssumption, Inv
  PROVE  MessagesKept
<1>1. Types /\ AgentRest /\ MailInv
  BY InvParts
<1>2. ASSUME NEW m \in Msg
      PROVE  /\ Copies(m) = heard[m] + (IF \E s \in Session : m \in pending[s] THEN 1 ELSE 0)
                                    + (IF m \in ToSet(mailbox) THEN 1 ELSE 0)
  <2> DEFINE P == {s \in Session : m \in pending[s]}
             K == {k \in DOMAIN mailbox : mailbox[k] = m}
  <2>1. Cardinality(P) = IF \E s \in Session : m \in pending[s] THEN 1 ELSE 0
    <3>1. CASE P = {}
      BY <3>1, FS_EmptySet
    <3>2. CASE P # {}
      <4>1. PICK s \in Session : m \in pending[s]
        BY <3>2
      <4>2. P = {s}
        BY <1>1, <4>1 DEF MailInv, PendingRegistered
      <4> QED BY <4>1, <4>2, FS_Singleton
    <3> QED BY <3>1, <3>2
  <2>2. Cardinality(K) = IF m \in ToSet(mailbox) THEN 1 ELSE 0
    <3>1. CASE K = {}
      <4>1. m \notin ToSet(mailbox)
        BY <3>1 DEF ToSet
      <4> QED BY <3>1, <4>1, FS_EmptySet
    <3>2. CASE K # {}
      <4>1. PICK k \in DOMAIN mailbox : mailbox[k] = m
        BY <3>2
      <4>2. K = {k}
        BY <1>1, <4>1 DEF MailInv, MailOnce
      <4>3. m \in ToSet(mailbox)
        BY <4>1 DEF ToSet
      <4> QED BY <4>2, <4>3, FS_Singleton
    <3> QED BY <3>1, <3>2
  <2> QED BY <2>1, <2>2 DEF Copies
<1>3. ASSUME NEW m \in Msg
      PROVE  /\ Copies(m) <= 1
             /\ receipt[m] = "none" => Copies(m) = 0
             /\ receipt[m] = "delivered" => Copies(m) = 1 /\ m \notin ToSet(mailbox)
  <2>1. heard[m] \in Nat
    BY <1>1 DEF Types, InboxTypes
  <2>2. /\ heard[m] <= 1
        /\ \A s \in Session : m \in pending[s] => heard[m] = 0 /\ m \notin ToSet(mailbox)
        /\ m \in ToSet(mailbox) => heard[m] = 0
    BY <1>1 DEF MailInv, OnePlace
  <2>3. /\ receipt[m] = "none" =>
             heard[m] = 0 /\ m \notin ToSet(mailbox) /\ \A s \in Session : m \notin pending[s]
        /\ receipt[m] = "delivered" =>
             m \notin ToSet(mailbox) /\ (heard[m] = 1 \/ \E s \in Session : m \in pending[s])
    BY <1>1 DEF MailInv, ReceiptsTell
  <2> QED BY <1>2, <2>1, <2>2, <2>3
<1>4. \A s \in Session : pending[s] # {} => sess[s] = "live"
  BY <1>1 DEF MailInv, PendingRegistered
<1> QED BY <1>3, <1>4 DEF MessagesKept

\* The invariant is one of the specification.
LEMMA AlwaysInv ==
  Spec => []Inv
<1>1. Init => Inv
  BY AgentsAssumption, InvInit
<1>2. Inv /\ [Next]_vars => Inv'
  BY AgentsAssumption, InvStep
<1> QED BY <1>1, <1>2, PTL DEF Spec

-----------------------------------------------------------------------------
(* What holds of every agent, whoever sends it whatever *)

\* Every variable has its type, and only an adopted agent has an idle timer
\* (AgentLifecycleManager's #adopted holds the timers).
THEOREM Typed ==
  Spec => []TypeOK
<1>1. Inv => TypeOK
  BY DEF Inv, AgentInv
<1> QED BY <1>1, AlwaysInv, PTL

\* The transcript has one writer: a reviver opens the file only when all
\* sessions of the agent are disposed.
THEOREM AlwaysOneWriter ==
  Spec => []OneWriter
<1>1. Inv => OneWriter
  BY WritersCounted DEF Inv
<1> QED BY <1>1, AlwaysInv, PTL

\* An adopted agent that is idle has its timer running or is being parked.
THEOREM IdleAlwaysTimed ==
  Spec => []IdleIsTimed
<1>1. Inv => IdleIsTimed
  BY DEF Inv, AgentInv
<1> QED BY <1>1, AlwaysInv, PTL

\* A cold revive that fails leaves no reviver behind.
THEOREM NeverAPoisonedReviver ==
  Spec => []NoPoisonedReviver
<1>1. Inv => NoPoisonedReviver
  BY DEF Inv, AgentInv, PoisonInv, NoPoisonedReviver
<1> QED BY <1>1, AlwaysInv, PTL

\* A message is neither lost nor given twice, through any number of parkings,
\* revivals and releases, and what send() reports as delivered is with the
\* agent or pending in its live session.
THEOREM MessagesAlwaysKept ==
  Spec => []MessagesKept
<1>1. Inv => MessagesKept
  BY AgentsAssumption, CopiesCounted
<1> QED BY <1>1, AlwaysInv, PTL

\* The agent's irc wait never waits for mail that is there.
THEOREM NeverMailBehindAWait ==
  Spec => []NoMailBehindAWait
<1>1. Inv => NoMailBehindAWait
  BY DEF Inv, MailInv
<1> QED BY <1>1, AlwaysInv, PTL

-----------------------------------------------------------------------------
(* What send() promises *)

\* Where a message is, and the promise (Delivery.tla) about it.
IsPending(m) == \E s \in Session : m \in pending[s]
PlaceOf(m) ==
  IF receipt[m] = "none" THEN "sender"
  ELSE IF heard[m] = 1 THEN "agent"
  ELSE IF IsPending(m) THEN "session"
  ELSE IF m \in ToSet(mailbox) THEN "mailbox" ELSE "lost"
Place == [m \in Msg |-> PlaceOf(m)]

Promise == INSTANCE Delivery WITH Messages <- Msg, Cap <- MailboxCap, place <- Place, told <- receipt
PromiseKept == Promise!Spec

\* A sequence without repetitions has as many elements as it is long.
LEMMA ElementsCounted ==
  ASSUME NEW S, NEW s \in Seq(S), \A i, j \in 1..Len(s) : s[i] = s[j] => i = j
  PROVE  Cardinality(ToSet(s)) = Len(s)
<1>1. /\ Len(s) \in Nat /\ DOMAIN s = 1..Len(s) /\ s \in [1..Len(s) -> S]
      /\ ToSet(s) = {s[i] : i \in 1..Len(s)}
  BY DEF ToSet
<1>2. s \in [1..Len(s) -> ToSet(s)]
  BY <1>1
<1>3. s \in Bijection(1..Len(s), ToSet(s))
  BY <1>1, <1>2 DEF Bijection, Injection, Surjection, IsInjective
<1>4. ExistsBijection(1..Len(s), ToSet(s))
  BY <1>3 DEF ExistsBijection
<1> QED BY <1>1, <1>4, FS_CountingElements

\* What is in a mailbox that took one more message.
LEMMA QueuedElements ==
  ASSUME NEW S, NEW s \in Seq(S), NEW m \in S, NEW cap \in Nat \ {0}, Len(s) <= cap,
         \A i, j \in 1..Len(s) : s[i] = s[j] => i = j, m \notin ToSet(s)
  PROVE  /\ Len(s) # cap => ToSet(Queued(s, m, cap)) = ToSet(s) \cup {m}
         /\ Len(s) = cap => \E old \in ToSet(s) :
                              ToSet(Queued(s, m, cap)) = (ToSet(s) \ {old}) \cup {m}
<1> DEFINE t == Queued(s, m, cap)
<1>1. /\ Len(s) \in Nat /\ cap \in Nat /\ DOMAIN s = 1..Len(s)
      /\ ToSet(s) = {s[i] : i \in 1..Len(s)}
  BY DEF ToSet
<1>2. /\ t \in Seq(S)
      /\ Len(s) = cap => /\ Len(t) = Len(s) /\ t[Len(s)] = m
                        /\ \A i \in 1..Len(s) - 1 : t[i] = s[i + 1]
      /\ Len(s) # cap => /\ Len(t) = Len(s) + 1 /\ t[Len(s) + 1] = m
                        /\ \A i \in 1..Len(s) : t[i] = s[i]
  BY QueuedShape
<1> HIDE DEF t
<1>3. ToSet(t) = {t[i] : i \in 1..Len(t)}
  <2>1. DOMAIN t = 1..Len(t)
    BY <1>2
  <2> QED BY <2>1 DEF ToSet
<1>4. CASE Len(s) # cap
  <2>1. /\ Len(t) = Len(s) + 1 /\ t[Len(s) + 1] = m
        /\ \A i \in 1..Len(s) : t[i] = s[i]
    BY <1>2, <1>4
  <2>2. \A i \in 1..Len(s) + 1 : i = Len(s) + 1 \/ i \in 1..Len(s)
    BY <1>1
  <2>3. Len(s) + 1 \in 1..Len(s) + 1 /\ \A i \in 1..Len(s) : i \in 1..Len(s) + 1
    BY <1>1
  <2>4. ToSet(t) \subseteq ToSet(s) \cup {m}
    <3>1. ASSUME NEW i \in 1..Len(s) + 1 PROVE t[i] \in ToSet(s) \cup {m}
      BY <1>1, <2>1, <2>2
    <3> QED BY <1>3, <2>1, <3>1
  <2>5. ToSet(s) \cup {m} \subseteq ToSet(t)
    <3>1. ASSUME NEW i \in 1..Len(s) + 1 PROVE t[i] \in ToSet(t)
      BY <1>3, <2>1
    <3>2. \A i \in 1..Len(s) : s[i] \in ToSet(t)
      BY <2>1, <2>3, <3>1
    <3>3. m \in ToSet(t)
      BY <2>1, <2>3, <3>1
    <3> QED BY <1>1, <3>2, <3>3
  <2> QED BY <1>4, <2>4, <2>5 DEF t
<1>5. CASE Len(s) = cap
  <2>1. /\ Len(t) = Len(s) /\ t[Len(s)] = m
        /\ \A i \in 1..Len(s) - 1 : t[i] = s[i + 1]
    BY <1>2, <1>5
  <2>2. Len(s) \in 1..Len(s) /\ 1 \in 1..Len(s)
    BY <1>1, <1>5
  <2>3. \A i \in 1..Len(s) - 1 : i \in 1..Len(s) /\ i + 1 \in 1..Len(s) /\ i + 1 # 1
    BY <1>1
  <2>4. ToSet(t) \subseteq (ToSet(s) \ {s[1]}) \cup {m}
    <3>1. ASSUME NEW i \in 1..Len(s) PROVE t[i] \in (ToSet(s) \ {s[1]}) \cup {m}
      <4>1. CASE i = Len(s)
        BY <2>1, <4>1
      <4>2. CASE i \in 1..Len(s) - 1
        BY <1>1, <2>1, <2>2, <2>3, <4>2
      <4>3. i = Len(s) \/ i \in 1..Len(s) - 1
        <5>1. Len(s) \in Nat
          BY <1>1
        <5> QED BY <5>1
      <4> QED BY <4>1, <4>2, <4>3
    <3> QED BY <1>3, <2>1, <3>1
  <2>5. ASSUME NEW i \in 1..Len(s), s[i] # s[1] PROVE s[i] \in ToSet(t)
    <3>1. i - 1 \in 1..Len(s) - 1 /\ (i - 1) + 1 = i /\ i - 1 \in 1..Len(s)
      <4>1. i # 1
        BY <2>5
      <4> QED BY <1>1, <4>1
    <3> QED BY <1>3, <2>1, <3>1
  <2>6. m \in ToSet(t) /\ s[1] \in ToSet(s)
    BY <1>1, <1>3, <2>1, <2>2
  <2>7. ToSet(t) = (ToSet(s) \ {s[1]}) \cup {m}
    BY <1>1, <2>4, <2>5, <2>6
  <2> QED BY <1>5, <2>6, <2>7 DEF t
<1> QED BY <1>4, <1>5

\* Places, as the variables tell them.
LEMMA PlaceFacts ==
  ASSUME Types, MailInv, NEW m \in Msg
  PROVE  /\ Place[m] = PlaceOf(m)
         /\ Place[m] = "sender" <=> receipt[m] = "none"
         /\ Place[m] = "agent" <=> heard[m] = 1
         /\ Place[m] = "session" <=> IsPending(m)
         /\ Place[m] = "mailbox" <=> m \in ToSet(mailbox)
         /\ heard[m] \in {0, 1}
<1>1. Place[m] = PlaceOf(m)
  BY DEF Place
<1>2. heard[m] \in {0, 1}
  BY DEF Types, InboxTypes, MailInv, OnePlace
<1>3. /\ IsPending(m) => heard[m] = 0 /\ m \notin ToSet(mailbox)
      /\ m \in ToSet(mailbox) => heard[m] = 0
      /\ receipt[m] = "none" => heard[m] = 0 /\ m \notin ToSet(mailbox) /\ ~IsPending(m)
  BY DEF MailInv, OnePlace, ReceiptsTell, IsPending
<1> QED BY <1>1, <1>2, <1>3 DEF PlaceOf

\* A step that moves no message can only refuse some.
LEMMA QuietRefuses ==
  ASSUME Types, MailInv, Types', UNCHANGED <<pending, heard, mailbox>>,
         \A m \in Msg :
           receipt'[m] = receipt[m] \/ (receipt[m] = "none" /\ receipt'[m] = "failed")
  PROVE  Promise!Next
<1> DEFINE M == {m \in Msg : receipt[m] = "none" /\ receipt'[m] = "failed"}
<1>1. ASSUME NEW m \in Msg
      PROVE  /\ m \in M => Place[m] = "sender"
             /\ Place'[m] = IF m \in M THEN "lost" ELSE Place[m]
  <2>1. Place'[m] = PlaceOf(m)' /\ Place[m] = PlaceOf(m)
    BY DEF Place
  <2>2. IsPending(m)' <=> IsPending(m)
    BY DEF IsPending
  <2>3. CASE m \in M
    <3>1. heard[m] = 0 /\ m \notin ToSet(mailbox) /\ ~IsPending(m)
      BY <2>3 DEF MailInv, ReceiptsTell, IsPending
    <3> QED BY <2>1, <2>2, <2>3, <3>1 DEF PlaceOf
  <2>4. CASE m \notin M
    <3>1. receipt'[m] = receipt[m]
      BY <2>4
    <3> QED BY <2>1, <2>2, <2>4, <3>1 DEF PlaceOf
  <2> QED BY <2>3, <2>4
<1>2. Place' = Promise!Moved(M, "lost")
  <2>1. Place' = [m \in Msg |-> Place'[m]]
    BY DEF Place
  <2> HIDE DEF M
  <2> QED BY <1>1, <2>1 DEF Promise!Moved
<1>3. receipt' = Promise!Told(M, "failed")
  <2>1. receipt' = [m \in Msg |-> receipt'[m]] /\ receipt = [m \in Msg |-> receipt[m]]
    BY DEF Types, BusTypes
  <2>2. \A m \in Msg : receipt'[m] = IF m \in M THEN "failed" ELSE receipt[m]
    OBVIOUS
  <2> HIDE DEF M
  <2> QED BY <2>1, <2>2 DEF Promise!Told
<1>4. M \subseteq Promise!At("sender")
  BY <1>1 DEF Promise!At
<1>5. M \in SUBSET Msg
  OBVIOUS
<1> HIDE DEF M
<1> QED BY <1>2, <1>3, <1>4, <1>5 DEF Promise!Next, Promise!Refuse

\* A step that gives the agent messages that were kept for it.
LEMMA GivenAreHeard ==
  ASSUME Types, MailInv, UNCHANGED receipt, NEW G \in SUBSET Msg,
         \A m \in G : m \in ToSet(mailbox) \/ \E s \in Session : m \in pending[s],
         \A m \in Msg : heard'[m] = heard[m] + (IF m \in G THEN 1 ELSE 0),
         \A m \in Msg : m \notin G => (m \in ToSet(mailbox') <=> m \in ToSet(mailbox)),
         \A m \in Msg, s \in Session : m \notin G => (m \in pending'[s] <=> m \in pending[s])
  PROVE  Promise!Next
<1>1. ASSUME NEW m \in Msg
      PROVE  /\ m \in G => Place[m] \in {"session", "mailbox"}
             /\ Place'[m] = IF m \in G THEN "agent" ELSE Place[m]
  <2>1. Place'[m] = PlaceOf(m)' /\ Place[m] = PlaceOf(m) /\ heard[m] \in {0, 1}
    BY PlaceFacts DEF Place
  <2>2. CASE m \in G
    <3>1. Place[m] \in {"session", "mailbox"} /\ heard[m] = 0 /\ receipt[m] # "none"
      BY <2>1, <2>2, PlaceFacts DEF IsPending
    <3>2. heard'[m] = 1
      BY <2>2, <3>1
    <3> QED BY <2>1, <2>2, <3>1, <3>2 DEF PlaceOf
  <2>3. CASE m \notin G
    <3>1. heard'[m] = heard[m]
      BY <2>1, <2>3
    <3>2. IsPending(m)' <=> IsPending(m)
      BY <2>3 DEF IsPending
    <3> QED BY <2>1, <2>3, <3>1, <3>2 DEF PlaceOf
  <2> QED BY <2>2, <2>3
<1>2. Place' = Promise!Moved(G, "agent")
  <2>1. Place' = [m \in Msg |-> Place'[m]]
    BY DEF Place
  <2> QED BY <1>1, <2>1 DEF Promise!Moved
<1>3. G \subseteq Promise!At("session") \cup Promise!At("mailbox")
  BY <1>1 DEF Promise!At
<1> QED BY <1>2, <1>3 DEF Promise!Next, Promise!Hear

\* A step that changes the place of one message, or of two.
LEMMA PlacesMoved ==
  ASSUME NEW m \in Msg, NEW p, \A k \in Msg : Place'[k] = IF k = m THEN p ELSE Place[k]
  PROVE  Place' = Promise!Moved({m}, p)
<1>1. Place' = [k \in Msg |-> Place'[k]]
  BY DEF Place
<1> QED BY <1>1 DEF Promise!Moved

\* The numbers of the abstract specification are those of this one.
LEMMA SameCardinality ==
  \A S : Promise!Cardinality(S) = Cardinality(S)
BY DEF Promise!Cardinality, Cardinality

\* The messages in the mailbox are as many as the mailbox is long.
LEMMA MailCounted ==
  ASSUME Types, MailInv
  PROVE  /\ Promise!At("mailbox") = ToSet(mailbox)
         /\ Promise!Cardinality(Promise!At("mailbox")) = Len(mailbox)
<1>1. /\ mailbox \in Seq(Msg) /\ DOMAIN mailbox = 1..Len(mailbox)
      /\ \A i, j \in 1..Len(mailbox) : mailbox[i] = mailbox[j] => i = j
  BY DEF Types, InboxTypes, MailInv, MailOnce
<1>2. ToSet(mailbox) \subseteq Msg
  BY <1>1 DEF ToSet
<1>3. Promise!At("mailbox") = ToSet(mailbox)
  BY <1>2, PlaceFacts DEF Promise!At
<1> QED BY <1>1, <1>3, ElementsCounted, SameCardinality

\* send() hands a message over as it promises.
LEMMA HandOverPromised ==
  ASSUME AgentsAssumption, Types, MailInv, Types', NEW m \in Msg, HandOver(m)
  PROVE  Promise!Next
<1>1. /\ pending \in [Session -> SUBSET Msg] /\ heard \in [Msg -> Nat] /\ mailbox \in Seq(Msg)
      /\ receipt \in [Msg -> {"none", "delivered", "failed"}]
      /\ ref.session \in Session \cup {Null}
      /\ sending[m] = "ready"
  BY RefFields DEF Types, InboxTypes, BusTypes, RegistryTypes, HandOver
<1>2. /\ receipt[m] = "none" /\ heard[m] = 0 /\ m \notin ToSet(mailbox) /\ ~IsPending(m)
      /\ Place[m] = "sender" /\ m \in Promise!At("sender")
  BY <1>1, PlaceFacts DEF MailInv, ReceiptsTell, IsPending, Promise!At
<1>3. \A k \in Msg : Place[k] = PlaceOf(k) /\ Place'[k] = PlaceOf(k)'
  BY DEF Place
<1>4. ASSUME NEW v, receipt' = [receipt EXCEPT ![m] = v]
      PROVE  receipt' = Promise!Told({m}, v) /\ receipt'[m] = v
             /\ \A k \in Msg : k # m => receipt'[k] = receipt[k]
  BY <1>1, <1>4 DEF Promise!Told
<1>5. CASE ToNobody(m)
  <2>1. UNCHANGED <<pending, heard, mailbox>> /\ receipt' = [receipt EXCEPT ![m] = "failed"]
    BY <1>5 DEF ToNobody, inboxVars
  <2>2. \A k \in Msg : receipt'[k] = receipt[k] \/ (receipt[k] = "none" /\ receipt'[k] = "failed")
    BY <1>2, <1>4, <2>1
  <2> QED BY <2>1, <2>2, QuietRefuses
<1>6. CASE ToWaiter(m) \/ (ToSession(m) /\ UNCHANGED pending)
  <2>1. /\ heard' = [heard EXCEPT ![m] = heard[m] + 1] /\ UNCHANGED <<pending, mailbox>>
        /\ receipt' = [receipt EXCEPT ![m] = "delivered"]
    <3>1. CASE ToWaiter(m)
      BY <3>1 DEF ToWaiter, Give
    <3>2. CASE ToSession(m) /\ UNCHANGED pending
      <4>1. ref.session \in Session /\ m \notin pending[ref.session]
        BY <1>1, <1>2, <3>2 DEF ToSession, IsPending
      <4>2. ~(pending' = [pending EXCEPT ![ref.session] = pending[ref.session] \cup {m}])
        BY <1>1, <3>2, <4>1
      <4> QED BY <3>2, <4>2 DEF ToSession, Give
    <3> QED BY <1>6, <3>1, <3>2
  <2>2. heard'[m] = 1 /\ \A k \in Msg : k # m => heard'[k] = heard[k]
    BY <1>1, <1>2, <2>1
  <2>3. ASSUME NEW k \in Msg PROVE Place'[k] = IF k = m THEN "agent" ELSE Place[k]
    <3>1. IsPending(k)' <=> IsPending(k)
      BY <2>1 DEF IsPending
    <3>2. receipt'[m] = "delivered" /\ (k # m => receipt'[k] = receipt[k])
      BY <1>4, <2>1
    <3>3. CASE k = m
      BY <1>3, <2>2, <3>2, <3>3 DEF PlaceOf
    <3>4. CASE k # m
      BY <1>3, <2>1, <2>2, <3>1, <3>2, <3>4 DEF PlaceOf
    <3> QED BY <3>3, <3>4
  <2>4. Place' = Promise!Moved({m}, "agent")
    BY <2>3, PlacesMoved
  <2>5. receipt' = Promise!Told({m}, "delivered")
    BY <1>4, <2>1
  <2> QED BY <1>2, <2>4, <2>5 DEF Promise!Next, Promise!Deliver
<1>7. CASE ToSession(m) /\ UNCHANGED heard
  <2>1. PICK s \in Session : s = ref.session
    BY <1>1, <1>7 DEF ToSession
  <2>2. /\ pending' = [pending EXCEPT ![s] = pending[s] \cup {m}] /\ UNCHANGED <<heard, mailbox>>
        /\ receipt' = [receipt EXCEPT ![m] = "delivered"]
    <3>1. ~Give(m)
      BY <1>1, <1>2, <1>7 DEF Give
    <3> QED BY <1>7, <2>1, <3>1 DEF ToSession
  <2>3. \A k \in Msg : IsPending(k)' <=> IsPending(k) \/ k = m
    <3>1. /\ pending'[s] = pending[s] \cup {m}
          /\ \A t \in Session : t # s => pending'[t] = pending[t]
      BY <1>1, <2>2
    <3> QED BY <3>1 DEF IsPending
  <2>4. ASSUME NEW k \in Msg PROVE Place'[k] = IF k = m THEN "session" ELSE Place[k]
    <3>1. receipt'[m] = "delivered" /\ (k # m => receipt'[k] = receipt[k])
      BY <1>4, <2>2
    <3>2. heard'[k] = heard[k] /\ mailbox' = mailbox
      BY <2>2
    <3>3. CASE k = m
      BY <1>2, <1>3, <2>3, <3>1, <3>2, <3>3 DEF PlaceOf
    <3>4. CASE k # m
      BY <1>3, <2>3, <3>1, <3>2, <3>4 DEF PlaceOf
    <3> QED BY <3>3, <3>4
  <2>5. Place' = Promise!Moved({m}, "session")
    BY <2>4, PlacesMoved
  <2>6. receipt' = Promise!Told({m}, "delivered")
    BY <1>4, <2>2
  <2> QED BY <1>2, <2>5, <2>6 DEF Promise!Next, Promise!Deliver
<1>8. CASE ToMailbox(m)
  <2>1. /\ mailbox' = Queued(mailbox, m, MailboxCap) /\ UNCHANGED <<pending, heard>>
        /\ receipt' = [receipt EXCEPT ![m] = "failed"]
    BY <1>8 DEF ToMailbox, Queued
  <2>2. /\ \A i, j \in 1..Len(mailbox) : mailbox[i] = mailbox[j] => i = j
        /\ Len(mailbox) <= MailboxCap /\ MailboxCap \in Nat \ {0} /\ Len(mailbox) \in Nat
    <3>1. DOMAIN mailbox = 1..Len(mailbox)
      BY <1>1
    <3>2. Len(mailbox) <= MailboxCap /\ Len(mailbox) \in Nat
      BY <1>1 DEF Types, InboxTypes
    <3>3. MailboxCap \in Nat \ {0}
      BY DEF AgentsAssumption
    <3>4. MailOnce
      BY DEF MailInv
    <3> QED BY <3>1, <3>2, <3>3, <3>4 DEF MailOnce
  <2>3. \A k \in Msg : IsPending(k)' <=> IsPending(k)
    BY <2>1 DEF IsPending
  <2>4. receipt' = Promise!Told({m}, "failed")
    BY <1>4, <2>1
  <2>5. /\ Promise!At("mailbox") = ToSet(mailbox)
        /\ Promise!Cardinality(Promise!At("mailbox")) = Len(mailbox)
    BY MailCounted
  <2>6. CASE Len(mailbox) # MailboxCap
    <3>1. ToSet(mailbox') = ToSet(mailbox) \cup {m}
      BY <1>1, <1>2, <2>1, <2>2, <2>6, QueuedElements
    <3>2. ASSUME NEW k \in Msg PROVE Place'[k] = IF k = m THEN "mailbox" ELSE Place[k]
      <4>1. /\ receipt'[m] = "failed" /\ (k # m => receipt'[k] = receipt[k])
            /\ heard'[k] = heard[k] /\ (IsPending(k)' <=> IsPending(k))
        BY <1>4, <2>1, <2>3
      <4>2. CASE k = m
        BY <1>2, <1>3, <3>1, <4>1, <4>2 DEF PlaceOf
      <4>3. CASE k # m
        BY <1>3, <3>1, <4>1, <4>3 DEF PlaceOf
      <4> QED BY <4>2, <4>3
    <3>3. Place' = Promise!Moved({m}, "mailbox")
      BY <3>2, PlacesMoved
    <3>4. Len(mailbox) < MailboxCap
      BY <2>2, <2>6
    <3> QED BY <1>2, <2>4, <2>5, <3>3, <3>4 DEF Promise!Next, Promise!Keep
  <2>7. CASE Len(mailbox) = MailboxCap
    <3>1. PICK old \in ToSet(mailbox) : ToSet(mailbox') = (ToSet(mailbox) \ {old}) \cup {m}
      <4>1. \E old \in ToSet(mailbox) :
              ToSet(Queued(mailbox, m, MailboxCap)) = (ToSet(mailbox) \ {old}) \cup {m}
        BY <1>1, <1>2, <2>2, <2>7, QueuedElements
      <4> QED BY <2>1, <4>1
    <3>2. old \in Msg /\ old # m
      BY <1>1, <1>2, <3>1 DEF ToSet
    <3>3. heard[old] # 1 /\ ~IsPending(old) /\ receipt[old] # "none"
      BY <3>1, <3>2, PlaceFacts
    <3>4. ASSUME NEW k \in Msg
          PROVE  Place'[k] = IF k = old THEN "lost" ELSE IF k = m THEN "mailbox" ELSE Place[k]
      <4>1. /\ receipt'[m] = "failed" /\ (k # m => receipt'[k] = receipt[k])
            /\ heard'[k] = heard[k] /\ (IsPending(k)' <=> IsPending(k))
        BY <1>4, <2>1, <2>3
      <4>2. CASE k = m
        BY <1>2, <1>3, <3>1, <3>2, <4>1, <4>2 DEF PlaceOf
      <4>3. CASE k = old
        BY <1>3, <3>1, <3>2, <3>3, <4>1, <4>3 DEF PlaceOf
      <4>4. CASE k # m /\ k # old
        BY <1>3, <3>1, <4>1, <4>4 DEF PlaceOf
      <4> QED BY <3>2, <4>2, <4>3, <4>4
    <3>5. Place' = [Promise!Moved({m}, "mailbox") EXCEPT ![old] = "lost"]
      <4>1. Place' = [k \in Msg |-> Place'[k]]
        BY DEF Place
      <4> QED BY <3>2, <3>4, <4>1 DEF Promise!Moved
    <3> QED BY <1>2, <2>4, <2>5, <2>7, <3>1, <3>5 DEF Promise!Next, Promise!Keep
  <2> QED BY <2>6, <2>7
<1> QED BY <1>5, <1>6, <1>7, <1>8 DEF HandOver, ToSession

\* A step that gives the agent all that is pending in a session.
LEMMA FlushPromised ==
  ASSUME Types, MailInv, UNCHANGED <<receipt, mailbox>>, NEW s \in Session,
         pending' = [pending EXCEPT ![s] = {}],
         heard' = [m \in Msg |-> heard[m] + (IF m \in pending[s] THEN 1 ELSE 0)]
  PROVE  Promise!Next
<1>1. pending \in [Session -> SUBSET Msg]
  BY DEF Types, InboxTypes
<1>2. PICK G \in SUBSET Msg : G = pending[s]
  BY <1>1
<1>3. \A m \in G : m \in ToSet(mailbox) \/ \E t \in Session : m \in pending[t]
  BY <1>2
<1>4. \A m \in Msg : heard'[m] = heard[m] + (IF m \in G THEN 1 ELSE 0)
  BY <1>2
<1>5. \A m \in Msg, t \in Session : m \notin G => (m \in pending'[t] <=> m \in pending[t])
  BY <1>1, <1>2
<1> QED BY <1>3, <1>4, <1>5, GivenAreHeard

\* The irc tool.
LEMMA ToolPromised ==
  ASSUME AgentsAssumption, Types, MailInv, Types',
         (\E from \in Peers \cup {"any"} : Wait(from)) \/ WaitEnds \/ Inbox
  PROVE  Promise!Next
<1>1. /\ UNCHANGED receipt
      /\ pending \in [Session -> SUBSET Msg] /\ heard \in [Msg -> Nat] /\ mailbox \in Seq(Msg)
      /\ ref.session \in Session \cup {Null}
  BY RefFields DEF Wait, WaitEnds, Inbox, busVars, Types, InboxTypes, RegistryTypes
<1>2. UNCHANGED receipt
  BY <1>1
<1>3. Unshown \in SUBSET Msg /\ ToSet(mailbox) \in SUBSET Msg
  BY <1>1 DEF Unshown, ToSet
<1>4. ASSUME UNCHANGED <<pending, heard, mailbox>> PROVE Promise!Next
  BY <1>1, <1>4, QuietRefuses
<1>5. ASSUME NEW m \in Unshown, TakePending(m) PROVE Promise!Next
  <2>1. PICK s \in Session : s = ref.session /\ m \in pending[s]
    BY <1>1, <1>5 DEF Unshown
  <2>2. /\ pending' = [pending EXCEPT ![s] = pending[s] \ {m}] /\ UNCHANGED mailbox
        /\ heard' = [heard EXCEPT ![m] = heard[m] + 1] /\ m \in Msg
    BY <1>3, <1>5, <2>1 DEF TakePending, Give
  <2>3. PICK G \in SUBSET Msg : G = {m}
    BY <2>2
  <2>4. \A k \in Msg : heard'[k] = heard[k] + (IF k \in G THEN 1 ELSE 0)
    BY <1>1, <2>2, <2>3
  <2>5. \A k \in Msg, t \in Session : k \notin G => (k \in pending'[t] <=> k \in pending[t])
    BY <1>1, <2>2, <2>3
  <2>6. \A k \in G : k \in ToSet(mailbox) \/ \E t \in Session : k \in pending[t]
    BY <2>1, <2>3
  <2>7. \A k \in Msg : k \notin G => (k \in ToSet(mailbox') <=> k \in ToSet(mailbox))
    BY <2>2
  <2> QED BY <1>2, <2>4, <2>5, <2>6, <2>7, GivenAreHeard
<1>6. ASSUME NEW k \in DOMAIN mailbox, mailbox' = RemoveAt(mailbox, k), Give(mailbox[k]),
             UNCHANGED pending
      PROVE  Promise!Next
  <2>1. /\ mailbox[k] \in Msg /\ mailbox[k] \in ToSet(mailbox)
        /\ ToSet(mailbox') = ToSet(mailbox) \ {mailbox[k]}
    BY <1>6, MailCut DEF MailInv
  <2>2. PICK G \in SUBSET Msg : G = {mailbox[k]}
    BY <2>1
  <2>3. \A m \in Msg : heard'[m] = heard[m] + (IF m \in G THEN 1 ELSE 0)
    BY <1>1, <1>6, <2>1, <2>2 DEF Give
  <2>4. \A m \in Msg : m \notin G => (m \in ToSet(mailbox') <=> m \in ToSet(mailbox))
    BY <2>1, <2>2
  <2>5. \A m \in G : m \in ToSet(mailbox) \/ \E t \in Session : m \in pending[t]
    BY <2>1, <2>2
  <2>6. \A m \in Msg, t \in Session : m \notin G => (m \in pending'[t] <=> m \in pending[t])
    BY <1>6
  <2> QED BY <1>2, <2>3, <2>4, <2>5, <2>6, GivenAreHeard
<1>7. CASE Inbox
  <2>1. PICK G \in SUBSET Msg : G = Unshown \cup ToSet(mailbox)
    BY <1>3
  <2>2. /\ mailbox' = <<>>
        /\ pending' = IF ref.session = Null THEN pending ELSE [pending EXCEPT ![ref.session] = {}]
        /\ heard' = [m \in Msg |-> heard[m] + (IF m \in G THEN 1 ELSE 0)]
    BY <1>7, <2>1 DEF Inbox
  <2>3. ToSet(mailbox') = {}
    BY <2>2 DEF ToSet
  <2>4. \A m \in Msg : m \notin G => (m \in ToSet(mailbox') <=> m \in ToSet(mailbox))
    BY <2>1, <2>3
  <2>5. \A m \in G : m \in ToSet(mailbox) \/ \E t \in Session : m \in pending[t]
    BY <1>1, <2>1 DEF Unshown
  <2>6. \A m \in Msg, t \in Session : m \notin G => (m \in pending'[t] <=> m \in pending[t])
    <3>1. CASE ref.session = Null
      BY <2>2, <3>1
    <3>2. CASE ref.session # Null
      <4>1. /\ ref.session \in Session /\ pending[ref.session] \subseteq G
            /\ \A t \in Session : pending'[t] = IF t = ref.session THEN {} ELSE pending[t]
        BY <1>1, <2>1, <2>2, <3>2 DEF Unshown
      <4> QED BY <4>1
    <3> QED BY <3>1, <3>2
  <2>7. \A m \in Msg : heard'[m] = heard[m] + (IF m \in G THEN 1 ELSE 0)
    BY <2>2
  <2> QED BY <1>2, <2>4, <2>5, <2>6, <2>7, GivenAreHeard
<1>8. CASE WaitEnds
  BY <1>4, <1>8 DEF WaitEnds
<1>9. ASSUME NEW from \in Peers \cup {"any"}, Wait(from) PROVE Promise!Next
  <2>1. CASE \E m \in Unshown : TakePending(m)
    BY <1>5, <2>1
  <2>2. CASE TakeMail(from)
    BY <1>6, <2>2 DEF TakeMail
  <2>3. CASE UNCHANGED <<pending, heard, mailbox>>
    BY <1>4, <2>3
  <2> QED BY <1>9, <2>1, <2>2, <2>3 DEF Wait
<1> QED BY <1>7, <1>8, <1>9

\* Every step is one the promise allows.
LEMMA StepPromised ==
  ASSUME AgentsAssumption, Inv, Inv', [Next]_vars
  PROVE  Promise!Next
<1>1. /\ Types /\ AgentRest /\ MailInv /\ Types' /\ ref \in Refs
      /\ sending \in [Msg -> {"unsent", "reviving", "ready", "done"}]
      /\ receipt \in [Msg -> {"none", "delivered", "failed"}]
      /\ \A m \in Msg : sending[m] # "done" <=> receipt[m] = "none"
  BY InvParts DEF Types, BusTypes, RegistryTypes, MailInv, ReceiptsTell
<1>2. ASSUME UNCHANGED <<pending, heard, mailbox, receipt>> PROVE Promise!Next
  BY <1>1, <1>2, QuietRefuses
<1>3. ASSUME UNCHANGED <<mailbox, receipt>>, NEW s \in Session,
             pending' = [pending EXCEPT ![s] = {}],
             heard' = [m \in Msg |-> heard[m] + (IF m \in pending[s] THEN 1 ELSE 0)]
      PROVE  Promise!Next
  BY <1>1, <1>3, FlushPromised
<1>4. ASSUME NEW s \in Session, SessionStep(s) PROVE Promise!Next
  <2>1. CASE Prompt(s) \/ AgentStart(s) \/ TurnDies(s) \/ DisposeEnds(s)
    BY <1>2, <2>1 DEF Prompt, AgentStart, TurnDies, DisposeEnds, messageVars, busVars, inboxVars
  <2>2. CASE Boundary(s) \/ TurnEnds(s) \/ PromptFails(s)
    BY <1>3, <2>2 DEF Boundary, TurnEnds, PromptFails, Settle, busVars
  <2> QED BY <1>4, <2>1, <2>2 DEF SessionStep
<1>5. CASE FinishKeepAlive \/ FinishAbandons \/ FinishDisposed
  BY <1>2, <1>5 DEF FinishKeepAlive, FinishAbandons, FinishDisposed, messageVars, busVars, inboxVars
<1>6. CASE FinishAborted \/ FinishIsolated
  <2>1. 1 \in Session /\ UNCHANGED <<mailbox, receipt>> /\ BeginDispose(1)
    BY <1>6, Values DEF FinishAborted, FinishIsolated, busVars
  <2> QED BY <1>3, <2>1 DEF BeginDispose
<1>7. CASE TimerFires \/ Release
  <2>1. UNCHANGED <<mailbox, receipt>>
    BY <1>7 DEF TimerFires, Release, busVars
  <2>2. CASE ref.session = Null
    BY <1>2, <1>7, <2>1, <2>2 DEF TimerFires, Release
  <2>3. CASE ref.session # Null
    <3>1. ref.session \in Session /\ BeginDispose(ref.session)
      BY <1>1, <1>7, <2>3, RefFields DEF TimerFires, Release
    <3> QED BY <1>3, <2>1, <3>1 DEF BeginDispose
  <2> QED BY <2>2, <2>3
<1>8. ASSUME NEW s \in Session, ParkEnds(s) \/ ReleaseEnds(s) PROVE Promise!Next
  BY <1>2, <1>8 DEF ParkEnds, ReleaseEnds, messageVars, busVars, inboxVars
<1>9. CASE Revive \/ ReviverResolved \/ RevivalRegisters \/ RevivalAttaches \/ RevivalEnds
  BY <1>2, <1>9 DEF Revive, ReviverResolved, RevivalRegisters, RevivalAttaches, RevivalEnds,
     messageVars, busVars, inboxVars
<1>10. CASE RevivalFails
  <2>1. UNCHANGED <<pending, heard, mailbox>> /\ Rejected
    BY <1>10 DEF RevivalFails, RevivalGivesUp, inboxVars
  <2>2. \A m \in Msg : receipt'[m] = receipt[m] \/ (receipt[m] = "none" /\ receipt'[m] = "failed")
    BY <1>1, <2>1 DEF Rejected, Reviving
  <2> QED BY <1>1, <2>1, <2>2, QuietRefuses
<1>11. ASSUME NEW m \in Msg, Send(m) PROVE Promise!Next
  <2>1. UNCHANGED <<pending, heard, mailbox>> /\ sending[m] = "unsent"
    BY <1>11 DEF Send, inboxVars
  <2>2. CASE SendFails(m)
    <3>1. \A k \in Msg : receipt'[k] = receipt[k] \/ (receipt[k] = "none" /\ receipt'[k] = "failed")
      BY <1>1, <2>1, <2>2 DEF SendFails
    <3> QED BY <1>1, <2>1, <3>1, QuietRefuses
  <2>3. CASE SendDirectly(m) \/ SendRevives(m)
    BY <1>2, <2>1, <2>3 DEF SendDirectly, SendRevives
  <2> QED BY <1>11, <2>2, <2>3 DEF Send
<1>12. ASSUME NEW m \in Msg, HandOver(m) PROVE Promise!Next
  BY <1>1, <1>12, HandOverPromised
<1>13. CASE (\E from \in Peers \cup {"any"} : Wait(from)) \/ WaitEnds \/ Inbox
  BY <1>1, <1>13, ToolPromised
<1>14. CASE UNCHANGED vars
  BY <1>2, <1>14 DEF vars, messageVars, busVars, inboxVars
<1> QED BY <1>4, <1>5, <1>6, <1>7, <1>8, <1>9, <1>10, <1>11, <1>12, <1>13, <1>14
        DEF Next, Resumption, Event

\* The registry, the lifecycle manager, the sessions and the bus together
\* implement the delivery of messages that Delivery.tla specifies: send()'s
\* answer is final, what it reports as delivered reaches the agent or stays
\* with its session, and a message it reports as failed is lost only if it
\* never reached the mailbox or gave way in a full one.
THEOREM DeliveryImplemented ==
  Spec => PromiseKept
<1>1. Init => Promise!Init
  <2> SUFFICES ASSUME Init PROVE Promise!Init
    OBVIOUS
  <2>1. receipt = [m \in Msg |-> "none"]
    BY DEF Init
  <2>2. Place = [m \in Msg |-> "sender"]
    BY <2>1 DEF Place, PlaceOf
  <2> QED BY <2>1, <2>2 DEF Promise!Init
<1>2. Inv /\ Inv' /\ [Next]_vars => [Promise!Next]_Promise!vars
  BY AgentsAssumption, StepPromised
<1> QED BY <1>1, <1>2, AlwaysInv, PTL DEF Spec, PromiseKept, Promise!Spec

\* What a sender was told stays true: answers are final, a message given to
\* the agent stays given, one that its session keeps goes nowhere but to the
\* agent, one that is lost does not come back, and the mailbox gets only
\* messages whose send() has just failed.
NothingTakenBack ==
  \A m \in Msg :
    /\ receipt[m] # "none" => receipt'[m] = receipt[m]
    /\ heard[m] = 1 => heard'[m] = 1
    /\ IsPending(m) => IsPending(m)' \/ heard'[m] = 1
    /\ Place[m] = "lost" => Place'[m] = "lost"
    /\ m \in ToSet(mailbox') /\ m \notin ToSet(mailbox) =>
         receipt[m] = "none" /\ receipt'[m] = "failed"

\* How a step that the promise allows moves a message.
LEMMA PlacesFollow ==
  ASSUME Types, MailInv, Promise!Next, NEW m \in Msg
  PROVE  /\ receipt[m] # "none" => receipt'[m] = receipt[m]
         /\ Place[m] = "agent" => Place'[m] = "agent"
         /\ Place[m] = "session" => Place'[m] \in {"session", "agent"}
         /\ Place[m] = "lost" => Place'[m] = "lost"
         /\ Place'[m] = "mailbox" =>
              Place[m] = "mailbox" \/ (Place[m] = "sender" /\ receipt'[m] = "failed")
<1>1. Place[m] = "sender" <=> receipt[m] = "none"
  BY PlaceFacts
<1>2. ASSUME NEW k \in Msg, Promise!Deliver(k)
      PROVE  \/ Place'[m] = Place[m] /\ receipt'[m] = receipt[m]
             \/ Place[m] = "sender" /\ Place'[m] \in {"session", "agent"}
  BY <1>2 DEF Promise!Deliver, Promise!At, Promise!Moved, Promise!Told
<1>3. ASSUME NEW k \in Msg, Promise!Keep(k)
      PROVE  \/ Place'[m] = Place[m] /\ receipt'[m] = receipt[m]
             \/ Place[m] = "sender" /\ Place'[m] = "mailbox" /\ receipt'[m] = "failed"
             \/ Place[m] = "mailbox" /\ Place'[m] = "lost" /\ receipt'[m] = receipt[m]
  <2>1. /\ Place[k] = "sender"
        /\ receipt'[m] = IF m = k THEN "failed" ELSE receipt[m]
    BY <1>3 DEF Promise!Keep, Promise!At, Promise!Told
  <2>2. CASE Place' = Promise!Moved({k}, "mailbox")
    BY <2>1, <2>2 DEF Promise!Moved
  <2>3. ASSUME NEW old \in Promise!At("mailbox"),
               Place' = [Promise!Moved({k}, "mailbox") EXCEPT ![old] = "lost"]
        PROVE  Place'[m] = IF m = old THEN "lost" ELSE IF m = k THEN "mailbox" ELSE Place[m]
    BY <2>3 DEF Promise!Moved, Promise!At
  <2>4. ASSUME NEW old \in Promise!At("mailbox") PROVE Place[old] = "mailbox" /\ old # k
    BY <2>1 DEF Promise!At
  <2> QED BY <1>3, <2>1, <2>2, <2>3, <2>4 DEF Promise!Keep
<1>4. ASSUME NEW M \in SUBSET Msg, Promise!Refuse(M)
      PROVE  \/ Place'[m] = Place[m] /\ receipt'[m] = receipt[m]
             \/ Place[m] = "sender" /\ Place'[m] = "lost"
  BY <1>4 DEF Promise!Refuse, Promise!At, Promise!Moved, Promise!Told
<1>5. ASSUME NEW M \in SUBSET Msg, Promise!Hear(M)
      PROVE  /\ receipt'[m] = receipt[m]
             /\ \/ Place'[m] = Place[m]
                \/ Place[m] \in {"session", "mailbox"} /\ Place'[m] = "agent"
  BY <1>5 DEF Promise!Hear, Promise!At, Promise!Moved
<1> QED BY <1>1, <1>2, <1>3, <1>4, <1>5 DEF Promise!Next

\* No step takes back what a sender was told or what the agent was given
\* (irc/bus.ts): what send() answers is true of the message from then on.
THEOREM AnswersAreFinal ==
  Spec => [][NothingTakenBack]_vars
<1>1. ASSUME Inv, Inv', [Next]_vars PROVE NothingTakenBack
  <2>1. Types /\ MailInv /\ Types' /\ MailInv' /\ Promise!Next
    BY <1>1, AgentsAssumption, InvParts, StepPromised
  <2>2. ASSUME NEW m \in Msg
        PROVE  /\ Place[m] = "agent" <=> heard[m] = 1
               /\ Place[m] = "session" <=> IsPending(m)
               /\ Place[m] = "mailbox" <=> m \in ToSet(mailbox)
               /\ Place[m] = "sender" <=> receipt[m] = "none"
    BY <2>1, PlaceFacts
  <2>3. ASSUME NEW m \in Msg
        PROVE  /\ Place'[m] = "agent" <=> heard'[m] = 1
               /\ Place'[m] = "session" <=> IsPending(m)'
               /\ Place'[m] = "mailbox" <=> m \in ToSet(mailbox')
    <3>1. Place'[m] = PlaceOf(m)'
      BY DEF Place
    <3>2. /\ IsPending(m)' => heard'[m] = 0 /\ m \notin ToSet(mailbox')
          /\ m \in ToSet(mailbox') => heard'[m] = 0
          /\ receipt'[m] = "none" => heard'[m] = 0 /\ m \notin ToSet(mailbox') /\ ~IsPending(m)'
      BY <2>1 DEF MailInv, OnePlace, ReceiptsTell, IsPending
    <3> QED BY <3>1, <3>2 DEF PlaceOf
  <2> QED BY <2>1, <2>2, <2>3, PlacesFollow DEF NothingTakenBack
<1>2. Inv /\ Inv' /\ [Next]_vars => [NothingTakenBack]_vars
  BY <1>1
<1> QED BY <1>2, AlwaysInv, PTL DEF Spec
=============================================================================
