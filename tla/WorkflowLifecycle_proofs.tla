---------------------- MODULE WorkflowLifecycle_proofs ----------------------
(***************************************************************************)
(* Proofs about the lifecycle log, for every family: any sets of attempts, *)
(* activations, nodes and freezes, and any number of change requests.      *)
(***************************************************************************)
EXTENDS WorkflowLifecycle, WellFoundedInduction, FiniteSetTheorems, TLAPS

-----------------------------------------------------------------------------
(* What the operators return *)

\* The first of some requests is one of them.  (The minimum exists because the
\* initial segments that end in rs are well-founded under strict inclusion.)
LEMMA FirstIsOne ==
  ASSUME NEW rs \in SUBSET Request, rs # {}, MaxRequests \in Nat
  PROVE  First(rs) \in rs
<1> DEFINE All == 1 .. MaxRequests
           Segments == {1 .. r : r \in rs}
<1>1. /\ Segments \subseteq SUBSET All
      /\ Segments # {}
  <2>1. \A r \in rs : 1 .. r \subseteq All
    BY DEF Request
  <2>2. PICK r \in rs : TRUE
    OBVIOUS
  <2>3. 1 .. r \in Segments
    OBVIOUS
  <2>. QED
    BY <2>1, <2>3
<1>2. IsWellFoundedOn(StrictSubsetOrdering(All), SUBSET All)
  <2>1. IsFiniteSet(All)
    BY FS_Interval
  <2>. QED
    BY <2>1, FS_FiniteSubsetsOfFinite, FS_StrictSubsetOrderingWellFounded
<1>3. PICK s \in Segments :
        \A t \in Segments : <<t, s>> \notin StrictSubsetOrdering(All)
  BY <1>1, <1>2, WFMin
<1>4. PICK r \in rs : s = 1 .. r
  OBVIOUS
<1>5. ASSUME NEW q \in rs, q < r  PROVE FALSE
  <2>1. /\ 1 .. q \in Segments
        /\ 1 .. q \subseteq 1 .. r
        /\ r \in 1 .. r /\ r \notin 1 .. q
        /\ 1 .. q \in SUBSET All /\ 1 .. r \in SUBSET All
    BY <1>5 DEF Request
  <2>. QED
    BY <2>1, <1>3, <1>4 DEF StrictSubsetOrdering
<1>6. \A q \in rs : r <= q
  BY <1>5 DEF Request
<1>. QED
  BY <1>6 DEF First

\* Recording a freeze keeps the log of freezes a sequence of freezes, and only
\* ever adds to it.
LEMMA WithFreezeType ==
  ASSUME freezes \in Seq(Freeze), NEW f \in Freeze
  PROVE  /\ WithFreeze(f) \in Seq(Freeze)
         /\ freezes' = WithFreeze(f) => Recorded \subseteq Recorded'
BY DEF WithFreeze, Recorded

\* The source mapping saved in a checkpoint sends nodes to nodes.
LEMMA SourceMappingType ==
  ASSUME ConstantsAssumption, NEW a \in Attempt
  PROVE  SourceMapping(a) \in [Node -> Node]
<1> DEFINE Maps(n) == {r \in Request : /\ request[r].status = "approved"
                                       /\ request[r].scope.attempt \in {None, a}
                                       /\ Mapping[r][n] # None}
<1>1. ASSUME NEW n \in Node, Maps(n) # {}
      PROVE  Mapping[First(Maps(n))][n] \in Node
  <2>1. First(Maps(n)) \in Maps(n)
    BY <1>1, FirstIsOne
  <2>. QED
    BY <2>1 DEF ConstantsAssumption
<1>. HIDE DEF Maps
<1>2. \A n \in Node :
        (IF Maps(n) = {} THEN n ELSE Mapping[First(Maps(n))][n]) \in Node
  BY <1>1
<1>. QED
  BY <1>2 DEF SourceMapping, Maps

\* The restart target of a frontier node is a node of the freeze that the node
\* is mapped to, or itself; it is None only if the freeze dropped the node.
LEMMA RestartTargetLands ==
  ASSUME ConstantsAssumption, NEW s, NEW f \in Freeze, NEW n
  PROVE  /\ RestartTarget(s, f, n) \in NodesOf[f] \cup {None}
         /\ n \in NodesOf[f] =>
              /\ RestartTarget(s, f, n) \in NodesOf[f]
              /\ RestartTarget(s, f, n) \in
                   {n, Migration[f][n], checkpoint[s].mapping[n]}
                     \cup {Mapping[r][n] : r \in Request}
<1> DEFINE byRequest == {r \in Authorising(s, f) : Mapping[r][n] \in NodesOf[f]}
<1>1. ASSUME byRequest # {}
      PROVE  /\ First(byRequest) \in Request
             /\ Mapping[First(byRequest)][n] \in NodesOf[f]
  <2>1. byRequest \in SUBSET Request
    BY DEF Authorising
  <2>2. First(byRequest) \in byRequest
    BY <2>1, <1>1, FirstIsOne DEF ConstantsAssumption
  <2>. QED
    BY <2>1, <2>2
<1>2. RestartTarget(s, f, n) =
        IF byRequest # {} THEN Mapping[First(byRequest)][n]
        ELSE IF Migration[f][n] \in NodesOf[f] THEN Migration[f][n]
        ELSE IF checkpoint[s].mapping[n] \in NodesOf[f] THEN checkpoint[s].mapping[n]
        ELSE IF n \in NodesOf[f] THEN n ELSE None
  BY DEF RestartTarget
<1>. HIDE DEF byRequest
<1>. QED
  BY <1>1, <1>2

\* A resumed attempt starts nodes of the freeze it runs.
LEMMA RestartNodesType ==
  ASSUME ConstantsAssumption, NEW s, NEW f \in Freeze
  PROVE  RestartNodes(s, f) \subseteq NodesOf[f]
<1>1. ASSUME NEW n
      PROVE  RestartTarget(s, f, n) \in NodesOf[f] \cup {None}
  BY RestartTargetLands
<1>. QED
  BY <1>1 DEF RestartNodes

-----------------------------------------------------------------------------
(* Type correctness *)

\* Every step of an attempt keeps the types.
LEMMA AttemptKeepsType ==
  ASSUME ConstantsAssumption, TypeOK, NEW a \in Attempt, AttemptNext(a)
  PROVE  TypeOK'
<1>1. ASSUME NEW f \in Freeze, StartAttempt(a, f)  PROVE  TypeOK'
  <2>1. WithFreeze(f) \in Seq(Freeze)
    BY WithFreezeType DEF TypeOK
  <2>. QED
    BY <1>1, <2>1 DEF TypeOK, StartAttempt, activationVars, requestVars, Active
<1>2. ASSUME NEW s \in Attempt, NEW f \in Freeze, RestartAttempt(a, s, f)
      PROVE  TypeOK'
  <2>1. RestartNodes(s, f) \in SUBSET Node
    BY RestartNodesType DEF ConstantsAssumption
  <2>. QED
    BY <1>2, <2>1 DEF TypeOK, RestartAttempt, activationVars, requestVars, Active
<1>3. CASE RequestStop(a)
  BY <1>3 DEF TypeOK, RequestStop, activationVars, requestVars, Active
<1>4. CASE CompleteAttempt(a)
  BY <1>4 DEF TypeOK, CompleteAttempt, activationVars, requestVars, Terminal
<1>5. CASE FailAttempt(a)
  BY <1>5 DEF TypeOK, FailAttempt, activationVars, requestVars, Terminal, Settled
<1>6. ASSUME NEW i \in Activation, NEW n \in NodesFor(a), BeginActivation(a, i, n)
      PROVE  TypeOK'
  <2>1. n \in Node
    BY <1>6 DEF NodesFor, TypeOK, ConstantsAssumption
  <2>. QED
    BY <1>6, <2>1 DEF TypeOK, BeginActivation, attemptVars, requestVars
<1>7. ASSUME NEW i \in Activation, NEW o \in Outcome, EndActivation(a, i, o)
      PROVE  TypeOK'
  BY <1>7 DEF TypeOK, EndActivation, attemptVars, requestVars
<1>8. ASSUME NEW completed \in SUBSET Activation, NEW aborted \in SUBSET Activation,
             NEW front \in SUBSET NodesFor(a),
             CreateCheckpoint(a, completed, aborted, front)
      PROVE  TypeOK'
  <2>1. front \in SUBSET Node
    BY <1>8 DEF NodesFor, TypeOK, ConstantsAssumption
  <2>2. [completed |-> completed, aborted |-> aborted, frontier |-> front,
         mapping |-> SourceMapping(a)] \in Checkpoint
    BY <2>1, SourceMappingType DEF Checkpoint
  <2>3. checkpoint' \in [Attempt -> Checkpoint \cup {None}]
    BY <1>8, <2>2 DEF TypeOK, CreateCheckpoint
  <2>4. status' \in [Attempt -> {"none"} \cup Active \cup Terminal]
    BY <1>8 DEF TypeOK, CreateCheckpoint, Terminal, Settled
  <2>. QED
    BY <1>8, <2>3, <2>4 DEF TypeOK, CreateCheckpoint, activationVars, requestVars
<1>. QED
  BY <1>1, <1>2, <1>3, <1>4, <1>5, <1>6, <1>7, <1>8 DEF AttemptNext

\* Every step of a change request keeps the types.
LEMMA RequestKeepsType ==
  ASSUME TypeOK, NEW r \in Request, RequestNext(r)
  PROVE  TypeOK'
<1>1. ASSUME NEW scope \in Scope, NEW agent \in BOOLEAN, Propose(r, scope, agent)
      PROVE  TypeOK'
  <2>1. request' \in [Request -> RequestRecord]
    BY <1>1 DEF TypeOK, Propose, RequestRecord
  <2>. QED
    BY <1>1, <2>1 DEF TypeOK, Propose, attemptVars, activationVars
<1>2. ASSUME NEW actor, Approve(r, actor)  PROVE  TypeOK'
  <2>1. request' \in [Request -> RequestRecord]
    BY <1>2 DEF TypeOK, Approve, RequestRecord
  <2>. QED
    BY <1>2, <2>1 DEF TypeOK, Approve, attemptVars, activationVars
<1>3. CASE Reject(r)
  <2>1. request' \in [Request -> RequestRecord]
    BY <1>3 DEF TypeOK, Reject, RequestRecord
  <2>. QED
    BY <1>3, <2>1 DEF TypeOK, Reject, attemptVars, activationVars
<1>4. ASSUME NEW f \in Freeze, RecordApplied(r, f)  PROVE  TypeOK'
  BY <1>4 DEF TypeOK, RecordApplied, attemptVars, activationVars
<1>. QED
  BY <1>1, <1>2, <1>3, <1>4 DEF RequestNext

\* Whatever is appended to the log, the rebuilt family has its types.
THEOREM TypeCorrect == Spec => []TypeOK
<1>1. Init => TypeOK
  BY ConstantsAssumption DEF Init, TypeOK, Unscoped, RequestRecord, Scope
<1>2. TypeOK /\ [Next]_vars => TypeOK'
  <2>. SUFFICES ASSUME TypeOK, [Next]_vars  PROVE TypeOK'
    OBVIOUS
  <2>1. ASSUME NEW f \in Freeze, RecordFreeze(f)  PROVE  TypeOK'
    <3>1. WithFreeze(f) \in Seq(Freeze)
      BY WithFreezeType DEF TypeOK
    <3>. QED
      BY <2>1, <3>1 DEF TypeOK, RecordFreeze, attemptVars, activationVars,
                        requestVars
  <2>2. ASSUME NEW a \in Attempt, AttemptNext(a)  PROVE  TypeOK'
    BY <2>2, AttemptKeepsType, ConstantsAssumption
  <2>3. ASSUME NEW r \in Request, RequestNext(r)  PROVE  TypeOK'
    BY <2>3, RequestKeepsType
  <2>4. CASE UNCHANGED vars
    BY <2>4 DEF TypeOK, vars, attemptVars, activationVars, requestVars
  <2>. QED
    BY <2>1, <2>2, <2>3, <2>4 DEF Next
<1>. QED
  BY <1>1, <1>2, PTL DEF Spec

-----------------------------------------------------------------------------
(* The log only grows *)

\* What an attempt was started with and what an activation runs never changes.
OriginsKept ==
  /\ \A a \in Attempt : status[a] # "none" =>
       /\ status'[a] # "none"
       /\ freezeOf'[a] = freezeOf[a]
       /\ source'[a] = source[a]
       /\ start'[a] = start[a]
  /\ \A a \in Attempt, i \in Activation :
       record[a][i] # "none" => ran'[a][i] = ran[a][i]
  /\ Recorded \subseteq Recorded'

\* A step of an attempt leaves the change requests alone, takes nothing back and
\* keeps the origins.
LEMMA AttemptOnlyAdds ==
  ASSUME TypeOK, NEW a \in Attempt, AttemptNext(a)
  PROVE  NothingRevoked /\ OriginsKept /\ UNCHANGED requestVars
<1>1. ASSUME NEW f \in Freeze, StartAttempt(a, f)
      PROVE  NothingRevoked /\ OriginsKept /\ UNCHANGED requestVars
  <2>1. Recorded \subseteq Recorded'
    BY <1>1, WithFreezeType DEF StartAttempt, TypeOK
  <2>. QED
    BY <1>1, <2>1 DEF StartAttempt, TypeOK, NothingRevoked, OriginsKept,
                      activationVars, requestVars, Terminal, Settled
<1>2. ASSUME NEW s \in Attempt, NEW f \in Freeze, RestartAttempt(a, s, f)
      PROVE  NothingRevoked /\ OriginsKept /\ UNCHANGED requestVars
  BY <1>2 DEF RestartAttempt, TypeOK, NothingRevoked, OriginsKept, Recorded,
              activationVars, requestVars, Terminal, Settled
<1>3. CASE RequestStop(a)
  BY <1>3 DEF RequestStop, TypeOK, NothingRevoked, OriginsKept, Recorded,
              activationVars, requestVars, Terminal, Settled
<1>4. CASE CompleteAttempt(a)
  BY <1>4 DEF CompleteAttempt, MayTerminate, TypeOK, NothingRevoked, OriginsKept,
              Recorded, activationVars, requestVars, Active, Terminal, Settled
<1>5. CASE FailAttempt(a)
  BY <1>5 DEF FailAttempt, MayTerminate, TypeOK, NothingRevoked, OriginsKept,
              Recorded, activationVars, requestVars, Active, Terminal, Settled
<1>6. ASSUME NEW i \in Activation, NEW n \in NodesFor(a), BeginActivation(a, i, n)
      PROVE  NothingRevoked /\ OriginsKept /\ UNCHANGED requestVars
  BY <1>6 DEF BeginActivation, TypeOK, NothingRevoked, OriginsKept, Recorded,
              attemptVars, requestVars, Outcome
<1>7. ASSUME NEW i \in Activation, NEW o \in Outcome, EndActivation(a, i, o)
      PROVE  NothingRevoked /\ OriginsKept /\ UNCHANGED requestVars
  BY <1>7 DEF EndActivation, TypeOK, NothingRevoked, OriginsKept, Recorded,
              attemptVars, requestVars, Outcome
<1>8. ASSUME NEW completed \in SUBSET Activation, NEW aborted \in SUBSET Activation,
             NEW front \in SUBSET NodesFor(a),
             CreateCheckpoint(a, completed, aborted, front)
      PROVE  NothingRevoked /\ OriginsKept /\ UNCHANGED requestVars
  BY <1>8 DEF CreateCheckpoint, TypeOK, NothingRevoked, OriginsKept, Recorded,
              activationVars, requestVars, Terminal, Settled
<1>. QED
  BY <1>1, <1>2, <1>3, <1>4, <1>5, <1>6, <1>7, <1>8 DEF AttemptNext

\* A step of a change request takes nothing back and leaves the attempts alone.
LEMMA RequestOnlyAdds ==
  ASSUME TypeOK, NEW r \in Request, RequestNext(r)
  PROVE  /\ NothingRevoked
         /\ UNCHANGED <<attemptVars, activationVars, checkpoint, freezes>>
<1>1. ASSUME NEW scope \in Scope, NEW agent \in BOOLEAN, Propose(r, scope, agent)
      PROVE  /\ NothingRevoked
             /\ UNCHANGED <<attemptVars, activationVars, checkpoint, freezes>>
  BY <1>1 DEF Propose, TypeOK, NothingRevoked, attemptVars, activationVars
<1>2. ASSUME NEW actor, Approve(r, actor)
      PROVE  /\ NothingRevoked
             /\ UNCHANGED <<attemptVars, activationVars, checkpoint, freezes>>
  BY <1>2 DEF Approve, TypeOK, NothingRevoked, attemptVars, activationVars
<1>3. CASE Reject(r)
  BY <1>3 DEF Reject, TypeOK, NothingRevoked, attemptVars, activationVars
<1>4. ASSUME NEW f \in Freeze, RecordApplied(r, f)
      PROVE  /\ NothingRevoked
             /\ UNCHANGED <<attemptVars, activationVars, checkpoint, freezes>>
  BY <1>4 DEF RecordApplied, TypeOK, NothingRevoked, attemptVars, activationVars
<1>. QED
  BY <1>1, <1>2, <1>3, <1>4 DEF RequestNext

\* No step takes anything back.
LEMMA StepsOnlyAdd ==
  ASSUME TypeOK, [Next]_vars
  PROVE  NothingRevoked /\ OriginsKept
<1>1. ASSUME NEW f \in Freeze, RecordFreeze(f)
      PROVE  NothingRevoked /\ OriginsKept
  <2>1. Recorded \subseteq Recorded'
    BY <1>1, WithFreezeType DEF RecordFreeze, TypeOK
  <2>. QED
    BY <1>1, <2>1 DEF RecordFreeze, NothingRevoked, OriginsKept, attemptVars,
                      activationVars, requestVars
<1>2. ASSUME NEW a \in Attempt, AttemptNext(a)
      PROVE  NothingRevoked /\ OriginsKept
  BY <1>2, AttemptOnlyAdds
<1>3. ASSUME NEW r \in Request, RequestNext(r)
      PROVE  NothingRevoked /\ OriginsKept
  BY <1>3, RequestOnlyAdds
     DEF OriginsKept, Recorded, attemptVars, activationVars
<1>4. CASE UNCHANGED vars
  BY <1>4 DEF NothingRevoked, OriginsKept, Recorded, vars, attemptVars,
              activationVars, requestVars
<1>. QED
  BY <1>1, <1>2, <1>3, <1>4 DEF Next

\* No step of any family takes back an ended attempt or activation, a
\* checkpoint, a decision on a request or an application.
THEOREM LogFinal == Spec => LogIsFinal
<1>1. TypeOK /\ [Next]_vars => [NothingRevoked]_vars
  BY StepsOnlyAdd
<1>. QED
  BY <1>1, TypeCorrect, PTL DEF Spec, LogIsFinal

-----------------------------------------------------------------------------
(* Settled attempts *)

\* An attempt that has not started or has ended has no running activation.
THEOREM SettledQuiet == Spec => []SettledIsQuiet
<1>1. Init => SettledIsQuiet
  BY DEF Init, SettledIsQuiet, NoneRunning
<1>2. TypeOK /\ SettledIsQuiet /\ [Next]_vars => SettledIsQuiet'
  <2>. SUFFICES ASSUME TypeOK, SettledIsQuiet, [Next]_vars,
                       NEW b \in Attempt, status'[b] \notin Active,
                       NEW j \in Activation
                PROVE  record'[b][j] # "running"
    BY DEF SettledIsQuiet, NoneRunning
  <2>1. ASSUME status[b] \notin Active, record[b][j] # "running",
               record'[b][j] # record[b][j]
        PROVE  record'[b][j] # "running"
    <3>1. ASSUME NEW a \in Attempt, NEW i \in Activation, NEW n \in NodesFor(a),
                 BeginActivation(a, i, n)
          PROVE  FALSE
      BY <2>1, <3>1 DEF BeginActivation, TypeOK
    <3>2. ASSUME NEW a \in Attempt, NEW i \in Activation, NEW o \in Outcome,
                 EndActivation(a, i, o)
          PROVE  record'[b][j] # "running"
      BY <2>1, <3>2 DEF EndActivation, TypeOK, Outcome
    <3>3. ASSUME NEW r \in Request, RequestNext(r)  PROVE FALSE
      BY <3>3, <2>1, RequestOnlyAdds DEF activationVars
    <3>. QED
      BY <2>1, <3>1, <3>2, <3>3
         DEF Next, AttemptNext, vars, activationVars, RecordFreeze, StartAttempt,
             RestartAttempt, RequestStop, CompleteAttempt, FailAttempt,
             CreateCheckpoint
  <2>2. CASE status[b] \notin Active
    BY <2>1, <2>2 DEF SettledIsQuiet, NoneRunning
  <2>3. CASE status[b] \in Active
    <3>1. ASSUME NEW a \in Attempt,
                 CompleteAttempt(a) \/ FailAttempt(a)
          PROVE  record'[b][j] # "running"
      BY <2>3, <3>1 DEF CompleteAttempt, FailAttempt, MayTerminate, NoneRunning,
                        TypeOK, activationVars, Active, Terminal, Settled
    <3>2. ASSUME NEW a \in Attempt, NEW completed, NEW aborted, NEW front,
                 CreateCheckpoint(a, completed, aborted, front)
          PROVE  record'[b][j] # "running"
      BY <2>3, <3>2 DEF CreateCheckpoint, NoneRunning, TypeOK, activationVars,
                        Active, Terminal, Settled
    <3>3. ASSUME NEW a \in Attempt, status[a] \in {"none", "running"},
                 status' = [status EXCEPT ![a] = "running"] \/
                 status' = [status EXCEPT ![a] = "stop_requested"]
          PROVE  FALSE
      BY <2>3, <3>3 DEF TypeOK, Active
    <3>4. CASE status' = status
      BY <2>3, <3>4
    <3>5. ASSUME NEW r \in Request, RequestNext(r)  PROVE FALSE
      BY <3>5, <2>3, RequestOnlyAdds DEF attemptVars
    <3>. QED
      BY <3>1, <3>2, <3>3, <3>4, <3>5
         DEF Next, AttemptNext, vars, attemptVars, RecordFreeze, StartAttempt,
             RestartAttempt, RequestStop, BeginActivation, EndActivation
  <2>. QED
    BY <2>2, <2>3
<1>. QED
  BY <1>1, <1>2, TypeCorrect, PTL DEF Spec

-----------------------------------------------------------------------------
(* Where a checkpoint, an application and a resumed attempt come from *)

\* Only CreateCheckpoint saves a checkpoint.
LEMMA NewCheckpoint ==
  ASSUME TypeOK, [Next]_vars, NEW b \in Attempt, checkpoint'[b] # checkpoint[b]
  PROVE  \E completed, aborted, front : CreateCheckpoint(b, completed, aborted, front)
<1>1. ASSUME NEW a \in Attempt, NEW completed, NEW aborted, NEW front,
             CreateCheckpoint(a, completed, aborted, front)
      PROVE  a = b
  BY <1>1 DEF CreateCheckpoint, TypeOK
<1>2. ASSUME NEW r \in Request, RequestNext(r)  PROVE FALSE
  BY <1>2, RequestOnlyAdds
<1>. QED
  BY <1>1, <1>2
     DEF Next, AttemptNext, vars, RecordFreeze, StartAttempt, RestartAttempt,
         RequestStop, CompleteAttempt, FailAttempt, BeginActivation, EndActivation

\* Only RestartAttempt gives an attempt a source.
LEMMA NewSource ==
  ASSUME TypeOK, [Next]_vars, NEW b \in Attempt, source'[b] # source[b]
  PROVE  \E s \in Attempt, f \in Freeze : RestartAttempt(b, s, f)
<1>1. ASSUME NEW a \in Attempt, NEW s \in Attempt, NEW f \in Freeze,
             RestartAttempt(a, s, f)
      PROVE  a = b
  BY <1>1 DEF RestartAttempt, TypeOK
<1>2. ASSUME NEW r \in Request, RequestNext(r)  PROVE FALSE
  BY <1>2, RequestOnlyAdds DEF attemptVars
<1>. QED
  BY <1>1, <1>2
     DEF Next, AttemptNext, vars, attemptVars, RecordFreeze, StartAttempt,
         RequestStop, CompleteAttempt, FailAttempt, BeginActivation,
         EndActivation, CreateCheckpoint

\* Only RecordApplied records an application.
LEMMA NewApplication ==
  ASSUME TypeOK, [Next]_vars, NEW q \in Request, applied'[q] # applied[q]
  PROVE  \E f \in Freeze : RecordApplied(q, f)
<1>1. ASSUME NEW r \in Request, NEW f \in Freeze, RecordApplied(r, f)
      PROVE  r = q
  BY <1>1 DEF RecordApplied, TypeOK
<1>2. ASSUME NEW a \in Attempt, AttemptNext(a)  PROVE FALSE
  BY <1>2, AttemptOnlyAdds DEF requestVars
<1>. QED
  BY <1>1, <1>2
     DEF Next, RequestNext, vars, requestVars, RecordFreeze, Propose, Approve,
         Reject

-----------------------------------------------------------------------------
(* Checkpoints and applications *)

\* A checkpoint belongs to a settled attempt and agrees with the log for good.
THEOREM CheckpointsFaithful == Spec => []CheckpointFaithful
<1>1. Init => CheckpointFaithful
  BY DEF Init, CheckpointFaithful
<1>2. TypeOK /\ CheckpointFaithful /\ [Next]_vars => CheckpointFaithful'
  <2>. SUFFICES ASSUME TypeOK, CheckpointFaithful, [Next]_vars,
                       NEW a \in Attempt, checkpoint'[a] # None
                PROVE  /\ status'[a] \in Settled
                       /\ \A i \in checkpoint'[a].completed :
                            record'[a][i] = "completed"
                       /\ \A i \in checkpoint'[a].aborted :
                            record'[a][i] = "aborted"
    BY DEF CheckpointFaithful
  <2>1. CASE checkpoint'[a] = checkpoint[a]
    <3>1. /\ checkpoint[a].completed \subseteq Activation
          /\ checkpoint[a].aborted \subseteq Activation
      BY <2>1 DEF TypeOK, Checkpoint
    <3>2. NothingRevoked
      BY StepsOnlyAdd
    <3>. QED
      BY <2>1, <3>1, <3>2 DEF CheckpointFaithful, NothingRevoked, Terminal, Outcome
  <2>2. CASE checkpoint'[a] # checkpoint[a]
    <3>1. PICK completed, aborted, front :
            CreateCheckpoint(a, completed, aborted, front)
      BY <2>2, NewCheckpoint
    <3>. QED
      BY <3>1 DEF CreateCheckpoint, TypeOK, activationVars, Settled
  <2>. QED
    BY <2>1, <2>2
<1>. QED
  BY <1>1, <1>2, TypeCorrect, PTL DEF Spec

\* What was applied was approved, its attempt is settled and checkpointed, and
\* the freeze it was applied to is in the log and carries it.
THEOREM AppliedSettled == Spec => []AppliedWasSettled
<1>1. Init => AppliedWasSettled
  BY DEF Init, AppliedWasSettled
<1>2. TypeOK /\ AppliedWasSettled /\ [Next]_vars => AppliedWasSettled'
  <2>. SUFFICES ASSUME TypeOK, AppliedWasSettled, [Next]_vars,
                       NEW r \in Request, applied'[r] # {}
                PROVE  /\ request'[r].status = "approved"
                       /\ request'[r].scope.attempt # None =>
                            /\ checkpoint'[request'[r].scope.attempt] # None
                            /\ status'[request'[r].scope.attempt] \in Settled
                       /\ applied'[r] \subseteq Recorded' \cap Carries[r]
    BY DEF AppliedWasSettled
  <2>1. request[r].scope.attempt \in Attempt \cup {None}
    BY DEF TypeOK, RequestRecord, Scope
  <2>2. CASE applied'[r] = applied[r]
    <3>1. NothingRevoked /\ Recorded \subseteq Recorded'
      BY StepsOnlyAdd DEF OriginsKept
    <3>. QED
      BY <2>1, <2>2, <3>1 DEF AppliedWasSettled, NothingRevoked, Terminal
  <2>3. CASE applied'[r] # applied[r]
    <3>1. PICK f \in Freeze : RecordApplied(r, f)
      BY <2>3, NewApplication
    <3>2. /\ applied'[r] = applied[r] \cup {f}
          /\ UNCHANGED <<attemptVars, checkpoint, freezes, request>>
      BY <3>1 DEF RecordApplied, TypeOK
    <3>3. /\ request[r].status = "approved"
          /\ Applicable(r)
          /\ f \in Recorded \cap Carries[r]
      BY <3>1 DEF RecordApplied, CarriedBy
    <3>4. applied[r] \subseteq Recorded \cap Carries[r]
      BY DEF AppliedWasSettled
    <3>5. request[r].scope.attempt # None =>
            /\ checkpoint[request[r].scope.attempt] # None
            /\ status[request[r].scope.attempt] \in Settled
      BY <3>3 DEF Applicable
    <3>. QED
      BY <3>2, <3>3, <3>4, <3>5 DEF attemptVars, Recorded
  <2>. QED
    BY <2>2, <2>3
<1>. QED
  BY <1>1, <1>2, TypeCorrect, PTL DEF Spec

-----------------------------------------------------------------------------
(* Resumed attempts *)

\* An authorisation to resume a checkpoint in another freeze is never lost.
LEMMA AuthorisingKept ==
  ASSUME TypeOK, NothingRevoked, NEW s \in Attempt, NEW f \in Freeze
  PROVE  Authorising(s, f) \subseteq Authorising(s, f)'
BY DEF Authorising, NothingRevoked, TypeOK

\* A step resumes an attempt, or the attempt is what it was.
LEMMA ResumedOrKept ==
  ASSUME TypeOK, RestartLineage, [Next]_vars, NEW a \in Attempt, source'[a] # None
  PROVE  \/ \E s \in Attempt, f \in Freeze : RestartAttempt(a, s, f)
         \/ /\ source[a] \in Attempt
            /\ status[a] # "none"
            /\ UNCHANGED <<source[a], freezeOf[a], start[a]>>
<1>1. CASE source'[a] = source[a]
  <2>1. status[a] # "none" /\ source[a] \in Attempt
    BY <1>1 DEF RestartLineage, TypeOK
  <2>. QED
    BY <1>1, <2>1, StepsOnlyAdd DEF OriginsKept
<1>2. CASE source'[a] # source[a]
  BY <1>2, NewSource
<1>. QED
  BY <1>1, <1>2

\* The step that resumes attempt a.
LEMMA Resuming ==
  ASSUME TypeOK, NEW a \in Attempt, NEW s \in Attempt, NEW f \in Freeze,
         RestartAttempt(a, s, f)
  PROVE  /\ a # s
         /\ source'[a] = s /\ freezeOf'[a] = f /\ start'[a] = RestartNodes(s, f)
         /\ status'[a] # "none"
         /\ UNCHANGED <<status[s], freezeOf[s], activationVars, checkpoint,
                        requestVars>>
BY DEF RestartAttempt, TypeOK, Settled

\* A resumed attempt comes from a settled, checkpointed attempt, in its freeze
\* or in one that an approved and applied request in scope lets it run.
THEOREM RestartsHaveLineage == Spec => []RestartLineage
<1>1. Init => RestartLineage
  BY DEF Init, RestartLineage
<1>2. TypeOK /\ RestartLineage /\ [Next]_vars => RestartLineage'
  <2>. SUFFICES ASSUME TypeOK, RestartLineage, [Next]_vars,
                       NEW a \in Attempt, source'[a] # None
                PROVE  /\ status'[a] # "none"
                       /\ checkpoint'[source'[a]] # None
                       /\ status'[source'[a]] \in Settled
                       /\ freezeOf'[a] # freezeOf'[source'[a]] =>
                            Authorising(source[a], freezeOf[a])' # {}
    BY DEF RestartLineage
  <2>1. NothingRevoked /\ OriginsKept
    BY StepsOnlyAdd
  <2>2. ASSUME NEW s \in Attempt, NEW f \in Freeze, RestartAttempt(a, s, f)
        PROVE  /\ status'[a] # "none"
               /\ checkpoint'[source'[a]] # None
               /\ status'[source'[a]] \in Settled
               /\ freezeOf'[a] # freezeOf'[source'[a]] =>
                    Authorising(source[a], freezeOf[a])' # {}
    <3>1. Authorising(s, f) \subseteq Authorising(s, f)'
      BY <2>1, AuthorisingKept
    <3>2. /\ checkpoint[s] # None
          /\ status[s] \in Settled
          /\ f # freezeOf[s] => Authorising(s, f) # {}
      BY <2>2 DEF RestartAttempt
    <3>3. /\ source'[a] = s /\ freezeOf'[a] = f
          /\ status'[a] # "none"
          /\ UNCHANGED <<status[s], freezeOf[s], checkpoint>>
      BY <2>2, Resuming
    <3>4. Authorising(source[a], freezeOf[a])' = Authorising(s, f)'
      BY <3>3 DEF Authorising
    <3>. QED
      BY <3>1, <3>2, <3>3, <3>4
  <2>3. ASSUME source[a] \in Attempt, status[a] # "none",
               UNCHANGED <<source[a], freezeOf[a], start[a]>>
        PROVE  /\ status'[a] # "none"
               /\ checkpoint'[source'[a]] # None
               /\ status'[source'[a]] \in Settled
               /\ freezeOf'[a] # freezeOf'[source'[a]] =>
                    Authorising(source[a], freezeOf[a])' # {}
    <3> DEFINE s == source[a]
               f == freezeOf[a]
    <3>1. /\ checkpoint[s] # None
          /\ status[s] \in Settled
          /\ f # freezeOf[s] => Authorising(s, f) # {}
      BY <2>3 DEF RestartLineage
    <3>2. /\ checkpoint'[s] # None
          /\ status'[s] \in Settled
          /\ status'[a] # "none"
          /\ freezeOf'[s] = freezeOf[s]
      BY <2>1, <2>3, <3>1 DEF NothingRevoked, OriginsKept, Terminal, Settled
    <3>3. Authorising(s, f) \subseteq
            {r \in Request : /\ request'[r].status = "approved"
                             /\ request'[r].scope.checkpoint \in {None, s}
                             /\ request'[r].scope.attempt \in {None, s}
                             /\ f \in applied'[r]}
      BY <2>1 DEF Authorising, NothingRevoked
    <3>4. Authorising(source[a], freezeOf[a])' =
            {r \in Request : /\ request'[r].status = "approved"
                             /\ request'[r].scope.checkpoint \in {None, s}
                             /\ request'[r].scope.attempt \in {None, s}
                             /\ f \in applied'[r]}
      BY <2>3 DEF Authorising
    <3>. QED
      BY <2>3, <3>1, <3>2, <3>3, <3>4
  <2>. QED
    BY <2>2, <2>3, ResumedOrKept
<1>. QED
  BY <1>1, <1>2, TypeCorrect, PTL DEF Spec

\* A resumed attempt starts a join only if its checkpoint lists a completed
\* activation of every node the join waits for, and the log still has it so.
THEOREM ResumedJoinsReady == Spec => []JoinsNotSkipped
<1>1. Init => JoinsNotSkipped
  BY DEF Init, JoinsNotSkipped
<1>2. TypeOK /\ RestartLineage /\ JoinsNotSkipped /\ [Next]_vars
        => JoinsNotSkipped'
  <2>. SUFFICES ASSUME TypeOK, RestartLineage, JoinsNotSkipped, [Next]_vars,
                       NEW a \in Attempt, source'[a] # None,
                       NEW n \in start'[a], NEW w \in WaitFor[freezeOf'[a]][n]
                PROVE  \E j \in checkpoint'[source'[a]].completed :
                         /\ record'[source'[a]][j] = "completed"
                         /\ ran'[source'[a]][j] = w
    BY DEF JoinsNotSkipped
  <2>1. NothingRevoked /\ OriginsKept
    BY StepsOnlyAdd
  <2>2. ASSUME NEW s \in Attempt, NEW f \in Freeze, RestartAttempt(a, s, f)
        PROVE  \E j \in checkpoint'[source'[a]].completed :
                 /\ record'[source'[a]][j] = "completed"
                 /\ ran'[source'[a]][j] = w
    <3>1. n \in RestartNodes(s, f) /\ w \in WaitFor[f][n]
      BY <2>2, Resuming
    <3>2. \A m \in RestartNodes(s, f) : WaitFor[f][m] \subseteq CheckpointedNodes(s)
      BY <2>2 DEF RestartAttempt
    <3>3. w \in CheckpointedNodes(s)
      BY <3>1, <3>2
    <3>. QED
      BY <2>2, <3>3, Resuming DEF CheckpointedNodes, activationVars
  <2>3. ASSUME source[a] \in Attempt, status[a] # "none",
               UNCHANGED <<source[a], freezeOf[a], start[a]>>
        PROVE  \E j \in checkpoint'[source'[a]].completed :
                 /\ record'[source'[a]][j] = "completed"
                 /\ ran'[source'[a]][j] = w
    <3> DEFINE s == source[a]
    <3>1. PICK j \in checkpoint[s].completed :
            record[s][j] = "completed" /\ ran[s][j] = w
      BY <2>3 DEF JoinsNotSkipped
    <3>2. checkpoint[s] # None /\ checkpoint'[s] = checkpoint[s]
      BY <2>1, <2>3 DEF RestartLineage, NothingRevoked
    <3>3. j \in Activation
      BY <2>3, <3>2 DEF TypeOK, Checkpoint
    <3>4. record'[s][j] = "completed" /\ ran'[s][j] = w
      BY <2>1, <2>3, <3>1, <3>3 DEF NothingRevoked, OriginsKept, Outcome
    <3>. QED
      BY <2>3, <3>1, <3>2, <3>4
  <2>. QED
    BY <2>2, <2>3, ResumedOrKept
<1>. QED
  BY <1>1, <1>2, TypeCorrect, RestartsHaveLineage, PTL DEF Spec

\* Every frontier node that the freeze still has is resumed at itself or at a
\* node it was mapped to, and an attempt always resumes somewhere.
THEOREM FrontierResumed == Spec => []ResumesFrontier
<1> DEFINE Reached(n, s, f) ==
      {n, Migration[f][n], checkpoint[s].mapping[n]}
        \cup {Mapping[r][n] : r \in Request}
<1>1. Init => ResumesFrontier
  BY DEF Init, ResumesFrontier
<1>2. ASSUME NEW s \in Attempt, NEW f \in Freeze,
             NEW n \in checkpoint[s].frontier \cap NodesOf[f]
      PROVE  Reached(n, s, f) \cap RestartNodes(s, f) # {}
  <2>1. NodesOf[f] \subseteq Node
    BY ConstantsAssumption DEF ConstantsAssumption
  <2>2. RestartTarget(s, f, n) # None
    <3>1. RestartTarget(s, f, n) \in NodesOf[f]
      BY RestartTargetLands, ConstantsAssumption
    <3>. QED
      BY <2>1, <3>1, ConstantsAssumption
  <2>3. RestartTarget(s, f, n) \in RestartNodes(s, f)
    BY <2>2 DEF RestartNodes
  <2>4. RestartTarget(s, f, n) \in Reached(n, s, f)
    BY RestartTargetLands, ConstantsAssumption
  <2>. QED
    BY <2>3, <2>4
<1>3. TypeOK /\ RestartLineage /\ ResumesFrontier /\ [Next]_vars
        => ResumesFrontier'
  <2>. SUFFICES ASSUME TypeOK, RestartLineage, ResumesFrontier, [Next]_vars,
                       NEW a \in Attempt, source'[a] # None
                PROVE  /\ start'[a] # {}
                       /\ start'[a] \subseteq NodesOf[freezeOf'[a]]
                       /\ \A n \in checkpoint'[source'[a]].frontier
                                     \cap NodesOf[freezeOf'[a]] :
                            Reached(n, source[a], freezeOf[a])' \cap start'[a] # {}
    BY DEF ResumesFrontier
  <2>1. NothingRevoked
    BY StepsOnlyAdd
  <2>2. ASSUME NEW s \in Attempt, NEW f \in Freeze, RestartAttempt(a, s, f)
        PROVE  /\ start'[a] # {}
               /\ start'[a] \subseteq NodesOf[freezeOf'[a]]
               /\ \A n \in checkpoint'[source'[a]].frontier
                             \cap NodesOf[freezeOf'[a]] :
                    Reached(n, source[a], freezeOf[a])' \cap start'[a] # {}
    <3>1. /\ source'[a] = s /\ freezeOf'[a] = f
          /\ start'[a] = RestartNodes(s, f)
          /\ checkpoint' = checkpoint
      BY <2>2, Resuming
    <3>2. RestartNodes(s, f) # {}
      BY <2>2 DEF RestartAttempt
    <3>3. RestartNodes(s, f) \subseteq NodesOf[f]
      BY RestartNodesType, ConstantsAssumption
    <3>. QED
      BY <1>2, <3>1, <3>2, <3>3
  <2>3. ASSUME source[a] \in Attempt, status[a] # "none",
               UNCHANGED <<source[a], freezeOf[a], start[a]>>
        PROVE  /\ start'[a] # {}
               /\ start'[a] \subseteq NodesOf[freezeOf'[a]]
               /\ \A n \in checkpoint'[source'[a]].frontier
                             \cap NodesOf[freezeOf'[a]] :
                    Reached(n, source[a], freezeOf[a])' \cap start'[a] # {}
    <3>1. checkpoint'[source[a]] = checkpoint[source[a]]
      BY <2>1, <2>3 DEF RestartLineage, NothingRevoked
    <3>. QED
      BY <2>3, <3>1 DEF ResumesFrontier
  <2>. QED
    BY <2>2, <2>3, ResumedOrKept
<1>. QED
  BY <1>1, <1>3, TypeCorrect, RestartsHaveLineage, PTL DEF Spec

=============================================================================
