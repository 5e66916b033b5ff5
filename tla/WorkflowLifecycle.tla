------------------------- MODULE WorkflowLifecycle -------------------------
(***************************************************************************)
(* The lifecycle log of one workflow family (workflow/lifecycle.ts).       *)
(*                                                                         *)
(* The code appends events to the session log and rebuilds the family from *)
(* the log before every operation (reconstructWorkflowFamilies).  Nothing  *)
(* is kept between two calls, so the state here is the rebuilt family, and *)
(* an action is an exported function: the guards that throw are conjuncts, *)
(* and the assignment is what the appended event does when it is replayed. *)
(* A call that throws appends nothing and is a stuttering step.            *)
(*                                                                         *)
(* A checkpoint is named after its attempt ("<attempt>:checkpoint-1"), so  *)
(* checkpoint[a] is the checkpoint of attempt a.  Requests are numbered in *)
(* the order in which they are proposed.                                   *)
(***************************************************************************)
EXTENDS Naturals, Sequences

CONSTANTS
  Attempt,                \* attempt ids
  Activation,             \* activation ids, unique within an attempt
  Node,                   \* node ids of every revision of the flow
  Freeze,                 \* frozen revisions of the flow
  MaxRequests,            \* change requests are 1..MaxRequests
  NodesOf,                \* NodesOf[f]: the nodes of freeze f
  WaitFor,                \* WaitFor[f][n]: the nodes join n waits for
  Migration,              \* Migration[f][n]: frontier mapping of f's migrations
  AgentsCanPropose,       \* freezes whose changePolicy.agentsCanPropose holds
  HumansCanApprove,       \* ... changePolicy.humansCanApprove
  SupervisorsCanApprove,  \* ... changePolicy.supervisorsCanApprove
  Carries,                \* Carries[r]: the freezes that hold r's operations
  Mapping,                \* Mapping[r][n]: r's frontierMapping
  Disposes,               \* Disposes[r]: nodes r abandons or rolls back
  None                    \* absent attempt, node, checkpoint or freeze

Request == 1 .. MaxRequests

ASSUME ConstantsAssumption ==
  /\ MaxRequests \in Nat
  /\ None \notin Attempt \cup Node \cup Freeze
  /\ NodesOf \in [Freeze -> SUBSET Node]
  /\ WaitFor \in [Freeze -> [Node -> SUBSET Node]]
  /\ Migration \in [Freeze -> [Node -> Node \cup {None}]]
  /\ AgentsCanPropose \subseteq Freeze
  /\ HumansCanApprove \subseteq Freeze
  /\ SupervisorsCanApprove \subseteq Freeze
  /\ Carries \in [Request -> SUBSET Freeze]
  /\ Mapping \in [Request -> [Node -> Node \cup {None}]]
  /\ Disposes \in [Request -> SUBSET Node]

VARIABLES
  status,      \* status[a]: the attempt's status, "none" before it starts
  freezeOf,    \* freezeOf[a]: the freeze the attempt runs
  source,      \* source[a]: attempt whose checkpoint a resumed, or None
  start,       \* start[a]: the start nodes of a resumed attempt
  record,      \* record[a][i]: the status logged for activation i of a
  ran,         \* ran[a][i]: the node activation i of a runs
  checkpoint,  \* checkpoint[a]: None or the checkpoint saved for a
  freezes,     \* the recorded freezes, oldest first, each once
  request,     \* request[r]: status and scope of a change request
  applied      \* applied[r]: the freezes r is recorded as applied to

attemptVars == <<status, freezeOf, source, start>>
activationVars == <<record, ran>>
requestVars == <<request, applied>>
vars == <<attemptVars, activationVars, checkpoint, freezes, requestVars>>

Active == {"running", "stop_requested"}
Settled == {"stopped", "failed"}
Terminal == Settled \cup {"completed"}
Outcome == {"completed", "failed", "aborted"}

Checkpoint == [completed : SUBSET Activation, aborted : SUBSET Activation,
               frontier : SUBSET Node, mapping : [Node -> Node]]
\* A request names an attempt, a checkpoint (by its attempt), both or neither.
Scope == [attempt : Attempt \cup {None}, checkpoint : Attempt \cup {None}]
RequestRecord ==
  [status : {"none", "proposed", "approved", "rejected"}, scope : Scope]

Unscoped == [attempt |-> None, checkpoint |-> None]

\* Every variable has its type.
TypeOK ==
  /\ status \in [Attempt -> {"none"} \cup Active \cup Terminal]
  /\ freezeOf \in [Attempt -> Freeze \cup {None}]
  /\ source \in [Attempt -> Attempt \cup {None}]
  /\ start \in [Attempt -> SUBSET Node]
  /\ record \in [Attempt -> [Activation -> {"none", "running"} \cup Outcome]]
  /\ ran \in [Attempt -> [Activation -> Node \cup {None}]]
  /\ checkpoint \in [Attempt -> Checkpoint \cup {None}]
  /\ freezes \in Seq(Freeze)
  /\ request \in [Request -> RequestRecord]
  /\ applied \in [Request -> SUBSET Freeze]

Init ==
  /\ status = [a \in Attempt |-> "none"]
  /\ freezeOf = [a \in Attempt |-> None]
  /\ source = [a \in Attempt |-> None]
  /\ start = [a \in Attempt |-> {}]
  /\ record = [a \in Attempt |-> [i \in Activation |-> "none"]]
  /\ ran = [a \in Attempt |-> [i \in Activation |-> None]]
  /\ checkpoint = [a \in Attempt |-> None]
  /\ freezes = << >>
  /\ request = [r \in Request |-> [status |-> "none", scope |-> Unscoped]]
  /\ applied = [r \in Request |-> {}]

-----------------------------------------------------------------------------
(* Freezes and attempts *)

Recorded == {freezes[k] : k \in 1 .. Len(freezes)}

\* recordWorkflowFreeze: replay keeps the first record of a freeze id.
WithFreeze(f) == IF f \in Recorded THEN freezes ELSE Append(freezes, f)

RecordFreeze(f) ==
  /\ freezes' = WithFreeze(f)
  /\ UNCHANGED <<attemptVars, activationVars, checkpoint, requestVars>>

\* recordWorkflowFreeze and startWorkflowAttempt: the runner calls one after
\* the other (startLifecycleAttempt).
StartAttempt(a, f) ==
  /\ status[a] = "none"
  /\ status' = [status EXCEPT ![a] = "running"]
  /\ freezeOf' = [freezeOf EXCEPT ![a] = f]
  /\ freezes' = WithFreeze(f)
  /\ UNCHANGED <<source, start, activationVars, checkpoint, requestVars>>

NoneRunning(a) == \A i \in Activation : record[a][i] # "running"

\* Mutant: the replay of a late stop request overwrites an ended attempt.
RequestStopLate(a) ==
  /\ status[a] # "none"
  /\ status' = [status EXCEPT ![a] = "stop_requested"]
  /\ UNCHANGED <<freezeOf, source, start, activationVars, checkpoint, freezes,
                 requestVars>>

RequestStop(a) ==
  /\ status[a] = "running"
  /\ status' = [status EXCEPT ![a] = "stop_requested"]
  /\ UNCHANGED <<freezeOf, source, start, activationVars, checkpoint, freezes,
                 requestVars>>

\* Mutant: running activations do not hold back the end of an attempt.
MayTerminateEarly(a) == status[a] \in Active

\* assertWorkflowAttemptTerminalTransitionAllowed
MayTerminate(a) == status[a] \in Active /\ NoneRunning(a)

CompleteAttempt(a) ==
  /\ MayTerminate(a)
  /\ status' = [status EXCEPT ![a] = "completed"]
  /\ UNCHANGED <<freezeOf, source, start, activationVars, checkpoint, freezes,
                 requestVars>>

FailAttempt(a) ==
  /\ MayTerminate(a)
  /\ status' = [status EXCEPT ![a] = "failed"]
  /\ UNCHANGED <<freezeOf, source, start, activationVars, checkpoint, freezes,
                 requestVars>>

-----------------------------------------------------------------------------
(* Activations.  The append functions check nothing: that an activation is *)
(* logged once, for an attempt that is still active, and ended once is the *)
(* discipline of their only caller, executeAndPersistActivation; module    *)
(* WorkflowRun shows that the runner keeps it.                             *)

BeginActivation(a, i, n) ==
  /\ status[a] \in Active
  /\ record[a][i] = "none"
  /\ record' = [record EXCEPT ![a][i] = "running"]
  /\ ran' = [ran EXCEPT ![a][i] = n]
  /\ UNCHANGED <<attemptVars, checkpoint, freezes, requestVars>>

EndActivation(a, i, outcome) ==
  /\ record[a][i] = "running"
  /\ record' = [record EXCEPT ![a][i] = outcome]
  /\ UNCHANGED <<attemptVars, ran, checkpoint, freezes, requestVars>>

-----------------------------------------------------------------------------
(* Change requests *)

\* workflowFreezeForChangeTarget: the attempt's freeze, else the freeze of the
\* checkpoint's attempt, else the latest one.
FreezeFor(scope) ==
  LET ofAttempt == scope.attempt # None /\ freezeOf[scope.attempt] # None
      ofCheckpoint == scope.checkpoint # None /\ checkpoint[scope.checkpoint] # None
  IN IF ofAttempt THEN freezeOf[scope.attempt]
     ELSE IF ofCheckpoint THEN freezeOf[scope.checkpoint]
     ELSE IF freezes = << >> THEN None ELSE freezes[Len(freezes)]

\* workflowChangePolicy: without a freeze agents may propose and humans approve.
MayPropose(internalAgent, scope) ==
  internalAgent => FreezeFor(scope) \in AgentsCanPropose \cup {None}

MayApprove(actor, scope) ==
  \/ actor = "human" /\ FreezeFor(scope) \in HumansCanApprove \cup {None}
  \/ actor = "supervisor" /\ FreezeFor(scope) \in SupervisorsCanApprove

\* An identical second proposal is a stuttering step, any other is refused.
Propose(r, scope, internalAgent) ==
  /\ request[r].status = "none"
  /\ \A q \in 1 .. r - 1 : request[q].status # "none"
  /\ MayPropose(internalAgent, scope)
  /\ request' = [request EXCEPT ![r].status = "proposed", ![r].scope = scope]
  /\ UNCHANGED <<attemptVars, activationVars, checkpoint, freezes, applied>>

Approve(r, actor) ==
  /\ request[r].status = "proposed"
  /\ MayApprove(actor, request[r].scope)
  /\ request' = [request EXCEPT ![r].status = "approved"]
  /\ UNCHANGED <<attemptVars, activationVars, checkpoint, freezes, applied>>

\* Mutant: the replay writes a status no other code knows.
RejectMisspelt(r) ==
  /\ request[r].status = "proposed"
  /\ request' = [request EXCEPT ![r].status = "denied"]
  /\ UNCHANGED <<attemptVars, activationVars, checkpoint, freezes, applied>>

Reject(r) ==
  /\ request[r].status = "proposed"
  /\ request' = [request EXCEPT ![r].status = "rejected"]
  /\ UNCHANGED <<attemptVars, activationVars, checkpoint, freezes, applied>>

\* Mutant: an attempt-scoped request needs a checkpoint only if its attempt ended.
ApplicableUnsettled(r) ==
  LET scope == request[r].scope IN
  /\ scope.checkpoint # None => checkpoint[scope.checkpoint] # None
  /\ scope.attempt # None /\ status[scope.attempt] \in Settled =>
       checkpoint[scope.attempt] # None

\* workflowChangeApplicationError is undefined
Applicable(r) ==
  LET scope == request[r].scope IN
  /\ scope.checkpoint # None => checkpoint[scope.checkpoint] # None
  /\ FreezeFor(scope) # None => Disposes[r] \subseteq NodesOf[FreezeFor(scope)]
  /\ scope = Unscoped => \A a \in Attempt : status[a] \notin Active
  /\ scope.attempt # None => /\ checkpoint[scope.attempt] # None
                             /\ status[scope.attempt] \in Settled

\* workflowChangeFreezeApplicationError is undefined
CarriedBy(r, f) ==
  /\ f \in Carries[r]
  /\ \A n \in Node : Mapping[r][n] # None => Mapping[r][n] \in NodesOf[f]

\* An application to a draft (a file on disk) is logged too, but no operation
\* reads it back: only applications to freezes are kept here.
RecordApplied(r, f) ==
  /\ request[r].status = "approved"
  /\ Applicable(r)
  /\ f \in Recorded
  /\ CarriedBy(r, f)
  /\ applied' = [applied EXCEPT ![r] = @ \cup {f}]
  /\ UNCHANGED <<attemptVars, activationVars, checkpoint, freezes, request>>

-----------------------------------------------------------------------------
(* Checkpoints and restarts *)

First(rs) == CHOOSE r \in rs : \A q \in rs : r <= q

\* lifecycleCheckpointSourceMapping: the first approved request that maps n.
SourceMapping(a) ==
  LET Maps(n) == {r \in Request : /\ request[r].status = "approved"
                                  /\ request[r].scope.attempt \in {None, a}
                                  /\ Mapping[r][n] # None}
  IN [n \in Node |-> IF Maps(n) = {} THEN n ELSE Mapping[First(Maps(n))][n]]

\* Mutant: the aborted ids are not validated against the log.
CreateCheckpointUnvalidated(a, completed, aborted, frontier) ==
  /\ checkpoint[a] = None
  /\ status[a] \in {"stop_requested"} \cup Settled
  /\ NoneRunning(a)
  /\ \A i \in completed : record[a][i] = "completed"
  /\ checkpoint' = [checkpoint EXCEPT ![a] =
       [completed |-> completed, aborted |-> aborted, frontier |-> frontier,
        mapping |-> SourceMapping(a)]]
  /\ status' = [status EXCEPT ![a] =
       IF @ = "stop_requested" THEN "stopped" ELSE @]
  /\ UNCHANGED <<freezeOf, source, start, activationVars, freezes, requestVars>>

\* createWorkflowCheckpoint; the runner saves one checkpoint per attempt.
CreateCheckpoint(a, completed, aborted, frontier) ==
  /\ checkpoint[a] = None
  /\ status[a] \in {"stop_requested"} \cup Settled
  /\ NoneRunning(a)
  /\ \A i \in completed : record[a][i] = "completed"
  /\ \A i \in aborted : record[a][i] = "aborted"
  /\ checkpoint' = [checkpoint EXCEPT ![a] =
       [completed |-> completed, aborted |-> aborted, frontier |-> frontier,
        mapping |-> SourceMapping(a)]]
  /\ status' = [status EXCEPT ![a] =
       IF @ = "stop_requested" THEN "stopped" ELSE @]
  /\ UNCHANGED <<freezeOf, source, start, activationVars, freezes, requestVars>>

\* The approved requests whose application lets s's checkpoint resume in f.
Authorising(s, f) ==
  {r \in Request : /\ request[r].status = "approved"
                   /\ request[r].scope.checkpoint \in {None, s}
                   /\ request[r].scope.attempt \in {None, s}
                   /\ f \in applied[r]}

\* Mutant: a saved mapping that does not land hides the node itself.
RestartTargetStrict(s, f, n) ==
  LET Lands(m) == m \in NodesOf[f]
      byRequest == {r \in Authorising(s, f) : Lands(Mapping[r][n])}
      saved == checkpoint[s].mapping[n]
  IN IF byRequest # {} THEN Mapping[First(byRequest)][n]
     ELSE IF Lands(Migration[f][n]) THEN Migration[f][n]
     ELSE IF Lands(saved) THEN saved ELSE None

\* restartFrontierCandidates: applied requests in order, the freeze's own
\* migrations, the mapping saved in the checkpoint, the node itself.
RestartTarget(s, f, n) ==
  LET Lands(m) == m \in NodesOf[f]
      byRequest == {r \in Authorising(s, f) : Lands(Mapping[r][n])}
      saved == checkpoint[s].mapping[n]
  IN IF byRequest # {} THEN Mapping[First(byRequest)][n]
     ELSE IF Lands(Migration[f][n]) THEN Migration[f][n]
     ELSE IF Lands(saved) THEN saved
     ELSE IF Lands(n) THEN n ELSE None

\* resolveWorkflowRestartStartNodeIds: a frontier node without a target drops.
RestartNodes(s, f) ==
  {RestartTarget(s, f, n) : n \in checkpoint[s].frontier} \ {None}

\* Mutant: every activation of the attempt counts, ended or not.
CheckpointedNodesAny(s) == {ran[s][i] : i \in Activation} \ {None}

\* checkpointCompletedNodeIds
CheckpointedNodes(s) ==
  {ran[s][i] : i \in {j \in checkpoint[s].completed : record[s][j] = "completed"}}

\* Mutant: any recorded freeze will do.
RestartAttemptUnapproved(a, s, f) ==
  /\ status[a] = "none"
  /\ checkpoint[s] # None
  /\ status[s] \in Settled
  /\ f \in Recorded
  /\ RestartNodes(s, f) # {}
  /\ \A n \in RestartNodes(s, f) : WaitFor[f][n] \subseteq CheckpointedNodes(s)
  /\ status' = [status EXCEPT ![a] = "running"]
  /\ freezeOf' = [freezeOf EXCEPT ![a] = f]
  /\ source' = [source EXCEPT ![a] = s]
  /\ start' = [start EXCEPT ![a] = RestartNodes(s, f)]
  /\ UNCHANGED <<activationVars, checkpoint, freezes, requestVars>>

\* assertWorkflowRestartAllowed and assertWorkflowRestartJoinReadiness; the
\* start nodes an operator names must be exactly the resolved ones.
RestartAttempt(a, s, f) ==
  /\ status[a] = "none"
  /\ checkpoint[s] # None
  /\ status[s] \in Settled
  /\ f \in Recorded
  /\ RestartNodes(s, f) # {}
  /\ \A n \in RestartNodes(s, f) : WaitFor[f][n] \subseteq CheckpointedNodes(s)
  /\ f # freezeOf[s] => Authorising(s, f) # {}
  /\ status' = [status EXCEPT ![a] = "running"]
  /\ freezeOf' = [freezeOf EXCEPT ![a] = f]
  /\ source' = [source EXCEPT ![a] = s]
  /\ start' = [start EXCEPT ![a] = RestartNodes(s, f)]
  /\ UNCHANGED <<activationVars, checkpoint, freezes, requestVars>>

-----------------------------------------------------------------------------
(* The inputs are those the runner produces: it runs nodes of the freeze   *)
(* and saves a frontier of them.                                           *)

NodesFor(a) == IF freezeOf[a] = None THEN {} ELSE NodesOf[freezeOf[a]]

AttemptNext(a) ==
  \/ \E f \in Freeze : StartAttempt(a, f)
  \/ \E s \in Attempt, f \in Freeze : RestartAttempt(a, s, f)
  \/ RequestStop(a)
  \/ CompleteAttempt(a)
  \/ FailAttempt(a)
  \/ \E i \in Activation, n \in NodesFor(a) : BeginActivation(a, i, n)
  \/ \E i \in Activation, o \in Outcome : EndActivation(a, i, o)
  \/ \E completed, aborted \in SUBSET Activation, frontier \in SUBSET NodesFor(a) :
       CreateCheckpoint(a, completed, aborted, frontier)

RequestNext(r) ==
  \/ \E scope \in Scope, internalAgent \in BOOLEAN :
       Propose(r, scope, internalAgent)
  \/ \E actor \in {"human", "supervisor"} : Approve(r, actor)
  \/ Reject(r)
  \/ \E f \in Freeze : RecordApplied(r, f)

Next ==
  \/ \E f \in Freeze : RecordFreeze(f)
  \/ \E a \in Attempt : AttemptNext(a)
  \/ \E r \in Request : RequestNext(r)

Spec == Init /\ [][Next]_vars

-----------------------------------------------------------------------------
(* Properties *)

\* An attempt that has not started or has ended has no running activation:
\* completeWorkflowAttempt, failWorkflowAttempt and createWorkflowCheckpoint
\* refuse while one runs, and nothing starts one afterwards.
SettledIsQuiet ==
  \A a \in Attempt : status[a] \notin Active => NoneRunning(a)

\* A checkpoint belongs to a stopped or failed attempt, for good, and every
\* activation it lists has, for good, the logged status it is listed under.
CheckpointFaithful ==
  \A a \in Attempt : checkpoint[a] # None =>
    /\ status[a] \in Settled
    /\ \A i \in checkpoint[a].completed : record[a][i] = "completed"
    /\ \A i \in checkpoint[a].aborted : record[a][i] = "aborted"

\* A resumed attempt comes from a settled, checkpointed attempt; it runs
\* another freeze only by an approved request in scope that was applied to it.
RestartLineage ==
  \A a \in Attempt : source[a] # None =>
    /\ status[a] # "none"
    /\ checkpoint[source[a]] # None
    /\ status[source[a]] \in Settled
    /\ freezeOf[a] # freezeOf[source[a]] =>
         Authorising(source[a], freezeOf[a]) # {}

\* A resumed attempt starts a join only if the checkpoint it came from lists a
\* completed activation, logged as completed, of every node the join waits for.
JoinsNotSkipped ==
  \A a \in Attempt : source[a] # None =>
    \A n \in start[a] : WaitFor[freezeOf[a]][n] \subseteq
      {ran[source[a]][i] : i \in {j \in checkpoint[source[a]].completed :
                                     record[source[a]][j] = "completed"}}

\* A resumed attempt starts somewhere, and for every frontier node that its
\* freeze still has it starts that node or a node it was mapped to.
ResumesFrontier ==
  \A a \in Attempt : source[a] # None =>
    LET s == source[a]
        f == freezeOf[a]
        Targets(n) == {n, Migration[f][n], checkpoint[s].mapping[n]}
                        \cup {Mapping[r][n] : r \in Request}
    IN /\ start[a] # {}
       /\ start[a] \subseteq NodesOf[f]
       /\ \A n \in checkpoint[s].frontier \cap NodesOf[f] :
            Targets(n) \cap start[a] # {}

\* What was applied was approved; if it was proposed for an attempt, that
\* attempt is settled and checkpointed; and a freeze it was applied to is in
\* the log and holds the request's operations.
AppliedWasSettled ==
  \A r \in Request : applied[r] # {} =>
    /\ request[r].status = "approved"
    /\ request[r].scope.attempt # None =>
         /\ checkpoint[request[r].scope.attempt] # None
         /\ status[request[r].scope.attempt] \in Settled
    /\ applied[r] \subseteq Recorded \cap Carries[r]

\* No step takes back what the log says: an ended attempt or activation, a
\* checkpoint, a decision on a request and an application stay as they are.
NothingRevoked ==
  /\ \A a \in Attempt :
       /\ status[a] \in Terminal => status'[a] = status[a]
       /\ checkpoint[a] # None => checkpoint'[a] = checkpoint[a]
       /\ \A i \in Activation :
            record[a][i] \in Outcome => record'[a][i] = record[a][i]
  /\ \A r \in Request :
       /\ request[r].status \in {"approved", "rejected"} =>
            request'[r] = request[r]
       /\ applied[r] \subseteq applied'[r]

LogIsFinal == [][NothingRevoked]_vars

=============================================================================
