---------------------------- MODULE WorkflowRun ----------------------------
(***************************************************************************)
(* One run of a workflow attempt (workflow/runner.ts): the scheduler, the  *)
(* runner's wrapper around every activation, the abort signals with their  *)
(* timers, and the end of the attempt in the lifecycle log.                *)
(*                                                                         *)
(* The wrapper (executeAndPersistActivation) takes an activation through   *)
(*                                                                         *)
(*   idle       its prompt is being resolved                               *)
(*   prepared   logged as started; script and model are being resolved     *)
(*   executing  the node runtime's operation is awaited                    *)
(*   verifying  the workspace of a read-only node is compared              *)
(*   failing    an error was thrown (aborting: one that means an abort)    *)
(*   returning  the outcome is logged; the promise is about to settle      *)
(*   settled    its promise has settled and races for the scheduler        *)
(*                                                                         *)
(* A catch block runs in the callback that threw, so while one is due no   *)
(* other step happens.  Timers fire only between callbacks: not while a    *)
(* promise is about to settle or the scheduler is about to resume.         *)
(***************************************************************************)
EXTENDS WorkflowScheduler

CONSTANTS
  ReadNodes,      \* nodes declared with workspaceAccess: "read"
  DeadlineNodes,  \* nodes with a deadline of their own
  Absent          \* what the lifecycle log does not have

ASSUME NodesAssumption ==
  /\ ReadNodes \subseteq Node /\ DeadlineNodes \subseteq Node
  /\ Absent \notin Node \cup {"attempt", "freeze"}

VARIABLES
  phase,       \* phase[i]: how far the wrapper of activation i is
  record,      \* record[i]: the status of i in the lifecycle log
  cut,         \* cut[i]: the reason of i's completion signal, once it exists
  nodeAbort,   \* the signal that aborts every node is aborted
  interrupted, \* the activations whose own signal is aborted
  attempt,     \* the attempt's status in the lifecycle log
  stopSeen,    \* the stop request was noticed; the deadline timer runs
  fin,         \* progress of runWorkflow
  checkpoint   \* the saved checkpoint, or NoCheckpoint

wrapperVars == <<phase, record, cut>>
signalVars == <<nodeAbort, interrupted, stopSeen>>
attemptVars == <<attempt, fin, checkpoint>>
runVars == <<schedulerVars, wrapperVars, signalVars, attemptVars>>

NoCheckpoint == [completed |-> {}, aborted |-> {}, frontier |-> NoFrontier]
Phases == {"idle", "prepared", "executing", "verifying", "failing", "aborting",
           "returning", "settled"}

\* Every variable of the run has its type.
RunTypeOK ==
  /\ TypeOK
  /\ phase \in [Ids -> Phases]
  /\ record \in [Ids -> {"none", "running", "completed", "failed", "aborted"}]
  /\ cut \in [Ids -> {"unset", "none", "node", "failfast"}]
  /\ nodeAbort \in BOOLEAN /\ stopSeen \in BOOLEAN /\ interrupted \subseteq Ids
  /\ attempt \in {"none", "running", "stop_requested", "stopped", "completed",
                  "failed"}
  /\ fin \in {"new", "running", "capturing", "over", "rejected"}
  /\ checkpoint.completed \subseteq Ids /\ checkpoint.aborted \subseteq Ids
  /\ checkpoint.frontier \subseteq Node \cup NoFrontier

RunInit ==
  /\ SchedulerInit
  /\ phase = [i \in Ids |-> "idle"]
  /\ record = [i \in Ids |-> "none"]
  /\ cut = [i \in Ids |-> "unset"]
  /\ nodeAbort = FALSE
  /\ interrupted = {}
  /\ attempt = "none"
  /\ stopSeen = FALSE
  /\ fin = "new"
  /\ checkpoint = NoCheckpoint

\* startLifecycleAttempt
StartRun ==
  /\ fin = "new"
  /\ fin' = "running"
  /\ attempt' = "running"
  /\ UNCHANGED <<schedulerVars, wrapperVars, signalVars, checkpoint>>

-----------------------------------------------------------------------------
(* The wrapper of an activation *)

InPhase(i, p) == status[i] = "running" /\ phase[i] = p

\* Activations with a completion signal the wrapper still looks at.
Listening == {i \in Ids : phase[i] \in {"executing", "verifying"}}

NodeSignalled(i) == nodeAbort \/ i \in interrupted

Enter(i, p) == phase' = [phase EXCEPT ![i] = p]

PromptResolved(i) ==
  /\ InPhase(i, "idle")
  /\ Enter(i, "prepared")
  /\ record' = [record EXCEPT ![i] = "running"]
  /\ UNCHANGED <<schedulerVars, cut, signalVars, attemptVars>>

\* Mutant: the start of an activation whose prompt failed is not logged.
PromptFailsUnlogged(i) ==
  /\ InPhase(i, "idle")
  /\ Enter(i, "failing")
  /\ UNCHANGED <<schedulerVars, record, cut, signalVars, attemptVars>>

\* The catch block logs the start that was not logged yet.
PromptFails(i) ==
  /\ InPhase(i, "idle")
  /\ Enter(i, "failing")
  /\ record' = [record EXCEPT ![i] = "running"]
  /\ UNCHANGED <<schedulerVars, cut, signalVars, attemptVars>>

PrepareFails(i) ==
  /\ InPhase(i, "prepared")
  /\ Enter(i, "failing")
  /\ UNCHANGED <<schedulerVars, record, cut, signalVars, attemptVars>>

\* Mutant: the completion signal takes over every abort of the scheduler.
ExecuteVerbatim(i) ==
  /\ InPhase(i, "prepared")
  /\ Enter(i, "executing")
  /\ cut' = [cut EXCEPT ![i] = IF NodeSignalled(i) THEN "node" ELSE cause]
  /\ UNCHANGED <<schedulerVars, record, signalVars, attemptVars>>

\* workflowNodeCompletionSignal, then executeWorkflowNode is awaited.  A stop of
\* the scheduler does not reach the signal, a sibling's failure does, and an
\* abort of the node itself is looked at first.
Execute(i) ==
  /\ InPhase(i, "prepared")
  /\ Enter(i, "executing")
  /\ cut' = [cut EXCEPT ![i] = IF NodeSignalled(i) THEN "node"
                               ELSE IF cause = "failfast" THEN "failfast"
                               ELSE "none"]
  /\ UNCHANGED <<schedulerVars, record, signalVars, attemptVars>>

\* Every way out of the await when the operation ends.  After a fail-fast
\* abort any end of the operation counts as an abort.
OperationEnds(i) ==
  /\ InPhase(i, "executing")
  /\ \/ /\ cut[i] # "failfast"
        /\ IF node[i] \in ReadNodes
           THEN Enter(i, "verifying") /\ UNCHANGED record
           ELSE /\ Enter(i, "returning")
                /\ record' = [record EXCEPT ![i] = "completed"]
     \/ Enter(i, "failing") /\ UNCHANGED record
     \/ Enter(i, "aborting") /\ UNCHANGED record
  /\ UNCHANGED <<schedulerVars, cut, signalVars, attemptVars>>

\* assertReadOnlyWorkspaceUnchanged; a fail-fast abort is not looked at again.
Verified(i) ==
  /\ InPhase(i, "verifying")
  /\ \/ Enter(i, "failing") /\ UNCHANGED record
     \/ /\ Enter(i, "returning")
        /\ record' = [record EXCEPT ![i] = "completed"]
  /\ UNCHANGED <<schedulerVars, cut, signalVars, attemptVars>>

\* The catch block: aborted if the completion signal is (or, before there is
\* one, would be) aborted, or if the error says so; failed otherwise.
AbortReason(i) ==
  IF cut[i] = "unset" THEN NodeSignalled(i) \/ cause = "failfast"
  ELSE cut[i] # "none"

Catch(i) ==
  /\ phase[i] \in {"failing", "aborting"}
  /\ Enter(i, "returning")
  /\ record' = [record EXCEPT ![i] =
       IF phase[i] = "aborting" \/ AbortReason(i) THEN "aborted" ELSE "failed"]
  /\ UNCHANGED <<schedulerVars, cut, signalVars, attemptVars>>

\* Mutant: a completed output of an aborted node counts as an abort too.
OutcomeAborted(i) ==
  CASE record[i] = "completed" /\ ~NodeSignalled(i) -> "output"
    [] record[i] = "failed" /\ ~NodeSignalled(i) /\ cause = "none" -> "error"
    [] OTHER -> "aborted"

\* executeSchedulerActivation: a failure becomes an abort when the node's
\* signal, or the scheduler's for whatever reason, is aborted by now.
Outcome(i) ==
  CASE record[i] = "completed" -> "output"
    [] record[i] = "aborted" -> "aborted"
    [] OTHER -> IF NodeSignalled(i) \/ cause # "none" THEN "aborted" ELSE "error"

Return(i) ==
  /\ InPhase(i, "returning")
  /\ Enter(i, "settled")
  /\ Settle(i, Outcome(i))
  /\ UNCHANGED <<record, cut, signalVars, attemptVars>>

-----------------------------------------------------------------------------
(* Signals and timers *)

Between == winner = 0 /\ \A i \in Ids : phase[i] # "returning"

Cut(is, reason) ==
  cut' = [i \in Ids |-> IF i \in is \cap Listening /\ cut[i] = "none"
                        THEN reason ELSE cut[i]]

SignalStop == IF cause = "none" THEN StopSignalled ELSE UNCHANGED schedulerVars

\* requestWorkflowAttemptStop, by /workflow stop or the end of the session.
RequestStop ==
  /\ attempt = "running"
  /\ attempt' = "stop_requested"
  /\ UNCHANGED <<schedulerVars, wrapperVars, signalVars, fin, checkpoint>>

\* The poll finds the request, or the command that made it goes on.
ObserveStop ==
  /\ fin = "running"
  /\ attempt = "stop_requested"
  /\ ~stopSeen
  /\ stopSeen' = TRUE
  /\ SignalStop
  /\ UNCHANGED <<wrapperVars, nodeAbort, interrupted, attemptVars>>

\* Mutant: the interrupt of one node cancels the deadline of the others.
StopDeadlineCancelled ==
  /\ fin = "running" /\ Between
  /\ stopSeen /\ ~nodeAbort /\ interrupted = {}
  /\ nodeAbort' = TRUE
  /\ Cut(Ids, "node")
  /\ UNCHANGED <<schedulerVars, phase, record, interrupted, stopSeen, attemptVars>>

\* The deadline of the stop request: every node is aborted.
StopDeadline ==
  /\ fin = "running" /\ Between
  /\ stopSeen /\ ~nodeAbort
  /\ nodeAbort' = TRUE
  /\ Cut(Ids, "node")
  /\ UNCHANGED <<schedulerVars, phase, record, interrupted, stopSeen, attemptVars>>

\* maxRuntimeMs: scheduling stops and the nodes are aborted.
RuntimeLimit ==
  /\ fin = "running" /\ Between
  /\ ~nodeAbort
  /\ SignalStop
  /\ nodeAbort' = TRUE
  /\ Cut(Ids, "node")
  /\ UNCHANGED <<phase, record, interrupted, stopSeen, attemptVars>>

\* The interrupt of one activation (/workflow interrupt) stops the scheduler
\* without a stop request in the log; a deadline may come before the abort.
InterruptScheduling ==
  /\ fin = "running" /\ attempt = "running" /\ cause = "none"
  /\ \E i \in Ids : record[i] = "running"
  /\ StopSignalled
  /\ UNCHANGED <<wrapperVars, signalVars, attemptVars>>

Interrupt(i) ==
  /\ fin = "running" /\ attempt \in {"running", "stop_requested"}
  /\ cause # "none" \/ attempt = "running"
  /\ record[i] = "running" /\ i \notin interrupted
  /\ SignalStop
  /\ interrupted' = interrupted \cup {i}
  /\ Cut({i}, "node")
  /\ UNCHANGED <<phase, record, nodeAbort, stopSeen, attemptVars>>

NodeDeadline(i) ==
  /\ i \in Listening /\ Between
  /\ node[i] \in DeadlineNodes
  /\ cut[i] = "none"
  /\ Cut({i}, "node")
  /\ UNCHANGED <<schedulerVars, phase, record, signalVars, attemptVars>>

\* awaitWorkflowNodeExecution gives up on an operation after an abort, except
\* after a fail-fast abort, for which it waits.
AbortTimer(i) ==
  /\ InPhase(i, "executing") /\ Between
  /\ cut[i] = "node"
  /\ Enter(i, "failing")
  /\ UNCHANGED <<schedulerVars, record, cut, signalVars, attemptVars>>

-----------------------------------------------------------------------------
(* The scheduler inside the run *)

SchedulerStep ==
  /\ fin = "running"
  /\ BootStart \/ BootHalted \/ ConsumeNext
  /\ IF cause' = "failfast" /\ cause = "none" THEN Cut(Ids, "failfast")
     ELSE UNCHANGED cut
  /\ UNCHANGED <<phase, record, signalVars, attemptVars>>

-----------------------------------------------------------------------------
(* The end of the run: finishLifecycleAttempt *)

Finishing == fin = "running" /\ SchedulerDone /\ attempt \in {"running", "stop_requested"}
NothingLogged == \A i \in Ids : record[i] # "running"

FinishFailed ==
  /\ Finishing /\ Failed # {} /\ NothingLogged
  /\ attempt' = "failed"
  /\ fin' = "capturing"
  /\ UNCHANGED <<schedulerVars, wrapperVars, signalVars, checkpoint>>

FinishStopped ==
  /\ Finishing /\ Failed = {} /\ CheckpointReason
  /\ attempt' = "stop_requested"
  /\ fin' = "capturing"
  /\ UNCHANGED <<schedulerVars, wrapperVars, signalVars, checkpoint>>

\* Mutant: that the scheduler stopped early is not asked.
FinishCompletedEarly ==
  /\ Finishing /\ Failed = {} /\ NothingLogged
  /\ attempt' = "completed"
  /\ fin' = "over"
  /\ UNCHANGED <<schedulerVars, wrapperVars, signalVars, checkpoint>>

FinishCompleted ==
  /\ Finishing /\ Failed = {} /\ ~CheckpointReason /\ NothingLogged
  /\ attempt' = "completed"
  /\ fin' = "over"
  /\ UNCHANGED <<schedulerVars, wrapperVars, signalVars, checkpoint>>

EndedHere(s) == {i \in Ids \ Seeded : status[i] = s}
CheckpointFrontier ==
  IF Failed # {} THEN {node[i] : i \in Failed} ELSE Frontier

\* Mutant: the aborted activations are not compared with the log.
LogAgreesCompleted ==
  /\ NothingLogged
  /\ \A i \in EndedHere("completed") : record[i] = "completed"

\* createWorkflowCheckpoint accepts the scheduler's view of the activations.
LogAgrees ==
  /\ NothingLogged
  /\ \A i \in EndedHere("completed") : record[i] = "completed"
  /\ \A i \in EndedHere("aborted") : record[i] = "aborted"

SaveCheckpoint ==
  /\ fin = "capturing"
  /\ LogAgrees
  /\ checkpoint' = [completed |-> EndedHere("completed"),
                    aborted |-> EndedHere("aborted"),
                    frontier |-> CheckpointFrontier]
  /\ attempt' = IF attempt = "stop_requested" THEN "stopped" ELSE attempt
  /\ fin' = "over"
  /\ UNCHANGED <<schedulerVars, wrapperVars, signalVars>>

\* It throws otherwise, and runWorkflow rejects.
CheckpointRefused ==
  /\ fin = "capturing"
  /\ ~LogAgrees
  /\ fin' = "rejected"
  /\ UNCHANGED <<schedulerVars, wrapperVars, signalVars, attempt, checkpoint>>

FinishNext ==
  FinishFailed \/ FinishStopped \/ FinishCompleted \/ SaveCheckpoint
    \/ CheckpointRefused

-----------------------------------------------------------------------------
Catching == \E i \in Ids : phase[i] \in {"failing", "aborting"}

WrapperNext(i) ==
  \/ PromptResolved(i) \/ PromptFails(i)
  \/ PrepareFails(i) \/ Execute(i)
  \/ OperationEnds(i) \/ Verified(i) \/ Return(i)

SignalNext ==
  \/ RequestStop \/ ObserveStop \/ StopDeadline \/ RuntimeLimit
  \/ InterruptScheduling
  \/ \E i \in Ids : Interrupt(i) \/ NodeDeadline(i) \/ AbortTimer(i)

RunNext ==
  \/ \E i \in Ids : Catch(i)
  \/ ~Catching /\ StartRun
  \/ ~Catching /\ \E i \in Ids : WrapperNext(i)
  \/ ~Catching /\ SignalNext
  \/ ~Catching /\ SchedulerStep
  \/ ~Catching /\ FinishNext

RunSpec == RunInit /\ [][RunNext]_runVars

\* The scheduler has something to do; no catch block is due.
Resumable == fin = "running" /\ ~Catching /\ (loop = "boot" \/ winner # 0)

\* The steps of one activation that its runtime cannot hold up: prompts, scripts
\* and models resolve, workspaces are compared, and timers fire.
WrapperFair(i) ==
  /\ WF_runVars(~Catching /\ (PromptResolved(i) \/ PromptFails(i)))
  /\ WF_runVars(~Catching /\ (PrepareFails(i) \/ Execute(i)))
  /\ WF_runVars(~Catching /\ Verified(i))
  /\ WF_runVars(~Catching /\ Return(i))
  /\ WF_runVars(~Catching /\ AbortTimer(i))

\* Fairness of the event loop.  No runtime has to answer, ever.  (The last
\* conjunct is WF(SchedulerStep), with its ENABLED written out.)
RunFairSpec ==
  /\ RunSpec
  /\ WF_runVars(\E i \in Ids : Catch(i))
  /\ \A i \in Ids : WrapperFair(i)
  /\ WF_runVars(~Catching /\ ObserveStop)
  /\ WF_runVars(~Catching /\ StopDeadline)
  /\ WF_runVars(~Catching /\ FinishNext)
  /\ <>[]Resumable => []<><<SchedulerStep>>_runVars

\* A runtime that was told of a sibling's failure answers: the runner waits for
\* it without a time limit.
CooperativeSpec ==
  /\ RunFairSpec
  /\ \A i \in Ids :
       WF_runVars(~Catching /\ cut[i] = "failfast" /\ OperationEnds(i))

-----------------------------------------------------------------------------
(* Properties *)

Ran == {i \in Ids \ Seeded : record[i] # "none"}
Logged(s) == {i \in Ids \ Seeded : record[i] = s}

\* A saved checkpoint lists exactly the activations the log has as completed
\* and as aborted, and a restart from it runs again every node whose activation
\* failed or, in a stopped attempt, was aborted.
CheckpointExact ==
  checkpoint # NoCheckpoint =>
    /\ checkpoint.completed = Logged("completed")
    /\ checkpoint.aborted = Logged("aborted")
    /\ {node[i] : i \in Logged("failed")} \subseteq checkpoint.frontier
    /\ attempt = "stopped" =>
         {node[i] : i \in Logged("aborted")} \subseteq checkpoint.frontier
    /\ checkpoint.frontier # {}

\* The status of a finished attempt is that of its activations: completed, if
\* all of them and all they made ready are; stopped, if none failed; and failed
\* only if one did.
StatusEarned ==
  fin = "over" =>
    /\ attempt = "completed" =>
         /\ \A i \in Ran : record[i] = "completed"
         /\ \A i \in Ran : \A d \in due[i] :
              \E j \in Ran : <<node[j], parents[j]>> = d
    /\ attempt = "stopped" => Logged("failed") = {}
    /\ attempt = "failed" => Logged("failed") # {}
    /\ attempt \in {"completed", "stopped", "failed"}

\* The run rejects, without a checkpoint, only if an activation failed.
RejectionNeedsFailure ==
  fin = "rejected" => Logged("failed") # {}

\* A stopped run keeps its progress: it never ends with a stop request that no
\* checkpoint answers.
StopIsAnswered == fin = "rejected" => attempt # "stop_requested"

\* A failed attempt always gets the checkpoint it can be restarted from.
FailureIsCheckpointed == fin = "rejected" => attempt # "failed"

\* Once a stop is requested the run ends.
StopEndsRun == attempt = "stop_requested" ~> fin \in {"over", "rejected"}

-----------------------------------------------------------------------------
(* The run implements the lifecycle log, with one attempt and no change    *)
(* request: the runner keeps the discipline the log relies on.             *)

OfAttempt(x) == [a \in {"attempt"} |-> x]
OfFreeze(x) == [f \in {"freeze"} |-> x]
NoNodes == [n \in Node |-> Absent]
Identity == [n \in Node |-> n]

LoggedNode(i) == IF i \in Ran THEN node[i] ELSE Absent
SavedCheckpoint ==
  IF checkpoint = NoCheckpoint THEN Absent
  ELSE [completed |-> checkpoint.completed, aborted |-> checkpoint.aborted,
        frontier |-> checkpoint.frontier, mapping |-> Identity]

Log == INSTANCE WorkflowLifecycle WITH
  Attempt <- {"attempt"},
  Activation <- Ids,
  Freeze <- {"freeze"},
  MaxRequests <- 0,
  NodesOf <- OfFreeze(Node),
  WaitFor <- OfFreeze([n \in Node |-> Elements(WaitFor[n])]),
  Migration <- OfFreeze(NoNodes),
  AgentsCanPropose <- {},
  HumansCanApprove <- {},
  SupervisorsCanApprove <- {},
  Carries <- << >>,
  Mapping <- << >>,
  Disposes <- << >>,
  None <- Absent,
  status <- OfAttempt(attempt),
  freezeOf <- OfAttempt(IF attempt = "none" THEN Absent ELSE "freeze"),
  source <- OfAttempt(Absent),
  start <- OfAttempt({}),
  record <- OfAttempt(record),
  ran <- OfAttempt([i \in Ids |-> LoggedNode(i)]),
  checkpoint <- OfAttempt(SavedCheckpoint),
  freezes <- IF attempt = "none" THEN << >> ELSE <<"freeze">>,
  request <- << >>,
  applied <- << >>

\* Every step of the run appends to the log what one operation of the log
\* appends, or nothing.
LogSpec == Log!Spec

=============================================================================
