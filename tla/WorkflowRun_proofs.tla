------------------------- MODULE WorkflowRun_proofs -------------------------
(***************************************************************************)
(* What a run of an attempt keeps, whatever the flow, the answers of its   *)
(* node runtimes and the signals: the phases of the wrapper, the record in *)
(* the log, what the promise settled with and what the scheduler made of   *)
(* it agree, and with them the end of the attempt and its checkpoint.      *)
(* And that what the run appends to the log is a behaviour of the log.     *)
(***************************************************************************)
EXTENDS WorkflowRun, WorkflowScheduler_proofs

Outcomes == {"completed", "failed", "aborted"}
Working == {"prepared", "executing", "verifying", "failing", "aborting"}

\* The phase p of a wrapper, the record r in the log and the result v agree.
Agree(p, r, v) ==
  /\ p = "idle" => r = "none"
  /\ p \in Working => r = "running"
  /\ p \in {"returning", "settled"} => r \in Outcomes
  /\ p = "settled" <=> v # "pending"
  /\ v = "output" => r = "completed"
  /\ v = "error" => r = "failed"
  /\ v = "aborted" => r \in {"aborted", "failed"}

PhaseInv == \A i \in Ids : Agree(phase[i], record[i], result[i])

\* What the scheduler says of an activation comes from what its promise settled
\* with; an output is discarded only if some activation failed.
StatusInv == \A i \in Ids :
  /\ status[i] \in {"none", "queued"} \/ i \in Seeded => phase[i] = "idle"
  /\ i \notin Seeded /\ status[i] = "completed" => result[i] = "output"
  /\ status[i] = "failed" => result[i] = "error"
  /\ status[i] = "aborted" =>
       /\ result[i] \in {"aborted", "output"}
       /\ Failed = {} => result[i] = "aborted"

\* How far the run is, the status of the attempt, and what they mean.
FinInv ==
  /\ fin = "new" => attempt = "none" /\ loop = "boot"
  /\ loop = "boot" => Running = {}
  /\ fin = "running" => attempt \in {"running", "stop_requested"}
  /\ fin \notin {"new", "running"} => SchedulerDone
  /\ fin \in {"capturing", "rejected"} => attempt \in {"stop_requested", "failed"}
  /\ fin = "rejected" => ~LogAgrees
  /\ fin = "over" => attempt \in {"completed", "stopped", "failed"}
  /\ attempt = "completed" => Failed = {} /\ ~CheckpointReason
  /\ fin # "running" /\ attempt \in {"stop_requested", "stopped"} =>
       Failed = {} /\ CheckpointReason
  /\ attempt = "failed" => Failed # {}

Saved == [completed |-> EndedHere("completed"),
          aborted |-> EndedHere("aborted"),
          frontier |-> CheckpointFrontier]

\* A checkpoint is saved when the run ends otherwise than completed, and only
\* then; it is what the scheduler ended with, and the log agrees.
CheckpointInv ==
  IF fin = "over" /\ attempt # "completed"
  THEN LogAgrees /\ checkpoint = Saved
  ELSE checkpoint = NoCheckpoint

\* The types of what the run adds to the scheduler, but for the checkpoint.
RunTypes ==
  /\ phase \in [Ids -> Phases]
  /\ record \in [Ids -> {"none", "running", "completed", "failed", "aborted"}]
  /\ cut \in [Ids -> {"unset", "none", "node", "failfast"}]
  /\ nodeAbort \in BOOLEAN /\ stopSeen \in BOOLEAN /\ interrupted \subseteq Ids
  /\ attempt \in {"none", "running", "stop_requested", "stopped", "completed",
                  "failed"}
  /\ fin \in {"new", "running", "capturing", "over", "rejected"}

RunInv ==
  /\ SchedulerInv /\ RunTypes
  /\ PhaseInv /\ StatusInv /\ FinInv /\ CheckpointInv

-----------------------------------------------------------------------------
(* The scheduler in the run *)

\* Every step of the run is a step of the scheduler, or leaves it alone.
LEMMA RunStepSchedules ==
  ASSUME [RunNext]_runVars
  PROVE  [SchedulerNext]_schedulerVars
<1>1. CASE \E i \in Ids : Catch(i)
  BY <1>1 DEF Catch
<1>2. CASE StartRun
  BY <1>2 DEF StartRun
<1>3. ASSUME NEW i \in Ids, WrapperNext(i)
      PROVE  [SchedulerNext]_schedulerVars
  <2>1. CASE Return(i)
    <3>1. Settle(i, Outcome(i)) /\ Outcome(i) \in Outputs
      BY <2>1 DEF Return, Outcome, Outputs
    <3> QED
      BY <3>1 DEF SchedulerNext, SettleNext
  <2>2. CASE ~Return(i)
    BY <1>3, <2>2 DEF WrapperNext, PromptResolved, PromptFails, PrepareFails, Execute,
                      OperationEnds, Verified
  <2> QED
    BY <2>1, <2>2
<1>4. CASE SignalNext
  <2>1. CASE RequestStop
    BY <2>1 DEF RequestStop
  <2>2. CASE ObserveStop \/ RuntimeLimit
    BY <2>2 DEF ObserveStop, RuntimeLimit, SignalStop, SchedulerNext
  <2>3. CASE StopDeadline
    BY <2>3 DEF StopDeadline
  <2>4. CASE InterruptScheduling
    BY <2>4 DEF InterruptScheduling, SchedulerNext
  <2>5. ASSUME NEW i \in Ids, Interrupt(i) \/ NodeDeadline(i) \/ AbortTimer(i)
        PROVE  [SchedulerNext]_schedulerVars
    BY <2>5 DEF Interrupt, NodeDeadline, AbortTimer, SignalStop, SchedulerNext
  <2> QED
    BY <1>4, <2>1, <2>2, <2>3, <2>4, <2>5 DEF SignalNext
<1>5. CASE SchedulerStep
  BY <1>5 DEF SchedulerStep, SchedulerNext
<1>6. CASE FinishNext
  BY <1>6 DEF FinishNext, FinishFailed, FinishStopped, FinishCompleted, SaveCheckpoint,
              CheckpointRefused
<1>7. CASE UNCHANGED runVars
  BY <1>7 DEF runVars
<1> QED
  BY <1>1, <1>2, <1>3, <1>4, <1>5, <1>6, <1>7 DEF RunNext

\* The scheduler of a run behaves as the scheduler alone does: every promise of
\* WorkflowScheduler_proofs holds in a run too.
THEOREM RunSchedules == RunSpec => SchedulerSpec
<1>1. RunInit => SchedulerInit
  BY DEF RunInit
<1>2. [RunNext]_runVars => [SchedulerNext]_schedulerVars
  BY RunStepSchedules
<1> QED
  BY <1>1, <1>2, PTL DEF RunSpec, SchedulerSpec

-----------------------------------------------------------------------------
(* The steps of the invariant *)

\* A wrapper that is under way belongs to a running activation, and while one
\* runs the run goes on.
LEMMA UnderWay ==
  ASSUME RunInv, NEW i \in Ids, phase[i] \notin {"idle", "settled"}
  PROVE  status[i] = "running"
<1>1. status[i] \in Statuses
  BY DEF RunInv, SchedulerInv, TypeOK, Statuses
<1>2. result[i] = "pending"
  BY DEF RunInv, PhaseInv, Agree
<1> QED
  BY <1>1, <1>2 DEF RunInv, StatusInv, Statuses

\* While an activation runs, so do the scheduler, the run and its attempt, and no
\* checkpoint is saved.
LEMMA RunGoesOn ==
  ASSUME RunInv, NEW i \in Ids, status[i] = "running"
  PROVE  /\ fin = "running" /\ loop = "racing" /\ i \notin Seeded
         /\ attempt \in {"running", "stop_requested"}
         /\ checkpoint = NoCheckpoint
<1>1. i \in Running
  BY DEF Running
<1>2. loop \in {"boot", "racing"} /\ i \notin Seeded
  BY DEF RunInv, SchedulerInv, TypeOK, IdsInv
<1>3. loop = "racing" /\ fin = "running"
  BY <1>1, <1>2 DEF RunInv, FinInv, SchedulerDone
<1> QED
  BY <1>2, <1>3 DEF RunInv, FinInv, CheckpointInv

\* A step of one wrapper that keeps phase, record and result in agreement keeps
\* the invariant: to the scheduler the activation still runs.
LEMMA WrapperKeeps ==
  ASSUME RunInv, NEW i \in Ids, status[i] = "running",
         NEW p, NEW r, NEW v, Agree(p, r, v),
         phase' = [phase EXCEPT ![i] = p],
         record' = [record EXCEPT ![i] = r],
         result' = [result EXCEPT ![i] = v],
         UNCHANGED <<status, loop, attempt, fin, checkpoint>>
  PROVE  PhaseInv' /\ StatusInv' /\ FinInv' /\ CheckpointInv'
<1>1. /\ fin = "running" /\ attempt \in {"running", "stop_requested"}
      /\ checkpoint = NoCheckpoint /\ i \notin Seeded /\ loop = "racing"
  BY RunGoesOn
<1>2. \A j \in Ids : /\ phase'[j] = IF j = i THEN p ELSE phase[j]
                     /\ record'[j] = IF j = i THEN r ELSE record[j]
                     /\ result'[j] = IF j = i THEN v ELSE result[j]
  BY DEF RunInv, RunTypes, SchedulerInv, TypeOK
<1>3. PhaseInv'
  <2>1. ASSUME NEW j \in Ids PROVE Agree(phase'[j], record'[j], result'[j])
    <3>1. CASE j = i
      BY <1>2, <3>1
    <3>2. CASE j # i
      BY <1>2, <3>2 DEF RunInv, PhaseInv
    <3> QED
      BY <3>1, <3>2
  <2> QED
    BY <2>1 DEF PhaseInv
<1>4. StatusInv'
  <2>1. Failed' = Failed
    BY DEF Failed
  <2> QED
    BY <1>1, <1>2, <2>1 DEF RunInv, StatusInv
<1>5. FinInv' /\ CheckpointInv'
  BY <1>1 DEF FinInv, CheckpointInv
<1> QED
  BY <1>3, <1>4, <1>5

\* A signal, or the start of the attempt, touches no activation.
LEMMA SignalKeeps ==
  ASSUME RunInv,
         UNCHANGED <<status, result, loop, phase, record, checkpoint>>,
         fin \in {"new", "running"}, fin' = "running",
         attempt' \in {"running", "stop_requested"}
  PROVE  PhaseInv' /\ StatusInv' /\ FinInv' /\ CheckpointInv'
<1>1. Failed' = Failed /\ Running' = Running
  BY DEF Failed, Running
<1>2. PhaseInv' /\ StatusInv'
  BY <1>1 DEF RunInv, PhaseInv, StatusInv
<1>3. checkpoint = NoCheckpoint
  BY DEF RunInv, CheckpointInv
<1> QED
  BY <1>1, <1>2, <1>3 DEF RunInv, FinInv, CheckpointInv

\* What the main loop does keeps the invariant.
LEMMA SchedulingKeeps ==
  ASSUME RunInv, SchedulerStep
  PROVE  PhaseInv' /\ StatusInv' /\ FinInv' /\ CheckpointInv'
<1>1. /\ fin = "running"
      /\ BootStart \/ BootHalted \/ ConsumeNext
      /\ UNCHANGED <<phase, record, attempt, fin, checkpoint>>
  BY DEF SchedulerStep, attemptVars
<1>2. /\ result' = result /\ loop' = "racing"
      /\ \A i \in Ids : Moves(i)
  BY <1>1, SchedulerMoves DEF RunInv
<1>3. PhaseInv'
  BY <1>1, <1>2 DEF RunInv, PhaseInv
<1>4. Failed \subseteq Failed'
  BY <1>2 DEF Failed, Moves
<1>5. ASSUME NEW i \in Ids
      PROVE  /\ status'[i] \in {"none", "queued"} \/ i \in Seeded => phase'[i] = "idle"
             /\ i \notin Seeded /\ status'[i] = "completed" => result'[i] = "output"
             /\ status'[i] = "failed" => result'[i] = "error"
             /\ status'[i] = "aborted" =>
                  /\ result'[i] \in {"aborted", "output"}
                  /\ Failed' = {} => result'[i] = "aborted"
  <2>1. /\ status[i] \in {"none", "queued"} \/ i \in Seeded => phase[i] = "idle"
        /\ i \notin Seeded /\ status[i] = "completed" => result[i] = "output"
        /\ status[i] = "failed" => result[i] = "error"
        /\ status[i] = "aborted" =>
             /\ result[i] \in {"aborted", "output"}
             /\ Failed = {} => result[i] = "aborted"
    BY DEF RunInv, StatusInv
  <2>2. Failed' = {} => Failed = {}
    BY <1>4
  <2>3. Moves(i)
    BY <1>2
  <2>4. CASE status'[i] = status[i]
    BY <1>1, <1>2, <2>1, <2>2, <2>4
  <2>5. CASE status[i] \in {"none", "queued"} /\ status'[i] \in {"queued", "running"}
    BY <1>1, <2>1, <2>5
  <2>6. CASE /\ status[i] = "running"
             /\ \/ result[i] = "output" /\ status'[i] = "completed"
                \/ result[i] = "error" /\ status'[i] = "failed"
                \/ result[i] = "aborted" /\ status'[i] = "aborted"
                \/ result[i] = "output" /\ status'[i] = "aborted" /\ Failed # {}
    BY <1>1, <1>2, <2>1, <2>2, <2>6
  <2> QED
    BY <2>3, <2>4, <2>5, <2>6 DEF Moves
<1>6. StatusInv'
  BY <1>5 DEF StatusInv
<1>7. FinInv' /\ CheckpointInv'
  <2>1. /\ fin' = "running" /\ attempt' \in {"running", "stop_requested"}
        /\ checkpoint' = NoCheckpoint
    BY <1>1 DEF RunInv, FinInv, CheckpointInv
  <2> QED
    BY <1>2, <2>1 DEF FinInv, CheckpointInv
<1> QED
  BY <1>3, <1>6, <1>7

\* The end of the run touches no activation either.
LEMMA FinishKeeps ==
  ASSUME RunInv, FinishNext
  PROVE  PhaseInv' /\ StatusInv' /\ FinInv' /\ CheckpointInv'
<1>1. /\ UNCHANGED <<node, status, result, loop, frontier, stopReason, limitReached, cause>>
      /\ UNCHANGED <<phase, record>>
  BY DEF FinishNext, FinishFailed, FinishStopped, FinishCompleted, SaveCheckpoint,
         CheckpointRefused, schedulerVars, activationVars, stopVars, wrapperVars
<1>2. Failed' = Failed /\ Running' = Running /\ SchedulerDone' = SchedulerDone
  BY <1>1 DEF Failed, Running, SchedulerDone
<1>3. PhaseInv' /\ StatusInv'
  BY <1>1, <1>2 DEF RunInv, PhaseInv, StatusInv
<1>4. \A s : EndedHere(s)' = EndedHere(s)
  BY <1>1 DEF EndedHere
<1>5. LogAgrees' = LogAgrees
  BY <1>1 DEF LogAgrees, NothingLogged, EndedHere
<1>6. QueuedNodes' = QueuedNodes
  BY <1>1 DEF QueuedNodes, Queued
<1>7. Frontier' = Frontier
  BY <1>1, <1>6 DEF Frontier, FrontierSoFar
<1>8. CheckpointReason' = CheckpointReason
  BY <1>1, <1>7 DEF CheckpointReason
<1>9. CheckpointFrontier' = CheckpointFrontier
  BY <1>1, <1>2, <1>7 DEF CheckpointFrontier
<1>10. Saved' = Saved
  BY <1>1, <1>9 DEF Saved, EndedHere
<1>11. CASE FinishFailed
  <2>1. /\ fin' = "capturing" /\ attempt' = "failed" /\ Failed # {}
        /\ fin = "running" /\ SchedulerDone /\ checkpoint' = checkpoint
    BY <1>11 DEF FinishFailed, Finishing
  <2>2. checkpoint' = NoCheckpoint
    BY <2>1 DEF RunInv, CheckpointInv
  <2>3. loop' = "boot" => Running' = {}
    BY <1>1, <1>2 DEF RunInv, FinInv
  <2>4. FinInv'
    BY <1>2, <1>8, <2>1, <2>3 DEF FinInv
  <2>5. CheckpointInv'
    BY <2>1, <2>2 DEF CheckpointInv
  <2> QED
    BY <1>3, <2>4, <2>5
<1>12. CASE FinishStopped
  <2>1. /\ fin' = "capturing" /\ attempt' = "stop_requested"
        /\ Failed = {} /\ CheckpointReason
        /\ fin = "running" /\ SchedulerDone /\ checkpoint' = checkpoint
    BY <1>12 DEF FinishStopped, Finishing
  <2>2. checkpoint' = NoCheckpoint
    BY <2>1 DEF RunInv, CheckpointInv
  <2>3. loop' = "boot" => Running' = {}
    BY <1>1, <1>2 DEF RunInv, FinInv
  <2>4. FinInv'
    BY <1>2, <1>8, <2>1, <2>3 DEF FinInv
  <2>5. CheckpointInv'
    BY <2>1, <2>2 DEF CheckpointInv
  <2> QED
    BY <1>3, <2>4, <2>5
<1>13. CASE FinishCompleted
  <2>1. /\ fin' = "over" /\ attempt' = "completed"
        /\ Failed = {} /\ ~CheckpointReason
        /\ fin = "running" /\ SchedulerDone /\ checkpoint' = checkpoint
    BY <1>13 DEF FinishCompleted, Finishing
  <2>2. checkpoint' = NoCheckpoint
    BY <2>1 DEF RunInv, CheckpointInv
  <2>3. loop' = "boot" => Running' = {}
    BY <1>1, <1>2 DEF RunInv, FinInv
  <2>4. FinInv'
    BY <1>2, <1>8, <2>1, <2>3 DEF FinInv
  <2>5. CheckpointInv'
    BY <2>1, <2>2 DEF CheckpointInv
  <2> QED
    BY <1>3, <2>4, <2>5
<1>14. CASE SaveCheckpoint
  <2>1. /\ fin = "capturing" /\ fin' = "over" /\ LogAgrees /\ checkpoint' = Saved
        /\ attempt' = IF attempt = "stop_requested" THEN "stopped" ELSE attempt
    BY <1>14 DEF SaveCheckpoint, Saved
  <2>2. attempt \in {"stop_requested", "failed"} /\ SchedulerDone
    BY <2>1 DEF RunInv, FinInv
  <2>3. FinInv'
    BY <1>1, <1>2, <1>8, <2>1, <2>2 DEF RunInv, FinInv
  <2>4. CheckpointInv'
    BY <1>5, <1>10, <2>1, <2>2 DEF CheckpointInv
  <2> QED
    BY <1>3, <2>3, <2>4
<1>15. CASE CheckpointRefused
  <2>1. /\ fin = "capturing" /\ fin' = "rejected" /\ ~LogAgrees
        /\ UNCHANGED <<attempt, checkpoint>>
    BY <1>15 DEF CheckpointRefused
  <2> QED
    BY <1>1, <1>2, <1>3, <1>5, <1>8, <2>1 DEF RunInv, FinInv, CheckpointInv
<1> QED
  BY <1>3, <1>11, <1>12, <1>13, <1>14, <1>15 DEF FinishNext

\* The types of what the run adds hold in every step.
LEMMA RunTypesKept ==
  ASSUME RunTypes, [RunNext]_runVars
  PROVE  RunTypes'
<1>1. ASSUME NEW i \in Ids, Catch(i) PROVE RunTypes'
  <2>1. /\ phase' = [phase EXCEPT ![i] = "returning"]
        /\ UNCHANGED <<cut, signalVars, attemptVars>>
        /\ \E r \in {"aborted", "failed"} : record' = [record EXCEPT ![i] = r]
    BY <1>1 DEF Catch, Enter
  <2> QED
    BY <2>1 DEF RunTypes, Phases, signalVars, attemptVars
<1>2. CASE StartRun
  BY <1>2 DEF StartRun, RunTypes, wrapperVars, signalVars
<1>3. ASSUME NEW i \in Ids, WrapperNext(i) PROVE RunTypes'
  <2>1. UNCHANGED <<signalVars, attemptVars>>
    BY <1>3 DEF WrapperNext, PromptResolved, PromptFails, PrepareFails, Execute,
                OperationEnds, Verified, Return
  <2>2. \E p \in Phases : phase' = [phase EXCEPT ![i] = p]
    BY <1>3 DEF WrapperNext, PromptResolved, PromptFails, PrepareFails, Execute,
                OperationEnds, Verified, Return, Enter, Phases
  <2>3. record' = record \/ \E r \in {"running", "completed"} :
                                record' = [record EXCEPT ![i] = r]
    BY <1>3 DEF WrapperNext, PromptResolved, PromptFails, PrepareFails, Execute,
                OperationEnds, Verified, Return
  <2>4. cut' = cut \/ \E c \in {"node", "failfast", "none"} :
                          cut' = [cut EXCEPT ![i] = c]
    BY <1>3 DEF WrapperNext, PromptResolved, PromptFails, PrepareFails, Execute,
                OperationEnds, Verified, Return
  <2> QED
    BY <2>1, <2>2, <2>3, <2>4 DEF RunTypes, signalVars, attemptVars
<1>4. ASSUME NEW is, NEW reason \in {"node", "failfast"}, Cut(is, reason)
      PROVE  cut' \in [Ids -> {"unset", "none", "node", "failfast"}]
  BY <1>4 DEF Cut, RunTypes
<1>5. CASE SignalNext
  <2>1. CASE RequestStop
    BY <2>1 DEF RequestStop, RunTypes, wrapperVars, signalVars
  <2>2. CASE ObserveStop
    BY <2>2 DEF ObserveStop, RunTypes, wrapperVars, attemptVars
  <2>3. CASE StopDeadline
    BY <1>4, <2>3 DEF StopDeadline, RunTypes, attemptVars
  <2>4. CASE RuntimeLimit
    BY <1>4, <2>4 DEF RuntimeLimit, RunTypes, attemptVars
  <2>5. CASE InterruptScheduling
    BY <2>5 DEF InterruptScheduling, RunTypes, wrapperVars, signalVars, attemptVars
  <2>6. ASSUME NEW i \in Ids, Interrupt(i) PROVE RunTypes'
    BY <1>4, <2>6 DEF Interrupt, RunTypes, attemptVars
  <2>7. ASSUME NEW i \in Ids, NodeDeadline(i) PROVE RunTypes'
    BY <1>4, <2>7 DEF NodeDeadline, RunTypes, signalVars, attemptVars
  <2>8. ASSUME NEW i \in Ids, AbortTimer(i) PROVE RunTypes'
    BY <2>8 DEF AbortTimer, Enter, Phases, RunTypes, signalVars, attemptVars
  <2> QED
    BY <1>5, <2>1, <2>2, <2>3, <2>4, <2>5, <2>6, <2>7, <2>8 DEF SignalNext
<1>6. CASE SchedulerStep
  <2>1. cut' \in [Ids -> {"unset", "none", "node", "failfast"}]
    BY <1>4, <1>6 DEF SchedulerStep, RunTypes
  <2> QED
    BY <1>6, <2>1 DEF SchedulerStep, RunTypes, signalVars, attemptVars
<1>7. CASE FinishNext
  <2>1. UNCHANGED <<wrapperVars, signalVars>>
    BY <1>7 DEF FinishNext, FinishFailed, FinishStopped, FinishCompleted, SaveCheckpoint,
                CheckpointRefused
  <2>2. /\ attempt' \in {attempt, "stop_requested", "stopped", "completed", "failed"}
        /\ fin' \in {"capturing", "over", "rejected"}
    BY <1>7 DEF FinishNext, FinishFailed, FinishStopped, FinishCompleted, SaveCheckpoint,
                CheckpointRefused
  <2> QED
    BY <2>1, <2>2 DEF RunTypes, wrapperVars, signalVars
<1>8. CASE UNCHANGED runVars
  BY <1>8 DEF runVars, RunTypes, wrapperVars, signalVars, attemptVars
<1> QED
  BY <1>1, <1>2, <1>3, <1>5, <1>6, <1>7, <1>8 DEF RunNext

\* Every step of a wrapper keeps phase, record and result in agreement.
LEMMA WrappersKeep ==
  ASSUME RunInv, NEW i \in Ids, WrapperNext(i) \/ Catch(i) \/ AbortTimer(i)
  PROVE  PhaseInv' /\ StatusInv' /\ FinInv' /\ CheckpointInv'
<1>1. status[i] = "running"
  <2>1. CASE Catch(i)
    BY <2>1, UnderWay DEF Catch
  <2>2. CASE ~Catch(i)
    BY <2>2 DEF WrapperNext, AbortTimer, InPhase, PromptResolved, PromptFails,
                PrepareFails, Execute, OperationEnds, Verified, Return
  <2> QED
    BY <2>1, <2>2
<1>2. Agree(phase[i], record[i], result[i])
  BY DEF RunInv, PhaseInv
<1>3. /\ record = [record EXCEPT ![i] = record[i]]
      /\ result = [result EXCEPT ![i] = result[i]]
  BY DEF RunInv, RunTypes, SchedulerInv, TypeOK
<1>4. /\ UNCHANGED <<status, loop, attempt, fin, checkpoint>>
      /\ Return(i) \/ result' = result
  BY DEF WrapperNext, Catch, AbortTimer, PromptResolved, PromptFails, PrepareFails, Execute,
         OperationEnds, Verified, Return, Settle, schedulerVars, attemptVars
<1>5. ASSUME NEW p, NEW r, NEW v, Agree(p, r, v), Enter(i, p),
             record' = [record EXCEPT ![i] = r],
             result' = [result EXCEPT ![i] = v]
      PROVE  PhaseInv' /\ StatusInv' /\ FinInv' /\ CheckpointInv'
  BY <1>1, <1>4, <1>5, WrapperKeeps DEF Enter
<1>6. ASSUME NEW p, NEW r, Agree(p, r, result[i]), Enter(i, p),
             record' = [record EXCEPT ![i] = r], ~Return(i)
      PROVE  PhaseInv' /\ StatusInv' /\ FinInv' /\ CheckpointInv'
  BY <1>3, <1>4, <1>5, <1>6
<1>7. CASE Return(i)
  <2>1. /\ Enter(i, "settled") /\ record' = record
        /\ phase[i] = "returning" /\ result' = [result EXCEPT ![i] = Outcome(i)]
    BY <1>7 DEF Return, Settle, InPhase
  <2>2. Agree("settled", record[i], Outcome(i))
    BY <1>2, <2>1 DEF Agree, Outcome, Outcomes, Working
  <2> QED
    BY <1>3, <1>5, <2>1, <2>2
<1>8. CASE ~Return(i)
  <2>1. CASE Catch(i)
    <3>1. /\ phase[i] \in {"failing", "aborting"} /\ Enter(i, "returning")
          /\ \E r \in {"aborted", "failed"} : record' = [record EXCEPT ![i] = r]
      BY <2>1 DEF Catch
    <3>2. \A r \in {"aborted", "failed"} : Agree("returning", r, result[i])
      BY <1>2, <3>1 DEF Agree, Outcomes, Working
    <3> QED
      BY <1>6, <1>8, <3>1, <3>2
  <2>2. CASE PromptResolved(i) \/ PromptFails(i)
    <3>1. /\ phase[i] = "idle" /\ record' = [record EXCEPT ![i] = "running"]
          /\ Enter(i, "prepared") \/ Enter(i, "failing")
      BY <2>2 DEF PromptResolved, PromptFails, InPhase
    <3>2. /\ Agree("prepared", "running", result[i])
          /\ Agree("failing", "running", result[i])
      BY <1>2, <3>1 DEF Agree, Working
    <3> QED
      BY <1>6, <1>8, <3>1, <3>2
  <2>3. CASE PrepareFails(i) \/ Execute(i) \/ AbortTimer(i)
    <3>1. /\ phase[i] \in {"prepared", "executing"} /\ record' = record
          /\ Enter(i, "failing") \/ Enter(i, "executing")
      BY <2>3 DEF PrepareFails, Execute, AbortTimer, InPhase
    <3>2. /\ Agree("failing", record[i], result[i])
          /\ Agree("executing", record[i], result[i])
      BY <1>2, <3>1 DEF Agree, Working
    <3> QED
      BY <1>3, <1>6, <1>8, <3>1, <3>2
  <2>4. CASE OperationEnds(i) \/ Verified(i)
    <3>1. phase[i] \in {"executing", "verifying"}
      BY <2>4 DEF OperationEnds, Verified, InPhase
    <3>2. \/ /\ Enter(i, "returning")
             /\ record' = [record EXCEPT ![i] = "completed"]
          \/ /\ record' = record
             /\ \E p \in {"verifying", "failing", "aborting"} : Enter(i, p)
      BY <2>4 DEF OperationEnds, Verified
    <3>3. /\ Agree("returning", "completed", result[i])
          /\ \A p \in {"verifying", "failing", "aborting"} : Agree(p, record[i], result[i])
      BY <1>2, <3>1 DEF Agree, Working, Outcomes
    <3> QED
      BY <1>3, <1>6, <1>8, <3>2, <3>3
  <2> QED
    BY <1>8, <2>1, <2>2, <2>3, <2>4 DEF WrapperNext
<1> QED
  BY <1>7, <1>8

\* Signals and timers keep the invariant.
LEMMA SignalsKeep ==
  ASSUME RunInv, StartRun \/ SignalNext
  PROVE  PhaseInv' /\ StatusInv' /\ FinInv' /\ CheckpointInv'
<1>1. ASSUME NEW i \in Ids, AbortTimer(i)
      PROVE  PhaseInv' /\ StatusInv' /\ FinInv' /\ CheckpointInv'
  BY <1>1, WrappersKeep
<1>2. ASSUME UNCHANGED <<schedulerVars, phase, record, checkpoint>> \/ StopSignalled,
             UNCHANGED <<phase, record, checkpoint>>,
             fin \in {"new", "running"}, fin' = "running",
             attempt' \in {"running", "stop_requested"}
      PROVE  PhaseInv' /\ StatusInv' /\ FinInv' /\ CheckpointInv'
  <2>1. UNCHANGED <<status, result, loop>>
    BY <1>2 DEF StopSignalled, schedulerVars
  <2> QED
    BY <1>2, <2>1, SignalKeeps
<1>3. fin = "running" => attempt \in {"running", "stop_requested"}
  BY DEF RunInv, FinInv
<1>4. attempt = "running" => fin = "running"
  BY DEF RunInv, FinInv, RunTypes
<1>5. CASE StartRun
  BY <1>2, <1>5 DEF StartRun, wrapperVars
<1>6. CASE RequestStop
  BY <1>2, <1>4, <1>6 DEF RequestStop, wrapperVars
<1>7. CASE ObserveStop \/ StopDeadline \/ RuntimeLimit \/ InterruptScheduling
  BY <1>2, <1>3, <1>7 DEF ObserveStop, StopDeadline, RuntimeLimit, InterruptScheduling,
                          SignalStop, wrapperVars, attemptVars
<1>8. ASSUME NEW i \in Ids, Interrupt(i)
      PROVE  PhaseInv' /\ StatusInv' /\ FinInv' /\ CheckpointInv'
  BY <1>2, <1>3, <1>8 DEF Interrupt, SignalStop, attemptVars
<1>9. ASSUME NEW i \in Ids, NodeDeadline(i)
      PROVE  PhaseInv' /\ StatusInv' /\ FinInv' /\ CheckpointInv'
  <2>1. fin = "running"
    BY <1>9, UnderWay, RunGoesOn DEF NodeDeadline, Listening
  <2> QED
    BY <1>2, <1>3, <1>9, <2>1 DEF NodeDeadline, attemptVars
<1> QED
  BY <1>1, <1>5, <1>6, <1>7, <1>8, <1>9 DEF SignalNext

\* The invariant holds initially.
LEMMA RunInvInit ==
  ASSUME RunInit
  PROVE  RunInv
<1>1. SchedulerInit /\ SchedulerInv
  BY SchedulerInvInit DEF RunInit
<1>2. RunTypes
  BY DEF RunInit, RunTypes, Phases
<1>3. \A i \in Ids : /\ phase[i] = "idle" /\ record[i] = "none"
                     /\ result[i] = "pending"
  BY <1>1 DEF RunInit, SchedulerInit
<1>4. PhaseInv
  BY <1>3 DEF PhaseInv, Agree, Working
<1>5. \A i \in Ids : \/ i \in Seeded /\ status[i] = "completed"
                     \/ status[i] \in {"none", "queued"}
  BY <1>1, InitialActivations
<1>6. StatusInv
  BY <1>3, <1>5 DEF StatusInv
<1>7. Running = {} /\ loop = "boot"
  BY <1>1, <1>5 DEF Running, SchedulerInit
<1>8. fin = "new" /\ attempt = "none" /\ checkpoint = NoCheckpoint
  BY DEF RunInit
<1>9. FinInv /\ CheckpointInv
  BY <1>7, <1>8 DEF FinInv, CheckpointInv
<1> QED
  BY <1>1, <1>2, <1>4, <1>6, <1>9 DEF RunInv

\* Every step keeps the invariant.
LEMMA RunInvStep ==
  ASSUME RunInv, [RunNext]_runVars
  PROVE  RunInv'
<1>1. SchedulerInv'
  BY RunStepSchedules, SchedulerInvStep DEF RunInv
<1>2. RunTypes'
  BY RunTypesKept DEF RunInv
<1>3. PhaseInv' /\ StatusInv' /\ FinInv' /\ CheckpointInv'
  <2>1. CASE StartRun \/ SignalNext
    BY <2>1, SignalsKeep
  <2>2. ASSUME NEW i \in Ids, WrapperNext(i) \/ Catch(i)
        PROVE  PhaseInv' /\ StatusInv' /\ FinInv' /\ CheckpointInv'
    BY <2>2, WrappersKeep
  <2>3. CASE SchedulerStep
    BY <2>3, SchedulingKeeps
  <2>4. CASE FinishNext
    BY <2>4, FinishKeeps
  <2>5. CASE UNCHANGED runVars
    <3>1. /\ UNCHANGED <<node, status, result, loop, frontier, stopReason, limitReached,
                         cause>>
          /\ UNCHANGED <<phase, record, attempt, fin, checkpoint>>
      BY <2>5 DEF runVars, schedulerVars, activationVars, stopVars, wrapperVars, attemptVars
    <3>2. Failed' = Failed /\ Running' = Running /\ SchedulerDone' = SchedulerDone
      BY <3>1 DEF Failed, Running, SchedulerDone
    <3>3. LogAgrees' = LogAgrees
      BY <3>1 DEF LogAgrees, NothingLogged, EndedHere
    <3>4. Frontier' = Frontier
      BY <3>1 DEF Frontier, FrontierSoFar, QueuedNodes, Queued
    <3>5. CheckpointReason' = CheckpointReason
      BY <3>1, <3>4 DEF CheckpointReason
    <3>6. Saved' = Saved
      BY <3>1, <3>2, <3>4 DEF Saved, EndedHere, CheckpointFrontier
    <3>7. PhaseInv' /\ StatusInv'
      BY <3>1, <3>2 DEF RunInv, PhaseInv, StatusInv
    <3>8. FinInv'
      BY <3>1, <3>2, <3>3, <3>5 DEF RunInv, FinInv
    <3>9. CheckpointInv'
      BY <3>1, <3>3, <3>6 DEF RunInv, CheckpointInv
    <3> QED
      BY <3>7, <3>8, <3>9
  <2> QED
    BY <2>1, <2>2, <2>3, <2>4, <2>5 DEF RunNext
<1> QED
  BY <1>1, <1>2, <1>3 DEF RunInv

\* The invariant holds in every run.
THEOREM RunInvariant == RunSpec => []RunInv
<1>1. RunInit => RunInv
  BY RunInvInit
<1>2. RunInv /\ [RunNext]_runVars => RunInv'
  BY RunInvStep
<1> QED
  BY <1>1, <1>2, PTL DEF RunSpec

-----------------------------------------------------------------------------
(* What a run promises *)

\* When nothing runs any more, what the log has of an activation follows from
\* what the scheduler says of it; only an activation it counts as aborted may
\* have failed in the log, or have completed if another one failed.
LEMMA EndedLog ==
  ASSUME RunInv, SchedulerDone, NEW i \in Ids
  PROVE  /\ record[i] # "running"
         /\ i \notin Seeded /\ status[i] = "completed" => record[i] = "completed"
         /\ status[i] = "failed" => record[i] = "failed" /\ i \notin Seeded
         /\ status[i] = "aborted" =>
              /\ record[i] \in Outcomes /\ i \notin Seeded
              /\ Failed = {} => record[i] # "completed"
         /\ record[i] # "none" => status[i] \in Outcomes /\ i \notin Seeded
<1>1. status[i] \in Statuses /\ status[i] # "running"
  BY DEF RunInv, SchedulerInv, TypeOK, Statuses, SchedulerDone, Running
<1>2. phase[i] \in {"idle", "settled"}
  BY <1>1, UnderWay
<1>3. Agree(phase[i], record[i], result[i])
  BY DEF RunInv, PhaseInv
<1>4. /\ status[i] \in {"none", "queued"} \/ i \in Seeded => phase[i] = "idle"
      /\ i \notin Seeded /\ status[i] = "completed" => result[i] = "output"
      /\ status[i] = "failed" => result[i] = "error"
      /\ status[i] = "aborted" =>
           /\ result[i] \in {"aborted", "output"}
           /\ Failed = {} => result[i] = "aborted"
  BY DEF RunInv, StatusInv
<1>5. i \in Seeded => status[i] = "completed"
  BY DEF RunInv, SchedulerInv, IdsInv
<1> QED
  BY <1>1, <1>2, <1>3, <1>4, <1>5 DEF Agree, Outcomes, Statuses

\* Where the log agrees with the scheduler it has every end under its name.
LEMMA LogIsStatus ==
  ASSUME RunInv, SchedulerDone, LogAgrees
  PROVE  /\ Logged("completed") = EndedHere("completed")
         /\ Logged("aborted") = EndedHere("aborted")
         /\ Logged("failed") = Failed
<1>1. ASSUME NEW i \in Ids, i \notin Seeded, NEW s \in Outcomes
      PROVE  record[i] = s <=> status[i] = s
  <2>1. status[i] = "aborted" => record[i] = "aborted"
    BY <1>1 DEF LogAgrees, EndedHere
  <2> QED
    BY <1>1, <2>1, EndedLog DEF Outcomes
<1>2. \A s \in Outcomes : Logged(s) = EndedHere(s)
  BY <1>1 DEF Logged, EndedHere
<1>3. EndedHere("failed") = Failed
  BY EndedLog DEF EndedHere, Failed
<1> QED
  BY <1>2, <1>3 DEF Outcomes

\* What runWorkflow returns and saves has its type.
LEMMA CheckpointTyped ==
  ASSUME RunInv
  PROVE  /\ checkpoint.completed \subseteq Ids /\ checkpoint.aborted \subseteq Ids
         /\ checkpoint.frontier \subseteq Node \cup NoFrontier
         /\ CheckpointFrontier \subseteq Node
<1>1. Frontier \subseteq Node
  BY FrontierNodes DEF Frontier, RunInv, SchedulerInv
<1>2. \A i \in Failed : node[i] \in Node
  BY DEF Failed, Created, RunInv, SchedulerInv, IdsInv
<1>3. CheckpointFrontier \subseteq Node
  BY <1>1, <1>2 DEF CheckpointFrontier
<1>4. \A s : EndedHere(s) \subseteq Ids
  BY DEF EndedHere
<1>5. checkpoint = Saved \/ checkpoint = NoCheckpoint
  BY DEF RunInv, CheckpointInv
<1> QED
  BY <1>3, <1>4, <1>5 DEF Saved, NoCheckpoint

\* Types, for runWorkflow with everything around it.
THEOREM RunTyped == RunSpec => []RunTypeOK
<1>1. RunInv => RunTypeOK
  BY CheckpointTyped DEF RunInv, RunTypes, SchedulerInv, RunTypeOK
<1> QED
  BY <1>1, RunInvariant, PTL

\* A saved checkpoint has exactly what the log has, and a frontier that starts
\* again what failed or, in a stopped attempt, was aborted.
THEOREM CheckpointsExact == RunSpec => []CheckpointExact
<1>1. ASSUME RunInv, checkpoint # NoCheckpoint
      PROVE  /\ checkpoint.completed = Logged("completed")
             /\ checkpoint.aborted = Logged("aborted")
             /\ {node[i] : i \in Logged("failed")} \subseteq checkpoint.frontier
             /\ attempt = "stopped" =>
                  {node[i] : i \in Logged("aborted")} \subseteq checkpoint.frontier
             /\ checkpoint.frontier # {}
  <2>1. /\ fin = "over" /\ attempt \in {"stopped", "failed"} /\ SchedulerDone
        /\ LogAgrees /\ checkpoint = Saved
    BY <1>1 DEF RunInv, FinInv, CheckpointInv
  <2>2. /\ checkpoint.completed = EndedHere("completed")
        /\ checkpoint.aborted = EndedHere("aborted")
        /\ checkpoint.frontier = CheckpointFrontier
    BY <2>1 DEF Saved
  <2>3. /\ Logged("completed") = EndedHere("completed")
        /\ Logged("aborted") = EndedHere("aborted")
        /\ Logged("failed") = Failed
    BY <1>1, <2>1, LogIsStatus
  <2>4. CASE attempt = "failed"
    <3>1. Failed # {}
      BY <1>1, <2>4 DEF RunInv, FinInv
    <3>2. CheckpointFrontier = {node[i] : i \in Failed}
      BY <3>1 DEF CheckpointFrontier
    <3> QED
      BY <2>2, <2>3, <2>4, <3>1, <3>2
  <2>5. CASE attempt = "stopped"
    <3>1. Failed = {} /\ CheckpointReason
      BY <1>1, <2>1, <2>5 DEF RunInv, FinInv
    <3>2. CheckpointFrontier = Frontier
      BY <3>1 DEF CheckpointFrontier
    <3>3. Frontier # {}
      BY <1>1, <3>1, BlockedIsFrontier DEF CheckpointReason, RunInv
    <3>4. ASSUME NEW i \in EndedHere("aborted") PROVE node[i] \in Frontier
      <4>1. InFrontier(node[i])
        BY <1>1, <3>1 DEF EndedHere, RunInv, SchedulerInv, WorkInv
      <4> QED
        BY <1>1, <4>1, BlockedIsFrontier DEF RunInv
    <3> QED
      BY <2>2, <2>3, <3>1, <3>2, <3>3, <3>4
  <2> QED
    BY <2>1, <2>4, <2>5
<1>2. RunInv => CheckpointExact
  BY <1>1 DEF CheckpointExact
<1> QED
  BY <1>2, RunInvariant, PTL

\* The attempt ends with the status its activations earned.
THEOREM StatusIsEarned == RunSpec => []StatusEarned
<1>1. ASSUME RunInv, fin = "over", attempt = "completed"
      PROVE  /\ \A i \in Ran : record[i] = "completed"
             /\ \A i \in Ran : \A d \in due[i] :
                  \E j \in Ran : <<node[j], parents[j]>> = d
  <2>1. SchedulerDone /\ Failed = {} /\ ~CheckpointReason
    BY <1>1 DEF RunInv, FinInv
  <2>2. ASSUME NEW i \in Ran PROVE record[i] = "completed"
    <3>1. i \in Ids /\ i \notin Seeded /\ status[i] \in Outcomes
      BY <1>1, <2>1, EndedLog DEF Ran
    <3>2. i \in Created
      BY <3>1 DEF Created, Outcomes
    <3>3. status[i] = "completed"
      BY <1>1, <2>1, <3>2, NothingLeft DEF RunInv
    <3> QED
      BY <1>1, <2>1, <3>1, <3>3, EndedLog
  <2>3. ASSUME NEW i \in Ran, NEW d \in due[i]
        PROVE  \E j \in Ran : <<node[j], parents[j]>> = d
    <3>1. PICK j \in Created \ Seeded : Work(j) = d
      BY <1>1, <2>1, NothingLeft DEF RunInv, Ran
    <3>2. j \in Ids /\ status[j] = "completed"
      BY <1>1, <2>1, <3>1, NothingLeft DEF RunInv, Created
    <3>3. record[j] = "completed"
      BY <1>1, <2>1, <3>1, <3>2, EndedLog
    <3> QED
      BY <3>1, <3>2, <3>3 DEF Ran, Work
  <2> QED
    BY <2>2, <2>3
<1>2. ASSUME RunInv, fin = "over", attempt = "stopped"
      PROVE  Logged("failed") = {}
  BY <1>2, LogIsStatus DEF RunInv, FinInv, CheckpointInv
<1>3. ASSUME RunInv, fin = "over", attempt = "failed"
      PROVE  Logged("failed") # {}
  BY <1>3, LogIsStatus DEF RunInv, FinInv, CheckpointInv
<1>4. RunInv /\ fin = "over" => attempt \in {"completed", "stopped", "failed"}
  BY DEF RunInv, FinInv
<1>5. RunInv => StatusEarned
  BY <1>1, <1>2, <1>3, <1>4 DEF StatusEarned
<1> QED
  BY <1>5, RunInvariant, PTL

\* Without a failed activation createWorkflowCheckpoint never throws.
THEOREM RejectionsNeedFailure == RunSpec => []RejectionNeedsFailure
<1>1. ASSUME RunInv, fin = "rejected"
      PROVE  Logged("failed") # {}
  <2>1. SchedulerDone /\ ~LogAgrees /\ attempt \in {"stop_requested", "failed"}
    BY <1>1 DEF RunInv, FinInv
  <2>2. CASE attempt = "failed"
    <3>1. PICK i \in Failed : TRUE
      BY <1>1, <2>2 DEF RunInv, FinInv
    <3>2. i \in Ids /\ i \notin Seeded /\ record[i] = "failed"
      BY <1>1, <2>1, EndedLog DEF Failed
    <3> QED
      BY <3>2 DEF Logged
  <2>3. CASE attempt = "stop_requested"
    <3>1. Failed = {}
      BY <1>1, <2>3 DEF RunInv, FinInv
    <3>2. PICK i \in EndedHere("aborted") : record[i] # "aborted"
      BY <1>1, <2>1, EndedLog DEF LogAgrees, NothingLogged, EndedHere
    <3>3. i \in Ids /\ i \notin Seeded /\ record[i] = "failed"
      BY <1>1, <2>1, <3>1, <3>2, EndedLog DEF EndedHere, Outcomes
    <3> QED
      BY <3>3 DEF Logged
  <2> QED
    BY <2>1, <2>2, <2>3
<1>2. RunInv => RejectionNeedsFailure
  BY <1>1 DEF RejectionNeedsFailure
<1> QED
  BY <1>2, RunInvariant, PTL

-----------------------------------------------------------------------------
(* What the run appends to the log *)

\* A step that neither logs anything nor changes the attempt leaves the log as
\* it is, though the scheduler may create activations.
LEMMA LogKept ==
  ASSUME RunInv, UNCHANGED <<record, attempt, checkpoint>>,
         \A i \in Ids : status[i] # "none" => node'[i] = node[i]
  PROVE  UNCHANGED Log!vars
<1>1. Ran' = Ran
  BY DEF Ran
<1>2. ASSUME NEW i \in Ids PROVE LoggedNode(i)' = LoggedNode(i)
  <2>1. CASE i \in Ran
    <3>1. status[i] # "none"
      BY <2>1 DEF Ran, RunInv, PhaseInv, StatusInv, Agree
    <3> QED
      BY <1>1, <2>1, <3>1 DEF LoggedNode
  <2>2. CASE i \notin Ran
    BY <1>1, <2>2 DEF LoggedNode
  <2> QED
    BY <2>1, <2>2
<1>3. [i \in Ids |-> LoggedNode(i)]' = [i \in Ids |-> LoggedNode(i)]
  BY <1>2
<1>4. SavedCheckpoint' = SavedCheckpoint
  BY DEF SavedCheckpoint
<1> QED
  BY <1>3, <1>4 DEF Log!vars, Log!attemptVars, Log!activationVars, Log!requestVars

\* The log's Init: nothing is logged.
LEMMA LogInit ==
  ASSUME RunInit
  PROVE  Log!Init
<1>1. record = [i \in Ids |-> "none"] /\ attempt = "none" /\ checkpoint = NoCheckpoint
  BY DEF RunInit
<1>2. Ran = {}
  BY <1>1 DEF Ran
<1>3. \A r, q : [x \in 1 .. 0 |-> r] = << >> /\ [x \in 1 .. 0 |-> q] = << >>
  OBVIOUS
<1> QED
  BY <1>1, <1>2, <1>3 DEF Log!Init, Log!Request, OfAttempt, LoggedNode, SavedCheckpoint

\* An activation is logged as started once, while the attempt is active.
LEMMA LogBegins ==
  ASSUME RunInv, NEW i \in Ids, PromptResolved(i) \/ PromptFails(i)
  PROVE  Log!BeginActivation("attempt", i, node[i])
<1>1. /\ status[i] = "running" /\ phase[i] = "idle"
      /\ record' = [record EXCEPT ![i] = "running"]
      /\ UNCHANGED <<node, attempt, checkpoint>>
  BY DEF PromptResolved, PromptFails, InPhase, schedulerVars, activationVars, attemptVars
<1>2. record[i] = "none" /\ record \in [Ids -> {"none", "running"} \cup Outcomes]
  BY <1>1 DEF RunInv, PhaseInv, Agree, RunTypes, Outcomes
<1>3. i \notin Seeded /\ attempt \in {"running", "stop_requested"}
  BY <1>1, RunGoesOn
<1>4. Ran' = Ran \cup {i}
  BY <1>1, <1>2, <1>3 DEF Ran
<1>5. [j \in Ids |-> LoggedNode(j)]' = [[j \in Ids |-> LoggedNode(j)] EXCEPT ![i] = node[i]]
  BY <1>1, <1>4 DEF LoggedNode
<1>6. SavedCheckpoint' = SavedCheckpoint
  BY <1>1 DEF SavedCheckpoint
<1> QED
  BY <1>1, <1>2, <1>3, <1>5, <1>6 DEF Log!BeginActivation, Log!Active, Log!attemptVars, Log!requestVars,
     OfAttempt

\* ... and as ended once.
LEMMA LogEnds ==
  ASSUME RunInv, NEW i \in Ids, NEW outcome \in Outcomes, record[i] = "running",
         record' = [record EXCEPT ![i] = outcome],
         UNCHANGED <<node, attempt, checkpoint>>
  PROVE  Log!EndActivation("attempt", i, outcome)
<1>1. record \in [Ids -> {"none", "running"} \cup Outcomes]
  BY DEF RunInv, RunTypes, Outcomes
<1>2. Ran' = Ran
  BY <1>1 DEF Ran, Outcomes
<1>3. [j \in Ids |-> LoggedNode(j)]' = [j \in Ids |-> LoggedNode(j)]
  BY <1>2 DEF LoggedNode
<1>4. SavedCheckpoint' = SavedCheckpoint
  BY DEF SavedCheckpoint
<1> QED
  BY <1>1, <1>3, <1>4 DEF Log!EndActivation, Log!attemptVars, Log!requestVars, OfAttempt

\* The attempt is started once, in its freeze.
LEMMA LogStarts ==
  ASSUME RunInv, StartRun
  PROVE  Log!StartAttempt("attempt", "freeze")
<1>1. /\ attempt = "none" /\ attempt' = "running"
      /\ UNCHANGED <<node, record, checkpoint>>
  BY DEF StartRun, RunInv, FinInv, schedulerVars, activationVars, wrapperVars
<1>2. Ran' = Ran
  BY <1>1 DEF Ran
<1>3. [j \in Ids |-> LoggedNode(j)]' = [j \in Ids |-> LoggedNode(j)]
  BY <1>1, <1>2 DEF LoggedNode
<1>4. SavedCheckpoint' = SavedCheckpoint
  BY <1>1 DEF SavedCheckpoint
<1>5. /\ Log!Recorded = {}
      /\ Log!WithFreeze("freeze") = <<"freeze">>
  BY <1>1 DEF Log!Recorded, Log!WithFreeze
<1> QED
  BY <1>1, <1>3, <1>4, <1>5 DEF Log!StartAttempt, Log!activationVars, Log!requestVars, OfAttempt

\* A stop is requested while it runs, and it ends when nothing runs any more.
LEMMA LogAttemptEnds ==
  ASSUME RunInv, UNCHANGED <<node, record, checkpoint>>,
         attempt \in {"running", "stop_requested"}
  PROVE  /\ attempt = "running" /\ attempt' = "stop_requested" => Log!RequestStop("attempt")
         /\ attempt' = "completed" /\ NothingLogged => Log!CompleteAttempt("attempt")
         /\ attempt' = "failed" /\ NothingLogged => Log!FailAttempt("attempt")
<1>1. Ran' = Ran
  BY DEF Ran
<1>2. [j \in Ids |-> LoggedNode(j)]' = [j \in Ids |-> LoggedNode(j)]
  BY <1>1 DEF LoggedNode
<1>3. SavedCheckpoint' = SavedCheckpoint
  BY DEF SavedCheckpoint
<1>4. NothingLogged => Log!MayTerminate("attempt")
  BY DEF NothingLogged, Log!MayTerminate, Log!NoneRunning, Log!Active, OfAttempt
<1> QED
  BY <1>2, <1>3, <1>4 DEF Log!RequestStop, Log!CompleteAttempt, Log!FailAttempt,
     Log!activationVars, Log!requestVars, OfAttempt

\* The checkpoint is one the log accepts.
LEMMA LogCheckpoints ==
  ASSUME RunInv, SaveCheckpoint
  PROVE  Log!CreateCheckpoint("attempt", EndedHere("completed"), EndedHere("aborted"),
                              CheckpointFrontier)
<1>1. /\ fin = "capturing" /\ LogAgrees /\ checkpoint' = Saved
      /\ attempt' = IF attempt = "stop_requested" THEN "stopped" ELSE attempt
      /\ UNCHANGED <<node, record>>
  BY DEF SaveCheckpoint, Saved, schedulerVars, activationVars, wrapperVars
<1>2. attempt \in {"stop_requested", "failed"} /\ checkpoint = NoCheckpoint
  BY <1>1 DEF RunInv, FinInv, CheckpointInv
<1>3. Saved # NoCheckpoint
  BY CheckpointTyped, GraphAssumption DEF Saved, NoCheckpoint, NoFrontier
<1>4. /\ SavedCheckpoint = Absent
      /\ SavedCheckpoint' = [completed |-> EndedHere("completed"),
                             aborted |-> EndedHere("aborted"),
                             frontier |-> CheckpointFrontier,
                             mapping |-> Identity]
  BY <1>1, <1>2, <1>3 DEF SavedCheckpoint, Saved
<1>5. Log!SourceMapping("attempt") = Identity
  BY DEF Log!SourceMapping, Log!Request, Identity
<1>6. Ran' = Ran
  BY <1>1 DEF Ran
<1>7. [j \in Ids |-> LoggedNode(j)]' = [j \in Ids |-> LoggedNode(j)]
  BY <1>1, <1>6 DEF LoggedNode
<1>8. /\ \A i \in Ids : record[i] # "running"
      /\ \A i \in EndedHere("completed") : i \in Ids /\ record[i] = "completed"
      /\ \A i \in EndedHere("aborted") : i \in Ids /\ record[i] = "aborted"
  BY <1>1 DEF LogAgrees, NothingLogged, EndedHere
<1> HIDE DEF Saved, SavedCheckpoint
<1> QED
  BY <1>1, <1>2, <1>4, <1>5, <1>7, <1>8 DEF Log!CreateCheckpoint, Log!NoneRunning, Log!Settled,
     Log!activationVars, Log!requestVars, OfAttempt

\* Every step of the run appends to the log what one operation of the log appends,
\* or nothing.
LEMMA LogStep ==
  ASSUME RunInv, [RunNext]_runVars
  PROVE  [Log!Next]_(Log!vars)
<1>1. ASSUME Log!AttemptNext("attempt") PROVE Log!Next
  BY <1>1 DEF Log!Next
<1>2. attempt # "none" => Log!NodesFor("attempt") = Node
  BY NodesAssumption DEF Log!NodesFor, OfAttempt, OfFreeze
<1>3. ASSUME UNCHANGED <<node, record, attempt, checkpoint>>
      PROVE  UNCHANGED Log!vars
  BY <1>3, LogKept
<1>4. ASSUME NEW i \in Ids, PromptResolved(i) \/ PromptFails(i)
      PROVE  Log!Next
  <2>1. status[i] = "running"
    BY <1>4 DEF PromptResolved, PromptFails, InPhase
  <2>2. attempt # "none" /\ i \in Created
    BY <2>1, RunGoesOn DEF Created
  <2>3. node[i] \in Node
    BY <2>2 DEF RunInv, SchedulerInv, IdsInv
  <2>4. Log!BeginActivation("attempt", i, node[i])
    BY <1>4, LogBegins
  <2> QED
    BY <1>1, <1>2, <2>2, <2>3, <2>4 DEF Log!AttemptNext
<1>5. ASSUME NEW i \in Ids, NEW outcome \in Outcomes, record[i] = "running",
             record' = [record EXCEPT ![i] = outcome],
             UNCHANGED <<node, attempt, checkpoint>>
      PROVE  Log!Next
  <2>1. Log!EndActivation("attempt", i, outcome)
    BY <1>5, LogEnds
  <2> QED
    BY <1>1, <2>1 DEF Log!AttemptNext, Log!Outcome, Outcomes
<1>6. CASE StartRun
  <2>1. Log!StartAttempt("attempt", "freeze")
    BY <1>6, LogStarts
  <2> QED
    BY <1>1, <2>1 DEF Log!AttemptNext
<1>7. ASSUME NEW i \in Ids, Catch(i) PROVE Log!Next
  <2>1. /\ phase[i] \in {"failing", "aborting"}
        /\ \E r \in {"aborted", "failed"} : record' = [record EXCEPT ![i] = r]
        /\ UNCHANGED <<node, attempt, checkpoint>>
    BY <1>7 DEF Catch, schedulerVars, activationVars, attemptVars
  <2>2. record[i] = "running"
    BY <2>1 DEF RunInv, PhaseInv, Agree, Working
  <2> QED
    BY <1>5, <2>1, <2>2 DEF Outcomes
<1>8. ASSUME NEW i \in Ids, WrapperNext(i) PROVE [Log!Next]_(Log!vars)
  <2>1. CASE PromptResolved(i) \/ PromptFails(i)
    BY <1>4, <2>1
  <2>2. CASE PrepareFails(i) \/ Execute(i) \/ Return(i)
    BY <1>3, <2>2 DEF PrepareFails, Execute, Return, Settle, schedulerVars, activationVars,
                      attemptVars
  <2>3. CASE OperationEnds(i) \/ Verified(i)
    <3>1. /\ phase[i] \in {"executing", "verifying"}
          /\ record' = record \/ record' = [record EXCEPT ![i] = "completed"]
          /\ UNCHANGED <<node, attempt, checkpoint>>
      BY <2>3 DEF OperationEnds, Verified, InPhase, schedulerVars, activationVars, attemptVars
    <3>2. record[i] = "running"
      BY <3>1 DEF RunInv, PhaseInv, Agree, Working
    <3> QED
      BY <1>3, <1>5, <3>1, <3>2 DEF Outcomes
  <2> QED
    BY <1>8, <2>1, <2>2, <2>3 DEF WrapperNext
<1>9. CASE SignalNext
  <2>1. CASE RequestStop
    <3>1. /\ attempt = "running" /\ attempt' = "stop_requested"
          /\ UNCHANGED <<node, record, checkpoint>>
      BY <2>1 DEF RequestStop, schedulerVars, activationVars, wrapperVars
    <3>2. Log!RequestStop("attempt")
      BY <3>1, LogAttemptEnds
    <3> QED
      BY <1>1, <3>2 DEF Log!AttemptNext
  <2>2. CASE \/ ObserveStop \/ StopDeadline \/ RuntimeLimit \/ InterruptScheduling
             \/ \E i \in Ids : Interrupt(i) \/ NodeDeadline(i) \/ AbortTimer(i)
    <3>1. UNCHANGED <<node, record, attempt, checkpoint>>
      BY <2>2 DEF ObserveStop, StopDeadline, RuntimeLimit, InterruptScheduling, Interrupt,
                  NodeDeadline, AbortTimer, SignalStop, StopSignalled, schedulerVars,
                  activationVars, wrapperVars, attemptVars
    <3> QED
      BY <1>3, <3>1
  <2> QED
    BY <1>9, <2>1, <2>2 DEF SignalNext
<1>10. CASE SchedulerStep
  <2>1. /\ BootStart \/ BootHalted \/ ConsumeNext
        /\ UNCHANGED <<record, attempt, checkpoint>>
    BY <1>10 DEF SchedulerStep, attemptVars
  <2>2. \A i \in Ids : status[i] # "none" => node'[i] = node[i]
    BY <2>1, SchedulerMoves DEF RunInv
  <2> QED
    BY <2>1, <2>2, LogKept
<1>11. CASE FinishNext
  <2>1. UNCHANGED <<node, record>>
    BY <1>11 DEF FinishNext, FinishFailed, FinishStopped, FinishCompleted, SaveCheckpoint,
                 CheckpointRefused, schedulerVars, activationVars, wrapperVars
  <2>2. CASE FinishFailed \/ FinishCompleted
    <3>1. /\ attempt \in {"running", "stop_requested"} /\ checkpoint' = checkpoint
          /\ NothingLogged /\ attempt' \in {"completed", "failed"}
      BY <2>2 DEF FinishFailed, FinishCompleted, Finishing
    <3>2. Log!CompleteAttempt("attempt") \/ Log!FailAttempt("attempt")
      BY <2>1, <3>1, LogAttemptEnds
    <3> QED
      BY <1>1, <3>2 DEF Log!AttemptNext
  <2>3. CASE FinishStopped
    <3>1. /\ attempt \in {"running", "stop_requested"} /\ attempt' = "stop_requested"
          /\ checkpoint' = checkpoint
      BY <2>3 DEF FinishStopped, Finishing
    <3>2. Log!RequestStop("attempt") \/ attempt' = attempt
      BY <2>1, <3>1, LogAttemptEnds
    <3> QED
      BY <1>1, <1>3, <2>1, <3>1, <3>2 DEF Log!AttemptNext
  <2>4. CASE SaveCheckpoint
    <3>1. Log!CreateCheckpoint("attempt", EndedHere("completed"), EndedHere("aborted"),
                               CheckpointFrontier)
      BY <2>4, LogCheckpoints
    <3>2. EndedHere("completed") \subseteq Ids /\ EndedHere("aborted") \subseteq Ids
      BY DEF EndedHere
    <3>3. attempt # "none"
      BY <2>4 DEF SaveCheckpoint, RunInv, FinInv
    <3>4. CheckpointFrontier \in SUBSET Log!NodesFor("attempt")
      BY <1>2, <3>3, CheckpointTyped
    <3> QED
      BY <1>1, <3>1, <3>2, <3>4 DEF Log!AttemptNext
  <2>5. CASE CheckpointRefused
    BY <1>3, <2>1, <2>5 DEF CheckpointRefused
  <2> QED
    BY <1>11, <2>2, <2>3, <2>4, <2>5 DEF FinishNext
<1>12. CASE UNCHANGED runVars
  BY <1>3, <1>12 DEF runVars, schedulerVars, activationVars, wrapperVars, attemptVars
<1> QED
  BY <1>6, <1>7, <1>8, <1>9, <1>10, <1>11, <1>12 DEF RunNext

\* The run implements the lifecycle log: the discipline that the append functions
\* of the log leave to their caller is kept.
THEOREM RunImplementsLog == RunSpec => LogSpec
<1>1. RunInit => Log!Init
  BY LogInit
<1>2. RunInv /\ [RunNext]_runVars => [Log!Next]_(Log!vars)
  BY LogStep
<1> QED
  BY <1>1, <1>2, RunInvariant, PTL DEF RunSpec, LogSpec, Log!Spec

-----------------------------------------------------------------------------
(* What is final in a run, and why a node is aborted *)

EndedAttempt == {"stopped", "failed", "completed"}

\* Once the scheduler has returned, the run saves its checkpoint or rejects, and
\* that is all it does.
LEMMA AfterTheScheduler ==
  ASSUME RunInv, [RunNext]_runVars, fin \notin {"new", "running"}
  PROVE  SaveCheckpoint \/ CheckpointRefused \/ UNCHANGED runVars
<1>1. \A i \in Ids : status[i] # "running"
  BY DEF RunInv, FinInv, SchedulerDone, Running
<1>2. \A i \in Ids : phase[i] \in {"idle", "settled"}
  BY <1>1, UnderWay
<1>3. ~\E i \in Ids : Catch(i)
  BY <1>2 DEF Catch
<1>4. ~StartRun /\ ~SchedulerStep
  BY DEF StartRun, SchedulerStep
<1>5. ~\E i \in Ids : WrapperNext(i)
  BY <1>1 DEF WrapperNext, PromptResolved, PromptFails, PrepareFails, Execute, OperationEnds,
              Verified, Return, InPhase
<1>6. ~SignalNext
  <2>1. attempt # "running"
    BY DEF RunInv, RunTypes, FinInv
  <2>2. ~\E i \in Ids : AbortTimer(i)
    BY <1>1 DEF AbortTimer, InPhase
  <2>3. ~\E i \in Ids : NodeDeadline(i)
    BY <1>2 DEF NodeDeadline, Listening
  <2>4. ~\E i \in Ids : Interrupt(i)
    BY DEF Interrupt
  <2> QED
    BY <2>1, <2>2, <2>3, <2>4 DEF SignalNext, RequestStop, ObserveStop, StopDeadline,
                                  RuntimeLimit, InterruptScheduling
<1>7. FinishNext => SaveCheckpoint \/ CheckpointRefused
  BY DEF FinishNext, FinishFailed, FinishStopped, FinishCompleted, Finishing
<1> QED
  BY <1>3, <1>4, <1>5, <1>6, <1>7 DEF RunNext

\* An activation is logged as started once, and ended once.
LEMMA RecordSteps ==
  ASSUME RunInv, [RunNext]_runVars, NEW i \in Ids
  PROVE  \/ record'[i] = record[i]
         \/ record[i] = "none" /\ record'[i] = "running"
         \/ record[i] = "running" /\ record'[i] \in Outcomes
<1>1. record \in [Ids -> {"none", "running", "completed", "failed", "aborted"}]
  BY DEF RunInv, RunTypes
<1>2. \A k \in Ids : Agree(phase[k], record[k], result[k])
  BY DEF RunInv, PhaseInv
<1>3. ASSUME NEW k \in Ids, Catch(k) \/ OperationEnds(k) \/ Verified(k)
      PROVE  \/ record' = record
             \/ /\ record[k] = "running"
                /\ \E r \in Outcomes : record' = [record EXCEPT ![k] = r]
  <2>1. phase[k] \in Working
    BY <1>3 DEF Catch, OperationEnds, Verified, InPhase, Working
  <2>2. record[k] = "running"
    BY <1>2, <2>1 DEF Agree
  <2>3. CASE Catch(k)
    BY <2>2, <2>3 DEF Catch, Outcomes
  <2>4. CASE OperationEnds(k) \/ Verified(k)
    BY <2>2, <2>4 DEF OperationEnds, Verified, Outcomes
  <2> QED
    BY <1>3, <2>3, <2>4
<1>4. ASSUME NEW k \in Ids, PromptResolved(k) \/ PromptFails(k)
      PROVE  record[k] = "none" /\ record' = [record EXCEPT ![k] = "running"]
  BY <1>2, <1>4 DEF PromptResolved, PromptFails, InPhase, Agree
<1>5. ASSUME NEW k \in Ids, WrapperNext(k)
      PROVE  \/ PromptResolved(k) \/ PromptFails(k) \/ OperationEnds(k) \/ Verified(k)
             \/ record' = record
  BY <1>5 DEF WrapperNext, PrepareFails, Execute, Return
<1>6. CASE StartRun \/ SignalNext \/ SchedulerStep \/ FinishNext \/ UNCHANGED runVars
  <2>1. CASE StartRun \/ SchedulerStep \/ UNCHANGED runVars
    BY <2>1 DEF StartRun, SchedulerStep, wrapperVars, runVars
  <2>2. CASE SignalNext
    BY <2>2 DEF SignalNext, RequestStop, ObserveStop, StopDeadline, RuntimeLimit,
                InterruptScheduling, Interrupt, NodeDeadline, AbortTimer, wrapperVars
  <2>3. CASE FinishNext
    BY <2>3 DEF FinishNext, FinishFailed, FinishStopped, FinishCompleted, SaveCheckpoint,
                CheckpointRefused, wrapperVars
  <2> QED
    BY <1>6, <2>1, <2>2, <2>3
<1> QED
  BY <1>1, <1>3, <1>4, <1>5, <1>6 DEF RunNext

\* What a run has logged stays: an end of an activation, the end of the attempt
\* and its checkpoint; and with the attempt ended the log has no more to come.
RunNothingRevoked ==
  /\ \A i \in Ids : record[i] \in Outcomes => record'[i] = record[i]
  /\ attempt \in EndedAttempt => UNCHANGED <<attempt, record, status>>
  /\ checkpoint # NoCheckpoint => checkpoint' = checkpoint

\* The log of a run is final: what the log's operations never take back, the
\* runner never calls for either.
THEOREM RunLogIsFinal == RunSpec => [][RunNothingRevoked]_runVars
<1>1. RunInv /\ [RunNext]_runVars => RunNothingRevoked
  <2> SUFFICES ASSUME RunInv, [RunNext]_runVars PROVE RunNothingRevoked
    OBVIOUS
  <2>1. \A i \in Ids : record[i] \in Outcomes => record'[i] = record[i]
    BY RecordSteps DEF Outcomes
  <2>2. ASSUME fin \notin {"new", "running"}
        PROVE  /\ UNCHANGED <<record, status>>
               /\ attempt # "stop_requested" => attempt' = attempt
               /\ fin = "over" => checkpoint' = checkpoint
    <3>1. SaveCheckpoint \/ CheckpointRefused \/ UNCHANGED runVars
      BY <2>2, AfterTheScheduler
    <3> QED
      BY <3>1 DEF SaveCheckpoint, CheckpointRefused, runVars, schedulerVars, wrapperVars,
                  attemptVars
  <2>3. attempt \in EndedAttempt => fin \notin {"new", "running"}
    BY DEF RunInv, FinInv, EndedAttempt
  <2>4. checkpoint # NoCheckpoint => fin = "over"
    BY DEF RunInv, CheckpointInv
  <2> QED
    BY <2>1, <2>2, <2>3, <2>4 DEF RunNothingRevoked, EndedAttempt
<1> QED
  BY <1>1, RunInvariant, PTL DEF RunSpec

\* An attempt that has ended has no activation that runs, by the log or by the
\* scheduler.
EndedRunQuiet == attempt \in EndedAttempt => NothingLogged /\ Running = {}

\* The runner ends an attempt only when its wrappers are through (workflow/runner.ts):
\* no error, failure, stop or deadline makes it end one with a node still running.
THEOREM EndedRunsAreQuiet == RunSpec => []EndedRunQuiet
<1>1. RunInv => EndedRunQuiet
  <2> SUFFICES ASSUME RunInv, attempt \in EndedAttempt PROVE NothingLogged /\ Running = {}
    BY DEF EndedRunQuiet
  <2>1. SchedulerDone
    BY DEF RunInv, FinInv, EndedAttempt
  <2> QED
    BY <2>1, EndedLog DEF NothingLogged, SchedulerDone
<1> QED
  BY <1>1, RunInvariant, PTL

\* A node is aborted for a reason.  Before its own signal, or that of all nodes,
\* is aborted by a stop, an interrupt or the run-time limit, scheduling has
\* stopped; without one it is its own deadline; and when it is for the failure of
\* a sibling, that failure is the first reason there was to stop.
AbortsHaveReason ==
  /\ stopSeen \/ nodeAbort \/ interrupted # {} => cause # "none"
  /\ cause = "failfast" => Failed # {}
  /\ \A i \in Ids :
       /\ cut[i] = "node" => nodeAbort \/ i \in interrupted \/ node[i] \in DeadlineNodes
       /\ cut[i] = "failfast" => cause = "failfast"

\* The reason of the scheduler's signal is never replaced, and a failure gives
\* one only when an activation has failed.
LEMMA CauseSteps ==
  ASSUME RunInv, SchedulerStep
  PROVE  /\ cause # "none" => cause' = cause
         /\ cause' = "failfast" /\ cause = "none" => Failed' # {}
         /\ Failed # {} => Failed' # {}
<1>1. BootStart \/ BootHalted \/ ConsumeNext
  BY DEF SchedulerStep
<1>2. SchedulerInv /\ TypeOK /\ IdsInv
  BY DEF RunInv, SchedulerInv
<1>3. \A i \in Failed : status'[i] = "failed"
  BY <1>1, <1>2, SchedulerMoves DEF Moves, Failed
<1>4. Failed # {} => Failed' # {}
  BY <1>3 DEF Failed
<1>5. CASE BootStart \/ BootHalted
  BY <1>4, <1>5 DEF BootStart, BootHalted
<1>6. CASE ConsumeFailed
  <2>1. winner \in Ids /\ status' = [status EXCEPT ![winner] = "failed"]
    BY <1>2, <1>6, WinnerRuns DEF ConsumeFailed
  <2>2. status'[winner] = "failed"
    BY <1>2, <2>1 DEF TypeOK
  <2> QED
    BY <1>4, <1>6, <2>1, <2>2 DEF ConsumeFailed, Failed
<1>7. CASE ConsumeNext /\ ~ConsumeFailed
  BY <1>4, <1>7 DEF ConsumeNext, ConsumeAborted, ConsumeDiscarded, ConsumeHolding,
                    ConsumeContinuing
<1> QED
  BY <1>1, <1>5, <1>6, <1>7


\* What cutting a signal does: it takes the reason, if there was none yet.
LEMMA CutEffect ==
  ASSUME RunTypes, NEW is, NEW reason, Cut(is, reason), NEW i \in Ids
  PROVE  \/ cut'[i] = cut[i]
         \/ /\ i \in is /\ cut'[i] = reason
            /\ phase[i] \in {"executing", "verifying"} /\ cut[i] = "none"
BY DEF Cut, Listening

\* Only an activation under way has a completion signal.
HasSignal == \A i \in Ids : cut[i] # "unset" => phase[i] # "idle"

\* A wrapper takes its signal when it executes, and never goes back.
LEMMA HasSignalStep ==
  ASSUME RunInv, HasSignal, [RunNext]_runVars
  PROVE  HasSignal'
<1>1. RunTypes
  BY DEF RunInv
<1>2. ASSUME NEW i \in Ids PROVE phase'[i] = "idle" => phase[i] = "idle"
  <2>1. CASE StartRun \/ SignalNext \/ SchedulerStep \/ FinishNext \/ UNCHANGED runVars
    <3>1. CASE StartRun \/ SchedulerStep \/ UNCHANGED runVars
      BY <3>1 DEF StartRun, SchedulerStep, wrapperVars, runVars
    <3>2. CASE SignalNext
      BY <1>1, <3>2 DEF SignalNext, RequestStop, ObserveStop, StopDeadline, RuntimeLimit,
                        InterruptScheduling, Interrupt, NodeDeadline, AbortTimer, Enter,
                        RunTypes, wrapperVars
    <3>3. CASE FinishNext
      BY <3>3 DEF FinishNext, FinishFailed, FinishStopped, FinishCompleted, SaveCheckpoint,
                  CheckpointRefused, wrapperVars
    <3> QED
      BY <2>1, <3>1, <3>2, <3>3
  <2>2. ASSUME NEW k \in Ids, Catch(k) \/ WrapperNext(k)
        PROVE  phase'[i] = "idle" => phase[i] = "idle"
    <3>1. \E p \in Phases \ {"idle"} : phase' = [phase EXCEPT ![k] = p]
      BY <2>2 DEF Catch, WrapperNext, PromptResolved, PromptFails, PrepareFails, Execute,
                  OperationEnds, Verified, Return, Enter, Phases
    <3> QED
      BY <1>1, <3>1 DEF RunTypes
  <2> QED
    BY <2>1, <2>2 DEF RunNext
<1>3. ASSUME NEW i \in Ids PROVE cut'[i] = cut[i] \/ phase[i] # "idle"
  <2>1. CASE \E k \in Ids : Execute(k)
    BY <1>1, <2>1 DEF Execute, InPhase, RunTypes
  <2>2. CASE \E is, reason : Cut(is, reason)
    BY <1>1, <2>2, CutEffect
  <2>3. CASE StartRun \/ SignalNext \/ SchedulerStep \/ FinishNext \/ UNCHANGED runVars
    <3>1. CASE StartRun \/ SchedulerStep \/ UNCHANGED runVars
      BY <2>2, <3>1 DEF StartRun, SchedulerStep, wrapperVars, runVars
    <3>2. CASE SignalNext
      BY <2>2, <3>2 DEF SignalNext, RequestStop, ObserveStop, StopDeadline, RuntimeLimit,
                        InterruptScheduling, Interrupt, NodeDeadline, AbortTimer, wrapperVars
    <3>3. CASE FinishNext
      BY <3>3 DEF FinishNext, FinishFailed, FinishStopped, FinishCompleted, SaveCheckpoint,
                  CheckpointRefused, wrapperVars
    <3> QED
      BY <2>3, <3>1, <3>2, <3>3
  <2>4. ASSUME NEW k \in Ids, Catch(k) \/ WrapperNext(k)
        PROVE  cut' = cut \/ Execute(k)
    BY <2>4 DEF Catch, WrapperNext, PromptResolved, PromptFails, PrepareFails, OperationEnds,
                Verified, Return
  <2> QED
    BY <2>1, <2>3, <2>4 DEF RunNext
<1> QED
  BY <1>2, <1>3 DEF HasSignal

\* Every step keeps the reasons there are, and what aborts a node has one.
LEMMA AbortsHaveReasonStep ==
  ASSUME RunInv, HasSignal, AbortsHaveReason, [RunNext]_runVars
  PROVE  AbortsHaveReason'
<1>1. RunTypes /\ cause \in {"none", "stop", "failfast"}
  BY DEF RunInv, SchedulerInv, TypeOK
<1>2. /\ stopSeen \/ nodeAbort \/ interrupted # {} => cause # "none"
      /\ cause = "failfast" => Failed # {}
      /\ \A i \in Ids :
           /\ cut[i] = "node" => nodeAbort \/ i \in interrupted \/ node[i] \in DeadlineNodes
           /\ cut[i] = "failfast" => cause = "failfast"
  BY DEF AbortsHaveReason
<1>3. ASSUME UNCHANGED <<cut, signalVars, cause, node, status>>
      PROVE  AbortsHaveReason'
  BY <1>2, <1>3 DEF AbortsHaveReason, signalVars, Failed
<1>4. CASE \/ StartRun \/ RequestStop \/ FinishNext \/ UNCHANGED runVars
           \/ \E i \in Ids : Catch(i) \/ AbortTimer(i)
  <2>1. CASE StartRun \/ RequestStop \/ UNCHANGED runVars
    BY <1>3, <2>1 DEF StartRun, RequestStop, runVars, schedulerVars, activationVars, wrapperVars
  <2>2. CASE FinishNext
    BY <1>3, <2>2 DEF FinishNext, FinishFailed, FinishStopped, FinishCompleted, SaveCheckpoint,
                      CheckpointRefused, schedulerVars, activationVars, wrapperVars
  <2>3. ASSUME NEW i \in Ids, Catch(i) \/ AbortTimer(i)
        PROVE  AbortsHaveReason'
    BY <1>3, <2>3 DEF Catch, AbortTimer, schedulerVars, activationVars
  <2> QED
    BY <1>4, <2>1, <2>2, <2>3
<1>5. ASSUME NEW i \in Ids, WrapperNext(i)
      PROVE  AbortsHaveReason'
  <2>1. CASE PromptResolved(i) \/ PromptFails(i) \/ PrepareFails(i) \/ OperationEnds(i) \/ Verified(i)
    BY <1>3, <2>1 DEF PromptResolved, PromptFails, PrepareFails, OperationEnds, Verified,
                      schedulerVars, activationVars
  <2>2. CASE Return(i)
    BY <1>3, <2>2 DEF Return, Settle, activationVars
  <2>3. CASE Execute(i)
    <3>1. /\ UNCHANGED <<signalVars, cause, node, status>>
          /\ cut' = [cut EXCEPT ![i] = IF NodeSignalled(i) THEN "node"
                                       ELSE IF cause = "failfast" THEN "failfast"
                                       ELSE "none"]
      BY <2>3 DEF Execute, schedulerVars, activationVars
    <3>2. \A k \in Ids : \/ cut'[k] = cut[k]
                         \/ k = i /\ cut'[k] = "node" /\ (nodeAbort \/ k \in interrupted)
                         \/ cut'[k] = "failfast" /\ cause = "failfast"
                         \/ cut'[k] = "none"
      BY <1>1, <3>1 DEF RunTypes, NodeSignalled
    <3> QED
      BY <1>2, <3>1, <3>2 DEF AbortsHaveReason, signalVars, Failed
  <2> QED
    BY <1>5, <2>1, <2>2, <2>3 DEF WrapperNext
<1>6. ASSUME SignalStop
      PROVE  /\ cause' # "none" /\ (cause' = cause \/ (cause = "none" /\ cause' = "stop"))
             /\ UNCHANGED <<node, status>>
  BY <1>6 DEF SignalStop, StopSignalled, schedulerVars, activationVars
<1>7. CASE ObserveStop
  BY <1>2, <1>6, <1>7 DEF ObserveStop, wrapperVars, AbortsHaveReason, Failed
<1>8. CASE InterruptScheduling
  BY <1>2, <1>8 DEF InterruptScheduling, StopSignalled, activationVars, wrapperVars, signalVars,
                    AbortsHaveReason, Failed
<1>9. CASE StopDeadline \/ RuntimeLimit
  <2>1. /\ nodeAbort' = TRUE /\ Cut(Ids, "node")
        /\ UNCHANGED <<interrupted, stopSeen, node, status>>
        /\ cause' # "none" /\ (cause' = cause \/ cause = "none")
    <3>1. CASE StopDeadline
      BY <1>2, <3>1 DEF StopDeadline, schedulerVars, activationVars
    <3>2. CASE RuntimeLimit
      BY <1>6, <3>2 DEF RuntimeLimit
    <3> QED
      BY <1>9, <3>1, <3>2
  <2>2. \A i \in Ids : cut'[i] = cut[i] \/ cut'[i] = "node"
    BY <1>1, <2>1, CutEffect
  <2>3. cause' = "failfast" => cause = "failfast"
    <3>1. CASE StopDeadline
      BY <3>1 DEF StopDeadline, schedulerVars
    <3>2. CASE RuntimeLimit
      BY <1>6, <3>2 DEF RuntimeLimit
    <3> QED
      BY <1>9, <3>1, <3>2
  <2> QED
    BY <1>2, <2>1, <2>2, <2>3 DEF AbortsHaveReason, Failed
<1>10. ASSUME NEW i \in Ids, Interrupt(i)
       PROVE  AbortsHaveReason'
  <2>1. /\ SignalStop /\ interrupted' = interrupted \cup {i} /\ Cut({i}, "node")
        /\ UNCHANGED <<nodeAbort, stopSeen>>
    BY <1>10 DEF Interrupt
  <2>2. \A k \in Ids : cut'[k] = cut[k] \/ (k = i /\ cut'[k] = "node")
    BY <1>1, <2>1, CutEffect
  <2> QED
    BY <1>2, <1>6, <2>1, <2>2 DEF AbortsHaveReason, Failed
<1>11. ASSUME NEW i \in Ids, NodeDeadline(i)
       PROVE  AbortsHaveReason'
  <2>1. /\ node[i] \in DeadlineNodes /\ Cut({i}, "node")
        /\ UNCHANGED <<signalVars, cause, node, status>>
    BY <1>11 DEF NodeDeadline, schedulerVars, activationVars
  <2>2. \A k \in Ids : cut'[k] = cut[k] \/ (k = i /\ cut'[k] = "node")
    BY <1>1, <2>1, CutEffect
  <2> QED
    BY <1>2, <2>1, <2>2 DEF AbortsHaveReason, Failed, signalVars
<1>12. CASE SchedulerStep
  <2>1. /\ BootStart \/ BootHalted \/ ConsumeNext
        /\ UNCHANGED <<phase, signalVars>>
        /\ IF cause' = "failfast" /\ cause = "none" THEN Cut(Ids, "failfast")
           ELSE UNCHANGED cut
    BY <1>12 DEF SchedulerStep
  <2>2. \A i \in Ids : cut'[i] = cut[i] \/ (cut'[i] = "failfast" /\ cause' = "failfast")
    BY <1>1, <2>1, CutEffect
  <2>3. ASSUME NEW i \in Ids, cut'[i] = "node"
        PROVE  nodeAbort \/ i \in interrupted \/ node'[i] \in DeadlineNodes
    <3>1. cut[i] = "node"
      BY <2>2, <2>3
    <3>2. status[i] # "none"
      BY <3>1 DEF HasSignal, RunInv, StatusInv
    <3>3. node'[i] = node[i]
      BY <2>1, <3>2, SchedulerMoves DEF RunInv
    <3> QED
      BY <1>2, <3>1, <3>3
  <2>4. /\ cause # "none" => cause' = cause
        /\ cause' = "failfast" => Failed' # {}
    BY <1>2, <1>12, CauseSteps
  <2> QED
    BY <1>2, <2>1, <2>2, <2>3, <2>4 DEF AbortsHaveReason, signalVars
<1> QED
  BY <1>3, <1>4, <1>5, <1>7, <1>8, <1>9, <1>10, <1>11, <1>12 DEF RunNext, SignalNext

\* No node is aborted without a reason, whatever stops, interrupts, deadlines and
\* failures come together: aborts by a signal of the run only once nothing starts
\* any more, and fail-fast aborts only after a failure.
THEOREM AbortsAreReasoned == RunSpec => []AbortsHaveReason
<1>1. RunInit => HasSignal /\ AbortsHaveReason
  BY DEF RunInit, SchedulerInit, HasSignal, AbortsHaveReason
<1>2. RunInv /\ HasSignal /\ [RunNext]_runVars => HasSignal'
  BY HasSignalStep
<1>3. RunInv /\ HasSignal /\ AbortsHaveReason /\ [RunNext]_runVars => AbortsHaveReason'
  BY AbortsHaveReasonStep
<1> QED
  BY <1>1, <1>2, <1>3, RunInvariant, PTL DEF RunSpec

=============================================================================
