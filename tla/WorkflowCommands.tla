-------------------------- MODULE WorkflowCommands --------------------------
(***************************************************************************)
(* The operator's workflow commands of one session (slash-commands/helpers *)
(* /workflow.ts): start, restart, stop and interrupt, and the Esc key that *)
(* stops every attempt of this process, over the attempts the lifecycle    *)
(* log holds (workflow/lifecycle.ts) and the runs that execute them        *)
(* (workflow/runner.ts, detailed in WorkflowRun).                          *)
(*                                                                         *)
(* A start and a restart look at the log first, then await packages, the   *)
(* workspace and a runtime host, and call runWorkflow with what they saw.  *)
(* The operator may give other commands meanwhile, and a crash ends every  *)
(* run of the process while the log stays.                                 *)
(***************************************************************************)
EXTENDS Naturals, Sequences, FiniteSets, FiniteSetsExt

CONSTANTS
  Runs,         \* the run ids an operator uses, and the families of that name
  Launches,     \* the start and restart commands that may be under way at once
  MaxAttempts   \* bound: the attempts in the log

ASSUME CommandsAssumption ==
  MaxAttempts \in Nat \ {0} /\ "none" \notin Launches

\* An attempt of a start is called `${runId}:attempt-1`, one of a restart
\* attempt-N.
AttemptIds == ({"run"} \X Runs) \cup ({"attempt"} \X (1..MaxAttempts + 1))

\* No checkpoint, no entry in the map, and a command that is not under way.
None == 0
NoEntry == "none"
Idle == [phase |-> "idle"]

VARIABLES
  log,      \* the attempts in the order of their start, of all families
  launch,   \* what each start or restart has come to, and its run with it
  active    \* activeWorkflowAttemptMap: attempt id -> the launch that entered it

vars == <<log, launch, active>>

Entered(id) == active[id] # NoEntry

Positions == 1..Len(log)
OfFamily(f) == {i \in Positions : log[i].family = f}
IdsOf(f) == {log[i].id : i \in OfFamily(f)}

\* The attempt the run of launch c executes.
PositionOf(id) == CHOOSE i \in Positions : log[i].id = id
StatusOf(c) == log[PositionOf(launch[c].id)].status
SetStatus(c, status) ==
  log' = [log EXCEPT ![PositionOf(launch[c].id)].status = status]

RunsIn(phases) == {c \in Launches : launch[c].phase \in phases}
Live == RunsIn({"running"})

-----------------------------------------------------------------------------
\* start and restart

Prepare(c, id, family, from) ==
  /\ launch[c] = Idle
  /\ launch' = [launch EXCEPT ![c] =
       [phase |-> "preparing", id |-> id, family |-> family, from |-> from, told |-> FALSE]]
  /\ UNCHANGED <<log, active>>

\* start: refused if the run id is taken. The family is new, or the one
\* --family-id names.
Start(c, run, family) ==
  /\ \A i \in Positions : log[i].id # <<"run", run>>
  /\ Prepare(c, <<"run", run>>, family, None)

\* nextWorkflowRestartAttemptId
NextId(family) ==
  <<"attempt", Min({n \in Cardinality(OfFamily(family)) + 1 .. MaxAttempts + 1 :
                     <<"attempt", n>> \notin IdsOf(family)})>>

\* restart of the checkpoint of attempt k: refused if a resume of it runs.
Restart(c, k) ==
  /\ log[k].saved
  /\ \A i \in Positions : ~(log[i].from = k /\ log[i].status = "running")
  /\ Prepare(c, NextId(log[k].family), log[k].family, k)

\* No model, no runtime host, another workspace.
PrepareFails(c) ==
  /\ launch[c].phase = "preparing"
  /\ launch' = [launch EXCEPT ![c] = Idle]
  /\ UNCHANGED <<log, active>>

\* Mutant: an id is free if the family does not use it.
AvailableInFamily(l) == l.id \notin IdsOf(l.family)

\* assertWorkflowAttemptIdAvailable
Available(l) == \A i \in Positions : log[i].id # l.id

\* Mutant: a restart takes its id from the log as it is now.
RunStartsFresh(c) ==
  LET id == IF launch[c].from = None THEN launch[c].id ELSE NextId(launch[c].family) IN
  /\ launch[c].phase = "preparing" /\ Available([launch[c] EXCEPT !.id = id])
  /\ Len(log) < MaxAttempts
  /\ log' = Append(log, [id |-> id, family |-> launch[c].family, from |-> launch[c].from,
                         status |-> "running", saved |-> FALSE])
  /\ launch' = [launch EXCEPT ![c].phase = "running", ![c].id = id]
  /\ active' = [active EXCEPT ![id] = c]

\* runWorkflow logs the attempt, and the command enters it in the map.
RunStarts(c) ==
  /\ launch[c].phase = "preparing" /\ Available(launch[c])
  /\ Len(log) < MaxAttempts
  /\ log' = Append(log, [id |-> launch[c].id, family |-> launch[c].family,
                         from |-> launch[c].from, status |-> "running", saved |-> FALSE])
  /\ launch' = [launch EXCEPT ![c].phase = "running"]
  /\ active' = [active EXCEPT ![launch[c].id] = c]

\* runWorkflow throws, as the id is taken by now. A start, and a restart
\* whose family has an attempt of that name, enter themselves all the same
\* and leave the map as the error has been shown.
RunRejected(c) ==
  LET enters == launch[c].from = None \/ launch[c].id \in IdsOf(launch[c].family) IN
  /\ launch[c].phase = "preparing" /\ ~Available(launch[c])
  /\ launch' = [launch EXCEPT ![c] = IF enters THEN [@ EXCEPT !.phase = "leaving"] ELSE Idle]
  /\ active' = IF enters THEN [active EXCEPT ![launch[c].id] = c] ELSE active
  /\ UNCHANGED log

-----------------------------------------------------------------------------
\* The run of an attempt

\* The poll of the log finds a stop request (inspectStopRequest).
RunnerPolls(c) ==
  /\ c \in Live /\ StatusOf(c) = "stop_requested"
  /\ launch' = [launch EXCEPT ![c].told = TRUE]
  /\ UNCHANGED <<log, active>>

\* The run stops, as it was told to or as it came to a limit.
RunnerStops(c) ==
  /\ c \in Live /\ StatusOf(c) \in {"running", "stop_requested"}
  /\ SetStatus(c, "stop_requested")
  /\ launch' = [launch EXCEPT ![c].told = TRUE]
  /\ UNCHANGED active

RunnerFails(c) ==
  /\ c \in Live /\ StatusOf(c) \in {"running", "stop_requested"}
  /\ SetStatus(c, "failed")
  /\ UNCHANGED <<launch, active>>

\* Mutant: a checkpoint does not end its attempt.
SaveCheckpointRunning(c) ==
  /\ c \in Live
  /\ StatusOf(c) = "failed" \/ (StatusOf(c) = "stop_requested" /\ launch[c].told)
  /\ log' = [log EXCEPT ![PositionOf(launch[c].id)].saved = TRUE]
  /\ launch' = [launch EXCEPT ![c].phase = "leaving"]
  /\ UNCHANGED active

\* A stopped or failed run saves its checkpoint when the workspace is read.
SaveCheckpoint(c) ==
  /\ c \in Live
  /\ StatusOf(c) = "failed" \/ (StatusOf(c) = "stop_requested" /\ launch[c].told)
  /\ LET p == PositionOf(launch[c].id) IN
     log' = [log EXCEPT ![p].saved = TRUE,
                        ![p].status = IF @ = "failed" THEN "failed" ELSE "stopped"]
  /\ launch' = [launch EXCEPT ![c].phase = "leaving"]
  /\ UNCHANGED active

RunnerCompletes(c) ==
  /\ c \in Live /\ StatusOf(c) \in {"running", "stop_requested"}
  /\ SetStatus(c, "completed")
  /\ launch' = [launch EXCEPT ![c].phase = "leaving"]
  /\ UNCHANGED active

\* Mutant: a run that throws is not taken off the map.
RunnerThrowsForgotten(c) ==
  /\ c \in Live
  /\ launch' = [launch EXCEPT ![c] = Idle]
  /\ UNCHANGED <<log, active>>

\* The resources, a condition or the checkpoint throws.
RunnerThrows(c) ==
  /\ c \in Live
  /\ launch' = [launch EXCEPT ![c].phase = "leaving"]
  /\ UNCHANGED <<log, active>>

\* Mutant: the entries of the whole family go.
UnregisterFamily(c) ==
  /\ launch[c].phase = "leaving"
  /\ launch' = [launch EXCEPT ![c] = Idle]
  /\ active' = [id \in AttemptIds |->
       IF id \in IdsOf(launch[c].family) \cup {launch[c].id} THEN NoEntry ELSE active[id]]
  /\ UNCHANGED log

\* watchWorkflowAttemptCompletion: whatever the map has under the id goes.
Unregister(c) ==
  /\ launch[c].phase = "leaving"
  /\ launch' = [launch EXCEPT ![c] = Idle]
  /\ active' = [active EXCEPT ![launch[c].id] = NoEntry]
  /\ UNCHANGED log

-----------------------------------------------------------------------------
\* stop, interrupt, and Esc

\* stop: logged, and signalled to the run the map has under that id.
Stop(i) ==
  /\ log[i].status = "running"
  /\ log' = [log EXCEPT ![i].status = "stop_requested"]
  /\ launch' = IF Entered(log[i].id)
               THEN [launch EXCEPT ![active[log[i].id]].told = TRUE]
               ELSE launch
  /\ UNCHANGED active

\* interrupt of a node: the run is stopped too, and the log has no request.
Interrupt(i) ==
  /\ log[i].status = "running" /\ active[log[i].id] \in Live
  /\ launch' = [launch EXCEPT ![active[log[i].id]].told = TRUE]
  /\ UNCHANGED <<log, active>>

\* Esc (requestActiveWorkflowStopsForRuntime): every entry of the map.
StopAll ==
  /\ \E id \in AttemptIds : Entered(id)
  /\ log' = [i \in Positions |->
       IF Entered(log[i].id) /\ log[i].status = "running"
       THEN [log[i] EXCEPT !.status = "stop_requested"] ELSE log[i]]
  /\ launch' = [c \in Launches |->
       IF \E id \in AttemptIds : active[id] = c
       THEN [launch[c] EXCEPT !.told = TRUE] ELSE launch[c]]
  /\ UNCHANGED active

\* The process ends; the session is opened again in another.
Crash ==
  /\ launch' = [c \in Launches |-> Idle]
  /\ active' = [id \in AttemptIds |-> NoEntry]
  /\ UNCHANGED log

-----------------------------------------------------------------------------
Init ==
  /\ log = <<>>
  /\ launch = [c \in Launches |-> Idle]
  /\ active = [id \in AttemptIds |-> NoEntry]

RunnerStep(c) ==
  \/ RunnerPolls(c) \/ RunnerStops(c) \/ RunnerFails(c)
  \/ SaveCheckpoint(c) \/ RunnerCompletes(c) \/ RunnerThrows(c)

LaunchStep(c) ==
  \/ \E r, f \in Runs : Start(c, r, f)
  \/ \E k \in Positions : Restart(c, k)
  \/ PrepareFails(c) \/ RunStarts(c) \/ RunRejected(c) \/ Unregister(c)

Next ==
  \/ \E c \in Launches : LaunchStep(c) \/ RunnerStep(c)
  \/ \E i \in Positions : Stop(i) \/ Interrupt(i)
  \/ StopAll \/ Crash

\* Nothing has to happen: operators owe nothing, and a run may go on for ever.
\* That a logged stop ends the run that polls for it is in WorkflowRun.
Spec == Init /\ [][Next]_vars

-----------------------------------------------------------------------------
\* Properties

Attempt ==
  [id : AttemptIds, family : Runs, from : 0..MaxAttempts,
   status : {"running", "stop_requested", "stopped", "failed", "completed"}, saved : BOOLEAN]
UnderWay ==
  [phase : {"preparing", "running", "leaving"}, id : AttemptIds, family : Runs,
   from : 0..MaxAttempts, told : BOOLEAN]

\* Every variable has its type, and a run has its attempt in the log.
TypeOK ==
  /\ log \in Seq(Attempt) /\ Len(log) <= MaxAttempts
  /\ \A i \in Positions : log[i].saved => log[i].status \in {"stopped", "failed"}
  /\ launch \in [Launches -> UnderWay \cup {Idle}]
  /\ \A c \in Live : launch[c].id \in IdsOf(launch[c].family)
  /\ active \in [AttemptIds -> Launches \cup {NoEntry}]

\* No two attempts of the session have one id, though a restart numbers its
\* attempt within the family and long before it is logged (CHANGELOG: "Fixed
\* duplicate ... attempt ids").
AttemptIdsUnique == \A i, j \in Positions : log[i].id = log[j].id => i = j

\* Two attempts run from one checkpoint only if a start has joined their
\* family: a restart checks for a running resume long before it starts, and
\* only the id it took at that moment keeps a second one out.
Joins(k) == log[k].from = None /\ \E h \in 1..k - 1 : log[h].family = log[k].family
NoTwinResume ==
  \A i, j \in Positions :
    (i < j /\ log[i].from = log[j].from /\ log[i].from # None
       /\ log[i].status = "running" /\ log[j].status = "running")
    => \E k \in 1..i - 1 : log[k].family = log[i].family /\ Joins(k)

\* The map has no entry that nobody will take away: Esc and stop would take
\* it for a run of this process.
EntriesAreLive ==
  \A id \in AttemptIds : Entered(id) =>
    launch[active[id]].phase \in {"running", "leaving"} /\ launch[active[id]].id = id

\* A run is in the map from its start and stays there, unless a command that is
\* rejected in this step enters itself under the same id.
InMap(c) == active[launch[c].id] = c
RejectedUnder(id) ==
  \E d \in Launches : /\ launch[d].phase = "preparing" /\ launch'[d].phase = "leaving"
                      /\ launch'[d].id = id
EntriesKept ==
  \A c \in Live' : InMap(c)' \/ (c \in Live /\ ~InMap(c)) \/ RejectedUnder(launch'[c].id)

\* Esc and interrupt reach every run of the process, but one whose id a rejected
\* command has used: nothing else takes the entry of a run away or gives it to
\* another, whichever commands end, fail or are cleaned up late.
RunsKeepEntries == [][EntriesKept]_vars
=============================================================================
