# Verification of the workflow engine and its agents

oh-my-humanize is a coding agent whose *workflows* run a graph of nodes (agents,
tasks, scripts, human questions) as an attempt that can be stopped at a
checkpoint, changed and restarted, and whose sessions run *background jobs* and
*subagents* that outlive the turn that started them. This directory models these
in TLA+: the workflow scheduler, runner, lifecycle log and operator's commands;
the job manager with its delivery of results; a subagent's life and mail. TLC
checks the models on small instances. TLAPS proves their safety properties for every
value of their constants (the last of them, on joins in a loop, for every flow of one
shape), and that the runner implements the log and the agents a promise about messages.

Paths below are relative to `src/packages/coding-agent/src/` unless they start
with `src/`.

## The system's parts

| Part | State | Operations | Hard behaviour |
|---|---|---|---|
| **Lifecycle log** `workflow/lifecycle.ts` | session log entries, replayed into families: attempts, activations, checkpoints, freezes, change requests | start, stop request, activation start and end, complete, fail, checkpoint, restart, propose, approve, reject, apply | long sequences of legal calls; approvals and restarts that read state written long before |
| **Scheduler** `workflow/scheduler.ts` | queue, activations, completion order, join keys, frontier, abort signal | start what is ready, race the running activations, consume one, enqueue its children, collect the frontier | completions in any order, joins in loops, limits, a stop at any time |
| **Runner** `workflow/runner.ts` | abort controllers, completion signals, timers, the log of one attempt | run an activation around its node runtime; finish the attempt | node errors, sibling failures, stops, interrupts and three kinds of deadline race each other |
| **Commands** `slash-commands/helpers/workflow.ts`, `cli/workflow-cli.ts` | the map of active attempts, commands under way | `/workflow start, stop, interrupt, restart`, Esc | checks before awaits, several families, ids taken twice, crashes |
| Session and node runtimes `workflow/session-runtime.ts`, `*-runtime.ts` | none across activations | execute one node | slow, failing or deaf to their abort signal |
| State, patches, change files `workflow/state.ts`, `patches.ts`, ... | workflow state | apply patches, validate | data validation |
| Run store, observability | a second log and reports | append, render | none that the lifecycle reads back |
| Definition, freeze, packages, conditions | immutable definitions | parse, hash, look up, evaluate | pure |
| Liveness heuristic, workspace snapshots, graph view | none | diagnose, compare, render | pure or I/O |
| **Async jobs** `async/job-manager.ts`, `tools/job.ts`, `tools/bash.ts` | jobs, suppressed and watched ids, deliveries | register, cancel, poll, wait in the foreground, deliver, evict | an end that races a poll, a foreground wait, an eviction; failed deliveries |
| **Session queues** `session/yield-queue.ts` | results not yet shown to the model | enqueue, drain at a boundary, flush when idle | a result that comes as a turn ends or is aborted |
| **Agent loop, agent session** `session/agent-session.ts`, `src/packages/agent/src/agent-loop.ts` | turn, pending messages, post-prompt tasks | prompt, boundary, settle, abort, dispose | what is handed over between the last look and the end of a turn |
| **Task execution** `task/index.ts`, `task/parallel.ts`, `task/executor.ts` | spawn semaphore, the spawning run | acquire, release, resize, abort a waiter, finish | a limit that changes while spawns wait; a run that ends while its agent is used |
| **Messages between agents** `registry/*.ts`, `irc/bus.ts`, `tools/irc.ts` | registry entries, adoptions, timers, revivals, mailboxes | register, park, revive, release, send, wait, inbox | parking, reviving and killing overlap; two sessions on one transcript |
| Session storage, credentials, collaboration, protocol clients, goals, editing, memory, statistics, terminal, native crates | their own | their own | they share no state with the parts above |

`PROJECT.json` names the files of each part and says why the parts that are not
modelled are left out.

How they interact: a command calls `runWorkflow`; the runner appends the
attempt's start, calls `runWorkflowScheduler` and hands it one callback,
`executeAndPersistActivation`. The scheduler calls it for every activation it
starts and races the promises. The runner resolves prompt, script and model,
appends `activation_started`, awaits the node runtime under a completion signal,
appends the end, and settles the promise. Signals go the other way: a command,
a poll of the log, a timer or a failed sibling aborts the scheduler's signal,
the nodes' signal or that of one node. When the scheduler returns, the runner
appends `attempt_completed`, or `attempt_failed` or a stop request followed by a
checkpoint. A command restarts the checkpoint later, in the same freeze or in one
that an approved and applied change request authorises.

A spawned subagent is a background job: it queues for a permit of the spawn
semaphore, runs a session of its own, and its end goes through the job manager to
the yield queue of its owner's session. When its run is over the agent may stay in
the registry, idle, then parked, and a message on the bus revives it.

What makes each modelled part correct:

* log: an ended attempt has no running activation and never changes; a
  checkpoint agrees with the log for good; a restart comes from a settled
  checkpoint, is authorised, starts everything the frontier requires and skips no
  join; a change is applied only where it may be;
* scheduler: no ready work is lost, whatever the order of completions; a run is
  called complete only if it is; joins fire once per set of parents and within
  one iteration; after a stop nothing starts; it returns;
* runner: scheduler and log never disagree about an activation in a saved
  checkpoint; an attempt's status is earned; a stop ends the run; and what the
  runner appends is a behaviour of the log, whose append functions check nothing;
* commands: no attempt id is used twice in a session; a checkpoint is not resumed
  twice at once; the map of active attempts has no stale entry, and a run loses its own
  only to a rejected command of its id; a logged stop stays until the run ends;
* jobs: the agent learns of the end of every job, once; permits are neither leaked
  nor handed out past the setting; a spawn that waits gets its turn;
* agents: one session writes a transcript; an idle agent is on its way to being
  parked; a message is given to the agent once, and what was reported as delivered
  is not lost.

## Modules

```
WorkflowLifecycle <--- WorkflowLifecycle_proofs
   ^        ^
   |        +--------- MCWorkflowLifecycle
   | INSTANCE (refinement)
WorkflowRun <--------- WorkflowRun_proofs, MCWorkflowRun
   | EXTENDS
   v
WorkflowScheduler <--- WorkflowScheduler_proofs, MCWorkflowScheduler

WorkflowCommands <---- WorkflowCommands_proofs

AsyncJobs <----------- AsyncJobs_proofs
   ^ EXTENDS
AsyncResults <-------- AsyncResults_proofs, MCAsyncResults

Agents <-------------- Agents_proofs
                          | INSTANCE (refinement)
                          v
                       Delivery

Induction              lemmas that the proofs of the scheduler and the jobs share
```

A module whose name ends in `_proofs` is checked by TLAPS and extends the module it
is about (`WorkflowRun_proofs` also those of the scheduler, `AsyncResults_proofs`
those of the jobs); TLC checks the `MC` modules, or the module itself.

### WorkflowLifecycle

The code keeps no state between calls: every function rebuilds the family from
the log, checks, and appends one or two events. The state is therefore the
rebuilt family, and one action is one function, with its `throw`s as guards and
the replay of the appended event as its assignment. A call that throws changes
nothing. Change requests are numbered in order of proposal, because first match
wins wherever several approved requests apply. The freeze a request is judged by
(`FreezeFor`), the policies, the disposals and mappings of a request, the mapping saved in a
checkpoint (`SourceMapping`), the choice of a restart's start nodes
(`RestartTarget`) and the readiness of restarted joins are all computed as the
code does.

`appendActivationStarted` and the three functions that log an activation's end
check nothing. `BeginActivation` and `EndActivation` carry the guards that their
only caller keeps; `WorkflowRun` is proved to implement this module, so that
these guards are not just assumed.

### WorkflowScheduler

JavaScript runs a callback to its end, so an action is what the main loop does
between two awaits: the first start (`BootStart`, `BootHalted`) and the handling
of the activation that won `Promise.race` (`ConsumeAborted`, `ConsumeFailed`,
`ConsumeDiscarded`, `ConsumeHolding`, `ConsumeContinuing`). Starting all that is ready within the
limits is part of the step, as in the code. `Settle` and `StopSignalled` are the
environment. Which activation wins a later race over several settled promises is
as in JavaScript: the oldest. Joins follow `joinGenerationCandidates`,
`latestActivationInJoinGeneration` and `collectJoinParentIds` exactly,
breadth-first order included, because `JoinsOneIteration` depends on it.
Conditional edges hold or not by choice. The history variable `due` remembers
what each completion made ready.

### WorkflowRun

Extends the scheduler with the wrapper of an activation (its `phase`), the record
it leaves in the log, the completion signal (`cut`: which abort it saw first),
the signals and timers, and the end of the run. A `catch` block runs in the
callback that threw, so nothing else happens before it; a timer fires only when
no promise is about to settle. Other steps interleave freely. `Log` is the
refinement mapping to `WorkflowLifecycle`, with one attempt and no change request.

### WorkflowCommands

The operator's side of a session with several families. The log is a sequence of
attempts with the fields the commands look at; `active` is
`activeWorkflowAttemptMap`; `launch` holds each start or restart under way and the
run it becomes. A start and a restart check the log, take an id, and then await
packages, workspace and runtime host (`Prepare`); `RunStarts` is the synchronous
part of `runWorkflow` together with the entry in the map, which follows without an
await. `RunRejected` is the path the code takes when the id is in use by then: it
registers a promise that has already failed, and `Unregister` later removes whatever
the map has under that id. `Stop` logs and signals, `Interrupt` only signals,
`StopAll` is the Esc key. The run itself is reduced to what WorkflowRun shows of it.
`Crash` ends every run and empties the map; the log stays.

### AsyncJobs and AsyncResults

`AsyncJobs` is the job manager and the tools around it. An action is the code between
two awaits. `Suppressed` is `isDeliverySuppressed`: acknowledged or watched. The spawn semaphore is
exact, resizing included: the setting changes at any time (`ChangeLimit`) and is read
when a spawn acquires or returns a permit (`#getSpawnSemaphore`). Ids are registered
once; deliveries are a set, as backoff and order do not matter to the properties.

`AsyncResults` extends it with the session: the yield queue, the turn, and the
post-prompt task that flushes an idle queue. `HandOver` is `onJobComplete` after its
await, which looks again whether the delivery is suppressed.

### Agents

One subagent through its sessions, with the peers that write to it. An action is one
turn of the event loop; when a promise has settled, the code after its `await` runs
before anything else (`Resumes`), so only waits for something outside interleave.
`ref` is the registry's entry; `adopted`, `timer`, `parks`, `releases` and
`revival` are `AgentLifecycleManager`; `run` is the spawning task's path through
`finalizeSubagentLifecycle`; `sess` and `turn` are the sessions; the other variables
are messages: pending in a session, in the mailbox, waited for, or with `send`.
A revival opens the transcript, registers and attaches in separate steps, and may
fail after each.

`Delivery` is the abstract specification of the bus, without registry, sessions and
wakings: where a message is (with its sender, the session, the mailbox, the agent, or
lost) and what its sender was told. `Agents_proofs` maps the variables of `Agents` to
these two and proves that every step is one of its steps or a stutter.

## Runs

| Run | Instance | Shows |
|---|---|---|
| `lifecycle` | two attempts (`OneFreshStart`: at most one starts afresh, the other resumes it), one activation each, three nodes, two freezes that rename a node, one change request, policies that differ by freeze; symmetry over attempts and activations | type, quiet settled attempts, faithful checkpoints, lineage, joins and frontier of restarts, applications; the action property that nothing logged is revoked |
| `scheduler` | a loop S -> A, B -> J -> S or C, a duplicate conditional edge into the join J, a `checkpoint: after` node, at most nine activations and two per node, a stop at any time | no work lost, completion earned, restartable checkpoints, joins once and within one iteration, stops hold, the scheduler returns |
| `run` | S -> A and, on a condition, B; J joins them but is over the limit of three; A is read-only, B has a deadline | exact checkpoints, earned status, the refinement of the log, and the end of every stopped run |
| `commands` | two starts or restarts at a time, two run ids and families, three attempts, errors and crashes at any time | unique ids, no twin resumes, no stale entries in the map; the action property that a run loses its entry only to a rejected command of its id |
| `async_jobs` | three spawns, two jobs may run, the setting moves between one and two, one failed delivery | permits accounted for, the limit respected by waiters, every spawn gets its turn |
| `async_results` | a bash command and a spawn without a limit, two polls, one failed delivery, evictions, turns cut and aborted; symmetry over polls | no result lost, none shown twice |
| `agents` | two peers with a message each, a mailbox of one, three sessions | one writer, timers, messages kept, no mail behind a wait, no poisoned reviver, and that peers are heard |
| `async_stranded` | one bash command | **violated**: `NoResultStranded` |
| `retry_join` | A may send the flow back to S while B runs | **violated**: `JoinsOneIteration` |
| `run_stop` | as `run` | **violated**: `StopIsAnswered` |
| `run_failure` | as `run`, restricted to runs that nobody stops and in which no two callbacks race (`UnhurriedSpec`) | **violated**: `FailureIsCheckpointed` |
| `run_hang` | as `run`, but no runtime ever has to answer | **violated**: `StopEndsRun` |

Bounds. In `lifecycle` every guard relates at most an attempt, its source, one
checkpoint and one request, and two freezes are what it takes to change and
to rename; chains of restarts end at length two here, and have no bound in the
proofs. In `scheduler`, two rounds of the loop are what it takes to mix rounds; `MaxId`
never binds, the limits do. In `run` two activations run side by side, which is
what the races between a sibling, a stop and a deadline need. In `commands` two
commands race for one id, and three attempts are a checkpoint and its two resumes or
two families and a restart; the proofs have no such bounds. In `async_jobs` three
spawns at a limit of two leave one waiting, and a limit lowered to one while two hold
permits is where a stale limit would show; in `async_results` two polls are what it
takes to watch a job twice. In `agents` three sessions
let a parked agent be revived, parked and revived again, and a mailbox of one makes
the cap bind. Every property of a passing run has a
mutant in `PROJECT.json`: a plausible bug, kept beside the definition it
mutates, that makes TLC find that property violated.

Deadlock checking is off where the system really stops: the scheduler has
returned, the run is over, all ids of the log, jobs, sessions or messages are used up.

Fairness. `SchedulerFairSpec` assumes that the event loop resumes the scheduler
and that each node runtime answers in the end. `RunFairSpec` assumes less: the
event loop goes on, prompts and scripts resolve, workspace comparisons return,
timers fire, the poll of the log sees a stop request; node runtimes need not
answer. `StopEndsRun` fails there (`run_hang`), and holds under
`CooperativeSpec`, which adds that a runtime answers after it was aborted because a
sibling failed, the one case in which the runner waits for it without a timer.
Two conjuncts are weak fairness with its `ENABLED` written out (`Consumable`,
`Resumable`), since the enabled states of those steps are exactly known and TLC
need not search for them.

`commands` assumes nothing: operators owe nothing and a run may go on for ever. That a
run finds a logged stop by polling, and ends, is `StopEndsRun` of `run`. `async_jobs`
assumes that a spawn that has its permit resumes and that its run ends. `agents`
assumes that code after a settled await runs, that a turn that is due starts, that the
loop polls for messages while it waits, and that a turn reaches a boundary or its end
however often the agent waits in between (strong fairness: a batch of tool calls is
finite). Timers, users, peers, disposal and revival owe nothing.

## What the violated runs show

* `retry_join`: the join takes one input from the second round and one from the
  first. The changelog says a later loop iteration cannot do that
  (`src/packages/coding-agent/CHANGELOG.md:2628`). The candidates for the common
  generation exclude earlier inputs of the join but not the start node that both
  rounds descend from. In the flow of the run `scheduler`, where the loop passes
  through the join, the property holds, and it is proved for every flow of that shape
  (`LoopsJoinOneIteration`); here A leads back too, past the join. What no flow breaks is
  proved as well: a join has a completed input for every node it waits for
  (`InputsAreCompleted`), and they have an origin in common (`JoinsCombineRelated`),
  which is less than one iteration.
* `run_stop`: a stop is pending and a node fails. The runner logs a failure, the
  scheduler counts an abort, `createWorkflowCheckpoint` compares the two and
  throws. The attempt stays `stop_requested` without a checkpoint.
* `run_failure`: a read-only node's workspace is being compared while a sibling
  fails. Its output is logged as completed, the scheduler discards it as aborted,
  and the checkpoint of the failed attempt throws. The wrapper looks for the abort
  before the comparison, which captures the workspace with git and takes its time, and
  not after it (`workflow/runner.ts:507-511`). `UnhurriedSpec` leaves the comparison the
  only way to this end: there is no stop, limit or deadline, and an outcome that is
  logged reaches the scheduler before anything else happens. Without these restrictions
  two siblings also get there whose ends are a few callbacks apart: the second is logged
  as failed or completed before the scheduler consumes the first's error, and settles
  after it. So does an operation that the run-time limit or a stop deadline aborts, after a sibling
  failed but before its own start, and that ends with an output all the same.
* `run_hang`: after a sibling's failure no timer bounds the wait for a runtime,
  and a later stop deadline does not reach it.

* `async_stranded`: `YieldQueue.enqueue` schedules a flush only when the session is
  not streaming (`session/yield-queue.ts:67`), and streaming covers the whole prompt
  call. A result that is handed over after the loop's last look at the queue, or during an abort,
  stays there with nothing to wake the session; an abort also cancels a flush that
  was scheduled. The documentation says that results are delivered the moment they
  finish (`prompts/tools/job.md:3`).

Of the runner, the passing run keeps the other half: a run rejects only if an activation failed
(`RejectionNeedsFailure`), and whenever a checkpoint is saved it is exact.

Some claims one might expect were not stated because the code does not make them good.
They came up in modelling, and the comments and hazards name them:

* with two families in a session, once one has an `attempt-2` every restart of the
  other computes that id and is rejected (`slash-commands/helpers/workflow.ts:1089`);
* a rejected command takes the map's entry of the run whose id it wanted, and Esc and
  interrupt no longer reach that run (`:1661`); `RunsKeepEntries` shows that nothing
  else takes an entry. The stop command reaches the run through the log, which keeps
  the request until the run ends (`AttemptsMoveForward`);
* the check for a running resume looks for the status `running` only, so a second
  resume may start while one that was told to stop is still ending;
* an attempt that a crash left `running` keeps its checkpoint's restart refused
  until an operator stops it;
* killing an agent does not cancel a revival in flight, which registers it again or
  attaches its session to nothing (`registry/agent-lifecycle.ts:231`);
* a send that meets a revival which has registered but not attached is refused
  (`irc/bus.ts:143`), with a failed receipt;
* an idle timer may be armed under a working agent (`task/executor.ts:1921`,
  `task/persisted-revive.ts:117`), and an isolated run unregisters an agent that a
  message has woken, where it would park an idle one.

## What is proved

`WorkflowLifecycle_proofs` proves, for every value of the constants that satisfies
`ConstantsAssumption` (any sets of attempts, activations, nodes and freezes, finite
or not; any flows, policies, migrations and mappings; any number of requests):

| Theorem | Property |
|---|---|
| `TypeCorrect` | `TypeOK` |
| `LogFinal` | `LogIsFinal`, nothing logged is revoked |
| `SettledQuiet` | `SettledIsQuiet` |
| `CheckpointsFaithful` | `CheckpointFaithful` |
| `AppliedSettled` | `AppliedWasSettled` |
| `RestartsHaveLineage` | `RestartLineage` |
| `ResumedJoinsReady` | `JoinsNotSkipped` |
| `FrontierResumed` | `ResumesFrontier` |

The argument. `TypeOK` is inductive; `AttemptKeepsType` and `RequestKeepsType` go
through the actions, resting on lemmas about the operators
(`SourceMappingType`, `RestartTargetLands`, `RestartNodesType`, and `FirstIsOne`,
which needs the least element of a set of naturals). The log only grows:
`StepsOnlyAdd` says which components a step may change and in which direction,
and gives `LogFinal`. The
other invariants are inductive relative to `TypeOK` and, where a checkpoint is
involved, to `CheckpointFaithful`: what an invariant says of an existing
checkpoint, resumed attempt or application survives because the log only grows
(`AuthorisingKept`, `ResumedOrKept`), and what it says of a new one is the guard
of the one action that creates it (`NewCheckpoint`, `NewSource`,
`NewApplication`, `Resuming`). `OriginsKept` says that the source, the start and
the freeze of an attempt never change once it is resumed.

`WorkflowCommands_proofs` proves, for any sets of run ids and commands (assuming
`CommandsAssumption`: a positive bound on the log, and that the mark of an empty map
entry is no command):

| Theorem | Property |
|---|---|
| `CommandsTypeCorrect` | `TypeOK` |
| `EntriesLive` | `EntriesAreLive` |
| `AttemptIdsStayUnique` | `AttemptIdsUnique` |
| `NoTwinsRun` | `NoTwinResume` |
| `AttemptsMoveForward` | an attempt keeps id, family, source, checkpoint and final status and never runs again; what no run serves only ever gets a stop request (`NothingUndone`, an action property) |
| `EntriesAreKept` | `RunsKeepEntries`: a run loses its entry in the map only to a rejected command of its id |
| `OneRunPerAttempt` | two runs never execute one attempt (`RunsApart`) |

The argument. Every step either starts one run or leaves ids, families and sources of
the log as they are (`FamiliesKept`, `FamilyGrows`). `BaseInv` adds to the types and
the map that no restart in a family has a number beyond the family's size
(`IdsCounted`), so that the next number is exactly the size plus one
(`NextIdFollows`), and that a restart under way has a number its family could have
had since (`NumbersInReach`). `NoTwinResume` is not inductive: at the moment the
second resume starts, all that keeps it out is that its number is in use, which
`TwinsBarred` says of every restart under way. That in turn holds because a family
that no start has joined uses all numbers from two to its size (`NumbersUsed`): when
the first resume starts, it takes the last free number a twin can hold. A start that
joins a family adds to its size and takes no number; `NoTwinResume` names that
exception, and the proof shows it is the only one.
`RunsApart` needs the same base: a live run has an attempt in the log, and a run starts
only under an id that the log does not have. `RunsKeepEntries` is about the commands
that clean up: each takes away whatever the map has under its id. `EntriesApart` says
that a run in the map shares its id with no such command. It is inductive because what
such a command ran or wanted to run is in the log (`LeavingLogged`), so that no run
starts under its id any more, and because runs are apart.

`WorkflowScheduler_proofs` proves, for any flow (cyclic or not, with any joins and any
duplicate edges), seed, start nodes and limits. It assumes the three assumptions of
the module: `GraphAssumption` types the flow, `BoundsAssumption` the limits and the
seed, and `StartAssumption` says that there is a start node and room for the ids of
the first activations.

| Theorem | Property |
|---|---|
| `SchedulerTyped` | `TypeOK` |
| `WorkIsNeverLost` | `NoWorkLost` |
| `CompletedIsAllDone` | `CompletedMeansAllDone` |
| `CheckpointsAreRestartable` | `CheckpointIsRestartable` |
| `JoinsOnce` | `JoinOnce` |
| `StopsAreQuiet` | `StopHolds` |
| `InputsAreCompleted` | a node never runs without its inputs (`InputsCompleted`) |
| `LoopsJoinOneIteration` | `JoinsOneIteration`, for a `ForkJoinLoop` that is `FreshFrom` its start |
| `AncestorsAreReachable` | the walk over ancestors finds exactly what parents lead to, each once |
| `ParentsComeFirst` | parents are completed and older (`ParentsOlder`) |
| `JoinsCombineRelated` | what a join combines has an origin in common (`JoinsShareOrigin`) |
| `AncestorsComeFirst` | no activation descends from itself or a later one, given `SeedIsOlder` |
| `CheckpointsAreOlder` | a restart of the attempt's checkpoint satisfies `SeedIsOlder` again (`CheckpointIsOlder`) |

The argument. None of the properties is inductive: `NoWorkLost` and the two on the end
of a run speak of the moment when nothing runs any more. `SchedulerInv` says what holds
before. `IdsInv`: ids are given in order, so an id is new exactly if it is not below
`next`. `JoinInv`: the join keys are those of the joins that were activated, and each
key was activated once. `StopInv`: scheduling stops for a reason, and what was queued
then is in the frontier. `WorkInv`: what a completion made ready is in the frontier or
was activated, and so is a node that was aborted, unless one failed. `LimitInv`: if an
activation stays queued without a frontier, a limit keeps it out now. That last fact is
the delicate one. The flag `limitReached` is never reset, and it is still true of the
present: what a limit once kept out it keeps out when more has begun
(`StartReadyEffect`). A run that ends with something queued therefore has a reason for
a checkpoint, and its frontier is not empty.

Under the steps lie lemmas about the pure part: `Ready`, the joins and the ancestors of
an activation, which the code collects breadth first (`ReadyType`, `LatestIsOfNode`,
`JoinParentsFed`), and the numbering of new activations, where `Rank` counts the
new ids before one (`ContinuingEffect`). `InputsCompleted` rests on `FedInv`: nothing
but a completed activation enters `done`, an activation keeps its node and parents
(`SchedulerMoves`), and a join is made ready only with a completed parent for every
node of its `waitFor`.

`AncestorsAreReachable` follows the walk stage by stage: what it has found is within
every set closed under parents, and the parents of what it has looked up are found; as it
repeats nothing, it has looked up all of it after `MaxId` stages. From then on
a proof need not look at the walk: that a set of activations is closed is enough.
`SeedIsOlder` says that the activations of the checkpoint have their parents before the
first id of the attempt. An attempt that restarts none satisfies it trivially. The
checkpoint of one that satisfies it lists activations of that attempt only, and for a
restart from these `CheckpointsAreOlder` proves it again; so it holds in
a chain of restarts of any length.

`LoopsJoinOneIteration` says for which flows a loop is safe. `ForkJoinLoop(S, J)`: S forks
to the nodes the only join J waits for, nothing else leads to these or to J, and
only J leads back to S. Any further nodes, edges and conditions are allowed, with any
number of branches and of iterations. `FreshFrom(S)`: the attempt starts at S and
restarts none. `MCWorkflowScheduler` has TLC evaluate both for the flow of the run
`scheduler`. The invariant is `LoopInv`, and its core `OneFork`: what an activation of J
combines are children of one activation of S. It is inductive only together with `OneEach`,
which says that an activation forks once to every branch. Suppose a branch ends and makes J ready. The walk
over its ancestors finds its fork first, then the J before, then an
input of that (`FirstFound`), where the code cuts off the candidates
(`GenerationsBefore`). So the common generation is the fork or the J before it; and
among the branches nothing but the fork's own descends from either (`OpenFork`), because
J cannot have joined a fork with an open branch. Here the breadth-first order matters:
were the start node found before the cut, the rounds would mix as in `retry_join`.

`WorkflowRun_proofs` proves, under the same assumptions and `NodesAssumption` (the
names that stand for the attempt, its freeze and their absence are no nodes):

| Theorem | Property |
|---|---|
| `RunSchedules` | `RunSpec => SchedulerSpec`: the scheduler's theorems hold in every run |
| `RunTyped` | `RunTypeOK` |
| `CheckpointsExact` | `CheckpointExact` |
| `StatusIsEarned` | `StatusEarned` |
| `RejectionsNeedFailure` | `RejectionNeedsFailure` |
| `RunImplementsLog` | `LogSpec`: a run is a behaviour of `WorkflowLifecycle` |
| `RunLogIsFinal` | what is logged stays (`RunNothingRevoked`, an action property) |
| `EndedRunsAreQuiet` | an ended attempt has no running activation (`EndedRunQuiet`) |
| `AbortsAreReasoned` | a signal is cut only for a reason there is (`AbortsHaveReason`) |

The argument. An activation is described four times: by the wrapper's phase, the log's
record, what its promise settled with, and the scheduler's status. `PhaseInv` relates
the first three and `StatusInv` the fourth. They may differ in two ways only: a
node that fails while a stop is pending is logged as failed and settles as aborted,
and an output that comes after a sibling's failure is logged as completed and
discarded. In either some node failed, hence `RejectionsNeedFailure`. `FinInv` ties the
status of the attempt to how far the run is, and `CheckpointInv` says that a
checkpoint is saved exactly when a run ends otherwise than completed, with what the
scheduler ended with. The steps split into those of the wrappers, the signals, the
scheduler and the end.
For the refinement each step is mapped to the operation of the log it appends
(`LogBegins`, `LogStarts`, `LogAttemptEnds`, `LogCheckpoints`, `LogEnds`) or to a
stutter (`LogStep`); there the wrappers' discipline discharges the guards that
the log's append functions leave to their caller. The refined log has one attempt
and no change request, as a run has. `RunLogIsFinal` and `EndedRunsAreQuiet` follow from
`RunInv`; `AbortsHaveReason` is an invariant of its own, with the lemma that only an
activation that has begun has a signal to cut (`HasSignal`).

`AsyncJobs_proofs` and `AsyncResults_proofs` prove, for any jobs and polls and any
settings of the limit (assuming `JobAssumption`):

| Theorem | Property |
|---|---|
| `ManagerTyped` | `ManagerTypeOK`, the manager's part of the types |
| `PermitsAlwaysAccounted` | `PermitsAccounted` |
| `WaitersAlwaysRespectLimit` | `WaitersRespectLimit` |
| `Typed` | `TypeOK` of `AsyncResults` |
| `NoResultEverLost` | `NoResultLost` |
| `AlwaysSeenOnce` | `SeenOnce` |
| `JobsOnlyMoveOn` | jobs end once, results enter the pipeline then and leave it when seen or reported (`JobsMoveOn`, an action property) |
| `InOnePlace` | a result is in one place of the pipeline (`OncePerPipeline`) |

The argument. Permits: the queue holds exactly the spawns whose phase is waiting, once
each, so that a grant, a cancellation and a change of the setting move a spawn between
the queue and the holders without losing it. Granting takes the first waiters of a
queue, as many as there is room (`PrefixAndRest`, `Admission`). Results: each
is in at most one place of the pipeline `deliveries`, `inFlight`, `entries`
(`OncePerPipeline`); a suppressed delivery has a foreground wait or a report that stands
for it (`SuppressedForAReason`), and a watched job has a poll that will report it
(`WatchedByAPoll`), so nothing is suppressed for nobody. What was seen cannot enter the
pipeline again (`SeenIsSettled`); the one window, a foreground wait that has reported a
command whose job still counts as running, is `SeenWhileRunning`.

`Agents_proofs` proves, for any peers and messages, any number of sessions and any
mailbox size (assuming `AgentsAssumption`):

| Theorem | Property |
|---|---|
| `Typed` | `TypeOK` |
| `AlwaysOneWriter` | `OneWriter` |
| `IdleAlwaysTimed` | `IdleIsTimed` |
| `NeverAPoisonedReviver` | `NoPoisonedReviver` |
| `MessagesAlwaysKept` | `MessagesKept` |
| `NeverMailBehindAWait` | `NoMailBehindAWait` |
| `DeliveryImplemented` | `PromiseKept`: `Agents` implements `Delivery` |
| `AnswersAreFinal` | what senders were told and the agent was given stays (`NothingTakenBack`, an action property) |

The argument. Sessions are created one after another and every one but the last is
disposed (`SessionsInv`), so `OneWriter` is the question when the next one may be
created: while a revival opens its transcript the agent has no session at all and
nothing is parked or released (`RevivalAlone`), and while the spawning task goes on
nobody parks or revives (`RunOwnsAgent`). Messages: a message is pending only in the
live session that is registered (`PendingRegistered`), it is pending, in the mailbox or
heard and never two of these (`OnePlace`), and what its sender was told says which
(`ReceiptsTell`). With these, `Place` is a function of the state, and the refinement goes
through the actions: a failed revival refuses all sends that joined it in one step, and a
turn that starts or looks at its mailbox hears several messages in one.

`Induction` has what the proofs about recursive functions share: induction over a set
of numbers, up to a bound too, and that a recursion over `0 .. m` defines a function
(`RecursionExists`). With these the proofs reason about `Without`, `AppendNew` and the
breadth-first walk over ancestors as they are defined, recursion included.

Only model-checked:

* liveness and fairness (`SchedulerReturns`, `StopEndsRun`, `SpawnsGetTheirTurn`,
  `PeersAreHeard`), which are beyond the prover;
* `JoinsOneIteration` outside `ForkJoinLoop` and `FreshFrom`. `retry_join` refutes it for
  flows in general. Whether it holds for nested loops, for several joins and in restarted
  attempts is open.

## What is not modelled

* Patches, schemas and values of workflow state; the values of conditions. A
  patch that does not apply or an invalid output is a failure of its activation.
  A condition that throws is not modelled: it rejects the scheduler.
* Where a checkpoint is saved the code first captures the workspace; here that
  is one step. A capture that fails is not modelled.
* In `WorkflowRun`, crashes and several families; `WorkflowCommands` has both, with the
  run abstracted.
* Commands: the flush of the log between a logged stop and the abort is one step with
  both, and a crash loses no entry that was logged; freeze, inspect and the manager
  change no attempt; change requests are in `WorkflowLifecycle`.
* Jobs: disposal and draining against a deadline, the growing window of repeated
  polls, and an id registered again after its eviction. The drain of the queue and the
  injection of what it held are one step. The code can lose what it has drained between
  the two: when the prompt of an idle flush rejects (`session/yield-queue.ts:101`), and
  when the loop's deadline has passed as it comes to its pending messages
  (`agent/src/agent-loop.ts:790`). `NoResultLost` does not speak of either.
* Agents: one-shot helpers, a time to live of zero, adoption without a reviver, sends
  that do not drain, several waits at once, steering by the parent, plan mode,
  automatic replies, advisors, the disposal of the main session's registry, and the
  failure of setting tools after a cold revival. Nor turns that the idle flush of the
  yield queue starts: they go to `agent.prompt` directly
  (`session/agent-session.ts:2165`) and do not pass `#beginInFlight` and `#endInFlight`,
  whose end resumes for messages that came after the loop's last look. `PeersAreHeard`
  is about the turns that do.
* Draft files: applying a request to a draft is logged but no operation reads it.
* Everything listed as `not_modelled` in `PROJECT.json`.

## Plan

Modelled so far, in this order: the lifecycle log, scheduler and runner; then jobs and
results, agents, and commands. What is left:

1. **Proofs.** Every safety property of a passing run is proved, `JoinsOneIteration` for
   fork-join loops. Left: the largest class of flows whose joins stay within an
   iteration (several joins, nested loops), the same for restarted attempts, and the ids
   of activations over a chain of restarts.
2. **WorkflowRestart**: a chain of attempts, each a scheduler seeded from the
   checkpoint before it. Is work of the first attempt kept after two stops; does an
   aborted sibling of a failed node run again; does a join ever fire without its
   inputs. Abstract specification: the chain computes what one uninterrupted run may.
3. **Conditions and patches**: a condition that throws; graph patches as operators,
   checked against a definition of a well-formed flow.
4. **Compaction and retries** of a session: what a turn that is compacted or retried
   keeps of steering messages and results.
