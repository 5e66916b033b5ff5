----------------------------- MODULE AsyncJobs -----------------------------
(***************************************************************************)
(* Background jobs (async/job-manager.ts) and the tools that start, watch  *)
(* and cancel them: bash commands, which may be waited for in the          *)
(* foreground (tools/bash.ts), agent spawns, which queue for a permit of   *)
(* the spawn semaphore (task/index.ts, task/parallel.ts), and the polls of *)
(* the job tool (tools/job.ts).                                            *)
(*                                                                         *)
(* A job that ends has its result delivered to the session, unless a tool  *)
(* call has reported it (acknowledged) or is going to (watched).  Polls    *)
(* and foreground waits belong to any agent that shares the manager, so    *)
(* they interleave with each other and with the session's own turn.        *)
(*                                                                         *)
(* An action is the work between two awaits.  Deliveries are a set: their  *)
(* order and the backoff between retries do not matter here.  An id is     *)
(* registered once.                                                        *)
(***************************************************************************)
EXTENDS Naturals, FiniteSets, Sequences

CONSTANTS
  Bash,          \* jobs of type "bash"
  Spawn,         \* jobs of type "task"
  Poll,          \* calls of the job tool that may wait at the same time
  MaxRunning,    \* maxRunningJobs
  Limits,        \* values the setting task.maxConcurrency takes; 0: unlimited
  MaxFailures    \* bound on failed deliveries

Job == Bash \cup Spawn

ASSUME JobAssumption ==
  /\ Bash \cap Spawn = {}
  /\ IsFiniteSet(Job)
  /\ MaxRunning \in Nat \ {0}
  /\ Limits \subseteq Nat /\ Limits # {}
  /\ MaxFailures \in Nat

VARIABLES
  status,      \* status[j]: "none" until registered
  phase,       \* phase[j]: how far the job's run function has come
  known,       \* the keys of #jobs
  suppressed,  \* #suppressedDeliveries
  watched,     \* #watchedJobs
  deliveries,  \* #deliveries
  inFlight,    \* #inFlightDeliveries
  tracked,     \* tracked[p]: the jobs a waiting poll will report, {} if none
  watching,    \* watching[p]: those it put in #watchedJobs
  foreground,  \* the bash jobs a foreground wait has not ended for
  limit,       \* the setting task.maxConcurrency
  max,         \* the semaphore's #max, as a limit
  current,     \* the semaphore's #current
  waiters,     \* the semaphore's #queue
  failures,    \* failed deliveries so far
  seen         \* history: whether the agent has learnt of the job's end

jobVars == <<status, phase, known>>
deliveryVars == <<suppressed, watched, deliveries, inFlight, failures>>
toolVars == <<tracked, watching, foreground, seen>>
permitVars == <<limit, max, current, waiters>>
managerVars == <<jobVars, deliveryVars, toolVars, permitVars>>

Phases == {"none", "waiting", "granted", "executing", "output", "ended"}
Learnt == {"no", "once", "again"}

ManagerTypeOK ==
  /\ status \in [Job -> {"none", "running", "completed", "failed", "cancelled"}]
  /\ phase \in [Job -> Phases]
  /\ known \subseteq Job
  /\ suppressed \subseteq Job
  /\ watched \subseteq Job
  /\ deliveries \subseteq Job
  /\ inFlight \subseteq Job
  /\ tracked \in [Poll -> SUBSET Job]
  /\ watching \in [Poll -> SUBSET Job]
  /\ foreground \subseteq Bash
  /\ limit \in Limits
  /\ max \in Limits
  /\ current \in 0 .. Cardinality(Job)
  /\ waiters \in Seq(Spawn)
  /\ failures \in 0 .. MaxFailures
  /\ seen \in [Job -> Learnt]

ManagerInit ==
  /\ status = [j \in Job |-> "none"]
  /\ phase = [j \in Job |-> "none"]
  /\ known = {}
  /\ suppressed = {}
  /\ watched = {}
  /\ deliveries = {}
  /\ inFlight = {}
  /\ tracked = [p \in Poll |-> {}]
  /\ watching = [p \in Poll |-> {}]
  /\ foreground = {}
  /\ limit \in Limits
  /\ max = limit
  /\ current = 0
  /\ waiters = << >>
  /\ failures = 0
  /\ seen = [j \in Job |-> "no"]

Elements(s) == {s[k] : k \in 1 .. Len(s)}
Least(m, n) == IF m <= n THEN m ELSE n

Running == {j \in known : status[j] = "running"}
Finished == {j \in known : status[j] \in {"completed", "failed"}}
Queued == {j \in Job : phase[j] \in {"waiting", "granted"}}

\* isDeliverySuppressed
Suppressed == suppressed \cup watched

-----------------------------------------------------------------------------
(* The spawn semaphore *)

\* normalizeConcurrencyLimit: a limit of 0 admits every job.
Ceiling(l) == IF l = 0 THEN Cardinality(Job) ELSE l

\* How many waiters a resize to limit l admits.
Fitting(l) ==
  IF current < Ceiling(l) THEN Least(Ceiling(l) - current, Len(waiters)) ELSE 0

Grant(ph, n) ==
  [j \in Job |-> IF j \in Elements(SubSeq(waiters, 1, n)) THEN "granted" ELSE ph[j]]

\* What an abort leaves of a queue: the entries that are not in S, in their
\* order (SelectSeq, spelled out for the proofs).
Without(queue, S) ==
  LET kept[i \in 0 .. Len(queue)] ==
        IF i = 0 THEN << >>
        ELSE IF queue[i] \in S THEN kept[i - 1] ELSE Append(kept[i - 1], queue[i])
  IN kept[Len(queue)]

\* Mutant: a released permit admits nobody.
ReleaseKeeping(ph) ==
  LET resized == Fitting(limit)
  IN /\ max' = limit
     /\ current' = current + resized - 1
     /\ waiters' = SubSeq(waiters, resized + 1, Len(waiters))
     /\ phase' = Grant(ph, resized)

\* Mutant: a permit is released under the limit of the last resize.
ReleaseStale(ph) ==
  LET left == current - 1
      next == IF left < Ceiling(max) /\ waiters # << >> THEN 1 ELSE 0
  IN /\ max' = max
     /\ current' = left + next
     /\ waiters' = SubSeq(waiters, next + 1, Len(waiters))
     /\ phase' = Grant(ph, next)

\* #getSpawnSemaphore resizes to the setting; release then admits one waiter if
\* that leaves room.
Release(ph) ==
  LET resized == Fitting(limit)
      left == current + resized - 1
      next == IF left < Ceiling(limit) /\ resized < Len(waiters) THEN 1 ELSE 0
      admitted == resized + next
  IN /\ max' = limit
     /\ current' = left + next
     /\ waiters' = SubSeq(waiters, admitted + 1, Len(waiters))
     /\ phase' = Grant(ph, admitted)

\* The user changes the setting; the semaphore does not see it yet.
ChangeLimit(l) ==
  /\ l # limit
  /\ limit' = l
  /\ UNCHANGED <<jobVars, deliveryVars, toolVars, max, current, waiters>>

-----------------------------------------------------------------------------
(* Registering a job *)

\* register throws when maxRunningJobs run that are not queued.
MayRegister(j) ==
  /\ status[j] = "none"
  /\ Cardinality(Running \ Queued) < MaxRunning

Enrolled(j) ==
  /\ status' = [status EXCEPT ![j] = "running"]
  /\ known' = known \cup {j}

\* A bash job that starts in the background.
StartBackground(b) ==
  /\ MayRegister(b)
  /\ Enrolled(b)
  /\ phase' = [phase EXCEPT ![b] = "executing"]
  /\ suppressed' = suppressed \ {b}
  /\ UNCHANGED <<watched, deliveries, inFlight, failures, toolVars, permitVars>>

\* Mutant: the result is acknowledged when the wait is over, not before it.
StartForegroundUnacknowledged(b) ==
  /\ MayRegister(b)
  /\ Enrolled(b)
  /\ phase' = [phase EXCEPT ![b] = "executing"]
  /\ foreground' = foreground \cup {b}
  /\ UNCHANGED <<deliveryVars, tracked, watching, seen, permitVars>>

\* A bash job the tool waits for: its delivery is acknowledged up front.
StartForeground(b) ==
  /\ MayRegister(b)
  /\ Enrolled(b)
  /\ phase' = [phase EXCEPT ![b] = "executing"]
  /\ suppressed' = suppressed \cup {b}
  /\ foreground' = foreground \cup {b}
  /\ UNCHANGED <<watched, deliveries, inFlight, failures, tracked, watching,
                 seen, permitVars>>

\* #registerSpawnJob, up to the await of semaphore.acquire.
StartSpawn(s) ==
  /\ MayRegister(s)
  /\ Enrolled(s)
  /\ suppressed' = suppressed \ {s}
  /\ LET admitted == Fitting(limit)
         room == current + admitted < Ceiling(limit)
         granted == Grant(phase, admitted)
         rest == SubSeq(waiters, admitted + 1, Len(waiters))
     IN /\ max' = limit
        /\ current' = current + admitted + (IF room THEN 1 ELSE 0)
        /\ waiters' = IF room THEN rest ELSE Append(rest, s)
        /\ phase' = [granted EXCEPT ![s] = IF room THEN "granted" ELSE "waiting"]
  /\ UNCHANGED <<watched, deliveries, inFlight, failures, toolVars, limit>>

-----------------------------------------------------------------------------
(* Running and ending *)

\* Mutant: the permit is returned when the run starts and again when it ends.
ResumeSpawnReleasing(s) ==
  /\ phase[s] = "granted"
  /\ Release([phase EXCEPT ![s] = IF status[s] = "running" THEN "executing"
                                 ELSE "ended"])
  /\ UNCHANGED <<status, known, deliveryVars, toolVars, limit>>

\* A spawn that waited resumes with its permit: it runs (markRunning), or
\* returns the permit if it was cancelled meanwhile.
ResumeSpawn(s) ==
  /\ phase[s] = "granted"
  /\ IF status[s] = "running"
     THEN /\ phase' = [phase EXCEPT ![s] = "executing"]
          /\ UNCHANGED <<max, current, waiters>>
     ELSE Release([phase EXCEPT ![s] = "ended"])
  /\ UNCHANGED <<status, known, deliveryVars, toolVars, limit>>

\* The command of a bash job ends: a foreground wait sees it first.
CommandEnds(b) ==
  /\ b \in Bash
  /\ phase[b] = "executing"
  /\ phase' = [phase EXCEPT ![b] = "output"]
  /\ UNCHANGED <<status, known, deliveryVars, toolVars, permitVars>>

\* The job's promise settles: the status is set and the delivery enqueued,
\* unless the job was cancelled or its delivery is suppressed.
Settled(j, ended) ==
  IF status[j] = "running"
  THEN /\ status' = [status EXCEPT ![j] = ended]
       /\ deliveries' = deliveries \cup ({j} \ Suppressed)
  ELSE UNCHANGED <<status, deliveries>>

BashSettles(b, ended) ==
  /\ phase[b] = "output"
  /\ phase' = [phase EXCEPT ![b] = "ended"]
  /\ Settled(b, ended)
  /\ UNCHANGED <<known, suppressed, watched, inFlight, failures, toolVars,
                 permitVars>>

SpawnSettles(s, ended) ==
  /\ s \in Spawn
  /\ phase[s] = "executing"
  /\ Release([phase EXCEPT ![s] = "ended"])
  /\ Settled(s, ended)
  /\ UNCHANGED <<known, suppressed, watched, inFlight, failures, toolVars, limit>>

\* Mutant: an aborted waiter stays in the semaphore's queue.
CancelledAbandoned(S) ==
  /\ status' = [j \in Job |-> IF j \in S THEN "cancelled" ELSE status[j]]
  /\ phase' = [j \in Job |-> IF j \in S /\ phase[j] = "waiting" THEN "ended"
                             ELSE phase[j]]
  /\ UNCHANGED <<known, limit, max, current, waiters>>

\* cancel of the jobs in S: their signals abort, and a spawn that waits for a
\* permit leaves the semaphore's queue and ends.
Cancelled(S) ==
  /\ status' = [j \in Job |-> IF j \in S THEN "cancelled" ELSE status[j]]
  /\ phase' = [j \in Job |-> IF j \in S /\ phase[j] = "waiting" THEN "ended"
                             ELSE phase[j]]
  /\ waiters' = Without(waiters, S)
  /\ UNCHANGED <<known, limit, max, current>>

\* The owner's session ends or is replaced (#cancelOwnAsyncJobs).
CancelAll ==
  /\ Running # {}
  /\ Cancelled(Running)
  /\ UNCHANGED <<deliveryVars, toolVars>>

\* The retention timer of a job that ended or was cancelled.
Evict(j) ==
  /\ j \in known \ Running
  /\ known' = known \ {j}
  /\ suppressed' = suppressed \ {j}
  /\ watched' = watched \ {j}
  /\ UNCHANGED <<status, phase, deliveries, inFlight, failures, toolVars,
                 permitVars>>

-----------------------------------------------------------------------------
(* Tool calls *)

\* A tool call reports the end of the jobs in S.
Reported(S) ==
  seen' = [j \in Job |-> IF j \in S /\ seen[j] = "no" THEN "once" ELSE seen[j]]

\* #buildResult: what ended is reported, and acknowledged.
Report(jobs, stillWatched) ==
  LET ended == {j \in jobs : status[j] # "running"}
  IN /\ Reported(ended)
     /\ watched' = stillWatched
     /\ suppressed' = suppressed \cup ended
     /\ deliveries' = deliveries \ (ended \cup suppressed \cup stillWatched)
     /\ UNCHANGED <<inFlight, failures>>

\* The job tool reports at once: list, or a poll of jobs that all ended.
ReportNow(jobs) ==
  /\ jobs # {}
  /\ jobs = known \/ jobs \subseteq known \ Running
  /\ Report(jobs, watched)
  /\ UNCHANGED <<jobVars, tracked, watching, foreground, permitVars>>

\* A poll that waits, and watches those of its jobs that still run.
StartPoll(p, jobs) ==
  /\ tracked[p] = {}
  /\ jobs \subseteq known
  /\ jobs \cap Running # {}
  /\ tracked' = [tracked EXCEPT ![p] = jobs]
  /\ watching' = [watching EXCEPT ![p] = jobs \cap Running]
  /\ watched' = watched \cup (jobs \cap Running)
  /\ UNCHANGED <<jobVars, suppressed, deliveries, inFlight, failures,
                 foreground, seen, permitVars>>

\* Mutant: the poll reports only the job whose end it was woken by.
EndPollFirst(p) ==
  /\ tracked[p] # {}
  /\ tracked' = [tracked EXCEPT ![p] = {}]
  /\ watching' = [watching EXCEPT ![p] = {}]
  /\ \E j \in tracked[p] : Report({j}, watched \ watching[p])
  /\ UNCHANGED <<jobVars, foreground, permitVars>>

\* The wait ends: a watched job settled, the window elapsed, or the call was
\* aborted.  In every case the poll unwatches and reports.
EndPoll(p) ==
  /\ tracked[p] # {}
  /\ tracked' = [tracked EXCEPT ![p] = {}]
  /\ watching' = [watching EXCEPT ![p] = {}]
  /\ Report(tracked[p], watched \ watching[p])
  /\ UNCHANGED <<jobVars, foreground, permitVars>>

\* The job tool cancels a job and reports it.
CancelByTool(j) ==
  /\ j \in Running
  /\ Cancelled({j})
  /\ Reported({j})
  /\ suppressed' = suppressed \cup {j}
  /\ deliveries' = deliveries \ (Suppressed \cup {j})
  /\ UNCHANGED <<watched, inFlight, failures, tracked, watching, foreground>>

\* The command ended within the foreground wait: the tool returns its result.
ForegroundReturns(b) ==
  /\ b \in foreground
  /\ phase[b] \in {"output", "ended"}
  /\ foreground' = foreground \ {b}
  /\ Reported({b})
  /\ UNCHANGED <<jobVars, deliveryVars, tracked, watching, permitVars>>

\* The call is aborted before the command ended.
ForegroundAborts(b) ==
  /\ b \in foreground
  /\ phase[b] = "executing"
  /\ foreground' = foreground \ {b}
  /\ Reported({b})
  /\ Cancelled({b} \cap Running)
  /\ UNCHANGED <<deliveryVars, tracked, watching>>

\* The wait elapses before the command ended: the job goes on in the
\* background (resumeDeliveries; there is no completion to deliver yet).
ForegroundElapses(b) ==
  /\ b \in foreground
  /\ phase[b] = "executing"
  /\ foreground' = foreground \ {b}
  /\ suppressed' = suppressed \ {b}
  /\ UNCHANGED <<jobVars, watched, deliveries, inFlight, failures, tracked,
                 watching, seen, permitVars>>

-----------------------------------------------------------------------------
(* Deliveries *)

\* #deliverDelivery calls onJobComplete. Every path that takes a delivery drops
\* it when it is suppressed; none is, as what suppresses a delivery takes it
\* off the queue, and only a job that still runs is watched.
Deliver(j) ==
  /\ j \in deliveries \ Suppressed
  /\ deliveries' = deliveries \ {j}
  /\ inFlight' = inFlight \cup {j}
  /\ UNCHANGED <<jobVars, suppressed, watched, failures, toolVars, permitVars>>

\* onJobComplete returns.  What it hands to the session is the caller's part.
Delivered(j) ==
  /\ j \in inFlight
  /\ inFlight' = inFlight \ {j}
  /\ UNCHANGED <<jobVars, suppressed, watched, deliveries, failures, toolVars,
                 permitVars>>

\* onJobComplete throws: the delivery is retried, unless it is suppressed.
DeliveryFails(j) ==
  /\ j \in inFlight
  /\ failures < MaxFailures
  /\ failures' = failures + 1
  /\ inFlight' = inFlight \ {j}
  /\ deliveries' = deliveries \cup ({j} \ Suppressed)
  /\ UNCHANGED <<jobVars, suppressed, watched, toolVars, permitVars>>

-----------------------------------------------------------------------------

Ends == {"completed", "failed"}

RunStep ==
  \/ \E l \in Limits : ChangeLimit(l)
  \/ \E b \in Bash : StartBackground(b) \/ StartForeground(b) \/ CommandEnds(b)
  \/ \E b \in Bash, e \in Ends : BashSettles(b, e)
  \/ \E s \in Spawn : StartSpawn(s) \/ ResumeSpawn(s)
  \/ \E s \in Spawn, e \in Ends : SpawnSettles(s, e)
  \/ CancelAll
  \/ \E j \in Job : Evict(j)

ToolStep ==
  \/ \E jobs \in SUBSET Job : ReportNow(jobs)
  \/ \E p \in Poll, jobs \in SUBSET Job : StartPoll(p, jobs)
  \/ \E p \in Poll : EndPoll(p)
  \/ \E j \in Job : CancelByTool(j)
  \/ \E b \in Bash : \/ ForegroundReturns(b)
                     \/ ForegroundAborts(b)
                     \/ ForegroundElapses(b)

DeliveryStep == \E j \in Job : Deliver(j) \/ DeliveryFails(j)

ManagerStep == RunStep \/ ToolStep \/ DeliveryStep

\* The manager on its own: what onJobComplete does is left open.
ManagerNext == ManagerStep \/ \E j \in Job : Delivered(j)

\* A run that waited resumes, and every run ends.
ManagerSpec ==
  /\ ManagerInit
  /\ [][ManagerNext]_managerVars
  /\ \A s \in Spawn : /\ WF_managerVars(ResumeSpawn(s))
                      /\ WF_managerVars(\E e \in Ends : SpawnSettles(s, e))

-----------------------------------------------------------------------------
(* Properties of the semaphore *)

Holders == {s \in Spawn : phase[s] \in {"granted", "executing"}}

\* Every permit the semaphore counts is held by a spawn that will return it, and
\* no spawn waits while the limit the semaphore knows leaves a permit free:
\* whatever aborts a waiter, and however the setting is changed.
PermitsAccounted ==
  /\ current = Cardinality(Holders)
  /\ Elements(waiters) = {s \in Spawn : phase[s] = "waiting"}
  /\ waiters # << >> => current >= Ceiling(max)

\* A spawn gets a permit only while fewer hold one than the setting allows at
\* that moment; a lowered limit is not overrun by spawns that waited.
LimitRespected ==
  (\E s \in Spawn : s \in Holders' \ Holders) =>
    Cardinality(Holders') <= Ceiling(limit)

WaitersRespectLimit == [][LimitRespected]_managerVars

\* A spawn that waits for a permit gets one, or is cancelled, however the
\* limit moves and whatever is cancelled before it in the queue.
SpawnsGetTheirTurn ==
  \A s \in Spawn : phase[s] = "waiting" ~> phase[s] # "waiting"

=============================================================================
