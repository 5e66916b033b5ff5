------------------------- MODULE AsyncResults_proofs -------------------------
(***************************************************************************)
(* Proofs about the way of a result from the end of its job to the model:  *)
(* any jobs and polls, any order of tool calls, deliveries and turns.      *)
(***************************************************************************)
EXTENDS AsyncResults, AsyncJobs_proofs

-----------------------------------------------------------------------------
(* The inductive invariant *)

\* Where a result is on its way to the session.
Pipeline == deliveries \cup inFlight \cup entries

\* A delivery is suppressed because a foreground wait is going to report the
\* job or a tool call has.
SuppressedForAReason == \A j \in suppressed : j \in foreground \/ seen[j] # "no"

\* A watched job is one that some waiting poll watches, and will report.
WatchedByAPoll ==
  /\ \A j \in watched : \E p \in Poll : j \in watching[p]
  /\ \A p \in Poll : watching[p] \subseteq tracked[p]

\* A result exists only when the job's run function is over; then the job
\* does not count as running.
EndedJobsEnded ==
  \A j \in Job : /\ status[j] \in Ends => phase[j] = "ended"
                 /\ phase[j] = "ended" => status[j] # "running"

\* A result is in one place of the pipeline, and the job has ended.
OncePerPipeline ==
  /\ \A j \in Pipeline : status[j] \in Ends
  /\ deliveries \cap inFlight = {} /\ deliveries \cap entries = {}
  /\ inFlight \cap entries = {}

\* What the tools and the manager know of was registered.
Registered ==
  /\ \A j \in known \cup foreground : status[j] # "none"
  /\ \A p \in Poll : \A j \in tracked[p] : status[j] # "none"
  /\ \A j \in Job : seen[j] # "no" => status[j] # "none"
  /\ \A j \in Job : status[j] = "running" => j \in known

\* A foreground wait keeps the job's delivery suppressed.
ForegroundSuppressed == foreground \cap known \subseteq suppressed

\* What the agent has seen cannot be injected any more.
SeenIsSettled ==
  \A j \in known : seen[j] # "no" =>
    j \in suppressed \/ (status[j] # "running" /\ j \notin Pipeline)

\* A job that still runs was reported only by a foreground wait that has seen
\* its command end.
SeenWhileRunning ==
  \A j \in Job : status[j] = "running" /\ seen[j] # "no" => phase[j] = "output"

SessionTyped ==
  /\ entries \subseteq Job /\ turn \in Turns
  /\ idleFlushPending \in BOOLEAN /\ flushTask \in BOOLEAN

WayInv ==
  /\ SuppressedForAReason /\ WatchedByAPoll /\ EndedJobsEnded /\ OncePerPipeline
  /\ Registered /\ ForegroundSuppressed /\ SeenIsSettled /\ SeenWhileRunning

ResultsInv == ManagerInv /\ SessionTyped /\ WayInv /\ NoResultLost /\ SeenOnce

-----------------------------------------------------------------------------
(* The runs of the jobs *)

\* A job that registers is new to everything.
LEMMA StartKeepsWay ==
  ASSUME ResultsInv, UNCHANGED entries,
         NEW j \in Job, MayRegister(j), Enrolled(j),
         OthersKept(j), phase' \in [Job -> Phases], phase'[j] # "ended",
         \/ suppressed' = suppressed \ {j} /\ UNCHANGED foreground
         \/ suppressed' = suppressed \cup {j} /\ foreground' = foreground \cup {j},
         UNCHANGED <<watched, deliveries, inFlight, tracked, watching, seen>>
  PROVE  WayInv' /\ NoResultLost' /\ SeenOnce'
<1>1. /\ status \in [Job -> {"none", "running", "completed", "failed", "cancelled"}]
      /\ known \subseteq Job /\ seen \in [Job -> Learnt] /\ suppressed \subseteq Job
  BY DEF ResultsInv, ManagerInv, ManagerTypeOK
<1>2. /\ status' = [status EXCEPT ![j] = "running"] /\ known' = known \cup {j}
      /\ status[j] = "none" /\ seen[j] = "no" /\ j \notin known /\ j \notin foreground
      /\ j \notin Pipeline
  BY <1>1 DEF Enrolled, MayRegister, ResultsInv, WayInv, Registered, OncePerPipeline, Ends
<1>3. Pipeline' = Pipeline
  BY DEF Pipeline
<1> USE DEF ResultsInv, WayInv
<1>4. SuppressedForAReason' /\ WatchedByAPoll'
  BY <1>2 DEF SuppressedForAReason, WatchedByAPoll
<1>5. EndedJobsEnded'
  BY <1>1, <1>2 DEF EndedJobsEnded, Ends, OthersKept
<1>6. OncePerPipeline'
  BY <1>1, <1>2, <1>3 DEF OncePerPipeline
<1>7. Registered'
  BY <1>1, <1>2 DEF Registered
<1>8. ForegroundSuppressed'
  BY <1>2 DEF ForegroundSuppressed
<1>9. SeenIsSettled'
  BY <1>1, <1>2, <1>3 DEF SeenIsSettled
<1>10. SeenWhileRunning'
  BY <1>1, <1>2 DEF SeenWhileRunning, OthersKept
<1>11. NoResultLost'
  BY <1>1, <1>2 DEF NoResultLost, Finished
<1>12. SeenOnce'
  BY <1>1, <1>2 DEF SeenOnce
<1> QED
  BY <1>4, <1>5, <1>6, <1>7, <1>8, <1>9, <1>10, <1>11, <1>12

\* A run function that goes on changes nothing else.
LEMMA PhasesKeepWay ==
  ASSUME ResultsInv, UNCHANGED <<status, known, deliveryVars, toolVars, entries>>,
         \A j \in Job : phase[j] \in {"output", "ended"} => phase'[j] = phase[j],
         \A j \in Job : phase[j] # "ended" /\ phase'[j] = "ended" => status[j] # "running"
  PROVE  WayInv' /\ NoResultLost' /\ SeenOnce'
<1>1. /\ status \in [Job -> {"none", "running", "completed", "failed", "cancelled"}]
      /\ phase \in [Job -> Phases] /\ seen \in [Job -> Learnt]
      /\ tracked \in [Poll -> SUBSET Job] /\ watching \in [Poll -> SUBSET Job]
      /\ known \subseteq Job /\ suppressed \subseteq Job /\ watched \subseteq Job
      /\ deliveries \subseteq Job /\ inFlight \subseteq Job /\ foreground \subseteq Job
      /\ entries \subseteq Job /\ Bash \subseteq Job
  BY DEF ResultsInv, ManagerInv, ManagerTypeOK, SessionTyped, Job
<1>2. UNCHANGED <<status, known, suppressed, watched, deliveries, inFlight, tracked,
                  watching, foreground, seen, entries>>
  BY DEF deliveryVars, toolVars
<1>3. Pipeline' = Pipeline
  BY <1>2 DEF Pipeline
<1> USE DEF ResultsInv, WayInv
<1>4. SuppressedForAReason'
  BY <1>1, <1>2, <1>3 DEF SuppressedForAReason
<1>5. WatchedByAPoll'
  BY <1>1, <1>2, <1>3 DEF WatchedByAPoll
<1>6. EndedJobsEnded'
  BY <1>1, <1>2, <1>3 DEF EndedJobsEnded, Ends
<1>7. OncePerPipeline'
  BY <1>1, <1>2, <1>3 DEF OncePerPipeline
<1>8. Registered'
  BY <1>1, <1>2, <1>3 DEF Registered
<1>9. ForegroundSuppressed'
  BY <1>1, <1>2, <1>3 DEF ForegroundSuppressed
<1>10. SeenIsSettled'
  BY <1>1, <1>2, <1>3 DEF SeenIsSettled
<1>11. SeenWhileRunning'
  BY <1>1, <1>2, <1>3 DEF SeenWhileRunning
<1>12. NoResultLost'
  BY <1>1, <1>2, <1>3 DEF NoResultLost, Finished
<1>13. SeenOnce'
  BY <1>1, <1>2, <1>3 DEF SeenOnce
<1> QED
  BY <1>4, <1>5, <1>6, <1>7, <1>8, <1>9, <1>10, <1>11, <1>12, <1>13

\* A job that settles has its delivery enqueued or suppressed.
LEMMA SettlingKeepsWay ==
  ASSUME ResultsInv, NEW j \in Job, NEW e \in Ends, Settled(j, e),
         phase[j] \in {"output", "executing"}, phase'[j] = "ended", OthersKept(j),
         UNCHANGED <<known, suppressed, watched, inFlight, toolVars, entries>>
  PROVE  WayInv' /\ NoResultLost' /\ SeenOnce'
<1>1. /\ status \in [Job -> {"none", "running", "completed", "failed", "cancelled"}]
      /\ phase \in [Job -> Phases] /\ seen \in [Job -> Learnt]
      /\ tracked \in [Poll -> SUBSET Job] /\ watching \in [Poll -> SUBSET Job]
      /\ known \subseteq Job /\ suppressed \subseteq Job /\ watched \subseteq Job
      /\ deliveries \subseteq Job /\ inFlight \subseteq Job /\ foreground \subseteq Job
      /\ entries \subseteq Job /\ Bash \subseteq Job
  BY DEF ResultsInv, ManagerInv, ManagerTypeOK, SessionTyped, Job
<1>2. /\ UNCHANGED <<known, suppressed, watched, inFlight, tracked, watching,
                     foreground, seen, entries>>
      /\ \A i \in Job : phase[i] \in {"output", "ended"} /\ i # j => phase'[i] = phase[i]
      /\ \A i \in Job : phase'[i] = "ended" => phase[i] = "ended" \/ i = j
  BY DEF toolVars, OthersKept
<1>3. /\ status' = IF status[j] = "running" THEN [status EXCEPT ![j] = e] ELSE status
      /\ deliveries' = IF status[j] = "running" THEN deliveries \cup ({j} \ Suppressed)
                       ELSE deliveries
      /\ e \notin {"none", "running"} /\ status[j] \notin Ends
      /\ status[j] = "running" => j \notin Pipeline
  BY <1>1 DEF Settled, Ends, ResultsInv, WayInv, EndedJobsEnded, OncePerPipeline
<1> USE DEF ResultsInv, WayInv
<1>4. SuppressedForAReason'
  BY <1>1, <1>2, <1>3 DEF SuppressedForAReason
<1>5. WatchedByAPoll'
  BY <1>1, <1>2, <1>3 DEF WatchedByAPoll
<1>6. EndedJobsEnded'
  BY <1>1, <1>2, <1>3 DEF EndedJobsEnded, Ends
<1>7. OncePerPipeline'
  BY <1>1, <1>2, <1>3 DEF OncePerPipeline, Pipeline
<1>8. Registered'
  BY <1>1, <1>2, <1>3 DEF Registered
<1>9. ForegroundSuppressed'
  BY <1>1, <1>2, <1>3 DEF ForegroundSuppressed
<1>10. SeenIsSettled'
  BY <1>1, <1>2, <1>3 DEF SeenIsSettled, Pipeline, Suppressed
<1>11. SeenWhileRunning'
  BY <1>1, <1>2, <1>3 DEF SeenWhileRunning
<1>12. NoResultLost'
  BY <1>1, <1>2, <1>3 DEF NoResultLost, Finished, Suppressed, SuppressedForAReason, WatchedByAPoll, Ends
<1>13. SeenOnce'
  BY <1>1, <1>2, <1>3 DEF SeenOnce
<1> QED
  BY <1>4, <1>5, <1>6, <1>7, <1>8, <1>9, <1>10, <1>11, <1>12, <1>13

\* Cancelled jobs have no result; a tool may report their end.
LEMMA CancelKeepsWay ==
  ASSUME ResultsInv, NEW S \in SUBSET Running, Cancelled(S), NEW R \in SUBSET Job,
         UNCHANGED seen \/ Reported(R),
         \A j \in R : status[j] # "none" /\ (status[j] = "running" => j \in S),
         \A j \in R \cap known : j \in suppressed',
         suppressed \subseteq suppressed',
         \A j \in suppressed' : j \in foreground' \/ seen'[j] # "no",
         foreground' \subseteq foreground,
         \A j \in foreground : j \in foreground' \/ seen'[j] # "no",
         deliveries' \subseteq deliveries,
         \A j \in deliveries \ deliveries' : j \in foreground' \/ seen'[j] # "no"
                                             \/ \E p \in Poll : j \in tracked[p],
         UNCHANGED <<watched, inFlight, tracked, watching, entries>>
  PROVE  WayInv' /\ NoResultLost' /\ SeenOnce'
<1>1. /\ status \in [Job -> {"none", "running", "completed", "failed", "cancelled"}]
      /\ phase \in [Job -> Phases] /\ seen \in [Job -> Learnt]
      /\ tracked \in [Poll -> SUBSET Job] /\ watching \in [Poll -> SUBSET Job]
      /\ known \subseteq Job /\ suppressed \subseteq Job /\ watched \subseteq Job
      /\ deliveries \subseteq Job /\ inFlight \subseteq Job /\ foreground \subseteq Job
      /\ entries \subseteq Job /\ Bash \subseteq Job
  BY DEF ResultsInv, ManagerInv, ManagerTypeOK, SessionTyped, Job
<1>2. /\ status' = [j \in Job |-> IF j \in S THEN "cancelled" ELSE status[j]]
      /\ known' = known
      /\ \A j \in Job : phase[j] \in {"output", "ended"} => phase'[j] = phase[j]
      /\ \A j \in Job : phase'[j] = "ended" => phase[j] = "ended" \/ j \in S
      /\ S \subseteq known /\ \A j \in S : status[j] = "running"
  BY <1>1 DEF Cancelled, Running
<1>3. \A j \in Job : seen'[j] = seen[j] \/ (j \in R /\ seen[j] = "no" /\ seen'[j] = "once")
  BY <1>1 DEF Reported
<1>4. Pipeline' \subseteq Pipeline
  BY DEF Pipeline
<1> USE DEF ResultsInv, WayInv
<1>5. SuppressedForAReason'
  BY <1>1, <1>2, <1>3, <1>4 DEF SuppressedForAReason
<1>6. WatchedByAPoll'
  BY <1>1, <1>2, <1>3, <1>4 DEF WatchedByAPoll
<1>7. EndedJobsEnded'
  BY <1>1, <1>2, <1>3, <1>4 DEF EndedJobsEnded, Ends
<1>8. OncePerPipeline'
  BY <1>1, <1>2, <1>3, <1>4 DEF OncePerPipeline, Pipeline, Ends
<1>9. Registered'
  BY <1>1, <1>2, <1>3, <1>4 DEF Registered
<1>10. ForegroundSuppressed'
  BY <1>1, <1>2, <1>3, <1>4 DEF ForegroundSuppressed
<1>11. SeenIsSettled'
  BY <1>1, <1>2, <1>3, <1>4 DEF SeenIsSettled, Pipeline
<1>12. SeenWhileRunning'
  BY <1>1, <1>2, <1>3, <1>4 DEF SeenWhileRunning
<1>13. NoResultLost'
  BY <1>1, <1>2, <1>3, <1>4 DEF NoResultLost, Finished
<1>14. SeenOnce'
  BY <1>1, <1>2, <1>3, <1>4 DEF SeenOnce
<1> QED
  BY <1>5, <1>6, <1>7, <1>8, <1>9, <1>10, <1>11, <1>12, <1>13, <1>14

-----------------------------------------------------------------------------
(* The tool calls and the deliveries *)

\* Retention forgets a job that does not run.
LEMMA EvictKeepsWay ==
  ASSUME ResultsInv, NEW j \in Job, Evict(j), UNCHANGED entries
  PROVE  WayInv' /\ NoResultLost' /\ SeenOnce'
<1>1. /\ status \in [Job -> {"none", "running", "completed", "failed", "cancelled"}]
      /\ phase \in [Job -> Phases] /\ seen \in [Job -> Learnt]
      /\ tracked \in [Poll -> SUBSET Job] /\ watching \in [Poll -> SUBSET Job]
      /\ known \subseteq Job /\ suppressed \subseteq Job /\ watched \subseteq Job
      /\ deliveries \subseteq Job /\ inFlight \subseteq Job /\ foreground \subseteq Job
      /\ entries \subseteq Job /\ Bash \subseteq Job
  BY DEF ResultsInv, ManagerInv, ManagerTypeOK, SessionTyped, Job
<1>2. /\ UNCHANGED <<status, phase, deliveries, inFlight, tracked, watching,
                     foreground, seen, entries>>
      /\ known' = known \ {j} /\ suppressed' = suppressed \ {j} /\ watched' = watched \ {j}
      /\ status[j] # "running"
  BY DEF Evict, toolVars, Running
<1>3. Pipeline' = Pipeline
  BY <1>2 DEF Pipeline
<1> USE DEF ResultsInv, WayInv
<1>4. SuppressedForAReason'
  BY <1>1, <1>2, <1>3 DEF SuppressedForAReason
<1>5. WatchedByAPoll'
  BY <1>1, <1>2, <1>3 DEF WatchedByAPoll
<1>6. EndedJobsEnded'
  BY <1>1, <1>2, <1>3 DEF EndedJobsEnded, Ends
<1>7. OncePerPipeline'
  BY <1>1, <1>2, <1>3 DEF OncePerPipeline
<1>8. Registered'
  BY <1>1, <1>2, <1>3 DEF Registered
<1>9. ForegroundSuppressed'
  BY <1>1, <1>2, <1>3 DEF ForegroundSuppressed
<1>10. SeenIsSettled'
  BY <1>1, <1>2, <1>3 DEF SeenIsSettled
<1>11. SeenWhileRunning'
  BY <1>1, <1>2, <1>3 DEF SeenWhileRunning
<1>12. NoResultLost'
  BY <1>1, <1>2, <1>3 DEF NoResultLost, Finished
<1>13. SeenOnce'
  BY <1>1, <1>2, <1>3 DEF SeenOnce
<1> QED
  BY <1>4, <1>5, <1>6, <1>7, <1>8, <1>9, <1>10, <1>11, <1>12, <1>13

\* A report acknowledges what it reports, and drops only what is reported.
LEMMA ReportKeepsWay ==
  ASSUME ResultsInv, NEW S \in SUBSET Job, NEW W, Report(S, W), W \subseteq watched,
         \A j \in S : status[j] # "none",
         \A j \in W : \E p \in Poll : j \in watching'[p],
         \A p \in Poll : watching'[p] \subseteq tracked'[p] /\ tracked'[p] \subseteq tracked[p],
         \A p \in Poll : tracked[p] \subseteq tracked'[p] \cup S,
         UNCHANGED <<status, phase, known, foreground, entries>>
  PROVE  WayInv' /\ NoResultLost' /\ SeenOnce'
<1>1. /\ status \in [Job -> {"none", "running", "completed", "failed", "cancelled"}]
      /\ phase \in [Job -> Phases] /\ seen \in [Job -> Learnt]
      /\ tracked \in [Poll -> SUBSET Job] /\ watching \in [Poll -> SUBSET Job]
      /\ known \subseteq Job /\ suppressed \subseteq Job /\ watched \subseteq Job
      /\ deliveries \subseteq Job /\ inFlight \subseteq Job /\ foreground \subseteq Job
      /\ entries \subseteq Job /\ Bash \subseteq Job
  BY DEF ResultsInv, ManagerInv, ManagerTypeOK, SessionTyped, Job
<1> DEFINE ended == {j \in S : status[j] # "running"}
<1>2. /\ watched' = W /\ suppressed' = suppressed \cup ended /\ inFlight' = inFlight
      /\ deliveries' = deliveries \ (ended \cup suppressed \cup W)
      /\ \A j \in Job : seen'[j] = IF j \in ended /\ seen[j] = "no" THEN "once" ELSE seen[j]
  BY DEF Report, Reported
<1>3. Pipeline' \subseteq Pipeline
  BY <1>2 DEF Pipeline
<1> USE DEF ResultsInv, WayInv
<1>4. SuppressedForAReason'
  BY <1>1, <1>2, <1>3 DEF SuppressedForAReason
<1>5. WatchedByAPoll'
  BY <1>1, <1>2, <1>3 DEF WatchedByAPoll
<1>6. EndedJobsEnded'
  BY <1>1, <1>2, <1>3 DEF EndedJobsEnded, Ends
<1>7. OncePerPipeline'
  BY <1>1, <1>2, <1>3 DEF OncePerPipeline, Pipeline
<1>8. Registered'
  BY <1>1, <1>2, <1>3 DEF Registered
<1>9. ForegroundSuppressed'
  BY <1>1, <1>2, <1>3 DEF ForegroundSuppressed
<1>10. SeenIsSettled'
  BY <1>1, <1>2, <1>3 DEF SeenIsSettled, Pipeline
<1>11. SeenWhileRunning'
  BY <1>1, <1>2, <1>3 DEF SeenWhileRunning
<1>12. NoResultLost'
  BY <1>1, <1>2, <1>3 DEF NoResultLost, Finished, SuppressedForAReason, Ends
<1>13. SeenOnce'
  BY <1>1, <1>2, <1>3 DEF SeenOnce
<1> QED
  BY <1>4, <1>5, <1>6, <1>7, <1>8, <1>9, <1>10, <1>11, <1>12, <1>13

\* A poll that waits is going to report what it watches.
LEMMA StartPollKeepsWay ==
  ASSUME ResultsInv, NEW p \in Poll, NEW S \in SUBSET Job, StartPoll(p, S), UNCHANGED entries
  PROVE  WayInv' /\ NoResultLost' /\ SeenOnce'
<1>1. /\ status \in [Job -> {"none", "running", "completed", "failed", "cancelled"}]
      /\ phase \in [Job -> Phases] /\ seen \in [Job -> Learnt]
      /\ tracked \in [Poll -> SUBSET Job] /\ watching \in [Poll -> SUBSET Job]
      /\ known \subseteq Job /\ suppressed \subseteq Job /\ watched \subseteq Job
      /\ deliveries \subseteq Job /\ inFlight \subseteq Job /\ foreground \subseteq Job
      /\ entries \subseteq Job /\ Bash \subseteq Job
  BY DEF ResultsInv, ManagerInv, ManagerTypeOK, SessionTyped, Job
<1>2. /\ UNCHANGED <<status, phase, known, suppressed, deliveries, inFlight, foreground,
                     seen, entries>>
      /\ tracked' = [tracked EXCEPT ![p] = S] /\ tracked[p] = {}
      /\ watching' = [watching EXCEPT ![p] = S \cap Running]
      /\ watched' = watched \cup (S \cap Running) /\ S \subseteq known
  BY DEF StartPoll, jobVars
<1>3. Pipeline' = Pipeline
  BY <1>2 DEF Pipeline
<1>4. /\ tracked'[p] = S /\ watching'[p] = S \cap Running /\ watching[p] = {}
      /\ \A q \in Poll : q # p => tracked'[q] = tracked[q] /\ watching'[q] = watching[q]
  BY <1>1, <1>2 DEF ResultsInv, WayInv, WatchedByAPoll
<1> USE DEF ResultsInv, WayInv
<1>5. SuppressedForAReason'
  BY <1>1, <1>2, <1>3, <1>4 DEF SuppressedForAReason
<1>6. WatchedByAPoll'
  BY <1>1, <1>2, <1>3, <1>4 DEF WatchedByAPoll
<1>7. EndedJobsEnded'
  BY <1>1, <1>2, <1>3, <1>4 DEF EndedJobsEnded, Ends
<1>8. OncePerPipeline'
  BY <1>1, <1>2, <1>3, <1>4 DEF OncePerPipeline
<1>9. Registered'
  BY <1>1, <1>2, <1>3, <1>4 DEF Registered
<1>10. ForegroundSuppressed'
  BY <1>1, <1>2, <1>3, <1>4 DEF ForegroundSuppressed
<1>11. SeenIsSettled'
  BY <1>1, <1>2, <1>3, <1>4 DEF SeenIsSettled
<1>12. SeenWhileRunning'
  BY <1>1, <1>2, <1>3, <1>4 DEF SeenWhileRunning
<1>13. NoResultLost'
  BY <1>1, <1>2, <1>3, <1>4 DEF NoResultLost, Finished
<1>14. SeenOnce'
  BY <1>1, <1>2, <1>3, <1>4 DEF SeenOnce
<1> QED
  BY <1>5, <1>6, <1>7, <1>8, <1>9, <1>10, <1>11, <1>12, <1>13, <1>14

\* A foreground wait that returns has reported the job.
LEMMA ForegroundReturnKeepsWay ==
  ASSUME ResultsInv, NEW b \in Bash, ForegroundReturns(b), UNCHANGED entries
  PROVE  WayInv' /\ NoResultLost' /\ SeenOnce'
<1>1. /\ status \in [Job -> {"none", "running", "completed", "failed", "cancelled"}]
      /\ phase \in [Job -> Phases] /\ seen \in [Job -> Learnt]
      /\ tracked \in [Poll -> SUBSET Job] /\ watching \in [Poll -> SUBSET Job]
      /\ known \subseteq Job /\ suppressed \subseteq Job /\ watched \subseteq Job
      /\ deliveries \subseteq Job /\ inFlight \subseteq Job /\ foreground \subseteq Job
      /\ entries \subseteq Job /\ Bash \subseteq Job
  BY DEF ResultsInv, ManagerInv, ManagerTypeOK, SessionTyped, Job
<1>2. /\ UNCHANGED <<status, phase, known, suppressed, watched, deliveries, inFlight, tracked,
                     watching, entries>>
      /\ foreground' = foreground \ {b} /\ b \in foreground
      /\ phase[b] \in {"output", "ended"}
      /\ \A j \in Job : seen'[j] = IF j = b /\ seen[j] = "no" THEN "once" ELSE seen[j]
  BY DEF ForegroundReturns, Reported, jobVars, deliveryVars
<1>3. Pipeline' = Pipeline
  BY <1>2 DEF Pipeline
<1>4. status[b] = "running" => phase[b] # "ended"
  BY <1>1 DEF ResultsInv, WayInv, EndedJobsEnded
<1> USE DEF ResultsInv, WayInv
<1>5. SuppressedForAReason'
  BY <1>1, <1>2, <1>3, <1>4 DEF SuppressedForAReason
<1>6. WatchedByAPoll'
  BY <1>1, <1>2, <1>3, <1>4 DEF WatchedByAPoll
<1>7. EndedJobsEnded'
  BY <1>1, <1>2, <1>3, <1>4 DEF EndedJobsEnded, Ends
<1>8. OncePerPipeline'
  BY <1>1, <1>2, <1>3, <1>4 DEF OncePerPipeline
<1>9. Registered'
  BY <1>1, <1>2, <1>3, <1>4 DEF Registered
<1>10. ForegroundSuppressed'
  BY <1>1, <1>2, <1>3, <1>4 DEF ForegroundSuppressed
<1>11. SeenIsSettled'
  BY <1>1, <1>2, <1>3, <1>4 DEF SeenIsSettled, ForegroundSuppressed
<1>12. SeenWhileRunning'
  BY <1>1, <1>2, <1>3, <1>4 DEF SeenWhileRunning
<1>13. NoResultLost'
  BY <1>1, <1>2, <1>3, <1>4 DEF NoResultLost, Finished
<1>14. SeenOnce'
  BY <1>1, <1>2, <1>3, <1>4 DEF SeenOnce
<1> QED
  BY <1>5, <1>6, <1>7, <1>8, <1>9, <1>10, <1>11, <1>12, <1>13, <1>14

\* A job that goes on in the background has no result yet.
LEMMA ForegroundElapseKeepsWay ==
  ASSUME ResultsInv, NEW b \in Bash, ForegroundElapses(b), UNCHANGED entries
  PROVE  WayInv' /\ NoResultLost' /\ SeenOnce'
<1>1. /\ status \in [Job -> {"none", "running", "completed", "failed", "cancelled"}]
      /\ phase \in [Job -> Phases] /\ seen \in [Job -> Learnt]
      /\ tracked \in [Poll -> SUBSET Job] /\ watching \in [Poll -> SUBSET Job]
      /\ known \subseteq Job /\ suppressed \subseteq Job /\ watched \subseteq Job
      /\ deliveries \subseteq Job /\ inFlight \subseteq Job /\ foreground \subseteq Job
      /\ entries \subseteq Job /\ Bash \subseteq Job
  BY DEF ResultsInv, ManagerInv, ManagerTypeOK, SessionTyped, Job
<1>2. /\ UNCHANGED <<status, phase, known, watched, deliveries, inFlight, tracked,
                     watching, seen, entries>>
      /\ foreground' = foreground \ {b} /\ suppressed' = suppressed \ {b}
      /\ phase[b] = "executing" /\ b \in Job
  BY <1>1 DEF ForegroundElapses, jobVars
<1>3. Pipeline' = Pipeline
  BY <1>2 DEF Pipeline
<1>4. status[b] \notin Ends /\ b \notin Pipeline /\ (status[b] = "running" => seen[b] = "no")
  BY <1>1, <1>2 DEF ResultsInv, WayInv, EndedJobsEnded, OncePerPipeline, SeenWhileRunning, Learnt
<1> USE DEF ResultsInv, WayInv
<1>5. SuppressedForAReason'
  BY <1>1, <1>2, <1>3, <1>4 DEF SuppressedForAReason
<1>6. WatchedByAPoll'
  BY <1>1, <1>2, <1>3, <1>4 DEF WatchedByAPoll
<1>7. EndedJobsEnded'
  BY <1>1, <1>2, <1>3, <1>4 DEF EndedJobsEnded, Ends
<1>8. OncePerPipeline'
  BY <1>1, <1>2, <1>3, <1>4 DEF OncePerPipeline
<1>9. Registered'
  BY <1>1, <1>2, <1>3, <1>4 DEF Registered
<1>10. ForegroundSuppressed'
  BY <1>1, <1>2, <1>3, <1>4 DEF ForegroundSuppressed
<1>11. SeenIsSettled'
  BY <1>1, <1>2, <1>3, <1>4 DEF SeenIsSettled
<1>12. SeenWhileRunning'
  BY <1>1, <1>2, <1>3, <1>4 DEF SeenWhileRunning
<1>13. NoResultLost'
  BY <1>1, <1>2, <1>3, <1>4 DEF NoResultLost, Finished, Ends
<1>14. SeenOnce'
  BY <1>1, <1>2, <1>3, <1>4 DEF SeenOnce
<1> QED
  BY <1>5, <1>6, <1>7, <1>8, <1>9, <1>10, <1>11, <1>12, <1>13, <1>14

\* A delivery moves on, or back if onJobComplete throws.
LEMMA DeliveryKeepsWay ==
  ASSUME ResultsInv, NEW j \in Job, Deliver(j) \/ DeliveryFails(j), UNCHANGED entries
  PROVE  WayInv' /\ NoResultLost' /\ SeenOnce'
<1>1. /\ status \in [Job -> {"none", "running", "completed", "failed", "cancelled"}]
      /\ phase \in [Job -> Phases] /\ seen \in [Job -> Learnt]
      /\ tracked \in [Poll -> SUBSET Job] /\ watching \in [Poll -> SUBSET Job]
      /\ known \subseteq Job /\ suppressed \subseteq Job /\ watched \subseteq Job
      /\ deliveries \subseteq Job /\ inFlight \subseteq Job /\ foreground \subseteq Job
      /\ entries \subseteq Job /\ Bash \subseteq Job
  BY DEF ResultsInv, ManagerInv, ManagerTypeOK, SessionTyped, Job
<1>2. /\ UNCHANGED <<status, phase, known, suppressed, watched, tracked, watching, foreground,
                     seen, entries>>
      /\ \/ /\ deliveries' = deliveries \ {j} /\ inFlight' = inFlight \cup {j}
            /\ j \in deliveries
         \/ /\ inFlight' = inFlight \ {j} /\ j \in inFlight
            /\ deliveries' = deliveries \cup ({j} \ Suppressed)
  BY DEF Deliver, DeliveryFails, jobVars, toolVars
<1>3. Pipeline' \subseteq Pipeline
  BY <1>2 DEF Pipeline
<1> USE DEF ResultsInv, WayInv
<1>4. SuppressedForAReason'
  BY <1>1, <1>2, <1>3 DEF SuppressedForAReason
<1>5. WatchedByAPoll'
  BY <1>1, <1>2, <1>3 DEF WatchedByAPoll
<1>6. EndedJobsEnded'
  BY <1>1, <1>2, <1>3 DEF EndedJobsEnded, Ends
<1>7. OncePerPipeline'
  BY <1>1, <1>2, <1>3 DEF OncePerPipeline, Pipeline
<1>8. Registered'
  BY <1>1, <1>2, <1>3 DEF Registered
<1>9. ForegroundSuppressed'
  BY <1>1, <1>2, <1>3 DEF ForegroundSuppressed
<1>10. SeenIsSettled'
  BY <1>1, <1>2, <1>3 DEF SeenIsSettled, Pipeline
<1>11. SeenWhileRunning'
  BY <1>1, <1>2, <1>3 DEF SeenWhileRunning
<1>12. NoResultLost'
  BY <1>1, <1>2, <1>3 DEF NoResultLost, Finished, Suppressed, SuppressedForAReason, WatchedByAPoll
<1>13. SeenOnce'
  BY <1>1, <1>2, <1>3 DEF SeenOnce
<1> QED
  BY <1>4, <1>5, <1>6, <1>7, <1>8, <1>9, <1>10, <1>11, <1>12, <1>13

\* onJobComplete looks again before it enqueues the result.
LEMMA HandOverKeepsWay ==
  ASSUME ResultsInv, NEW j \in Job, HandOver(j)
  PROVE  WayInv' /\ NoResultLost' /\ SeenOnce'
<1>1. /\ status \in [Job -> {"none", "running", "completed", "failed", "cancelled"}]
      /\ phase \in [Job -> Phases] /\ seen \in [Job -> Learnt]
      /\ tracked \in [Poll -> SUBSET Job] /\ watching \in [Poll -> SUBSET Job]
      /\ known \subseteq Job /\ suppressed \subseteq Job /\ watched \subseteq Job
      /\ deliveries \subseteq Job /\ inFlight \subseteq Job /\ foreground \subseteq Job
      /\ entries \subseteq Job /\ Bash \subseteq Job
  BY DEF ResultsInv, ManagerInv, ManagerTypeOK, SessionTyped, Job
<1>2. /\ UNCHANGED <<status, phase, known, suppressed, watched, deliveries, tracked, watching,
                     foreground, seen>>
      /\ inFlight' = inFlight \ {j} /\ j \in inFlight
      /\ entries' = IF j \in Suppressed THEN entries ELSE entries \cup {j}
  BY DEF HandOver, Delivered, jobVars, toolVars
<1>3. Pipeline' \subseteq Pipeline
  BY <1>2 DEF Pipeline
<1> USE DEF ResultsInv, WayInv
<1>4. SuppressedForAReason'
  BY <1>1, <1>2, <1>3 DEF SuppressedForAReason
<1>5. WatchedByAPoll'
  BY <1>1, <1>2, <1>3 DEF WatchedByAPoll
<1>6. EndedJobsEnded'
  BY <1>1, <1>2, <1>3 DEF EndedJobsEnded, Ends
<1>7. OncePerPipeline'
  BY <1>1, <1>2, <1>3 DEF OncePerPipeline, Pipeline
<1>8. Registered'
  BY <1>1, <1>2, <1>3 DEF Registered
<1>9. ForegroundSuppressed'
  BY <1>1, <1>2, <1>3 DEF ForegroundSuppressed
<1>10. SeenIsSettled'
  BY <1>1, <1>2, <1>3 DEF SeenIsSettled, Pipeline
<1>11. SeenWhileRunning'
  BY <1>1, <1>2, <1>3 DEF SeenWhileRunning
<1>12. NoResultLost'
  BY <1>1, <1>2, <1>3 DEF NoResultLost, Finished, Suppressed, SuppressedForAReason, WatchedByAPoll
<1>13. SeenOnce'
  BY <1>1, <1>2, <1>3 DEF SeenOnce
<1> QED
  BY <1>4, <1>5, <1>6, <1>7, <1>8, <1>9, <1>10, <1>11, <1>12, <1>13

\* What is injected was not seen before; what is dropped is reported.
LEMMA InjectKeepsWay ==
  ASSUME ResultsInv, Inject
  PROVE  WayInv' /\ NoResultLost' /\ SeenOnce'
<1>1. /\ status \in [Job -> {"none", "running", "completed", "failed", "cancelled"}]
      /\ phase \in [Job -> Phases] /\ seen \in [Job -> Learnt]
      /\ tracked \in [Poll -> SUBSET Job] /\ watching \in [Poll -> SUBSET Job]
      /\ known \subseteq Job /\ suppressed \subseteq Job /\ watched \subseteq Job
      /\ deliveries \subseteq Job /\ inFlight \subseteq Job /\ foreground \subseteq Job
      /\ entries \subseteq Job /\ Bash \subseteq Job
  BY DEF ResultsInv, ManagerInv, ManagerTypeOK, SessionTyped, Job
<1>2. /\ UNCHANGED <<status, phase, known, suppressed, watched, deliveries, inFlight, tracked,
                     watching, foreground>>
      /\ entries' = {}
      /\ \A j \in Job : seen'[j] = IF j \notin Fresh THEN seen[j]
                                  ELSE IF seen[j] = "no" THEN "once" ELSE "again"
  BY DEF Inject, jobVars, deliveryVars
<1>3. Pipeline' = deliveries \cup inFlight /\ Fresh \subseteq Pipeline
  BY <1>2 DEF Pipeline, Fresh
<1>4. \A j \in Fresh : j \notin Pipeline' /\ status[j] \in Ends
  BY <1>2, <1>3 DEF Pipeline, Fresh, ResultsInv, WayInv, OncePerPipeline
<1>5. \A j \in known \cap Fresh : seen[j] = "no"
  BY <1>3 DEF ResultsInv, WayInv, SeenIsSettled, Fresh, Suppressed
<1> USE DEF ResultsInv, WayInv
<1>6. SuppressedForAReason'
  BY <1>1, <1>2, <1>3, <1>4, <1>5 DEF SuppressedForAReason
<1>7. WatchedByAPoll'
  BY <1>1, <1>2, <1>3, <1>4, <1>5 DEF WatchedByAPoll
<1>8. EndedJobsEnded'
  BY <1>1, <1>2, <1>3, <1>4, <1>5 DEF EndedJobsEnded, Ends
<1>9. OncePerPipeline'
  BY <1>1, <1>2, <1>3, <1>4, <1>5 DEF OncePerPipeline, Pipeline
<1>10. Registered'
  BY <1>1, <1>2, <1>3, <1>4, <1>5 DEF Registered, Ends
<1>11. ForegroundSuppressed'
  BY <1>1, <1>2, <1>3, <1>4, <1>5 DEF ForegroundSuppressed
<1>12. SeenIsSettled'
  BY <1>1, <1>2, <1>3, <1>4, <1>5 DEF SeenIsSettled, Pipeline, Ends
<1>13. SeenWhileRunning'
  BY <1>1, <1>2, <1>3, <1>4, <1>5 DEF SeenWhileRunning, Ends
<1>14. NoResultLost'
  BY <1>1, <1>2, <1>3, <1>4, <1>5 DEF NoResultLost, Finished, Fresh, Suppressed,
     SuppressedForAReason, WatchedByAPoll
<1>15. SeenOnce'
  BY <1>1, <1>2, <1>3, <1>4, <1>5 DEF SeenOnce
<1> QED
  BY <1>6, <1>7, <1>8, <1>9, <1>10, <1>11, <1>12, <1>13, <1>14, <1>15

-----------------------------------------------------------------------------
(* Every step *)

\* Every step of the manager alone keeps the way of the results.
LEMMA ManagerKeepsWay ==
  ASSUME ResultsInv, ManagerStep, UNCHANGED sessionVars
  PROVE  WayInv' /\ NoResultLost' /\ SeenOnce'
<1> DEFINE Goal == WayInv' /\ NoResultLost' /\ SeenOnce'
<1>1. /\ ManagerInv /\ UNCHANGED entries
      /\ status \in [Job -> {"none", "running", "completed", "failed", "cancelled"}]
      /\ phase \in [Job -> Phases] /\ seen \in [Job -> Learnt]
      /\ tracked \in [Poll -> SUBSET Job] /\ watching \in [Poll -> SUBSET Job]
      /\ known \subseteq Job /\ deliveries \subseteq Job /\ foreground \subseteq Job
      /\ Bash \subseteq Job /\ Spawn \subseteq Job /\ Bash \cap Spawn = {}
  BY JobAssumption DEF ResultsInv, ManagerInv, ManagerTypeOK, sessionVars, Job
<1>2. \A b \in Bash : phase[b] \notin {"waiting", "granted"}
  BY <1>1 DEF ManagerInv, QueueInv
<1> HIDE DEF Goal
<1>3. ASSUME NEW l \in Limits, ChangeLimit(l) PROVE Goal
  BY <1>1, <1>3, PhasesKeepWay DEF ChangeLimit, jobVars, Goal
<1>4. ASSUME NEW b \in Bash, StartBackground(b) PROVE Goal
  <2>1. /\ phase' \in [Job -> Phases] /\ phase'[b] # "ended" /\ OthersKept(b)
        /\ b \in Job /\ MayRegister(b) /\ Enrolled(b)
    BY <1>1, <1>4 DEF StartBackground, OthersKept, Phases
  <2> QED
    BY <1>1, <1>4, <2>1, StartKeepsWay DEF StartBackground, toolVars, Goal
<1>5. ASSUME NEW b \in Bash, StartForeground(b) PROVE Goal
  <2>1. /\ phase' \in [Job -> Phases] /\ phase'[b] # "ended" /\ OthersKept(b)
        /\ b \in Job /\ MayRegister(b) /\ Enrolled(b)
    BY <1>1, <1>5 DEF StartForeground, OthersKept, Phases
  <2> QED
    BY <1>1, <1>5, <2>1, StartKeepsWay DEF StartForeground, Goal
<1>6. ASSUME NEW s \in Spawn, StartSpawn(s) PROVE Goal
  <2>1. /\ phase' \in [Job -> Phases] /\ OthersKept(s)
        /\ s \in Job /\ MayRegister(s) /\ Enrolled(s)
    BY <1>1, <1>6, StartKeepsPermits DEF StartSpawn, PhasesKept
  <2>2. phase'[s] # "ended"
    BY <1>1, <1>6, <2>1 DEF StartSpawn, Grant
  <2> QED
    BY <1>1, <1>6, <2>1, <2>2, StartKeepsWay DEF StartSpawn, toolVars, Goal
<1>7. ASSUME NEW b \in Bash, CommandEnds(b) PROVE Goal
  <2>1. /\ UNCHANGED <<status, known, deliveryVars, toolVars, entries>>
        /\ phase' = [phase EXCEPT ![b] = "output"] /\ phase[b] = "executing"
    BY <1>1, <1>7 DEF CommandEnds
  <2> QED
    BY <1>1, <2>1, PhasesKeepWay DEF Goal
<1>8. ASSUME NEW b \in Bash, NEW e \in Ends, BashSettles(b, e) PROVE Goal
  <2>1. /\ phase[b] \in {"output", "executing"} /\ phase'[b] = "ended" /\ OthersKept(b)
        /\ b \in Job /\ Settled(b, e)
    BY <1>1, <1>8 DEF BashSettles, OthersKept
  <2> QED
    BY <1>1, <1>8, <2>1, SettlingKeepsWay DEF BashSettles, Goal
<1>9. ASSUME NEW s \in Spawn, ResumeSpawn(s) PROVE Goal
  <2>1. /\ UNCHANGED <<status, known, deliveryVars, toolVars, entries>>
        /\ phase[s] = "granted"
    BY <1>1, <1>9 DEF ResumeSpawn
  <2>2. CASE status[s] = "running"
    <3>1. phase' = [phase EXCEPT ![s] = "executing"]
      BY <1>9, <2>2 DEF ResumeSpawn
    <3> QED
      BY <1>1, <2>1, <3>1, PhasesKeepWay DEF Goal
  <2>3. CASE status[s] # "running"
    <3>1. OthersKept(s)
      BY <1>1, <1>9, <2>1, <2>3, ReleaseKeepsPermits DEF ResumeSpawn
    <3> QED
      BY <1>1, <2>1, <2>3, <3>1, PhasesKeepWay DEF OthersKept, Goal
  <2> QED
    BY <2>2, <2>3
<1>10. ASSUME NEW s \in Spawn, NEW e \in Ends, SpawnSettles(s, e) PROVE Goal
  <2>1. /\ phase[s] \in {"output", "executing"} /\ phase'[s] = "ended" /\ OthersKept(s)
        /\ s \in Job /\ Settled(s, e)
    BY <1>1, <1>10, ReleaseKeepsPermits DEF SpawnSettles
  <2> QED
    BY <1>1, <1>10, <2>1, SettlingKeepsWay DEF SpawnSettles, Goal
<1>11. CASE CancelAll
  <2>1. UNCHANGED <<seen, suppressed, foreground, deliveries, watched, inFlight, tracked,
                    watching, entries>>
    BY <1>1, <1>11 DEF CancelAll, deliveryVars, toolVars
  <2>2. \A j \in suppressed : j \in foreground \/ seen[j] # "no"
    BY DEF ResultsInv, WayInv, SuppressedForAReason
  <2>3. Running \in SUBSET Running /\ {} \in SUBSET Job /\ Cancelled(Running)
    BY <1>11 DEF CancelAll
  <2> QED
    BY <2>1, <2>2, <2>3, CancelKeepsWay DEF Goal
<1>12. ASSUME NEW j \in Job, Evict(j) PROVE Goal
  BY <1>1, <1>12, EvictKeepsWay DEF Goal
<1>13. ASSUME NEW S \in SUBSET Job, ReportNow(S) PROVE Goal
  <2>1. /\ Report(S, watched) /\ S \subseteq known
        /\ UNCHANGED <<status, phase, known, foreground, entries, tracked, watching>>
    BY <1>1, <1>13 DEF ReportNow, jobVars
  <2>2. /\ \A j \in S : status[j] # "none"
        /\ \A j \in watched : \E p \in Poll : j \in watching[p]
        /\ \A p \in Poll : watching[p] \subseteq tracked[p]
    BY <2>1 DEF ResultsInv, WayInv, Registered, WatchedByAPoll
  <2> QED
    BY <2>1, <2>2, ReportKeepsWay DEF Goal
<1>14. ASSUME NEW p \in Poll, NEW S \in SUBSET Job, StartPoll(p, S) PROVE Goal
  BY <1>1, <1>14, StartPollKeepsWay DEF Goal
<1>15. ASSUME NEW p \in Poll, EndPoll(p) PROVE Goal
  <2>1. /\ Report(tracked[p], watched \ watching[p]) /\ tracked[p] \in SUBSET Job
        /\ UNCHANGED <<status, phase, known, foreground, entries>>
        /\ tracked' = [tracked EXCEPT ![p] = {}] /\ watching' = [watching EXCEPT ![p] = {}]
    BY <1>1, <1>15 DEF EndPoll, jobVars
  <2>2. /\ \A j \in tracked[p] : status[j] # "none"
        /\ \A j \in watched : \E q \in Poll : j \in watching[q]
        /\ \A q \in Poll : watching[q] \subseteq tracked[q]
    BY DEF ResultsInv, WayInv, Registered, WatchedByAPoll
  <2>3. /\ \A j \in watched \ watching[p] : \E q \in Poll : j \in watching'[q]
        /\ \A q \in Poll : watching'[q] \subseteq tracked'[q] /\ tracked'[q] \subseteq tracked[q]
        /\ \A q \in Poll : tracked[q] \subseteq tracked'[q] \cup tracked[p]
    BY <1>1, <2>1, <2>2
  <2> QED
    BY <2>1, <2>2, <2>3, ReportKeepsWay DEF Goal
<1>16. ASSUME NEW j \in Job, CancelByTool(j) PROVE Goal
  <2>1. /\ j \in Running /\ Cancelled({j}) /\ Reported({j})
        /\ suppressed' = suppressed \cup {j}
        /\ deliveries' = deliveries \ (Suppressed \cup {j})
        /\ UNCHANGED <<watched, inFlight, tracked, watching, foreground, entries>>
    BY <1>1, <1>16 DEF CancelByTool
  <2>2. \A i \in Job : seen'[i] = IF i = j /\ seen[i] = "no" THEN "once" ELSE seen[i]
    BY <2>1 DEF Reported
  <2>3. \A i \in suppressed : i \in foreground \/ seen[i] # "no"
    BY DEF ResultsInv, WayInv, SuppressedForAReason
  <2>4. \A i \in watched : \E p \in Poll : i \in tracked[p]
    BY DEF ResultsInv, WayInv, WatchedByAPoll
  <2>5. suppressed \subseteq Job
    BY <1>1 DEF ManagerInv, ManagerTypeOK
  <2>6. \A i \in suppressed' : i \in foreground' \/ seen'[i] # "no"
    BY <2>1, <2>2, <2>3, <2>5
  <2>7. \A i \in deliveries \ deliveries' : i \in foreground' \/ seen'[i] # "no"
                                           \/ \E p \in Poll : i \in tracked[p]
    BY <1>1, <2>1, <2>2, <2>3, <2>4, <2>5 DEF Suppressed
  <2>8. {j} \in SUBSET Running /\ {j} \in SUBSET Job /\ status[j] = "running"
    BY <2>1 DEF Running
  <2> QED
    BY <2>1, <2>6, <2>7, <2>8, CancelKeepsWay DEF Goal
<1>17. ASSUME NEW b \in Bash, ForegroundReturns(b) PROVE Goal
  BY <1>1, <1>17, ForegroundReturnKeepsWay DEF Goal
<1>18. ASSUME NEW b \in Bash, ForegroundAborts(b) PROVE Goal
  <2>1. /\ b \in foreground /\ foreground' = foreground \ {b}
        /\ Cancelled({b} \cap Running) /\ Reported({b})
        /\ UNCHANGED <<suppressed, deliveries, watched, inFlight, tracked, watching, entries>>
    BY <1>1, <1>18 DEF ForegroundAborts, deliveryVars
  <2>2. \A i \in Job : seen'[i] = IF i = b /\ seen[i] = "no" THEN "once" ELSE seen[i]
    BY <2>1 DEF Reported
  <2>3. /\ \A i \in suppressed : i \in foreground \/ seen[i] # "no"
        /\ foreground \cap known \subseteq suppressed
        /\ status[b] # "none" /\ (status[b] = "running" => b \in {b} \cap Running)
    BY <1>1, <2>1 DEF ResultsInv, WayInv, SuppressedForAReason, ForegroundSuppressed,
                      Registered, Running
  <2>4. suppressed \subseteq Job
    BY <1>1 DEF ManagerInv, ManagerTypeOK
  <2>5. \A i \in foreground \cup suppressed : i \in foreground' \/ seen'[i] # "no"
    BY <1>1, <2>1, <2>2, <2>3, <2>4
  <2>6. {b} \cap Running \in SUBSET Running /\ {b} \in SUBSET Job
    BY <1>1
  <2>7. \A i \in {b} \cap known : i \in suppressed'
    BY <2>1, <2>3
  <2> QED
    BY <2>1, <2>3, <2>5, <2>6, <2>7, CancelKeepsWay DEF Goal
<1>19. ASSUME NEW b \in Bash, ForegroundElapses(b) PROVE Goal
  BY <1>1, <1>19, ForegroundElapseKeepsWay DEF Goal
<1>20. ASSUME NEW j \in Job, Deliver(j) \/ DeliveryFails(j) PROVE Goal
  BY <1>1, <1>20, DeliveryKeepsWay DEF Goal
<1> QED
  BY <1>3, <1>4, <1>5, <1>6, <1>7, <1>8, <1>9, <1>10, <1>11, <1>12, <1>13, <1>14, <1>15,
     <1>16, <1>17, <1>18, <1>19, <1>20
     DEF Goal, ManagerStep, RunStep, ToolStep, DeliveryStep

\* A step that leaves the pipeline, the jobs and the tools alone.
LEMMA QuietKeepsWay ==
  ASSUME ResultsInv, UNCHANGED <<managerVars, entries>>
  PROVE  WayInv' /\ NoResultLost' /\ SeenOnce'
<1>1. UNCHANGED <<status, known, deliveryVars, toolVars, entries>> /\ UNCHANGED phase
  BY DEF managerVars, jobVars
<1> QED
  BY <1>1, PhasesKeepWay

\* The invariant of the results holds at first.
LEMMA ResultsInvInit == Init => ResultsInv
<1> SUFFICES ASSUME Init PROVE ResultsInv
  OBVIOUS
<1>1. ManagerInv
  BY ManagerInvInit DEF Init
<1>2. /\ \A j \in Job : status[j] = "none" /\ phase[j] = "none" /\ seen[j] = "no"
      /\ known = {} /\ suppressed = {} /\ watched = {} /\ deliveries = {} /\ inFlight = {}
      /\ entries = {} /\ foreground = {}
      /\ \A p \in Poll : tracked[p] = {} /\ watching[p] = {}
      /\ turn = "idle" /\ idleFlushPending = FALSE /\ flushTask = FALSE
  BY DEF Init, ManagerInit
<1>3. SessionTyped
  BY <1>2 DEF SessionTyped, Turns
<1>4. WayInv
  BY <1>2 DEF WayInv, SuppressedForAReason, WatchedByAPoll, EndedJobsEnded, OncePerPipeline,
     Pipeline, Registered, ForegroundSuppressed, SeenIsSettled, SeenWhileRunning, Ends
<1>5. NoResultLost /\ SeenOnce
  BY <1>2 DEF NoResultLost, Finished, SeenOnce
<1> QED
  BY <1>1, <1>3, <1>4, <1>5 DEF ResultsInv

\* Every step, of the manager or of the session, keeps the invariant of the results.
LEMMA ResultsInvStep == ResultsInv /\ [Next]_vars => ResultsInv'
<1> SUFFICES ASSUME ResultsInv, [Next]_vars PROVE ResultsInv'
  OBVIOUS
<1>1. ManagerInv /\ SessionTyped /\ seen \in [Job -> Learnt] /\ inFlight \subseteq Job
  BY DEF ResultsInv, ManagerInv, ManagerTypeOK
<1>2. CASE ManagerStep /\ UNCHANGED sessionVars
  <2>1. ManagerInv'
    BY <1>1, <1>2, RunStepKeeps, ToolStepKeeps, DeliveryStepKeeps, PartsMakeInv
       DEF ManagerStep, DeliveryStep
  <2>2. SessionTyped'
    BY <1>1, <1>2 DEF SessionTyped, sessionVars
  <2> QED
    BY <1>2, <2>1, <2>2, ManagerKeepsWay DEF ResultsInv
<1>3. ASSUME NEW j \in Job, HandOver(j) PROVE ResultsInv'
  <2>1. ManagerInv'
    BY <1>1, <1>3, DeliveryStepKeeps, PartsMakeInv DEF HandOver
  <2>2. SessionTyped'
    BY <1>1, <1>3 DEF SessionTyped, HandOver, IsStreaming
  <2> QED
    BY <1>3, <2>1, <2>2, HandOverKeepsWay DEF ResultsInv
<1>4. ASSUME Inject PROVE ManagerInv' /\ entries' \subseteq Job /\ WayInv' /\ NoResultLost' /\ SeenOnce'
  <2>1. seen' \in [Job -> Learnt]
    BY <1>1, <1>4 DEF Inject, Learnt
  <2>2. ManagerInv'
    BY <1>1, <1>4, <2>1, SeenStepKeeps, PartsMakeInv DEF Inject
  <2> QED
    BY <1>4, <2>2, InjectKeepsWay DEF Inject
<1>5. ASSUME UNCHANGED managerVars PROVE ManagerInv'
  BY <1>1, <1>5, ManagerInvStep
<1>6. CASE Boundary
  BY <1>1, <1>4, <1>6 DEF Boundary, SessionTyped, ResultsInv
<1>7. CASE IdleFlush
  <2>1. CASE IsStreaming
    <3>1. UNCHANGED <<managerVars, entries>>
      BY <1>7, <2>1 DEF IdleFlush
    <3> QED
      BY <1>1, <1>5, <1>7, <2>1, <3>1, QuietKeepsWay DEF IdleFlush, SessionTyped, ResultsInv
  <2>2. CASE ~IsStreaming
    BY <1>1, <1>4, <1>7, <2>2 DEF IdleFlush, SessionTyped, Turns, ResultsInv
  <2> QED
    BY <2>1, <2>2
<1>8. CASE Prompt \/ LoopStarts \/ LoopEnds \/ LoopCut \/ TurnEnds \/ Abort
  <2>1. UNCHANGED <<managerVars, entries>>
    BY <1>8 DEF Prompt, LoopStarts, LoopEnds, LoopCut, TurnEnds, Abort
  <2>2. SessionTyped'
    BY <1>1, <1>8 DEF Prompt, LoopStarts, LoopEnds, LoopCut, TurnEnds, Abort, SessionTyped, Turns
  <2> QED
    BY <1>5, <2>1, <2>2, QuietKeepsWay DEF ResultsInv
<1>9. CASE UNCHANGED vars
  <2>1. UNCHANGED <<managerVars, entries>> /\ SessionTyped'
    BY <1>1, <1>9 DEF vars, sessionVars, SessionTyped
  <2> QED
    BY <1>5, <2>1, QuietKeepsWay DEF ResultsInv
<1> QED
  BY <1>2, <1>3, <1>6, <1>7, <1>8, <1>9 DEF Next, SessionStep

-----------------------------------------------------------------------------
(* The theorems *)

\* The manager, the semaphore, the yield queue and the turn keep their types.
THEOREM Typed == Spec => []TypeOK
<1>1. Spec => []ResultsInv
  BY ResultsInvInit, ResultsInvStep, PTL DEF Spec
<1>2. ResultsInv => TypeOK
  BY DEF ResultsInv, ManagerInv, SessionTyped, TypeOK
<1> QED
  BY <1>1, <1>2, PTL

\* The result of a job that ended is seen, on its way, or going to be reported,
\* whatever suppresses, watches, retries or flushes it (async/job-manager.ts,
\* session/yield-queue.ts), for any jobs and polls.
THEOREM NoResultEverLost == Spec => []NoResultLost
<1>1. Spec => []ResultsInv
  BY ResultsInvInit, ResultsInvStep, PTL DEF Spec
<1>2. ResultsInv => NoResultLost
  BY DEF ResultsInv
<1> QED
  BY <1>1, <1>2, PTL

\* No result is injected that the agent has seen (isStale in sdk.ts), for any
\* jobs and polls, failed deliveries and interrupted turns.
THEOREM AlwaysSeenOnce == Spec => []SeenOnce
<1>1. Spec => []ResultsInv
  BY ResultsInvInit, ResultsInvStep, PTL DEF Spec
<1>2. ResultsInv => SeenOnce
  BY DEF ResultsInv
<1> QED
  BY <1>1, <1>2, PTL

-----------------------------------------------------------------------------
(* What a step may never do *)

\* What a step may never do to a job: change how it ended, be it that its run
\* settles after it was cancelled; bring it back after retention evicted it;
\* make the agent forget it; let its result into the pipeline at another moment
\* than that of its end, or out of it while the agent has not learnt of it and
\* no tool call is going to report it.
JobMovesOn(j) ==
  /\ status[j] # "none" => status'[j] # "none"
  /\ status[j] \in Ends \cup {"cancelled"} => status'[j] = status[j]
  /\ j \in known' \ known => status[j] = "none"
  /\ seen[j] # "no" => seen'[j] # "no"
  /\ j \in Pipeline' \ Pipeline => status[j] = "running" /\ status'[j] \in Ends
  /\ j \in Pipeline \ Pipeline' =>
       seen'[j] # "no" \/ j \in foreground' \/ \E p \in Poll : j \in tracked'[p]

JobsMoveOn == \A j \in Job : JobMovesOn(j)

\* Every step of the manager moves the jobs on.
LEMMA ManagerMovesOn ==
  ASSUME ResultsInv, ManagerStep, UNCHANGED sessionVars
  PROVE  JobsMoveOn
<1>1. /\ UNCHANGED entries
      /\ status \in [Job -> {"none", "running", "completed", "failed", "cancelled"}]
      /\ seen \in [Job -> Learnt]
      /\ tracked \in [Poll -> SUBSET Job] /\ watching \in [Poll -> SUBSET Job]
      /\ known \subseteq Job /\ deliveries \subseteq Job /\ foreground \subseteq Job
      /\ Bash \subseteq Job /\ Spawn \subseteq Job
  BY DEF ResultsInv, ManagerInv, ManagerTypeOK, sessionVars, Job
<1>2. /\ \A j \in suppressed : j \in foreground \/ seen[j] # "no"
      /\ \A j \in watched : \E p \in Poll : j \in watching[p]
      /\ \A p \in Poll : watching[p] \subseteq tracked[p]
  BY DEF ResultsInv, WayInv, SuppressedForAReason, WatchedByAPoll
<1>3. \A S : Reported(S) => /\ \A j \in S \cap Job : seen'[j] # "no"
                            /\ \A j \in Job : seen[j] # "no" => seen'[j] # "no"
  BY DEF Reported
<1>4. ASSUME UNCHANGED <<status, known, seen, deliveries, inFlight>>
      PROVE  JobsMoveOn
  BY <1>1, <1>4 DEF JobsMoveOn, JobMovesOn, Pipeline, Ends
<1>5. ASSUME NEW i \in Job, MayRegister(i), Enrolled(i), UNCHANGED <<seen, deliveries, inFlight>>
      PROVE  JobsMoveOn
  BY <1>1, <1>5 DEF MayRegister, Enrolled, JobsMoveOn, JobMovesOn, Pipeline, Ends
<1>6. ASSUME NEW i \in Job, NEW e \in Ends, Settled(i, e), UNCHANGED <<known, seen, inFlight>>
      PROVE  JobsMoveOn
  BY <1>1, <1>6 DEF Settled, JobsMoveOn, JobMovesOn, Pipeline, Ends
<1>7. ASSUME NEW S \in SUBSET Running, Cancelled(S), UNCHANGED inFlight,
             \A j \in Job : seen[j] # "no" => seen'[j] # "no",
             deliveries' \subseteq deliveries,
             \A j \in deliveries \ deliveries' :
               seen'[j] # "no" \/ j \in foreground' \/ \E p \in Poll : j \in tracked'[p]
      PROVE  JobsMoveOn
  BY <1>1, <1>7 DEF Cancelled, Running, JobsMoveOn, JobMovesOn, Pipeline, Ends
<1>8. ASSUME NEW S \in SUBSET Job, NEW W, Report(S, W),
             UNCHANGED <<status, known, foreground>>,
             \A j \in W : \E p \in Poll : j \in tracked'[p]
      PROVE  JobsMoveOn
  <2> DEFINE ended == {j \in S : status[j] # "running"}
  <2>1. /\ \A j \in ended : seen'[j] # "no"
        /\ \A j \in Job : seen[j] # "no" => seen'[j] # "no"
        /\ deliveries' = deliveries \ (ended \cup suppressed \cup W)
        /\ UNCHANGED inFlight
    BY <1>3, <1>8 DEF Report
  <2> HIDE DEF ended
  <2>2. \A j \in deliveries \ deliveries' :
          seen'[j] # "no" \/ j \in foreground' \/ \E p \in Poll : j \in tracked'[p]
    BY <1>1, <1>2, <1>8, <2>1
  <2> QED
    BY <1>1, <1>8, <2>1, <2>2 DEF JobsMoveOn, JobMovesOn, Pipeline, Ends
<1>9. ASSUME NEW l \in Limits, ChangeLimit(l) PROVE JobsMoveOn
  BY <1>4, <1>9 DEF ChangeLimit, jobVars, deliveryVars, toolVars
<1>10. ASSUME NEW b \in Bash, StartBackground(b) \/ StartForeground(b) \/ CommandEnds(b)
       PROVE  JobsMoveOn
  <2>1. CASE CommandEnds(b)
    BY <1>4, <2>1 DEF CommandEnds, deliveryVars, toolVars
  <2>2. CASE StartBackground(b) \/ StartForeground(b)
    BY <1>1, <1>5, <2>2 DEF StartBackground, StartForeground, toolVars
  <2> QED
    BY <1>10, <2>1, <2>2
<1>11. ASSUME NEW b \in Bash, NEW e \in Ends, BashSettles(b, e) PROVE JobsMoveOn
  BY <1>1, <1>6, <1>11 DEF BashSettles, toolVars
<1>12. ASSUME NEW s \in Spawn, StartSpawn(s) PROVE JobsMoveOn
  BY <1>1, <1>5, <1>12 DEF StartSpawn, toolVars
<1>13. ASSUME NEW s \in Spawn, ResumeSpawn(s) PROVE JobsMoveOn
  BY <1>4, <1>13 DEF ResumeSpawn, deliveryVars, toolVars
<1>14. ASSUME NEW s \in Spawn, NEW e \in Ends, SpawnSettles(s, e) PROVE JobsMoveOn
  BY <1>1, <1>6, <1>14 DEF SpawnSettles, toolVars
<1>15. CASE CancelAll
  <2>1. Running \in SUBSET Running /\ Cancelled(Running)
    BY <1>15 DEF CancelAll
  <2> QED
    BY <1>7, <1>15, <2>1 DEF CancelAll, deliveryVars, toolVars
<1>16. ASSUME NEW j \in Job, Evict(j) PROVE JobsMoveOn
  BY <1>1, <1>16 DEF Evict, toolVars, JobsMoveOn, JobMovesOn, Pipeline, Ends
<1>17. ASSUME NEW S \in SUBSET Job, ReportNow(S) PROVE JobsMoveOn
  BY <1>2, <1>8, <1>17 DEF ReportNow, jobVars
<1>18. ASSUME NEW p \in Poll, NEW S \in SUBSET Job, StartPoll(p, S) PROVE JobsMoveOn
  BY <1>4, <1>18 DEF StartPoll, jobVars
<1>19. ASSUME NEW p \in Poll, EndPoll(p) PROVE JobsMoveOn
  <2>1. \A j \in watched \ watching[p] : \E q \in Poll : j \in tracked'[q]
    BY <1>1, <1>2, <1>19 DEF EndPoll
  <2>2. tracked[p] \in SUBSET Job /\ Report(tracked[p], watched \ watching[p])
        /\ UNCHANGED <<status, known, foreground>>
    BY <1>1, <1>19 DEF EndPoll, jobVars
  <2> QED
    BY <1>8, <2>1, <2>2
<1>20. ASSUME NEW j \in Job, CancelByTool(j) PROVE JobsMoveOn
  <2>1. {j} \in SUBSET Running /\ Cancelled({j}) /\ Reported({j})
        /\ deliveries' = deliveries \ (Suppressed \cup {j})
        /\ UNCHANGED <<inFlight, tracked, foreground>>
    BY <1>20 DEF CancelByTool
  <2>2. seen'[j] # "no" /\ \A i \in Job : seen[i] # "no" => seen'[i] # "no"
    BY <1>3, <2>1
  <2>3. \A i \in deliveries \ deliveries' :
          seen'[i] # "no" \/ i \in foreground' \/ \E p \in Poll : i \in tracked'[p]
    BY <1>1, <1>2, <2>1, <2>2 DEF Suppressed
  <2> QED
    BY <1>7, <2>1, <2>2, <2>3
<1>21. ASSUME NEW b \in Bash, ForegroundReturns(b) PROVE JobsMoveOn
  BY <1>1, <1>3, <1>21 DEF ForegroundReturns, jobVars, deliveryVars, JobsMoveOn, JobMovesOn,
     Pipeline, Ends
<1>22. ASSUME NEW b \in Bash, ForegroundAborts(b) PROVE JobsMoveOn
  <2>1. {b} \cap Running \in SUBSET Running /\ Cancelled({b} \cap Running) /\ Reported({b})
        /\ UNCHANGED <<deliveries, inFlight>>
    BY <1>22 DEF ForegroundAborts, deliveryVars
  <2> QED
    BY <1>3, <1>7, <2>1
<1>23. ASSUME NEW b \in Bash, ForegroundElapses(b) PROVE JobsMoveOn
  BY <1>4, <1>23 DEF ForegroundElapses, jobVars
<1>24. ASSUME NEW j \in Job, Deliver(j) \/ DeliveryFails(j) PROVE JobsMoveOn
  <2>1. UNCHANGED <<status, known, tracked, foreground, seen>>
    BY <1>24 DEF Deliver, DeliveryFails, jobVars, toolVars
  <2>2. CASE Deliver(j)
    BY <1>1, <2>1, <2>2 DEF Deliver, JobsMoveOn, JobMovesOn, Pipeline, Ends
  <2>3. CASE DeliveryFails(j)
    <3>1. /\ j \in inFlight /\ inFlight' = inFlight \ {j}
          /\ deliveries' = deliveries \cup ({j} \ Suppressed)
      BY <2>3 DEF DeliveryFails
    <3>2. j \in Suppressed => seen[j] # "no" \/ j \in foreground \/ \E p \in Poll : j \in tracked[p]
      BY <1>2 DEF Suppressed
    <3> QED
      BY <1>1, <2>1, <3>1, <3>2 DEF JobsMoveOn, JobMovesOn, Pipeline, Ends
  <2> QED
    BY <1>24, <2>2, <2>3
<1> QED
  BY <1>9, <1>10, <1>11, <1>12, <1>13, <1>14, <1>15, <1>16, <1>17, <1>18, <1>19, <1>20, <1>21,
     <1>22, <1>23, <1>24 DEF ManagerStep, RunStep, ToolStep, DeliveryStep

\* So does every step of the session.
LEMMA SessionMovesOn ==
  ASSUME ResultsInv, \/ \E j \in Job : HandOver(j)
                     \/ SessionStep
                     \/ UNCHANGED vars
  PROVE  JobsMoveOn
<1>1. /\ status \in [Job -> {"none", "running", "completed", "failed", "cancelled"}]
      /\ seen \in [Job -> Learnt] /\ entries \subseteq Job
  BY DEF ResultsInv, ManagerInv, ManagerTypeOK, SessionTyped
<1>2. \A j \in Suppressed : seen[j] # "no" \/ j \in foreground \/ \E p \in Poll : j \in tracked[p]
  BY DEF Suppressed, ResultsInv, WayInv, SuppressedForAReason, WatchedByAPoll
<1>3. ASSUME UNCHANGED <<managerVars, entries>> PROVE JobsMoveOn
  BY <1>1, <1>3 DEF managerVars, jobVars, deliveryVars, toolVars, JobsMoveOn, JobMovesOn,
     Pipeline, Ends
<1>4. ASSUME NEW j \in Job, HandOver(j) PROVE JobsMoveOn
  <2>1. /\ UNCHANGED <<status, known, tracked, foreground, seen, deliveries>>
        /\ j \in inFlight /\ inFlight' = inFlight \ {j}
        /\ IF j \in Suppressed THEN entries' = entries ELSE entries' = entries \cup {j}
    BY <1>4 DEF HandOver, Delivered, jobVars, toolVars
  <2> QED
    BY <1>1, <1>2, <2>1 DEF JobsMoveOn, JobMovesOn, Pipeline, Ends
<1>5. ASSUME Inject PROVE JobsMoveOn
  <2>1. /\ UNCHANGED <<status, known, tracked, foreground, deliveries, inFlight>>
        /\ entries' = {}
        /\ \A j \in Job : seen'[j] = IF j \notin Fresh THEN seen[j]
                                    ELSE IF seen[j] = "no" THEN "once" ELSE "again"
    BY <1>5 DEF Inject, jobVars, deliveryVars
  <2>2. \A j \in entries : j \in Fresh \/ j \in Suppressed
    BY DEF Fresh
  <2> QED
    BY <1>1, <1>2, <2>1, <2>2 DEF JobsMoveOn, JobMovesOn, Pipeline, Ends
<1>6. CASE SessionStep
  BY <1>3, <1>5, <1>6 DEF SessionStep, Prompt, LoopStarts, Boundary, LoopEnds, LoopCut, TurnEnds,
     Abort, IdleFlush
<1>7. CASE UNCHANGED vars
  BY <1>3, <1>7 DEF vars, sessionVars
<1> QED
  BY <1>4, <1>6, <1>7

\* A job ends once, and its result enters the pipeline at that moment only and
\* leaves it only when it was seen or a waiting tool call will report it
\* (async/job-manager.ts, sdk.ts), evicted or not: a cancelled job whose run
\* settles late never reports, and no delivery is dropped that the agent needs.
THEOREM JobsOnlyMoveOn == Spec => [][JobsMoveOn]_vars
<1>1. ResultsInv /\ [Next]_vars => JobsMoveOn
  BY ManagerMovesOn, SessionMovesOn DEF Next
<1> QED
  BY <1>1, ResultsInvInit, ResultsInvStep, PTL DEF Spec

\* A result is in one place of the pipeline, be it retried or suppressed on its
\* way, and it is that of a job that completed or failed: none is delivered for
\* a job that runs or was cancelled.
THEOREM InOnePlace == Spec => []OncePerPipeline
<1>1. Spec => []ResultsInv
  BY ResultsInvInit, ResultsInvStep, PTL DEF Spec
<1>2. ResultsInv => OncePerPipeline
  BY DEF ResultsInv, WayInv
<1> QED
  BY <1>1, <1>2, PTL
=============================================================================
