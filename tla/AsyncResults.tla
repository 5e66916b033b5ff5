---------------------------- MODULE AsyncResults ----------------------------
(***************************************************************************)
(* How the end of a background job reaches the model: the job manager      *)
(* (module AsyncJobs) hands the result to the session's yield queue        *)
(* (sdk.ts, session/yield-queue.ts), which the agent loop drains at its    *)
(* step boundaries (agent-loop.ts) and an idle flush drains between turns  *)
(* (agent-session.ts).                                                     *)
(*                                                                         *)
(* The session is one turn at a time; while `turn` is not "idle" it        *)
(* reports isStreaming.  "busy" is a prompt call outside the loop: before  *)
(* it starts, and from its last look at the queue to the end of the call   *)
(* (the recovery after a prompt, an abort waiting for the loop to settle). *)
(***************************************************************************)
EXTENDS AsyncJobs

VARIABLES
  entries,           \* the jobs whose results are in the yield queue
  turn,              \* "idle", "loop" or "busy": before or after the loop
  idleFlushPending,  \* #idleFlushPending
  flushTask          \* whether a post-prompt task is going to flush

sessionVars == <<entries, turn, idleFlushPending, flushTask>>
vars == <<managerVars, sessionVars>>

Turns == {"idle", "busy", "loop"}

\* Every variable has its type.
TypeOK ==
  /\ ManagerTypeOK
  /\ entries \subseteq Job
  /\ turn \in Turns
  /\ idleFlushPending \in BOOLEAN
  /\ flushTask \in BOOLEAN

Init ==
  /\ ManagerInit
  /\ entries = {}
  /\ turn = "idle"
  /\ idleFlushPending = FALSE
  /\ flushTask = FALSE

IsStreaming == turn # "idle"

\* Mutant: results are injected even if a tool call has reported them.
FreshAll == entries

\* isStale drops what a tool call has reported or is waiting for.
Fresh == entries \ Suppressed

-----------------------------------------------------------------------------

\* onJobComplete after formatting the result: it looks again whether the
\* delivery is suppressed, and enqueues; idle, the queue schedules a flush.
HandOver(j) ==
  /\ Delivered(j)
  /\ IF j \in Suppressed
     THEN UNCHANGED <<entries, idleFlushPending, flushTask>>
     ELSE /\ entries' = entries \cup {j}
          /\ idleFlushPending' = (idleFlushPending \/ ~IsStreaming)
          /\ flushTask' = (flushTask \/ (~IsStreaming /\ ~idleFlushPending))
  /\ UNCHANGED turn

\* The queue is drained, and what is fresh is injected.
Inject ==
  /\ entries' = {}
  /\ seen' = [j \in Job |->
       IF j \notin Fresh THEN seen[j]
       ELSE IF seen[j] = "no" THEN "once" ELSE "again"]
  /\ UNCHANGED <<jobVars, deliveryVars, tracked, watching, foreground, permitVars>>

\* A prompt of the user or of the program.
Prompt ==
  /\ turn = "idle"
  /\ turn' = "busy"
  /\ UNCHANGED <<managerVars, entries, idleFlushPending, flushTask>>

LoopStarts ==
  /\ turn = "busy"
  /\ turn' = "loop"
  /\ UNCHANGED <<managerVars, entries, idleFlushPending, flushTask>>

\* The loop takes the asides between two requests, and before it would stop:
\* something to inject makes it go on.
Boundary ==
  /\ turn = "loop"
  /\ entries # {}
  /\ Inject
  /\ UNCHANGED <<turn, idleFlushPending, flushTask>>

\* Nothing was left to inject.
LoopEnds ==
  /\ turn = "loop"
  /\ entries = {}
  /\ turn' = "busy"
  /\ UNCHANGED <<managerVars, entries, idleFlushPending, flushTask>>

\* A deadline, a terminal tool call or an error ends the loop with no look at
\* the queue.
LoopCut ==
  /\ turn = "loop"
  /\ turn' = "busy"
  /\ UNCHANGED <<managerVars, entries, idleFlushPending, flushTask>>

\* #endInFlight: stranded messages and IRC asides are looked after.
TurnEnds ==
  /\ turn = "busy"
  /\ turn' = "idle"
  /\ UNCHANGED <<managerVars, entries, idleFlushPending, flushTask>>

\* abort() cancels the post-prompt tasks, an idle flush among them, and stops
\* the loop without a last look at the queue.
Abort ==
  /\ flushTask \/ turn \in {"busy", "loop"}
  /\ flushTask' = FALSE
  /\ turn' = IF turn = "idle" THEN "idle" ELSE "busy"
  /\ UNCHANGED <<managerVars, entries, idleFlushPending>>

\* The scheduled flush: a turn that began meanwhile is left to drain the queue.
IdleFlush ==
  /\ flushTask
  /\ flushTask' = FALSE
  /\ idleFlushPending' = FALSE
  /\ IF IsStreaming
     THEN UNCHANGED <<managerVars, entries, turn>>
     ELSE /\ Inject
          /\ turn' = IF Fresh = {} THEN "idle" ELSE "loop"

SessionStep ==
  \/ Prompt
  \/ LoopStarts
  \/ Boundary
  \/ LoopEnds
  \/ LoopCut
  \/ TurnEnds
  \/ Abort
  \/ IdleFlush

Next ==
  \/ (ManagerStep /\ UNCHANGED sessionVars)
  \/ \E j \in Job : HandOver(j)
  \/ SessionStep

Spec == Init /\ [][Next]_vars

-----------------------------------------------------------------------------
(* Properties *)

\* The result of a job that ended is never lost between the manager, the tools
\* and the session: the agent has seen it, a tool call that waits is going to
\* report it, or its delivery is under way; until retention evicts the job.
NoResultLost ==
  \A j \in Finished :
    \/ seen[j] # "no"
    \/ j \in deliveries \cup inFlight \cup entries
    \/ j \in foreground
    \/ \E p \in Poll : j \in tracked[p]

\* A result is injected into a turn at most once, and not after a tool call
\* has reported it, though polls overlap, foreground waits go to the
\* background and deliveries are retried; until retention evicts the job.
SeenOnce == \A j \in known : seen[j] # "again"

\* A result that waits in an idle session has a flush under way that will
\* wake the session: "deliver their results automatically the moment they
\* finish" (prompts/tools/job.md).
NoResultStranded == turn = "idle" /\ Fresh # {} => flushTask

=============================================================================
