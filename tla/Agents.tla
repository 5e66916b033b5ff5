------------------------------- MODULE Agents -------------------------------
(***************************************************************************)
(* The life of one subagent and the messages its peers send it: the entry  *)
(* of the agent registry (registry/agent-registry.ts), its parking and     *)
(* revival (registry/agent-lifecycle.ts), the registration of a session    *)
(* (sdk.ts), the end of the task that spawned it (task/executor.ts), the   *)
(* message bus (irc/bus.ts, tools/irc.ts) and the part of the session that *)
(* receives messages (session/agent-session.ts).                           *)
(*                                                                         *)
(* A subagent outlives its sessions: an idle one is parked, its session    *)
(* disposed and its transcript kept in a file, and a message to a parked   *)
(* agent reopens the file in a new session.  Disposing a session and       *)
(* creating one take time, and everything else may happen meanwhile.       *)
(* What runs in one turn of the event loop is one action; the code after   *)
(* an await whose promise has settled runs before anything else (Resumes). *)
(***************************************************************************)
EXTENDS Naturals, Sequences, FiniteSets, SequencesExt

CONSTANTS
  Peers,        \* the agents that send messages
  PerPeer,      \* how many messages each of them sends
  MailboxCap,   \* MAILBOX_CAP: how many messages a mailbox keeps
  MaxSessions   \* bound: the sessions the agent is given one after another

ASSUME AgentsAssumption ==
  /\ PerPeer \in Nat /\ MailboxCap \in Nat \ {0} /\ MaxSessions \in Nat \ {0}
  /\ "any" \notin Peers /\ "no" \notin Peers

Session == 1..MaxSessions

Msg == [from : Peers, n : 1..PerPeer]

\* No session, and an agent the registry does not know.
Null == 0
NoRef == [status |-> "unknown", session |-> Null, historyOnly |-> FALSE]

VARIABLES
  ref,        \* the registry's AgentRef: its status, session and policy
  adopted,    \* whether #adopted holds the agent, with a reviver
  timer,      \* whether the idle timer of the adoption is armed
  restored,   \* whether the agent was restored from disk
  run,        \* the task that spawned the agent, as far as it has come
  sess,       \* session -> how far it is from being created to disposed
  turn,       \* session -> what its agent loop does
  parks,      \* the sessions a park() in flight is disposing
  releases,   \* the sessions a release() in flight is disposing
  revival,    \* how far the one entry of #revivals is
  coldAdopted,\* coldAdopted of that revival
  pending,    \* session -> the messages in #pendingIrcInterrupts
  heard,      \* message -> how often the agent has been given it
  mailbox,    \* the agent's mailbox on the bus
  waiting,    \* whose message the agent's irc wait waits for
  sending,    \* message -> how far send() is
  receipt     \* message -> the outcome send() returned

registryVars == <<ref, adopted, timer, restored, run>>
sessionVars == <<sess, turn>>
lifecycleVars == <<parks, releases, revival, coldAdopted>>
agentVars == <<registryVars, sessionVars, lifecycleVars>>
busVars == <<sending, receipt>>
inboxVars == <<pending, heard, mailbox, waiting>>
messageVars == <<busVars, inboxVars>>
vars == <<agentVars, messageVars>>

Registered == ref # NoRef

\* Whether an await of a settled promise is about to resume.
Resumes ==
  \/ \E m \in Msg : sending[m] = "ready"
  \/ \E s \in parks \cup releases : sess[s] = "disposed"
  \/ run \in {"terminal", "isolating", "abandoned"} /\ sess[1] = "disposed"

\* A session is opened; the next one has the next number.
Created == {s \in Session : sess[s] # "none"}
Fresh == Cardinality(Created) + 1

-----------------------------------------------------------------------------
\* What the handlers share

\* Mutant: a revived agent, coming back from "parked", arms no timer.
BecomesAfterRun(r, status) ==
  /\ ref' = IF r = NoRef THEN r ELSE [r EXCEPT !.status = status]
  /\ timer' = IF adopted /\ r.status # status
                  /\ (status = "running" \/ (status = "idle" /\ r.status = "running"))
              THEN status = "idle" ELSE timer

\* setStatus on the ref r, and #onRegistryEvent, which hears of a change.
Becomes(r, status) ==
  /\ ref' = IF r = NoRef THEN r ELSE [r EXCEPT !.status = status]
  /\ timer' = IF adopted /\ r # NoRef /\ r.status # status /\ status \in {"running", "idle"}
              THEN status = "idle" ELSE timer

\* unregister, and the removal of the adoption that follows from it.
Unregister ==
  /\ ref' = NoRef
  /\ adopted' = (adopted /\ ~Registered)
  /\ timer' = (timer /\ ~Registered)

\* Mutant: a disposed session keeps the messages it has not shown the agent.
BeginDisposeKeeping(s) ==
  /\ sess' = IF sess[s] = "live" THEN [sess EXCEPT ![s] = "disposing"] ELSE sess
  /\ UNCHANGED <<pending, heard>>

\* beginDispose: pending messages go to the transcript; a second call, or
\* a call on a disposed session, shares the first one.
BeginDispose(s) ==
  /\ sess' = IF sess[s] = "live" THEN [sess EXCEPT ![s] = "disposing"] ELSE sess
  /\ pending' = [pending EXCEPT ![s] = {}]
  /\ heard' = [m \in Msg |-> heard[m] + (IF m \in pending[s] THEN 1 ELSE 0)]

\* The loop of session s is over: the spawning run's first turn with it.
RunAfter(s) == IF s = 1 /\ run = "prompting" THEN "ending" ELSE run

\* The callers of ensureLive who share the revival get its outcome.
Reviving == {m \in Msg : sending[m] = "reviving"}
Resolved == sending' = [m \in Msg |-> IF m \in Reviving THEN "ready" ELSE sending[m]]
Rejected ==
  /\ sending' = [m \in Msg |-> IF m \in Reviving THEN "done" ELSE sending[m]]
  /\ receipt' = [m \in Msg |-> IF m \in Reviving THEN "failed" ELSE receipt[m]]

-----------------------------------------------------------------------------
\* The agent's turns

\* A user prompts the live session from the Agent Hub: session.prompt
\* prepares the turn (API key, compaction) before the loop starts.
Prompt(s) ==
  /\ ref.session = s /\ sess[s] = "live" /\ turn[s] = "none"
  /\ turn' = [turn EXCEPT ![s] = "preparing"]
  /\ UNCHANGED <<registryVars, sess, lifecycleVars, messageVars>>

\* Whether the status listener (installRegistryStatusSync) is installed: a
\* cold revive installs it when the session has long been attached.
Listening(s) == revival # "attached" \/ s < Fresh - 1

\* agent_start, and the listener that sets the status.
AgentStart(s) ==
  /\ turn[s] \in {"preparing", "waking"}
  /\ turn' = [turn EXCEPT ![s] = "running"]
  /\ IF Listening(s) THEN Becomes(ref, "running") ELSE UNCHANGED <<ref, timer>>
  /\ UNCHANGED <<adopted, restored, run, sess, lifecycleVars, messageVars>>

\* The loop takes the pending messages at a step boundary.
Boundary(s) ==
  /\ sess[s] = "live" /\ turn[s] = "running" /\ waiting = "no" /\ pending[s] # {}
  /\ pending' = [pending EXCEPT ![s] = {}]
  /\ heard' = [m \in Msg |-> heard[m] + (IF m \in pending[s] THEN 1 ELSE 0)]
  /\ UNCHANGED <<agentVars, mailbox, waiting, busVars>>

\* Mutant: messages that come after the last boundary wait for a prompt.
SettleStranding(s) ==
  /\ turn' = [turn EXCEPT ![s] = "none"]
  /\ UNCHANGED <<pending, heard>>

\* #endInFlight and #resumeStrandedIrcAsides: messages that came after the
\* loop's last boundary wake a turn of their own.
Settle(s) ==
  /\ turn' = [turn EXCEPT ![s] = IF pending[s] = {} THEN "none" ELSE "waking"]
  /\ pending' = [pending EXCEPT ![s] = {}]
  /\ heard' = [m \in Msg |-> heard[m] + (IF m \in pending[s] THEN 1 ELSE 0)]

\* agent_end of a turn that is over, or that a user aborts.
TurnEnds(s) ==
  /\ sess[s] = "live" /\ turn[s] = "running" /\ waiting = "no"
  /\ IF Listening(s) THEN Becomes(ref, "idle") ELSE UNCHANGED <<ref, timer>>
  /\ Settle(s)
  /\ run' = RunAfter(s)
  /\ UNCHANGED <<adopted, restored, sess, lifecycleVars, mailbox, waiting, busVars>>

\* The prompt fails while it is prepared: no key, no model.
PromptFails(s) ==
  /\ sess[s] = "live" /\ turn[s] = "preparing"
  /\ Settle(s)
  /\ UNCHANGED <<registryVars, sess, lifecycleVars, mailbox, waiting, busVars>>

\* The abort of dispose reaches the loop, which still emits its agent_end.
TurnDies(s) ==
  /\ sess[s] = "disposing" /\ turn[s] = "running"
  /\ turn' = [turn EXCEPT ![s] = "none"]
  /\ waiting' = "no"
  /\ IF Listening(s) THEN Becomes(ref, "idle") ELSE UNCHANGED <<ref, timer>>
  /\ run' = RunAfter(s)
  /\ UNCHANGED <<adopted, restored, sess, lifecycleVars, pending, heard, mailbox, busVars>>

\* #doDispose is through: listeners removed, the transcript closed.
DisposeEnds(s) ==
  /\ sess[s] = "disposing"
  /\ sess' = [sess EXCEPT ![s] = "disposed"]
  /\ turn' = [turn EXCEPT ![s] = "none"]
  /\ waiting' = IF turn[s] = "running" THEN "no" ELSE waiting
  /\ run' = RunAfter(s)
  /\ UNCHANGED <<ref, adopted, timer, restored, lifecycleVars, pending, heard, mailbox, busVars>>

-----------------------------------------------------------------------------
\* The end of the spawning task: finalizeSubagentLifecycle

\* The subagent stays: idle, and owned by the lifecycle manager from now on.
FinishKeepAlive ==
  /\ run = "ending"
  /\ run' = "over"
  /\ ref' = IF Registered THEN [ref EXCEPT !.status = "idle"] ELSE ref
  /\ adopted' = (adopted \/ Registered)
  /\ timer' = (timer \/ Registered)
  /\ UNCHANGED <<restored, sessionVars, lifecycleVars, messageVars>>

\* A hard abort: the status is terminal and the session disposed.
FinishAborted ==
  /\ run = "ending"
  /\ run' = "terminal"
  /\ Becomes(ref, "aborted")
  /\ BeginDispose(1)
  /\ UNCHANGED <<adopted, restored, turn, lifecycleVars, mailbox, waiting, busVars>>

\* An isolated run: its worktree goes, so only the transcript is kept. The
\* status is "parked" before the dispose, which would unregister it.
FinishIsolated ==
  /\ run = "ending"
  /\ run' = "isolating"
  /\ ref' = IF Registered THEN [ref EXCEPT !.status = "parked", !.historyOnly = TRUE] ELSE ref
  /\ BeginDispose(1)
  /\ UNCHANGED <<adopted, timer, restored, turn, lifecycleVars, mailbox, waiting, busVars>>

\* The five seconds granted to the dispose of an isolated run are over.
FinishAbandons ==
  /\ run = "isolating" /\ sess[1] = "disposing"
  /\ run' = "abandoned"
  /\ ref' = [ref EXCEPT !.session = Null]
  /\ UNCHANGED <<adopted, timer, restored, sessionVars, lifecycleVars, messageVars>>

\* unregisterUnlessParked at the end of that dispose, and detachSession.
FinishDisposed ==
  /\ run \in {"terminal", "isolating", "abandoned"} /\ sess[1] = "disposed"
  /\ run' = "over"
  /\ IF ref.status = "parked"
     THEN ref' = [ref EXCEPT !.session = Null] /\ UNCHANGED <<adopted, timer>>
     ELSE Unregister
  /\ UNCHANGED <<restored, sessionVars, lifecycleVars, messageVars>>

-----------------------------------------------------------------------------
\* The lifecycle manager

\* The idle timer fires: park() disposes the session, if there is one.
TimerFires ==
  /\ timer
  /\ timer' = FALSE
  /\ IF ref.session = Null
     THEN UNCHANGED <<parks, sess, pending, heard>>
     ELSE parks' = parks \cup {ref.session} /\ BeginDispose(ref.session)
  /\ UNCHANGED <<ref, adopted, restored, run, turn, releases, revival, coldAdopted, mailbox, waiting, busVars>>

\* Mutant: the session is detached while its dispose is still going on.
ParkEndsEarly(s) ==
  /\ s \in parks
  /\ parks' = parks \ {s}
  /\ Becomes([ref EXCEPT !.session = Null], "parked")
  /\ UNCHANGED <<adopted, restored, run, sessionVars, releases, revival, coldAdopted, messageVars>>

\* park() after the dispose: detachSession and setStatus.
ParkEnds(s) ==
  /\ s \in parks /\ sess[s] = "disposed"
  /\ parks' = parks \ {s}
  /\ Becomes([ref EXCEPT !.session = Null], "parked")
  /\ UNCHANGED <<adopted, restored, run, sessionVars, releases, revival, coldAdopted, messageVars>>

\* Mutant: release() leaves the idle timer running.
ReleaseTimed ==
  /\ Registered
  /\ adopted' = FALSE
  /\ IF ref.session = Null
     THEN ref' = NoRef /\ UNCHANGED <<releases, sess, pending, heard>>
     ELSE /\ releases' = releases \cup {ref.session}
          /\ BeginDispose(ref.session)
          /\ UNCHANGED ref
  /\ UNCHANGED <<timer, restored, run, turn, parks, revival, coldAdopted, mailbox, waiting, busVars>>

\* release(): a user kills the agent from the hub, at any time.
Release ==
  /\ Registered
  /\ adopted' = FALSE
  /\ timer' = FALSE
  /\ IF ref.session = Null
     THEN ref' = NoRef /\ UNCHANGED <<releases, sess, pending, heard>>
     ELSE /\ releases' = releases \cup {ref.session}
          /\ BeginDispose(ref.session)
          /\ UNCHANGED ref
  /\ UNCHANGED <<restored, run, turn, parks, revival, coldAdopted, mailbox, waiting, busVars>>

ReleaseEnds(s) ==
  /\ s \in releases /\ sess[s] = "disposed"
  /\ releases' = releases \ {s}
  /\ Unregister
  /\ UNCHANGED <<restored, run, sessionVars, parks, revival, coldAdopted, messageVars>>

\* ensureLive of a parked agent without session or revival: the reviver is
\* the adoption's, or the persisted factory is asked for one.
CanRevive == ref.status = "parked" /\ ~ref.historyOnly
StartRevival ==
  /\ Fresh <= MaxSessions
  /\ revival' = IF adopted THEN "opening" ELSE "resolving"
  /\ coldAdopted' = FALSE

\* A revive command of the hub.
Revive ==
  /\ ref.session = Null /\ revival = "none" /\ CanRevive
  /\ StartRevival
  /\ UNCHANGED <<registryVars, sessionVars, parks, releases, messageVars>>

\* The factory returns a reviver, which adopts the agent.
ReviverResolved ==
  /\ revival = "resolving"
  /\ revival' = "opening"
  /\ adopted' = TRUE
  /\ coldAdopted' = TRUE
  /\ UNCHANGED <<ref, timer, restored, run, sessionVars, parks, releases, messageVars>>

\* The transcript is open; createAgentSession registers the agent anew.
RevivalRegisters ==
  /\ revival = "opening"
  /\ revival' = "building"
  /\ ref' = [status |-> "running", session |-> Null, historyOnly |-> FALSE]
  /\ UNCHANGED <<adopted, timer, restored, run, sessionVars, parks, releases, coldAdopted, messageVars>>

Attached(s) == IF Registered THEN [ref EXCEPT !.session = s] ELSE ref

\* The session exists and is attached. A live subagent's reviver returns at
\* once, and #revive makes the agent idle; a persisted one's sets tools.
RevivalAttaches ==
  LET s == Fresh IN
  /\ revival = "building"
  /\ sess' = [sess EXCEPT ![s] = "live"]
  /\ IF restored
     THEN revival' = "attached" /\ ref' = Attached(s) /\ UNCHANGED <<timer, sending>>
     ELSE revival' = "none" /\ Becomes(Attached(s), "idle") /\ Resolved
  /\ UNCHANGED <<adopted, restored, run, turn, parks, releases, coldAdopted, receipt, inboxVars>>

\* The persisted reviver returns too.
RevivalEnds ==
  /\ revival = "attached"
  /\ revival' = "none"
  /\ Becomes(Attached(Fresh - 1), "idle")
  /\ Resolved
  /\ UNCHANGED <<adopted, restored, run, sessionVars, parks, releases, coldAdopted, receipt, inboxVars>>

\* The part of a failure the callers see.
RevivalGivesUp ==
  /\ revival \in {"resolving", "opening", "building"}
  /\ revival' = "none"
  /\ Rejected
  /\ UNCHANGED <<restored, run, sessionVars, parks, releases, coldAdopted, inboxVars>>

\* Mutant: the reviver a failed cold revive installed stays.
RevivalFailsSticky ==
  /\ RevivalGivesUp
  /\ IF revival = "building" THEN Unregister ELSE UNCHANGED <<ref, adopted, timer>>

\* The factory declines, the transcript does not open, or createAgentSession
\* throws, which unregisters the agent. A reviver that a cold revive
\* installed is dropped.
RevivalFails ==
  LET unregisters == revival = "building" /\ Registered
      drops == coldAdopted \/ unregisters IN
  /\ RevivalGivesUp
  /\ ref' = IF unregisters THEN NoRef ELSE ref
  /\ adopted' = (adopted /\ ~drops)
  /\ timer' = (timer /\ ~drops)

-----------------------------------------------------------------------------
\* The bus

\* send(): a known agent gets the message; a parked one is revived first,
\* joining the revival in flight if there is one.
SendFails(m) ==
  /\ \/ ref.status \in {"unknown", "aborted"}
     \/ ref.status = "parked" /\ ref.session = Null /\ revival = "none" /\ ~CanRevive
  /\ sending' = [sending EXCEPT ![m] = "done"]
  /\ receipt' = [receipt EXCEPT ![m] = "failed"]
  /\ UNCHANGED <<revival, coldAdopted>>

SendDirectly(m) ==
  /\ \/ ref.status \in {"running", "idle"}
     \/ ref.status = "parked" /\ ref.session # Null
  /\ sending' = [sending EXCEPT ![m] = "ready"]
  /\ UNCHANGED <<revival, coldAdopted, receipt>>

SendRevives(m) ==
  /\ ref.status = "parked" /\ ref.session = Null
  /\ IF revival # "none"
     THEN UNCHANGED <<revival, coldAdopted>>
     ELSE CanRevive /\ StartRevival
  /\ sending' = [sending EXCEPT ![m] = "reviving"]
  /\ UNCHANGED receipt

Send(m) ==
  /\ sending[m] = "unsent"
  /\ SendFails(m) \/ SendDirectly(m) \/ SendRevives(m)
  /\ UNCHANGED <<registryVars, sessionVars, parks, releases, inboxVars>>

\* Whether the agent's wait takes a message of m's sender.
Awaits(m) == waiting \in {"any", m.from}

Give(m) == heard' = [heard EXCEPT ![m] = @ + 1]

\* The rest of send(): to a waiter, ...
ToWaiter(m) ==
  /\ Awaits(m)
  /\ waiting' = "no"
  /\ Give(m)
  /\ receipt' = [receipt EXCEPT ![m] = "delivered"]
  /\ UNCHANGED <<turn, pending, mailbox>>

\* ... to nobody, ...
ToNobody(m) ==
  /\ ~Awaits(m) /\ ref.session = Null
  /\ receipt' = [receipt EXCEPT ![m] = "failed"]
  /\ UNCHANGED <<turn, inboxVars>>

\* ... to the mailbox, as the session is disposed, the oldest one giving way,
ToMailbox(m) ==
  /\ ~Awaits(m) /\ ref.session # Null /\ sess[ref.session] # "live"
  /\ mailbox' = IF Len(mailbox) = MailboxCap THEN Tail(mailbox) \o <<m>> ELSE Append(mailbox, m)
  /\ receipt' = [receipt EXCEPT ![m] = "failed"]
  /\ UNCHANGED <<turn, pending, heard, waiting>>

\* ... to a turn that goes on, or to one the message wakes.
ToSession(m) ==
  LET s == ref.session IN
  /\ ~Awaits(m) /\ s # Null /\ sess[s] = "live"
  /\ receipt' = [receipt EXCEPT ![m] = "delivered"]
  /\ IF turn[s] # "none"
     THEN pending' = [pending EXCEPT ![s] = @ \cup {m}] /\ UNCHANGED <<turn, heard>>
     ELSE turn' = [turn EXCEPT ![s] = "waking"] /\ Give(m) /\ UNCHANGED pending
  /\ UNCHANGED <<mailbox, waiting>>

HandOver(m) ==
  /\ sending[m] = "ready"
  /\ sending' = [sending EXCEPT ![m] = "done"]
  /\ ToWaiter(m) \/ ToNobody(m) \/ ToMailbox(m) \/ ToSession(m)
  /\ UNCHANGED <<registryVars, sess, lifecycleVars>>

-----------------------------------------------------------------------------
\* The agent's irc tool

\* The agent's loop calls its tools.
Working == \E s \in Session : turn[s] = "running"

\* The messages its registered session has not shown it.
Unshown == IF ref.session = Null THEN {} ELSE pending[ref.session]

Accepts(from, m) == from \in {"any", m.from}

TakePending(m) ==
  /\ pending' = [pending EXCEPT ![ref.session] = @ \ {m}]
  /\ Give(m)
  /\ UNCHANGED <<mailbox, waiting>>

\* #takeFromMailbox: the first message of an accepted sender is cut out.
TakeMail(from) ==
  \E k \in DOMAIN mailbox :
    /\ Accepts(from, mailbox[k]) /\ \A l \in 1..k - 1 : ~Accepts(from, mailbox[l])
    /\ mailbox' = RemoveAt(mailbox, k)
    /\ Give(mailbox[k])
    /\ UNCHANGED <<pending, waiting>>

\* Mutant: wait overlooks the mail that is there already.
WaitForNew(from) ==
  /\ Working /\ waiting = "no"
  /\ IF \E m \in Unshown : Accepts(from, m)
     THEN \E m \in Unshown : Accepts(from, m) /\ TakePending(m)
     ELSE waiting' = from /\ UNCHANGED <<pending, heard, mailbox>>
  /\ UNCHANGED <<agentVars, busVars>>

\* irc wait: a message that is here already, from the session or else the
\* mailbox, or the next one that comes.
Wait(from) ==
  LET shown == {m \in Unshown : Accepts(from, m)}
      mail == {m \in ToSet(mailbox) : Accepts(from, m)} IN
  /\ Working /\ waiting = "no"
  /\ \/ \E m \in shown : TakePending(m)
     \/ shown = {} /\ TakeMail(from)
     \/ shown = {} /\ mail = {} /\ waiting' = from /\ UNCHANGED <<pending, heard, mailbox>>
  /\ UNCHANGED <<agentVars, busVars>>

\* The wait times out or is aborted.
WaitEnds ==
  /\ waiting # "no"
  /\ waiting' = "no"
  /\ UNCHANGED <<agentVars, pending, heard, mailbox, busVars>>

\* The loop's poll aborts a wait when messages are pending.
Interrupt == Unshown # {} /\ WaitEnds

\* irc inbox: all the mail, and all the session has not shown.
Inbox ==
  LET got == Unshown \cup ToSet(mailbox) IN
  /\ Working /\ waiting = "no" /\ got # {}
  /\ mailbox' = <<>>
  /\ pending' = IF ref.session = Null THEN pending ELSE [pending EXCEPT ![ref.session] = {}]
  /\ heard' = [m \in Msg |-> heard[m] + (IF m \in got THEN 1 ELSE 0)]
  /\ UNCHANGED <<agentVars, waiting, busVars>>

-----------------------------------------------------------------------------
\* A subagent that has just been spawned, or one restored from disk.
Init ==
  /\ restored \in BOOLEAN
  /\ ref = [status |-> IF restored THEN "parked" ELSE "running",
            session |-> IF restored THEN Null ELSE 1,
            historyOnly |-> FALSE]
  /\ adopted = FALSE /\ timer = FALSE
  /\ run = IF restored THEN "over" ELSE "prompting"
  /\ sess = [s \in Session |-> IF s = 1 /\ ~restored THEN "live" ELSE "none"]
  /\ turn = [s \in Session |-> IF s = 1 /\ ~restored THEN "running" ELSE "none"]
  /\ parks = {} /\ releases = {}
  /\ revival = "none" /\ coldAdopted = FALSE
  /\ pending = [s \in Session |-> {}]
  /\ heard = [m \in Msg |-> 0]
  /\ mailbox = <<>> /\ waiting = "no"
  /\ sending = [m \in Msg |-> "unsent"]
  /\ receipt = [m \in Msg |-> "none"]

Resumption ==
  \/ \E m \in Msg : HandOver(m)
  \/ \E s \in Session : ParkEnds(s) \/ ReleaseEnds(s)
  \/ FinishDisposed

SessionStep(s) ==
  \/ Prompt(s) \/ AgentStart(s) \/ Boundary(s) \/ TurnEnds(s)
  \/ PromptFails(s) \/ TurnDies(s) \/ DisposeEnds(s)

Event ==
  \/ \E s \in Session : SessionStep(s)
  \/ FinishKeepAlive \/ FinishAborted \/ FinishIsolated \/ FinishAbandons
  \/ TimerFires \/ Release \/ Revive
  \/ ReviverResolved \/ RevivalRegisters \/ RevivalAttaches \/ RevivalEnds \/ RevivalFails
  \/ \E m \in Msg : Send(m)
  \/ \E from \in Peers \cup {"any"} : Wait(from)
  \/ WaitEnds \/ Inbox

Next == Resumption \/ (~Resumes /\ Event)

\* Code after a settled await runs, turns start, and the loop polls for
\* messages while it waits. A loop reaches its boundary or its end however
\* often it calls tools: a batch of calls is finite (SF). Users, timers,
\* peers, disposal and revival owe nothing.
Fairness ==
  /\ WF_vars(Resumption)
  /\ WF_vars(~Resumes /\ Interrupt)
  /\ \A s \in Session : /\ WF_vars(~Resumes /\ AgentStart(s))
                        /\ SF_vars(~Resumes /\ (Boundary(s) \/ TurnEnds(s)))

Spec == Init /\ [][Next]_vars /\ Fairness

-----------------------------------------------------------------------------
\* Properties

Statuses == {"unknown", "running", "idle", "parked", "aborted"}
Revivals == {"none", "resolving", "opening", "building", "attached"}

\* Every variable has its type; a timer belongs to an adoption.
TypeOK ==
  /\ ref \in [status : Statuses, session : Session \cup {Null}, historyOnly : BOOLEAN]
  /\ adopted \in BOOLEAN /\ timer \in BOOLEAN /\ restored \in BOOLEAN /\ coldAdopted \in BOOLEAN
  /\ timer => adopted
  /\ run \in {"prompting", "ending", "terminal", "isolating", "abandoned", "over"}
  /\ sess \in [Session -> {"none", "live", "disposing", "disposed"}]
  /\ turn \in [Session -> {"none", "preparing", "waking", "running"}]
  /\ parks \subseteq Session /\ releases \subseteq Session /\ revival \in Revivals
  /\ pending \in [Session -> SUBSET Msg] /\ heard \in [Msg -> Nat]
  /\ mailbox \in Seq(Msg) /\ Len(mailbox) <= MailboxCap
  /\ waiting \in Peers \cup {"no", "any"}
  /\ sending \in [Msg -> {"unsent", "reviving", "ready", "done"}]
  /\ receipt \in [Msg -> {"none", "delivered", "failed"}]

\* The transcript file has one writer: when a reviver opens it, and for as
\* long as its session is not disposed, no other session of the agent is
\* left (executor.ts: "park closed the JSONL writer, so reopening takes the
\* single-writer lock cleanly").
Writers == {s \in Session : sess[s] \in {"live", "disposing"}}
OneWriter ==
  Cardinality(Writers) + (IF revival \in {"opening", "building"} THEN 1 ELSE 0) <= 1

\* An adopted agent that is idle is on its way to being parked: its timer
\* runs, or the parking is under way. A lost timer keeps the session, its
\* processes and connections until exit.
IdleIsTimed == adopted /\ ref.status = "idle" => timer \/ parks # {}

\* Every message is in one place: given to the agent once, pending in its
\* live session, in its mailbox, or with send(); what send() reported as
\* delivered is with the agent or its live session, however often the
\* session was disposed and reopened.
Copies(m) ==
  heard[m] + Cardinality({s \in Session : m \in pending[s]})
    + Cardinality({k \in DOMAIN mailbox : mailbox[k] = m})
MessagesKept ==
  /\ \A s \in Session : pending[s] # {} => sess[s] = "live"
  /\ \A m \in Msg : /\ Copies(m) <= 1
                    /\ receipt[m] = "none" => Copies(m) = 0
                    /\ receipt[m] = "delivered" => Copies(m) = 1 /\ m \notin ToSet(mailbox)

\* An agent does not wait for a message that is there already, in its
\* mailbox or with its session.
NoMailBehindAWait == \A m \in Unshown \cup ToSet(mailbox) : ~Awaits(m)

\* A reviver whose cold revive failed is not left behind (the comment in
\* #resolveAndRevive): an agent the registry does not know is adopted only
\* while a revival is about to register it.
NoPoisonedReviver == adopted /\ ~Registered => revival = "opening"

\* A message that waits in a session reaches the agent, even if it came
\* after the last boundary of the turn or while the agent waits for another.
PeersAreHeard == \A m \in Msg : receipt[m] = "delivered" ~> heard[m] > 0
=============================================================================
