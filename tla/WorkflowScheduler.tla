------------------------- MODULE WorkflowScheduler -------------------------
(***************************************************************************)
(* The scheduler of one workflow attempt (workflow/scheduler.ts): it runs  *)
(* the activations of the flow's nodes, as many at a time as are ready,    *)
(* waits for the first to settle (Promise.race), and enqueues the children *)
(* its edges make ready.                                                   *)
(*                                                                         *)
(* JavaScript runs one callback to its end, so an action is the work the   *)
(* main loop does between two awaits.  The node runtimes, and the abort    *)
(* signal the runner owns, are the environment: Settle and StopSignalled.  *)
(* What a condition evaluates to is chosen nondeterministically.           *)
(*                                                                         *)
(* Activation ids are 1 .. MaxId in order of creation ("activation-<n>").  *)
(* The queue is pushed at the end with growing ids and shifted (and        *)
(* unshifted) at the front, so it is the set of queued ids in id order.    *)
(***************************************************************************)
EXTENDS Naturals, FiniteSets, Sequences

CONSTANTS
  Node,
  Edges,              \* sequence of [from, to, conditional]
  WaitFor,            \* WaitFor[n]: the nodes join n waits for; << >> if none
  CheckpointAfter,    \* nodes declared with checkpoint: "after"
  StartNodes,         \* sequence of the nodes the attempt starts at
  StartParents,       \* parents of the start activations (on a restart)
  Seed,               \* completed activations of the checkpoint, in order:
                      \*   sequence of [id, node, parents]
  MaxActivations,     \* options.maxActivations
  MaxNodeActivations, \* options.maxNodeActivations
  MaxId               \* bound on activation ids, large enough never to bind

Ids == 1 .. MaxId
Seeded == {Seed[k].id : k \in 1 .. Len(Seed)}

NoNode == "none"
NoFrontier == {NoNode}

ASSUME GraphAssumption ==
  /\ Edges \in Seq([from : Node, to : Node, conditional : BOOLEAN])
  /\ WaitFor \in [Node -> Seq(Node)]
  /\ CheckpointAfter \subseteq Node
  /\ NoNode \notin Node
  /\ StartNodes \in Seq(Node)

ASSUME BoundsAssumption ==
  /\ MaxId \in Nat /\ MaxActivations \in Nat /\ MaxNodeActivations \in Nat
  /\ Seed \in Seq([id : Ids, node : Node, parents : Seq(Ids)])
  /\ StartParents \in Seq(Ids)

VARIABLES
  node,          \* node[i]: the node activation i runs
  parents,       \* parents[i]: parentActivationIds
  status,        \* status[i]: "none" until created; seeded ones are "completed"
  next,          \* the next activation id
  done,          \* completed activations in the order they were recorded
  joinKeys,      \* queuedJoinKeys
  result,        \* result[i]: what the promise of activation i settled with
  winner,        \* the activation the pending Promise.race resolves to, or 0
  loop,          \* "boot" until the first startReadyActivations, then "racing"
  stopScheduling,
  frontier,      \* stoppedFrontierNodeIds, or NoFrontier
  stopReason,    \* whether stopReason is set
  limitReached,
  cause,         \* reason of schedulerSignal: "none", "stop" or "failfast"
  due            \* history: due[i], the work the completion of i made ready

activationVars == <<node, parents, next, done, joinKeys>>
stopVars == <<stopScheduling, frontier, stopReason>>
schedulerVars == <<activationVars, status, result, winner, loop, stopVars,
                   limitReached, cause, due>>

Outputs == {"output", "error", "aborted"}

Elements(s) == {s[k] : k \in 1 .. Len(s)}

\* Every variable has its type.
TypeOK ==
  /\ node \in [Ids -> Node \cup {NoNode}]
  /\ parents \in [Ids -> Seq(Ids)]
  /\ status \in [Ids -> {"none", "queued", "running", "completed", "failed",
                         "aborted"}]
  /\ next \in 1 .. MaxId + 1
  /\ done \in Seq(Ids)
  /\ joinKeys \subseteq Node \X Seq(Ids)
  /\ result \in [Ids -> Outputs \cup {"pending"}]
  /\ winner \in Ids \cup {0}
  /\ loop \in {"boot", "racing"}
  /\ stopScheduling \in BOOLEAN
  /\ frontier = NoFrontier \/ frontier \subseteq Node
  /\ stopReason \in BOOLEAN
  /\ limitReached \in BOOLEAN
  /\ cause \in {"none", "stop", "failfast"}
  /\ due \in [Ids -> SUBSET (Node \X Seq(Ids))]

-----------------------------------------------------------------------------
(* Initial state *)

Least(S) == CHOOSE m \in S : \A k \in S : m <= k
Greatest(S) == CHOOSE m \in S : \A k \in S : k <= m

\* nextActivationOrdinal
FirstId == Greatest(Seeded \cup {0}) + 1
StartIds == FirstId .. FirstId + Len(StartNodes) - 1

\* A start has one node; a restart without a start node is refused
\* (assertWorkflowRestartStartNodeIds).  There is an id for every start.
ASSUME StartAssumption ==
  /\ StartNodes # << >>
  /\ FirstId + Len(StartNodes) <= MaxId + 1

SeedOf(i) == Seed[CHOOSE k \in 1 .. Len(Seed) : Seed[k].id = i]

SchedulerInit ==
  /\ node = [i \in Ids |->
       CASE i \in Seeded -> SeedOf(i).node
         [] i \in StartIds -> StartNodes[i - FirstId + 1]
         [] OTHER -> NoNode]
  /\ parents = [i \in Ids |->
       CASE i \in Seeded -> SeedOf(i).parents
         [] i \in StartIds -> StartParents
         [] OTHER -> << >>]
  /\ status = [i \in Ids |-> CASE i \in Seeded -> "completed"
                               [] i \in StartIds -> "queued"
                               [] OTHER -> "none"]
  /\ next = FirstId + Len(StartNodes)
  /\ done = [k \in 1 .. Len(Seed) |-> Seed[k].id]
  /\ joinKeys = {}
  /\ result = [i \in Ids |-> "pending"]
  /\ winner = 0
  /\ loop = "boot"
  /\ stopScheduling = FALSE
  /\ frontier = NoFrontier
  /\ stopReason = FALSE
  /\ limitReached = FALSE
  /\ cause = "none"
  /\ due = [i \in Ids |-> {}]

-----------------------------------------------------------------------------
(* Joins.  The argument d is the completion order the code has so far.     *)

\* The ids of s that f does not have yet are appended to it.
AppendNew(f, s) ==
  LET merged[n \in 0 .. Len(s)] ==
        IF n = 0 THEN f
        ELSE IF s[n] \in Elements(merged[n - 1]) THEN merged[n - 1]
        ELSE Append(merged[n - 1], s[n])
  IN merged[Len(s)]

\* activationAncestorIds: breadth first through completed activations; the
\* k-th step looks up the k-th id found and appends its parents.
Ancestors(d, i) ==
  LET found[k \in 0 .. MaxId] ==
        IF k = 0 THEN AppendNew(<< >>, parents[i])
        ELSE LET f == found[k - 1]
             IN IF k <= Len(f) /\ f[k] \in Elements(d)
                THEN AppendNew(f, parents[f[k]]) ELSE f
  IN found[MaxId]

\* A generation is an ancestor id, or one of these: the activations without
\* parents (null in the code), or every activation (the code's last resort).
Roots == 0
Anyone == MaxId + 1

\* Mutant: candidates reach back beyond the join's previous inputs.
GenerationsUncut(d, i, join) ==
  LET anc == Ancestors(d, i) IN IF anc = << >> THEN <<Roots>> ELSE anc

\* joinGenerationCandidates: the ancestors of i up to the first activation of
\* a node the join waits for.
Generations(d, i, join) ==
  LET anc == Ancestors(d, i)
      cuts == {k \in 1 .. Len(anc) : /\ anc[k] \in Elements(d)
                                     /\ node[anc[k]] \in Elements(WaitFor[join])}
  IN IF anc = << >> THEN <<Roots>>
     ELSE IF cuts = {} THEN anc ELSE SubSeq(anc, 1, Least(cuts) - 1)

\* activationInJoinGeneration
InGeneration(d, i, g) ==
  \/ g = Anyone
  \/ g = Roots /\ parents[i] = << >>
  \/ g \in {i} \cup Elements(Ancestors(d, i))

\* latestActivationInJoinGeneration (latestCompletedActivation), or 0
Latest(d, n, g) ==
  LET at == {k \in 1 .. Len(d) : node[d[k]] = n /\ InGeneration(d, d[k], g)}
  IN IF at = {} THEN 0 ELSE d[Greatest(at)]

\* collectJoinParentIds, << >> when the join is not ready: the parents from the
\* first generation that completed every node the join waits for; and for an
\* activation the join does not wait for, else from any, together with itself.
JoinParents(d, i, join) ==
  LET waits == WaitFor[join]
      outside == node[i] \notin Elements(waits)
      gens == Generations(d, i, join) \o (IF outside THEN <<Anyone>> ELSE << >>)
      rows == [k \in 1 .. Len(gens) |->
                 [m \in 1 .. Len(waits) |-> Latest(d, waits[m], gens[k])]]
      ready == {k \in 1 .. Len(gens) : 0 \notin Elements(rows[k])}
  IN IF ready = {} THEN << >>
     ELSE rows[Least(ready)] \o (IF outside THEN <<i>> ELSE << >>)

IsJoin(n) == WaitFor[n] # << >>

ChildParents(d, i, n) == IF IsJoin(n) THEN JoinParents(d, i, n) ELSE <<i>>

Conditional(i) ==
  {k \in 1 .. Len(Edges) : Edges[k].from = node[i] /\ Edges[k].conditional}

\* What the completion of i makes ready when its conditional edges in taken
\* hold: for each edge that leads on, the node it leads to and the parents.
\* (Both eligibleFrontierNodeIds and enqueueReadyChildren walk these edges.)
Ready(d, i, taken) ==
  LET open == {k \in 1 .. Len(Edges) : /\ Edges[k].from = node[i]
                                       /\ Edges[k].conditional => k \in taken}
      child == [k \in open |-> <<Edges[k].to, ChildParents(d, i, Edges[k].to)>>]
  IN [k \in {e \in open : child[e][2] # << >>} |-> child[k]]

ChildrenIn(ready) == {ready[k] : k \in DOMAIN ready}

-----------------------------------------------------------------------------
(* Starting what is queued *)

Queued(st) == {i \in Ids : st[i] = "queued"}
QueuedNodes == {node[i] : i \in Queued(status)}
Running == {i \in Ids : status[i] = "running"}
Failed == {i \in Ids : status[i] = "failed"}

\* The queued activations startReadyActivations starts: the longest prefix of
\* the queue within both limits (nd and st are the queue being started).
Startable(nd, st) ==
  LET queue == Queued(st)
      begun == {i \in Ids : st[i] \notin {"none", "queued"}}
      Before(i) == begun \cup {j \in queue : j < i}
      Admitted(i) ==
        /\ Cardinality(Before(i) \ Seeded) < MaxActivations
        /\ Cardinality({j \in Before(i) : nd[j] = nd[i]}) < MaxNodeActivations
  IN {i \in queue : \A j \in queue : j <= i => Admitted(j)}

\* Mutant: the limit counts as reached by the last activation it admits.
StartReadyEager(nd, st) ==
  LET started == Startable(nd, st) IN
  /\ status' = [i \in Ids |-> IF i \in started THEN "running" ELSE st[i]]
  /\ limitReached' = \/ limitReached
                     \/ started # Queued(st)
                     \/ Cardinality(started \cup {i \in Ids : st[i] \notin
                          {"none", "queued"}}) = MaxActivations

StartReady(nd, st) ==
  LET started == Startable(nd, st) IN
  /\ status' = [i \in Ids |-> IF i \in started THEN "running" ELSE st[i]]
  /\ limitReached' = (limitReached \/ started # Queued(st))

\* Mutant: the first start does not look at the signal.
BootStartBlind ==
  /\ loop = "boot"
  /\ StartReady(node, status)
  /\ loop' = "racing"
  /\ UNCHANGED <<activationVars, result, winner, stopVars, cause, due>>

\* The first startReadyActivations, when no signal came before it.
BootStart ==
  /\ loop = "boot"
  /\ cause = "none"
  /\ StartReady(node, status)
  /\ loop' = "racing"
  /\ UNCHANGED <<activationVars, result, winner, stopVars, cause, due>>

\* ... and when one did: the queue becomes the frontier, unless the limit on
\* activations, which is tested first, is zero.
BootHalted ==
  /\ loop = "boot"
  /\ cause # "none"
  /\ IF MaxActivations = 0
     THEN limitReached' = TRUE /\ UNCHANGED <<frontier, stopScheduling>>
     ELSE /\ frontier' = QueuedNodes
          /\ stopScheduling' = TRUE
          /\ UNCHANGED limitReached
  /\ loop' = "racing"
  /\ UNCHANGED <<activationVars, status, result, winner, stopReason, cause, due>>

-----------------------------------------------------------------------------
(* The environment *)

\* Mutant: the abort reason is passed on verbatim.
StopSignalledVerbatim ==
  /\ cause = "none"
  /\ cause' = "stop requested"
  /\ UNCHANGED <<activationVars, status, result, winner, loop, stopVars,
                 limitReached, due>>

\* The runner's signal aborts: stop request, interrupt or run-time limit.
StopSignalled ==
  /\ cause = "none"
  /\ cause' = "stop"
  /\ UNCHANGED <<activationVars, status, result, winner, loop, stopVars,
                 limitReached, due>>

\* executeSchedulerActivation ends: an error that arrives once the scheduler's
\* signal is aborted counts as an abort.
Settle(i, r) ==
  /\ status[i] = "running"
  /\ result[i] = "pending"
  /\ r = "error" => cause = "none"
  /\ result' = [result EXCEPT ![i] = r]
  /\ winner' = IF winner = 0 THEN i ELSE winner
  /\ UNCHANGED <<activationVars, status, loop, stopVars, limitReached, cause,
                 due>>

-----------------------------------------------------------------------------
(* The main loop consumes the activation that won the race.  The next race *)
(* is over the remaining ones: of those already settled the oldest wins.   *)

\* Mutant: a promise settled during an earlier race is not looked at again.
NextWinnerForgets == 0

NextWinner ==
  LET settled == {i \in Running \ {winner} : result[i] # "pending"}
  IN IF settled = {} THEN 0 ELSE Least(settled)

Consume ==
  /\ loop = "racing"
  /\ winner # 0
  /\ status[winner] = "running"
  /\ winner' = NextWinner

FrontierSoFar == IF frontier = NoFrontier THEN QueuedNodes ELSE frontier

ConsumeAborted ==
  /\ Consume
  /\ result[winner] = "aborted"
  /\ status' = [status EXCEPT ![winner] = "aborted"]
  /\ stopReason' = TRUE
  /\ frontier' = FrontierSoFar \cup {node[winner]}
  /\ stopScheduling' = TRUE
  /\ UNCHANGED <<activationVars, result, loop, limitReached, cause, due>>

\* The failure controller aborts; the signal keeps an earlier reason.
ConsumeFailed ==
  /\ Consume
  /\ result[winner] = "error"
  /\ status' = [status EXCEPT ![winner] = "failed"]
  /\ stopScheduling' = TRUE
  /\ cause' = IF cause = "none" THEN "failfast" ELSE cause
  /\ UNCHANGED <<activationVars, result, loop, frontier, stopReason,
                 limitReached, due>>

\* An output that arrives after a failure is discarded.
ConsumeDiscarded ==
  /\ Consume
  /\ result[winner] = "output"
  /\ Failed # {}
  /\ status' = [status EXCEPT ![winner] = "aborted"]
  /\ UNCHANGED <<activationVars, result, loop, stopVars, limitReached, cause,
                 due>>

\* The completion is recorded, and with it the work it makes ready.
Record(ready) ==
  /\ result[winner] = "output"
  /\ Failed = {}
  /\ Consume
  /\ done' = Append(done, winner)
  /\ due' = [due EXCEPT ![winner] = ChildrenIn(ready)]

\* Mutant: what a late completion makes ready is not added to the frontier.
ConsumeHoldingFirst(ready) ==
  /\ \/ node[winner] \in CheckpointAfter
     \/ cause # "none"
     \/ stopScheduling
  /\ Record(ready)
  /\ status' = [status EXCEPT ![winner] = "completed"]
  /\ stopReason' = (stopReason \/ node[winner] \in CheckpointAfter)
  /\ frontier' = IF frontier = NoFrontier
                 THEN QueuedNodes \cup {c[1] : c \in ChildrenIn(ready)}
                 ELSE frontier
  /\ stopScheduling' = TRUE
  /\ UNCHANGED <<node, parents, next, joinKeys, result, loop, limitReached, cause>>

\* Mutant: a node with checkpoint: "after" leaves no stop reason.
ConsumeHoldingUnexplained(ready) ==
  /\ \/ node[winner] \in CheckpointAfter
     \/ cause # "none"
     \/ stopScheduling
  /\ Record(ready)
  /\ status' = [status EXCEPT ![winner] = "completed"]
  /\ frontier' = FrontierSoFar \cup {c[1] : c \in ChildrenIn(ready)}
  /\ stopScheduling' = TRUE
  /\ UNCHANGED <<node, parents, next, joinKeys, result, loop, stopReason,
                 limitReached, cause>>

\* checkpoint: "after", an aborted signal or a stop: what is ready becomes
\* frontier instead of being enqueued.
ConsumeHolding(ready) ==
  /\ \/ node[winner] \in CheckpointAfter
     \/ cause # "none"
     \/ stopScheduling
  /\ Record(ready)
  /\ status' = [status EXCEPT ![winner] = "completed"]
  /\ stopReason' = (stopReason \/ node[winner] \in CheckpointAfter)
  /\ frontier' = FrontierSoFar \cup {c[1] : c \in ChildrenIn(ready)}
  /\ stopScheduling' = TRUE
  /\ UNCHANGED <<node, parents, next, joinKeys, result, loop, limitReached, cause>>

\* Mutant: every edge enqueues.
EnqueuingAll(ready) == DOMAIN ready

\* The edges that enqueue a child: a join at most once for the same parents.
Enqueuing(ready) ==
  {k \in DOMAIN ready : IsJoin(ready[k][1]) =>
     /\ ready[k] \notin joinKeys
     /\ \A j \in DOMAIN ready : j < k => ready[j] # ready[k]}

\* The children by id: the m-th enqueuing edge creates the activation with the
\* m-th next id.
Children(ready) ==
  LET edges == Enqueuing(ready)
      IdOf(k) == next + Cardinality({j \in edges : j < k})
  IN [i \in next .. next + Cardinality(edges) - 1 |->
        ready[CHOOSE k \in edges : IdOf(k) = i]]

With(old, new) == [i \in Ids |-> IF i \in DOMAIN new THEN new[i] ELSE old[i]]

\* enqueueReadyChildren, then startReadyActivations.
ConsumeContinuing(ready) ==
  /\ node[winner] \notin CheckpointAfter
  /\ cause = "none"
  /\ ~stopScheduling
  /\ Record(ready)
  /\ \E child \in {Children(ready)} :
       /\ DOMAIN child \subseteq Ids
       /\ next' = next + Cardinality(DOMAIN child)
       /\ node' = With(node, [i \in DOMAIN child |-> child[i][1]])
       /\ parents' = With(parents, [i \in DOMAIN child |-> child[i][2]])
       /\ joinKeys' = joinKeys \cup {c \in ChildrenIn(child) : IsJoin(c[1])}
       /\ StartReady(With(node, [i \in DOMAIN child |-> child[i][1]]),
                     With([status EXCEPT ![winner] = "completed"],
                          [i \in DOMAIN child |-> "queued"]))
  /\ UNCHANGED <<result, loop, stopVars, cause>>

ConsumeNext ==
  \/ ConsumeAborted
  \/ ConsumeFailed
  \/ ConsumeDiscarded
  \/ /\ winner # 0
     /\ \E taken \in SUBSET Conditional(winner) :
          \E ready \in {Ready(Append(done, winner), winner, taken)} :
            ConsumeHolding(ready) \/ ConsumeContinuing(ready)

SettleNext == \E i \in Ids, r \in Outputs : Settle(i, r)

SchedulerNext ==
  \/ BootStart
  \/ BootHalted
  \/ StopSignalled
  \/ SettleNext
  \/ ConsumeNext

-----------------------------------------------------------------------------
(* The result: runWorkflowScheduler returns when nothing runs.             *)

SchedulerDone == loop = "racing" /\ Running = {}
Frontier == FrontierSoFar

\* workflowCheckpointReason (runner.ts): the run is checkpointed, not completed.
CheckpointReason ==
  \/ limitReached
  \/ Frontier # {} /\ (stopReason \/ cause # "none")

SchedulerSpec == SchedulerInit /\ [][SchedulerNext]_schedulerVars

\* ConsumeNext is enabled exactly in these states, so that the third conjunct of
\* the fairness below is WF(ConsumeNext), in a form TLC need not search for.
Consumable == loop = "racing" /\ winner # 0

\* Node runtimes answer in the end, and the event loop resumes the scheduler.
SchedulerFairSpec ==
  /\ SchedulerSpec
  /\ WF_schedulerVars(BootStart)
  /\ WF_schedulerVars(BootHalted)
  /\ <>[]Consumable => []<><<ConsumeNext>>_schedulerVars
  /\ \A i \in Ids : WF_schedulerVars(\E r \in Outputs : Settle(i, r))

-----------------------------------------------------------------------------
(* Properties *)

\* When no node failed, what a completed activation made ready has run or is
\* in the frontier a restart begins from, and so is every aborted node.
NoWorkLost ==
  SchedulerDone /\ Failed = {} =>
    \A i \in Ids :
      /\ status[i] = "aborted" => node[i] \in Frontier
      /\ \A d \in due[i] :
           \/ d[1] \in Frontier
           \/ \E j \in Ids : /\ <<node[j], parents[j]>> = d
                            /\ status[j] \in {"completed", "aborted"}

\* A run without failure that gives no reason for a checkpoint is reported
\* completed: then everything that became ready has been completed.
CompletedMeansAllDone ==
  SchedulerDone /\ Failed = {} /\ ~CheckpointReason =>
    \A i \in Ids :
      /\ status[i] \in {"none", "completed"}
      /\ \A d \in due[i] : \E j \in Ids : /\ <<node[j], parents[j]>> = d
                                        /\ status[j] = "completed"

\* A run that is checkpointed has a frontier to be restarted from.
CheckpointIsRestartable ==
  SchedulerDone /\ Failed = {} /\ CheckpointReason => Frontier # {}

\* A join is activated at most once for the same completed parents, though
\* several edges may lead to it and every parent's completion tries.
JoinOnce ==
  \A i, j \in Ids :
    /\ status[i] # "none" /\ status[j] # "none"
    /\ i \notin Seeded \cup StartIds /\ j \notin Seeded \cup StartIds
    /\ node[i] = node[j] /\ IsJoin(node[i]) /\ parents[i] = parents[j]
    => i = j

\* How often the flow had been started over when activation i ran.
Rounds(i) ==
  Cardinality({h \in Elements(Ancestors(done, i)) :
                 node[h] \in Elements(StartNodes)})

\* A join combines outputs of one loop iteration: its parents of the nodes it
\* waits for descend from equally many activations of the start nodes.
JoinsOneIteration ==
  \A j \in Ids \ Seeded : status[j] # "none" /\ IsJoin(node[j]) =>
    \A p, q \in {h \in Elements(parents[j]) :
                   node[h] \in Elements(WaitFor[node[j]])} :
      Rounds(p) = Rounds(q)

\* A loop around a join: the flow starts at S, which forks to the nodes that the
\* join J, the only one, waits for; they alone lead to J, J alone leads back to
\* S, and no two edges fork to one node or lead back. What else J and the others
\* lead on to, and by which edges, is open, as are the conditions.
ForkJoinLoop(S, J) ==
  LET workers == Elements(WaitFor[J]) IN
  /\ \A n \in Node : IsJoin(n) <=> n = J
  /\ S # J /\ S \notin workers /\ J \notin workers
  /\ \A k \in 1 .. Len(Edges) :
       /\ Edges[k].to = J => Edges[k].from \in workers
       /\ Edges[k].to = S => Edges[k].from = J
       /\ Edges[k].to \in workers => Edges[k].from = S
  /\ \A k, l \in 1 .. Len(Edges) :
       Edges[k].to = Edges[l].to /\ Edges[k].to \in workers \cup {S} => k = l

\* The attempt is started at S, and restarts none.
FreshFrom(S) == Seed = << >> /\ StartParents = << >> /\ StartNodes = <<S>>

\* Once the scheduler's signal is aborted no activation starts any more.
StopIsQuiet ==
  cause # "none" =>
    \A i \in Ids : status'[i] = "running" => status[i] = "running"

StopHolds == [][StopIsQuiet]_schedulerVars

\* If node runtimes answer and the number of activations is limited, the
\* scheduler returns.
SchedulerReturns == <>SchedulerDone

=============================================================================
