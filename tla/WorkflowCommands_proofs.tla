----------------------- MODULE WorkflowCommands_proofs -----------------------
(***************************************************************************)
(* Proofs about the operator's commands: any run ids, any number of        *)
(* commands under way, attempts and crashes.                               *)
(***************************************************************************)
EXTENDS WorkflowCommands, FiniteSetTheorems, TLAPS

-----------------------------------------------------------------------------
(* The inductive invariant *)

Preparing == RunsIn({"preparing"})
Size(f) == Cardinality(OfFamily(f))
JoinedBefore(f, i) == \E k \in 1..i - 1 : log[k].family = f /\ Joins(k)

\* A checkpoint and what is resumed from it belong to one family.
FromsInFamily ==
  /\ \A i \in Positions : log[i].from # None =>
       log[i].from \in Positions /\ log[log[i].from].family = log[i].family
  /\ \A c \in Preparing : launch[c].from # None =>
       launch[c].from \in Positions /\ log[launch[c].from].family = launch[c].family

\* A family has no restarted attempt with a number beyond its size.
IdsCounted ==
  \A i \in Positions : \A n \in Nat :
    log[i].id = <<"attempt", n>> => n <= Size(log[i].family)

\* A restart under way has a number its family could have had since then.
NumbersInReach ==
  \A c \in Preparing : launch[c].from # None =>
    \E n \in 2..Size(launch[c].family) + 1 : launch[c].id = <<"attempt", n>>

\* A start under way has the run id the operator gave.
StartsNamed ==
  \A c \in Preparing : launch[c].from = None => launch[c].id \in {"run"} \X Runs

\* A family that no start has joined uses every number up to its size.
NumbersUsed ==
  \A f \in Runs : ~JoinedBefore(f, Len(log) + 1) =>
    \A n \in 2..Size(f) : <<"attempt", n>> \in IdsOf(f)

\* A restart under way whose checkpoint is being resumed has an id in use.
TwinsBarred ==
  \A i \in Positions, c \in Preparing :
    (log[i].from # None /\ log[i].status = "running" /\ launch[c].from = log[i].from
       /\ ~JoinedBefore(log[i].family, i))
    => launch[c].id \in IdsOf(launch[c].family)

BaseInv == TypeOK /\ EntriesAreLive /\ IdsCounted /\ NumbersInReach /\ StartsNamed
ResumeInv ==
  AttemptIdsUnique /\ FromsInFamily /\ NumbersUsed /\ TwinsBarred /\ NoTwinResume

-----------------------------------------------------------------------------
(* Lemmas about the log *)

\* The attempts of a family are finitely many, and no more than the log has.
LEMMA SizeType ==
  ASSUME NEW f, log \in Seq(Attempt)
  PROVE  IsFiniteSet(OfFamily(f)) /\ Size(f) \in Nat /\ Size(f) <= Len(log)
<1>1. OfFamily(f) \subseteq Positions
  BY DEF OfFamily
<1>2. IsFiniteSet(Positions) /\ Cardinality(Positions) = Len(log)
  <2>1. Len(log) \in Nat
    OBVIOUS
  <2>. QED
    BY <2>1, FS_Interval DEF Positions
<1>. QED
  BY <1>1, <1>2, FS_Subset, FS_CardinalityType DEF Size

\* The run of a launch has its attempt in the log.
LEMMA PositionFound ==
  ASSUME TypeOK, NEW c \in Live
  PROVE  /\ PositionOf(launch[c].id) \in Positions
         /\ log[PositionOf(launch[c].id)].id = launch[c].id
<1>1. \E i \in Positions : log[i].id = launch[c].id
  BY DEF TypeOK, IdsOf, OfFamily
<1>. QED
  BY <1>1 DEF PositionOf

-----------------------------------------------------------------------------
(* Types and the map of active attempts *)

\* The types, the map and the bounds on ids hold in an empty session.
LEMMA BaseInit == Init => BaseInv
BY CommandsAssumption DEF CommandsAssumption, Init, BaseInv, TypeOK, EntriesAreLive, Entered,
   Live, RunsIn, Idle,
       Positions, NoEntry, Attempt, IdsCounted, NumbersInReach, StartsNamed, Preparing

Ended == {"stopped", "failed", "completed"}

\* A run of this process executes attempt i.
Served(i) == \E c \in Live : launch[c].id = log[i].id

\* What a step other than RunStarts does to the log.
LogKept ==
  /\ log' \in Seq(Attempt) /\ Len(log') = Len(log)
  /\ \A i \in Positions :
       /\ log'[i].id = log[i].id /\ log'[i].family = log[i].family /\ log'[i].from = log[i].from
       /\ log'[i].status = "running" => log[i].status = "running"
       /\ log'[i].saved => log'[i].status \in {"stopped", "failed"}
       /\ log[i].saved => log'[i].saved
       /\ log[i].status \in Ended => log'[i].status = log[i].status
       /\ log'[i].status \in Ended => log[i].status \in Ended \/ Served(i)
       /\ log'[i].saved => log[i].saved \/ Served(i)

\* An attempt that only gets another status or a checkpoint.
LEMMA Replaced ==
  ASSUME TypeOK, NEW p \in Positions, NEW r \in Attempt,
         log' = [log EXCEPT ![p] = r],
         r.id = log[p].id, r.family = log[p].family, r.from = log[p].from,
         r.status = "running" => log[p].status = "running",
         r.saved => r.status \in {"stopped", "failed"},
         log[p].saved => r.saved,
         log[p].status \in Ended => r.status = log[p].status,
         r.status \in Ended => log[p].status \in Ended \/ Served(p),
         r.saved => log[p].saved \/ Served(p)
  PROVE  LogKept
<1>1. log \in Seq(Attempt) /\ Len(log) \in Nat
  BY DEF TypeOK
<1>2. log' \in Seq(Attempt) /\ Len(log') = Len(log)
  BY <1>1 DEF Positions
<1>3. \A i \in Positions : log'[i] = IF i = p THEN r ELSE log[i]
  BY <1>1 DEF Positions
<1>4. \A i \in Positions : log[i].saved => log[i].status \in {"stopped", "failed"}
  BY DEF TypeOK
<1>. QED
  BY <1>2, <1>3, <1>4 DEF LogKept

\* An attempt that only gets another status.
LEMMA StatusSet ==
  ASSUME TypeOK, NEW p \in Positions, log[p].status \in {"running", "stop_requested"},
         NEW status \in {"stop_requested", "failed", "completed"},
         status \in Ended => Served(p),
         log' = [log EXCEPT ![p].status = status]
  PROVE  LogKept
<1> DEFINE r == [log[p] EXCEPT !.status = status]
<1>1. log[p] \in Attempt
  BY DEF TypeOK, Positions
<1>2. /\ r \in Attempt
      /\ r.id = log[p].id /\ r.family = log[p].family /\ r.from = log[p].from
      /\ r.status = status /\ r.saved = log[p].saved
  BY <1>1 DEF Attempt
<1>3. log' = [log EXCEPT ![p] = r]
  OBVIOUS
<1>4. ~log[p].saved /\ log[p].status \notin Ended
  BY DEF TypeOK, Ended
<1>. HIDE DEF r
<1>. QED
  BY <1>2, <1>3, <1>4, Replaced

\* So do the steps of a run ...
LEMMA RunnerKeepsLog ==
  ASSUME TypeOK, NEW c \in Launches, RunnerStep(c)
  PROVE  LogKept
<1> DEFINE p == PositionOf(launch[c].id)
<1>1. UNCHANGED log => LogKept
  BY DEF TypeOK, LogKept
<1>2. c \in Live
  BY DEF RunnerStep, RunnerPolls, RunnerStops, RunnerFails, SaveCheckpoint, RunnerCompletes, RunnerThrows
<1>3. p \in Positions /\ log[p] \in Attempt
  BY <1>2, PositionFound DEF TypeOK, Positions
<1>4. Served(p)
  BY <1>2, PositionFound DEF Served
<1>5. ASSUME NEW status \in {"stop_requested", "failed", "completed"},
             SetStatus(c, status), StatusOf(c) \in {"running", "stop_requested"}
      PROVE  LogKept
  <2>1. log' = [log EXCEPT ![p].status = status] /\ log[p].status \in {"running", "stop_requested"}
    BY <1>5 DEF SetStatus, StatusOf
  <2>. HIDE DEF p
  <2>. QED
    BY <2>1, <1>3, <1>4, StatusSet
<1>6. CASE RunnerPolls(c) \/ RunnerThrows(c)
  BY <1>1, <1>6 DEF RunnerPolls, RunnerThrows
<1>7. CASE RunnerStops(c) \/ RunnerFails(c) \/ RunnerCompletes(c)
  BY <1>5, <1>7 DEF RunnerStops, RunnerFails, RunnerCompletes
<1>8. CASE SaveCheckpoint(c)
  <2> DEFINE status == IF log[p].status = "failed" THEN "failed" ELSE "stopped"
             r == [log[p] EXCEPT !.saved = TRUE, !.status = status]
  <2>1. /\ r \in Attempt
        /\ r.id = log[p].id /\ r.family = log[p].family /\ r.from = log[p].from
        /\ r.status = status /\ r.saved = TRUE
    BY <1>3 DEF Attempt
  <2>2. log' = [log EXCEPT ![p] = r]
    <3>1. log' = [log EXCEPT ![p].saved = TRUE,
                             ![p].status = IF @ = "failed" THEN "failed" ELSE "stopped"]
      BY <1>8 DEF SaveCheckpoint
    <3>. HIDE DEF p
    <3>. QED
      BY <3>1, <1>3 DEF Attempt
  <2>3. status \in {"failed", "stopped"}
    OBVIOUS
  <2>4. log[p].status \in Ended => status = log[p].status
    <3>1. log[p].status \in {"failed", "stop_requested"}
      BY <1>8 DEF SaveCheckpoint, StatusOf
    <3>. QED
      BY <3>1 DEF Ended
  <2>. HIDE DEF p, r, status
  <2>. QED
    BY <2>1, <2>2, <2>3, <2>4, <1>3, <1>4, Replaced
<1>. QED
  BY <1>6, <1>7, <1>8 DEF RunnerStep

\* ... and every other step that starts no run.
LEMMA OthersKeepLog ==
  ASSUME TypeOK, [Next]_vars, \A c \in Launches : ~RunStarts(c)
  PROVE  LogKept
<1>1. UNCHANGED log => LogKept
  BY DEF TypeOK, LogKept
<1>2. ASSUME NEW c \in Launches, LaunchStep(c)
      PROVE  LogKept
  <2>1. UNCHANGED log
    BY <1>2 DEF LaunchStep, Start, Restart, Prepare, PrepareFails, RunRejected, Unregister
  <2>. QED
    BY <1>1, <2>1
<1>3. ASSUME NEW i \in Positions, Stop(i)
      PROVE  LogKept
  <2>1. log[i].status = "running" /\ "stop_requested" \notin Ended
    BY <1>3 DEF Stop, Ended
  <2>2. log' = [log EXCEPT ![i].status = "stop_requested"]
    BY <1>3 DEF Stop
  <2>. QED
    BY <2>1, <2>2, StatusSet
<1>4. ASSUME StopAll
      PROVE  LogKept
  <2> DEFINE e(i) == IF Entered(log[i].id) /\ log[i].status = "running"
                     THEN [log[i] EXCEPT !.status = "stop_requested"] ELSE log[i]
  <2>1. \A i \in Positions : log[i] \in Attempt
    BY DEF TypeOK, Positions
  <2>2. \A i \in Positions :
          /\ e(i) \in Attempt
          /\ e(i).id = log[i].id /\ e(i).family = log[i].family /\ e(i).from = log[i].from
          /\ e(i).status = "running" => log[i].status = "running"
          /\ e(i).saved => e(i).status \in {"stopped", "failed"}
          /\ e(i).saved = log[i].saved
          /\ log[i].status \in Ended => e(i).status = log[i].status
          /\ e(i).status \in Ended => log[i].status \in Ended
    BY <2>1 DEF TypeOK, Attempt, Ended
  <2>3. log' = [i \in Positions |-> e(i)]
    BY <1>4 DEF StopAll
  <2>. HIDE DEF e
  <2>4. Len(log) \in Nat
    BY DEF TypeOK
  <2>5. log' \in Seq(Attempt) /\ Len(log') = Len(log)
    BY <2>2, <2>3, <2>4 DEF Positions
  <2>. QED
    BY <2>2, <2>3, <2>5 DEF LogKept
<1>5. UNCHANGED vars \/ Crash \/ (\E i \in Positions : Interrupt(i)) => UNCHANGED log
  BY DEF vars, Crash, Interrupt
<1>. QED
  BY <1>1, <1>2, <1>3, <1>4, <1>5, RunnerKeepsLog DEF Next

\* A step that starts no run keeps what the log says of families.
LEMMA FamiliesKept ==
  ASSUME TypeOK, LogKept
  PROVE  /\ Positions' = Positions
         /\ \A f : OfFamily(f)' = OfFamily(f) /\ IdsOf(f)' = IdsOf(f) /\ Size(f)' = Size(f)
<1>1. Positions' = Positions
  BY DEF LogKept, Positions
<1>2. ASSUME NEW f
      PROVE  OfFamily(f)' = OfFamily(f) /\ IdsOf(f)' = IdsOf(f) /\ Size(f)' = Size(f)
  <2>1. OfFamily(f)' = OfFamily(f)
    BY <1>1 DEF OfFamily, LogKept
  <2>2. IdsOf(f)' = IdsOf(f)
    BY <2>1 DEF IdsOf, OfFamily, LogKept
  <2>. QED
    BY <2>1, <2>2 DEF Size
<1>. QED
  BY <1>1, <1>2

\* A run that starts adds one attempt to one family.
LEMMA FamilyGrows ==
  ASSUME TypeOK, NEW c \in Launches, RunStarts(c)
  PROVE  /\ launch[c] \in UnderWay /\ Len(log) + 1 \notin Positions
         /\ Len(log') = Len(log) + 1 /\ Positions' = Positions \cup {Len(log) + 1}
         /\ \A i \in Positions : log'[i] = log[i]
         /\ log' \in Seq(Attempt)
         /\ log'[Len(log) + 1] =
              [id |-> launch[c].id, family |-> launch[c].family,
               from |-> launch[c].from, status |-> "running", saved |-> FALSE]
         /\ \A f : f # launch[c].family =>
              OfFamily(f)' = OfFamily(f) /\ IdsOf(f)' = IdsOf(f) /\ Size(f)' = Size(f)
         /\ \A f : f = launch[c].family =>
              /\ OfFamily(f)' = OfFamily(f) \cup {Len(log) + 1}
              /\ IdsOf(f)' = IdsOf(f) \cup {launch[c].id}
              /\ Size(f)' = Size(f) + 1
<1> DEFINE n == Len(log) + 1
           new == [id |-> launch[c].id, family |-> launch[c].family,
                   from |-> launch[c].from, status |-> "running", saved |-> FALSE]
<1>1. launch[c] \in UnderWay
  BY DEF RunStarts, TypeOK, Idle
<1>2. new \in Attempt /\ new.id = launch[c].id /\ new.family = launch[c].family
  BY <1>1 DEF UnderWay, Attempt
<1>3. log' = Append(log, new)
  BY DEF RunStarts
<1>4. log \in Seq(Attempt) /\ Len(log) \in Nat
  BY DEF TypeOK
<1>. HIDE DEF new
<1>5. /\ log' \in Seq(Attempt) /\ Len(log') = n
      /\ \A i \in Positions : log'[i] = log[i]
      /\ log'[n] = new
  BY <1>2, <1>3, <1>4 DEF Positions
<1>6. n \notin Positions /\ Positions' = Positions \cup {n}
  BY <1>4, <1>5 DEF Positions
<1>7. ASSUME NEW g, g # launch[c].family
      PROVE  OfFamily(g)' = OfFamily(g) /\ IdsOf(g)' = IdsOf(g) /\ Size(g)' = Size(g)
  <2>1. OfFamily(g)' = OfFamily(g)
    BY <1>2, <1>5, <1>6, <1>7 DEF OfFamily, Positions
  <2>2. IdsOf(g)' = IdsOf(g)
    BY <2>1, <1>5 DEF IdsOf, OfFamily, Positions
  <2>. QED
    BY <2>1, <2>2 DEF Size
<1>8. ASSUME NEW f, f = launch[c].family
      PROVE  /\ OfFamily(f)' = OfFamily(f) \cup {n}
             /\ IdsOf(f)' = IdsOf(f) \cup {launch[c].id}
             /\ Size(f)' = Size(f) + 1
  <2>1. OfFamily(f)' = OfFamily(f) \cup {n}
    BY <1>2, <1>5, <1>6, <1>8 DEF OfFamily, Positions
  <2>2. IdsOf(f)' = IdsOf(f) \cup {launch[c].id}
    <3>1. IdsOf(f)' = {log'[i].id : i \in OfFamily(f)'}
      BY DEF IdsOf
    <3>2. \A i \in OfFamily(f) : log'[i].id = log[i].id
      BY <1>5 DEF OfFamily, Positions
    <3>3. log'[n].id = launch[c].id
      BY <1>2, <1>5
    <3>. HIDE DEF n
    <3>. QED
      BY <3>1, <3>2, <3>3, <2>1 DEF IdsOf
  <2>3. n \notin OfFamily(f)
    BY <1>6 DEF OfFamily
  <2>4. IsFiniteSet(OfFamily(f))
    BY <1>4, SizeType
  <2>. HIDE DEF n
  <2>5. Size(f)' = Size(f) + 1
    BY <2>1, <2>3, <2>4, FS_AddElement DEF Size
  <2>. QED
    BY <2>1, <2>2, <2>5
<1>. QED
  BY <1>1, <1>5, <1>6, <1>7, <1>8 DEF new

\* A restart is numbered one more than the size of its family.
LEMMA NextIdFollows ==
  ASSUME CommandsAssumption, TypeOK, IdsCounted, NEW f
  PROVE  /\ Size(f) + 1 \in 1..MaxAttempts + 1
         /\ NextId(f) = <<"attempt", Size(f) + 1>>
<1> DEFINE N == Size(f) + 1
           S == {n \in N..MaxAttempts + 1 : <<"attempt", n>> \notin IdsOf(f)}
<1>1. Size(f) \in Nat /\ N \in 1..MaxAttempts + 1 /\ MaxAttempts \in Nat
  <2>1. Size(f) \in Nat /\ Size(f) <= Len(log)
    BY SizeType DEF TypeOK
  <2>2. Len(log) \in Nat /\ Len(log) <= MaxAttempts
    BY DEF TypeOK
  <2>. QED
    BY <2>1, <2>2 DEF CommandsAssumption
<1>2. <<"attempt", N>> \notin IdsOf(f)
  <2>1. ASSUME NEW i \in OfFamily(f), log[i].id = <<"attempt", N>>
        PROVE  FALSE
    <3>1. i \in Positions /\ log[i].family = f
      BY DEF OfFamily
    <3>2. N <= Size(f)
      BY <2>1, <3>1, <1>1 DEF IdsCounted
    <3>. QED
      BY <3>2, <1>1
  <2>. QED
    BY <2>1 DEF IdsOf
<1>3. N \in S /\ \A n \in S : N <= n
  BY <1>1, <1>2
<1>4. \A x \in S : (\A y \in S : x <= y) => x = N
  BY <1>1, <1>3
<1>5. Min(S) = N
  <2>. HIDE DEF N, S
  <2>. QED
    BY <1>3, <1>4 DEF Min
<1>6. NextId(f) = <<"attempt", Min(S)>>
  BY DEF NextId, Size
<1>. QED
  BY <1>1, <1>5, <1>6

-----------------------------------------------------------------------------
(* What the steps do to the commands under way and to the map *)

Same(c) ==
  /\ launch'[c].id = launch[c].id
  /\ launch'[c].family = launch[c].family
  /\ launch'[c].from = launch[c].from

\* What a step does to a command that it neither begins nor runs.
LaunchKept(c) ==
  \/ launch'[c] = Idle
  \/ launch'[c] = launch[c]
  \/ /\ launch[c] \in UnderWay /\ launch'[c] \in UnderWay /\ Same(c)
     /\ launch'[c].phase \in {launch[c].phase, "leaving"}

Begins(c) == (\E r, f \in Runs : Start(c, r, f)) \/ (\E k \in Positions : Restart(c, k))

\* Being told to stop changes nothing else of a command.
LEMMA ToldKept ==
  ASSUME NEW c, launch[c] \in UnderWay, launch'[c] = [launch[c] EXCEPT !.told = TRUE]
  PROVE  LaunchKept(c) /\ launch'[c].phase = launch[c].phase
<1>1. /\ launch'[c] \in UnderWay /\ launch'[c].phase = launch[c].phase
      /\ launch'[c].id = launch[c].id /\ launch'[c].family = launch[c].family
      /\ launch'[c].from = launch[c].from
  BY DEF UnderWay
<1>. QED
  BY <1>1 DEF LaunchKept, Same

\* A command whose phase is that of a run is under way.
LEMMA PhaseUnderWay ==
  ASSUME TypeOK, NEW c \in Launches, launch[c].phase # "idle"
  PROVE  launch[c] \in UnderWay
BY DEF TypeOK, Idle

\* A step that neither begins the launch d nor starts its run leaves it as it is, moves
\* it on or ends it.
LEMMA LaunchSteps ==
  ASSUME CommandsAssumption, TypeOK, EntriesAreLive, [Next]_vars,
         NEW d \in Launches, ~RunStarts(d), ~Begins(d)
  PROVE  LaunchKept(d)
<1>1. launch \in [Launches -> UnderWay \cup {Idle}]
  BY DEF TypeOK
<1>2. \A id \in AttemptIds : Entered(id) => active[id] \in Launches /\ launch[active[id]] \in UnderWay
  BY PhaseUnderWay DEF TypeOK, EntriesAreLive, Entered
<1>3. ASSUME NEW c \in Launches, c # d, LaunchStep(c) \/ RunnerStep(c)
      PROVE  launch'[d] = launch[d]
  BY <1>1, <1>3 DEF LaunchStep, RunnerStep, Start, Restart, Prepare, PrepareFails, RunStarts,
     RunRejected, Unregister, RunnerPolls, RunnerStops, RunnerFails, SaveCheckpoint,
     RunnerCompletes, RunnerThrows
<1>4. ASSUME launch[d] \in UnderWay, launch' = [launch EXCEPT ![d].phase = "leaving"]
      PROVE  LaunchKept(d)
  BY <1>1, <1>4 DEF LaunchKept, Same, UnderWay
<1>5. ASSUME launch[d] \in UnderWay, launch' = [launch EXCEPT ![d].told = TRUE]
      PROVE  LaunchKept(d)
  <2>1. launch'[d] = [launch[d] EXCEPT !.told = TRUE]
    BY <1>1, <1>5
  <2>. QED
    BY <2>1, <1>5, ToldKept
<1>6. CASE LaunchStep(d)
  <2>1. CASE PrepareFails(d) \/ Unregister(d)
    BY <1>1, <2>1 DEF PrepareFails, Unregister, LaunchKept
  <2>2. CASE RunRejected(d)
    <3>1. launch[d] \in UnderWay
      BY <2>2, PhaseUnderWay DEF RunRejected
    <3>2. \/ launch'[d] = Idle
          \/ launch'[d] = [launch[d] EXCEPT !.phase = "leaving"]
      BY <1>1, <2>2 DEF RunRejected
    <3>. QED
      BY <3>1, <3>2 DEF LaunchKept, Same, UnderWay
  <2>. QED
    BY <1>6, <2>1, <2>2 DEF LaunchStep, Begins
<1>7. CASE RunnerStep(d)
  <2>1. launch[d] \in UnderWay
    <3>1. d \in Live
      BY <1>7 DEF RunnerStep, RunnerPolls, RunnerStops, RunnerFails, SaveCheckpoint,
                  RunnerCompletes, RunnerThrows
    <3>. QED
      BY <3>1, PhaseUnderWay DEF Live, RunsIn
  <2>. QED
    BY <2>1, <1>4, <1>5, <1>7 DEF RunnerStep, RunnerPolls, RunnerStops, RunnerFails,
       SaveCheckpoint, RunnerCompletes, RunnerThrows, LaunchKept
<1>8. ASSUME NEW i \in Positions, Stop(i) \/ Interrupt(i)
      PROVE  LaunchKept(d)
  <2> DEFINE e == active[log[i].id]
  <2>1. log[i].id \in AttemptIds
    <3>1. log[i] \in Attempt
      BY DEF TypeOK, Positions
    <3>. QED
      BY <3>1 DEF Attempt
  <2>2. CASE launch' = launch
    BY <2>2 DEF LaunchKept
  <2>3. CASE Entered(log[i].id) /\ launch' = [launch EXCEPT ![e].told = TRUE]
    <3>1. e \in Launches /\ launch[e] \in UnderWay
      BY <2>1, <2>3, <1>2
    <3>. HIDE DEF e
    <3>2. CASE e = d
      BY <3>1, <3>2, <2>3, <1>5
    <3>3. CASE e # d
      BY <3>3, <2>3, <1>1 DEF LaunchKept
    <3>. QED
      BY <3>2, <3>3
  <2>4. active[log[i].id] \in Live => Entered(log[i].id)
    BY DEF Live, RunsIn, Entered, NoEntry, CommandsAssumption
  <2>. QED
    BY <1>8, <2>2, <2>3, <2>4 DEF Stop, Interrupt
<1>9. CASE StopAll
  <2>1. CASE \E id \in AttemptIds : active[id] = d
    <3>1. launch'[d] = [launch[d] EXCEPT !.told = TRUE]
      BY <1>9, <2>1 DEF StopAll
    <3>2. launch[d] \in UnderWay
      BY <2>1, <1>2 DEF Entered, NoEntry, CommandsAssumption
    <3>. QED
      BY <3>1, <3>2, ToldKept
  <2>2. CASE ~ \E id \in AttemptIds : active[id] = d
    BY <1>9, <2>2 DEF StopAll, LaunchKept
  <2>. QED
    BY <2>1, <2>2
<1>10. CASE Crash \/ UNCHANGED vars
  BY <1>10 DEF Crash, vars, LaunchKept
<1>. QED
  BY <1>3, <1>6, <1>7, <1>8, <1>9, <1>10 DEF Next, LaunchKept

\* A run that starts keeps what its command was given.
LEMMA RunStartsSame ==
  ASSUME TypeOK, NEW c \in Launches, RunStarts(c)
  PROVE  /\ launch[c] \in UnderWay /\ launch[c].phase = "preparing"
         /\ launch'[c] \in UnderWay /\ launch'[c].phase = "running" /\ Same(c)
<1>1. launch[c] \in UnderWay
  BY PhaseUnderWay DEF RunStarts
<1>2. launch'[c] = [launch[c] EXCEPT !.phase = "running"]
  BY DEF RunStarts, TypeOK
<1>. QED
  BY <1>1, <1>2 DEF Same, UnderWay, RunStarts

\* A command that begins has a number its family has not come to, or the
\* operator's run id.
LEMMA BeginsWith ==
  ASSUME CommandsAssumption, TypeOK, IdsCounted, NEW c \in Launches, Begins(c)
  PROVE  /\ launch[c] = Idle /\ UNCHANGED <<log, active>>
         /\ launch'[c] \in UnderWay /\ launch'[c].phase = "preparing"
         /\ \/ /\ launch'[c].from = None
               /\ launch'[c].id \in {"run"} \X Runs
            \/ \E k \in Positions :
                 /\ Restart(c, k)
                 /\ launch'[c].from = k /\ launch'[c].from # None
                 /\ launch'[c].family = log[k].family
                 /\ launch'[c].id = <<"attempt", Size(log[k].family) + 1>>
                 /\ Size(log[k].family) + 1 \in 2..MaxAttempts + 1
<1>1. launch \in [Launches -> UnderWay \cup {Idle}] /\ MaxAttempts \in Nat
  BY DEF TypeOK, CommandsAssumption
<1>2. ASSUME NEW id \in AttemptIds, NEW f \in Runs, NEW k \in 0..MaxAttempts, Prepare(c, id, f, k)
      PROVE  /\ launch[c] = Idle /\ UNCHANGED <<log, active>>
             /\ launch'[c] \in UnderWay /\ launch'[c].phase = "preparing"
             /\ launch'[c].id = id /\ launch'[c].family = f /\ launch'[c].from = k
  <2> DEFINE new == [phase |-> "preparing", id |-> id, family |-> f, from |-> k, told |-> FALSE]
  <2>1. /\ new \in UnderWay /\ new.phase = "preparing"
        /\ new.id = id /\ new.family = f /\ new.from = k
    BY DEF UnderWay
  <2>2. launch[c] = Idle /\ UNCHANGED <<log, active>> /\ launch'[c] = new
    BY <1>1, <1>2 DEF Prepare
  <2>. HIDE DEF new
  <2>. QED
    BY <2>1, <2>2
<1>3. ASSUME NEW r \in Runs, NEW f \in Runs, Start(c, r, f)
      PROVE  /\ launch[c] = Idle /\ UNCHANGED <<log, active>>
             /\ launch'[c] \in UnderWay /\ launch'[c].phase = "preparing"
             /\ launch'[c].from = None /\ launch'[c].id \in {"run"} \X Runs
  <2>1. <<"run", r>> \in AttemptIds /\ <<"run", r>> \in {"run"} \X Runs /\ None \in 0..MaxAttempts
    BY <1>1 DEF AttemptIds, None
  <2>. QED
    BY <2>1, <1>2, <1>3 DEF Start
<1>4. ASSUME NEW k \in Positions, Restart(c, k)
      PROVE  /\ launch[c] = Idle /\ UNCHANGED <<log, active>>
             /\ launch'[c] \in UnderWay /\ launch'[c].phase = "preparing"
             /\ launch'[c].from = k /\ launch'[c].from # None
             /\ launch'[c].family = log[k].family
             /\ launch'[c].id = <<"attempt", Size(log[k].family) + 1>>
             /\ Size(log[k].family) + 1 \in 2..MaxAttempts + 1
  <2>1. k \in 1..MaxAttempts /\ k # None /\ log[k] \in Attempt
    BY <1>1 DEF Positions, TypeOK, None
  <2> DEFINE f == log[k].family
             N == Size(f) + 1
  <2>2. f \in Runs
    BY <2>1 DEF Attempt
  <2>3. N \in 1..MaxAttempts + 1 /\ NextId(f) = <<"attempt", N>>
    BY NextIdFollows
  <2>4. N # 1
    <3>1. k \in OfFamily(f)
      BY DEF OfFamily
    <3>2. IsFiniteSet(OfFamily(f))
      BY SizeType DEF TypeOK
    <3>3. Size(f) # 0
      BY <3>1, <3>2, FS_EmptySet DEF Size
    <3>4. Size(f) \in Nat
      BY SizeType DEF TypeOK
    <3>. QED
      BY <3>3, <3>4
  <2>5. NextId(f) \in AttemptIds
    BY <2>3 DEF AttemptIds
  <2>. HIDE DEF f, N
  <2>6. Prepare(c, NextId(f), f, k)
    BY <1>4 DEF Restart, f
  <2>. QED
    BY <2>1, <2>2, <2>3, <2>4, <2>5, <2>6, <1>1, <1>2 DEF f, N
<1>. QED
  BY <1>3, <1>4 DEF Begins

-----------------------------------------------------------------------------
(* Type correctness, and the map *)

\* A family never shrinks.
LEMMA SizeGrows ==
  ASSUME TypeOK, [Next]_vars
  PROVE  \A f : Size(f) \in Nat /\ Size(f)' \in Nat /\ Size(f) <= Size(f)'
<1>1. \A f : Size(f) \in Nat
  BY SizeType DEF TypeOK
<1>2. CASE \E c \in Launches : RunStarts(c)
  <2>1. PICK c \in Launches : RunStarts(c)
    BY <1>2
  <2>2. ASSUME NEW f
        PROVE  Size(f)' = Size(f) \/ Size(f)' = Size(f) + 1
    <3>1. CASE f = launch[c].family
      BY <2>1, <3>1, FamilyGrows
    <3>2. CASE f # launch[c].family
      BY <2>1, <3>2, FamilyGrows
    <3>. QED
      BY <3>1, <3>2
  <2>. QED
    BY <2>2, <1>1
<1>3. CASE \A c \in Launches : ~RunStarts(c)
  BY <1>1, <1>3, OthersKeepLog, FamiliesKept
<1>. QED
  BY <1>2, <1>3

\* A step leaves the commands as they are, but for the one it begins or runs.
LEMMA PhaseSteps ==
  ASSUME CommandsAssumption, BaseInv, [Next]_vars, NEW c \in Launches
  PROVE  /\ launch'[c] \in UnderWay \cup {Idle}
         /\ launch'[c].phase = "preparing" =>
              \/ Begins(c)
              \/ launch[c] \in UnderWay /\ launch[c].phase = "preparing" /\ Same(c)
         /\ launch'[c].phase = "running" =>
              \/ RunStarts(c)
              \/ launch[c].phase = "running" /\ Same(c)
<1>1. CASE RunStarts(c)
  BY <1>1, RunStartsSame DEF BaseInv
<1>2. CASE Begins(c)
  BY <1>2, BeginsWith DEF BaseInv
<1>3. CASE ~RunStarts(c) /\ ~Begins(c)
  <2>1. LaunchKept(c)
    BY <1>3, LaunchSteps DEF BaseInv
  <2>2. launch[c] \in UnderWay \cup {Idle}
    BY DEF BaseInv, TypeOK
  <2>3. launch[c].phase = "preparing" => launch[c] \in UnderWay
    BY <2>2 DEF Idle
  <2>4. Idle.phase = "idle"
    BY DEF Idle
  <2>. QED
    BY <2>1, <2>2, <2>3, <2>4 DEF LaunchKept, Same
<1>. QED
  BY <1>1, <1>2, <1>3

\* The log keeps its type, and only an ended attempt has a checkpoint.
LEMMA LogTyped ==
  ASSUME CommandsAssumption, TypeOK, [Next]_vars
  PROVE  /\ log' \in Seq(Attempt) /\ Len(log') <= MaxAttempts
         /\ \A i \in Positions' : log'[i].saved => log'[i].status \in {"stopped", "failed"}
<1>1. CASE \A c \in Launches : ~RunStarts(c)
  BY <1>1, OthersKeepLog, FamiliesKept DEF LogKept, TypeOK
<1>2. ASSUME NEW c \in Launches, RunStarts(c)
      PROVE  /\ log' \in Seq(Attempt) /\ Len(log') <= MaxAttempts
             /\ \A i \in Positions' : log'[i].saved => log'[i].status \in {"stopped", "failed"}
  <2>1. ~log'[Len(log) + 1].saved
    <3> DEFINE new == [id |-> launch[c].id, family |-> launch[c].family,
                       from |-> launch[c].from, status |-> "running", saved |-> FALSE]
    <3>1. log'[Len(log) + 1] = new
      BY <1>2, FamilyGrows
    <3>2. new.saved = FALSE
      OBVIOUS
    <3>. QED
      BY <3>1, <3>2
  <2>2. \A i \in Positions : log'[i] = log[i]
    BY <1>2, FamilyGrows
  <2>3. log' \in Seq(Attempt) /\ Len(log') = Len(log) + 1 /\ Positions' = Positions \cup {Len(log) + 1}
    BY <1>2, FamilyGrows
  <2>4. Len(log) < MaxAttempts /\ MaxAttempts \in Nat /\ Len(log) \in Nat
    BY <1>2 DEF RunStarts, CommandsAssumption, TypeOK
  <2>. QED
    BY <2>1, <2>2, <2>3, <2>4 DEF TypeOK
<1>. QED
  BY <1>1, <1>2

\* The run of a live launch has its attempt in the log, under its family.
LEMMA RunsLogged ==
  ASSUME CommandsAssumption, BaseInv, [Next]_vars
  PROVE  (\A c \in Live : launch[c].id \in IdsOf(launch[c].family))'
<1>. SUFFICES ASSUME NEW c \in Launches, launch'[c].phase = "running"
              PROVE  launch'[c].id \in IdsOf(launch[c].family)'
  BY DEF Live, RunsIn
<1>1. Same(c)
  BY PhaseSteps, RunStartsSame DEF BaseInv
<1>2. ASSUME NEW g, g = launch[c].family
      PROVE  launch[c].id \in IdsOf(g)'
  <2>1. CASE RunStarts(c)
    BY <1>2, <2>1, FamilyGrows DEF BaseInv
  <2>2. CASE ~RunStarts(c)
    <3>1. launch[c].id \in IdsOf(g)
      BY <1>2, <2>2, PhaseSteps DEF BaseInv, TypeOK, Live, RunsIn
    <3>2. CASE \A d \in Launches : ~RunStarts(d)
      BY <3>1, <3>2, OthersKeepLog, FamiliesKept DEF BaseInv
    <3>3. ASSUME NEW d \in Launches, RunStarts(d)
          PROVE  launch[c].id \in IdsOf(g)'
      BY <3>1, <3>3, FamilyGrows DEF BaseInv
    <3>. QED
      BY <3>2, <3>3
  <2>. QED
    BY <2>1, <2>2
<1>. QED
  BY <1>1, <1>2 DEF Same, IdsOf, OfFamily

\* An entry is added by the command that enters a run, and taken away by the
\* command that leaves it or by a crash.
LEMMA MapSteps ==
  ASSUME CommandsAssumption, BaseInv, [Next]_vars
  PROVE  active' \in [AttemptIds -> Launches \cup {NoEntry}] /\ EntriesAreLive'
<1>1. active \in [AttemptIds -> Launches \cup {NoEntry}] /\ launch \in [Launches -> UnderWay \cup {Idle}]
  BY DEF BaseInv, TypeOK
<1>2. \A id \in AttemptIds : Entered(id) =>
        /\ active[id] \in Launches /\ launch[active[id]] \in UnderWay
        /\ launch[active[id]].phase \in {"running", "leaving"} /\ launch[active[id]].id = id
  BY <1>1, PhaseUnderWay DEF BaseInv, EntriesAreLive, Entered
<1>3. ASSUME NEW c \in Launches, launch[c].phase \in {"preparing", "idle"},
             launch' = [launch EXCEPT ![c] = launch'[c]], UNCHANGED active
      PROVE  active' \in [AttemptIds -> Launches \cup {NoEntry}] /\ EntriesAreLive'
  BY <1>1, <1>2, <1>3 DEF EntriesAreLive, Entered
<1>4. ASSUME NEW c \in Launches, launch[c].phase = "preparing", launch'[c] \in UnderWay,
             launch' = [launch EXCEPT ![c] = launch'[c]], launch'[c].id = launch[c].id,
             launch'[c].phase \in {"running", "leaving"}, active' = [active EXCEPT ![launch[c].id] = c]
      PROVE  active' \in [AttemptIds -> Launches \cup {NoEntry}] /\ EntriesAreLive'
  <2>1. active' \in [AttemptIds -> Launches \cup {NoEntry}]
    BY <1>1, <1>4
  <2>2. \A d \in Launches : d # c => launch'[d] = launch[d]
    BY <1>1, <1>4
  <2>3. ASSUME NEW id \in AttemptIds, active'[id] # NoEntry
        PROVE  /\ launch'[active'[id]].phase \in {"running", "leaving"}
               /\ launch'[active'[id]].id = id
    <3>1. CASE id = launch[c].id
      BY <3>1, <1>1, <1>4
    <3>2. CASE id # launch[c].id
      <4>1. active'[id] = active[id] /\ Entered(id)
        BY <3>2, <2>3, <1>1, <1>4 DEF Entered
      <4>2. active[id] # c /\ active[id] \in Launches
        BY <4>1, <1>2, <1>4
      <4>. QED
        BY <4>1, <4>2, <2>2, <1>2
    <3>. QED
      BY <3>1, <3>2
  <2>. QED
    BY <2>1, <2>3 DEF EntriesAreLive, Entered
<1>5. ASSUME UNCHANGED active, \A c \in Launches : ~RunStarts(c) /\ ~Begins(c),
             \A c \in Launches : launch[c].phase # "idle" => launch'[c] # Idle
      PROVE  active' \in [AttemptIds -> Launches \cup {NoEntry}] /\ EntriesAreLive'
  <2>1. \A c \in Launches : launch[c].phase \in {"running", "leaving"} =>
          launch'[c].phase \in {"running", "leaving"} /\ launch'[c].id = launch[c].id
    BY <1>5, LaunchSteps DEF BaseInv, LaunchKept, Same
  <2>. QED
    BY <1>1, <1>2, <1>5, <2>1 DEF EntriesAreLive, Entered
<1>6. ASSUME NEW c \in Launches, Begins(c)
      PROVE  active' \in [AttemptIds -> Launches \cup {NoEntry}] /\ EntriesAreLive'
  <2>1. launch' = [launch EXCEPT ![c] = launch'[c]] /\ launch[c] = Idle /\ UNCHANGED active
    BY <1>1, <1>6 DEF Begins, Start, Restart, Prepare
  <2>. QED
    BY <1>3, <2>1 DEF Idle
<1>7. ASSUME NEW c \in Launches, PrepareFails(c)
      PROVE  active' \in [AttemptIds -> Launches \cup {NoEntry}] /\ EntriesAreLive'
  <2>1. launch' = [launch EXCEPT ![c] = launch'[c]]
    BY <1>1, <1>7 DEF PrepareFails
  <2>. QED
    BY <1>3, <1>7, <2>1 DEF PrepareFails
<1>8. ASSUME NEW c \in Launches, RunStarts(c)
      PROVE  active' \in [AttemptIds -> Launches \cup {NoEntry}] /\ EntriesAreLive'
  <2>1. launch' = [launch EXCEPT ![c] = launch'[c]] /\ active' = [active EXCEPT ![launch[c].id] = c]
    BY <1>1, <1>8 DEF RunStarts
  <2>. QED
    BY <1>4, <1>8, <2>1, RunStartsSame DEF BaseInv, Same
<1>9. ASSUME NEW c \in Launches, RunRejected(c)
      PROVE  active' \in [AttemptIds -> Launches \cup {NoEntry}] /\ EntriesAreLive'
  <2>1. launch' = [launch EXCEPT ![c] = launch'[c]] /\ launch[c].phase = "preparing"
    BY <1>1, <1>9 DEF RunRejected
  <2>2. launch[c] \in UnderWay
    BY <2>1, PhaseUnderWay DEF BaseInv
  <2>3. \/ UNCHANGED active
        \/ /\ launch'[c] = [launch[c] EXCEPT !.phase = "leaving"]
           /\ active' = [active EXCEPT ![launch[c].id] = c]
    BY <1>1, <1>9 DEF RunRejected
  <2>4. CASE UNCHANGED active
    BY <1>3, <2>1, <2>4
  <2>5. CASE /\ launch'[c] = [launch[c] EXCEPT !.phase = "leaving"]
             /\ active' = [active EXCEPT ![launch[c].id] = c]
    <3>1. launch'[c] \in UnderWay /\ launch'[c].id = launch[c].id /\ launch'[c].phase = "leaving"
      BY <2>2, <2>5 DEF UnderWay
    <3>. QED
      BY <3>1, <2>1, <2>5, <1>4
  <2>. QED
    BY <2>3, <2>4, <2>5
<1>10. ASSUME NEW c \in Launches, Unregister(c)
       PROVE  active' \in [AttemptIds -> Launches \cup {NoEntry}] /\ EntriesAreLive'
  <2>1. launch' = [launch EXCEPT ![c] = Idle] /\ active' = [active EXCEPT ![launch[c].id] = NoEntry]
    BY <1>10 DEF Unregister
  <2>. QED
    BY <1>1, <1>2, <2>1 DEF EntriesAreLive, Entered
<1>11. CASE Crash
  BY <1>11 DEF Crash, EntriesAreLive, Entered
<1>12. ASSUME \A c \in Launches : ~RunStarts(c) /\ ~Begins(c),
              \/ \E c \in Launches : RunnerStep(c)
              \/ \E i \in Positions : Stop(i) \/ Interrupt(i)
              \/ StopAll \/ UNCHANGED vars
       PROVE  active' \in [AttemptIds -> Launches \cup {NoEntry}] /\ EntriesAreLive'
  <2>1. UNCHANGED active
    BY <1>12 DEF RunnerStep, RunnerPolls, RunnerStops, RunnerFails, SaveCheckpoint,
       RunnerCompletes, RunnerThrows, Stop, Interrupt, StopAll, vars
  <2>2. ASSUME NEW c \in Launches, launch[c].phase # "idle"
        PROVE  launch'[c] # Idle
    <3>1. launch[c] \in UnderWay /\ Idle.phase = "idle" /\ launch[c] # Idle
      BY <2>2, PhaseUnderWay DEF BaseInv, Idle
    <3>2. CASE \E d \in Launches : RunnerStep(d)
      <4>1. PICK d \in Launches : RunnerStep(d)
        BY <3>2
      <4>2. UNCHANGED launch \/ launch' = [launch EXCEPT ![d].phase = "leaving"]
              \/ launch' = [launch EXCEPT ![d].told = TRUE]
        BY <4>1 DEF RunnerStep, RunnerPolls, RunnerStops, RunnerFails, SaveCheckpoint,
           RunnerCompletes, RunnerThrows
      <4>3. /\ [launch[c] EXCEPT !.phase = "leaving"].phase = "leaving"
            /\ [launch[c] EXCEPT !.told = TRUE].phase = launch[c].phase
        BY <3>1 DEF UnderWay
      <4>. QED
        BY <4>2, <4>3, <3>1, <1>1, <2>2
    <3>3. CASE (\E i \in Positions : Stop(i) \/ Interrupt(i)) \/ StopAll \/ UNCHANGED vars
      <4>1. launch'[c] = launch[c] \/ launch'[c] = [launch[c] EXCEPT !.told = TRUE]
        BY <3>3, <1>1 DEF Stop, Interrupt, StopAll, vars
      <4>2. [launch[c] EXCEPT !.told = TRUE].phase = launch[c].phase
        BY <3>1 DEF UnderWay
      <4>. QED
        BY <4>1, <4>2, <3>1, <2>2
    <3>. QED
      BY <3>2, <3>3, <1>12
  <2>. QED
    BY <2>1, <2>2, <1>5, <1>12
<1>. QED
  BY <1>6, <1>7, <1>8, <1>9, <1>10, <1>11, <1>12 DEF Next, LaunchStep, Begins

\* No restart of a family gets a number beyond its size.
LEMMA IdsStayCounted ==
  ASSUME CommandsAssumption, BaseInv, [Next]_vars
  PROVE  IdsCounted'
<1>. SUFFICES ASSUME NEW i \in Positions', NEW n \in Nat, log'[i].id = <<"attempt", n>>,
                     NEW f, f = log'[i].family
              PROVE  n <= Size(f)'
  BY DEF IdsCounted, Size, OfFamily
<1>1. Size(f) \in Nat /\ Size(f)' \in Nat /\ Size(f) <= Size(f)'
  BY SizeGrows DEF BaseInv
<1>2. CASE i \in Positions /\ log'[i].id = log[i].id /\ log'[i].family = log[i].family
  <2>1. n <= Size(log[i].family)
    BY <1>2 DEF BaseInv, IdsCounted
  <2>. QED
    BY <1>1, <1>2, <2>1
<1>3. CASE \A c \in Launches : ~RunStarts(c)
  BY <1>2, <1>3, OthersKeepLog, FamiliesKept DEF BaseInv, LogKept
<1>4. ASSUME NEW c \in Launches, RunStarts(c)
      PROVE  n <= Size(f)'
  <2>1. CASE i \in Positions
    BY <1>2, <1>4, <2>1, FamilyGrows DEF BaseInv
  <2>2. CASE i \notin Positions
    <3>1. i = Len(log) + 1
      <4>1. Positions' = Positions \cup {Len(log) + 1}
        BY <1>4, FamilyGrows DEF BaseInv
      <4>. QED
        BY <4>1, <2>2
    <3>2. log'[i] = [id |-> launch[c].id, family |-> launch[c].family,
                     from |-> launch[c].from, status |-> "running", saved |-> FALSE]
      BY <3>1, <1>4, FamilyGrows DEF BaseInv
    <3>3. launch[c].id = <<"attempt", n>> /\ f = launch[c].family
      BY <3>2
    <3>4. Size(f)' = Size(f) + 1
      BY <3>3, <1>4, FamilyGrows DEF BaseInv
    <3>5. c \in Preparing
      BY <1>4 DEF RunStarts, Preparing, RunsIn
    <3>6. launch[c].from # None
      <4>1. <<"attempt", n>> \notin {"run"} \X Runs
        OBVIOUS
      <4>. QED
        BY <4>1, <3>3, <3>5 DEF BaseInv, StartsNamed
    <3>7. PICK m \in 2..Size(f) + 1 : launch[c].id = <<"attempt", m>>
      BY <3>3, <3>5, <3>6 DEF BaseInv, NumbersInReach
    <3>8. m = n
      BY <3>3, <3>7
    <3>. QED
      BY <3>4, <3>7, <3>8, <1>1
  <2>. QED
    BY <2>1, <2>2
<1>. QED
  BY <1>3, <1>4

\* A launch under way keeps an id its family may take.
LEMMA NumbersStayInReach ==
  ASSUME CommandsAssumption, BaseInv, [Next]_vars
  PROVE  NumbersInReach' /\ StartsNamed'
<1>1. ASSUME NEW c \in Launches, launch'[c].phase = "preparing", launch'[c].from = None
      PROVE  launch'[c].id \in {"run"} \X Runs
  <2>1. CASE Begins(c)
    BY <1>1, <2>1, BeginsWith DEF BaseInv
  <2>2. CASE ~Begins(c)
    BY <1>1, <2>2, PhaseSteps DEF BaseInv, StartsNamed, Preparing, RunsIn, Same
  <2>. QED
    BY <2>1, <2>2
<1>2. ASSUME NEW c \in Launches, launch'[c].phase = "preparing", launch'[c].from # None,
             NEW f, f = launch'[c].family
      PROVE  \E n \in 2..Size(f)' + 1 : launch'[c].id = <<"attempt", n>>
  <2>1. Size(f) \in Nat /\ Size(f)' \in Nat /\ Size(f) <= Size(f)'
    BY SizeGrows DEF BaseInv
  <2>2. \E n \in 2..Size(f) + 1 : launch'[c].id = <<"attempt", n>>
    <3>1. CASE Begins(c)
      <4>1. PICK k \in Positions :
              /\ launch'[c].family = log[k].family
              /\ launch'[c].id = <<"attempt", Size(log[k].family) + 1>>
              /\ Size(log[k].family) + 1 \in 2..MaxAttempts + 1
        BY <1>2, <3>1, BeginsWith DEF BaseInv
      <4>. QED
        BY <4>1, <1>2, <2>1
    <3>2. CASE ~Begins(c)
      BY <1>2, <3>2, PhaseSteps DEF BaseInv, NumbersInReach, Preparing, RunsIn, Same
    <3>. QED
      BY <3>1, <3>2
  <2>. QED
    BY <2>1, <2>2
<1>3. StartsNamed'
  BY <1>1 DEF StartsNamed, Preparing, RunsIn
<1>4. NumbersInReach'
  BY <1>2 DEF NumbersInReach, Preparing, RunsIn, Size, OfFamily
<1>. QED
  BY <1>3, <1>4

\* Every step keeps the types, the map and the bounds on ids.
LEMMA BaseStep == BaseInv /\ [Next]_vars => BaseInv'
<1>. SUFFICES ASSUME BaseInv, [Next]_vars
              PROVE  BaseInv'
  OBVIOUS
<1>. USE CommandsAssumption
<1>1. launch' \in [Launches -> UnderWay \cup {Idle}]
  <2>1. \A c \in Launches : launch'[c] \in UnderWay \cup {Idle}
    BY PhaseSteps
  <2>2. launch' = [c \in Launches |-> launch'[c]]
    <3>1. launch = [c \in Launches |-> launch[c]]
      BY DEF BaseInv, TypeOK
    <3>. QED
      BY <3>1 DEF Next, vars, LaunchStep, RunnerStep, Start, Restart, Prepare, PrepareFails,
         RunStarts, RunRejected, Unregister, RunnerPolls, RunnerStops, RunnerFails,
         SaveCheckpoint, RunnerCompletes, RunnerThrows, Stop, Interrupt, StopAll, Crash
  <2>. QED
    BY <2>1, <2>2
<1>2. TypeOK'
  BY <1>1, LogTyped, MapSteps, RunsLogged DEF BaseInv, TypeOK
<1>. QED
  BY <1>2, MapSteps, IdsStayCounted, NumbersStayInReach DEF BaseInv

\* Every variable keeps its type, and a run its attempt in the log.
THEOREM CommandsTypeCorrect == Spec => []TypeOK
<1>1. Spec => []BaseInv
  BY BaseInit, BaseStep, PTL DEF Spec
<1>2. BaseInv => TypeOK
  BY DEF BaseInv
<1>. QED
  BY <1>1, <1>2, PTL

\* An entry of the map of active attempts belongs to a command that is under
\* way and will take it away.
THEOREM EntriesLive == Spec => []EntriesAreLive
<1>1. Spec => []BaseInv
  BY BaseInit, BaseStep, PTL DEF Spec
<1>2. BaseInv => EntriesAreLive
  BY DEF BaseInv
<1>. QED
  BY <1>1, <1>2, PTL

-----------------------------------------------------------------------------
(* Attempt ids, and one resume of a checkpoint at a time *)

\* What the log says of an attempt's identity stays, and no attempt runs again.
LEMMA LogSteps ==
  ASSUME TypeOK, [Next]_vars
  PROVE  \A i \in Positions :
           /\ i \in Positions' /\ log'[i].id = log[i].id
           /\ log'[i].family = log[i].family /\ log'[i].from = log[i].from
           /\ log'[i].status = "running" => log[i].status = "running"
<1>1. CASE \A c \in Launches : ~RunStarts(c)
  BY <1>1, OthersKeepLog, FamiliesKept DEF LogKept
<1>2. ASSUME NEW c \in Launches, RunStarts(c), NEW i \in Positions
      PROVE  i \in Positions' /\ log'[i] = log[i]
  <2>1. Positions' = Positions \cup {Len(log) + 1}
    BY <1>2, FamilyGrows
  <2>2. log'[i] = log[i]
    BY <1>2, FamilyGrows
  <2>. QED
    BY <2>1, <2>2
<1>. QED
  BY <1>1, <1>2

\* The one new attempt of a step is that of a run that starts.
LEMMA NewAttempt ==
  ASSUME TypeOK, [Next]_vars, NEW i \in Positions', i \notin Positions
  PROVE  \E c \in Launches :
           /\ RunStarts(c) /\ i = Len(log) + 1
           /\ log'[i].id = launch[c].id /\ log'[i].family = launch[c].family
           /\ log'[i].from = launch[c].from
<1>1. PICK c \in Launches : RunStarts(c)
  BY OthersKeepLog, FamiliesKept
<1>2. Positions' = Positions \cup {Len(log) + 1}
  BY <1>1, FamilyGrows
<1>3. i = Len(log) + 1
  BY <1>2
<1>4. log'[i] = [id |-> launch[c].id, family |-> launch[c].family,
                 from |-> launch[c].from, status |-> "running", saved |-> FALSE]
  BY <1>1, <1>3, FamilyGrows
<1>. QED
  BY <1>1, <1>3, <1>4

\* Whether a start had joined the family when attempt i started is settled.
LEMMA JoinedKept ==
  ASSUME TypeOK, [Next]_vars, NEW f, NEW i \in 1..Len(log) + 1
  PROVE  JoinedBefore(f, i)' = JoinedBefore(f, i)
<1>1. Len(log) \in Nat
  BY DEF TypeOK
<1>2. 1..i - 1 \subseteq Positions
  BY <1>1 DEF Positions
<1>3. ASSUME NEW k \in 1..i - 1
      PROVE  Joins(k)' = Joins(k) /\ log'[k].family = log[k].family
  <2>1. 1..k - 1 \subseteq Positions /\ k \in Positions
    BY <1>1, <1>2 DEF Positions
  <2>. QED
    BY <2>1, LogSteps DEF Joins
<1>. QED
  BY <1>3 DEF JoinedBefore

\* Only a start that names a family with attempts joins it.
LEMMA JoinedLater ==
  ASSUME TypeOK, [Next]_vars, NEW c \in Launches, RunStarts(c), NEW f,
         NEW n, n = Len(log) + 1
  PROVE  JoinedBefore(f, n + 1)' <=>
           \/ JoinedBefore(f, n)
           \/ launch[c].family = f /\ launch[c].from = None /\ OfFamily(f) # {}
<1>1. Len(log) \in Nat /\ n \in Nat /\ n \notin Positions /\ Positions = 1..n - 1
  BY FamilyGrows DEF TypeOK, Positions
<1>2. log'[n].family = launch[c].family /\ log'[n].from = launch[c].from
  <2>1. log'[n] = [id |-> launch[c].id, family |-> launch[c].family,
                   from |-> launch[c].from, status |-> "running", saved |-> FALSE]
    BY FamilyGrows
  <2>. QED
    BY <2>1
<1>3. JoinedBefore(f, n)' = JoinedBefore(f, n)
  BY <1>1, JoinedKept
<1>4. JoinedBefore(f, n + 1)' <=> JoinedBefore(f, n)' \/ (log'[n].family = f /\ Joins(n)')
  <2>1. 1..(n + 1) - 1 = (1..n - 1) \cup {n}
    BY <1>1
  <2>. QED
    BY <2>1 DEF JoinedBefore
<1>5. Joins(n)' <=> launch[c].from = None /\ \E h \in Positions : log[h].family = launch[c].family
  BY <1>1, <1>2, LogSteps DEF Joins
<1>6. OfFamily(f) # {} <=> \E h \in Positions : log[h].family = f
  BY DEF OfFamily
<1>. QED
  BY <1>2, <1>3, <1>4, <1>5, <1>6

\* A run that starts takes an id no attempt has.
LEMMA IdsStayUnique ==
  ASSUME TypeOK, AttemptIdsUnique, [Next]_vars
  PROVE  AttemptIdsUnique'
<1>. SUFFICES ASSUME NEW i \in Positions', NEW j \in Positions', log'[i].id = log'[j].id, i # j
              PROVE  FALSE
  BY DEF AttemptIdsUnique
<1>1. ASSUME NEW k \in Positions', k \notin Positions, NEW l \in Positions
      PROVE  log'[k].id # log'[l].id
  <2>1. PICK c \in Launches : RunStarts(c) /\ log'[k].id = launch[c].id
    BY <1>1, NewAttempt
  <2>2. log[l].id # launch[c].id
    BY <2>1 DEF RunStarts, Available
  <2>. QED
    BY <2>1, <2>2, LogSteps
<1>2. i \in Positions \/ j \in Positions
  BY NewAttempt
<1>. QED
  BY <1>1, <1>2, LogSteps DEF AttemptIdsUnique

\* A restart and the checkpoint it starts from are of one family.
LEMMA FromsStayInFamily ==
  ASSUME CommandsAssumption, BaseInv, FromsInFamily, [Next]_vars
  PROVE  FromsInFamily'
<1>1. \A k \in Positions : k \in Positions' /\ log'[k].family = log[k].family
  BY LogSteps DEF BaseInv
<1>2. ASSUME NEW i \in Positions', log'[i].from # None
      PROVE  log'[i].from \in Positions' /\ log'[log'[i].from].family = log'[i].family
  <2>1. CASE i \in Positions
    BY <1>1, <1>2, <2>1, LogSteps DEF BaseInv, FromsInFamily
  <2>2. CASE i \notin Positions
    <3>1. PICK c \in Launches :
            RunStarts(c) /\ log'[i].family = launch[c].family /\ log'[i].from = launch[c].from
      BY <2>2, NewAttempt DEF BaseInv
    <3>2. c \in Preparing
      BY <3>1 DEF Preparing, RunsIn, RunStarts
    <3>3. launch[c].from \in Positions /\ log[launch[c].from].family = launch[c].family
      BY <3>1, <3>2, <1>2 DEF FromsInFamily
    <3>. QED
      BY <3>1, <3>3, <1>1
  <2>. QED
    BY <2>1, <2>2
<1>3. ASSUME NEW c \in Launches, launch'[c].phase = "preparing", launch'[c].from # None
      PROVE  launch'[c].from \in Positions' /\ log'[launch'[c].from].family = launch'[c].family
  <2>1. CASE Begins(c)
    BY <2>1, <1>1, <1>3, BeginsWith DEF BaseInv
  <2>2. CASE ~Begins(c)
    BY <2>2, <1>1, <1>3, PhaseSteps DEF FromsInFamily, Preparing, RunsIn, Same
  <2>. QED
    BY <2>1, <2>2
<1>. QED
  BY <1>2, <1>3 DEF FromsInFamily, Preparing, RunsIn

\* A family that no start has joined uses every number from two to its size.
LEMMA NumbersStayUsed ==
  ASSUME CommandsAssumption, BaseInv, NumbersUsed, [Next]_vars
  PROVE  NumbersUsed'
<1>. SUFFICES ASSUME NEW f \in Runs, NEW L, L = Len(log'), ~JoinedBefore(f, L + 1)',
                     NEW m \in 2..Size(f)'
              PROVE  <<"attempt", m>> \in IdsOf(f)'
  BY DEF NumbersUsed, JoinedBefore
<1>1. Size(f) \in Nat /\ Len(log) \in Nat
  BY SizeGrows DEF BaseInv, TypeOK
<1>2. CASE \A c \in Launches : ~RunStarts(c)
  <2>1. LogKept
    BY <1>2, OthersKeepLog DEF BaseInv
  <2>2. JoinedBefore(f, L + 1)' = JoinedBefore(f, L + 1)
    BY <1>1, <2>1, JoinedKept DEF BaseInv, LogKept
  <2>3. IdsOf(f)' = IdsOf(f) /\ Size(f)' = Size(f)
    BY <2>1, FamiliesKept DEF BaseInv
  <2>. QED
    BY <2>1, <2>2, <2>3 DEF NumbersUsed, LogKept
<1>3. ASSUME NEW c \in Launches, RunStarts(c)
      PROVE  <<"attempt", m>> \in IdsOf(f)'
  <2>1. L = Len(log) + 1
    BY <1>3, FamilyGrows DEF BaseInv
  <2>2. /\ ~JoinedBefore(f, L)
        /\ ~(launch[c].family = f /\ launch[c].from = None /\ OfFamily(f) # {})
    BY <1>3, <2>1, JoinedLater DEF BaseInv
  <2>3. \A n \in 2..Size(f) : <<"attempt", n>> \in IdsOf(f)
    BY <2>1, <2>2 DEF NumbersUsed
  <2>4. CASE launch[c].family # f
    BY <1>3, <2>3, <2>4, FamilyGrows DEF BaseInv
  <2>5. CASE launch[c].family = f /\ launch[c].from = None
    <3>1. Size(f) = 0
      BY <2>2, <2>5, FS_EmptySet DEF Size
    <3>2. Size(f)' = Size(f) + 1
      BY <1>3, <2>5, FamilyGrows DEF BaseInv
    <3>. QED
      BY <3>1, <3>2
  <2>6. CASE launch[c].family = f /\ launch[c].from # None
    <3>1. PICK n \in 2..Size(f) + 1 : launch[c].id = <<"attempt", n>>
      BY <1>3, <2>6 DEF BaseInv, NumbersInReach, Preparing, RunsIn, RunStarts
    <3>2. launch[c].id \notin IdsOf(f)
      BY <1>3 DEF RunStarts, Available, IdsOf, OfFamily
    <3>3. n = Size(f) + 1
      BY <1>1, <2>3, <3>1, <3>2
    <3>4. Size(f)' = Size(f) + 1 /\ IdsOf(f)' = IdsOf(f) \cup {launch[c].id}
      BY <1>3, <2>6, FamilyGrows DEF BaseInv
    <3>. QED
      BY <1>1, <2>3, <3>1, <3>3, <3>4
  <2>. QED
    BY <2>4, <2>5, <2>6
<1>. QED
  BY <1>2, <1>3

\* A restart that begins finds no running resume of its checkpoint, and one
\* that is under way when a twin starts has a number that is used by then.
LEMMA TwinsStayBarred ==
  ASSUME CommandsAssumption, BaseInv, FromsInFamily, NumbersUsed, TwinsBarred, [Next]_vars
  PROVE  TwinsBarred'
<1>1. SUFFICES ASSUME NEW i \in Positions', NEW c \in Launches, launch'[c].phase = "preparing",
                      log'[i].from # None, log'[i].status = "running",
                      launch'[c].from = log'[i].from,
                      NEW g, g = log'[i].family, ~JoinedBefore(g, i)',
                      NEW f, f = launch'[c].family
               PROVE  launch'[c].id \in IdsOf(f)'
  BY DEF TwinsBarred, Preparing, RunsIn, JoinedBefore, IdsOf, OfFamily
<1>2. Len(log) \in Nat /\ Size(f) \in Nat
  BY SizeGrows DEF BaseInv, TypeOK
<1>3. \A x : x \in IdsOf(f) => x \in IdsOf(f)'
  <2>1. CASE \A d \in Launches : ~RunStarts(d)
    BY <2>1, OthersKeepLog, FamiliesKept DEF BaseInv
  <2>2. ASSUME NEW d \in Launches, RunStarts(d), NEW x \in IdsOf(f)
        PROVE  x \in IdsOf(f)'
    BY <2>2, FamilyGrows DEF BaseInv
  <2>. QED
    BY <2>1, <2>2
<1>4. CASE i \in Positions
  <2>1. /\ log[i].from = log'[i].from /\ log[i].family = g /\ log[i].status = "running"
    BY <1>1, <1>4, LogSteps DEF BaseInv
  <2>2. ~JoinedBefore(g, i)
    BY <1>1, <1>2, <1>4, JoinedKept DEF BaseInv, Positions
  <2>3. ~Begins(c)
    <3>1. ASSUME Begins(c)
          PROVE  FALSE
      <4>1. PICK k \in Positions : Restart(c, k) /\ launch'[c].from = k
        BY <1>1, <3>1, BeginsWith DEF BaseInv
      <4>. QED
        BY <4>1, <2>1, <1>1, <1>4 DEF Restart
    <3>. QED
      BY <3>1
  <2>4. launch[c].phase = "preparing" /\ Same(c)
    BY <1>1, <2>3, PhaseSteps
  <2>5. launch[c].id \in IdsOf(f)
    BY <1>1, <1>4, <2>1, <2>2, <2>4 DEF TwinsBarred, Preparing, RunsIn, Same
  <2>. QED
    BY <2>4, <2>5, <1>3 DEF Same
<1>5. CASE i \notin Positions
  <2>1. PICK d \in Launches :
          /\ RunStarts(d) /\ i = Len(log) + 1
          /\ log'[i].family = launch[d].family /\ log'[i].from = launch[d].from
    BY <1>5, NewAttempt DEF BaseInv
  <2>2. ~Begins(c)
    BY <2>1, BeginsWith DEF BaseInv, RunStarts, Idle
  <2>3. launch[c].phase = "preparing" /\ Same(c)
    BY <1>1, <2>2, PhaseSteps
  <2>4. f = g
    <3>1. launch[c].from # None /\ launch[c].from = launch[d].from /\ launch[d].from # None
      BY <1>1, <2>1, <2>3 DEF Same
    <3>2. log[launch[c].from].family = launch[c].family /\ log[launch[d].from].family = launch[d].family
      BY <2>1, <2>3, <3>1 DEF FromsInFamily, Preparing, RunsIn, RunStarts
    <3>. QED
      BY <1>1, <2>1, <2>3, <3>1, <3>2 DEF Same
  <2>5. NumbersUsed'
    BY NumbersStayUsed
  <2>6. ~JoinedBefore(f, i)
    BY <1>1, <1>2, <2>1, <2>4, JoinedKept DEF BaseInv
  <2>7. ~JoinedBefore(f, i + 1)'
    BY <1>1, <2>1, <2>4, <2>6, JoinedLater DEF BaseInv
  <2>8. Len(log') = i
    BY <2>1, FamilyGrows DEF BaseInv
  <2>9. f \in Runs
    BY <2>3, PhaseUnderWay, <1>1 DEF BaseInv, UnderWay, Same
  <2>10. \A n \in 2..Size(f)' : <<"attempt", n>> \in IdsOf(f)'
    BY <2>5, <2>7, <2>8, <2>9 DEF NumbersUsed, JoinedBefore
  <2>11. Size(f)' = Size(f) + 1
    BY <1>1, <2>1, <2>4, FamilyGrows DEF BaseInv
  <2>12. PICK n \in 2..Size(f) + 1 : launch[c].id = <<"attempt", n>>
    BY <1>1, <2>3 DEF BaseInv, NumbersInReach, Preparing, RunsIn, Same
  <2>. QED
    BY <2>3, <2>10, <2>11, <2>12 DEF Same
<1>. QED
  BY <1>4, <1>5

\* A second resume of a running checkpoint finds its number in use.
LEMMA TwinsStayOut ==
  ASSUME CommandsAssumption, BaseInv, FromsInFamily, TwinsBarred, NoTwinResume, [Next]_vars
  PROVE  NoTwinResume'
<1>1. SUFFICES ASSUME NEW i \in Positions', NEW j \in Positions', i < j,
                      log'[i].from = log'[j].from, log'[i].from # None,
                      log'[i].status = "running", log'[j].status = "running",
                      NEW g, g = log'[i].family
               PROVE  JoinedBefore(g, i)'
  BY DEF NoTwinResume, JoinedBefore
<1>2. Len(log) \in Nat
  BY DEF BaseInv, TypeOK
<1>3. i \in Positions
  <2>1. ASSUME i \notin Positions
        PROVE  FALSE
    <3>1. i = Len(log) + 1 /\ Len(log') = Len(log) + 1
      BY <2>1, NewAttempt, FamilyGrows DEF BaseInv
    <3>. QED
      BY <1>1, <1>2, <3>1 DEF Positions
  <2>. QED
    BY <2>1
<1>4. log[i].from = log'[i].from /\ log[i].family = g /\ log[i].status = "running"
  BY <1>1, <1>3, LogSteps DEF BaseInv
<1>5. JoinedBefore(g, i)' = JoinedBefore(g, i)
  BY <1>2, <1>3, JoinedKept DEF BaseInv, Positions
<1>6. CASE j \in Positions
  <2>1. log[j].from = log'[j].from /\ log[j].status = "running"
    BY <1>1, <1>6, LogSteps DEF BaseInv
  <2>2. JoinedBefore(g, i)
    BY <1>1, <1>3, <1>4, <1>6, <2>1 DEF NoTwinResume, JoinedBefore
  <2>. QED
    BY <1>5, <2>2
<1>7. CASE j \notin Positions
  <2>1. PICK c \in Launches : RunStarts(c) /\ log'[j].from = launch[c].from
    BY <1>7, NewAttempt DEF BaseInv
  <2>2. launch[c].id \notin IdsOf(launch[c].family)
    BY <2>1 DEF RunStarts, Available, IdsOf, OfFamily
  <2>3. c \in Preparing
    BY <2>1 DEF RunStarts, Preparing, RunsIn
  <2>4. JoinedBefore(g, i)
    BY <1>1, <1>3, <1>4, <2>1, <2>2, <2>3 DEF TwinsBarred
  <2>. QED
    BY <1>5, <2>4
<1>. QED
  BY <1>6, <1>7

-----------------------------------------------------------------------------
(* The theorems *)

\* The invariant of the resumes holds in an empty session.
LEMMA ResumeInit == Init => ResumeInv
<1>. SUFFICES ASSUME Init
              PROVE  ResumeInv
  OBVIOUS
<1>1. Positions = {} /\ Preparing = {}
  BY DEF Init, Positions, Preparing, RunsIn, Idle
<1>2. \A f : Size(f) = 0
  BY <1>1, FS_EmptySet DEF Size, OfFamily
<1>3. NumbersUsed
  BY <1>2 DEF NumbersUsed
<1>. QED
  BY <1>1, <1>3 DEF ResumeInv, AttemptIdsUnique, FromsInFamily, TwinsBarred, NoTwinResume

\* Every step keeps the invariant of the resumes.
LEMMA ResumeStep == BaseInv /\ ResumeInv /\ [Next]_vars => ResumeInv'
BY CommandsAssumption, IdsStayUnique, FromsStayInFamily, NumbersStayUsed, TwinsStayBarred,
   TwinsStayOut DEF BaseInv, ResumeInv

\* No two attempts of the session have one id, whatever commands are under
\* way when a restart takes its number.
THEOREM AttemptIdsStayUnique == Spec => []AttemptIdsUnique
<1>1. Spec => [](BaseInv /\ ResumeInv)
  BY BaseInit, BaseStep, ResumeInit, ResumeStep, PTL DEF Spec
<1>2. ResumeInv => AttemptIdsUnique
  BY DEF ResumeInv
<1>. QED
  BY <1>1, <1>2, PTL

\* A checkpoint is resumed by one running attempt at a time, unless a start
\* has joined the family: the number a restart took bars its twin.
THEOREM NoTwinsRun == Spec => []NoTwinResume
<1>1. Spec => [](BaseInv /\ ResumeInv)
  BY BaseInit, BaseStep, ResumeInit, ResumeStep, PTL DEF Spec
<1>2. ResumeInv => NoTwinResume
  BY DEF ResumeInv
<1>. QED
  BY <1>1, <1>2, PTL

-----------------------------------------------------------------------------
(* The attempts only move forward *)

\* What a step may never do to an attempt of the log.
NothingUndone ==
  \A i \in Positions :
    /\ i \in Positions' /\ log'[i].id = log[i].id
    /\ log'[i].family = log[i].family /\ log'[i].from = log[i].from
    /\ log[i].saved => log'[i].saved
    /\ log[i].status \in Ended => log'[i].status = log[i].status
    /\ log[i].status # "running" => log'[i].status # "running"
    /\ ~Served(i) /\ log'[i] # log[i] =>
         log[i].status = "running" /\ log'[i] = [log[i] EXCEPT !.status = "stop_requested"]

\* Every attempt of the log stays, keeps its checkpoint and, once it has ended,
\* its status; nothing makes it run again, though a stop, an Esc, a crash or the
\* run itself may be late; and with no run of this process, the one thing that
\* happens to it is that a stop is requested (workflow/lifecycle.ts).
THEOREM AttemptsMoveForward == Spec => [][NothingUndone]_vars
<1>1. ASSUME BaseInv, [Next]_vars
      PROVE  NothingUndone
  <2>1. CASE \A c \in Launches : ~RunStarts(c)
    <3>1. LogKept /\ Positions' = Positions
      BY <1>1, <2>1, OthersKeepLog, FamiliesKept DEF BaseInv
    <3>2. ASSUME NEW i \in Positions, ~Served(i), log'[i] # log[i]
          PROVE  /\ log[i].status = "running"
                 /\ log'[i] = [log[i] EXCEPT !.status = "stop_requested"]
      <4>1. log[i] \in Attempt /\ log'[i] \in Attempt
        BY <1>1, <3>1 DEF BaseInv, TypeOK, LogKept, Positions
      <4>2. /\ log'[i].id = log[i].id /\ log'[i].family = log[i].family
            /\ log'[i].from = log[i].from /\ log'[i].saved = log[i].saved
        BY <3>1, <3>2, <4>1 DEF LogKept, Attempt
      <4>3. log'[i].status # log[i].status
        BY <3>2, <4>1, <4>2 DEF Attempt
      <4>4. log[i].status = "running" /\ log'[i].status = "stop_requested"
        BY <3>1, <3>2, <4>1, <4>3 DEF LogKept, Attempt, Ended
      <4>. QED
        BY <4>1, <4>2, <4>4 DEF Attempt
    <3>. QED
      BY <3>1, <3>2 DEF LogKept, NothingUndone
  <2>2. ASSUME NEW c \in Launches, RunStarts(c)
        PROVE  NothingUndone
    <3>1. \A i \in Positions : i \in Positions' /\ log'[i] = log[i]
      BY <1>1, <2>2, FamilyGrows DEF BaseInv
    <3>. QED
      BY <3>1 DEF NothingUndone
  <2>. QED
    BY <2>1, <2>2
<1>. QED
  BY <1>1, BaseInit, BaseStep, PTL DEF Spec

\* Two runs of this process never execute one attempt.
RunsApart == \A c, d \in Live : launch[c].id = launch[d].id => c = d

\* A run has an attempt of its own, though commands take their ids long before
\* their runs start and a rejected one enters itself under the id of another
\* (slash-commands/helpers/workflow.ts): what ends an attempt is its one run.
THEOREM OneRunPerAttempt == Spec => []RunsApart
<1>1. Init => RunsApart
  BY DEF Init, RunsApart, Live, RunsIn, Idle
<1>2. ASSUME BaseInv, RunsApart, [Next]_vars
      PROVE  RunsApart'
  <2>1. ASSUME NEW c \in Launches, NEW d \in Launches, c # d, RunStarts(c),
               launch'[d].phase = "running"
        PROVE  launch'[c].id # launch'[d].id
    <3>1. launch'[d] = launch[d]
      BY <1>2, <2>1 DEF RunStarts, BaseInv, TypeOK
    <3>2. d \in Live
      BY <2>1, <3>1 DEF Live, RunsIn
    <3>3. \E i \in Positions : log[i].id = launch[d].id
      BY <1>2, <3>2 DEF BaseInv, TypeOK, IdsOf, OfFamily
    <3>4. launch'[c].id = launch[c].id
      BY <1>2, <2>1, RunStartsSame DEF BaseInv, Same
    <3>. QED
      BY <2>1, <3>1, <3>3, <3>4 DEF RunStarts, Available
  <2>2. ASSUME NEW c \in Live', NEW d \in Live', launch'[c].id = launch'[d].id
        PROVE  c = d
    <3>1. /\ c \in Launches /\ d \in Launches
          /\ launch'[c].phase = "running" /\ launch'[d].phase = "running"
      BY DEF Live, RunsIn
    <3>2. CASE RunStarts(c) \/ RunStarts(d)
      BY <2>1, <2>2, <3>1, <3>2
    <3>3. CASE ~RunStarts(c) /\ ~RunStarts(d)
      <4>1. /\ launch[c].phase = "running" /\ Same(c)
            /\ launch[d].phase = "running" /\ Same(d)
        BY <1>2, <3>1, <3>3, PhaseSteps, CommandsAssumption
      <4>. QED
        BY <1>2, <2>2, <3>1, <4>1 DEF RunsApart, Live, RunsIn, Same
    <3>. QED
      BY <3>2, <3>3
  <2>. QED
    BY <2>2 DEF RunsApart
<1>. QED
  BY <1>1, <1>2, BaseInit, BaseStep, PTL DEF Spec

-----------------------------------------------------------------------------
(* A run keeps its entry in the map *)

Leaving == RunsIn({"leaving"})

\* What a command that leaves wanted to run, or ran, is in the log.
LeavingLogged == \A d \in Leaving : \E i \in Positions : log[i].id = launch[d].id

\* A run that is in the map shares its id with no command that is about to clean up.
EntriesApart ==
  \A c \in Live, d \in Leaving : launch[d].id = launch[c].id => ~InMap(c)

MapInv == RunsApart /\ LeavingLogged /\ EntriesApart

\* A step leaves an entry as it is, enters a run that starts or a command that is
\* rejected, or takes it away for a command that leaves.
LEMMA EntrySteps ==
  ASSUME CommandsAssumption, TypeOK, [Next]_vars, NEW id \in AttemptIds
  PROVE  \/ active'[id] = active[id]
         \/ \E e \in Launches : RunStarts(e) /\ launch[e].id = id
         \/ \E e \in Launches : /\ RunRejected(e) /\ launch[e].id = id /\ active'[id] = e
                                /\ RejectedUnder(id)
         \/ /\ active'[id] = NoEntry
            /\ \E d \in Leaving : launch[d].id = id
         \/ Crash
<1>1. active \in [AttemptIds -> Launches \cup {NoEntry}] /\ launch \in [Launches -> UnderWay \cup {Idle}]
  BY DEF TypeOK
<1>2. ASSUME NEW e \in Launches, RunStarts(e), launch[e].id # id
      PROVE  active'[id] = active[id]
  BY <1>1, <1>2 DEF RunStarts
<1>3. ASSUME NEW e \in Launches, RunRejected(e), active'[id] # active[id]
      PROVE  launch[e].id = id /\ active'[id] = e /\ RejectedUnder(id)
  <2>1. launch[e] \in UnderWay /\ launch[e].phase = "preparing"
    BY <1>3, PhaseUnderWay DEF RunRejected
  <2>2. active' = [active EXCEPT ![launch[e].id] = e]
        /\ launch' = [launch EXCEPT ![e] = [@ EXCEPT !.phase = "leaving"]]
    BY <1>3 DEF RunRejected
  <2>3. launch[e].id = id /\ active'[id] = e
    BY <1>1, <1>3, <2>2
  <2>4. launch'[e].phase = "leaving" /\ launch'[e].id = launch[e].id
    BY <1>1, <2>1, <2>2 DEF UnderWay
  <2>. QED
    BY <2>1, <2>3, <2>4 DEF RejectedUnder
<1>4. ASSUME NEW d \in Launches, Unregister(d), active'[id] # active[id]
      PROVE  active'[id] = NoEntry /\ d \in Leaving /\ launch[d].id = id
  BY <1>1, <1>4 DEF Unregister, Leaving, RunsIn
<1>5. ASSUME NEW c \in Launches,
             RunnerStep(c) \/ PrepareFails(c) \/ Begins(c)
      PROVE  active'[id] = active[id]
  BY <1>5 DEF RunnerStep, RunnerPolls, RunnerStops, RunnerFails, SaveCheckpoint,
     RunnerCompletes, RunnerThrows, PrepareFails, Begins, Start, Restart, Prepare
<1>6. CASE (\E i \in Positions : Stop(i) \/ Interrupt(i)) \/ StopAll \/ UNCHANGED vars
  BY <1>6 DEF Stop, Interrupt, StopAll, vars
<1>. QED
  BY <1>2, <1>3, <1>4, <1>5, <1>6 DEF Next, LaunchStep, Begins

\* A command that leaves did so before, had its run end, or has been rejected and
\* entered itself.
LEMMA LeavingSteps ==
  ASSUME CommandsAssumption, BaseInv, [Next]_vars,
         NEW d \in Launches, launch'[d].phase = "leaving"
  PROVE  /\ launch[d] \in UnderWay /\ Same(d)
         /\ \/ launch[d].phase \in {"leaving", "running"}
            \/ /\ launch[d].phase = "preparing" /\ RunRejected(d)
               /\ active' = [active EXCEPT ![launch[d].id] = d]
<1>1. ~RunStarts(d) /\ ~Begins(d)
  BY RunStartsSame, BeginsWith DEF BaseInv
<1>2. LaunchKept(d) /\ launch'[d] # Idle
  BY <1>1, LaunchSteps DEF BaseInv, Idle
<1>3. launch[d] \in UnderWay /\ Same(d)
  BY <1>2, PhaseUnderWay DEF LaunchKept, Same, BaseInv
<1>4. ASSUME launch[d].phase = "preparing"
      PROVE  RunRejected(d) /\ active' = [active EXCEPT ![launch[d].id] = d]
  <2>1. launch \in [Launches -> UnderWay \cup {Idle}]
    BY DEF BaseInv, TypeOK
  <2>2. [launch[d] EXCEPT !.told = TRUE].phase = launch[d].phase
    BY <1>3 DEF UnderWay
  <2>3. ASSUME NEW c \in Launches, LaunchStep(c) \/ RunnerStep(c)
        PROVE  c = d
    BY <1>4, <2>1, <2>3 DEF LaunchStep, RunnerStep, Start, Restart, Prepare, PrepareFails,
       RunStarts, RunRejected, Unregister, RunnerPolls, RunnerStops, RunnerFails,
       SaveCheckpoint, RunnerCompletes, RunnerThrows
  <2>4. ~RunnerStep(d)
    BY <1>4 DEF RunnerStep, RunnerPolls, RunnerStops, RunnerFails, SaveCheckpoint,
       RunnerCompletes, RunnerThrows, Live, RunsIn
  <2>5. ~((\E i \in Positions : Stop(i) \/ Interrupt(i)) \/ StopAll \/ UNCHANGED vars)
    BY <1>4, <2>1, <2>2 DEF Stop, Interrupt, StopAll, vars
  <2>6. ~Crash
    BY <1>2 DEF Crash
  <2>7. LaunchStep(d)
    BY <2>3, <2>4, <2>5, <2>6 DEF Next
  <2>8. RunRejected(d)
    BY <1>1, <1>2, <1>4, <2>1, <2>7 DEF LaunchStep, Begins, PrepareFails, Unregister
  <2>9. launch'[d] = Idle \/ active' = [active EXCEPT ![launch[d].id] = d]
    BY <2>1, <2>8 DEF RunRejected
  <2>. QED
    BY <1>2, <2>8, <2>9
<1>5. launch[d].phase \in {"preparing", "running", "leaving"}
  BY <1>3 DEF UnderWay
<1>. QED
  BY <1>3, <1>4, <1>5

\* A run that starts has an id that the log has for no one yet; one that goes on has
\* its attempt in the log.
LEMMA IdsOfRuns ==
  ASSUME CommandsAssumption, BaseInv, NEW c \in Launches
  PROVE  /\ RunStarts(c) => \A i \in Positions : log[i].id # launch[c].id
         /\ c \in Live => \E i \in Positions : log[i].id = launch[c].id
BY DEF BaseInv, TypeOK, RunStarts, Available, IdsOf, OfFamily

\* A step leaves a run in the map, unless it enters a command rejected under its id.
LEMMA EntryStays ==
  ASSUME CommandsAssumption, BaseInv, MapInv, [Next]_vars,
         NEW c \in Live', InMap(c) \/ RunStarts(c)
  PROVE  InMap(c)' \/ RejectedUnder(launch'[c].id)
<1>1. c \in Launches /\ launch'[c].phase = "running"
  BY DEF Live, RunsIn
<1>2. launch[c] \in UnderWay /\ Same(c) /\ launch[c].id \in AttemptIds
  <2>1. Same(c) /\ launch[c].phase # "idle"
    BY <1>1, PhaseSteps, RunStartsSame DEF BaseInv
  <2>2. launch[c] \in UnderWay
    BY <1>1, <2>1, PhaseUnderWay DEF BaseInv
  <2>. QED
    BY <2>1, <2>2 DEF UnderWay
<1>3. CASE RunStarts(c)
  BY <1>2, <1>3 DEF RunStarts, InMap, Same, BaseInv, TypeOK
<1>4. CASE ~RunStarts(c)
  <2>1. c \in Live /\ InMap(c)
    BY <1>1, <1>4, PhaseSteps DEF Live, RunsIn
  <2>2. ~ \E e \in Launches : RunStarts(e) /\ launch[e].id = launch[c].id
    BY <2>1, <1>1, IdsOfRuns
  <2>3. ~ \E d \in Leaving : launch[d].id = launch[c].id
    BY <2>1 DEF MapInv, EntriesApart
  <2>4. ~Crash
    BY <1>1 DEF Crash, Idle
  <2>5. active'[launch[c].id] = active[launch[c].id] \/ RejectedUnder(launch[c].id)
    BY <1>2, <2>2, <2>3, <2>4, EntrySteps DEF BaseInv
  <2>. QED
    BY <1>2, <2>1, <2>5 DEF InMap, Same
<1>. QED
  BY <1>3, <1>4

\* What leaves is in the log, and stays apart from the runs in the map.
LEMMA MapStep == BaseInv /\ MapInv /\ [Next]_vars /\ RunsApart' => MapInv'
<1>. SUFFICES ASSUME BaseInv, MapInv, [Next]_vars, RunsApart'
              PROVE  LeavingLogged' /\ EntriesApart'
  BY DEF MapInv
<1>. USE CommandsAssumption
<1>1. ASSUME NEW d \in Leaving'
      PROVE  /\ d \in Launches /\ launch[d] \in UnderWay /\ Same(d)
             /\ \E i \in Positions : log[i].id = launch[d].id
             /\ \/ d \in Live \cup Leaving
                \/ RunRejected(d) /\ active' = [active EXCEPT ![launch[d].id] = d]
  <2>1. d \in Launches /\ launch'[d].phase = "leaving"
    BY DEF Leaving, RunsIn
  <2>2. launch[d] \in UnderWay /\ Same(d)
    BY <2>1, LeavingSteps
  <2>3. CASE launch[d].phase \in {"leaving", "running"}
    BY <2>1, <2>2, <2>3, IdsOfRuns DEF MapInv, LeavingLogged, Leaving, Live, RunsIn
  <2>4. CASE RunRejected(d) /\ active' = [active EXCEPT ![launch[d].id] = d]
    BY <2>1, <2>2, <2>4 DEF RunRejected, Available
  <2>. QED
    BY <2>1, <2>3, <2>4, LeavingSteps
<1>2. LeavingLogged'
  <2>. SUFFICES ASSUME NEW d \in Leaving'
                PROVE  \E i \in Positions' : log'[i].id = launch'[d].id
    BY DEF LeavingLogged
  <2>1. PICK i \in Positions : log[i].id = launch[d].id
    BY <1>1
  <2>. QED
    BY <1>1, <2>1, LogSteps DEF BaseInv, Same
<1>3. EntriesApart'
  <2>. SUFFICES ASSUME NEW c \in Live', NEW d \in Leaving', launch'[d].id = launch'[c].id,
                       InMap(c)'
                PROVE  FALSE
    BY DEF EntriesApart
  <2>1. /\ c \in Launches /\ launch'[c].phase = "running"
        /\ d \in Launches /\ launch'[d].phase = "leaving" /\ c # d
    BY DEF Live, Leaving, RunsIn
  <2>2. Same(c) /\ Same(d) /\ launch[d].id = launch[c].id
    <3>1. Same(c)
      BY <2>1, PhaseSteps, RunStartsSame DEF BaseInv
    <3>. QED
      BY <3>1, <1>1 DEF Same
  <2>3. ~RunStarts(c)
    BY <1>1, <2>1, <2>2, IdsOfRuns
  <2>4. c \in Live /\ launch[c] \in UnderWay
    <3>1. launch[c].phase = "running"
      BY <2>1, <2>3, PhaseSteps
    <3>. QED
      BY <2>1, <3>1, PhaseUnderWay DEF Live, RunsIn, BaseInv
  <2>5. CASE d \in Live
    BY <2>2, <2>4, <2>5, <2>1 DEF MapInv, RunsApart
  <2>6. CASE d \in Leaving
    <3> DEFINE id == launch[c].id
    <3>1. id \in AttemptIds /\ active[id] # c /\ active'[id] = c
      BY <2>2, <2>4, <2>6 DEF UnderWay, MapInv, EntriesApart, InMap, Same
    <3>2. ~ \E e \in Launches : RunStarts(e) /\ launch[e].id = id
      BY <2>1, <2>4, IdsOfRuns
    <3>3. ~RunRejected(c) /\ c # NoEntry /\ ~Crash
      BY <2>1, <2>4 DEF RunRejected, Live, RunsIn, NoEntry, CommandsAssumption, Crash, Idle
    <3>. HIDE DEF id
    <3>. QED
      BY <3>1, <3>2, <3>3, EntrySteps DEF BaseInv
  <2>7. CASE RunRejected(d) /\ active' = [active EXCEPT ![launch[d].id] = d]
    <3>1. launch[c].id \in AttemptIds
      BY <2>4 DEF UnderWay
    <3>. QED
      BY <2>1, <2>2, <2>7, <3>1 DEF InMap, Same, BaseInv, TypeOK
  <2>. QED
    BY <1>1, <2>5, <2>6, <2>7
<1>. QED
  BY <1>2, <1>3

\* Esc and interrupt reach every run of the process, but one whose id a rejected
\* command has used (slash-commands/helpers/workflow.ts): a run is in the map from
\* its start, and nothing else ever takes its entry, however many commands race and
\* whenever they clean up.
THEOREM EntriesAreKept == Spec => RunsKeepEntries
<1>1. Init => MapInv
  BY DEF Init, MapInv, RunsApart, LeavingLogged, EntriesApart, Live, Leaving, RunsIn, Idle
<1>2. BaseInv /\ MapInv /\ [Next]_vars /\ RunsApart' => MapInv'
  BY MapStep
<1>3. ASSUME BaseInv, MapInv, [Next]_vars
      PROVE  EntriesKept
  <2>. SUFFICES ASSUME NEW c \in Live', ~(c \in Live /\ ~InMap(c))
                PROVE  InMap(c)' \/ RejectedUnder(launch'[c].id)
    BY DEF EntriesKept
  <2>1. c \in Launches /\ launch'[c].phase = "running"
    BY DEF Live, RunsIn
  <2>2. RunStarts(c) \/ c \in Live
    BY <1>3, <2>1, PhaseSteps, CommandsAssumption DEF Live, RunsIn
  <2>. QED
    BY <1>3, <2>2, EntryStays, CommandsAssumption
<1>. QED
  BY <1>1, <1>2, <1>3, OneRunPerAttempt, BaseInit, BaseStep, PTL DEF Spec, RunsKeepEntries
=============================================================================
