--------------------------- MODULE MCWorkflowRun ---------------------------
(***************************************************************************)
(* S leads to A and, on a condition, to B; J joins A and B, but comes up   *)
(* only to find the limit on activations reached.  A is a read-only node   *)
(* and B has a deadline of its own.                                        *)
(***************************************************************************)
EXTENDS WorkflowRun

Edge(from, to, conditional) ==
  [from |-> from, to |-> to, conditional |-> conditional]

MCEdges == << Edge("S", "A", FALSE), Edge("S", "B", TRUE),
              Edge("A", "J", FALSE), Edge("B", "J", FALSE) >>
MCWaitFor == [n \in Node |-> IF n = "J" THEN <<"A", "B">> ELSE << >>]
MCStartNodes == <<"S">>
NoSeq == << >>

\* Runs that nobody stops, interrupts or limits, and in which no two callbacks come
\* close: an outcome that is logged settles next, and the scheduler consumes it
\* before anything else happens.
UnhurriedNext ==
  /\ \/ StartRun \/ SchedulerStep \/ FinishNext
     \/ \E i \in Ids : WrapperNext(i) \/ Catch(i)
  /\ Catching => \E i \in Ids : Catch(i)
  /\ \A i \in Ids : phase[i] = "returning" => phase'[i] = "settled"
  /\ winner # 0 => SchedulerStep
UnhurriedSpec == RunInit /\ [][UnhurriedNext]_runVars

=============================================================================
