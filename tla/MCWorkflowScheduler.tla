------------------------ MODULE MCWorkflowScheduler ------------------------
(***************************************************************************)
(* A loop with a join: S forks to A and B, J joins them, and two edges     *)
(* lead on from J: back to S, and out to C, after which the attempt is     *)
(* checkpointed.  A second, conditional edge leads from B to J.            *)
(***************************************************************************)
EXTENDS WorkflowScheduler

Edge(from, to, conditional) ==
  [from |-> from, to |-> to, conditional |-> conditional]

MCEdges == << Edge("S", "A", FALSE), Edge("S", "B", FALSE),
              Edge("A", "J", FALSE), Edge("B", "J", FALSE),
              Edge("B", "J", TRUE), Edge("J", "S", TRUE),
              Edge("J", "C", TRUE) >>

MCWaitFor == [n \in Node |-> IF n = "J" THEN <<"A", "B">> ELSE << >>]
\* The flow of the retry run: A may send the flow back to S while B is still
\* running, and otherwise leads on to the join.
RetryEdges == << Edge("S", "A", FALSE), Edge("S", "B", FALSE),
                 Edge("A", "S", TRUE), Edge("A", "J", TRUE),
                 Edge("B", "J", FALSE) >>

MCStartNodes == <<"S">>
NoSeq == << >>

\* What LoopsJoinOneIteration asks of a flow holds of the first one; not of the
\* retry flow, in which A leads back too.
ASSUME LoopOfTheRun ==
  Edges = MCEdges => ForkJoinLoop("S", "J") /\ FreshFrom("S")

=============================================================================
