\* Four activations, of which three may run: S, then A and B side by side.
SPECIFICATION CooperativeSpec
CONSTANTS
  Node = {"S", "A", "B", "J"}
  Edges <- MCEdges
  WaitFor <- MCWaitFor
  CheckpointAfter = {}
  StartNodes <- MCStartNodes
  StartParents <- NoSeq
  Seed <- NoSeq
  MaxActivations = 3
  MaxNodeActivations = 1
  MaxId = 4
  ReadNodes = {"A"}
  DeadlineNodes = {"B"}
  Absent = Absent
INVARIANTS
  RunTypeOK
  CheckpointExact
  StatusEarned
  RejectionNeedsFailure
PROPERTIES
  LogSpec
  StopEndsRun
\* The run has ended, or a runtime does not answer.
CHECK_DEADLOCK FALSE
