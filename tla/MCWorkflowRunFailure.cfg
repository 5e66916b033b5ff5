\* As MCWorkflowRun.cfg, asking whether a failed attempt gets a checkpoint even when
\* no two callbacks race.
SPECIFICATION UnhurriedSpec
CONSTANTS
  Node = {"S", "A", "B", "J"}
  Edges <- MCEdges
  WaitFor <- MCWaitFor
  CheckpointAfter = {}
  StartNodes <- MCStartNodes
  StartParents <- NoSeq
  Seed <- NoSeq
  MaxActivations = 3
  MaxNodeActivations = 1
  MaxId = 4
  ReadNodes = {"A"}
  DeadlineNodes = {"B"}
  Absent = Absent
INVARIANT FailureIsCheckpointed
CHECK_DEADLOCK FALSE
