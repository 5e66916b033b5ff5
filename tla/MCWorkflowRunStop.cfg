\* As MCWorkflowRun.cfg, asking whether a stop request is always answered.
SPECIFICATION RunSpec
CONSTANTS
  Node = {"S", "A", "B", "J"}
  Edges <- MCEdges
  WaitFor <- MCWaitFor
  CheckpointAfter = {}
  StartNodes <- MCStartNodes
  StartParents <- NoSeq
  Seed <- NoSeq
  MaxActivations = 3
  MaxNodeActivations = 1
  MaxId = 4
  ReadNodes = {"A"}
  DeadlineNodes = {"B"}
  Absent = Absent
INVARIANT StopIsAnswered
CHECK_DEADLOCK FALSE
