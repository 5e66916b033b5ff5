\* As MCWorkflowRun.cfg, with runtimes that never have to answer.
SPECIFICATION RunFairSpec
CONSTANTS
  Node = {"S", "A", "B", "J"}
  Edges <- MCEdges
  WaitFor <- MCWaitFor
  CheckpointAfter = {}
  StartNodes <- MCStartNodes
  StartParents <- NoSeq
  Seed <- NoSeq
  MaxActivations = 3
  MaxNodeActivations = 1
  MaxId = 4
  ReadNodes = {"A"}
  DeadlineNodes = {"B"}
  Absent = Absent
PROPERTY StopEndsRun
CHECK_DEADLOCK FALSE
