\* S is started over once, with B of the first round still running.
SPECIFICATION SchedulerSpec
CONSTANTS
  Node = {"S", "A", "B", "J"}
  Edges <- RetryEdges
  WaitFor <- MCWaitFor
  CheckpointAfter = {}
  StartNodes <- MCStartNodes
  StartParents <- NoSeq
  Seed <- NoSeq
  MaxActivations = 7
  MaxNodeActivations = 2
  MaxId = 12
INVARIANT JoinsOneIteration
CHECK_DEADLOCK FALSE
