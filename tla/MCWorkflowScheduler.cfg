\* Nine activations, two of each node: the loop is entered a second time.
SPECIFICATION SchedulerFairSpec
CONSTANTS
  Node = {"S", "A", "B", "J", "C"}
  Edges <- MCEdges
  WaitFor <- MCWaitFor
  CheckpointAfter = {"C"}
  StartNodes <- MCStartNodes
  StartParents <- NoSeq
  Seed <- NoSeq
  MaxActivations = 9
  MaxNodeActivations = 2
  MaxId = 12
INVARIANTS
  TypeOK
  NoWorkLost
  CompletedMeansAllDone
  CheckpointIsRestartable
  JoinOnce
  JoinsOneIteration
PROPERTIES
  StopHolds
  SchedulerReturns
\* The scheduler has returned.
CHECK_DEADLOCK FALSE
