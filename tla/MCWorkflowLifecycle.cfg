\* Two attempts of one activation, three nodes, two freezes, one request.
SPECIFICATION Spec
CONSTANTS
  Attempt = {a1, a2}
  Activation = {i1}
  n1 = n1
  n2 = n2
  n3 = n3
  f1 = f1
  f2 = f2
  Node = {n1, n2, n3}
  Freeze = {f1, f2}
  MaxRequests = 1
  NodesOf <- MCNodesOf
  WaitFor <- MCWaitFor
  Migration <- MCMigration
  AgentsCanPropose = {f1}
  HumansCanApprove = {f1}
  SupervisorsCanApprove = {f2}
  Carries <- MCCarries
  Mapping <- MCMapping
  Disposes <- MCDisposes
  None = None
CONSTRAINT OneFreshStart
SYMMETRY Symmetric
INVARIANTS
  TypeOK
  SettledIsQuiet
  CheckpointFaithful
  RestartLineage
  JoinsNotSkipped
  ResumesFrontier
  AppliedWasSettled
PROPERTY LogIsFinal
\* Attempts, activations and the request may all be used up.
CHECK_DEADLOCK FALSE
