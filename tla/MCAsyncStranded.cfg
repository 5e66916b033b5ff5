SPECIFICATION Spec
CONSTANTS
  Bash = {b1}
  Spawn = {}
  Poll = {}
  MaxRunning = 1
  Limits = {1}
  MaxFailures = 0
INVARIANTS
  NoResultStranded
CHECK_DEADLOCK FALSE
