SPECIFICATION ManagerSpec
CONSTANTS
  Bash = {}
  Spawn = {s1, s2, s3}
  Poll = {}
  MaxRunning = 2
  Limits = {1, 2}
  MaxFailures = 1
INVARIANTS
  PermitsAccounted
PROPERTIES
  WaitersRespectLimit
  SpawnsGetTheirTurn
CHECK_DEADLOCK FALSE
