SPECIFICATION Spec
CONSTANTS
  Bash = {b1}
  Spawn = {s1}
  Poll = {p1, p2}
  MaxRunning = 2
  Limits = {0}
  MaxFailures = 1
INVARIANTS
  TypeOK
  NoResultLost
  SeenOnce
SYMMETRY Interchangeable
CHECK_DEADLOCK FALSE
