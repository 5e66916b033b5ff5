SPECIFICATION Spec
CONSTANTS
  Runs = {r1, r2}
  Launches = {c1, c2}
  MaxAttempts = 3
INVARIANTS
  TypeOK
  AttemptIdsUnique
  NoTwinResume
  EntriesAreLive
PROPERTIES
  RunsKeepEntries
CHECK_DEADLOCK FALSE
