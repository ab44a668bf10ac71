SPECIFICATION Spec
CONSTANTS
  Refused = {}
  Workers = {w1}
  Runs = {r1, r2}
  MaxRev = 1
  Transitive = {1}
  TTL = 1
  CliUpdates = TRUE
  LostReplies = TRUE
CHECK_DEADLOCK FALSE
INVARIANT InstallingHasRun
PROPERTIES InstallingEnds StaleUpdateGoes
