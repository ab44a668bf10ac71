SPECIFICATION Spec
CONSTANTS
  Refused = {}
  Workers = {w1}
  Runs = {r1}
  MaxRev = 2
  Transitive <- MCTransitive
  TTL = 1
  CliUpdates = FALSE
  LostReplies = FALSE
CHECK_DEADLOCK FALSE
INVARIANT QuirkAlwaysFits
