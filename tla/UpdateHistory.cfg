SPECIFICATION HistorySpec
CONSTANTS
  Refused = {}
  Workers = {w1}
  Runs = {r1, r2}
  MaxRev = 1
  Transitive = {}
  TTL = 1
  CliUpdates = TRUE
  LostReplies = TRUE
CHECK_DEADLOCK FALSE
SYMMETRY RunSymmetry
INVARIANTS QuirkGoesWithState MemoRetired
PROPERTIES PendingKept RestartKeepsDetails
