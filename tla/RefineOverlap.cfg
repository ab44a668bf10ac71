CONSTANTS
  pkg = pkg  mod = mod  upd = upd  other = other  id1 = id1  p1 = p1  p2 = p2
  NoId = NoId
  Apps = {pkg, mod, upd, other}
  AppIds = {id1}
  Payload <- MCPayload
  KindOf <- MCKindOf
  AppIdOf <- MCAppIdOf
  Summaries = {pkg, mod}
  Licensed = {pkg}
  Passes = {p1, p2}
  Jobs <- OverlapJobs
  Listers = {l1}
  Cancellable = {p2}
SPECIFICATION HistoryFairSpec
INVARIANTS PassesAgree PrefetchSuffices PassDelivers ThemedIconAlone
PROPERTIES FirstEntryWins BetterSourceKept EveryPassReports
CHECK_DEADLOCK FALSE
