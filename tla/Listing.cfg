SPECIFICATION Spec
CONSTANTS
  mod = mod
  pkg = pkg
  pkg2 = pkg2
  plg = plg
  upd = upd
  app = app
  other = other
  plgId = plgId
  updId = updId
  none = none
  j1 = j1
  j2 = j2
  Jobs = {j1, j2}
  Queries <- MCQueries
  Cancellable = {j1}
  Enabled = {"modules", "packages"}
  Keys <- MCKeys
  NoKey = none
  KindOfKey <- MCKindOfKey
  Ids <- MCIds
  VariantRank <- MCVariantRank
  Replies <- MCReplies
CHECK_DEADLOCK FALSE
INVARIANTS FirstWins ModuleBeatsPackage AnsweredOnce SearchRanks
PROPERTIES RankIsOfTheSearch EveryListingReports
