SPECIFICATION Spec
CONSTANTS
  pkg = pkg
  mod = mod
  plg = plg
  other = other
  tpkg = tpkg
  tmod = tmod
  tplg = tplg
  tother = tother
  m1 = m1
  r1 = r1
  r2 = r2
  Apps <- OverlapApps
  Targets <- OverlapTargets
  KindOf <- MCKindOf
  TargetOf <- MCTargetOf
  Modules = {m1}
  ParentOf <- MCParentOf
  Refused = {}
  EnabledKinds = {"package", "module"}
  Requests = {r1, r2}
  Jobs <- OverlapJobs
  Cancellable = {r1}
  Readers = {}
  Queries <- NoQueries
  CliTargets = {}
  LostReplies = TRUE
CHECK_DEADLOCK FALSE
INVARIANT NoStranded
PROPERTIES KeepsContract ProgressEnds EveryRequestReports
