SPECIFICATION Spec
CONSTANTS
  pkg = pkg
  mod = mod
  plg = plg
  other = other
  tpkg = tpkg
  tmod = tmod
  tplg = tplg
  tother = tother
  m1 = m1
  r1 = r1
  r2 = r2
  Apps <- MCApps
  Targets <- MCTargets
  KindOf <- MCKindOf
  TargetOf <- MCTargetOf
  Modules = {m1}
  ParentOf <- MCParentOf
  Refused = {}
  EnabledKinds = {"module"}
  Requests = {r1}
  Jobs <- DisabledJobs
  Cancellable = {}
  Readers = {}
  Queries <- NoQueries
  CliTargets = {}
  LostReplies = FALSE
CHECK_DEADLOCK FALSE
PROPERTY ProgressEnds
