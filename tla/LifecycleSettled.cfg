SPECIFICATION OfferedSpec
CONSTANTS
  pkg = pkg
  twin = twin
  mod = mod
  plg = plg
  plg2 = plg2
  old = old
  tpkg = tpkg
  tmod = tmod
  tplg = tplg
  tplg2 = tplg2
  told = told
  m1 = m1
  r1 = r1
  r2 = r2
  Apps <- MCApps
  Targets <- MCTargets
  KindOf <- MCKindOf
  TargetOf <- MCTargetOf
  Modules = {m1}
  ParentOf <- MCParentOf
  Refused <- MCRefused
  EnabledKinds = {"package", "module"}
  Requests = {r1, r2}
  Jobs <- MCJobs
  Cancellable = {}
  Readers = {}
  Queries <- MCQueries
  CliTargets = {}
  LostReplies = FALSE
CHECK_DEADLOCK FALSE
INVARIANTS SettledShowsDaemon
