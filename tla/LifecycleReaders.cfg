SPECIFICATION Spec
CONSTANTS
  pkg = pkg
  mod = mod
  plg = plg
  other = other
  tpkg = tpkg
  tmod = tmod
  tplg = tplg
  tother = tother
  m1 = m1
  r1 = r1
  r2 = r2
  Apps <- MCApps
  Targets <- MCTargets
  KindOf <- MCKindOf
  TargetOf <- MCTargetOf
  Modules = {m1}
  ParentOf <- MCParentOf
  Refused <- StartRefused
  EnabledKinds = {"package", "module"}
  Requests = {r1}
  Jobs <- PackagePluginJobs
  Cancellable = {}
  Readers = {l1}
  Queries <- PackageQueries
  CliTargets = {tplg}
  LostReplies = TRUE
CHECK_DEADLOCK FALSE
INVARIANT NoStranded
