SPECIFICATION Spec
CONSTANTS
  c1 = c1
  light = light
  dark = dark
  s1 = s1
  s2 = s2
  inTheme = inTheme
  added = added
  onDisk = onDisk
  noStem = noStem
  Null = Null
  Callers = {c1}
  Displays = {TRUE, FALSE}
  Themes = {light, dark}
  NamesOf <- MCNamesOf
  AddedNames = {added}
  Disks <- MCDisks
  Stems <- MCStems
  NoStem = noStem
  Scans = {s1, s2}
  Gens = 2
  ScanOf <- MCScanOf
  VfuncsOf <- MCVfuncsOf
CHECK_DEADLOCK FALSE
INVARIANTS ShellTypeOK LocksLive JobsFindTheBus NoRebuildAbandoned NamesFollowTheme LargeIconWins TornDown
PROPERTIES EveryJobReports DroppedIsFinalized
