SPECIFICATION SectionsSpec
CONSTANTS
  m1 = m1
  m2 = m2
  p1 = p1
  p2 = p2
  NULL = NULL
  Modules <- MCModules
  Plugins <- MCPlugins
  ParentOf <- MCParentOf
  Fetchers = {f1, f2}
INVARIANT MarkersRecognised
PROPERTY ImplementsPluginsCache
