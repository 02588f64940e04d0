SPECIFICATION Spec
CONSTANTS
  c1 = c1
  c2 = c2
  t1 = t1
  t2 = t2
  NoApp = NoApp
  NoNs = NoNs
  Children = {c1, c2}
  Traces = {t1, t2}
  Apps <- MCApps
  ProcessFlags <- MCFlags
  Worlds <- AllWorlds
  MaxUnmounts = 5
SYMMETRY Symmetry
INVARIANTS DenylistClean ExcludedNeverLoads UnloadSafe ForkOnce
