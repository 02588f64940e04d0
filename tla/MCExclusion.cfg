SPECIFICATION FairUiSpec
CONSTANTS
  p = p
  q = q
  a = a
  t1 = t1
  t2 = t2
  NoApp = NoApp
  Nobody = Nobody
  Packages = {p, q}
  AppIds = {a}
  Configs <- MCConfigs
  Lists <- MCLists
  Threads = {t1}
  ReadFails = TRUE
  MaxConfig = 2
  MaxList = 1
  UserPackages = {p, q}
  MaxTaps = 2
INVARIANTS
  StateCoherent
  FreshAfterFlush
  ShownIsEnforced
PROPERTIES
  EditFlushed
