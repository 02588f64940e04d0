SPECIFICATION UiSpec
CONSTANTS
  p = p
  q = q
  a = a
  t1 = t1
  t2 = t2
  NoApp = NoApp
  Nobody = Nobody
  Packages = {p, q}
  AppIds = {a}
  Configs <- MCConfigs
  Lists <- OneList
  Threads = {t1}
  ReadFails = FALSE
  MaxConfig = 1
  MaxList = 0
  UserPackages = {p, q}
  MaxTaps = 1
INVARIANTS
  FlushedIsCurrent
