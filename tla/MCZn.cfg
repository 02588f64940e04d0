SPECIFICATION Spec
CONSTANTS
  k1 = k1
  k2 = k2
  t1 = t1
  t2 = t2
  la = la
  lb = lb
  lc = lc
  ld = ld
  n1 = n1
  n2 = n2
  Kids = {k1, k2}
  Threads = {t1, t2}
  Libs = {la, lb, lc, ld}
  Lines <- AllLines
  Api <- AllApi
  Hyos <- AllHyos
  Names = {n1, n2}
  NoName = NoName
  Worlds <- AllWorlds
  MaxHyosModules = 2
SYMMETRY Symmetry
CHECK_DEADLOCK FALSE
INVARIANTS AppsTold NameIsOwn HookedOnce StateFileSound
