SPECIFICATION Spec
CONSTANTS
  m1 = m1
  m2 = m2
  x1 = x1
  x2 = x2
  c1 = c1
  c2 = c2
  None = None
  Names = {m1, m2}
  ZnLibs <- OneZn
  Clients = {x1, x2}
  Companions = {c1}
  Worlds <- IndexWorlds
  MaxSnaps = 2
  MaxGen = 0
INVARIANTS CompanionMatchesModule
