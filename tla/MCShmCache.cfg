SPECIFICATION FairSpec
CONSTANTS
  Uids = {0, 2, 3}
  EmptyUid = 9
  Flags = {1, 2}
  NoFlags = 99
  Size = 2
  VersionMod = 8
  Readers = {r1}
  MaxOvertakes = 2
INVARIANTS HitIsPublished MissIsReal IndInv
PROPERTIES LookupReturns ImplementsFlagMap
CHECK_DEADLOCK TRUE
