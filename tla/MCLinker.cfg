SPECIFICATION Spec
CONSTANTS
  Page = 4
  RelrBits = 3
  RawBases = {4, 8}
  Libs = {"lib"}
  Worlds <- AllWorlds
  PerPage = 2
  LockAttempts = 2
  MaxAppends = 2
  MaxRanges = 3
INVARIANTS
  MappedAsLinked
  NeverFaults
  NothingLeaks
  ScrubRestores
  AtexitIntact
  SpoofFaithful
