SPECIFICATION FairSpec
CONSTANTS
  Modes = {"SPAWN", "UNKNOWN", "STANDALONE", "SYSTEM_SERVER"}
  Worlds <- AllWorlds
INVARIANTS SuccessIntact LateRestored
PROPERTIES TargetResumes DeathScoped
