SPECIFICATION FairSpec
CONSTANTS
  Pids = {p1, p2}
  NoPid = NoPid
  RetryCount = 2
  Worlds <- LiveWorlds
  MaxQueue = 1
  MaxEntries = 1
PROPERTIES StopCompletes StopsEnd TracingEnds
