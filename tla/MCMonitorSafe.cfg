SPECIFICATION Spec
CONSTANTS
  Pids = {p1, p2, p3}
  NoPid = NoPid
  RetryCount = 3
  Worlds <- SafeWorlds
  MaxQueue = 1
  MaxEntries = 1
SYMMETRY PidSymmetry
INVARIANTS StatusCurrent InitTracing DaemonTracked CrashLoopBounded TraceesKnown
