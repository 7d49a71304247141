SPECIFICATION StatsSpec
CONSTANTS
  MaxTime = 4
  MaxHashes = 3
  MaxDrops = 2
  MaxSessions = 2
  MaxStall = 2
INVARIANT DropsCountedOnce
CHECK_DEADLOCK FALSE
