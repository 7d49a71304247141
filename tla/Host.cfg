SPECIFICATION MCSpec
CONSTANTS
  InstallFlags <- MCInstallFlags
  Environments <- MCEnvironments
  FileContents <- MCFileContents
  MaxCommands = 2
  Procs = {"p1", "p2"}
  Passphrases = {"a", "b"}
  Names = {1, 2}
  MaxSeeds = 2
  MaxWalletCommands = 3
  MaxCrashes = 2
  Cap = 3
  MaxWrites = 10
  MaxFaults = 2
  MaxTime = 4
  MaxHashes = 3
  MaxDrops = 2
  MaxSessions = 2
  MaxStall = 2
INVARIANTS
  LayersHonest
  StartsRunnable
  LogKeepsTail
  NoPhantomUptime
  SlipsRefused
  PhraseFaithful
  CoinbaseReadRight
PROPERTIES
  AtomicReplace
  SeedKept
CHECK_DEADLOCK FALSE
