SPECIFICATION MCSpec
CONSTANTS
  NWorkers = 1
  Threads = 2
  NonceStep = 2
  Space = 3
  BatchSize = 2
  MaxSets = 2
  MaxHashes = 3
  Infinite = 99
  Families <- SmallFamilies
  Workers = {1, 2}
  Mining = {2}
  Streams = {1, 2}
  Quotes <- SmallQuotes
  Hysteresis = 5
  MinYield = 0
  PowerCost = 1000
  Rates = {10, 30}
  Threshold = 20
  StaleAge = 1
INVARIANTS
  DistinctHeaders
  StaleWorkBounded
  MirrorsAllocation
  RoutedOnFreshQuote
PROPERTIES
  StopCompletes
  SwitchOnlyOnGain
  IdleDrains
  FeedStops
CHECK_DEADLOCK FALSE
