SPECIFICATION MCSpec
CONSTANTS
  NPools = 3
  NAddrs = 2
  V2Pools = {1}
  Accepts <- PrimaryRefusedTwice
  MaxReconnectAttempts = 14
  \* Source 1 may report anything: 2 lies outside the plausible band, 160 is the most and 9
  \* just less than the least that a second source of 40 agrees with.
  Faulty = 1
  Honest = {40, 48}
  Odd = {2, 9, 160}
  Lo = 4
  Hi = 400
  MaxFetches = 2
INVARIANTS
  LoopInv
  NoHammering
  FeedTrusted
PROPERTIES
  SleepsAfterSweep
  StopsOnCancel
  UnmarkedPoolReached
  FetchReturns
