SPECIFICATION Spec
CONSTANTS
  Providers = {1}
  Quotes <- TwoAndOne
  Cap = 3
  MergedCap = 1
  Rounds <- TwoAndOne
CHECK_DEADLOCK FALSE
INVARIANT FreshestOfEachDevice
