SPECIFICATION Spec
CONSTANTS
  NPools = 2
  NAddrs = 2
  V2Pools = {}
  Accepts <- AllAccepted
  MaxReconnectAttempts = 0
INVARIANT NoSilentRedirect
