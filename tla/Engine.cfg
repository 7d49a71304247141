SPECIFICATION MCSpec
CONSTANTS
  Kinds = {"notify", "reconnect"}
  Submitters = {"s1"}
  PreAuthCap = 1
  JobsChCap = 1
  NoticeChCap = 1
  MaxMsgs = 1
  MaxCalls = 4
  MaxStray = 0
PROPERTIES
  CallsReturn
  CloseReachesEngine
  ShutdownCompletes
CHECK_DEADLOCK FALSE
