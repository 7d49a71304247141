SPECIFICATION Spec
CONSTANTS
  Kinds = {"notify", "difficulty"}
  Submitters = {}
  PreAuthCap = 2
  JobsChCap = 2
  NoticeChCap = 1
  MaxMsgs = 2
  MaxCalls = 3
  MaxStray = 0
INVARIANT AppliedInWireOrder
