SPECIFICATION MCSpec
CONSTANTS
  Kinds = {"notify", "clean"}
  Submitters = {}
  PreAuthCap = 1
  JobsChCap = 2
  NoticeChCap = 1
  MaxMsgs = 3
  MaxCalls = 3
  MaxStray = 0
  Diffs = {2, 3}
  BadDiffs = {3}
  NBitsValid = {TRUE}
  JobNames = {"1", "a", "b"}
  WireID <- MCWireID
  ReadyCap = 2
  SubmitBurst = 1
  YieldMinJudged = 1
  MaxJobs = 2
  MaxRetargets = 1
  MaxSubmits = 1
  MergedCap = 1
  MaxSessions = 2
INVARIANTS
  EachMessageOnce
  GateHolds
  WorkFollowsPool
  EveryShareAccounted
  YieldOwnShares
PROPERTIES
  FeedsJobs
  SettledOnce
  NoSendAfterClose
