SPECIFICATION MCSpec
CONSTANTS
  JobIDs = {1, 2, 3}
  MaxTips = 2
  Targets = {0, 2, 3}
  NBitsValid = {TRUE, FALSE}
  FreshIDs = TRUE
  Curtailment = TRUE
  JobsCap = 2
  SubmitTimesCap = 2
  SubmitBurst = 2
  YieldMinJudged = 2
  MaxSeq = 3
  MergedCap = 1
  MaxSessions = 2
  JobIds = {1, 2, 3}
  NTimes = {1, 2}
  EmitCap = 1
  PendingCap = 2
  MaxFrames = 4
INVARIANTS
  SessionInv
  SubmitsCurrent
  WorkTracksActive
  DecodedFaithfully
  AssembledSound
CHECK_DEADLOCK FALSE
