SPECIFICATION Spec
CONSTANTS
  JobIDs = {1}
  MaxTips = 1
  Targets = {2}
  NBitsValid = {TRUE}
  FreshIDs = FALSE
  Curtailment = TRUE
  JobsCap = 2
  SubmitTimesCap = 2
  SubmitBurst = 1
  YieldMinJudged = 2
  MaxSeq = 1
  MergedCap = 1
  MaxSessions = 1
INVARIANTS
  CurtailedIdle
