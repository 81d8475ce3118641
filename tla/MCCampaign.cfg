SPECIFICATION FairSpec
CHECK_DEADLOCK FALSE
CONSTANTS
  r1 = r1
  r2 = r2
  Runner = {r1, r2}
  Run = {1, 2}
  w1 = w1
  Worker = {w1}
  Outage <- FirstRun
  BlockSize = 2
  Retain = FALSE
  Cleanup = TRUE
  MaxFaults = 1
  None = None
  Selected <- TwoRuns
  Resume = TRUE
  RerunFailed = TRUE
  ReportEvery = 2
  MaxStarts = 3
  MaxStops = 1
INVARIANTS
  CampaignInv
  PassedOnce
  PassLeavesNothing
PROPERTIES
  ZeroMeansPassed
  CampaignEnds
