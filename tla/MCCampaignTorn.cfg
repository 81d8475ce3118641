SPECIFICATION Spec
CHECK_DEADLOCK FALSE
CONSTANTS
  r1 = r1
  r2 = r2
  Runner = {r1, r2}
  Run = {1}
  w1 = w1
  Worker = {w1}
  Outage <- FirstRun
  BlockSize = 2
  Retain = FALSE
  Cleanup = TRUE
  MaxFaults = 0
  None = None
  Selected <- OneRun
  Resume = TRUE
  RerunFailed = TRUE
  ReportEvery = 2
  MaxStarts = 2
  MaxStops = 1
INVARIANT RerunResumes
