SPECIFICATION MCSpec
\* The plan is ready or refused; the attempt is over; the merge ends, and the
\* journals are full.
CHECK_DEADLOCK FALSE
CONSTANTS
  d1 = d1
  d2 = d2
  r1 = r1
  r2 = r2
  runner = runner
  w1 = w1
  w2 = w2
  w3 = w3
  Dirs <- MCDirs
  Run = {r1, r2}
  Planned = {r1}
  Results <- MCResults
  MaxClock = 2
  MaxLines = 3
  None = None
  Plans <- MCPlans
  MaxAttempts = 2
  MaxShards = 4
INVARIANTS
  PlanInv
  MergeInv
  PassIsDelivered
PROPERTY AgreesWithRunner
