SPECIFICATION Spec
CHECK_DEADLOCK FALSE
CONSTANTS
  Target = 2
  BatchSize = 1
  StallTimeout = 2
  NoTimer = NoTimer
INVARIANT StallIsActionable
