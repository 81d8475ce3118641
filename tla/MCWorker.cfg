SPECIFICATION FairSpec
CHECK_DEADLOCK FALSE
CONSTANTS
  Target = 5
  BatchSize = 2
  StallTimeout = 2
  NoTimer = NoTimer
INVARIANTS
  InStep
  NothingLeftBehind
  PassIsComplete
PROPERTY WorkerEnds
