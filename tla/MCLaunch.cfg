\* A process that finds every key used up cannot go on: the bound Keys.
SPECIFICATION FairSpec
CHECK_DEADLOCK FALSE
CONSTANTS
  Processes = {p1, p2, p3}
  Keys = {k1, k2, k3, k4}
  Absent = Absent
  Empty = Empty
  NoKey = NoKey
  MaxKills = 1
  MaxFaults = 1
INVARIANTS
  OneIdentity
  EmptyOnlyIfKilled
PROPERTY NotHalfAlive
