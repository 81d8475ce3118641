SPECIFICATION FairSpec
CONSTANTS
  a1 = a1
  x1 = x1
  a2 = a2
  y2 = y2
  x2 = x2
  a3 = a3
  ZeroHash = ZeroHash
  Events <- MCEvents
  SequenceOf <- MCSequenceOf
  PreviousOf <- MCPreviousOf
  Limits <- MCLimits
  MaxCrashes = 2
  MaxFaults = 2
  Lossy = {"device", "gateway"}
INVARIANTS
  DeviceInv
  ResumesAtTheEnd
  ReanchorsOnlyInTheLoop
  NumbersUsedOnce
PROPERTIES
  ImplementsStream
  EveryReadingArrives
