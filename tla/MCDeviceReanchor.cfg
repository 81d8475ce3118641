SPECIFICATION Spec
CONSTANTS
  a1 = a1
  x1 = x1
  a2 = a2
  y2 = y2
  x2 = x2
  a3 = a3
  ZeroHash = ZeroHash
  Events <- MCEvents
  SequenceOf <- MCSequenceOf
  PreviousOf <- MCPreviousOf
  Limits <- MCLimits
  MaxCrashes = 0
  MaxFaults = 0
  Lossy = {"device"}
INVARIANT NeverReanchored
