SPECIFICATION Spec
CONSTANTS
  d1 = d1
  d2 = d2
  n1 = n1
  n2 = n2
  k1 = k1
  k2 = k2
  kn1 = kn1
  kn2 = kn2
  p1 = p1
  p2 = p2
  a1 = a1
  a2 = a2
  fork1 = fork1
  gap2 = gap2
  b1 = b1
  forged1 = forged1
  ZeroHash = ZeroHash
  Devices <- MCDevices
  Authorities <- MCAuthorities
  Keys <- MCKeys
  Events <- MCEvents
  DeviceOf <- MCDeviceOf
  SequenceOf <- MCSequenceOf
  PreviousOf <- MCPreviousOf
  SignerOf <- MCSignerOf
  Callers <- MCCallers
  NodeOf <- MCNodeOf
  NodeKeyOf <- MCNodeKeyOf
  QuorumOf <- MCQuorumOf
  DeviceKeys <- MCDeviceKeys
  AuthorityKeys <- MCAuthorityKeys
INVARIANTS
  TypeOK
  ChainLinked
  QuorumIsFinality
  QuorumReachable
  EventsMatchBlocks
  DeviceChains
PROPERTIES
  OnlyGrows
  ImplementsEventLog
