SPECIFICATION FairGatewaySpec
CONSTANTS
  d1 = d1
  d2 = d2
  n1 = n1
  n2 = n2
  k1 = k1
  k2 = k2
  kn1 = kn1
  kn2 = kn2
  t1 = t1
  t2 = t2
  t3 = t3
  a1 = a1
  a2 = a2
  b1 = b1
  ZeroHash = ZeroHash
  Nobody = Nobody
  Node = n1
  Devices <- MCDevices
  Authorities <- MCAuthorities
  Keys <- MCKeys
  Events <- MCEvents
  DeviceOf <- MCDeviceOf
  SequenceOf <- MCSequenceOf
  PreviousOf <- MCPreviousOf
  SignerOf <- MCSignerOf
  Callers <- MCThreads
  NodeOf <- MCNodeOf
  NodeKeyOf <- MCNodeKeyOf
  QuorumOf <- MCQuorumOf
  DeviceKeys <- MCDeviceKeys
  AuthorityKeys <- MCAuthorityKeys
  LocalSigners <- MCLocalSigners
  KeyOf <- MCKeyOf
  BatchSize = 2
  MaxCrashes = 1
  MaxFaults = 1
INVARIANTS
  SealIsNeverStale
  NoOrphanProposal
  BacklogBounded
PROPERTIES
  ImplementsLedger
  FullBatchIsSealed
  LockIsReleased
