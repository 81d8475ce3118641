SPECIFICATION VerifierSpec
CONSTANTS
  d1 = d1
  d2 = d2
  n1 = n1
  n2 = n2
  k1 = k1
  k2 = k2
  kn1 = kn1
  kn2 = kn2
  p1 = p1
  a1 = a1
  a2 = a2
  b1 = b1
  ZeroHash = ZeroHash
  Devices <- MCOneDevice
  Authorities <- MCAuthorities
  Keys <- MCKeys
  Events <- MCTwoEvents
  DeviceOf <- MCDeviceOf
  SequenceOf <- MCSequenceOf
  PreviousOf <- MCPreviousOf
  SignerOf <- MCSignerOf
  Callers <- MCCallers
  NodeOf <- MCNodeOf
  NodeKeyOf <- MCNodeKeyOf
  QuorumOf <- MCQuorumOf
  DeviceKeys <- MCDeviceKeys
  AuthorityKeys <- MCAuthorityKeys
  DamageKinds <- MCBlockDeletion
INVARIANTS
  BlockLossIsFound
