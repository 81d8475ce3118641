SPECIFICATION MCSpec
SYMMETRY Symmetric
\* A proof is finished, and a clock has run out.
CHECK_DEADLOCK FALSE
CONSTANTS
  d1 = d1
  d2 = d2
  n1 = n1
  n2 = n2
  k1 = k1
  k2 = k2
  kn1 = kn1
  kn2 = kn2
  p1 = p1
  a1 = a1
  a2 = a2
  b1 = b1
  h1 = h1
  h2 = h2
  h3 = h3
  h4 = h4
  h5 = h5
  ZeroHash = ZeroHash
  Devices <- MCTwoDevices
  Authorities <- MCAuthorities
  Keys <- MCKeys
  Events <- MCThreeEvents
  DeviceOf <- MCDeviceOf
  SequenceOf <- MCSequenceOf
  PreviousOf <- MCPreviousOf
  SignerOf <- MCSignerOf
  Callers <- MCCallers
  NodeOf <- MCNodeOf
  NodeKeyOf <- MCNodeKeyOf
  QuorumOf <- MCQuorumOf
  DeviceKeys <- MCDeviceKeys
  AuthorityKeys <- MCAuthorityKeys
  DamageKinds <- TamperCases
  Hashes <- MCHashes
  MaxEvents = 5
  v1 = v1
  v2 = v2
  s1 = s1
  s2 = s2
  Viewers <- MCViewers
  Operators = {o1}
  Services <- MCServices
  CacheSeconds = 2
  MaxClock = 4
  MaxActions = 2
  Nobody = Nobody
INVARIANTS
  VerifierInv
  DamageIsFound
  MerkleInv
PROPERTY MetricsSound
