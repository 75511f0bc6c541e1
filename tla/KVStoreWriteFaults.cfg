CONSTANTS
  c1 = c1 c2 = c2 c3 = c3 c4 = c4
  g1 = g1 g2 = g2 g3 = g3 g4 = g4
  p1 = p1 p2 = p2 p3 = p3 p4 = p4
  h1 = h1 s1 = s1 s2 = s2
  Calls = {c1, c2, c3}
  Guids = {g1, g2, g3}
  BlobNames <- Names
  Byte = 2
  Hashes = {h1, p1, p2, p3, p4}
  ZeroHash = p1
  Buffers = {h1}
  NoBlob = NoBlob
  NoGuid = NoGuid
  Chunks <- ThreeParents
  Servers = {s1, s2}
  ServerOf <- TwoServers
  MaxVersions = 1
  MaxRetries = 2
  FreshGuids = TRUE
  AssertsEnabled = TRUE
  FaultKinds = {"fail", "lost", "crash"}
  MaxFaults = 1
SPECIFICATION FairSpec
CHECK_DEADLOCK FALSE
INVARIANTS ListedContentMatches DanglingOnlyWhileEvicting
PROPERTIES CallsEnd DanglingIsTransient
