CONSTANTS
  c1 = c1 c2 = c2 c3 = c3 c4 = c4 g1 = g1 g2 = g2 g3 = g3
  b1 = b1 b2 = b2 h1 = h1 k1 = k1 h2 = h2 x = x z = z s1 = s1 l1 = l1
  Calls = {c1, c2}
  Guids = {g1, g2, g3}
  BlobNames = {b1, b2}
  Hashes = {h1, k1, h2, x, z}
  ZeroHash = z
  Buffers <- Payloads
  NoBlob = NoBlob
  NoGuid = NoGuid
  Chunks <- OnePrompt
  Servers = {s1}
  ServerOf <- OneServer
  MaxVersions = 1
  MaxRetries = 2
  FreshGuids = TRUE
  AssertsEnabled = FALSE
  FaultKinds = {}
  MaxFaults = 0
  Lookups = {l1}
  Prompts <- LookupSecond
  Failures = {}
  Pending = Pending
  NotFound = NotFound
  Broken = Broken
SPECIFICATION KVSpec
CHECK_DEADLOCK FALSE
SYMMETRY Symmetry
INVARIANT FindsCachedPrefix
