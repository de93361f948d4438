SPECIFICATION Spec
CONSTANTS
  k1 = k1
  k2 = k2
  k3 = k3
  kLong = kLong
  Keys = {k1, k2, k3, kLong}
  KeySize <- MCKeySize
  Data <- MCData
  DataSize <- MCDataSize
  Overhead = 1
  CacheSize = 9
  MaxKeySize = 1
  PurgeInterval = 2
  IntMax = 127
  MaxNodes = 2
  Freed = Freed
  MaxTime = 4
  MaxExpiry = 5
  EvictRequests = {4}
  RewriteExpired = FALSE
SYMMETRY KeySymmetry
INVARIANTS
  TypeOK
  IndexesAgree
  EveryItemReachable
  MemoryExact
  MemoryBound
  NoDanglingKey
PROPERTIES
  ImplementsLRU
