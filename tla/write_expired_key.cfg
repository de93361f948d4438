SPECIFICATION Spec
CONSTANTS
  k1 = k1
  k2 = k2
  k3 = k3
  kLong = kLong
  Keys = {k1, k2}
  KeySize <- MCKeySize
  Data <- MCData
  DataSize <- MCDataSize
  Overhead = 1
  CacheSize = 9
  MaxKeySize = 1
  PurgeInterval = 2
  IntMax = 127
  MaxNodes = 3
  Freed = Freed
  MaxTime = 3
  MaxExpiry = 4
  EvictRequests = {4}
  RewriteExpired = TRUE
CHECK_DEADLOCK FALSE
PROPERTIES
  WriteRetrievable
