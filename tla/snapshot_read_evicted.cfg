SPECIFICATION Spec
CONSTANTS
  k1 = k1
  k2 = k2
  k3 = k3
  Keys = {k1, k2, k3}
  KeySize <- MCKeySize
  Data <- MCData
  DataSize <- MCDataSize
  Overhead = 1
  CacheSize = 9
  MaxKeySize = 1
  PurgeInterval = 2
  IntMax = 127
  MaxNodes = 2
  Freed = Freed
  MaxTime = 2
  MaxExpiry = 3
  MaxEvents = 2
  ItemHeader = 1
  ChunkSize = 6
  Avoided = {"overwrite", "fill", "rewrite_expired"}
CHECK_DEADLOCK FALSE
INVARIANT
  Transparent
