SPECIFICATION FairSpec
CONSTANTS
  k1 = k1
  k2 = k2
  k3 = k3
  Keys = {k1, k2, k3}
  KeySize <- MCKeySize
  Data <- MCData
  DataSize <- MCDataSize
  Overhead = 1
  CacheSize = 9
  MaxKeySize = 1
  PurgeInterval = 2
  IntMax = 127
  MaxNodes = 2
  Freed = Freed
  MaxTime = 1
  MaxExpiry = 2
  MaxEvents = 1
  ItemHeader = 1
  ChunkSize = 5
  Avoided = {"overwrite", "fill", "rewrite_expired", "read_evicted"}
PROPERTY
  SnapshotIsRead
