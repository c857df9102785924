CONSTANTS
  t1 = t1
  t2 = t2
  k1 = k1
  k2 = k2
  k3 = k3
  b1 = b1
  b2 = b2
  NULL = NULL
  NoThread = NoThread
  Threads = {t1}
  Keys = {k1, k2, k3}
  Buckets = {b1, b2}
  BucketOf <- MCBucketOf
  Lens = {1, 2, 3}
  MAX_CACHE_SIZE = 6
  MAX_OBJECT_SIZE = 3
  SizeBits = 3
  MaxNodes = 3
SPECIFICATION Spec
INVARIANT QueueLinked
