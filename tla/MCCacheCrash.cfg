CONSTANTS
  t1 = t1
  t2 = t2
  k1 = k1
  k2 = k2
  k3 = k3
  b1 = b1
  b2 = b2
  NULL = NULL
  NoThread = NoThread
  Threads = {t1, t2}
  Keys = {k1, k2}
  Buckets = {b1, b2}
  BucketOf <- MCBucketOf
  Lens = {1}
  MAX_CACHE_SIZE = 7
  MAX_OBJECT_SIZE = 3
  SizeBits = 3
  MaxNodes = 4
SPECIFICATION Spec
INVARIANT NoCrash
SYMMETRY ThreadSymmetry
CHECK_DEADLOCK FALSE
