CONSTANTS
  x = x
  y = y
  NULL_REF = NULL_REF
  NULL = NULL
  PoolWords = 54
  HeaderWords = 3
  MaxRefs = 7
  IntBits = 3
  StackDepth = 8
  TrackPool = TRUE
  StartAfterGc = TRUE
  Names <- MCNames
  Stmts <- MCStmtsLen
SPECIFICATION Spec
INVARIANT RefCountsExact
