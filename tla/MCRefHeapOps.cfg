CONSTANTS
  x = x
  y = y
  NULL_REF = NULL_REF
  NULL = NULL
  PoolWords = 30
  HeaderWords = 3
  MaxRefs = 7
  IntBits = 2
  StackDepth = 8
  TrackPool = FALSE
  StartAfterGc = FALSE
  Names <- MCNames
  Stmts <- MCStmtsOps
SPECIFICATION Spec
INVARIANT NoAbort
INVARIANT NoDangling
INVARIANT RefCountsExact
PROPERTY OpResultsCorrect
PROPERTY FailedStmtPreserves
SYMMETRY NameSymmetry
