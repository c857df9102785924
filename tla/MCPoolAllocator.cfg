CONSTANTS
  PoolWords <- MCPoolWords
  HeaderWords = 3
  Requests <- MCRequests

SPECIFICATION Spec

INVARIANT TypeOK
INVARIANT PoolTiled
INVARIANT BestFitIsBest
