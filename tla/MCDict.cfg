CONSTANTS
  a = a
  b = b
  NULL_REF = NULL_REF
  TOMBSTONE_REF = TOMBSTONE_REF
  MinCap = 16
  MaxAllocFailures = 1
  Keys <- MCKeys
  Vals <- MCVals
  ProbeKeys <- MCKeys

SPECIFICATION Spec

INVARIANTS
  TypeOK
  KeysFindable
  CountsExact
  RefCountsMatch

PROPERTY
  DictRefinesMap
