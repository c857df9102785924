CONSTANTS
  a = a
  b = b
  NULL_REF = NULL_REF
  TOMBSTONE_REF = TOMBSTONE_REF
  MinCap = 16
  MaxAllocFailures = 1
  Keys <- MCUpsizeKeys
  Vals <- MCOneVal
  ProbeKeys <- MCUpsizeProbeKeys

SPECIFICATION Spec

INVARIANTS
  KeysFindable
  CountsExact
  RefCountsMatch

PROPERTY
  DictRefinesMap
