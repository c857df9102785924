CONSTANTS
  a = a
  b = b
  NULL_REF = NULL_REF
  TOMBSTONE_REF = TOMBSTONE_REF
  MinCap = 16
  MaxAllocFailures = 0
  Keys <- MCWrapKeys
  Vals <- MCOneVal
  ProbeKeys <- MCWrapKeys

SPECIFICATION Spec


INVARIANT
  NoOverrun
