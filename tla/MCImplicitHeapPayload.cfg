CONSTANTS
  HeapBase = 1024
  MaxHeap = 112
  SizeWidth = 16
  Requests <- MCRequests
  CallocArgs <- MCCallocArgs
SPECIFICATION Spec
INVARIANT PayloadsIntact
