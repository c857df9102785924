CONSTANTS
  Files <- FilesWithA_
  IntBits = 4
  MaxLines = 1
  MaxSteps = 60
  StackWords = 32
  NULL = NULL
  Junk = Junk
  CallerRbp = CallerRbp
  RetAddr = RetAddr
SPECIFICATION Spec
CHECK_DEADLOCK FALSE
INVARIANT FrameRestored
