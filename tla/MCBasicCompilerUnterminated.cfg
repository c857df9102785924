CONSTANTS
  Files <- FilesUnterminated_
  IntBits = 4
  MaxLines = 2
  MaxSteps = 60
  StackWords = 32
  NULL = NULL
  Junk = Junk
  CallerRbp = CallerRbp
  RetAddr = RetAddr
SPECIFICATION Spec
INVARIANT ParsedAsWritten
CHECK_DEADLOCK FALSE
