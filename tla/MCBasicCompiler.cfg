CONSTANTS
  Files <- Files_
  IntBits = 4
  MaxLines = 4
  MaxSteps = 60
  StackWords = 32
  NULL = NULL
  Junk = Junk
  CallerRbp = CallerRbp
  RetAddr = RetAddr
SPECIFICATION Spec
INVARIANT CompiledProgramCorrect
INVARIANT ParsedAsWritten
CHECK_DEADLOCK FALSE
