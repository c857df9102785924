CONSTANTS
    Programs <- Programs_
    Javac <- Javac_
    IntBits = 20
    Junk = Junk
    MaxBody = 2
SPECIFICATION Spec
PROPERTY JVMRefinement
CHECK_DEADLOCK FALSE
