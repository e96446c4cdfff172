\* Every program of the families, as a file and as a line of the REPL.
CONSTANTS
    Programs <- MCPrograms
    LocalsMax = 12
    ConstantsMax = 20
    JumpMax = 90
    FinallyMax = 3
    UnrollMax = 3
    CStack = 2
    FramesMax = 5
    HandlersMax = 4
    Exercised = {}
SPECIFICATION Spec
INVARIANTS Means SlotsAgree
CHECK_DEADLOCK FALSE
