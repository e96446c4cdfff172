\* Programs that make a string whose text a swept string had.
CONSTANTS
    N = 9
    Obj <- MCObj
    Nil <- MCNil
    Malloc <- MCMalloc
    Images <- MCImages
    Text = {"init", "a"}
    NoText = "none"
    InitText = "init"
    Exercised = {"dead_intern"}
    StressGC = TRUE
    FirstGC = 0
    MaxBytes = 8
    MaxStack = 4
    MaxFrames = 2
    MaxUpvalues = 1
    MaxConstants = 2
SPECIFICATION Spec
INVARIANTS OperandsSurvive
CHECK_DEADLOCK FALSE
