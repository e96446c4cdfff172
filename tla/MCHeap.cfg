\* Every opcode family, every allocation a collection.
CONSTANTS
    N = 9
    Obj <- MCObj
    Nil <- MCNil
    Malloc <- MCMalloc
    Images <- MCImages
    Text = {"init", "a"}
    NoText = "none"
    InitText = "init"
    Exercised = {}
    StressGC = TRUE
    FirstGC = 0
    MaxBytes = 8
    MaxStack = 4
    MaxFrames = 2
    MaxUpvalues = 1
    MaxConstants = 2
SPECIFICATION Spec
INVARIANTS TypeOK NoDangling OperandsSurvive TriColour InternTable
PROPERTIES ExactCollection CollectionEnds
CHECK_DEADLOCK FALSE
