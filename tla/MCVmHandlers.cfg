\* Programs that return from inside try blocks.
CONSTANTS
    f = f  g = g  u1 = u1  u2 = u2
    Script = Script  Initializer = Initializer  Method = Method
    Native = Native  Plain = Plain  Built = Built  Instance = Instance  Bound = Bound
    Nil = Nil
    Closures <- MCClosures
    Arity <- MCArity
    Upvalues <- MCUpvalues
    Data <- MCData
    Programs <- MCPrograms
    Exercised = {"return_in_try"}
    FRAMES_MAX = 3
    EXCEPTION_HANDLERS_MAX = 2
    MaxCaptures = 1
    MaxArgs = 1
SPECIFICATION Spec
INVARIANTS OwnCode
CHECK_DEADLOCK FALSE
SYMMETRY MCSymmetry
