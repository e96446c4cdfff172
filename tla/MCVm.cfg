\* Every family of programs that makes no hazardous use.  A machine stops when its
\* stack is at the bound, and so may not go on (CHECK_DEADLOCK).
CONSTANTS
    f = f  g = g  u1 = u1  u2 = u2
    Script = Script  Initializer = Initializer  Method = Method
    Native = Native  Plain = Plain  Built = Built  Instance = Instance  Bound = Bound
    Nil = Nil
    Closures <- MCClosures
    Arity <- MCArity
    Upvalues <- MCUpvalues
    Data <- MCData
    Programs <- MCPrograms
    Exercised = {}
    FRAMES_MAX = 3
    EXCEPTION_HANDLERS_MAX = 2
    MaxCaptures = 1
    MaxArgs = 1
SPECIFICATION Spec
INVARIANTS TypeOK FramesNest OwnCode HandlersMatch UpvaluesOpen
PROPERTIES Implements
CHECK_DEADLOCK FALSE
SYMMETRY MCSymmetry
