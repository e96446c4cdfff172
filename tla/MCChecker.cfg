\* Every program of up to MaxStatements of a pool.  Programs end (CHECK_DEADLOCK).
CONSTANTS
    Pools <- MCPools
    MaxStatements = 5
    AnyKinds = {"nil", "int", "string", "array", "map", "set"}
    Exercised = {}
SPECIFICATION Spec
INVARIANTS TypeOK Sound Lowered BoundsHold
PROPERTY NoneAdded
CHECK_DEADLOCK FALSE
