\* Each kind of table on its own.  The bounds end a program (CHECK_DEADLOCK).
CONSTANTS
    a = a  b = b  c = c  v = v  w = w
    Globals = Globals  Strings = Strings  Super = Super  Sub = Sub  Fields = Fields  Map = Map
    Nil = Nil  Absent = Absent
    Keys <- MCKeys
    Texts <- MCKeys
    Text <- MCText
    Hash <- MCHash
    Values = {v, w}
    True = v
    MethodOf <- MCMethods
    Interval <- MCInterval
    Uses <- MCUses
    Exercised = {}
    MinCapacity = 2
    MaxCapacity = 8
    Sizes = {2, 4, 8}
    MaxBulk = 2
SPECIFICATION Spec
INVARIANTS TypeOK Findable Counts
PROPERTIES Implements OperationsEnd
CHECK_DEADLOCK FALSE
