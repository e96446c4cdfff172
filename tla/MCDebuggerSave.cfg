\* A process that ends while it saves.
CONSTANTS
    Main = "script"
    Programs <- MCPrograms
    Lines = {1, 2, 3, 4}
    Conditions <- MCConditions
    Startup <- MCStartup
    Torn <- MCTorn
    BREAKPOINTS_MAX = 2
    MaxDepth = 3
    MaxCalls = 4
    MaxCommands = 3
    MaxRuns = 3
    Repeated <- MCRepeated
SPECIFICATION Spec
PROPERTY Persisted
CHECK_DEADLOCK FALSE
