\* Commands while one of the programs runs, and runs of one of them one after another,
\* each of which may end at any step.  The bounds end them (CHECK_DEADLOCK).
CONSTANTS
    Main = "script"
    Programs <- MCPrograms
    Lines = {1, 2, 3, 4}
    Conditions <- MCConditions
    Startup <- MCStartup
    Torn <- MCTorn
    BREAKPOINTS_MAX = 2
    MaxDepth = 3
    MaxCalls = 4
    MaxCommands = 3
    MaxRuns = 3
    Repeated <- MCRepeated
SPECIFICATION Spec
INVARIANTS TypeOK StepsStop HitsAreVisits BreakpointsKept
CHECK_DEADLOCK FALSE
