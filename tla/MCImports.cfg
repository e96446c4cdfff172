\* A session of the REPL, whose prelude may fail.  The bounds end it (CHECK_DEADLOCK).
CONSTANTS
    f = f  g = g  h = h  k = k  n = n  Absent = Absent
    Names <- MCNames
    Files <- MCFiles
    ImportPaths = {"u", "m"}
    Candidates <- MCCandidates
    Sources <- MCSources
    Stage <- MCStage
    Defines <- MCDefines
    Helpers <- MCHelpers
    Prelude <- MCPrelude
    Scripts <- MCScripts
    Natives = {n}
    InitialFiles <- MCInitialFiles
    Edits <- MCEdits
    Exercised = {"failing_prelude"}
    MaxLines = 4
SPECIFICATION Spec
INVARIANTS TypeOK CacheSound DebuggerKept NothingUndefined
PROPERTIES Implements LineEnds
CHECK_DEADLOCK FALSE
