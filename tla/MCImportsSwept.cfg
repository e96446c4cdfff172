\* Modules that are imported again.  The bounds end it (CHECK_DEADLOCK).
CONSTANTS
    f = f  g = g  h = h  k = k  n = n  Absent = Absent
    Names <- MCNames
    Files <- MCFiles
    ImportPaths = {"u", "m"}
    Candidates <- MCCandidates
    Sources <- MCSources
    Stage <- MCStage
    Defines <- MCDefines
    Helpers <- MCHelpers
    Prelude <- MCPrelude
    Scripts <- MCScripts
    Natives = {n}
    InitialFiles <- MCInitialFiles
    Edits <- MCEdits
    Exercised = {}
    MaxLines = 3
SPECIFICATION Spec
INVARIANT RunsKept
CHECK_DEADLOCK FALSE
