SPECIFICATION Spec
CONSTANTS
    Entities = {r1, r2}
    Kinds <- EventKinds
    SyncWrites = TRUE
    KeyChoices = {TRUE, FALSE}
    Tears = {"partial", "bare"}
    MaxLines = 5
    MaxClock = 2
    MaxLives = 3
SYMMETRY Symmetry
INVARIANT ReplaySound
INVARIANT RestartSound
CHECK_DEADLOCK FALSE
