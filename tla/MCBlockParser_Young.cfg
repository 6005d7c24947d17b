SPECIFICATION Spec
CONSTANTS
    ConfirmNum = 2
    ConcurrencyNum = 2
    Retain = 4
    StartAt = 0
    IsDoge = FALSE
    BadHeight = 0
    BadFork = 0
    Modulus = 64
    InitHeight = 1
    MaxHeight = 10
    MaxForks = 1
    MaxReorg = 3
    MaxFaults = 1
    MaxCrashes = 1
INVARIANTS
    ParsedIsFinal
    NoHeightSkipped
    UnparsedParentOnlyByBatch
PROPERTIES
    RestartResumes
CHECK_DEADLOCK FALSE
