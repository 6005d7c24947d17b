SPECIFICATION FairSpec
CONSTANTS
    ConfirmNum = 1
    ConcurrencyNum = 2
    Retain = 2
    StartAt = 0
    IsDoge = TRUE
    BadHeight = 6
    BadFork = 1
    Modulus = 64
    InitHeight = 3
    MaxHeight = 10
    MaxForks = 2
    MaxReorg = 2
    MaxFaults = 1
    MaxCrashes = 1
INVARIANTS
    AncestorsParsed
    ParsedIsFinal
PROPERTIES
    CaughtUp
CHECK_DEADLOCK FALSE
