SPECIFICATION FairSpec
CONSTANTS
    ConfirmNum = 1
    ConcurrencyNum = 1
    Retain = 2
    StartAt = 3
    IsDoge = FALSE
    BadHeight = 0
    BadFork = 0
    Modulus = 64
    InitHeight = 4
    MaxHeight = 10
    MaxForks = 2
    MaxReorg = 4
    MaxFaults = 1
    MaxCrashes = 1
INVARIANTS
    TypeOK
    AncestorsParsed
PROPERTIES
    CaughtUp
CHECK_DEADLOCK FALSE
