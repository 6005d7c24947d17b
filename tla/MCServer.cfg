SPECIFICATION FairSpec
CONSTANTS
    Chains <- mcChains
    AlwaysBuilt <- mcAlwaysBuilt
    MaxRuns = 1
    MaxReloads = 1
    MaxHangs = 1
INVARIANTS
    StopCutsOnlyRefunds
    DogeSignsOnlyInRefund
    PanicOnlyByReload
PROPERTIES
    StopsUnlessHung
CHECK_DEADLOCK FALSE
