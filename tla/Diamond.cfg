SPECIFICATION Spec
CONSTANTS
    N = 5
    StartStop = {2, 3, 5}
    Control = {1}
    Fallible = {4}
    Deps <- DiamondDeps
    RunLevels <- DiamondLevels
    Names = {"default", "middle", "base", "nowhere"}
    MaxRequests = 4
    MaxForkFailures = 2
INVARIANTS
    TypeOK
    CountersExact
    PendingComplete
    CleanExit
    NoLostChild
    NoLostUpdate
    NoMissedWakeup
    DependencyOrder
    IndInv
PROPERTIES
    KeepsWanted
    ImplementsPromise
CHECK_DEADLOCK FALSE
