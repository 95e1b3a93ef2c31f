SPECIFICATION FairSpec
CONSTANTS
    N = 5
    StartStop = {2, 3, 4}
    Control = {1}
    Fallible = {}
    Deps <- CycleDeps
    RunLevels <- CycleLevels
    Names = {"default", "low", "nowhere"}
    MaxRequests = 3
    MaxForkFailures = 0
PROPERTIES
    Converges
    ShutdownCompletes
CHECK_DEADLOCK FALSE
