SPECIFICATION FairSpec
CONSTANTS
    N = 5
    StartStop = {2, 3, 5}
    Control = {1}
    Fallible = {}
    Deps <- DiamondDeps
    RunLevels <- DiamondLevels
    Names = {"nowhere"}
    MaxRequests = 2
    MaxForkFailures = 0
PROPERTY
    RebootHappens
CHECK_DEADLOCK FALSE
