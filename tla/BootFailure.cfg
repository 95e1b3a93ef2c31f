SPECIFICATION Spec
CONSTANTS
    N = 4
    StartStop = {2, 3}
    Control = {1}
    Fallible = {}
    Deps <- BootDeps
    RunLevels <- BootLevels
    Names = {"default"}
    MaxRequests = 1
    MaxForkFailures = 1
INVARIANT
    DestructorAssertions
CHECK_DEADLOCK FALSE
