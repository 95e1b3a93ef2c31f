SPECIFICATION Spec
CONSTANTS
    N = 6
    Deps <- SixDeps
    MountTasks = {1, 2, 3}
    LoopTasks = {1, 3}
    LazyTasks = {2}
    Point <- Points
    LoopCount = 3
    HostnameTasks = {4, 5, 6}
    NoRestore = {5}
    MaxFailures = 2
INVARIANTS
    NameOutlivedByTask
    NothingLeftBehind
    HandleStaysMounted
