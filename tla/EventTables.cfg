SPECIFICATION Spec
CONSTANTS
    a1 = a1
    a2 = a2
    a3 = a3
    d1 = d1
    d2 = d2
    t1 = t1
    t2 = t2
    p1 = p1
    p2 = p2
    Addresses <- ThreeAddresses
    Descriptors <- TwoDescriptors
    Tasks <- TwoTasks
    Pids <- TwoPids
SYMMETRY Symmetry
CHECK_DEADLOCK FALSE
INVARIANTS
    KernelKnowsOwner
    EventsReachOwner
    ExitsToldToParent
    TableAssertions
    OwnersRegistered
    GoneIsSeen
