SPECIFICATION Spec
CONSTANTS
    Count = 3
    Vectors <- ThreeVectors
INVARIANT
    MarksNeeded
PROPERTY
    MarkingEnds
CHECK_DEADLOCK FALSE
