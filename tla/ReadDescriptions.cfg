SPECIFICATION Spec
CONSTANT
    Trees <- AllTrees
INVARIANTS
    Closed
    UnreportedIsFaithful
    CommandLinesJudged
CHECK_DEADLOCK FALSE
