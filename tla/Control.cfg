SPECIFICATION FairSpec
CONSTANTS
    Clients = {c1, c2}
    Scripts <- MixedScripts
    Limit = 8
    MaxStarts = 2
INVARIANTS
    ExecutedInOrder
    NoWordLost
    HandleOwnsSockets
PROPERTY
    Delivered
CHECK_DEADLOCK FALSE
