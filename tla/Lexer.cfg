SPECIFICATION Spec
CONSTANTS
    Texts <- AllTexts
    Keywords <- OneKeyword
    IntModulus = 64
INVARIANTS
    LiteralsReadBack
    CommentsClosed
    PointsAtError
PROPERTY
    LexingEnds
CHECK_DEADLOCK FALSE
