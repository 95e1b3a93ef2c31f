SPECIFICATION Spec
CONSTANTS
    Texts <- CommentOnlyTexts
    Keywords <- OneKeyword
    IntModulus = 64
INVARIANT
    NoOverrun
CHECK_DEADLOCK FALSE
