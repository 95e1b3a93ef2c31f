SPECIFICATION ParserSpec
CONSTANTS
    Inputs <- Files
    Trees <- SmallTrees
    Depth = 5
INVARIANTS
    SilentMeansComplete
    AcceptsGrammar
    RecoversAtSemicolon
    OneErrorPerPlace
PROPERTY
    ParsingEnds
CHECK_DEADLOCK FALSE
