SPECIFICATION SearchSpec
CONSTANTS
    Games <- MCGames
    Slots = 4
    MaxDepth = 6
    MaxNodes = 9
    MaxThinks = 2
CHECK_DEADLOCK FALSE
INVARIANTS
    MatesAreForced
    DeepSearchesAreExact
