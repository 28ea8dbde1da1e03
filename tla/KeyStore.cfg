SPECIFICATION UnsavedSpec
CONSTANTS
    m = m
    a = a
    b = b
    along = along
    NoKey = NoKey
    Keys <- MCKeys
    Names <- MCNames
    Trunc <- MCTrunc
    MasterKeys <- MCMasterKeys
    Garbage <- MCGarbage
    MAX_KEYS = 2
    MaxTokens = 2
INVARIANTS
    TypeOK
    DistinctKeys
    FlashIsPrefix
    UnsavedOnlyGivenUp
PROPERTIES
    BlackSticky
    ImplementsKeySet
