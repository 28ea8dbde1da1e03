SPECIFICATION FairSpec
CONSTANTS
    Word = 5
    STEP = 1
    RelayIntervals = {2, 3}
    DefaultRelay = 2
    EresetInterval = 2
    AntilockTimeout = 2
    HardHold = 200
    FlagSets <- MCFlagSets
INVARIANT AgeTracksCounter
PROPERTIES
    HoldIsExact
    RelayCloses
