SPECIFICATION FairSpec
CONSTANTS
    N = 2
    LocalWorldSizes <- MCLocalWorldSizes
    Rounds <- MCRounds
    MaxCrashes = 1
CHECK_DEADLOCK FALSE
INVARIANTS
    SkewBounded
PROPERTIES
    ImplementsBarrier
    CallsReturn
