CONSTANTS
    Timeouts = {0, 2, 5}
    MaxTick = 3
    MaxOthers = 3
SPECIFICATION FairSpec
INVARIANTS NoEarlyTimeout ReturnsOnTime
PROPERTIES ReturnsUnlessLost
