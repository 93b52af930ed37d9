CONSTANTS
    d1 = d1
    d2 = d2
    Delegates = {d1, d2}
    Me = d2
    Schedule <- MCSchedule
    Interval = 2
    StableCoinGenesisHeight = 2
    ForkHeight = 3
    RetryTimeout = 3
    StaleTipAge = 4
    MaxTime = 9
    MaxHeight = 3
    MaxMempoolUpdates = 1
    MaxMinedBlockCount = 2
SPECIFICATION Spec
INVARIANT FactoryMatchesHeight
CHECK_DEADLOCK FALSE
