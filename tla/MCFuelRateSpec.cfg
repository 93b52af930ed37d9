CONSTANTS
    nBlock = 2
    MAX_BLOCK_RUN_STEP = 1000
    INIT_FUEL_RATES = 100
    MIN_FUEL_RATES = 1
    BlockSteps = {0, 760, 900}
    MaxFuelRate = 150
SPECIFICATION Spec
INVARIANT RateMatchesSpec
