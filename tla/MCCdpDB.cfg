CONSTANTS
    c1 = c1
    c2 = c2
    CdpIds <- MCCdpIds
    Owners <- MCOwners
    StakeAmounts <- MCStakeAmounts
    OwedAmounts <- MCOwedAmounts
    CDP_BASE_RATIO_BOOST = 4
    RATIO_BOOST = 2
    PRICE_BOOST = 2
    Prices <- MCPrices
    TargetRatios <- MCTargetRatios
    WordBits = 8
    MaxTxOps = 2
    Absent = Absent
SPECIFICATION Spec
SYMMETRY Symmetry
INVARIANTS
    TypeOK
    AggregatesConsistent
    RatioIndexExact
    OwnerIndexExact
    LiquidationCandidatesComplete
    GlobalFloorHasCandidates
