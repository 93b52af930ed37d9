CONSTANTS
    Accounts <- MCAccounts
    Symbols <- MCSymbols
    MempoolTxs <- MCMempoolTxs
    SeenTxIds <- MCSeenTxIds
    InitBalances <- MCInitBalances
    MedianTx <- MCMedianTx
    MAX_BLOCK_RUN_STEP = 5
    MAX_BLOCK_SIZE = 9
    KB = 2
    ConfiguredMaxSize = 8
    RewardTxSize = 1
SPECIFICATION Spec
INVARIANTS
    TypeOK
    CacheHoldsPackedTxs
    VerifierAccepts
