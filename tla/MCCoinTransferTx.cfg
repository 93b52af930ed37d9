CONSTANTS
    u1 = u1
    u2 = u2
    m1 = m1
    m2 = m2
    Users <- MCUsers
    Me = u1
    Amounts <- MCAmounts
    Fees = {1}
    Memos <- MCMemos
    Symbols <- MCSymbols
    WICC = "WICC"
    BCOIN_TRANSFER_TX = 3
    UCOIN_TRANSFER_TX = 11
    INIT_TX_VERSION = 1
    ValidHeights = {1}
    MaxTxs = 1
    MaxWire = 2
SPECIFICATION Spec
INVARIANTS
    TypeOK
    RelayedTxVerifies
    MempoolHoldsSignedContent
CHECK_DEADLOCK FALSE
