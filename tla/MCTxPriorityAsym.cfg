CONSTANTS
    Hashes <- MCHashes
    Priorities <- MCPriorities
    Fees <- MCFees
    Fuels <- MCFuels
    Sizes <- MCSizes
    MedianHash = 0
    WordBits = 8
SPECIFICATION Spec
INVARIANTS
    PriorityAsymmetric
