CONSTANTS
    MaxDelegates = 6
    Interval = 2
SPECIFICATION Spec
INVARIANTS
    ShuffleMatchesSpec
