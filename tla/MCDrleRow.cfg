CONSTANTS
    MinLimit = 4
    MaxLimit = 5
    W = 8
    Kinds <- MCKinds
    Deltas = {1, 2}
INIT Init
NEXT Next
CHECK_DEADLOCK FALSE
INVARIANTS
    TypeOK
    RowDecodes
    PatternSizes
    BlockAligned
