CONSTANTS
    MinLimit = 4
    MaxLimit = 254
    W = 8
    Kinds <- MCKindsBlock3
    Deltas = {1}
INIT Init
NEXT Next
CHECK_DEADLOCK FALSE
INVARIANTS
    BlockAligned
