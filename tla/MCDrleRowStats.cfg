CONSTANTS
    MinLimit = 4
    MaxLimit = 254
    W = 8
    Kinds <- MCKindsBlock2
    Deltas = {1, 2}
INIT Init
NEXT Next
CHECK_DEADLOCK FALSE
INVARIANTS
    StatsMatchEncoding
