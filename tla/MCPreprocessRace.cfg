CONSTANTS
    Unset = Unset
    Empty = Empty
    Uninit = Uninit
    Confs <- MCConfsTwo
    XformEnvs <- MCXformRace
    DeltaEnvs = {Unset}
    XformMax = 3
    DeltasMax = 3
    MaxThreads = 4
    MaxCalls = 1
SPECIFICATION Spec
INVARIANT NrPatternsExact
CHECK_DEADLOCK FALSE
