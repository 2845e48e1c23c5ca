CONSTANTS
    Unset = Unset
    Empty = Empty
    Uninit = Uninit
    Confs <- MCConfs
    XformEnvs <- MCXformEnvs
    DeltaEnvs <- MCDeltaEnvs
    XformMax = 3
    DeltasMax = 3
    MaxThreads = 4
    MaxCalls = 1
SPECIFICATION Spec
INVARIANTS TypeOK SerialAfterJoin
PROPERTIES Completes QuiescentAfterJoin
\* getSpmMt returns (or the program exits) once preprocessing is over.
CHECK_DEADLOCK FALSE
