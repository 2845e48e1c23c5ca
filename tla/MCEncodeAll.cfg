CONSTANTS
    NR = 3
    NC = 4
    MinLimit = 4
    MaxLimit = 6
    PercNum = 1
    PercDen = 10
    XformConfs <- MCXformConfs
SPECIFICATION Spec
INVARIANTS TypeOK Decodes BlockAligned
PROPERTIES Termination
\* EncodeAll returns once chooseType gives NONE.
CHECK_DEADLOCK FALSE
