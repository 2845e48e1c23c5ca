CONSTANTS
    Vals <- MCVals
    NoVal = NoVal
    InitCaps = {0, 1, 2}
    ResizeArgs = {1, 2, 3}
    MaxSize = 3
    W = 2
SPECIFICATION Spec
INVARIANTS TypeOK Intact
PROPERTIES ResizeReturns Refines
\* The destructor ends the array's life.
CHECK_DEADLOCK FALSE
