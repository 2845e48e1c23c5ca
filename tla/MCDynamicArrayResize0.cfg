CONSTANTS
    Vals <- MCVals
    NoVal = NoVal
    InitCaps = {0, 1, 2}
    ResizeArgs = {0}
    MaxSize = 3
    W = 2
SPECIFICATION Spec
INVARIANT Intact
\* The destructor ends the array's life.
CHECK_DEADLOCK FALSE
