CONSTANTS
    NR = 3
    NC = 3
    Orders <- MCOrders
INIT Init
NEXT Next
INVARIANTS
    RowptrSizeAsSpecified
