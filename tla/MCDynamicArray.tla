--------------------------- MODULE MCDynamicArray ---------------------------
(* DynamicArray with two values, capacities 0, 1 and 2 at construction,    *)
(* up to three Appends and direct Resize calls to 1, 2 and 3 elements.    *)
EXTENDS DynamicArray

MCVals == {"a", "b"}
=============================================================================
