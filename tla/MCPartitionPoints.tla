------------------------- MODULE MCPartitionPoints -------------------------
EXTENDS PartitionPoints

(* Every iteration order on a 3 x 3 matrix: the block sizes 2 and 3 split  *)
(* rows into full and partial blocks, 4 exceeds the matrix.                *)
MCOrders == {HORIZONTAL, VERTICAL, DIAGONAL, REV_DIAGONAL,
             BLOCK_ROW(1), BLOCK_ROW(2), BLOCK_ROW(3), BLOCK_ROW(4),
             BLOCK_COL(1), BLOCK_COL(2), BLOCK_COL(3)}
=============================================================================
