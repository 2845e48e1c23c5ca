---------------------------- MODULE MCPartition ----------------------------
EXTENDS Partition

(* Orders of both families and the diagonals.  On three rows BLOCK_ROW(2)  *)
(* has a full and a partial block, so an intra-family Transform sorts      *)
(* several chunks; BLOCK_ROW(2) -> BLOCK_ROW(3) sorts chunks of 3 blocks.  *)
MCOrders == {HORIZONTAL, VERTICAL, DIAGONAL, REV_DIAGONAL,
             BLOCK_ROW(2), BLOCK_ROW(3), BLOCK_COL(2)}
=============================================================================
