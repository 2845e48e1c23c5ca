---------------------------- MODULE MCEncodeAll ----------------------------
(* EncodeAll on a 3x4 partition, for two XFORM_CONF settings: one that      *)
(* lists HORIZONTAL and four block orders, of which genAllStats keeps       *)
(* BLOCK_ROW_1, BLOCK_ROW_2 and BLOCK_COL_1, and one that lists only row    *)
(* block orders, so that BLOCK_ROW_2 does not lose every round to the       *)
(* orders of block size 1.                                                 *)
EXTENDS EncodeAll

MCXformConfs ==
    { {HORIZONTAL, BLOCK_ROW(1), BLOCK_ROW(2), BLOCK_ROW(3), BLOCK_COL(1)},
      {BLOCK_ROW(2), BLOCK_ROW(3)} }
=============================================================================
