----------------------------- MODULE IterOrder -----------------------------
(***************************************************************************)
(* The iteration orders of a CSX partition and the coordinate transforms   *)
(* between them (csx/SparsePartition.h, lines 703-867 and 1137-1340).      *)
(*                                                                         *)
(* A coordinate is a record [row |-> r, col |-> c] with 1-based indices,   *)
(* the CooElem fields the transforms read and write.  Every transform is   *)
(* an operator of the coordinate and of the partition's dimensions         *)
(* nr_rows_ / nr_cols_, which the code binds into the boost::function.     *)
(*                                                                         *)
(* The IterOrder enumeration itself lives in a header that is not part of  *)
(* the sources; its values are numbered here in the order the design      *)
(* lists them: NONE, HORIZONTAL, VERTICAL, DIAGONAL, REV_DIAGONAL,         *)
(* BLOCK_ROW_1..8, BLOCK_COL_1..8 (21 values).                            *)
(***************************************************************************)
EXTENDS Integers

NONE == 0
HORIZONTAL == 1
VERTICAL == 2
DIAGONAL == 3
REV_DIAGONAL == 4
BLOCK_ROW(k) == 4 + k
BLOCK_COL(k) == 12 + k

BlockSizes == 1..8

IterOrders == {NONE, HORIZONTAL, VERTICAL, DIAGONAL, REV_DIAGONAL}
                \cup {BLOCK_ROW(k) : k \in BlockSizes}
                \cup {BLOCK_COL(k) : k \in BlockSizes}

(* is_row_block / is_col_block / IsBlockType of the enumeration's header.  *)
IsRowBlock(t) == t \in {BLOCK_ROW(k) : k \in BlockSizes}

IsColBlock(t) == t \in {BLOCK_COL(k) : k \in BlockSizes}

IsBlockType(t) == CASE IsRowBlock(t) -> t - 4
                    [] IsColBlock(t) -> t - 12
                    [] OTHER         -> 0

(* The least common multiple of two positive integers (lcm). *)
Lcm(a, b) == CHOOSE m \in 1..(a * b) : /\ m % a = 0
                                      /\ m % b = 0
                                      /\ \A n \in 1..(m - 1) : n % a # 0 \/ n % b # 0

-----------------------------------------------------------------------------
(* The coordinate maps.  src_x is the column and src_y the row.            *)

pnt_map_V(p) == [row |-> p.col, col |-> p.row]

pnt_rmap_V(p) == pnt_map_V(p)

(* Mutant: the column takes the larger of row and column. *)
pnt_map_D_max(p, nrows) ==
    [row |-> nrows + p.col - p.row,
     col |-> IF p.col < p.row THEN p.row ELSE p.col]

pnt_map_D(p, nrows) ==
    [row |-> nrows + p.col - p.row,
     col |-> IF p.col < p.row THEN p.col ELSE p.row]

pnt_rmap_D(p, nrows) ==
    IF p.row < nrows
    THEN [col |-> p.col, row |-> nrows + p.col - p.row]
    ELSE [row |-> p.col, col |-> p.row + p.col - nrows]

(* Mutant: the anti-diagonal index one too low. *)
pnt_map_rD_off(p, ncols) ==
    LET dst_y == p.col + p.row - 2
    IN  [row |-> dst_y,
         col |-> IF dst_y <= ncols THEN p.row ELSE ncols + 1 - p.col]

pnt_map_rD(p, ncols) ==
    LET dst_y == p.col + p.row - 1
    IN  [row |-> dst_y,
         col |-> IF dst_y <= ncols THEN p.row ELSE ncols + 1 - p.col]

(* Both branches compute the row, but the last statement of the function  *)
(* overwrites it with src_y - dst.col + 1: only the column comes from the  *)
(* branch.                                                                 *)
pnt_rmap_rD(p, ncols) ==
    LET dcol == IF p.row <= ncols THEN p.row + 1 - p.col ELSE ncols + 1 - p.col
    IN  [row |-> p.row - dcol + 1, col |-> dcol]

pnt_map_bR(k, p) ==
    [row |-> (p.row - 1) \div k + 1,
     col |-> ((p.row - 1) % k) + k * (p.col - 1) + 1]

pnt_rmap_bR(k, p) ==
    [row |-> k * (p.row - 1) + ((p.col - 1) % k) + 1,
     col |-> (p.col - 1) \div k + 1]

(* The maps are bound with the same CooElem as source and destination, so *)
(* the second map reads what the first one wrote.                          *)
pnt_map_bC(k, p) == pnt_map_bR(k, pnt_map_V(p))

pnt_rmap_bC(k, p) == pnt_rmap_V(pnt_rmap_bR(k, p))

-----------------------------------------------------------------------------
(* GetXformFn: HORIZONTAL -> t.  HORIZONTAL is the NULL function.          *)
GetXformFn(t, p, nrows, ncols) ==
    CASE t = HORIZONTAL   -> p
      [] t = VERTICAL     -> pnt_map_V(p)
      [] t = DIAGONAL     -> pnt_map_D(p, nrows)
      [] t = REV_DIAGONAL -> pnt_map_rD(p, ncols)
      [] IsRowBlock(t)    -> pnt_map_bR(IsBlockType(t), p)
      [] IsColBlock(t)    -> pnt_map_bC(IsBlockType(t), p)

(* GetRevXformFn: t -> HORIZONTAL. *)
GetRevXformFn(t, p, nrows, ncols) ==
    CASE t = HORIZONTAL   -> p
      [] t = VERTICAL     -> pnt_rmap_V(p)
      [] t = DIAGONAL     -> pnt_rmap_D(p, nrows)
      [] t = REV_DIAGONAL -> pnt_rmap_rD(p, ncols)
      [] IsRowBlock(t)    -> pnt_rmap_bR(IsBlockType(t), p)
      [] IsColBlock(t)    -> pnt_rmap_bC(IsBlockType(t), p)

(* GetTransformFn: the reverse map of from, then the forward map of to.    *)
GetTransformFn(from, to, p, nrows, ncols) ==
    GetXformFn(to, GetRevXformFn(from, p, nrows, ncols), nrows, ncols)

=============================================================================
