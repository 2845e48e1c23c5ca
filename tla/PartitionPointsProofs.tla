----------------------- MODULE PartitionPointsProofs -----------------------
EXTENDS PartitionPoints, TLAPS

LEMMA BlockRowRoundTrip ==
    ASSUME NEW k \in Pos, NEW q \in [row : Pos, col : Pos]
    PROVE  pnt_rmap_bR(k, pnt_map_bR(k, q)) = q
<1> DEFINE r == q.row  c == q.col
           pr == (r - 1) \div k + 1
           pc == ((r - 1) % k) + k * (c - 1) + 1
<1>1. r \in Pos /\ c \in Pos
  OBVIOUS
<1>2. pnt_map_bR(k, q) = [row |-> pr, col |-> pc]
  BY DEF pnt_map_bR
<1>3. k * (pr - 1) + ((pc - 1) % k) + 1 = r
  <2>1. \A rr, cc \in Pos : k * (((rr - 1) \div k + 1) - 1) + (((((rr - 1) % k) + k * (cc - 1) + 1) - 1) % k) + 1 = rr
    BY DEF Pos
  <2>2. QED
    BY <1>1, <2>1
<1>4. (pc - 1) \div k + 1 = c
  <2>1. \A rr, cc \in Pos : (((((rr - 1) % k) + k * (cc - 1) + 1) - 1) \div k) + 1 = cc
    BY DEF Pos
  <2>2. QED
    BY <1>1, <2>1
<1>5. QED
  BY <1>2, <1>3, <1>4 DEF pnt_rmap_bR

LEMMA DiagRoundTrip ==
    ASSUME NEW q \in Grid
    PROVE  pnt_rmap_D(pnt_map_D(q, NR), NR) = q
<1>1. q.row \in 1..NR /\ q.col \in 1..NC
  BY DEF Grid
<1>2. CASE q.col < q.row
  BY <1>1, <1>2, DimsAssumption DEF pnt_map_D, pnt_rmap_D, Grid
<1>3. CASE ~(q.col < q.row)
  BY <1>1, <1>3, DimsAssumption DEF pnt_map_D, pnt_rmap_D, Grid
<1>4. QED
  BY <1>2, <1>3

LEMMA RevDiagRoundTrip ==
    ASSUME NEW q \in Grid
    PROVE  pnt_rmap_rD(pnt_map_rD(q, NC), NC) = q
<1>1. q.row \in 1..NR /\ q.col \in 1..NC
  BY DEF Grid
<1>2. CASE q.col + q.row - 1 <= NC
  BY <1>1, <1>2, DimsAssumption DEF pnt_map_rD, pnt_rmap_rD, Grid
<1>3. CASE ~(q.col + q.row - 1 <= NC)
  BY <1>1, <1>3, DimsAssumption DEF pnt_map_rD, pnt_rmap_rD, Grid
<1>4. QED
  BY <1>2, <1>3

LEMMA PlainNotBlock ==
    ASSUME NEW t \in {HORIZONTAL, VERTICAL, DIAGONAL, REV_DIAGONAL}
    PROVE  ~IsRowBlock(t) /\ ~IsColBlock(t)
BY DEF IsRowBlock, IsColBlock, BLOCK_ROW, BLOCK_COL, BlockSizes,
       HORIZONTAL, VERTICAL, DIAGONAL, REV_DIAGONAL

LEMMA GridPos == Grid \subseteq [row : Pos, col : Pos]
BY DEF Grid, Pos

(* Every forward map of GetXformFn is undone by the reverse map of         *)
(* GetRevXformFn on the points of the matrix.                               *)
LEMMA RoundTrip ==
    ASSUME NEW t \in IterOrders \ {NONE}, NEW q \in Grid
    PROVE  GetRevXformFn(t, GetXformFn(t, q, NR, NC), NR, NC) = q
<1>1. q \in [row : Pos, col : Pos]
  BY GridPos
<1>2. CASE t = HORIZONTAL
  BY <1>2, PlainNotBlock DEF GetRevXformFn, GetXformFn, HORIZONTAL, VERTICAL, DIAGONAL, REV_DIAGONAL
<1>3. CASE t = VERTICAL
  BY <1>1, <1>3, PlainNotBlock DEF GetRevXformFn, GetXformFn, pnt_map_V, pnt_rmap_V,
                   HORIZONTAL, VERTICAL, DIAGONAL, REV_DIAGONAL
<1>4. CASE t = DIAGONAL
  BY <1>4, DiagRoundTrip, PlainNotBlock DEF GetRevXformFn, GetXformFn, HORIZONTAL, VERTICAL, DIAGONAL, REV_DIAGONAL
<1>5. CASE t = REV_DIAGONAL
  BY <1>5, RevDiagRoundTrip, PlainNotBlock DEF GetRevXformFn, GetXformFn, HORIZONTAL, VERTICAL, DIAGONAL, REV_DIAGONAL
<1>6. CASE IsRowBlock(t)
  <2>1. PICK k \in BlockSizes : t = BLOCK_ROW(k)
    BY <1>6 DEF IsRowBlock
  <2>2. ~IsColBlock(t) /\ t \notin {HORIZONTAL, VERTICAL, DIAGONAL, REV_DIAGONAL} /\ IsBlockType(t) = k
    BY <2>1 DEF IsColBlock, IsRowBlock, IsBlockType, BLOCK_ROW, BLOCK_COL, BlockSizes,
                HORIZONTAL, VERTICAL, DIAGONAL, REV_DIAGONAL
  <2>3. k \in Pos
    BY DEF BlockSizes, Pos
  <2>4. QED
    BY <1>1, <1>6, <2>2, <2>3, BlockRowRoundTrip DEF GetRevXformFn, GetXformFn
<1>7. CASE IsColBlock(t)
  <2>1. PICK k \in BlockSizes : t = BLOCK_COL(k)
    BY <1>7 DEF IsColBlock
  <2>2. ~IsRowBlock(t) /\ t \notin {HORIZONTAL, VERTICAL, DIAGONAL, REV_DIAGONAL} /\ IsBlockType(t) = k
    BY <2>1 DEF IsColBlock, IsRowBlock, IsBlockType, BLOCK_ROW, BLOCK_COL, BlockSizes,
                HORIZONTAL, VERTICAL, DIAGONAL, REV_DIAGONAL
  <2>3. k \in Pos
    BY DEF BlockSizes, Pos
  <2>4. pnt_map_V(q) \in [row : Pos, col : Pos]
    BY <1>1 DEF pnt_map_V
  <2>5. pnt_rmap_bR(k, pnt_map_bR(k, pnt_map_V(q))) = pnt_map_V(q)
    BY <2>3, <2>4, BlockRowRoundTrip
  <2>6. pnt_rmap_bC(k, pnt_map_bC(k, q)) = q
    BY <1>1, <2>5 DEF pnt_rmap_bC, pnt_map_bC, pnt_rmap_V, pnt_map_V
  <2>7. QED
    BY <1>7, <2>2, <2>6 DEF GetRevXformFn, GetXformFn
<1>8. QED
  BY <1>2, <1>3, <1>4, <1>5, <1>6, <1>7 DEF IterOrders, IsRowBlock, IsColBlock

(* The forward maps keep coordinates positive: the assertion               *)
(* nrows + src_x - src_y > 0 of pnt_map_D holds on the matrix, and so does *)
(* ncols + 1 - src_x > 0 in pnt_map_rD.                                    *)
LEMMA XformPos ==
    ASSUME NEW t \in IterOrders \ {NONE}, NEW q \in Grid
    PROVE  GetXformFn(t, q, NR, NC) \in [row : Pos, col : Pos]
<1>1. q.row \in 1..NR /\ q.col \in 1..NC
  BY DEF Grid
<1>2. CASE t = HORIZONTAL
  BY <1>2, GridPos, PlainNotBlock DEF GetXformFn, HORIZONTAL, VERTICAL, DIAGONAL, REV_DIAGONAL
<1>3. CASE t = VERTICAL
  BY <1>1, <1>3, PlainNotBlock DEF GetXformFn, pnt_map_V, Pos,
                                   HORIZONTAL, VERTICAL, DIAGONAL, REV_DIAGONAL
<1>4. CASE t = DIAGONAL
  BY <1>1, <1>4, PlainNotBlock, DimsAssumption DEF GetXformFn, pnt_map_D, Pos,
                                   HORIZONTAL, VERTICAL, DIAGONAL, REV_DIAGONAL
<1>5. CASE t = REV_DIAGONAL
  BY <1>1, <1>5, PlainNotBlock, DimsAssumption DEF GetXformFn, pnt_map_rD, Pos,
                                   HORIZONTAL, VERTICAL, DIAGONAL, REV_DIAGONAL
<1>6. ASSUME NEW k \in BlockSizes, NEW p \in [row : Pos, col : Pos]
      PROVE  pnt_map_bR(k, p) \in [row : Pos, col : Pos]
  BY DEF pnt_map_bR, BlockSizes, Pos
<1>7. CASE IsRowBlock(t)
  <2>1. PICK k \in BlockSizes : t = BLOCK_ROW(k)
    BY <1>7 DEF IsRowBlock
  <2>2. ~IsColBlock(t) /\ t \notin {HORIZONTAL, VERTICAL, DIAGONAL, REV_DIAGONAL} /\ IsBlockType(t) = k
    BY <2>1 DEF IsColBlock, IsRowBlock, IsBlockType, BLOCK_ROW, BLOCK_COL, BlockSizes,
                HORIZONTAL, VERTICAL, DIAGONAL, REV_DIAGONAL
  <2>3. QED
    BY <1>6, <1>7, <2>2, GridPos DEF GetXformFn
<1>8. CASE IsColBlock(t)
  <2>1. PICK k \in BlockSizes : t = BLOCK_COL(k)
    BY <1>8 DEF IsColBlock
  <2>2. ~IsRowBlock(t) /\ t \notin {HORIZONTAL, VERTICAL, DIAGONAL, REV_DIAGONAL} /\ IsBlockType(t) = k
    BY <2>1 DEF IsColBlock, IsRowBlock, IsBlockType, BLOCK_ROW, BLOCK_COL, BlockSizes,
                HORIZONTAL, VERTICAL, DIAGONAL, REV_DIAGONAL
  <2>3. pnt_map_V(q) \in [row : Pos, col : Pos]
    BY GridPos DEF pnt_map_V
  <2>4. QED
    BY <1>6, <1>8, <2>2, <2>3 DEF GetXformFn, pnt_map_bC
<1>9. QED
  BY <1>2, <1>3, <1>4, <1>5, <1>7, <1>8 DEF IterOrders, IsRowBlock, IsColBlock
-----------------------------------------------------------------------------
(* The inductive invariant: every point sits where the forward map of the  *)
(* current order puts the coordinate it was loaded with.  Decodes alone is *)
(* not inductive: it says nothing of where a point will go under the next  *)
(* GetTransformFn unless the point is known to be in the image of the      *)
(* matrix, where the reverse maps are inverses.                            *)
IInv ==
    /\ TypeOK
    /\ \A e \in pts : Coord(e) = GetXformFn(type, e.val, NR, NC)

LEMMA TypeInOrders ==
    ASSUME TypeOK PROVE type \in IterOrders \ {NONE}
BY OrdersAssumption DEF TypeOK, IterOrders, HORIZONTAL, NONE

LEMMA TransformPoint ==
    ASSUME IInv, NEW t \in Orders, NEW e \in pts
    PROVE  /\ GetTransformFn(type, t, Coord(e), NR, NC) = GetXformFn(t, e.val, NR, NC)
           /\ GetXformFn(t, e.val, NR, NC) \in [row : Pos, col : Pos]
<1>1. type \in IterOrders \ {NONE} /\ t \in IterOrders \ {NONE} /\ e.val \in Grid
  BY TypeInOrders, OrdersAssumption DEF IInv, TypeOK
<1>2. GetRevXformFn(type, Coord(e), NR, NC) = e.val
  BY <1>1, RoundTrip DEF IInv
<1>3. QED
  BY <1>1, <1>2, XformPos DEF GetTransformFn

LEMMA InitIInv == Init => IInv
<1> SUFFICES ASSUME Init PROVE IInv
  OBVIOUS
<1>1. \A q \in orig : q \in Grid /\ q = [row |-> q.row, col |-> q.col]
  BY DEF Init, Grid
<1>2. HORIZONTAL \in Orders \cup {HORIZONTAL} /\ ~IsRowBlock(HORIZONTAL) /\ ~IsColBlock(HORIZONTAL)
  BY PlainNotBlock
<1>3. TypeOK
  BY <1>1, <1>2, GridPos DEF Init, TypeOK, Grid
<1>4. \A e \in pts : Coord(e) = GetXformFn(type, e.val, NR, NC)
  BY <1>1, <1>2 DEF Init, Coord, GetXformFn, HORIZONTAL, VERTICAL, DIAGONAL, REV_DIAGONAL
<1>5. QED
  BY <1>3, <1>4 DEF IInv

LEMMA NextIInv == IInv /\ [Next]_vars => IInv'
<1> SUFFICES ASSUME IInv, [Next]_vars PROVE IInv'
  OBVIOUS
<1>1. CASE UNCHANGED vars
  BY <1>1 DEF IInv, TypeOK, vars, Coord
<1>2. ASSUME NEW t \in Orders, Transform(t) PROVE IInv'
  <2>1. type' = t /\ orig' = orig /\ t \in Orders \cup {HORIZONTAL}
    BY <1>2 DEF Transform
  <2>2. ASSUME NEW f \in pts'
        PROVE  /\ f \in [row : Pos, col : Pos, val : Grid]
               /\ Coord(f) = GetXformFn(t, f.val, NR, NC)
    <3>1. PICK e \in pts : f = [row |-> GetTransformFn(type, t, Coord(e), NR, NC).row,
                                col |-> GetTransformFn(type, t, Coord(e), NR, NC).col,
                                val |-> e.val]
      BY <1>2 DEF Transform
    <3>2. e.val \in Grid
      BY DEF IInv, TypeOK
    <3>3. QED
      BY <3>1, <3>2, TransformPoint DEF Coord
  <2>3. QED
    BY <2>1, <2>2 DEF IInv, TypeOK
<1>3. QED
  BY <1>1, <1>2 DEF Next

(* Type correctness: Transform never produces a non-positive coordinate,   *)
(* for any matrix dimensions and any set of orders it is called with.      *)
THEOREM TypeCorrect == Spec => []TypeOK
<1>1. Spec => []IInv
  BY InitIInv, NextIInv, PTL DEF Spec
<1>2. QED
  BY <1>1, PTL DEF IInv

(* Decodes holds for every matrix size: after any sequence of Transform    *)
(* calls the reverse map of the current order recovers every non-zero's    *)
(* original coordinate, so transforming back to HORIZONTAL is lossless.    *)
THEOREM DecodesInvariant == Spec => []Decodes
<1>1. IInv => Decodes
  <2> SUFFICES ASSUME IInv, NEW e \in pts
               PROVE  GetRevXformFn(type, Coord(e), NR, NC) = e.val
    BY DEF Decodes
  <2>1. type \in IterOrders \ {NONE} /\ e.val \in Grid
    BY TypeInOrders DEF IInv, TypeOK
  <2>2. QED
    BY <2>1, RoundTrip DEF IInv
<1>2. QED
  BY <1>1, InitIInv, NextIInv, PTL DEF Spec
====
