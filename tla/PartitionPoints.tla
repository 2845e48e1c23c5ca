-------------------------- MODULE PartitionPoints --------------------------
(***************************************************************************)
(* What a SparsePartition promises: it holds the points of a sparse        *)
(* matrix in the coordinate system of its current iteration order, and     *)
(* Transform(t) moves every point into the coordinate system of t.  The    *)
(* arrays (rowptr_, elems_), the sort and the rebuild are left out; they   *)
(* are in module Partition, which implements this specification.           *)
(*                                                                         *)
(* Each point carries, as the ghost field val, the HORIZONTAL coordinate   *)
(* it was loaded with (the value of an element is abstracted to the        *)
(* identity of the non-zero it belongs to).                                *)
(***************************************************************************)
EXTENDS Integers, IterOrder

CONSTANTS
    NR,       \* nr_rows_ of the partition
    NC,       \* nr_cols_ of the partition
    Orders    \* the iteration orders Transform is called with

ASSUME DimsAssumption == NR \in Nat \ {0} /\ NC \in Nat \ {0}
ASSUME OrdersAssumption == Orders \subseteq IterOrders \ {NONE}

VARIABLES
    type,     \* type_
    pts,      \* the points, a set of [row, col, val]
    orig      \* the HORIZONTAL coordinates the partition was loaded with

vars == <<type, pts, orig>>

(* The coordinates of an NR x NC matrix. *)
Grid == [row : 1..NR, col : 1..NC]

Pos == Nat \ {0}

Coord(e) == [row |-> e.row, col |-> e.col]

Init ==
    /\ type = HORIZONTAL
    /\ orig \in SUBSET Grid
    /\ pts = {[row |-> q.row, col |-> q.col, val |-> q] : q \in orig}

(* Transform(t) (lines 1342-1363): nothing to do when the order is already *)
(* t; otherwise every point is mapped by GetTransformFn(type_, t).          *)
Transform(t) ==
    /\ type # t
    /\ pts' = {LET q == GetTransformFn(type, t, Coord(e), NR, NC)
               IN  [row |-> q.row, col |-> q.col, val |-> e.val] : e \in pts}
    /\ type' = t
    /\ UNCHANGED orig

Next == \E t \in Orders : Transform(t)

Spec == Init /\ [][Next]_vars

-----------------------------------------------------------------------------
(* Type invariant: coordinates stay positive (the code's index types are    *)
(* used 1-based, and pnt_map_D asserts nrows + col - row > 0).            *)
TypeOK ==
    /\ type \in Orders \cup {HORIZONTAL}
    /\ orig \subseteq Grid
    /\ pts \subseteq [row : Pos, col : Pos, val : Grid]

(* Decodes: the reverse map of the current order takes every point back to *)
(* the coordinate it was loaded with, whatever sequence of Transform calls *)
(* led here.  It fails if a forward map of GetXformFn and the reverse map  *)
(* of GetRevXformFn are not inverse on the matrix (pnt_map_D/pnt_rmap_D,   *)
(* the piecewise REV_DIAGONAL pair, the block maps' div/mod arithmetic).   *)
Decodes ==
    \A e \in pts : GetRevXformFn(type, Coord(e), NR, NC) = e.val

=============================================================================
