----------------------------- MODULE Partition -----------------------------
(***************************************************************************)
(* SparsePartition (csx/SparsePartition.h) as its arrays: elems_ holds the *)
(* non-zeros in row-major order of the current iteration order and        *)
(* rowptr_ the prefix counts of the rows.  Transform(t) is the whole of    *)
(* SparsePartition::Transform: the walk of the points with PntIter, the    *)
(* coordinate map, the chunked or global sort and the rebuild of both      *)
(* arrays by SetElems with a Builder.                                      *)
(*                                                                         *)
(* The partition is a window of the matrix (GetWindow), so elems_mapped_   *)
(* is true and the Builder appends into the window's own element buffer.   *)
(* An element is [col |-> c, val |-> v]; its row is given by rowptr_, and  *)
(* v, standing for the value, is the HORIZONTAL coordinate of the          *)
(* non-zero, so that the refinement mapping can name it.                   *)
(*                                                                         *)
(* Sequences are 1-based: rowptr[i] is rowptr_[i - 1] and elems[k] is      *)
(* elems_[k - 1].                                                          *)
(***************************************************************************)
EXTENDS Integers, Sequences, SequencesExt, FiniteSets, IterOrder

CONSTANTS NR, NC, Orders

ASSUME PartitionDims == NR \in Nat \ {0} /\ NC \in Nat \ {0}
ASSUME PartitionOrders == Orders \subseteq IterOrders \ {NONE}

VARIABLES
    type,      \* type_
    elems,     \* elems_[0 .. elems_size_ - 1]
    rowptr,    \* rowptr_[0 .. rowptr_size_ - 1]
    aborted    \* an assert() of the rebuild has failed and the process died

vars == <<type, elems, rowptr, aborted>>

Grid == [row : 1..NR, col : 1..NC]

(* Row-major order of coordinates, the order elem_cmp_less sorts by. *)
RowMajorLess(p, q) == p.row < q.row \/ (p.row = q.row /\ p.col < q.col)

-----------------------------------------------------------------------------
(* PntIter: the row of the k-th element is the row r with                  *)
(* rowptr_[r - 1] <= k - 1 < rowptr_[r]; operator* returns row_idx_ + 1.   *)
(* Mutant: operator* returns row_idx_ instead of row_idx_ + 1. *)
RowOfZeroBased(k) ==
    (CHOOSE r \in 1..(Len(rowptr) - 1) : rowptr[r] < k /\ k <= rowptr[r + 1]) - 1

RowOf(k) == CHOOSE r \in 1..(Len(rowptr) - 1) : rowptr[r] < k /\ k <= rowptr[r + 1]

(* The points PointsBegin(0) .. PointsEnd(0) visit, in order. *)
Points == [k \in 1..Len(elems) |->
              [row |-> RowOf(k), col |-> elems[k].col, val |-> elems[k].val]]

(* Transform sorts within chunks when both orders belong to the same       *)
(* family, HORIZONTAL with the row blocks or VERTICAL with the column      *)
(* blocks.                                                                 *)
SameFamily(from, to) ==
    \/ (from = HORIZONTAL \/ IsRowBlock(from)) /\ (to = HORIZONTAL \/ IsRowBlock(to))
    \/ (from = VERTICAL \/ IsColBlock(from)) /\ (to = VERTICAL \/ IsColBlock(to))

BlockAlign(t) == IF t \in {HORIZONTAL, VERTICAL} THEN 1 ELSE IsBlockType(t)

(* k = lcm(old_block_align, new_block_align) / old_block_align: the number *)
(* of old rows sorted together.                                            *)
(* Mutant: every old row sorted on its own. *)
SortScopeOne(from, to) == 1

SortScope(from, to) == Lcm(BlockAlign(from), BlockAlign(to)) \div BlockAlign(from)

(* The loop over i = k, 2k, ... < re sorts the elements of old rows        *)
(* i - k + 1 .. i together, and the tail after the last full chunk; an     *)
(* element of old row r is in chunk (r - 1) \div k.  A cross-family        *)
(* transform sorts everything as one chunk.                                *)
Chunk(from, to, r) == IF SameFamily(from, to) THEN (r - 1) \div SortScope(from, to) ELSE 0

(* Mutant: the value is taken from the mapped coordinate. *)
MovedNewVal(t) ==
    [k \in 1..Len(elems) |->
        LET q == GetTransformFn(type, t, [row |-> Points[k].row, col |-> Points[k].col], NR, NC)
        IN  [row |-> q.row, col |-> q.col, val |-> [row |-> q.row, col |-> q.col],
             chunk |-> Chunk(type, t, Points[k].row)]]

(* The mapped points, each tagged with its chunk and its old position. *)
Moved(t) ==
    [k \in 1..Len(elems) |->
        LET q == GetTransformFn(type, t, [row |-> Points[k].row, col |-> Points[k].col], NR, NC)
        IN  [row |-> q.row, col |-> q.col, val |-> Points[k].val,
             chunk |-> Chunk(type, t, Points[k].row)]]

(* sort(es, ee, elem_cmp_less) applied chunk after chunk. *)
ChunkLess(a, b) == a.chunk < b.chunk \/ (a.chunk = b.chunk /\ RowMajorLess(a, b))

SortedMoved(t) == SortSeq(Moved(t), ChunkLess)

(* The Builder of a mapped partition: its rowptr_ dynarray starts as <<0>>. *)
BuilderInit == <<0>>

(* Builder::NewRow(rdiff) appends rdiff copies of the number of elements   *)
(* allocated so far (GetElemsCnt() of the mapped element buffer).          *)
NewRow(rp, rdiff, cnt) == rp \o [i \in 1..rdiff |-> cnt]

(* Builder::Finalize closes the last row unless it is already closed; the *)
(* size of the dynarray becomes rowptr_size_.                              *)
Finalize(rp, cnt) == IF Last(rp) # cnt THEN NewRow(rp, 1, cnt) ELSE rp

(* SetElems(pi, pnts_end, first_row = 1, limit = 0, ...): row_prev starts  *)
(* at first_row; on a change of row it asserts row > row_prev and opens    *)
(* row - row_prev rows; every element is allocated and written in place.   *)
(* The result is the new rowptr_, or ok = FALSE when the assertion fails.  *)
SetElems(s) ==
    LET loop[j \in 0..Len(s)] ==
          IF j = 0 THEN [rp |-> BuilderInit, prev |-> 1, ok |-> TRUE]
          ELSE LET st == loop[j - 1]
                   r  == s[j].row
               IN  CASE ~st.ok \/ r = st.prev -> st
                     [] r > st.prev -> [rp |-> NewRow(st.rp, r - st.prev, j - 1),
                                        prev |-> r, ok |-> TRUE]
                     [] OTHER -> [st EXCEPT !.ok = FALSE]
        fin == loop[Len(s)]
    IN  [ok |-> fin.ok, rp |-> Finalize(fin.rp, Len(s))]

-----------------------------------------------------------------------------
(* The window as GetWindow leaves it: HORIZONTAL, elements in row-major    *)
(* order and rowptr_size_ = length + 1 rows, trailing empty rows included. *)
Init ==
    \E S \in SUBSET Grid :
        /\ type = HORIZONTAL
        /\ elems = [k \in 1..Cardinality(S) |->
                      LET q == CHOOSE p \in S :
                                   Cardinality({o \in S : RowMajorLess(o, p)}) = k - 1
                      IN  [col |-> q.col, val |-> q]]
        /\ rowptr = [i \in 1..(NR + 1) |-> Cardinality({q \in S : q.row <= i - 1})]
        /\ aborted = FALSE

(* Transform(t): an early return when type_ = t; otherwise the mapped and  *)
(* sorted elements are written back over elems_ by SetElems, rowptr_ is    *)
(* replaced by the Builder's and type_ becomes t.                           *)
Transform(t) ==
    /\ ~aborted
    /\ type # t
    /\ LET s == SortedMoved(t)
           b == SetElems(s)
       IN  IF b.ok
           THEN /\ elems' = [k \in 1..Len(s) |-> [col |-> s[k].col, val |-> s[k].val]]
                /\ rowptr' = b.rp
                /\ type' = t
                /\ UNCHANGED aborted
           ELSE /\ aborted' = TRUE
                /\ UNCHANGED <<type, elems, rowptr>>

Next == \E t \in Orders : Transform(t)

Spec == Init /\ [][Next]_vars

-----------------------------------------------------------------------------
Pos == Nat \ {0}

(* Type invariant. *)
TypeOK ==
    /\ type \in Orders \cup {HORIZONTAL}
    /\ elems \in Seq([col : Pos, val : Grid])
    /\ rowptr \in Seq(Nat)
    /\ aborted \in BOOLEAN

(* WellFormed: the arrays Transform leaves behind are a CSR matrix in the  *)
(* new order: SetElems' assertion row > row_prev never fires, rowptr_      *)
(* starts at 0, never decreases and ends at elems_size_, and the columns   *)
(* of every row are strictly increasing.  It depends on the sort scope     *)
(* lcm(old, new) / old of an intra-family Transform being wide enough for  *)
(* the rows of one chunk to come out sorted, and on the maps being         *)
(* injective.                                                              *)
WellFormed ==
    /\ ~aborted
    /\ rowptr[1] = 0
    /\ Last(rowptr) = Len(elems)
    /\ \A i \in 1..(Len(rowptr) - 1) : rowptr[i] <= rowptr[i + 1]
    /\ \A k \in 1..(Len(elems) - 1) :
          RowOf(k) = RowOf(k + 1) => elems[k].col < elems[k + 1].col

(* The partition implements PartitionPoints: the points PntIter walks are  *)
(* the abstract points, and the loaded non-zeros are the values the        *)
(* elements carry.  Every Transform of the arrays is a Transform of the    *)
(* points, so no element is lost, duplicated or moved to a wrong row by    *)
(* the rebuild.                                                            *)
Abstract == INSTANCE PartitionPoints
                WITH pts  <- {Points[k] : k \in 1..Len(elems)},
                     orig <- {elems[k].val : k \in 1..Len(elems)}

Refines == Abstract!Spec

(* The design says rowptr_ has FindNewRowptrSize(t) entries after          *)
(* Transform(t): nr_rows + 1 for HORIZONTAL, nr_cols + 1 for VERTICAL,     *)
(* nr_rows + nr_cols + 1 for the diagonals, nr_rows / k + 2 and            *)
(* nr_cols / k + 2 for the blocks.                                          *)
SpecRowptrSize(t) ==
    CASE t = HORIZONTAL -> NR + 1
      [] t = VERTICAL -> NC + 1
      [] t \in {DIAGONAL, REV_DIAGONAL} -> NR + NC + 1
      [] IsRowBlock(t) -> NR \div IsBlockType(t) + 2
      [] IsColBlock(t) -> NC \div IsBlockType(t) + 2

(* RowptrSizeAsSpecified: the size of rowptr_ is the one the design gives  *)
(* for the current order.                                                  *)
RowptrSizeAsSpecified == Len(rowptr) = SpecRowptrSize(type)

=============================================================================
