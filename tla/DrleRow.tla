------------------------------ MODULE DrleRow ------------------------------
(***************************************************************************)
(* One row of a partition, already in iteration order type, walked by the  *)
(* two loops of patterns/drle.cc that split it at patterned elements:      *)
(* generateStats (statistics of the row for type) and EncodeRow (the new   *)
(* row).  Both gather the columns of pattern-free elements into xs and     *)
(* flush xs at a patterned element and at the end of the row; the model    *)
(* lets the row grow one element at a time and runs both flushes on the    *)
(* same xs, so that what the statistics promise can be compared with what  *)
(* the encoder emits.                                                      *)
(*                                                                         *)
(* The value of an element is its column in the row, so a value that ends *)
(* up in the wrong place is seen as a wrong column.                        *)
(***************************************************************************)
EXTENDS DeltaRLE

CONSTANTS W,       \* the largest column of the row
          Kinds,   \* the iteration orders the row may be in
          Deltas   \* the deltas DeltasToEncode[type] may hold

ASSUME RowAssumption == /\ W \in Nat \ {0}
                        /\ Kinds \subseteq IterOrders \ {NONE}
                        /\ Deltas \subseteq Nat \ {0}

VARIABLES type,    \* spm->type
          ds,      \* DeltasToEncode[type]
          inp,     \* the elements of the row walked so far
          xs, vs,  \* the pending pattern-free columns and values
          newrow,  \* the new row EncodeRow has built
          stats,   \* the statistics generateStats has gathered
          ok,      \* assert(vi == vs.end()) held at every flush
          done     \* the end of the row was reached

vars == <<type, ds, inp, xs, vs, newrow, stats, ok, done>>

(* A pattern left in the row by the encoding of another order. *)
OtherPat == [size |-> MinLimit, delta |-> 1, kind |-> NONE]

LastCol == IF inp = <<>> THEN 0 ELSE Last(inp).x

(* The flush both loops perform on xs: updateStats(xs, stats) and, when xs *)
(* is not empty, doEncode(xs, vs, newrow); then tail is appended.         *)
Flush(tail) ==
    LET r == doEncode(xs, vs, ds, type)
    IN  /\ stats' = updateStats(xs, stats, IsBlockType(type))
        /\ ok' = (ok /\ (xs = <<>> \/ r.ok))
        /\ xs' = <<>>
        /\ vs' = <<>>
        /\ newrow' = (IF xs # <<>> THEN newrow \o r.out ELSE newrow) \o tail

Init ==
    /\ type \in Kinds
    /\ ds \in SUBSET Deltas
    /\ inp = <<>>
    /\ xs = <<>>
    /\ vs = <<>>
    /\ newrow = <<>>
    /\ stats = <<>>
    /\ ok = TRUE
    /\ done = FALSE

(* A pattern-free element: its column and value are pushed on xs and vs. *)
AddScalar(x) ==
    /\ ~done
    /\ x > LastCol
    /\ inp' = Append(inp, Scalar(x, x))
    /\ xs' = Append(xs, x)
    /\ vs' = Append(vs, x)
    /\ UNCHANGED <<type, ds, newrow, stats, ok, done>>

(* A patterned element: xs is flushed and the element is copied to the    *)
(* new row as it is.                                                       *)
AddPatterned(x) ==
    LET e == [x |-> x, pat |-> OtherPat, vals |-> <<x>>]
    IN  /\ ~done
        /\ x > LastCol
        /\ inp' = Append(inp, e)
        /\ Flush(<<e>>)
        /\ UNCHANGED <<type, ds, done>>

(* The end of the row: the remaining elements are flushed. *)
EndRow ==
    /\ ~done
    /\ Flush(<<>>)
    /\ done' = TRUE
    /\ UNCHANGED <<type, ds, inp>>

Next ==
    \/ \E x \in 1..W : AddScalar(x) \/ AddPatterned(x)
    \/ EndRow

Spec == Init /\ [][Next]_vars

-----------------------------------------------------------------------------
(* A pattern this encoding created (DeltaRLE(..., spm->type)). *)
NewPattern(u) == u.pat.kind = type

(* The columns an element stands for: a new pattern of size n and delta d  *)
(* at x covers x, x + d, ..., x + (n - 1) d in the order of type; any     *)
(* other element is one column.                                            *)
Expand(u) == IF NewPattern(u) THEN [j \in 1..u.pat.size |-> u.x + (j - 1) * u.pat.delta]
             ELSE <<u.x>>

Units == [x : 1..W, pat : {NoPat, OtherPat}, vals : Seq(1..W)]

(* Type invariant. *)
TypeOK ==
    /\ type \in Kinds
    /\ ds \subseteq Deltas
    /\ inp \in Seq(Units)
    /\ xs \in Seq(1..W) /\ vs \in Seq(1..W)
    /\ newrow \in Seq([x : 1..W, pat : [size : Nat, delta : Nat, kind : IterOrders],
                       vals : Seq(1..W)])
    /\ ok \in BOOLEAN /\ done \in BOOLEAN

(* RowDecodes: EncodeRow loses, duplicates and moves nothing.  Its value   *)
(* iterator ends exactly at the end of vs (the assertion of doEncode and   *)
(* doEncodeBlock); every element of the new row carries the values of the *)
(* columns its pattern decodes to, in order, so the pop_back of the annexed *)
(* element, the front and back skips and the max_limit split all hand each *)
(* value to the element that covers its column; and the columns of the new *)
(* row, followed by the pending xs, are the columns of the row walked.     *)
RowDecodes ==
    /\ ok
    /\ \A i \in DOMAIN newrow : newrow[i].vals = Expand(newrow[i])
    /\ FlattenSeq([i \in DOMAIN newrow |-> Expand(newrow[i])]) \o xs
         = [i \in DOMAIN inp |-> inp[i].x]

(* PatternSizes: doEncode cuts patterns of min_limit..max_limit elements;  *)
(* doEncodeBlock emits blocks of whole block rows, at least two of them,   *)
(* and never more than max_limit elements.                                 *)
PatternSizes ==
    \A i \in DOMAIN newrow :
        NewPattern(newrow[i]) =>
            LET n == newrow[i].pat.size
                k == IsBlockType(type)
            IN  /\ n <= MaxLimit
                /\ IF k = 0 THEN n >= MinLimit ELSE n % k = 0 /\ n >= 2 * k

(* BlockAligned: a block pattern of BLOCK_ROW_k starts on a block boundary *)
(* of its row, (x - 1) % k = 0 (the design's block alignment); this is    *)
(* what skip_front = (col - 2) % k in doEncodeBlock is for.               *)
BlockAligned ==
    \A i \in DOMAIN newrow :
        NewPattern(newrow[i]) /\ IsBlockType(type) # 0 =>
            (newrow[i].x - 1) % IsBlockType(type) = 0

StatOf(d) == IF d \in DOMAIN stats THEN stats[d] ELSE 0

EncodedNNZ(d) ==
    SumSeq([i \in DOMAIN newrow |->
              IF NewPattern(newrow[i]) /\ newrow[i].pat.delta = d
              THEN newrow[i].pat.size ELSE 0])

(* StatsMatchEncoding: once the row is done, the non-zeros generateStats   *)
(* counted for a delta the encoder encodes are the non-zeros the encoder   *)
(* put into patterns of that delta (the design's encoder-stats             *)
(* consistency).                                                           *)
StatsMatchEncoding ==
    done => \A d \in ds : StatOf(d) = EncodedNNZ(d)
=============================================================================
