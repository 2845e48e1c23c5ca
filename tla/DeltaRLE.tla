------------------------------ MODULE DeltaRLE ------------------------------
(***************************************************************************)
(* The delta run-length pattern engine of patterns/drle.cc, on one run of  *)
(* pattern-free elements of a row (the xs / vs vectors of the code).       *)
(*                                                                         *)
(* xs is the sequence of columns of the run in the current iteration       *)
(* order, strictly increasing and positive; vs the values, one per         *)
(* column.  ds is DeltasToEncode[type] and k the block alignment           *)
(* isBlockType(type) (0 for a kind that is not a block kind).              *)
(*                                                                         *)
(* An element of the encoded row (SpmRowElem) is a record                  *)
(*   [x |-> column, pat |-> NoPat or [size, delta, kind], vals |-> values] *)
(* where a scalar element carries its one value in vals.                   *)
(***************************************************************************)
EXTENDS Integers, Sequences, SequencesExt, Functions, IterOrder

CONSTANTS MinLimit, MaxLimit

ASSUME LimitsAssumption == /\ MinLimit \in Nat \ {0}
                           /\ MaxLimit \in Nat \ {0}

NoPat == [size |-> 0, delta |-> 0, kind |-> 0]

ScalarZeroBased(x, v) == [x |-> x - 1, pat |-> NoPat, vals |-> <<v>>]

Scalar(x, v) == [x |-> x, pat |-> NoPat, vals |-> <<v>>]

Lesser(a, b) == IF a <= b THEN a ELSE b

DeltaEncodeFromOne(xs) ==
    [i \in 1..Len(xs) |-> IF i = 1 THEN xs[1] - 1 ELSE xs[i] - xs[i - 1]]

(* DeltaEncode: the first column, then the differences of neighbours. *)
DeltaEncode(xs) == [i \in 1..Len(xs) |-> IF i = 1 THEN xs[1] ELSE xs[i] - xs[i - 1]]

(* RLEncode: maximal runs of equal values as [freq, val] pairs. *)
RLEncode(ds) ==
    FoldLeft(LAMBDA out, d :
                IF out # <<>> /\ Last(out).val = d
                THEN [out EXCEPT ![Len(out)].freq = @ + 1]
                ELSE Append(out, [freq |-> 1, val |-> d]),
             <<>>, ds)

(* stats[val].nnz += n, with stats a function from deltas to counts. *)
AddStat(stats, d, n) ==
    IF d \in DOMAIN stats THEN [stats EXCEPT ![d] = @ + n] ELSE stats @@ (d :> n)

(* updateStats for a kind that is not a block kind: every run of at least *)
(* min_limit equal deltas counts freq non-zeros for its delta.             *)
updateStatsPlain(xs, stats) ==
    FoldLeft(LAMBDA st, rle : IF rle.freq >= MinLimit THEN AddStat(st, rle.val, rle.freq)
                              ELSE st,
             stats, RLEncode(DeltaEncode(xs)))

(* updateStatsBlock: only runs of delta 1 count; the run is taken to start *)
(* one element earlier (freq + 1 elements), skip_front = (unit_start - 2)  *)
(* % k elements are dropped and whole units of k counted when there are at *)
(* least two of them.                                                      *)
updateStatsBlock(xs, stats, k) ==
    LET step(acc, rle) ==
          LET us == acc.us + rle.val
              nr == rle.freq + 1
              sf == IF us = 1 THEN 0 ELSE (us - 2) % k
              ne == IF nr > sf THEN nr - sf ELSE 0
          IN  [st |-> IF rle.val = 1 /\ ne \div k >= 2
                      THEN AddStat(acc.st, 1, (ne \div k) * k) ELSE acc.st,
               us |-> us + rle.val * (rle.freq - 1)]
    IN  FoldLeft(step, [st |-> stats, us |-> 0], RLEncode(DeltaEncode(xs))).st

(* updateStats dispatches on isBlockType(spm->type) and ignores an empty xs. *)
updateStats(xs, stats, k) ==
    CASE xs = <<>> -> stats
      [] k # 0     -> updateStatsBlock(xs, stats, k)
      [] OTHER     -> updateStatsPlain(xs, stats)

-----------------------------------------------------------------------------
(* The sizes of the patterns the while loop of doEncode cuts from a run of *)
(* freq equal deltas: min(max_limit, freq) as long as freq >= min_limit.   *)
PatternChunksUncapped(freq) ==
    LET ch[n \in 0..freq] == IF n >= MinLimit THEN <<n>> ELSE <<>>
    IN  ch[freq]

PatternChunks(freq) ==
    LET ch[n \in 0..freq] ==
          IF n >= MinLimit THEN <<Lesser(MaxLimit, n)>> \o ch[n - Lesser(MaxLimit, n)]
          ELSE <<>>
    IN  ch[freq]

SumSeq(s) == FoldLeft(LAMBDA a, b : a + b, 0, s)

(* doEncode for a kind that is not a block kind, one rle at a time: a     *)
(* delta of deltas_set becomes patterns DeltaRLE(freq, val, type) at the   *)
(* column of their first element, the rest become scalar elements; col    *)
(* tracks the column and vi the value iterator.                            *)
EncodeRle(acc, rle, vs, ds, t) ==
    LET ch == IF rle.val \in ds THEN PatternChunks(rle.freq) ELSE <<>>
        P(j) == SumSeq(SubSeq(ch, 1, j - 1))
        nc == SumSeq(ch)
        pats == [j \in 1..Len(ch) |->
                   [x |-> acc.col + rle.val * (P(j) + 1),
                    pat |-> [size |-> ch[j], delta |-> rle.val, kind |-> t],
                    vals |-> SubSeq(vs, acc.vi + P(j), acc.vi + P(j) + ch[j] - 1)]]
        singles == [i \in 1..(rle.freq - nc) |->
                      Scalar(acc.col + rle.val * (nc + i), vs[acc.vi + nc + i - 1])]
    IN  [col |-> acc.col + rle.val * rle.freq,
         vi  |-> acc.vi + rle.freq,
         out |-> acc.out \o pats \o singles]

doEncodePlain(xs, vs, ds, t) ==
    FoldLeft(LAMBDA acc, rle : EncodeRle(acc, rle, vs, ds, t),
             [col |-> 0, vi |-> 1, out |-> <<>>], RLEncode(DeltaEncode(xs)))

(* skip_front of doEncodeBlock: a run that starts at column 1 is whole;   *)
(* any other run starts one element earlier, at zero-based column col - 2, *)
(* and that many elements modulo k are skipped.                            *)
SkipFrontOff(col, k) == IF col = 1 THEN 0 ELSE (col - 1) % k

SkipFront(col, k) == IF col = 1 THEN 0 ELSE (col - 2) % k

(* max_limit aligned down to a multiple of 2k. *)
AlignedMaxLimit(k) == (MaxLimit \div (2 * k)) * (2 * k)

(* doEncodeBlock, one rle at a time.  A run of delta 1 annexes the element *)
(* before it (pop_back, --vi) unless it starts at column 1, skips          *)
(* skip_front = (col - 2) % k elements at the front and nr_elem % k at the *)
(* back, and when at least 2k elements remain and 1 is in deltas_set      *)
(* emits blocks of at most max_limit aligned down to 2k; leftovers of that *)
(* alignment join the scalar elements at the back.                         *)
EncodeBlockRle(acc, rle, vs, ds, t) ==
    LET k   == IsBlockType(t)
        col == acc.col + rle.val
        sf  == SkipFront(col, k)
        ne0 == IF col = 1 THEN rle.freq ELSE rle.freq + 1
        ne1 == IF ne0 > sf THEN ne0 - sf ELSE 0
        sb  == ne1 % k
        ne  == IF ne1 > sb THEN ne1 - sb ELSE 0
        next == col + rle.val * (rle.freq - 1)
    IN  IF rle.val = 1 /\ 1 \in ds /\ ne >= 2 * k
        THEN LET rs   == IF col # 1 THEN col - 1 ELSE col
                 out0 == IF col # 1 THEN Front(acc.out) ELSE acc.out
                 vi0  == IF col # 1 THEN acc.vi - 1 ELSE acc.vi
                 ml   == AlignedMaxLimit(k)
                 nb0  == ne \div ml
                 neb  == Lesser(ml, ne)
                 nb   == IF nb0 = 0 THEN 1 ELSE nb0
                 sb2  == IF nb0 = 0 THEN sb ELSE sb + ne - neb * nb
                 vb   == vi0 + sf
                 front == [i \in 1..sf |-> Scalar(rs + i - 1, vs[vi0 + i - 1])]
                 blocks == [i \in 1..nb |->
                              [x |-> rs + sf + (i - 1) * neb,
                               pat |-> [size |-> neb, delta |-> 1, kind |-> t],
                               vals |-> SubSeq(vs, vb + (i - 1) * neb, vb + i * neb - 1)]]
                 back == [i \in 1..sb2 |->
                            Scalar(rs + sf + neb * nb + i - 1, vs[vb + nb * neb + i - 1])]
             IN  [col |-> next, vi |-> vb + nb * neb + sb2,
                  out |-> out0 \o front \o blocks \o back]
        ELSE [col |-> next, vi |-> acc.vi + rle.freq,
              out |-> acc.out \o [i \in 1..rle.freq |->
                                    Scalar(col + (i - 1) * rle.val, vs[acc.vi + i - 1])]]

doEncodeBlock(xs, vs, ds, t) ==
    FoldLeft(LAMBDA acc, rle : EncodeBlockRle(acc, rle, vs, ds, t),
             [col |-> 0, vi |-> 1, out |-> <<>>], RLEncode(DeltaEncode(xs)))

(* doEncode: the elements that replace xs / vs in the new row.  vi must    *)
(* end past the last value (assert(vi == vs.end())).                       *)
doEncode(xs, vs, ds, t) ==
    LET r == IF IsBlockType(t) # 0 THEN doEncodeBlock(xs, vs, ds, t)
             ELSE doEncodePlain(xs, vs, ds, t)
    IN  [out |-> r.out, ok |-> r.vi = Len(vs) + 1]
=============================================================================
