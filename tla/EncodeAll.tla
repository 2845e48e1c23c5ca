----------------------------- MODULE EncodeAll -----------------------------
(***************************************************************************)
(* The encoding loop of DRLE_Manager (patterns/drle.cc): EncodeAll repeats *)
(* genAllStats, chooseType and Encode(type) over one partition until no   *)
(* order is worth encoding.                                                *)
(*                                                                         *)
(* Between two calls the partition is in HORIZONTAL order (every call      *)
(* transforms it and transforms it back), so it is kept as the set of its  *)
(* elements in HORIZONTAL coordinates: [pos, pat, vals], where vals holds  *)
(* the original coordinates of the non-zeros the element stands for (one  *)
(* for a scalar element).  Viewing the partition in order t is            *)
(* GetXformFn(t, pos) for every element, which is what Transform(t) does   *)
(* to the arrays (modules Partition and PartitionPoints).                 *)
(***************************************************************************)
EXTENDS DeltaRLE, FiniteSets

CONSTANTS NR, NC,            \* the partition's nr_rows / nr_cols
          XformConfs,        \* the sets of orders XFORM_CONF may list
          PercNum, PercDen   \* min_perc = PercNum / PercDen

ASSUME EncodeAllAssumption ==
    /\ NR \in Nat \ {0} /\ NC \in Nat \ {0}
    /\ XformConfs \subseteq SUBSET (IterOrders \ {NONE})
    /\ PercNum \in Nat /\ PercDen \in Nat \ {0}

VARIABLES orig,           \* the non-zeros the partition was loaded with
          elems,          \* the elements of the partition
          xforms_ignore,  \* the orders genAllStats skips
          stats,          \* stats: order -> (delta -> nnz) of the last genAllStats
          deltas,         \* DeltasToEncode: order -> set of deltas
          phase           \* where EncodeAll is: "stats", "choose" or "done"

vars == <<orig, elems, xforms_ignore, stats, deltas, phase>>

Grid == [row : 1..NR, col : 1..NC]

Kinds == IterOrders \ {NONE}

ForcedIgnoreNoBR3 ==
    {HORIZONTAL, VERTICAL, DIAGONAL, REV_DIAGONAL}
      \cup {BLOCK_ROW(k) : k \in 4..8} \cup {BLOCK_COL(k) : k \in 2..8}

(* The orders genAllStats adds to xforms_ignore on every call: all but     *)
(* BLOCK_ROW_1, BLOCK_ROW_2 and BLOCK_COL_1.                               *)
ForcedIgnore ==
    {HORIZONTAL, VERTICAL, DIAGONAL, REV_DIAGONAL}
      \cup {BLOCK_ROW(k) : k \in 3..8} \cup {BLOCK_COL(k) : k \in 2..8}

AtUntransformed(t, u) == u.pos

(* The coordinates of element u once the partition is in order t. *)
At(t, u) == GetXformFn(t, u.pos, NR, NC)

(* Row r of the partition in order t, as PntIter walks it: by column. *)
RowUnits(t, r) ==
    LET S == {u \in elems : At(t, u).row = r}
    IN  [i \in 1..Cardinality(S) |->
           CHOOSE u \in S : Cardinality({v \in S : At(t, v).col < At(t, u).col}) = i - 1]

RowIds(t) == [i \in 1..(NR + NC) |-> i]

(* generateStats after Transform(t): the pattern-free columns of each row  *)
(* are gathered in xs and updateStats runs at every patterned element and  *)
(* at the end of the row.                                                  *)
generateStats(t) ==
    LET k == IsBlockType(t)
        step(acc, u) ==
          IF u.pat = NoPat THEN [acc EXCEPT !.xs = Append(@, At(t, u).col)]
          ELSE [xs |-> <<>>, st |-> updateStats(acc.xs, acc.st, k)]
        row(st, r) == LET fin == FoldLeft(step, [xs |-> <<>>, st |-> st], RowUnits(t, r))
                      IN  updateStats(fin.xs, fin.st, k)
    IN  FoldLeft(row, <<>>, RowIds(t))

(* The filter of genAllStats: a delta stays when nnz / spm->nnz is not     *)
(* below min_perc.                                                         *)
Kept(nnz) == nnz * PercDen >= PercNum * Cardinality(orig)

FilterStats(st) == [d \in {e \in DOMAIN st : Kept(st[e])} |-> st[d]]

(* getTypeNNZ: the non-zeros the kept deltas of t cover. *)
getTypeNNZ(t) == IF t \in DOMAIN stats THEN SumFunction(stats[t]) ELSE 0

(* chooseType: the first order, in enumeration order, with the largest     *)
(* getTypeNNZ, or NONE when every order has 0.                             *)
chooseType ==
    LET best == {t \in DOMAIN stats : /\ getTypeNNZ(t) > 0
                                      /\ \A u \in DOMAIN stats : getTypeNNZ(u) <= getTypeNNZ(t)}
    IN  IF best = {} THEN NONE ELSE CHOOSE t \in best : \A u \in best : t <= u

RestoreUnmapped(t, r, e) == [pos |-> [row |-> r, col |-> e.x], pat |-> e.pat, vals |-> e.vals]

(* An element e of the new row r: the Builder stores it in order t and     *)
(* Transform(oldtype) puts it back at its HORIZONTAL coordinates.          *)
Restore(t, r, e) ==
    [pos |-> GetRevXformFn(t, [row |-> r, col |-> e.x], NR, NC), pat |-> e.pat, vals |-> e.vals]

(* EncodeRow on row r in order t: pattern-free elements are gathered, a    *)
(* patterned element flushes them through doEncode and is copied; the     *)
(* elements of the new row are put back in HORIZONTAL coordinates.        *)
EncodeRow(t, r) ==
    LET flush(acc) == IF acc.xs = <<>> THEN acc.out
                      ELSE acc.out \o doEncode(acc.xs, acc.vs, deltas[t], t).out
        step(acc, u) ==
          IF u.pat = NoPat
          THEN [acc EXCEPT !.xs = Append(@, At(t, u).col), !.vs = Append(@, u.vals[1])]
          ELSE [xs |-> <<>>, vs |-> <<>>,
                out |-> Append(flush(acc), [x |-> At(t, u).col, pat |-> u.pat, vals |-> u.vals])]
        new == flush(FoldLeft(step, [xs |-> <<>>, vs |-> <<>>, out |-> <<>>], RowUnits(t, r)))
    IN  {Restore(t, r, e) : e \in Range(new)}

(* Encode(t) after Transform(t): every row replaced by its EncodeRow, the  *)
(* Builder rebuilding the partition; Transform(oldtype) brings it back.   *)
EncodeMatrix(t) == UNION {EncodeRow(t, r) : r \in 1..(NR + NC)}

(* The partition as spmv.cc's thread hands it to the manager: loaded in    *)
(* HORIZONTAL order, every element pattern-free, and every order but the   *)
(* ones XFORM_CONF lists ignored (ignoreAll, removeIgnore).                 *)
Init ==
    /\ orig \in SUBSET Grid
    /\ elems = {[pos |-> q, pat |-> NoPat, vals |-> <<q>>] : q \in orig}
    /\ \E conf \in XformConfs : xforms_ignore = Kinds \ conf
    /\ stats = <<>>
    /\ deltas = [t \in Kinds |-> {}]
    /\ phase = "stats"

(* genAllStats: the forced ignores, then for every order left the stats of *)
(* the partition in that order, filtered by min_perc; the kept deltas are  *)
(* added to DeltasToEncode, which is never cleared.                        *)
genAllStats ==
    LET ign  == xforms_ignore \cup ForcedIgnore
        live == Kinds \ ign
        st   == [t \in live |-> FilterStats(generateStats(t))]
    IN  /\ phase = "stats"
        /\ xforms_ignore' = ign
        /\ stats' = st
        /\ deltas' = [t \in Kinds |-> IF t \in live THEN deltas[t] \cup DOMAIN stats'[t]
                                                    ELSE deltas[t]]
        /\ phase' = "choose"
        /\ UNCHANGED <<orig, elems>>

addIgnoreNoop(t) == xforms_ignore

(* addIgnore: xforms_ignore.set(type). *)
addIgnore(t) == xforms_ignore \cup {t}

(* EncodeAll with a chosen order: Encode(type), which ends in addIgnore.   *)
Encode ==
    LET t == chooseType
    IN  /\ phase = "choose"
        /\ t # NONE
        /\ elems' = EncodeMatrix(t)
        /\ xforms_ignore' = addIgnore(t)
        /\ phase' = "stats"
        /\ UNCHANGED <<orig, stats, deltas>>

(* EncodeAll when chooseType returns NONE: the loop breaks. *)
Finish ==
    /\ phase = "choose"
    /\ chooseType = NONE
    /\ phase' = "done"
    /\ UNCHANGED <<orig, elems, xforms_ignore, stats, deltas>>

Next == genAllStats \/ Encode \/ Finish

(* EncodeAll is a sequential loop of one thread that never blocks: until  *)
(* it returns, its control moves on from genAllStats to chooseType and from *)
(* there to Encode or the break.  Every step of Next with phase # "done"    *)
(* moves phase, and one of them is enabled whenever phase # "done", so      *)
(* WF on Proceed is WF_vars(Next) for the behaviours of the loop; it names  *)
(* only the control, which spares TLC the evaluation of the statistics in  *)
(* ENABLED.                                                                 *)
Proceed == phase # "done" /\ phase' \in {"stats", "choose", "done"} \ {phase}

Spec == Init /\ [][Next]_vars /\ WF_phase(Proceed)

-----------------------------------------------------------------------------
(* The coordinates, in HORIZONTAL order, of the non-zeros element u stands *)
(* for: a pattern of size n and delta d covers n columns d apart in the   *)
(* order of its kind, starting at the element.                            *)
Covered(u) ==
    IF u.pat = NoPat THEN <<u.pos>>
    ELSE LET p == GetXformFn(u.pat.kind, u.pos, NR, NC)
         IN  [j \in 1..u.pat.size |->
                GetRevXformFn(u.pat.kind, [row |-> p.row, col |-> p.col + (j - 1) * u.pat.delta],
                              NR, NC)]

(* Type invariant. *)
TypeOK ==
    /\ orig \subseteq Grid
    /\ elems \subseteq [pos : Grid, pat : {NoPat} \cup [size : 1..(NR * NC), delta : 1..(NR * NC),
                                                      kind : Kinds],
                        vals : Seq(Grid)]
    /\ xforms_ignore \subseteq Kinds
    /\ \A t \in DOMAIN stats : t \in Kinds
    /\ deltas \in [Kinds -> SUBSET Nat]
    /\ phase \in {"stats", "choose", "done"}

(* Decodes: however many rounds EncodeAll has run, every element decodes,  *)
(* through its pattern, to exactly the non-zeros whose values it carries,  *)
(* and the elements cover every loaded non-zero once: no round of Encode   *)
(* (its transforms, the skips, annexes and splits of doEncode) loses,       *)
(* duplicates or moves a value.                                            *)
Decodes ==
    /\ \A u \in elems : u.vals = Covered(u)
    /\ \A u, v \in elems : u # v => Range(u.vals) \cap Range(v.vals) = {}
    /\ UNION {Range(u.vals) : u \in elems} = orig

(* BlockAligned: every block pattern EncodeAll leaves starts on a block    *)
(* boundary of its block row in its own order (the design's alignment).   *)
BlockAligned ==
    \A u \in elems :
        u.pat # NoPat /\ IsBlockType(u.pat.kind) # 0 =>
            (GetXformFn(u.pat.kind, u.pos, NR, NC).col - 1) % IsBlockType(u.pat.kind) = 0

(* Termination: the for (;;) of EncodeAll breaks, because every Encode      *)
(* adds its order to xforms_ignore and genAllStats only offers orders not   *)
(* ignored.                                                                 *)
Termination == <>(phase = "done")
=============================================================================
