---------------------------- MODULE DynamicArray ----------------------------
(***************************************************************************)
(* sparsex::utilities::DynamicArray (internals/DynamicArray.hpp): a        *)
(* growable buffer of elems_ with size_ constructed elements and room for *)
(* capacity_.  The memory is kept sparsely: buf maps the slots of the      *)
(* current allocation that hold a value, live is the set of slots holding  *)
(* a constructed element.  Resize's destroy loop runs one iteration per    *)
(* step, with its size_t counter i kept modulo 2^W, so that a loop that    *)
(* does not end can be seen.                                               *)
(***************************************************************************)
EXTENDS Naturals, FiniteSets

CONSTANTS Vals,        \* element values
          NoVal,       \* what an unwritten slot reads as
          InitCaps,    \* capacities the constructors may be given
          ResizeArgs,  \* nr_elems values of a direct Resize call
          MaxSize,     \* bound on size_ (number of Appends)
          W            \* width of size_t

Modulus == 2 ^ W

(* size_ is a size_t: it and every index fit in W bits.  That 2^W is a    *)
(* positive natural is stated for the prover, which cannot show it for    *)
(* every W.                                                                *)
ASSUME DynArrayAssumption ==
    /\ NoVal \notin Vals
    /\ InitCaps \subseteq Nat /\ ResizeArgs \subseteq Nat
    /\ MaxSize \in Nat /\ W \in Nat \ {0}
    /\ Modulus \in Nat \ {0} /\ MaxSize <= Modulus

(* The capacity Append re-initialises an array resized to zero with. *)
ReinitCap == 1024

VARIABLES buf,     \* slot -> value, for the slots of elems_ written
          live,    \* the slots holding a constructed element
          size,    \* size_
          cap,     \* capacity_
          own,     \* own_elems_
          pc,      \* "idle", "shrink" (inside Resize's loop) or "dead"
          i,       \* the loop counter of Resize
          target,  \* nr_elems of the Resize in progress
          wild     \* an element was destroyed or built outside live / the buffer

vars == <<buf, live, size, cap, own, pc, i, target, wild>>

(* Both constructors: a buffer of the given capacity, allocated by the     *)
(* array (own_elems_ true) or handed in as storage (false), no element.   *)
Init ==
    /\ cap \in InitCaps
    /\ own \in BOOLEAN
    /\ buf = [s \in {} |-> NoVal]
    /\ live = {}
    /\ size = 0
    /\ pc = "idle"
    /\ i = 0
    /\ target = 0
    /\ wild = FALSE

ReallocKeepAll(n) == buf

ReallocShort(n) == [s \in {k \in DOMAIN buf : k + 1 < n} |-> buf[s]]

(* reallocate(capacity_, nr_elems, elems_): a buffer of n slots holding    *)
(* the first min(capacity_, n) slots of the old one.                       *)
Realloc(n) == [s \in {k \in DOMAIN buf : k < n} |-> buf[s]]

GrownCapSame == IF cap = 0 THEN ReinitCap ELSE cap

(* The capacity Append grows a full array to. *)
GrownCap == IF cap = 0 THEN ReinitCap ELSE 2 * cap

PrevStuck(k) == k

(* --i on a size_t. *)
Prev(k) == (k + Modulus - 1) % Modulus

(* Append (both overloads): a full array is resized to GrownCap first;     *)
(* then val is constructed at elems_[size_] and size_ grows.               *)
Append(v) ==
    LET c  == IF size = cap THEN GrownCap ELSE cap
        b  == IF size = cap THEN Realloc(c) ELSE buf
    IN  /\ pc = "idle"
        /\ size < MaxSize
        /\ cap' = c
        /\ IF size < c
           THEN /\ buf' = [s \in DOMAIN b \cup {size} |-> IF s = size THEN v ELSE b[s]]
                /\ live' = live \cup {size}
                /\ UNCHANGED wild
           ELSE /\ buf' = b
                /\ UNCHANGED live
                /\ wild' = TRUE
        /\ size' = size + 1
        /\ UNCHANGED <<own, pc, i, target>>

(* The end of Resize(n): size_ and capacity_ become n on a buffer          *)
(* reallocated to n slots.                                                 *)
Finish(n) ==
    /\ buf' = Realloc(n)
    /\ size' = IF n < size THEN n ELSE size
    /\ cap' = n
    /\ pc' = "idle"

(* Resize(nr_elems): when it shrinks, the loop destroys elems_[size_ - 1]  *)
(* down to elems_[nr_elems]; otherwise the buffer is reallocated at once.  *)
Resize(n) ==
    /\ pc = "idle"
    /\ IF n < size
       THEN /\ pc' = "shrink"
            /\ i' = (size - 1) % Modulus
            /\ target' = n
            /\ UNCHANGED <<buf, size, cap>>
       ELSE /\ Finish(n)
            /\ UNCHANGED <<i, target>>
    /\ UNCHANGED <<live, own, wild>>

(* One iteration of for (size_t i = size_-1; i >= nr_elems; --i): destroy  *)
(* elems_[i]; when i < nr_elems the loop is left and the buffer shrunk.    *)
ResizeStep ==
    /\ pc = "shrink"
    /\ IF i >= target
       THEN /\ live' = live \ {i}
            /\ wild' = (wild \/ i \notin live)
            /\ i' = Prev(i)
            /\ UNCHANGED <<buf, size, cap, pc>>
       ELSE /\ Finish(target)
            /\ UNCHANGED <<live, wild, i>>
    /\ UNCHANGED <<own, target>>

(* ShrinkToFit: Resize(size_), which never enters the loop. *)
ShrinkToFit ==
    /\ pc = "idle"
    /\ Finish(size)
    /\ UNCHANGED <<live, own, i, target, wild>>

(* TakeElems: ShrinkToFit, then the buffer belongs to the caller. *)
TakeElems ==
    /\ pc = "idle"
    /\ Finish(size)
    /\ own' = FALSE
    /\ UNCHANGED <<live, i, target, wild>>

(* The destructor: an owned buffer has its size_ elements destroyed and is *)
(* deallocated; storage the array does not own is left alone.              *)
Destroy ==
    /\ pc = "idle"
    /\ pc' = "dead"
    /\ live' = IF own THEN live \ (0..(size - 1)) ELSE live
    /\ wild' = (wild \/ (own /\ ~(0..(size - 1) \subseteq live)))
    /\ UNCHANGED <<buf, size, cap, own, i, target>>

Next ==
    \/ \E v \in Vals : Append(v)
    \/ \E n \in ResizeArgs : Resize(n)
    \/ ResizeStep
    \/ ShrinkToFit
    \/ TakeElems
    \/ Destroy

(* Resize's loop runs inside one call: once entered it keeps iterating. *)
Spec == Init /\ [][Next]_vars /\ WF_vars(ResizeStep)

-----------------------------------------------------------------------------
(* What operator[] reads at positions 0 .. size_ - 1. *)
Contents == [j \in 1..size |-> IF j - 1 \in DOMAIN buf THEN buf[j - 1] ELSE NoVal]

(* Type invariant; the memory written lies inside the allocation. *)
TypeOK ==
    /\ DOMAIN buf \subseteq 0..(cap - 1)
    /\ \A s \in DOMAIN buf : buf[s] \in Vals
    /\ live \subseteq Nat
    /\ size \in 0..MaxSize /\ cap \in Nat
    /\ own \in BOOLEAN
    /\ pc \in {"idle", "shrink", "dead"}
    /\ i \in 0..(Modulus - 1) /\ target \in Nat
    /\ wild \in BOOLEAN

(* Intact: no element is ever constructed outside the buffer or destroyed  *)
(* when it was not constructed (Append's growth, Resize's destroy loop and *)
(* the destructor agree on which slots are live), and between calls the    *)
(* live slots are exactly 0 .. size_ - 1 of a buffer with room for them.   *)
Intact ==
    /\ ~wild
    /\ pc = "idle" => live = 0..(size - 1) /\ size <= cap

(* ResizeReturns: every Resize call that enters its destroy loop leaves it. *)
ResizeReturns == (pc = "shrink") ~> (pc = "idle")

(* The array seen through operator[] is a sequence that only grows at its  *)
(* end and shrinks by truncation: no Append, Resize, ShrinkToFit or        *)
(* TakeElems loses, reorders or changes a value it keeps.                   *)
Abstract == INSTANCE ArraySeq WITH seq <- Contents

Refines == Abstract!Spec
=============================================================================
