------------------------------ MODULE ArraySeq ------------------------------
(***************************************************************************)
(* What a growable array promises its user: a sequence of values that      *)
(* grows by appending at its end and shrinks by truncation.  Capacity,     *)
(* reallocation and ownership of the buffer are invisible at this level.  *)
(***************************************************************************)
EXTENDS Naturals, Sequences

CONSTANT Vals

VARIABLE seq

Init == seq = <<>>

(* The value v is added at the end. *)
Push(v) == seq' = Append(seq, v)

(* The sequence keeps its first n values. *)
Truncate(n) == seq' = SubSeq(seq, 1, n)

Next == \/ \E v \in Vals : Push(v)
        \/ \E n \in 0..Len(seq) : Truncate(n)

Spec == Init /\ [][Next]_seq
=============================================================================
