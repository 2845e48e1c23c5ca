------------------------- MODULE DynamicArrayProofs -------------------------
(***************************************************************************)
(* Proofs about DynamicArray, for every capacity, value set, bound on the *)
(* size and width of size_t: the type invariant, the integrity of the     *)
(* constructed elements when Resize is never called with 0, and that the  *)
(* array implements ArraySeq.                                              *)
(***************************************************************************)
EXTENDS DynamicArray, TLAPS

(* The sequence operators, under a prefix: Append is the array's action. *)
S == INSTANCE Sequences
ST == INSTANCE SequenceTheorems

(* The type invariant is not inductive by itself: Append stays inside the *)
(* buffer only because size_ never exceeds capacity_, and the exit of     *)
(* Resize's loop shrinks only because the loop was entered with           *)
(* nr_elems < size_.                                                       *)
TInv ==
    /\ TypeOK
    /\ size <= cap
    /\ pc = "shrink" => target < size

(* Intact is not inductive either: inside Resize's loop the live slots    *)
(* are exactly 0 .. i, and i stays at or above nr_elems - 1 >= 0, which   *)
(* holds when nr_elems is never 0.                                         *)
IInv ==
    /\ TInv
    /\ ~wild
    /\ pc = "idle" => live = 0..(size - 1)
    /\ pc = "shrink" => /\ 1 <= target /\ target - 1 <= i /\ i < size
                        /\ live = 0..i
-----------------------------------------------------------------------------
(* reallocate keeps exactly the written slots below the new capacity. *)
LEMMA ReallocFacts ==
    ASSUME NEW n \in Nat, \A s \in DOMAIN buf : buf[s] \in Vals
    PROVE  /\ DOMAIN Realloc(n) = {k \in DOMAIN buf : k < n}
           /\ \A s \in DOMAIN Realloc(n) : Realloc(n)[s] = buf[s] /\ buf[s] \in Vals
BY DEF Realloc

(* The capacity Append grows a full array to exceeds its size. *)
LEMMA GrownCapFacts == ASSUME cap \in Nat PROVE GrownCap \in Nat /\ GrownCap > cap
BY DEF GrownCap, ReinitCap

(* The end of Resize(n) with n < size_ or n >= size_ leaves TInv, whoever *)
(* owns the buffer afterwards.                                             *)
LEMMA FinishTInv ==
    ASSUME TInv, NEW n \in Nat, Finish(n), UNCHANGED <<live, i, target, wild>>,
           own' \in BOOLEAN
    PROVE  TInv'
<1>1. DOMAIN buf' \subseteq 0..(cap' - 1)
    BY DEF Finish, Realloc, TInv, TypeOK
<1>2. \A s \in DOMAIN buf' : buf'[s] \in Vals
    BY DEF Finish, Realloc, TInv, TypeOK
<1>3. size' \in 0..MaxSize /\ size' <= cap' /\ cap' \in Nat /\ pc' = "idle"
    BY DynArrayAssumption DEF Finish, TInv, TypeOK
<1>. QED
    BY <1>1, <1>2, <1>3 DEF TInv, TypeOK

(* Append writes slot size_ of a buffer whose slots lie below capacity_  *)
(* c > size_: the step Append takes once its capacity and buffer are      *)
(* chosen.                                                                 *)
LEMMA WriteTInv ==
    ASSUME TInv, NEW v \in Vals, NEW c \in Nat, NEW b,
           size < c, size < MaxSize,
           DOMAIN b \subseteq 0..(c - 1), \A s \in DOMAIN b : b[s] \in Vals,
           buf' = [s \in DOMAIN b \cup {size} |-> IF s = size THEN v ELSE b[s]],
           cap' = c, size' = size + 1, live' = live \cup {size},
           UNCHANGED <<own, pc, i, target, wild>>
    PROVE  TInv'
<1>1. DOMAIN buf' \subseteq 0..(cap' - 1)
    BY DEF TInv, TypeOK
<1>2. \A s \in DOMAIN buf' : buf'[s] \in Vals
    OBVIOUS
<1>. QED
    BY <1>1, <1>2, DynArrayAssumption DEF TInv, TypeOK

(* Append writes inside the buffer, grown first when it is full. *)
LEMMA AppendTInv == ASSUME TInv, NEW v \in Vals, Append(v) PROVE TInv'
<1>1. CASE size = cap
    <2>1. GrownCap \in Nat /\ size < GrownCap
        BY <1>1, GrownCapFacts DEF TInv, TypeOK
    <2>2. /\ DOMAIN Realloc(GrownCap) \subseteq 0..(GrownCap - 1)
          /\ \A s \in DOMAIN Realloc(GrownCap) : Realloc(GrownCap)[s] \in Vals
        BY <2>1 DEF Realloc, TInv, TypeOK
    <2>3. /\ buf' = [s \in DOMAIN Realloc(GrownCap) \cup {size} |->
                       IF s = size THEN v ELSE Realloc(GrownCap)[s]]
          /\ cap' = GrownCap /\ size' = size + 1 /\ live' = live \cup {size}
          /\ size < MaxSize /\ UNCHANGED <<own, pc, i, target, wild>>
        BY <1>1, <2>1 DEF Append
    <2>. QED
        BY <2>1, <2>2, <2>3, WriteTInv
<1>2. CASE size # cap
    <2>1. cap \in Nat /\ size < cap
        BY <1>2 DEF TInv, TypeOK
    <2>2. /\ buf' = [s \in DOMAIN buf \cup {size} |-> IF s = size THEN v ELSE buf[s]]
          /\ cap' = cap /\ size' = size + 1 /\ live' = live \cup {size}
          /\ size < MaxSize /\ UNCHANGED <<own, pc, i, target, wild>>
        BY <1>2, <2>1 DEF Append
    <2>. QED
        BY <2>1, <2>2, WriteTInv DEF TInv, TypeOK
<1>. QED
    BY <1>1, <1>2

(* Resize either enters its loop with nr_elems < size_ or finishes. *)
LEMMA ResizeTInv == ASSUME TInv, NEW n \in ResizeArgs, Resize(n) PROVE TInv'
<1>1. n \in Nat
    BY DynArrayAssumption
<1>2. CASE n < size
    <2>1. (size - 1) % Modulus \in 0..(Modulus - 1)
        BY <1>2, DynArrayAssumption DEF TInv, TypeOK
    <2>. QED
        BY DynArrayAssumption, <1>2, <2>1 DEF Resize, TInv, TypeOK
<1>3. CASE ~(n < size)
    <2>1. /\ Finish(n) /\ own' \in BOOLEAN
          /\ UNCHANGED <<live, i, target, wild>>
        BY <1>3 DEF Resize, TInv, TypeOK
    <2>. QED
        BY <1>1, <2>1, FinishTInv
<1>. QED
    BY <1>2, <1>3

(* One iteration of the destroy loop, or its exit. *)
LEMMA ResizeStepTInv == ASSUME TInv, ResizeStep PROVE TInv'
<1>1. CASE i >= target
    <2>1. Prev(i) \in 0..(Modulus - 1)
        BY DynArrayAssumption DEF Prev, TInv, TypeOK
    <2>. QED
        BY DynArrayAssumption, <1>1, <2>1 DEF ResizeStep, TInv, TypeOK
<1>2. CASE ~(i >= target)
    <2>1. /\ target \in Nat /\ Finish(target) /\ own' \in BOOLEAN
          /\ UNCHANGED <<live, i, target, wild>>
        BY <1>2 DEF ResizeStep, TInv, TypeOK
    <2>. QED
        BY <2>1, FinishTInv
<1>. QED
    BY <1>1, <1>2

(* TInv is inductive. *)
LEMMA NextTInv == TInv /\ [Next]_vars => TInv'
<1> SUFFICES ASSUME TInv, [Next]_vars PROVE TInv'
    OBVIOUS
<1>1. CASE \E v \in Vals : Append(v)
    BY <1>1, AppendTInv
<1>2. CASE \E n \in ResizeArgs : Resize(n)
    BY <1>2, ResizeTInv
<1>3. CASE ResizeStep
    BY <1>3, ResizeStepTInv
<1>4. CASE ShrinkToFit
    <2>1. /\ size \in Nat /\ Finish(size) /\ own' \in BOOLEAN
          /\ UNCHANGED <<live, i, target, wild>>
        BY <1>4 DEF ShrinkToFit, TInv, TypeOK
    <2>. QED
        BY <2>1, FinishTInv
<1>7. CASE TakeElems
    <2>1. size \in Nat
        BY DEF TInv, TypeOK
    <2>2. Finish(size) /\ own' \in BOOLEAN /\ UNCHANGED <<live, i, target, wild>>
        BY <1>7, Zenon DEF TakeElems
    <2>. QED
        BY <2>1, <2>2, FinishTInv
<1>5. CASE Destroy
    <2>1. /\ pc' = "dead" /\ live' \subseteq live /\ wild' \in BOOLEAN
          /\ UNCHANGED <<buf, size, cap, own, i, target>>
        BY <1>5 DEF Destroy, TInv, TypeOK
    <2>. QED
        BY <2>1 DEF TInv, TypeOK
<1>6. CASE UNCHANGED vars
    BY <1>6 DEF vars, TInv, TypeOK
<1>. QED
    BY <1>1, <1>2, <1>3, <1>4, <1>5, <1>6, <1>7 DEF Next

(* Both constructors establish TInv. *)
LEMMA InitTInv == Init => TInv
<1> SUFFICES ASSUME Init PROVE TInv
    OBVIOUS
<1>1. DOMAIN buf = {}
    BY Zenon DEF Init
<1>2. own \in BOOLEAN /\ wild \in BOOLEAN /\ pc \in {"idle", "shrink", "dead"}
    BY Zenon DEF Init
<1>3. /\ live \subseteq Nat /\ size \in 0..MaxSize /\ cap \in Nat /\ size <= cap
      /\ i \in 0..(Modulus - 1) /\ target \in Nat
    BY DynArrayAssumption DEF Init
<1>. QED
    BY <1>1, <1>2, <1>3 DEF Init, TInv, TypeOK

(* Theorem: whatever the calls, every written slot lies inside the        *)
(* current allocation (Append grows a full array before it writes,        *)
(* reallocate keeps only slots below the new capacity) and Resize's       *)
(* size_t counter stays a W-bit value.                                     *)
THEOREM TypeCorrect == Spec => []TypeOK
<1>1. Init => TInv
    BY InitTInv
<1>2. TInv => TypeOK
    BY DEF TInv
<1>. QED
    BY <1>1, <1>2, NextTInv, PTL DEF Spec
-----------------------------------------------------------------------------
(* Intact.  From here on Resize is never called with nr_elems = 0: with 0  *)
(* its size_t loop counter wraps past 0 and the loop destroys slots that   *)
(* were never built (the run dynarray_resize0 shows it).                   *)

(* The end of a Resize (or ShrinkToFit, TakeElems) that leaves exactly    *)
(* the slots below the new size_ live keeps IInv.                          *)
LEMMA FinishIInv ==
    ASSUME IInv, NEW n \in Nat, Finish(n), UNCHANGED <<live, i, target, wild>>,
           own' \in BOOLEAN, live = 0..((IF n < size THEN n ELSE size) - 1)
    PROVE  IInv'
<1>1. TInv'
    BY FinishTInv DEF IInv
<1>2. pc' = "idle" /\ live' = 0..(size' - 1)
    BY DEF Finish
<1>3. ~wild'
    BY Zenon DEF IInv
<1>. QED
    BY <1>1, <1>2, <1>3 DEF IInv

(* Append constructs its element at slot size_, just past the live ones. *)
LEMMA AppendIInv == ASSUME IInv, NEW v \in Vals, Append(v) PROVE IInv'
<1>1. TInv'
    BY AppendTInv DEF IInv
<1>2. size < (IF size = cap THEN GrownCap ELSE cap)
    BY GrownCapFacts DEF IInv, TInv, TypeOK
<1>3. live' = live \cup {size} /\ size' = size + 1 /\ pc' = "idle" /\ pc = "idle"
    BY <1>2 DEF Append
<1>4. live' = 0..(size' - 1)
    BY <1>3 DEF IInv, TInv, TypeOK
<1>5. ~wild'
    BY <1>2, Zenon DEF Append, IInv
<1>. QED
    BY <1>1, <1>3, <1>4, <1>5 DEF IInv

(* Resize(nr_elems) with 1 <= nr_elems < size_ starts its loop at         *)
(* size_ - 1, the last live slot.                                          *)
LEMMA ResizeIInv ==
    ASSUME IInv, 0 \notin ResizeArgs, NEW n \in ResizeArgs, Resize(n) PROVE IInv'
<1>1. TInv'
    BY ResizeTInv DEF IInv
<1>2. n \in Nat \ {0} /\ pc = "idle"
    BY DynArrayAssumption DEF Resize
<1>3. CASE n < size
    <2>1. (size - 1) % Modulus = size - 1
        BY <1>3, <1>2, DynArrayAssumption DEF IInv, TInv, TypeOK
    <2>2. /\ pc' = "shrink" /\ i' = size - 1 /\ target' = n
          /\ UNCHANGED <<live, size>>
        BY <1>3, <2>1 DEF Resize
    <2>3. /\ 1 <= target' /\ target' - 1 <= i' /\ i' < size'
          /\ live' = 0..i'
        BY <1>2, <1>3, <2>2 DEF IInv, TInv, TypeOK
    <2>4. ~wild'
        BY Zenon DEF Resize, IInv
    <2>. QED
        BY <1>1, <2>2, <2>3, <2>4 DEF IInv
<1>4. CASE ~(n < size)
    <2>1. Finish(n) /\ own' \in BOOLEAN /\ UNCHANGED <<live, i, target, wild>>
        BY <1>4, Zenon DEF Resize, IInv, TInv, TypeOK
    <2>2. live = 0..((IF n < size THEN n ELSE size) - 1)
        BY <1>2, <1>4 DEF IInv
    <2>. QED
        BY <1>2, <2>1, <2>2, FinishIInv
<1>. QED
    BY <1>3, <1>4

(* An iteration of the loop destroys slot i, which is live because i     *)
(* never drops below nr_elems >= 1; the exit leaves 0 .. nr_elems - 1.    *)
LEMMA ResizeStepIInv ==
    ASSUME IInv, ResizeStep PROVE IInv'
<1>1. TInv'
    BY ResizeStepTInv DEF IInv
<1>2. /\ pc = "shrink" /\ 1 <= target /\ target - 1 <= i /\ i < size
      /\ live = 0..i /\ i \in Nat /\ target \in Nat /\ target < size
      /\ size \in 0..MaxSize
    BY DEF ResizeStep, IInv, TInv, TypeOK
<1>3. CASE i >= target
    <2>1. Prev(i) = i - 1
        BY <1>2, <1>3, DynArrayAssumption DEF Prev
    <2>2. /\ live' = live \ {i} /\ i' = i - 1 /\ pc' = "shrink"
          /\ UNCHANGED <<size, target>>
        BY <1>3, <2>1 DEF ResizeStep
    <2>3. 1 <= target' /\ target' - 1 <= i' /\ i' < size'
        BY <1>2, <1>3, <2>2
    <2>6. live' = 0..i'
        <3>1. live \ {i} = 0..(i - 1)
            BY <1>2
        <3>. QED
            BY <2>2, <3>1
    <2>4. i \in live
        BY <1>2, <1>3
    <2>5. ~wild'
        BY <1>3, <2>4, Zenon DEF ResizeStep, IInv
    <2>. QED
        BY <1>1, <2>2, <2>3, <2>5, <2>6 DEF IInv
<1>4. CASE ~(i >= target)
    <2>1. Finish(target) /\ own' \in BOOLEAN /\ UNCHANGED <<live, i, target, wild>>
        BY <1>4, Zenon DEF ResizeStep, IInv, TInv, TypeOK
    <2>2. live = 0..((IF target < size THEN target ELSE size) - 1)
        BY <1>2, <1>4
    <2>. QED
        BY <1>2, <2>1, <2>2, FinishIInv
<1>. QED
    BY <1>3, <1>4
(* The destructor destroys 0 .. size_ - 1, all of them live. *)
LEMMA DestroyIInv == ASSUME IInv, Destroy PROVE IInv'
<1>1. TInv'
    <2>1. /\ pc' = "dead" /\ live' \subseteq live /\ wild' \in BOOLEAN
          /\ UNCHANGED <<buf, size, cap, own, i, target>>
        BY DEF Destroy, IInv, TInv, TypeOK
    <2>. QED
        BY <2>1 DEF IInv, TInv, TypeOK
<1>2. 0..(size - 1) \subseteq live
    BY DEF Destroy, IInv
<1>3. ~wild'
    BY <1>2, Zenon DEF Destroy, IInv
<1>4. pc' = "dead"
    BY DEF Destroy
<1>. QED
    BY <1>1, <1>3, <1>4 DEF IInv

(* IInv is inductive when Resize is never called with 0. *)
LEMMA NextIInv ==
    ASSUME 0 \notin ResizeArgs PROVE IInv /\ [Next]_vars => IInv'
<1> SUFFICES ASSUME IInv, [Next]_vars PROVE IInv'
    OBVIOUS
<1>1. CASE \E v \in Vals : Append(v)
    BY <1>1, AppendIInv
<1>2. CASE \E n \in ResizeArgs : Resize(n)
    BY <1>2, ResizeIInv
<1>3. CASE ResizeStep
    BY <1>3, ResizeStepIInv
<1>4. CASE ShrinkToFit
    <2>1. size \in Nat /\ live = 0..((IF size < size THEN size ELSE size) - 1)
        BY <1>4 DEF ShrinkToFit, IInv, TInv, TypeOK
    <2>2. Finish(size) /\ own' \in BOOLEAN /\ UNCHANGED <<live, i, target, wild>>
        BY <1>4, Zenon DEF ShrinkToFit, IInv, TInv, TypeOK
    <2>. QED
        BY <2>1, <2>2, FinishIInv
<1>5. CASE TakeElems
    <2>1. size \in Nat /\ live = 0..((IF size < size THEN size ELSE size) - 1)
        BY <1>5 DEF TakeElems, IInv, TInv, TypeOK
    <2>2. Finish(size) /\ own' \in BOOLEAN /\ UNCHANGED <<live, i, target, wild>>
        BY <1>5, Zenon DEF TakeElems
    <2>. QED
        BY <2>1, <2>2, FinishIInv
<1>6. CASE Destroy
    BY <1>6, DestroyIInv
<1>7. CASE UNCHANGED vars
    <2>1. TInv'
        BY <1>7, NextTInv DEF IInv
    <2>2. ~wild'
        BY <1>7, Zenon DEF vars, IInv
    <2>. QED
        BY <1>7, <2>1, <2>2 DEF vars, IInv
<1>. QED
    BY <1>1, <1>2, <1>3, <1>4, <1>5, <1>6, <1>7 DEF Next

(* Theorem: when Resize is never called with nr_elems = 0, no element is  *)
(* ever constructed outside the buffer or destroyed without having been   *)
(* constructed, and between calls exactly the slots 0 .. size_ - 1 are    *)
(* live inside the allocation: Append's growth, Resize's destroy loop and *)
(* the destructor agree on the live slots.                                 *)
THEOREM IntactInvariant ==
    ASSUME 0 \notin ResizeArgs PROVE Spec => []Intact
<1>1. Init => IInv
    <2> SUFFICES ASSUME Init PROVE IInv
        OBVIOUS
    <2>1. TInv
        BY InitTInv
    <2>. QED
        BY <2>1 DEF Init, IInv
<1>2. IInv => Intact
    BY DEF IInv, TInv, Intact
<1>. QED
    BY <1>1, <1>2, NextIInv, PTL DEF Spec
-----------------------------------------------------------------------------
(* Refinement: what operator[] reads is an ArraySeq sequence, for every   *)
(* argument of Resize (with nr_elems = 0 the loop never ends, but it       *)
(* leaves elems_ and size_ alone, so what can be read does not change).   *)

(* A step that keeps the first m slots of the buffer, written or not, and  *)
(* sets size_ to m leaves the first m values read.                          *)
LEMMA KeepPrefix ==
    ASSUME NEW m \in Nat, m <= size, size \in Nat, size' = m,
           \A k \in 0..(m - 1) : /\ k \in DOMAIN buf' <=> k \in DOMAIN buf
                                 /\ k \in DOMAIN buf => buf'[k] = buf[k]
    PROVE  Contents' = [j \in 1..m |-> Contents[j]]
<1>1. Contents' = [j \in 1..m |-> IF j - 1 \in DOMAIN buf' THEN buf'[j - 1] ELSE NoVal]
    BY DEF Contents
<1>2. ASSUME NEW j \in 1..m
      PROVE  (IF j - 1 \in DOMAIN buf' THEN buf'[j - 1] ELSE NoVal) = Contents[j]
    <2>1. j - 1 \in 0..(m - 1) /\ j \in 1..size
        OBVIOUS
    <2>2. Contents[j] = IF j - 1 \in DOMAIN buf THEN buf[j - 1] ELSE NoVal
        BY <2>1 DEF Contents
    <2>. QED
        BY <2>1, <2>2
<1>. QED
    BY <1>1, <1>2

(* Reallocating to n slots keeps every slot below n. *)
LEMMA ReallocKeeps ==
    ASSUME NEW n \in Nat, buf' = Realloc(n)
    PROVE  \A k \in 0..(n - 1) : /\ k \in DOMAIN buf' <=> k \in DOMAIN buf
                                 /\ k \in DOMAIN buf => buf'[k] = buf[k]
BY DEF Realloc

(* The end of Resize(n) truncates what is read to min(n, size_). *)
LEMMA FinishContents ==
    ASSUME TInv, NEW n \in Nat, Finish(n)
    PROVE  Contents' = [j \in 1..(IF n < size THEN n ELSE size) |-> Contents[j]]
<1> DEFINE m == IF n < size THEN n ELSE size
<1>1. m \in Nat /\ m <= size /\ m <= n /\ size' = m /\ size \in Nat
    BY DEF Finish, TInv, TypeOK
<1>2. buf' = Realloc(n)
    BY DEF Finish
<1>3. \A k \in 0..(m - 1) : /\ k \in DOMAIN buf' <=> k \in DOMAIN buf
                            /\ k \in DOMAIN buf => buf'[k] = buf[k]
    BY <1>1, <1>2, ReallocKeeps
<1>. QED
    BY <1>1, <1>3, KeepPrefix

(* What is read is a sequence of size_ values. *)
LEMMA ContentsSeq ==
    ASSUME size \in Nat, \A s \in DOMAIN buf : buf[s] \in Vals
    PROVE  /\ Contents \in S!Seq(Vals \cup {NoVal})
           /\ S!Len(Contents) = size
           /\ Contents = [j \in 1..size |-> Contents[j]]
<1>1. Contents \in [1..size -> Vals \cup {NoVal}]
    BY DEF Contents
<1>2. Contents \in S!Seq(Vals \cup {NoVal}) /\ S!Len(Contents) = size
    BY <1>1
<1>3. Contents = [j \in 1..size |-> Contents[j]]
    BY DEF Contents
<1>. QED
    BY <1>2, <1>3

(* Keeping the first n <= size_ values is ArraySeq's Truncate(n), and     *)
(* keeping all of them is a stutter.                                       *)
LEMMA PrefixStep ==
    ASSUME size \in Nat, \A s \in DOMAIN buf : buf[s] \in Vals, NEW n \in 0..size,
           Contents' = [j \in 1..n |-> Contents[j]]
    PROVE  [Abstract!Next]_Contents
<1>1. n \in 0..S!Len(Contents) /\ Contents' = S!SubSeq(Contents, 1, n)
    BY ContentsSeq
<1>. QED
    BY <1>1 DEF Abstract!Next, Abstract!Truncate

(* A step that keeps the first size_ slots and writes v at slot size_ as  *)
(* size_ grows by one appends v to what is read.                          *)
LEMMA WriteContents ==
    ASSUME size \in Nat, \A s \in DOMAIN buf : buf[s] \in Vals, NEW v \in Vals,
           size' = size + 1, size \in DOMAIN buf', buf'[size] = v,
           \A k \in 0..(size - 1) : /\ k \in DOMAIN buf' <=> k \in DOMAIN buf
                                    /\ k \in DOMAIN buf => buf'[k] = buf[k]
    PROVE  Contents' = S!Append(Contents, v)
<1>1. Contents' = [j \in 1..(size + 1) |-> IF j <= size THEN Contents[j] ELSE v]
    BY DEF Contents
<1>2. Contents \in S!Seq(Vals \cup {NoVal}) /\ S!Len(Contents) = size
    BY ContentsSeq
<1>3. S!Append(Contents, v) = [j \in 1..(size + 1) |-> IF j <= size THEN Contents[j] ELSE v]
    <2>1. /\ S!Append(Contents, v) \in S!Seq(Vals \cup {NoVal})
          /\ S!Len(S!Append(Contents, v)) = size + 1
          /\ \A j \in 1..size : S!Append(Contents, v)[j] = Contents[j]
          /\ S!Append(Contents, v)[size + 1] = v
        BY <1>2
    <2>2. DOMAIN S!Append(Contents, v) = 1..(size + 1)
        BY <2>1
    <2>3. \A j \in 1..(size + 1) :
              S!Append(Contents, v)[j] = IF j <= size THEN Contents[j] ELSE v
        BY <2>1
    <2>4. S!Append(Contents, v) \in [1..(size + 1) -> Vals \cup {NoVal}]
        BY <2>1, ST!LenProperties
    <2>. QED
        BY <2>2, <2>3, <2>4, Zenon
<1>. QED
    BY <1>1, <1>3

(* Append is ArraySeq's Push: growing the buffer keeps every live value. *)
LEMMA AppendRefines ==
    ASSUME TInv, NEW v \in Vals, Append(v) PROVE Contents' = S!Append(Contents, v)
<1>1. size \in Nat /\ \A s \in DOMAIN buf : buf[s] \in Vals
    BY DEF TInv, TypeOK
<1>2. CASE size = cap
    <2>1. GrownCap \in Nat /\ size < GrownCap
        BY <1>2, GrownCapFacts DEF TInv, TypeOK
    <2>2. /\ buf' = [s \in DOMAIN Realloc(GrownCap) \cup {size} |->
                       IF s = size THEN v ELSE Realloc(GrownCap)[s]]
          /\ size' = size + 1
        BY <1>2, <2>1 DEF Append
    <2>3. \A k \in 0..(GrownCap - 1) :
              /\ k \in DOMAIN Realloc(GrownCap) <=> k \in DOMAIN buf
              /\ k \in DOMAIN buf => Realloc(GrownCap)[k] = buf[k]
        BY <2>1 DEF Realloc
    <2>. QED
        BY <1>1, <2>1, <2>2, <2>3, WriteContents
<1>3. CASE size # cap
    <2>1. size < cap
        BY <1>3 DEF TInv, TypeOK
    <2>2. /\ buf' = [s \in DOMAIN buf \cup {size} |-> IF s = size THEN v ELSE buf[s]]
          /\ size' = size + 1
        BY <1>3, <2>1 DEF Append, TInv, TypeOK
    <2>. QED
        BY <1>1, <2>2, WriteContents
<1>. QED
    BY <1>2, <1>3

(* A step that changes neither elems_ nor size_ is a stutter of ArraySeq. *)
LEMMA SameContents ==
    ASSUME UNCHANGED <<buf, size>> PROVE Contents' = Contents
BY DEF Contents

(* Every step of the array is a step of ArraySeq or leaves what is read   *)
(* unchanged.                                                              *)
LEMMA StepRefines == TInv /\ [Next]_vars => [Abstract!Next]_Contents
<1> SUFFICES ASSUME TInv, [Next]_vars PROVE [Abstract!Next]_Contents
    OBVIOUS
<1>0. size \in Nat /\ \A s \in DOMAIN buf : buf[s] \in Vals
    BY DEF TInv, TypeOK
<1>1. CASE \E v \in Vals : Append(v)
    <2>1. PICK v \in Vals : Append(v)
        BY <1>1
    <2>2. Contents' = S!Append(Contents, v)
        BY <2>1, AppendRefines
    <2>. QED
        BY <2>2 DEF Abstract!Next, Abstract!Push
<1>2. CASE \E n \in ResizeArgs : Resize(n)
    <2>1. PICK n \in ResizeArgs : Resize(n)
        BY <1>2
    <2>2. n \in Nat
        BY DynArrayAssumption
    <2>3. CASE n < size
        BY <2>1, <2>3, SameContents DEF Resize
    <2>4. CASE ~(n < size)
        <3>1. Finish(n)
            BY <2>1, <2>4 DEF Resize
        <3>2. Contents' = [j \in 1..size |-> Contents[j]]
            BY <2>2, <2>4, <3>1, FinishContents
        <3>. QED
            BY <1>0, <3>2, PrefixStep
    <2>. QED
        BY <2>3, <2>4
<1>3. CASE ResizeStep
    <2>1. CASE i >= target
        BY <1>3, <2>1, SameContents DEF ResizeStep
    <2>2. CASE ~(i >= target)
        <3>1. Finish(target) /\ target \in Nat /\ target < size
            BY <1>3, <2>2 DEF ResizeStep, TInv, TypeOK
        <3>2. Contents' = [j \in 1..target |-> Contents[j]]
            BY <3>1, FinishContents
        <3>. QED
            BY <1>0, <3>1, <3>2, PrefixStep
    <2>. QED
        BY <2>1, <2>2
<1>4. CASE ShrinkToFit \/ TakeElems
    <2>1. Finish(size)
        BY <1>4 DEF ShrinkToFit, TakeElems
    <2>2. Contents' = [j \in 1..size |-> Contents[j]]
        BY <1>0, <2>1, FinishContents
    <2>. QED
        BY <1>0, <2>2, PrefixStep
<1>5. CASE Destroy
    BY <1>5, SameContents DEF Destroy
<1>6. CASE UNCHANGED vars
    BY <1>6, SameContents DEF vars
<1>. QED
    BY <1>1, <1>2, <1>3, <1>4, <1>5, <1>6 DEF Next

(* Theorem: for every capacity, value set and width of size_t, what      *)
(* operator[] reads behaves as ArraySeq: Append adds its value at the end *)
(* (growing the buffer keeps every element), Resize, ShrinkToFit and      *)
(* TakeElems only ever truncate, and nothing else changes what is read.   *)
THEOREM Refinement == Spec => Refines
<1>1. Init => Abstract!Init
    <2> SUFFICES ASSUME Init PROVE Contents = <<>>
        BY DEF Abstract!Init
    <2>1. size = 0
        BY DEF Init
    <2>. QED
        BY <2>1 DEF Contents
<1>2. TInv /\ [Next]_vars => [Abstract!Next]_Contents
    BY StepRefines
<1>. QED
    BY <1>1, <1>2, InitTInv, NextTInv, PTL DEF Spec, Refines, Abstract!Spec
=============================================================================
