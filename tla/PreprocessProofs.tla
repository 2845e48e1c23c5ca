-------------------------- MODULE PreprocessProofs --------------------------
(***************************************************************************)
(* Proofs about the fork/join of getSpmMt (module Preprocess), for every  *)
(* MT_CONF setting and every number of threads and doEncodeBlock calls.    *)
(***************************************************************************)
EXTENDS Preprocess, TLAPS

(* SerialAfterJoin is not inductive: that a partition in built has its    *)
(* thread done depends on where the main thread is.  IInv says it by      *)
(* phase: before the threads run partition 0 is untouched; while the      *)
(* main thread encodes partition 0 it alone holds thread 0; in the join    *)
(* loop every thread below next has returned; from the serial loop on     *)
(* every thread has; and built stays empty before the serial loop and     *)
(* below n in it.  No thread runs before the parse, and none at or above  *)
(* nr_threads ever does.                                                   *)
IInv ==
    /\ mpc \in {"parse", "fork", "run", "join", "serial", "done", "exit"}
    /\ n \in 0..MaxThreads
    /\ next \in Nat
    /\ tpc \in [Threads -> {"none", "run", "load", "done"}]
    /\ built \subseteq 0..(n - 1)
    /\ mpc \in {"parse", "fork", "exit"} => tpc[0] = "none"
    /\ mpc = "run" => tpc[0] \in {"run", "load"}
    /\ mpc \in {"fork", "run", "join", "serial", "done"} => n \in 1..MaxThreads
    /\ mpc = "fork" => next \in 1..n
    /\ mpc = "join" => /\ next \in 1..n
                       /\ \A t \in 0..(next - 1) : tpc[t] = "done"
    /\ mpc \in {"serial", "done"} => \A t \in 0..(n - 1) : tpc[t] = "done"
    /\ mpc \notin {"serial", "done"} => built = {}
    /\ mpc = "parse" => \A t \in Threads : tpc[t] = "none"
    /\ \A t \in Threads : t >= n => tpc[t] = "none"

(* getSpmMt starts with IInv. *)
LEMMA InitIInv == Init => IInv
BY PreprocessAssumption DEF Init, IInv, Threads

(* Parse leaves the main thread in "fork" with n = nr_cpus in             *)
(* 1..MaxThreads, or in "exit"; the threads are untouched.                 *)
LEMMA ParseIInv == IInv /\ Parse => IInv'
<1> SUFFICES ASSUME IInv, Parse PROVE IInv'
    OBVIOUS
<1>1. PICK conf \in Confs : /\ n' = NrCpus(conf)
                            /\ \E null \in IF n' = 1 THEN BOOLEAN ELSE {FALSE} :
                                 mpc' = IF null THEN "exit" ELSE "fork"
    BY DEF Parse
<1>2. n' \in 1..MaxThreads
    BY <1>1, PreprocessAssumption DEF NrCpus
<1>3. mpc' \in {"fork", "exit"}
    BY <1>1
<1>. QED
    BY <1>2, <1>3, PreprocessAssumption DEF Parse, IInv, FirstForked

(* Fork starts thread next, or ends the loop and runs partition 0. *)
LEMMA ForkIInv == IInv /\ Fork => IInv'
BY PreprocessAssumption DEF Fork, IInv, Threads

(* A step of a running thread that keeps the main thread where it is and *)
(* moves the thread between "run" and "load" preserves IInv.                *)
LEMMA RunningStep ==
    ASSUME NEW t \in Threads, NEW s \in {"run", "load"}, IInv,
           tpc[t] \in {"run", "load"},
           tpc' = [tpc EXCEPT ![t] = s],
           UNCHANGED <<mpc, n, next, built>>
    PROVE  IInv'
BY PreprocessAssumption DEF IInv, Threads

(* A worker's load or store of nr_patterns touches no returned thread. *)
LEMMA WorkerIInv == ASSUME NEW t \in Threads, IInv, Load(t) \/ Store(t) PROVE IInv'
<1>1. CASE Load(t)
    BY <1>1, RunningStep DEF Load
<1>2. CASE Store(t)
    BY <1>2, RunningStep DEF Store
<1>. QED
    BY <1>1, <1>2

(* A thread returns; thread 0's return starts the join loop at 1. *)
LEMMA ReturnIInv == ASSUME NEW t \in Threads, IInv, Return(t) PROVE IInv'
BY PreprocessAssumption DEF Return, IInv, Threads, FirstJoined

(* The join loop moves on only past a returned thread. *)
LEMMA JoinIInv == IInv /\ Join => IInv'
BY PreprocessAssumption DEF Join, IInv, Threads

(* The serial loop builds partitions below n. *)
LEMMA SerialIInv == IInv /\ Serial => IInv'
<1> SUFFICES ASSUME IInv, Serial PROVE IInv'
    OBVIOUS
<1>1. mpc = "serial"
    BY DEF Serial
<1>2. CASE next < n
    <2>1. /\ built' = built \cup {next} /\ next' = next + 1
          /\ UNCHANGED <<mpc, n, tpc>>
        BY <1>2 DEF Serial
    <2>. QED
        BY <1>1, <1>2, <2>1 DEF IInv
<1>3. CASE ~(next < n)
    <2>1. mpc' = "done" /\ UNCHANGED <<n, next, tpc, built>>
        BY <1>3 DEF Serial
    <2>. QED
        BY <1>1, <2>1 DEF IInv
<1>. QED
    BY <1>2, <1>3

(* IInv is inductive. *)
LEMMA NextIInv == IInv /\ [Next]_vars => IInv'
<1> SUFFICES ASSUME IInv, [Next]_vars PROVE IInv'
    OBVIOUS
<1>1. CASE Parse
    BY <1>1, ParseIInv
<1>2. CASE Fork
    BY <1>2, ForkIInv
<1>3. CASE Join
    BY <1>3, JoinIInv
<1>4. CASE Serial
    BY <1>4, SerialIInv
<1>5. CASE \E t \in Threads : Load(t) \/ Store(t) \/ Return(t)
    BY <1>5, WorkerIInv, ReturnIInv
<1>6. CASE UNCHANGED vars
    BY <1>6 DEF IInv, vars
<1>. QED
    BY <1>1, <1>2, <1>3, <1>4, <1>5, <1>6 DEF Next

(* Theorem: for every MT_CONF setting and number of threads, mkCsx is    *)
(* called on a partition only after the thread that encoded it returned  *)
(* (the fork loop, thread 0 run by the main thread and the join loop     *)
(* together cover every partition).                                       *)
THEOREM SerialAfterJoinInvariant == Spec => []SerialAfterJoin
<1>1. IInv => SerialAfterJoin
    BY DEF IInv, SerialAfterJoin
<1>. QED
    BY <1>1, InitIInv, NextIInv, PTL DEF Spec

(* In the serial loop and after it every thread is done or never ran, so  *)
(* no thread can take a step.                                              *)
LEMMA FrozenStep == IInv /\ [Next]_vars => [ThreadsFrozen]_vars
<1> SUFFICES ASSUME IInv, [Next]_vars, mpc \in {"serial", "done"}
             PROVE  UNCHANGED <<tpc, calls, reg, nr_patterns, made>>
    BY DEF ThreadsFrozen
<1>1. \A t \in Threads : tpc[t] \in {"none", "done"}
    BY DEF IInv, Threads
<1>2. ASSUME NEW t \in Threads PROVE ~(Load(t) \/ Store(t) \/ Return(t))
    BY <1>1 DEF Load, Store, Return
<1>3. CASE Serial
    BY <1>3 DEF Serial
<1>4. CASE UNCHANGED vars
    BY <1>4 DEF vars
<1>. QED
    BY <1>2, <1>3, <1>4 DEF Next, Parse, Fork, Join

(* Theorem: for every MT_CONF setting and number of threads, once the    *)
(* join loop of getSpmMt is over no encoding thread takes another step:   *)
(* the serial mkCsx loop sees nr_patterns and the threads' state frozen.  *)
THEOREM QuiescentAfterJoinProperty == Spec => QuiescentAfterJoin
BY InitIInv, NextIInv, FrozenStep, PTL DEF Spec, QuiescentAfterJoin
-----------------------------------------------------------------------------
(* TypeOK is not inductive either: Store's calls[t] - 1 stays in          *)
(* 0..MaxCalls only because a thread loads nr_patterns only with a call   *)
(* left to make (the while loop of EncodeAll enters doEncodeBlock only     *)
(* for a row it has), and next stays within 0..MaxThreads only because n  *)
(* does.  TInv adds the first fact to IInv, which holds the second.       *)
TInv ==
    /\ IInv
    /\ TypeOK
    /\ \A t \in Threads : tpc[t] = "load" => calls[t] > 0

(* mt_get_options fills threads_cpus with CPU numbers, and at worst       *)
(* leaves a slot unwritten: every token strtok returns is a number.        *)
LEMMA MtCpusType ==
    ASSUME NEW conf \in Confs
    PROVE  MtCpus(conf) \in Seq(Nat \cup {Uninit})
<1>1. CASE conf = Unset
    BY <1>1 DEF MtCpus, DefaultCpus
<1>2. CASE conf # Unset
    <2>1. conf \in Seq(Nat \cup {Empty}) /\ Len(conf) \in Nat
        BY <1>2, PreprocessAssumption
    <2>2. ASSUME NEW i \in 1..Len(conf), \E k \in Tokens(conf) : TokenRank(conf, k) = i
          PROVE  conf[CHOOSE k \in Tokens(conf) : TokenRank(conf, k) = i] \in Nat
        <3>. DEFINE k == CHOOSE k \in Tokens(conf) : TokenRank(conf, k) = i
        <3>1. k \in DOMAIN conf /\ conf[k] # Empty
            BY <2>2 DEF Tokens
        <3>. QED
            BY <2>1, <3>1
    <2>3. \A i \in 1..NrCpus(conf) :
             (IF \E k \in Tokens(conf) : TokenRank(conf, k) = i
              THEN conf[CHOOSE k \in Tokens(conf) : TokenRank(conf, k) = i]
              ELSE Uninit) \in Nat \cup {Uninit}
        BY <1>2, <2>2 DEF NrCpus
    <2>. QED
        BY <1>2, <2>1, <2>3 DEF MtCpus, NrCpus
<1>. QED
    BY <1>1, <1>2

(* The XFORM_CONF loop writes integers into xform_buf. *)
LEMMA XformBufType ==
    ASSUME NEW xe \in XformEnvs
    PROVE  XformBuf(xe) \in Seq(Int)
BY PreprocessAssumption DEF XformBuf

(* Every overrun Parse records is one of the four buffers it writes. *)
LEMMA OverrunsType ==
    ASSUME NEW xe, NEW de
    PROVE  Overruns(xe, de) \subseteq {"xform_buf", "deltas", "deltas_row", "temp"}
BY DEF Overruns

(* A thread is handed at most MaxCalls doEncodeBlock calls, and none when *)
(* no order of XFORM_CONF reaches doEncodeBlock.                          *)
LEMMA CallRangeBound == CallRange \subseteq 0..MaxCalls
BY PreprocessAssumption DEF CallRange

(* A built set below some n <= MaxThreads holds thread numbers. *)
LEMMA BuiltThreads ==
    ASSUME NEW B, NEW m \in 0..MaxThreads, B \subseteq 0..(m - 1)
    PROVE  B \subseteq Threads
BY PreprocessAssumption DEF Threads

(* TInv' from IInv' and the parts of TypeOK that IInv does not hold. *)
LEMMA TInvParts ==
    ASSUME IInv',
           mpc' # "parse" => n' \in 1..MaxThreads /\ cpus' \in Seq(Nat \cup {Uninit}),
           next' \in 0..MaxThreads,
           calls' \in [Threads -> 0..MaxCalls],
           xform' \in Seq(Int),
           overrun' \subseteq {"xform_buf", "deltas", "deltas_row", "temp"},
           encode_deltas' \in BOOLEAN,
           \A t \in Threads : tpc'[t] = "load" => calls'[t] > 0
    PROVE  TInv'
<1>1. built' \subseteq 0..(n' - 1) /\ n' \in 0..MaxThreads
    BY DEF IInv
<1>2. built' \subseteq Threads
    BY <1>1, BuiltThreads
<1>. QED
    BY <1>2 DEF TInv, TypeOK, IInv

(* getSpmMt starts with TInv. *)
LEMMA InitTInv == Init => TInv
BY InitIInv, PreprocessAssumption DEF Init, TInv, TypeOK, Threads

(* Parse gives nr_threads, threads_cpus, xform_buf and the overruns their  *)
(* types and leaves the threads alone.                                     *)
LEMMA ParseTInv == TInv /\ Parse => TInv'
<1> SUFFICES ASSUME TInv, Parse PROVE TInv'
    OBVIOUS
<1>1. IInv'
    BY ParseIInv DEF TInv
<1>2. PICK conf \in Confs : /\ n' = NrCpus(conf)
                            /\ cpus' = MtCpus(conf)
    BY DEF Parse
<1>3. PICK xe \in XformEnvs, de \in DeltaEnvs :
          xform' = XformBuf(xe) /\ overrun' = Overruns(xe, de)
    BY DEF Parse
<1>4. n' \in 1..MaxThreads
    BY <1>2, PreprocessAssumption DEF NrCpus
<1>5. cpus' \in Seq(Nat \cup {Uninit})
    BY <1>2, MtCpusType
<1>6. xform' \in Seq(Int) /\ overrun' \subseteq {"xform_buf", "deltas", "deltas_row", "temp"}
    BY <1>3, XformBufType, OverrunsType
<1>7. next' \in 0..MaxThreads
    BY PreprocessAssumption DEF Parse, FirstForked
<1>8. UNCHANGED <<tpc, calls>>
    BY DEF Parse
<1>9. encode_deltas' \in BOOLEAN
    BY <1>3 DEF Parse
<1>. QED
    BY <1>1, <1>4, <1>5, <1>6, <1>7, <1>8, <1>9, TInvParts DEF TInv, TypeOK

(* Fork hands thread next (or, after the loop, thread 0) a number of     *)
(* calls and sets it running; next stays below n.                          *)
LEMMA ForkTInv == TInv /\ Fork => TInv'
<1> SUFFICES ASSUME TInv, Fork PROVE TInv'
    OBVIOUS
<1>1. IInv'
    BY ForkIInv DEF TInv
<1>2. mpc' # "parse" => n' \in 1..MaxThreads /\ cpus' \in Seq(Nat \cup {Uninit})
    BY DEF Fork, TInv, TypeOK
<1>3. /\ xform' \in Seq(Int)
      /\ overrun' \subseteq {"xform_buf", "deltas", "deltas_row", "temp"}
      /\ encode_deltas' \in BOOLEAN
    BY DEF Fork, TInv, TypeOK
<1>4. next \in 1..n /\ n \in 1..MaxThreads
    BY DEF Fork, TInv, IInv
<1>5. CASE next < n
    <2>1. PICK c \in CallRange :
             /\ tpc' = [tpc EXCEPT ![next] = "run"]
             /\ calls' = [calls EXCEPT ![next] = c]
             /\ next' = next + 1
        BY <1>5 DEF Fork
    <2>2. next \in Threads /\ next' \in 0..MaxThreads
        BY <1>4, <1>5, <2>1, PreprocessAssumption DEF Threads
    <2>3. calls' \in [Threads -> 0..MaxCalls]
        BY <2>1, <2>2, CallRangeBound DEF TInv, TypeOK
    <2>4. \A t \in Threads : tpc'[t] = "load" => calls'[t] > 0
        BY <2>1, <2>2 DEF TInv, TypeOK
    <2>. QED
        BY <1>1, <1>2, <1>3, <2>2, <2>3, <2>4, TInvParts
<1>6. CASE ~(next < n)
    <2>1. PICK c \in CallRange :
             /\ tpc' = [tpc EXCEPT ![0] = "run"]
             /\ calls' = [calls EXCEPT ![0] = c]
             /\ next' = next
        BY <1>6 DEF Fork
    <2>2. 0 \in Threads /\ next' \in 0..MaxThreads
        BY <1>4, <2>1, PreprocessAssumption DEF Threads
    <2>3. calls' \in [Threads -> 0..MaxCalls]
        BY <2>1, <2>2, CallRangeBound DEF TInv, TypeOK
    <2>4. \A t \in Threads : tpc'[t] = "load" => calls'[t] > 0
        BY <2>1, <2>2 DEF TInv, TypeOK
    <2>. QED
        BY <1>1, <1>2, <1>3, <2>2, <2>3, <2>4, TInvParts
<1>. QED
    BY <1>5, <1>6

(* Load starts a call only when one is left to make. *)
LEMMA LoadTInv == ASSUME NEW t \in Threads, TInv, Load(t) PROVE TInv'
<1>1. IInv'
    BY WorkerIInv DEF TInv
<1>2. \A u \in Threads : tpc'[u] = "load" => calls'[u] > 0
    BY DEF Load, TInv, TypeOK
<1>. QED
    BY <1>1, <1>2, TInvParts DEF TInv, TypeOK, Load

(* Store ends the call that Load began: calls[t] - 1 is still >= 0. *)
LEMMA StoreTInv == ASSUME NEW t \in Threads, TInv, Store(t) PROVE TInv'
<1>1. IInv'
    BY WorkerIInv DEF TInv
<1>2. calls[t] > 0 /\ calls \in [Threads -> 0..MaxCalls]
    BY DEF Store, TInv, TypeOK
<1>3. calls' = [calls EXCEPT ![t] = @ - 1] /\ tpc' = [tpc EXCEPT ![t] = "run"]
    BY DEF Store
<1>4. calls' \in [Threads -> 0..MaxCalls]
    BY <1>2, <1>3, PreprocessAssumption
<1>5. \A u \in Threads : tpc'[u] = "load" => calls'[u] > 0
    BY <1>3 DEF TInv, TypeOK
<1>. QED
    BY <1>1, <1>4, <1>5, TInvParts DEF TInv, TypeOK, Store

(* A return touches no counter; thread 0's return sets next to 1. *)
LEMMA ReturnTInv == ASSUME NEW t \in Threads, TInv, Return(t) PROVE TInv'
<1>1. IInv'
    BY ReturnIInv DEF TInv
<1>2. next' \in 0..MaxThreads
    BY PreprocessAssumption DEF TInv, TypeOK, Return, FirstJoined
<1>3. \A u \in Threads : tpc'[u] = "load" => calls'[u] > 0
    BY DEF Return, TInv, TypeOK
<1>4. mpc # "parse"
    BY DEF Return, TInv, IInv
<1>5. mpc' # "parse" => n' \in 1..MaxThreads /\ cpus' \in Seq(Nat \cup {Uninit})
    BY <1>4 DEF Return, TInv, TypeOK
<1>6. /\ calls' \in [Threads -> 0..MaxCalls]
      /\ xform' \in Seq(Int)
      /\ overrun' \subseteq {"xform_buf", "deltas", "deltas_row", "temp"}
      /\ encode_deltas' \in BOOLEAN
    BY DEF Return, TInv, TypeOK
<1>. QED
    BY <1>1, <1>2, <1>3, <1>5, <1>6, TInvParts

(* The join loop's next stays within 0..n. *)
LEMMA JoinTInv == TInv /\ Join => TInv'
<1> SUFFICES ASSUME TInv, Join PROVE TInv'
    OBVIOUS
<1>1. IInv'
    BY JoinIInv DEF TInv
<1>2. next \in 1..n /\ n \in 0..MaxThreads
    BY DEF Join, TInv, IInv
<1>3. (next < n /\ next' = next + 1) \/ next' = 0
    BY DEF Join
<1>4. next' \in 0..MaxThreads
    BY <1>2, <1>3, PreprocessAssumption
<1>. QED
    BY <1>1, <1>4, TInvParts DEF TInv, TypeOK, Join

(* The serial loop's next stays within 0..n and built below n. *)
LEMMA SerialTInv == TInv /\ Serial => TInv'
<1> SUFFICES ASSUME TInv, Serial PROVE TInv'
    OBVIOUS
<1>1. IInv'
    BY SerialIInv DEF TInv
<1>2. next \in 0..MaxThreads /\ n \in 0..MaxThreads
    BY DEF TInv, TypeOK, IInv
<1>3. (next < n /\ next' = next + 1) \/ next' = next
    BY DEF Serial
<1>4. next' \in 0..MaxThreads
    BY <1>2, <1>3, PreprocessAssumption
<1>. QED
    BY <1>1, <1>4, TInvParts DEF TInv, TypeOK, Serial

(* TInv is inductive. *)
LEMMA NextTInv == TInv /\ [Next]_vars => TInv'
<1> SUFFICES ASSUME TInv, [Next]_vars PROVE TInv'
    OBVIOUS
<1>1. CASE Parse
    BY <1>1, ParseTInv
<1>2. CASE Fork
    BY <1>2, ForkTInv
<1>3. CASE Join
    BY <1>3, JoinTInv
<1>4. CASE Serial
    BY <1>4, SerialTInv
<1>5. ASSUME NEW t \in Threads, Load(t) \/ Store(t) \/ Return(t) PROVE TInv'
    BY <1>5, LoadTInv, StoreTInv, ReturnTInv
<1>6. CASE UNCHANGED vars
    BY <1>6 DEF TInv, IInv, TypeOK, vars
<1>. QED
    BY <1>1, <1>2, <1>3, <1>4, <1>5, <1>6 DEF Next

(* Theorem: for every MT_CONF, XFORM_CONF and ENCODE_DELTAS setting and   *)
(* every number of threads and calls, getSpmMt keeps its state well       *)
(* typed: nr_threads is between 1 and MaxThreads and threads_cpus holds    *)
(* CPU numbers or unwritten slots once MT_CONF is parsed, the loop index   *)
(* stays within 0..MaxThreads, and no thread's count of doEncodeBlock      *)
(* calls goes below zero.                                                  *)
THEOREM TypeCorrect == Spec => []TypeOK
<1>1. TInv => TypeOK
    BY DEF TInv
<1>. QED
    BY <1>1, InitTInv, NextTInv, PTL DEF Spec
=============================================================================
