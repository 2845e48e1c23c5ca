----------------------------- MODULE Preprocess -----------------------------
(***************************************************************************)
(* The parallel preprocessing of patterns/spmv.cc (getSpmMt and            *)
(* thread_function) with the MT_CONF parser of mt_lib.c and the parsers   *)
(* of XFORM_CONF and ENCODE_DELTAS in getSpmMt.                            *)
(*                                                                         *)
(* MT_CONF is given as the sequence of its comma-separated fields, each a  *)
(* number or empty; the main thread parses it, creates threads 1 .. n-1,   *)
(* runs thread_function for partition 0 itself, joins the others and then *)
(* builds the CSX of every partition one after another.  What a thread's   *)
(* EncodeAll does to its own partition is the subject of EncodeAll; here   *)
(* it is the number of doEncodeBlock calls it makes, each with its         *)
(* unsynchronised ++nr_patterns on the shared static counter, done as a    *)
(* load and a store.  XFORM_CONF is the sequence of its non-empty fields   *)
(* and ENCODE_DELTAS the sequence of its <...> groups, each the sequence  *)
(* of its one-digit deltas; what the parsers store is kept together with  *)
(* the buffers they write past the end of.                                 *)
(***************************************************************************)
EXTENDS IterOrder, Sequences, FiniteSets

CONSTANTS Confs,      \* the MT_CONF settings: sequences of fields, or Unset
          Unset,      \* MT_CONF not in the environment
          Empty,      \* an empty field ("0,,1")
          Uninit,     \* an element of cpus that was never written
          XformEnvs,  \* the XFORM_CONF settings: sequences of order ids, or Unset
          DeltaEnvs,  \* the ENCODE_DELTAS settings: sequences of groups, or Unset
          XformMax,   \* XFORM_MAX
          DeltasMax,  \* DELTAS_MAX
          MaxThreads, \* bound on the number of MT_CONF fields
          MaxCalls    \* bound on the doEncodeBlock calls of one thread

ASSUME PreprocessAssumption ==
    /\ Unset \notin Nat /\ Empty \notin Nat /\ Uninit \notin Nat
    /\ MaxThreads \in Nat /\ MaxThreads >= 4
    /\ \A conf \in Confs \ {Unset} : /\ conf \in Seq(Nat \cup {Empty})
                                  /\ Len(conf) \in 1..MaxThreads
    /\ MaxCalls \in Nat
    /\ XformMax \in Nat \ {0} /\ DeltasMax \in Nat \ {0}
    /\ \A xe \in XformEnvs \ {Unset} : xe \in Seq(Nat) /\ xe # <<>>
    /\ \A de \in DeltaEnvs \ {Unset} : de \in Seq(Seq(0..9) \ {<<>>}) /\ de # <<>>

(* mt_get_options without MT_CONF: cpus 0, 1, 2, 3. *)
DefaultCpus == <<0, 1, 2, 3>>

Threads == 0..(MaxThreads - 1)

VARIABLES mpc,          \* the main thread: "parse", "fork", "run", "join", "serial", "done", "exit"
          n,            \* nr_threads
          cpus,         \* threads_cpus
          next,         \* the loop index of the main thread
          tpc,          \* thread -> "none", "run", "load", "done"
          calls,        \* thread -> doEncodeBlock calls still to make
          made,         \* total doEncodeBlock calls made
          reg,          \* thread -> the value of nr_patterns it loaded
          nr_patterns,  \* the static counter of drle.cc
          built,        \* the partitions whose CSX the serial phase built
          xform,        \* what getSpmMt wrote into xform_buf
          overrun,      \* the buffers the parsers wrote past the end of
          encode_deltas \* data->deltas # NULL: ENCODE_DELTAS was set

vars == <<mpc, n, cpus, next, tpc, calls, made, reg, nr_patterns, built, xform, overrun, encode_deltas>>

Init ==
    /\ mpc = "parse"
    /\ n = 0
    /\ cpus = <<>>
    /\ next = 0
    /\ tpc = [t \in Threads |-> "none"]
    /\ calls = [t \in Threads |-> 0]
    /\ made = 0
    /\ reg = [t \in Threads |-> 0]
    /\ nr_patterns = 0
    /\ built = {}
    /\ xform = <<>>
    /\ overrun = {}
    /\ encode_deltas = FALSE

(* The fields strtok returns as tokens: those that are not empty. *)
Tokens(conf) == {k \in DOMAIN conf : conf[k] # Empty}

(* Field k is the TokenRank(conf, k)-th token strtok returns. *)
TokenRank(conf, k) == Cardinality({j \in Tokens(conf) : j <= k})

(* A count of the fields that misses the initial *nr_cpus = 1. *)
NrCpusCommas(conf) == IF conf = Unset THEN 4 ELSE Len(conf) - 1

(* mt_get_options' nr_cpus: 4 by default, else the number of commas plus  *)
(* one, which is the number of fields.                                     *)
NrCpus(conf) == IF conf = Unset THEN 4 ELSE Len(conf)

(* mt_get_options' cpus: nr_cpus slots, cpus[i] the i-th token; a slot   *)
(* no token reaches stays unwritten.                                       *)
MtCpus(conf) ==
    IF conf = Unset THEN DefaultCpus
    ELSE [i \in 1..NrCpus(conf) |->
            IF \E k \in Tokens(conf) : TokenRank(conf, k) = i
            THEN conf[CHOOSE k \in Tokens(conf) : TokenRank(conf, k) = i]
            ELSE Uninit]

FirstForkedTwo == 2

(* xform_buf after the XFORM_CONF loop: every token (atoi) and a -1, or  *)
(* NONE (0) and -1 when XFORM_CONF is unset.                               *)
XformBuf(xe) == IF xe = Unset THEN <<0, -1>> ELSE xe \o <<-1>>

(* The characters of a group up to its '>': the deltas and their commas. *)
TextLen(g) == 2 * Len(g) - 1

(* temp[next] is malloc'ed str_length + 1 bytes for the first group and  *)
(* str_length - 1 for every later one.                                     *)
TempAlloc(i, g) == IF i = 1 THEN TextLen(g) + 1 ELSE TextLen(g) - 1

(* strncpy(temp[next], token, str_length) and temp[next][str_length] = 0. *)
TempWritten(g) == TextLen(g) + 1

(* The buffers the parsers write past the end of: xform_buf (XFORM_MAX    *)
(* ints), deltas (XFORM_MAX rows of DELTAS_MAX ints, each group's deltas  *)
(* and a -1) and the temp strings.                                         *)
Overruns(xe, de) ==
    LET groups == IF de = Unset THEN <<>> ELSE de
        checks == {<<"xform_buf", Len(XformBuf(xe)), XformMax>>, <<"deltas", Len(groups), XformMax>>}
                  \cup {<<"deltas_row", Len(groups[i]) + 1, DeltasMax>> : i \in DOMAIN groups}
                  \cup {<<"temp", TempWritten(groups[i]), TempAlloc(i, groups[i])>> : i \in DOMAIN groups}
    IN  {c[1] : c \in {c \in checks : c[2] > c[3]}}

(* The orders EncodeAll can choose: genAllStats force-ignores every other *)
(* order on each call, whatever XFORM_CONF un-ignored.                     *)
EncodeAllOrders == {BLOCK_ROW(1), BLOCK_ROW(2), BLOCK_COL(1)}

(* Whether thread_function can reach doEncodeBlock with xform_buf xf.     *)
(* Without ENCODE_DELTAS it runs EncodeAll, which encodes only an order    *)
(* xf un-ignores and genAllStats leaves.  With it, it runs EncodeSerial,   *)
(* which is not in the sources; by the comment before the call it encodes  *)
(* in the orders xf names, so it reaches doEncodeBlock with a block type.  *)
EncodesBlocks(xf, ed) ==
    \E j \in DOMAIN xf : IF ed THEN IsBlockType(xf[j]) # 0
                               ELSE xf[j] \in EncodeAllOrders

(* The numbers of doEncodeBlock calls a thread can make: none when no     *)
(* order reaches it, as with XFORM_CONF unset (xform_buf = {NONE, -1}).    *)
CallRange == IF EncodesBlocks(xform, encode_deltas) THEN 0..MaxCalls ELSE {0}

(* The first thread the creation loop starts. *)
FirstForked == 1

FirstJoinedTwo == 2

(* The first thread the join loop waits for. *)
FirstJoined == 1

(* getSpmMt up to the creation of the threads: MT_CONF, XFORM_CONF and     *)
(* ENCODE_DELTAS are parsed (a setting without a number hands NULL to      *)
(* parse_int or atoi, which is left out), and                              *)
(* threads = malloc((nr_threads - 1) * ...), which for one thread is       *)
(* malloc(0) and may return NULL: then the program exits.                  *)
Parse ==
    /\ mpc = "parse"
    /\ \E conf \in Confs :
         /\ conf # Unset => Tokens(conf) # {}
         /\ n' = NrCpus(conf)
         /\ cpus' = MtCpus(conf)
         /\ \E null \in IF n' = 1 THEN BOOLEAN ELSE {FALSE} :
              mpc' = IF null THEN "exit" ELSE "fork"
    /\ \E xe \in XformEnvs, de \in DeltaEnvs :
         /\ xform' = XformBuf(xe)
         /\ overrun' = Overruns(xe, de)
         /\ encode_deltas' = (de # Unset)
    /\ next' = FirstForked
    /\ UNCHANGED <<tpc, calls, made, reg, nr_patterns, built>>

(* pthread_create(&threads[i-1], ..., &data[i]) for i = next; after the   *)
(* loop the main thread calls thread_function(&data[0]).                   *)
Fork ==
    /\ mpc = "fork"
    /\ IF next < n
       THEN /\ tpc' = [tpc EXCEPT ![next] = "run"]
            /\ \E c \in CallRange : calls' = [calls EXCEPT ![next] = c]
            /\ next' = next + 1
            /\ UNCHANGED mpc
       ELSE /\ mpc' = "run"
            /\ tpc' = [tpc EXCEPT ![0] = "run"]
            /\ \E c \in CallRange : calls' = [calls EXCEPT ![0] = c]
            /\ UNCHANGED next
    /\ UNCHANGED <<n, cpus, made, reg, nr_patterns, built, xform, overrun, encode_deltas>>

(* A doEncodeBlock call of thread t begins: ++nr_patterns loads. *)
Load(t) ==
    /\ tpc[t] = "run"
    /\ calls[t] > 0
    /\ tpc' = [tpc EXCEPT ![t] = "load"]
    /\ reg' = [reg EXCEPT ![t] = nr_patterns]
    /\ UNCHANGED <<mpc, n, cpus, next, calls, made, nr_patterns, built, xform, overrun, encode_deltas>>

(* ... and stores the loaded value plus one. *)
Store(t) ==
    /\ tpc[t] = "load"
    /\ nr_patterns' = reg[t] + 1
    /\ tpc' = [tpc EXCEPT ![t] = "run"]
    /\ calls' = [calls EXCEPT ![t] = @ - 1]
    /\ made' = made + 1
    /\ UNCHANGED <<mpc, n, cpus, next, reg, built, xform, overrun, encode_deltas>>

(* thread_function returns: EncodeAll is over and the manager deleted.     *)
(* For thread 0 this is the main thread returning from its own call.       *)
Return(t) ==
    /\ tpc[t] = "run"
    /\ calls[t] = 0
    /\ tpc' = [tpc EXCEPT ![t] = "done"]
    /\ mpc' = IF t = 0 THEN "join" ELSE mpc
    /\ next' = IF t = 0 THEN FirstJoined ELSE next
    /\ UNCHANGED <<n, cpus, calls, made, reg, nr_patterns, built, xform, overrun, encode_deltas>>

(* pthread_join(threads[i-1]) for i = next: the main thread waits for     *)
(* thread next to return.                                                  *)
Join ==
    /\ mpc = "join"
    /\ IF next < n
       THEN /\ tpc[next] = "done"
            /\ next' = next + 1
            /\ UNCHANGED mpc
       ELSE /\ mpc' = "serial"
            /\ next' = 0
    /\ UNCHANGED <<n, cpus, tpc, calls, made, reg, nr_patterns, built, xform, overrun, encode_deltas>>

(* The serial loop: CsxManager(&Spms[next])->mkCsx() and the JIT hooks. *)
Serial ==
    /\ mpc = "serial"
    /\ IF next < n
       THEN /\ built' = built \cup {next}
            /\ next' = next + 1
            /\ UNCHANGED mpc
       ELSE /\ mpc' = "done"
            /\ UNCHANGED <<next, built>>
    /\ UNCHANGED <<n, cpus, tpc, calls, made, reg, nr_patterns, xform, overrun, encode_deltas>>

Next ==
    \/ Parse \/ Fork \/ Join \/ Serial
    \/ \E t \in Threads : Load(t) \/ Store(t) \/ Return(t)

(* The threads are POSIX threads that never block on one another: each one *)
(* that can run is eventually scheduled; the main thread likewise.         *)
Spec == /\ Init /\ [][Next]_vars
        /\ WF_vars(Parse \/ Fork \/ Join \/ Serial)
        /\ \A t \in Threads : WF_vars(Load(t) \/ Store(t) \/ Return(t))

-----------------------------------------------------------------------------
(* Type invariant. *)
TypeOK ==
    /\ mpc \in {"parse", "fork", "run", "join", "serial", "done", "exit"}
    /\ mpc # "parse" => n \in 1..MaxThreads /\ cpus \in Seq(Nat \cup {Uninit})
    /\ next \in 0..MaxThreads
    /\ tpc \in [Threads -> {"none", "run", "load", "done"}]
    /\ calls \in [Threads -> 0..MaxCalls]
    /\ built \subseteq Threads
    /\ xform \in Seq(Int)
    /\ overrun \subseteq {"xform_buf", "deltas", "deltas_row", "temp"}
    /\ encode_deltas \in BOOLEAN

(* SerialAfterJoin: the serial phase builds the CSX of a partition only    *)
(* after the thread that encoded it has returned, so mkCsx never reads a   *)
(* partition EncodeAll is still rewriting (the fork and join loops must    *)
(* cover the same threads, and partition 0 is the main thread's own).      *)
SerialAfterJoin == \A t \in built : tpc[t] = "done"

(* A step taken once the join loop is over changes nothing the encoding   *)
(* threads own.                                                            *)
ThreadsFrozen ==
    mpc \in {"serial", "done"} => UNCHANGED <<tpc, calls, reg, nr_patterns, made>>

(* QuiescentAfterJoin: once the join loop is over no encoding thread     *)
(* takes another step, so the serial mkCsx loop and what follows it see   *)
(* the threads' state and the shared nr_patterns counter frozen.          *)
QuiescentAfterJoin == [][ThreadsFrozen]_vars

(* Completes: preprocessing ends, and unless the program exited on the     *)
(* malloc of the thread handles, with the CSX of every partition built.   *)
Completes == <>(mpc = "exit" \/ (mpc = "done" /\ built = 0..(n - 1)))

(* NrPatternsExact: once every thread has returned, nr_patterns holds the  *)
(* number of doEncodeBlock calls made.                                      *)
NrPatternsExact == mpc \in {"serial", "done"} => nr_patterns = made

=============================================================================
