------------------------ MODULE DistributedQuickselect ------------------------
(***************************************************************************)
(* The distributed quickselect of src/enclave/nonoblivious.c              *)
(* (distributed_quickselect_helper, lines 211-450).  Every worker runs the *)
(* recursive helper on its own local array; the recursion is kept as an    *)
(* explicit stack of pending calls.  Workers talk only through blocking    *)
(* point-to-point messages on QUICKSELECT_MPI_TAG, which MPI delivers in   *)
(* FIFO order per (sender, receiver) pair: qchan[s][d] is that stream.     *)
(* MPI_Send of these few bytes is buffered (eager), so a send is an append *)
(* and a receive blocks until the head of the stream is there.            *)
(***************************************************************************)
EXTENDS Elem, FiniteSets

CONSTANTS
    W,          \* world_size
    N,          \* total_length: number of elements over all workers
    Elems       \* the (key, orp_id) records an array may hold

Workers == 0 .. W - 1
NoRank == -1

\* Elements on worker r at entry, as the host lays them out
\* (host/parallel.c 580-583: a ceiling split of N over W workers).
LocalStart(r) == (r * N + W - 1) \div W
LocalLength(r) == ((r + 1) * N + W - 1) \div W - LocalStart(r)

\* sample_targets[i] = total_length * (i + 1) / world_size (lines 487-490).
TargetIdx == 0 .. W - 2
Targets == [i \in TargetIdx |-> (N * (i + 1)) \div W]

\* The two-state scan of lines 300-339 on a[pl..pr).  Returns the array and
\* the final partition_left / partition_right.
RECURSIVE PartitionLoop(_, _, _, _, _)
PartitionLoop(a, pl, pr, scan, pivot) ==
    IF pl >= pr THEN [arr |-> a, pl |-> pl, pr |-> pr]
    ELSE IF scan = "left"
         THEN IF Cmp(a[pl], pivot) > 0
              THEN PartitionLoop(a, pl, pr, "right", pivot)
              ELSE PartitionLoop(a, pl + 1, pr, "left", pivot)
         ELSE IF Cmp(a[pr - 1], pivot) < 0
              THEN PartitionLoop(Swap(a, pr - 1, pl), pl + 1, pr - 1, "left", pivot)
              ELSE PartitionLoop(a, pl, pr - 1, "right", pivot)

\* Mutant: the master leaves its pivot at LEFT instead of swapping it into
\* the boundary.
PartitionKeepPivot(a, left, right, pivot, isMaster) ==
    LET r == PartitionLoop(a, left + (IF isMaster THEN 1 ELSE 0), right,
                           "left", pivot)
    IN IF isMaster
       THEN [arr |-> r.arr, pl |-> r.pl, pr |-> r.pr - 1]
       ELSE r

\* Lines 298-350: the master skips its pivot at LEFT and swaps it into the
\* boundary afterwards, so its partition_right ends one below partition_left.
Partition(a, left, right, pivot, isMaster) ==
    LET r == PartitionLoop(a, left + (IF isMaster THEN 1 ELSE 0), right,
                           "left", pivot)
    IN IF isMaster
       THEN [arr |-> Swap(r.arr, r.pr - 1, left), pl |-> r.pl, pr |-> r.pr - 1]
       ELSE r

VARIABLES
    arr,        \* arr[r]: the local array, indices 0 .. LocalLength(r) - 1
    qstack,     \* pending recursive calls of the helper, next one first
    pc,         \* where each worker is in the helper
    frame,      \* the call being executed: targets [tlo, thi), window [left, right)
    ri,         \* loop index i of the current send/recv loop
    master,     \* master_rank
    pivot,
    part,       \* [pl, pr] after the local partition
    curPivot,   \* cur_pivot
    samples,
    sampleIdxs, \* sample_idxs
    qchan       \* qchan[s][d]: FIFO stream s -> d on QUICKSELECT_MPI_TAG

qsVars == <<arr, qstack, pc, frame, ri, master, pivot, part, curPivot,
            samples, sampleIdxs, qchan>>

Frame(tlo, thi, left, right) ==
    [tlo |-> tlo, thi |-> thi, left |-> left, right |-> right]

Send(ch, s, dests, m) ==
    [x \in Workers |-> [y \in Workers |->
        IF x = s /\ y \in dests THEN Append(ch[x][y], m) ELSE ch[x][y]]]

Recv(ch, s, d) == [ch EXCEPT ![s][d] = Tail(@)]

Peers(w) == Workers \ {w}

ArrInit ==
    {a \in [Workers -> UNION {[0 .. LocalLength(r) - 1 -> Elems] : r \in Workers}] :
        \A r \in Workers : DOMAIN a[r] = 0 .. LocalLength(r) - 1}

QsInit ==
    /\ arr \in ArrInit
    \* distributed_quickselect (457-462): one call on the whole array
    /\ qstack = [w \in Workers |-> <<Frame(0, W - 1, 0, LocalLength(w))>>]
    /\ pc = [w \in Workers |-> "qs_call"]
    /\ frame = [w \in Workers |-> Frame(0, 0, 0, 0)]
    /\ ri = [w \in Workers |-> 0]
    /\ master = [w \in Workers |-> NoRank]
    /\ pivot = [w \in Workers |-> CHOOSE e \in Elems : TRUE]
    /\ part = [w \in Workers |-> [pl |-> 0, pr |-> 0]]
    /\ curPivot = [w \in Workers |-> 0]
    /\ samples = [w \in Workers |-> [i \in TargetIdx |-> CHOOSE e \in Elems : TRUE]]
    /\ sampleIdxs = [w \in Workers |-> [i \in TargetIdx |-> 0]]
    /\ qchan = [s \in Workers |-> [d \in Workers |-> <<>>]]

-----------------------------------------------------------------------------
(* Target dispatch, lines 414-446: bsearch_ge over targets[tlo..thi),      *)
(* record the sample when a target equals cur_pivot, then recurse on the  *)
(* left window with the smaller targets and on the right window with the  *)
(* larger ones (left call first).                                          *)
FirstGeq(lo, hi, v) ==
    IF \E k \in lo .. hi - 1 : Targets[k] >= v
    THEN CHOOSE k \in lo .. hi - 1 : Targets[k] >= v
                                     /\ \A j \in lo .. k - 1 : Targets[j] < v
    ELSE hi

\* Mutant: the right-hand call also gets the target just found.
DispatchKeepFound(w, cp) ==
    LET F     == frame[w]
        geq   == FirstGeq(F.tlo, F.thi, cp)
        found == geq < F.thi /\ Targets[geq] = cp
    IN /\ samples' = IF found THEN [samples EXCEPT ![w][geq] = pivot[w]]
                              ELSE samples
       /\ sampleIdxs' = IF found THEN [sampleIdxs EXCEPT ![w][geq] = part[w].pr]
                                 ELSE sampleIdxs
       /\ qstack' = [qstack EXCEPT ![w] =
                        <<Frame(F.tlo, geq, F.left, part[w].pr),
                          Frame(geq, F.thi, part[w].pl, F.right)>> \o @]
       /\ pc' = [pc EXCEPT ![w] = "qs_call"]

Dispatch(w, cp) ==
    LET F     == frame[w]
        geq   == FirstGeq(F.tlo, F.thi, cp)
        found == geq < F.thi /\ Targets[geq] = cp
        gt    == IF found THEN geq + 1 ELSE geq
    IN /\ samples' = IF found THEN [samples EXCEPT ![w][geq] = pivot[w]]
                              ELSE samples
       /\ sampleIdxs' = IF found THEN [sampleIdxs EXCEPT ![w][geq] = part[w].pr]
                                 ELSE sampleIdxs
       /\ qstack' = [qstack EXCEPT ![w] =
                        <<Frame(F.tlo, geq, F.left, part[w].pr),
                          Frame(gt, F.thi, part[w].pl, F.right)>> \o @]
       /\ pc' = [pc EXCEPT ![w] = "qs_call"]

\* Lines 216-219: a call with no targets returns at once; the helper
\* returns to distributed_quickselect when no call is pending.
QsReturn(w) ==
    /\ pc[w] = "qs_call"
    /\ IF qstack[w] = <<>>
       THEN /\ pc' = [pc EXCEPT ![w] = "qs_done"]
            /\ UNCHANGED qstack
       ELSE /\ Head(qstack[w]).thi = Head(qstack[w]).tlo
            /\ qstack' = [qstack EXCEPT ![w] = Tail(@)]
            /\ UNCHANGED pc
    /\ UNCHANGED <<arr, frame, ri, master, pivot, part, curPivot, samples,
                   sampleIdxs, qchan>>

\* Lines 223-237: a call with targets tells every peer whether its window
\* [left, right) is non-empty.
QsEnter(w) ==
    /\ pc[w] = "qs_call"
    /\ qstack[w] /= <<>>
    /\ LET F == Head(qstack[w]) IN
       /\ F.thi > F.tlo
       /\ frame' = [frame EXCEPT ![w] = F]
       /\ qchan' = Send(qchan, w, Peers(w),
                        [kind |-> "ready", val |-> F.left < F.right])
    /\ qstack' = [qstack EXCEPT ![w] = Tail(@)]
    /\ ri' = [ri EXCEPT ![w] = 0]
    /\ master' = [master EXCEPT ![w] = NoRank]
    /\ pc' = [pc EXCEPT ![w] = "qs_ready"]
    /\ UNCHANGED <<arr, pivot, part, curPivot, samples, sampleIdxs>>

(* Lines 238-263: one iteration of the loop that reads the flags in rank *)
(* order and keeps the lowest ready rank as master.  After the last one,  *)
(* no master means no worker has a non-empty window: the helper fails     *)
(* with "All ranks reported empty slice".                                 *)
QsRecvReady(w) ==
    /\ pc[w] = "qs_ready"
    /\ ri[w] < W
    /\ LET i == ri[w] IN
       \/ /\ i = w
          /\ master' = [master EXCEPT ![w] =
                 IF frame[w].left < frame[w].right /\ (@ = NoRank \/ i < @)
                 THEN i ELSE @]
          /\ UNCHANGED qchan
       \/ /\ i /= w
          /\ qchan[i][w] /= <<>>
          /\ Head(qchan[i][w]).kind = "ready"
          /\ master' = [master EXCEPT ![w] =
                 IF Head(qchan[i][w]).val /\ (@ = NoRank \/ i < @) THEN i ELSE @]
          /\ qchan' = Recv(qchan, i, w)
    /\ ri' = [ri EXCEPT ![w] = @ + 1]
    /\ pc' = [pc EXCEPT ![w] = IF ri[w] + 1 = W /\ master'[w] = NoRank
                                THEN "qs_error" ELSE @]
    /\ UNCHANGED <<arr, qstack, frame, pivot, part, curPivot, samples,
                   sampleIdxs>>

\* Lines 267-285, 298-350, 355-356: the master takes arr[left] as pivot,
\* sends it to every peer and partitions its window.
QsLead(w) ==
    /\ pc[w] = "qs_ready"
    /\ ri[w] = W
    /\ master[w] = w
    /\ LET F  == frame[w]
           pv == arr[w][F.left]
           p  == Partition(arr[w], F.left, F.right, pv, TRUE)
       IN /\ pivot' = [pivot EXCEPT ![w] = pv]
          /\ qchan' = Send(qchan, w, Peers(w), [kind |-> "pivot", val |-> pv])
          /\ arr' = [arr EXCEPT ![w] = p.arr]
          /\ part' = [part EXCEPT ![w] = [pl |-> p.pl, pr |-> p.pr]]
          /\ curPivot' = [curPivot EXCEPT ![w] = p.pr]
    /\ ri' = [ri EXCEPT ![w] = 0]
    /\ pc' = [pc EXCEPT ![w] = "qs_size"]
    /\ UNCHANGED <<qstack, frame, master, samples, sampleIdxs>>

\* Lines 286-296, 298-339, 388-397: a non-master receives the pivot,
\* partitions its window and sends its partition_right to the master.
QsFollow(w) ==
    /\ pc[w] = "qs_ready"
    /\ ri[w] = W
    /\ master[w] \notin {NoRank, w}
    /\ LET m  == master[w]
           F  == frame[w]
       IN /\ qchan[m][w] /= <<>>
          /\ Head(qchan[m][w]).kind = "pivot"
          /\ LET pv == Head(qchan[m][w]).val
                 p  == Partition(arr[w], F.left, F.right, pv, FALSE)
             IN /\ pivot' = [pivot EXCEPT ![w] = pv]
                /\ arr' = [arr EXCEPT ![w] = p.arr]
                /\ part' = [part EXCEPT ![w] = [pl |-> p.pl, pr |-> p.pr]]
                /\ qchan' = Send(Recv(qchan, m, w), w, {m},
                                 [kind |-> "size", val |-> p.pr])
    /\ pc' = [pc EXCEPT ![w] = "qs_cur"]
    /\ UNCHANGED <<qstack, frame, ri, master, curPivot, samples, sampleIdxs>>

\* Lines 358-373: the master adds up the peers' partition_right in rank order.
QsRecvSize(w) ==
    /\ pc[w] = "qs_size"
    /\ ri[w] < W
    /\ LET i == ri[w] IN
       \/ /\ i = w
          /\ UNCHANGED <<curPivot, qchan>>
       \/ /\ i /= w
          /\ qchan[i][w] /= <<>>
          /\ Head(qchan[i][w]).kind = "size"
          /\ curPivot' = [curPivot EXCEPT ![w] = @ + Head(qchan[i][w]).val]
          /\ qchan' = Recv(qchan, i, w)
    /\ ri' = [ri EXCEPT ![w] = @ + 1]
    /\ UNCHANGED <<arr, qstack, pc, frame, master, pivot, part, samples,
                   sampleIdxs>>

\* Lines 375-387 and 414-446: the master broadcasts cur_pivot and recurses.
QsBroadcastCur(w) ==
    /\ pc[w] = "qs_size"
    /\ ri[w] = W
    /\ qchan' = Send(qchan, w, Peers(w), [kind |-> "cur", val |-> curPivot[w]])
    /\ Dispatch(w, curPivot[w])
    /\ UNCHANGED <<arr, frame, ri, master, pivot, part, curPivot>>

\* Mutant: cur_pivot is read without being taken off the stream.
QsRecvCurPeek(w) ==
    /\ pc[w] = "qs_cur"
    /\ LET m == master[w] IN
       /\ qchan[m][w] /= <<>>
       /\ Head(qchan[m][w]).kind = "cur"
       /\ curPivot' = [curPivot EXCEPT ![w] = Head(qchan[m][w]).val]
       /\ Dispatch(w, Head(qchan[m][w]).val)
    /\ UNCHANGED <<arr, frame, ri, master, pivot, part, qchan>>

\* Lines 399-408 and 414-446: a non-master receives cur_pivot and recurses.
QsRecvCur(w) ==
    /\ pc[w] = "qs_cur"
    /\ LET m == master[w] IN
       /\ qchan[m][w] /= <<>>
       /\ Head(qchan[m][w]).kind = "cur"
       /\ curPivot' = [curPivot EXCEPT ![w] = Head(qchan[m][w]).val]
       /\ qchan' = Recv(qchan, m, w)
       /\ Dispatch(w, Head(qchan[m][w]).val)
    /\ UNCHANGED <<arr, frame, ri, master, pivot, part>>

QsStep(w) ==
    \/ QsReturn(w)
    \/ QsEnter(w)
    \/ QsRecvReady(w)
    \/ QsLead(w)
    \/ QsFollow(w)
    \/ QsRecvSize(w)
    \/ QsBroadcastCur(w)
    \/ QsRecvCur(w)

QsAllDone == \A w \in Workers : pc[w] = "qs_done"

\* Every worker has returned from distributed_quickselect.
QsTerminated == QsAllDone /\ UNCHANGED qsVars

QsNext == (\E w \in Workers : QsStep(w)) \/ QsTerminated

QsSpec == QsInit /\ [][QsNext]_qsVars /\ \A w \in Workers : WF_qsVars(QsStep(w))

-----------------------------------------------------------------------------
\* The types of the quickselect's variables other than pc.
QsDataOK ==
    /\ \A w \in Workers : DOMAIN arr[w] = 0 .. LocalLength(w) - 1
                          /\ \A i \in DOMAIN arr[w] : arr[w][i] \in Elems
    /\ master \in [Workers -> Workers \cup {NoRank}]
    /\ ri \in [Workers -> 0 .. W]
    /\ \A w \in Workers : sampleIdxs[w] \in [TargetIdx -> 0 .. LocalLength(w)]
    /\ curPivot \in [Workers -> 0 .. N - 1]
    /\ \A s, d \in Workers : \A k \in DOMAIN qchan[s][d] :
          qchan[s][d][k].kind \in {"ready", "pivot", "size", "cur"}

QsTypeOK ==
    /\ QsDataOK
    /\ pc \in [Workers -> {"qs_call", "qs_ready", "qs_size", "qs_cur",
                           "qs_done", "qs_error"}]

\* Every worker has returned from distributed_quickselect (and may have
\* gone on to the exchange).
QsReturned == \A w \in Workers : pc[w] \notin {"qs_call", "qs_ready", "qs_size", "qs_cur"}

\* The (source, kind) of the message worker w is blocked on, if any.
Awaited(w) ==
    CASE pc[w] = "qs_ready" /\ ri[w] < W /\ ri[w] /= w -> {<<ri[w], "ready">>}
      [] pc[w] = "qs_ready" /\ ri[w] = W /\ master[w] \notin {NoRank, w}
                                                  -> {<<master[w], "pivot">>}
      [] pc[w] = "qs_size" /\ ri[w] < W /\ ri[w] /= w -> {<<ri[w], "size">>}
      [] pc[w] = "qs_cur"                         -> {<<master[w], "cur">>}
      [] OTHER                                    -> {}

(* The protocol is self-synchronising (all rounds share one tag and no     *)
(* barrier separates them): whenever a worker blocks in mpi_tls_recv_bytes *)
(* on a peer, the next message on that stream is the kind it expects     *)
(* (flag, pivot, partition size or cur_pivot), never one of a neighbouring *)
(* round; and when every worker has returned no message is left unread.   *)
StreamsStayInStep ==
    /\ \A w \in Workers : \A a \in Awaited(w) :
          qchan[a[1]][w] /= <<>> => Head(qchan[a[1]][w]).kind = a[2]
    /\ QsReturned => \A s, d \in Workers : qchan[s][d] = <<>>

(* The "All ranks reported empty slice" error (lines 259-263) is never     *)
(* taken: while a call still has targets, some worker's window is         *)
(* non-empty.                                                               *)
NoEmptySlice == \A w \in Workers : pc[w] /= "qs_error"

CountWhere(P(_)) ==
    LET RECURSIVE Sum(_)
        Sum(S) == IF S = {} THEN 0
                  ELSE LET r == CHOOSE x \in S : TRUE
                       IN Cardinality({i \in DOMAIN arr[r] : P(arr[r][i])})
                          + Sum(S \ {r})
    IN Sum(Workers)

SumIdx(k) ==
    LET RECURSIVE Sum(_)
        Sum(S) == IF S = {} THEN 0
                  ELSE LET r == CHOOSE x \in S : TRUE
                       IN sampleIdxs[r][k] + Sum(S \ {r})
    IN Sum(Workers)

(* Postcondition of distributed_quickselect (spec section 3): when all     *)
(* workers return, for each target t_k the local split points add up to   *)
(* t_k, every element left of a split on any worker is <= every element   *)
(* right of that split on any worker, all workers hold the same sample,    *)
(* and fewer than t_k elements are below the sample while at least t_k    *)
(* are at or below it.  It is checked in the states in which every       *)
(* worker is just back with success; the exchange that follows never      *)
(* writes arr, samples or sampleIdxs, and each worker leaves qs_done on   *)
(* its own, so these states are reached with every possible outcome.       *)
SelectionCorrect ==
    QsAllDone =>
      \A k \in TargetIdx :
        /\ SumIdx(k) = Targets[k]
        /\ \A v, w \in Workers :
             /\ samples[v][k] = samples[w][k]
             /\ \A p \in 0 .. sampleIdxs[w][k] - 1 :
                  \A q \in sampleIdxs[v][k] .. LocalLength(v) - 1 :
                     Cmp(arr[w][p], arr[v][q]) <= 0
        /\ CountWhere(LAMBDA e : Cmp(e, samples[0][k]) < 0) <= Targets[k]
        /\ CountWhere(LAMBDA e : Cmp(e, samples[0][k]) <= 0) >= Targets[k]

=============================================================================
