--------------------------- MODULE NonobliviousSort ---------------------------
(***************************************************************************)
(* nonoblivious_sort of src/enclave/nonoblivious.c (lines 471-689): the    *)
(* distributed quickselect of DistributedQuickselect, then the exchange of *)
(* distributed_sample_partition, then the local mergesort of MergeSort.    *)
(*                                                                         *)
(* The exchange uses nonblocking requests on SAMPLE_PARTITION_MPI_TAG.     *)
(* pchan[s][d] is the FIFO stream of chunks s sends to d; a chunk is the   *)
(* sequence of records of one mpi_tls_isend_bytes.  req[w][i] is           *)
(* requests[i] of worker w: 0 for MPI_TLS_NULL, otherwise the number of    *)
(* records of the pending send to i (i /= w) or the capacity of the        *)
(* pending ANY_SOURCE receive (i = w).  A send request may complete as    *)
(* soon as it is posted (MPI buffers it); MpiExchange models sends that    *)
(* wait for their receive, and the request objects behind them.            *)
(***************************************************************************)
EXTENDS DistributedQuickselect, MergeSort, FiniteSetsExt

CONSTANTS
    BUF_CHUNK   \* SAMPLE_PARTITION_BUF_SIZE (512 in the code)

\* src_local_start / src_local_length (lines 474-476 and 628-630): a floor
\* split of N over W workers.
SrcStart(r) == (N * r) \div W
SrcLength(r) == (N * (r + 1)) \div W - SrcStart(r)

\* Placeholder for the records the buffers hold before they are written.
Stale == [key |-> 0, orp_id |-> 0]

VARIABLES
    out,        \* out[w]: buf = arr + local_length, the partition's output
    numRecv,    \* num_received
    scan,       \* sample_scan_idxs
    req,        \* requests (see above)
    pchan,      \* pchan[s][d]: chunks in flight s -> d
    final,      \* the array mergesort leaves in arr
    input0      \* the arrays nonoblivious_sort was called with (history)

spVars == <<out, numRecv, scan, req, pchan, final, input0>>

vars == <<qsVars, spVars>>

\* The quickselect's variables other than pc, which the exchange leaves alone.
qsRest == <<arr, qstack, frame, ri, master, pivot, part, curPivot, samples,
            sampleIdxs, qchan>>

\* Sub-range i of worker w's partitioned array: [Begin, End) (lines 498-501).
Begin(w, i) == IF i = 0 THEN 0 ELSE sampleIdxs[w][i - 1]
End(w, i) == IF i = W - 1 THEN LocalLength(w) ELSE sampleIdxs[w][i]

\* Mutant: the MIN with the chunk size is left out.
RecvChunkNoMin(w, got) ==
    IF got <= SrcLength(w) THEN SrcLength(w) - got ELSE BUF_CHUNK

\* MIN(src_local_length - num_received, SAMPLE_PARTITION_BUF_SIZE): the
\* difference is a size_t, so once num_received exceeds the share it wraps
\* above any chunk size.
RecvChunk(w, got) ==
    IF got <= SrcLength(w) THEN Min2(SrcLength(w) - got, BUF_CHUNK) ELSE BUF_CHUNK

\* The next chunk to worker i: MIN(sample_idxs[i] - sample_scan_idxs[i],
\* SAMPLE_PARTITION_BUF_SIZE) records from sample_scan_idxs[i].
Slice(a, from, to) == [j \in 1 .. to - from |-> a[from + j - 1]]

SendChunk(a, from, to) == Slice(a, from, from + Min2(to - from, BUF_CHUNK))

\* Write the records of sequence s into array a from position p on.
WriteAt(a, p, s) ==
    [i \in DOMAIN a |-> IF p <= i /\ i < p + Len(s) THEN s[i - p + 1] ELSE a[i]]

NsInit ==
    /\ QsInit
    /\ out = [w \in Workers |-> [i \in Idx(N) |-> Stale]]
    /\ numRecv = [w \in Workers |-> 0]
    /\ scan = [w \in Workers |-> [i \in Workers |-> 0]]
    /\ req = [w \in Workers |-> [i \in Workers |-> 0]]
    /\ pchan = [s \in Workers |-> [d \in Workers |-> <<>>]]
    /\ final = [w \in Workers |-> <<>>]
    /\ input0 = arr

-----------------------------------------------------------------------------
\* Lines 480-483: a single worker copies its array to the output.
SpSingle(w) ==
    /\ W = 1
    /\ pc[w] = "qs_call"
    /\ out' = [out EXCEPT ![w] = WriteAt(@, 0, ArrToSeq(arr[w], N))]
    /\ numRecv' = [numRecv EXCEPT ![w] = N]
    /\ pc' = [pc EXCEPT ![w] = "sort"]
    /\ UNCHANGED <<qsRest, scan, req, pchan, final, input0>>

\* num_received = sample_idxs[world_rank] - sample_scan_idxs[world_rank]
\* (lines 505-506).
OwnCount(w) == End(w, w) - Begin(w, w)

\* Mutant: the copy reads from the start of the array (memcpy(out, arr, ..)).
OwnRecordsFromZero(w) == Slice(arr[w], 0, OwnCount(w))

\* The records the memcpy of lines 507-508 copies to out.
OwnRecords(w) == Slice(arr[w], Begin(w, w), End(w, w))

(* Lines 495-558, once distributed_quickselect has returned: copy the own *)
(* sub-range to out, post the receive for the rest of the share, and post *)
(* a send of the first chunk of every non-empty sub-range of a peer.       *)
SpStart(w) ==
    /\ pc[w] = "qs_done"
    /\ LET own   == OwnCount(w)
           first(i) == SendChunk(arr[w], Begin(w, i), End(w, i))
       IN /\ out' = [out EXCEPT ![w] =
                       WriteAt(@, 0, OwnRecords(w))]
          /\ numRecv' = [numRecv EXCEPT ![w] = own]
          /\ scan' = [scan EXCEPT ![w] =
                        [i \in Workers |-> IF i = w THEN End(w, w)
                                           ELSE Begin(w, i) + Len(first(i))]]
          /\ req' = [req EXCEPT ![w] =
                       [i \in Workers |-> IF i = w THEN RecvChunk(w, own)
                                          ELSE Len(first(i))]]
          /\ pchan' = [pchan EXCEPT ![w] =
                         [d \in Workers |-> IF d /= w /\ first(d) /= <<>>
                                            THEN Append(@[d], first(d)) ELSE @[d]]]
    /\ pc' = [pc EXCEPT ![w] = "sp_wait"]
    /\ UNCHANGED <<qsRest, final, input0>>

(* Lines 563-590: mpi_tls_waitany returns the receive request, matched by *)
(* the oldest chunk of some peer.  A chunk longer than the posted buffer  *)
(* is a truncation error of the receive, and the partition returns it.    *)
(* Otherwise status.count records are added, and the receive is reposted  *)
(* for the rest of the share or removed.                                   *)
SpRecv(w) ==
    /\ pc[w] = "sp_wait"
    /\ req[w][w] > 0
    /\ \E s \in Peers(w) :
         /\ pchan[s][w] /= <<>>
         /\ pchan' = [pchan EXCEPT ![s][w] = Tail(@)]
         /\ LET m   == Head(pchan[s][w])
                got == numRecv[w] + Len(m)
            IN IF Len(m) > req[w][w]
               THEN /\ pc' = [pc EXCEPT ![w] = "sp_error"]
                    /\ UNCHANGED <<out, numRecv, req>>
               ELSE /\ out' = [out EXCEPT ![w] = WriteAt(@, numRecv[w], m)]
                    /\ numRecv' = [numRecv EXCEPT ![w] = got]
                    /\ req' = [req EXCEPT ![w][w] = RecvChunk(w, got)]
                    /\ UNCHANGED pc
    /\ UNCHANGED <<qsRest, scan, final, input0>>

\* Mutant: sample_scan_idxs[index] is not advanced after the repost.
SpSendDoneNoAdvance(w, i) ==
    /\ pc[w] = "sp_wait"
    /\ i /= w
    /\ req[w][i] > 0
    /\ LET next == SendChunk(arr[w], scan[w][i], End(w, i))
       IN /\ req' = [req EXCEPT ![w][i] = Len(next)]
          /\ UNCHANGED scan
          /\ pchan' = IF next /= <<>> THEN [pchan EXCEPT ![w][i] = Append(@, next)]
                                      ELSE pchan
    /\ UNCHANGED <<qsVars, out, numRecv, final, input0>>

(* Lines 591-616: mpi_tls_waitany returns the send request to peer i: it  *)
(* is reposted with the next chunk of sub-range i, or removed when the    *)
(* sub-range has been sent.                                                *)
SpSendDone(w, i) ==
    /\ pc[w] = "sp_wait"
    /\ i /= w
    /\ req[w][i] > 0
    /\ LET next == SendChunk(arr[w], scan[w][i], End(w, i))
       IN /\ req' = [req EXCEPT ![w][i] = Len(next)]
          /\ scan' = [scan EXCEPT ![w][i] = @ + Len(next)]
          /\ pchan' = IF next /= <<>> THEN [pchan EXCEPT ![w][i] = Append(@, next)]
                                      ELSE pchan
    /\ UNCHANGED <<qsVars, out, numRecv, final, input0>>

(* Line 620, once no request is left: assert(num_received ==              *)
(* src_local_length), whose failure aborts the worker.                    *)
SpFinish(w) ==
    /\ pc[w] = "sp_wait"
    /\ \A i \in Workers : req[w][i] = 0
    /\ pc' = [pc EXCEPT ![w] = IF numRecv[w] = SrcLength(w) THEN "sort" ELSE "sp_abort"]
    /\ UNCHANGED <<qsRest, spVars>>

(* Lines 663-667: mergesort(buf, arr, src_local_length) sorts the share   *)
(* from buf into arr.                                                      *)
NsMergeSort(w) ==
    /\ pc[w] = "sort"
    /\ LET n == SrcLength(w)
           dst == [i \in Idx(n) |-> IF i < LocalLength(w) THEN arr[w][i] ELSE Stale]
       IN final' = [final EXCEPT ![w] = MergeSortArr([i \in Idx(n) |-> out[w][i]], dst, n)]
    /\ pc' = [pc EXCEPT ![w] = "done"]
    /\ UNCHANGED <<qsRest, out, numRecv, scan, req, pchan, input0>>

NsStep(w) ==
    \/ W > 1 /\ QsStep(w) /\ UNCHANGED spVars
    \/ SpSingle(w)
    \/ SpStart(w)
    \/ SpRecv(w)
    \/ \E i \in Workers : SpSendDone(w, i)
    \/ SpFinish(w)
    \/ NsMergeSort(w)

NsAllDone == \A w \in Workers : pc[w] = "done"

\* Every worker has returned from nonoblivious_sort.
NsTerminated == NsAllDone /\ UNCHANGED vars

NsNext == (\E w \in Workers : NsStep(w)) \/ NsTerminated

NsSpec == NsInit /\ [][NsNext]_vars

-----------------------------------------------------------------------------
NsTypeOK ==
    /\ QsDataOK
    /\ pc \in [Workers -> {"qs_call", "qs_ready", "qs_size", "qs_cur", "qs_done",
                           "qs_error", "sp_wait", "sp_error", "sp_abort", "sort",
                           "done"}]
    /\ out \in [Workers -> [Idx(N) -> Elems \cup {Stale}]]
    /\ numRecv \in [Workers -> 0 .. N]
    /\ req \in [Workers -> [Workers -> 0 .. BUF_CHUNK]]
    /\ \A s, d \in Workers : \A k \in DOMAIN pchan[s][d] :
          pchan[s][d][k] \in Seq(Elems) /\ 1 <= Len(pchan[s][d][k])

\* Records in chunks on their way from s to d.
InFlight(s, d) == MapThenSumSet(LAMBDA k : Len(pchan[s][d][k]), DOMAIN pchan[s][d])

Exchanging(w) == pc[w] \in {"sp_wait", "sp_error", "sp_abort", "sort", "done"}

(* Conservation of the exchange (spec section 8, property 7): once every  *)
(* worker has posted its first requests, each worker's share              *)
(* src_local_length is exactly what it has received, plus what is in      *)
(* flight to it, plus what its peers have still to send it.  Relates the  *)
(* floor split of the receiver to the quickselect's sample_idxs on every  *)
(* sender, and the chunk cursors to the waitany bookkeeping.              *)
ExchangeConserves ==
    (\A w \in Workers : Exchanging(w)) =>
      \A d \in Workers :
        numRecv[d] + MapThenSumSet(LAMBDA s : InFlight(s, d) + End(s, d) - scan[s][d],
                                   Peers(d))
          = SrcLength(d)

Occurs(e, a) == Cardinality({i \in DOMAIN a : a[i] = e})

(* When every worker has returned, the records, read worker by worker in  *)
(* rank order, are sorted by (key, orp_id) and are the input records, each *)
(* as often as in the input (spec section 8, properties 1 and 2).          *)
SortedAcrossWorkers ==
    NsAllDone =>
      /\ \A v, w \in Workers : \A i \in DOMAIN final[v] : \A j \in DOMAIN final[w] :
            (v < w \/ (v = w /\ i < j)) => Cmp(final[v][i], final[w][j]) <= 0
      /\ \A e \in Elems :
            MapThenSumSet(LAMBDA w : Occurs(e, final[w]), Workers)
              = MapThenSumSet(LAMBDA w : Occurs(e, input0[w]), Workers)

(* Every receive is posted inside buf: buf = arr + local_length and the   *)
(* host allocates 2 * local_length records (host/parallel.c 607), so the *)
(* records a worker receives must fit in local_length of them.            *)
ReceiveFitsBuffer == \A w \in Workers : numRecv[w] + req[w][w] <= LocalLength(w)
=============================================================================
