----------------------------- MODULE MpiExchange -----------------------------
(***************************************************************************)
(* The chunked exchange of distributed_sample_partition (nonoblivious.c)   *)
(* run by every rank over the host's ocall adapter (parallel.c): the       *)
(* posting loop, the waitany loop, and the request objects and bounce      *)
(* buffers that ocall_mpi_isend_bytes / ocall_mpi_irecv_bytes allocate and *)
(* ocall_mpi_waitany frees.  One chunk is one record (BUF_CHUNK = 1);      *)
(* Chunks[s][d] is the number of records rank s holds for rank d, and      *)
(* Chunks[r][r] is the part rank r copies to its own output.               *)
(*                                                                         *)
(* The enclave's mpi_tls layer between the two (not under src/) passes a   *)
(* request through to the ocalls: requests[i] of the caller holds the      *)
(* ocall's request pointer, or the NULL sentinel.  MPI itself is modelled  *)
(* from its standard semantics: messages of one sender to one receiver on  *)
(* one tag match in order; a send request completes when its message is    *)
(* matched, or earlier if MPI buffers it.  No error handler is installed   *)
(* in src/, so MPI calls abort on error and never return one; the only     *)
(* failures that reach the code are the ocalls' mallocs (MallocMayFail).   *)
(***************************************************************************)
EXTENDS Naturals, Sequences
LOCAL INSTANCE FiniteSetsExt

CONSTANTS
    W,              \* world_size
    Chunks,         \* Chunks[s][d]: records rank s sends rank d
    MallocMayFail   \* whether an ocall's malloc may return NULL

Ranks == 0 .. W - 1

VARIABLES
    pc,         \* pc[r] \in {"post", "wait", "done", "error", "abort"}
    pi,         \* pi[r]: index i of the posting loop
    scan,       \* scan[r][i]: sample_scan_idxs[i] - start of sub-range i
    numRecv,    \* numRecv[r]: num_received
    reqLen,     \* reqLen[r]: requests_len
    slot,       \* slot[r][i]: requests[i] is "null", "live" or "stale" (freed)
    heap,       \* heap[r]: ocall blocks (requests and bounce buffers) allocated
    mreq,       \* mreq[r][i]: the MPI request of slot i: "none", "pending", "complete"
    net,        \* net[<<s, d>>]: chunks sent by s to d, not yet matched
    uaf         \* an ocall has read a freed request object

vars == <<pc, pi, scan, numRecv, reqLen, slot, heap, mreq, net, uaf>>

\* src_local_length: what rank r must hold when the exchange ends.
Expected(r) == MapThenSumSet(LAMBDA s : Chunks[s][r], Ranks)

\* Results an ocall that mallocs can have: TRUE is success.
OcallOk == IF MallocMayFail THEN BOOLEAN ELSE {TRUE}

\* keep_rank tested with >= for a send, so a finished peer is sent again.
MoreSendAgain(r, i, received) ==
    IF i = r THEN Expected(r) - received > 0
             ELSE Chunks[r][i] - scan[r][i] >= 0

\* The receive slot retired one chunk early.
MoreRecvEarly(r, i, received) ==
    IF i = r THEN Expected(r) - received > 1
             ELSE Chunks[r][i] - scan[r][i] > 0

\* Whether slot i of rank r still has records to move.
More(r, i, received) ==
    IF i = r THEN Expected(r) - received > 0
             ELSE Chunks[r][i] - scan[r][i] > 0

MxInit ==
    /\ pc = [r \in Ranks |-> "post"]
    /\ pi = [r \in Ranks |-> 0]
    /\ scan = [r \in Ranks |-> [i \in Ranks |-> IF i = r THEN Chunks[r][r] ELSE 0]]
    /\ numRecv = [r \in Ranks |-> Chunks[r][r]]
    /\ reqLen = [r \in Ranks |-> W]
    /\ slot = [r \in Ranks |-> [i \in Ranks |-> "null"]]
    /\ heap = [r \in Ranks |-> 0]
    /\ mreq = [r \in Ranks |-> [i \in Ranks |-> "none"]]
    /\ net = [p \in Ranks \X Ranks |-> <<>>]
    /\ uaf = FALSE

(***************************************************************************)
(* A successful mpi_tls_isend_bytes / mpi_tls_irecv_bytes into slot i,     *)
(* with h blocks allocated before it: the ocall mallocs the request and    *)
(* its bounce buffer and starts MPI_Isend / MPI_Irecv; for a send the      *)
(* caller then advances sample_scan_idxs[i] by the chunk.                  *)
(***************************************************************************)
Start(r, i, h) ==
    /\ heap' = [heap EXCEPT ![r] = h + 2]
    /\ slot' = [slot EXCEPT ![r][i] = "live"]
    /\ mreq' = [mreq EXCEPT ![r][i] = "pending"]
    /\ IF i = r
         THEN UNCHANGED <<net, scan>>
         ELSE /\ net' = [net EXCEPT ![<<r, i>>] = Append(@, scan[r][i] + 1)]
              /\ scan' = [scan EXCEPT ![r][i] = @ + 1]

\* The posting loop's step for slot i = pi[r]: NULL when there is nothing
\* to move, else post the request; a failed post goes to exit.
Post(r) ==
    LET i == pi[r] IN
    /\ pc[r] = "post"
    /\ \/ /\ ~More(r, i, numRecv[r])
          /\ slot' = [slot EXCEPT ![r][i] = "null"]
          /\ reqLen' = [reqLen EXCEPT ![r] = @ - 1]
          /\ UNCHANGED <<heap, mreq, net, scan>>
          /\ pc' = [pc EXCEPT ![r] = IF i = W - 1 THEN "wait" ELSE "post"]
       \/ /\ More(r, i, numRecv[r])
          /\ \E ok \in OcallOk :
               IF ok THEN /\ Start(r, i, heap[r])
                          /\ pc' = [pc EXCEPT ![r] = IF i = W - 1 THEN "wait" ELSE "post"]
                          /\ UNCHANGED reqLen
                     ELSE /\ pc' = [pc EXCEPT ![r] = "error"]
                          /\ UNCHANGED <<reqLen, slot, heap, mreq, net, scan>>
    /\ pi' = [pi EXCEPT ![r] = @ + 1]
    /\ UNCHANGED <<numRecv, uaf>>

\* ocall_mpi_waitany copies requests[i]->mpi_request of every non-NULL slot,
\* so a slot left holding a freed request is read after free.
ReadsFreed(r) == \E i \in Ranks : slot[r][i] = "stale"

\* `num_received += req_num_received` when the receive slot completed.
ReceivedNotCounted(r, i) == numRecv[r]

Received(r, i) == IF i = r THEN numRecv[r] + 1 ELSE numRecv[r]

\* `if (!keep_rank)`: requests[index].type = MPI_TLS_NULL; requests_len--.
RetireNoNull(r, i) ==
    /\ slot' = [slot EXCEPT ![r][i] = "stale"]
    /\ reqLen' = [reqLen EXCEPT ![r] = @ - 1]

Retire(r, i) ==
    /\ slot' = [slot EXCEPT ![r][i] = "null"]
    /\ reqLen' = [reqLen EXCEPT ![r] = @ - 1]

(***************************************************************************)
(* One iteration of the waitany loop after slot i completed and the ocall  *)
(* freed its request and bounce buffer, leaving h blocks: the caller       *)
(* counts a received chunk, then reposts on slot i or retires it; a failed *)
(* repost goes to exit with the freed request still in the slot.           *)
(***************************************************************************)
Completed(r, i, h) ==
    LET received == Received(r, i) IN
    /\ numRecv' = [numRecv EXCEPT ![r] = received]
    /\ IF More(r, i, received)
         THEN \E ok \in OcallOk :
                IF ok THEN /\ Start(r, i, h)
                           /\ UNCHANGED <<pc, reqLen>>
                      ELSE /\ heap' = [heap EXCEPT ![r] = h]
                           /\ slot' = [slot EXCEPT ![r][i] = "stale"]
                           /\ mreq' = [mreq EXCEPT ![r][i] = "none"]
                           /\ pc' = [pc EXCEPT ![r] = "error"]
                           /\ UNCHANGED <<reqLen, net, scan>>
         ELSE /\ heap' = [heap EXCEPT ![r] = h]
              /\ mreq' = [mreq EXCEPT ![r][i] = "none"]
              /\ Retire(r, i)
              /\ UNCHANGED <<pc, net, scan>>

\* The body of `while (requests_len)`: mpi_tls_waitany blocks until some
\* non-NULL request has completed.  Building its request array reads every
\* non-NULL slot, a freed one included (recorded in uaf).  All slots NULL
\* is MPI_UNDEFINED, which the ocall returns as -1, and the loop exits.
\* ocall_mpi_waitany freeing the request but not its bounce buffer.
WaitAnyKeepBuf(r) ==
    /\ pc[r] = "wait"
    /\ reqLen[r] > 0
    /\ uaf' = (uaf \/ ReadsFreed(r))
    /\ IF \A i \in Ranks : slot[r][i] = "null"
         THEN /\ pc' = [pc EXCEPT ![r] = "error"]
              /\ UNCHANGED <<numRecv, reqLen, slot, heap, mreq, net, scan>>
         ELSE \E i \in Ranks : /\ slot[r][i] = "live"
                               /\ mreq[r][i] = "complete"
                               /\ Completed(r, i, heap[r] - 1)
    /\ UNCHANGED pi

WaitAny(r) ==
    /\ pc[r] = "wait"
    /\ reqLen[r] > 0
    /\ uaf' = (uaf \/ ReadsFreed(r))
    /\ IF \A i \in Ranks : slot[r][i] = "null"
         THEN /\ pc' = [pc EXCEPT ![r] = "error"]
              /\ UNCHANGED <<numRecv, reqLen, slot, heap, mreq, net, scan>>
         ELSE \E i \in Ranks : /\ slot[r][i] = "live"
                               /\ mreq[r][i] = "complete"
                               /\ Completed(r, i, heap[r] - 2)
    /\ UNCHANGED pi

\* The loop has ended: assert(num_received == src_local_length).
Finish(r) ==
    /\ pc[r] = "wait"
    /\ reqLen[r] = 0
    /\ pc' = [pc EXCEPT ![r] = IF numRecv[r] = Expected(r) THEN "done" ELSE "abort"]
    /\ UNCHANGED <<pi, scan, numRecv, reqLen, slot, heap, mreq, net, uaf>>

(***************************************************************************)
(* MPI.  A posted receive of d from any source takes the oldest message of *)
(* some sender s; the send request whose message it is then completes (a   *)
(* rank has one send to d in flight, so a pending send's message is the    *)
(* last of net[<<s, d>>]).  MpiBuffer: MPI may complete a send before it   *)
(* is matched by buffering it (eager protocol); it need not.               *)
(***************************************************************************)
MpiMatch(s, d) ==
    /\ mreq[d][d] = "pending"
    /\ net[<<s, d>>] /= <<>>
    /\ net' = [net EXCEPT ![<<s, d>>] = Tail(@)]
    /\ mreq' = [mreq EXCEPT ![d][d] = "complete",
                            ![s][d] = IF Len(net[<<s, d>>]) = 1 /\ @ = "pending"
                                        THEN "complete" ELSE @]
    /\ UNCHANGED <<pc, pi, scan, numRecv, reqLen, slot, heap, uaf>>

MpiBuffer(s, d) ==
    /\ s /= d
    /\ mreq[s][d] = "pending"
    /\ mreq' = [mreq EXCEPT ![s][d] = "complete"]
    /\ UNCHANGED <<pc, pi, scan, numRecv, reqLen, slot, heap, net, uaf>>

RankStep(r) == Post(r) \/ WaitAny(r) \/ Finish(r)

\* Every rank has returned from the exchange.
Terminated ==
    /\ \A r \in Ranks : pc[r] = "done"
    /\ UNCHANGED vars

MxNext ==
    \/ \E r \in Ranks : RankStep(r)
    \/ \E s, d \in Ranks : MpiMatch(s, d) \/ MpiBuffer(s, d)
    \/ Terminated

(***************************************************************************)
(* Each rank is a process that runs while it can, and MPI's progress rule  *)
(* completes a matching send and receive.  Buffering is not assumed: a     *)
(* send may wait for its receive (rendezvous).                             *)
(***************************************************************************)
MxSpec ==
    /\ MxInit
    /\ [][MxNext]_vars
    /\ \A r \in Ranks : WF_vars(RankStep(r))
    /\ \A s, d \in Ranks : WF_vars(MpiMatch(s, d))

-----------------------------------------------------------------------------

MxTypeOK ==
    /\ pc \in [Ranks -> {"post", "wait", "done", "error", "abort"}]
    /\ pi \in [Ranks -> 0 .. W]
    /\ \A r, i \in Ranks : scan[r][i] \in 0 .. Chunks[r][i]
    /\ numRecv \in [Ranks -> Nat]
    /\ reqLen \in [Ranks -> 0 .. W]
    /\ slot \in [Ranks -> [Ranks -> {"null", "live", "stale"}]]
    /\ heap \in [Ranks -> Nat]
    /\ mreq \in [Ranks -> [Ranks -> {"none", "pending", "complete"}]]
    /\ uaf \in BOOLEAN

\* No ocall ever reads a request object that ocall_mpi_waitany has freed:
\* every slot whose request completed is reposted or set to MPI_TLS_NULL
\* before the loop waits again.
AdapterMemorySafe == ~uaf

\* A rank that has returned from the exchange holds no ocall request or
\* bounce buffer and has no MPI request still running: everything
\* isend/irecv allocated was freed by a waitany that completed it.
NoLeakWhenDone ==
    \A r \in Ranks : pc[r] = "done" =>
        /\ heap[r] = 0
        /\ \A i \in Ranks : mreq[r][i] = "none"

\* If a rank's exchange fails, it has released what it allocated and left
\* no MPI request running (spec: the orchestrator releases all scratch;
\* in-flight requests are cancelled).
ReleasedOnError ==
    \A r \in Ranks : pc[r] = "error" =>
        /\ heap[r] = 0
        /\ \A i \in Ranks : mreq[r][i] = "none"

\* Every rank leaves the waitany loop and passes the final count, even
\* when MPI buffers no send.
AllRanksDone == <>(\A r \in Ranks : pc[r] = "done")

\* What the exchange looks like through the refinement mapping: the
\* chunks in MPI's queues, each sender's cursor, and what each receiver
\* has received, counting a completed receive not yet taken by waitany.
ExRecvd(d) ==
    numRecv[d] - Chunks[d][d] + (IF mreq[d][d] = "complete" THEN 1 ELSE 0)

Ex == INSTANCE Exchange WITH
        chan <- net,
        sent <- [p \in Ranks \X Ranks |-> IF p[1] = p[2] THEN 0 ELSE scan[p[1]][p[2]]],
        recvd <- [d \in Ranks |-> ExRecvd(d)]

\* The ranks' send cursors, MPI's matching and the receive counts together
\* implement the abstract exchange: each chunk sent once, in order, and
\* counted once when received.
ExchangeRefined == Ex!ExSpec

=============================================================================
