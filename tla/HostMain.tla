------------------------------ MODULE HostMain ------------------------------
(***************************************************************************)
(* What main of src/host/parallel.c (lines 650-761) does on every rank     *)
(* once the enclave's sort has been called: the ecall's result, the join   *)
(* of the worker threads and MPI_Barrier, the check loop in which rank r   *)
(* decrypts and checks its own records in turn r, every turn ending in     *)
(* MPI_Barrier, and the boundary check in which each rank sends its last   *)
(* key to the next rank, which compares it with its first key.  The sort   *)
(* is NonobliviousSort; its output final[w] is what the host decrypts.    *)
(* Encryption round-trips the record and timing is left out.               *)
(***************************************************************************)
EXTENDS NonobliviousSort

VARIABLES
    hpc,        \* hpc[w]: where main of rank w is
    barriers,   \* barriers[w]: MPI_Barrier calls rank w has entered since the ecall
    firstKey,   \* first_key
    prevKey,    \* prev_key
    reported,   \* reported[w]: rank w printed "Not sorted correctly!" (either message)
    hchan       \* hchan[w]: keys rank w - 1 has sent rank w and w has not received

hostVars == <<hpc, barriers, firstKey, prevKey, reported, hchan>>

allVars == <<vars, hostVars>>

HostInit ==
    /\ NsInit
    /\ hpc = [w \in Workers |-> "ecall"]
    /\ barriers = [w \in Workers |-> 0]
    /\ firstKey = [w \in Workers |-> 0]
    /\ prevKey = [w \in Workers |-> 0]
    /\ reported = [w \in Workers |-> FALSE]
    /\ hchan = [w \in Workers |-> <<>>]

(* The records rank w decrypts: the first local_length records of the    *)
(* array the ecall sorted in place.  mergesort fills src_local_length of  *)
(* them; the two lengths agree whenever W divides N, as in every run that *)
(* reaches the check.                                                      *)
HostRecords(w) == ArrToSeq(final[w], LocalLength(w))

CheckRecords(s) ==
    LET bad == {i \in 2 .. Len(s) : s[i - 1].key > s[i].key}
        stop == IF bad = {} THEN Len(s) ELSE Min(bad) - 1
    IN IF s = <<>> THEN [first |-> 0, prev |-> 0, bad |-> FALSE]
       ELSE [first |-> s[1].key, prev |-> s[stop].key, bad |-> bad /= {}]

\* Mutant: equal keys at a boundary are reported.
BoundaryOkStrict(prev, first) == prev < first

\* Line 738: the boundary is in order unless prev_key > first_key.
BoundaryOk(prev, first) == ~(prev > first)

(* Lines 650-691: the ecall returns once nonoblivious_sort has.  On an    *)
(* error main jumps to exit_free_arr without joining the threads; else it *)
(* joins them (their work ends with the sort) and enters MPI_Barrier.     *)
EcallReturned(w) ==
    /\ hpc[w] = "ecall"
    /\ pc[w] \in {"done", "qs_error", "sp_error"}
    /\ IF pc[w] = "done"
       THEN /\ hpc' = [hpc EXCEPT ![w] = "check"]
            /\ barriers' = [barriers EXCEPT ![w] = 1]
       ELSE /\ hpc' = [hpc EXCEPT ![w] = "exit"]
            /\ UNCHANGED barriers
    /\ UNCHANGED <<vars, firstKey, prevKey, reported, hchan>>

\* Mutant: the loop runs one turn too many (rank <= world_size).
CheckTurnExtra(w) ==
    /\ hpc[w] = "check"
    /\ barriers[w] <= W + 1
    /\ \A v \in Workers : barriers[v] >= barriers[w]
    /\ LET c == CheckRecords(HostRecords(w))
       IN IF barriers[w] - 1 = w
          THEN /\ firstKey' = [firstKey EXCEPT ![w] = c.first]
               /\ prevKey' = [prevKey EXCEPT ![w] = c.prev]
               /\ reported' = [reported EXCEPT ![w] = c.bad]
          ELSE UNCHANGED <<firstKey, prevKey, reported>>
    /\ barriers' = [barriers EXCEPT ![w] = @ + 1]
    /\ UNCHANGED <<vars, hpc, hchan>>

(* Lines 702-725, one turn of the check loop: rank w leaves the barrier   *)
(* it is in once every rank has entered it; in its own turn it checks its *)
(* records; then it enters the next MPI_Barrier.                          *)
CheckTurn(w) ==
    /\ hpc[w] = "check"
    /\ barriers[w] <= W
    /\ \A v \in Workers : barriers[v] >= barriers[w]
    /\ LET turn == barriers[w] - 1
           c    == CheckRecords(HostRecords(w))
       IN IF turn = w
          THEN /\ firstKey' = [firstKey EXCEPT ![w] = c.first]
               /\ prevKey' = [prevKey EXCEPT ![w] = c.prev]
               /\ reported' = [reported EXCEPT ![w] = c.bad]
          ELSE UNCHANGED <<firstKey, prevKey, reported>>
    /\ barriers' = [barriers EXCEPT ![w] = @ + 1]
    /\ UNCHANGED <<vars, hpc, hchan>>

(* Lines 727-732: after the last barrier, a rank below world_size - 1     *)
(* sends prev_key to the next rank (MPI_Send; the sends form a chain, so  *)
(* even one that waits for its receive cannot deadlock).                  *)
BoundarySend(w) ==
    /\ hpc[w] = "check"
    /\ barriers[w] = W + 1
    /\ \A v \in Workers : barriers[v] >= W + 1
    /\ hpc' = [hpc EXCEPT ![w] = "recv"]
    /\ hchan' = IF w < W - 1 THEN [hchan EXCEPT ![w + 1] = Append(@, prevKey[w])]
                             ELSE hchan
    /\ UNCHANGED <<vars, barriers, firstKey, prevKey, reported>>

(* Lines 734-741: a rank above 0 receives the previous rank's last key    *)
(* into prev_key and reports when it exceeds its own first key; then main *)
(* frees arr, terminates the enclave and finalizes MPI (lines 753-761).   *)
BoundaryRecv(w) ==
    /\ hpc[w] = "recv"
    /\ \/ /\ w = 0
          /\ UNCHANGED <<prevKey, reported, hchan>>
       \/ /\ w > 0
          /\ hchan[w] /= <<>>
          /\ prevKey' = [prevKey EXCEPT ![w] = Head(hchan[w])]
          /\ reported' = [reported EXCEPT ![w] =
                            @ \/ ~BoundaryOk(Head(hchan[w]), firstKey[w])]
          /\ hchan' = [hchan EXCEPT ![w] = Tail(@)]
    /\ hpc' = [hpc EXCEPT ![w] = "exit"]
    /\ UNCHANGED <<vars, barriers, firstKey>>

HostStep(w) == EcallReturned(w) \/ CheckTurn(w) \/ BoundarySend(w) \/ BoundaryRecv(w)

\* Every rank's main has returned.
HostTerminated == (\A w \in Workers : hpc[w] = "exit") /\ UNCHANGED allVars

HostNext ==
    \/ (\E w \in Workers : NsStep(w)) /\ UNCHANGED hostVars
    \/ \E w \in Workers : HostStep(w)
    \/ HostTerminated

HostSpec == HostInit /\ [][HostNext]_allVars

-----------------------------------------------------------------------------
HostTypeOK ==
    /\ hpc \in [Workers -> {"ecall", "check", "recv", "exit"}]
    /\ barriers \in [Workers -> 0 .. W + 1]
    /\ reported \in [Workers -> BOOLEAN]
    /\ \A w \in Workers : Len(hchan[w]) <= 1

\* The keys of all ranks' records, read rank by rank, are in order.
KeysSorted ==
    \A v, w \in Workers :
      \A i \in DOMAIN HostRecords(v) : \A j \in DOMAIN HostRecords(w) :
        (v < w \/ (v = w /\ i < j)) => HostRecords(v)[i].key <= HostRecords(w)[j].key

(* The host's check (spec section 8, S4, and the order within each rank)  *)
(* raises no false alarm on the sort's output: once every rank's main has *)
(* returned after a successful sort, a rank has printed "Not sorted       *)
(* correctly" only if the keys, read rank by rank, are out of order.  The  *)
(* verdict is assembled from W separate checks joined by barriers and one *)
(* MPI message per boundary, and equal keys, within a rank or across a     *)
(* boundary, must not be reported.                                         *)
HostNoFalseAlarm ==
    (\A w \in Workers : hpc[w] = "exit" /\ pc[w] = "done") =>
      ((\E w \in Workers : reported[w]) => ~KeysSorted)
=============================================================================
