------------------------------- MODULE Exchange -------------------------------
(***************************************************************************)
(* What the transport contract (spec section 4.3) promises the chunked     *)
(* exchange of distributed_sample_partition: rank s sends rank d the       *)
(* chunks 1 .. Chunks[s][d], each once and in order, on a FIFO stream per  *)
(* (sender, receiver) pair; the receiver takes the head of any non-empty   *)
(* stream (MPI_TLS_ANY_SOURCE) and counts what it has received.            *)
(***************************************************************************)
EXTENDS Naturals, Sequences

CONSTANTS
    Ranks,      \* the ranks
    Chunks      \* Chunks[s][d]: number of chunks rank s sends rank d

VARIABLES
    chan,       \* chan[<<s, d>>]: chunks sent from s to d, not yet received
    sent,       \* sent[<<s, d>>]: chunks s has sent d
    recvd       \* recvd[d]: chunks d has received

exVars == <<chan, sent, recvd>>

ExInit ==
    /\ chan = [p \in Ranks \X Ranks |-> <<>>]
    /\ sent = [p \in Ranks \X Ranks |-> 0]
    /\ recvd = [d \in Ranks |-> 0]

\* s sends d its next chunk.
ExSend(s, d) ==
    /\ sent[<<s, d>>] < Chunks[s][d]
    /\ chan' = [chan EXCEPT ![<<s, d>>] = Append(@, sent[<<s, d>>] + 1)]
    /\ sent' = [sent EXCEPT ![<<s, d>>] = @ + 1]
    /\ UNCHANGED recvd

\* d receives the oldest chunk s has sent it.
ExDeliver(s, d) ==
    /\ chan[<<s, d>>] /= <<>>
    /\ chan' = [chan EXCEPT ![<<s, d>>] = Tail(@)]
    /\ recvd' = [recvd EXCEPT ![d] = @ + 1]
    /\ UNCHANGED sent

ExNext == \E s, d \in Ranks : ExSend(s, d) \/ ExDeliver(s, d)

ExSpec == ExInit /\ [][ExNext]_exVars

=============================================================================
