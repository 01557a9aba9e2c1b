---------------------------- MODULE MCMpiExchange ----------------------------
(***************************************************************************)
(* Three ranks after quickselect.  Rank 0 keeps two records and sends rank *)
(* 1 two and rank 2 one; rank 1 sends rank 0 one and rank 2 two; rank 2    *)
(* sends rank 1 two and rank 0 none (a NULL send slot).  Ranks 1 and 2     *)
(* take chunks of two senders at their ANY_SOURCE receive, every rank      *)
(* reposts a send after its first chunk, and ranks 1 and 2 send each other *)
(* while both may wait for the other's receive.                            *)
(***************************************************************************)
EXTENDS MpiExchange

MCChunks ==
    [s \in 0 .. 2 |->
        [d \in 0 .. 2 |->
            CASE s = 0 /\ d = 0 -> 2
              [] s = 0 /\ d = 1 -> 2
              [] s = 0 /\ d = 2 -> 1
              [] s = 1 /\ d = 0 -> 1
              [] s = 1 /\ d = 2 -> 2
              [] s = 2 /\ d = 1 -> 2
              [] OTHER -> 0]]

=============================================================================
