------------------------- MODULE MCNonobliviousSort -------------------------
(* Instantiates nonoblivious_sort for TLC.  orp_id is 0 in every record,  *)
(* as in MCDistributedQuickselect.                                         *)
EXTENDS HostMain

MCElems == [key : 1 .. 3, orp_id : {0}]
=============================================================================
