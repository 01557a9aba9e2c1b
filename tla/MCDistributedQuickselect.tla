---------------------- MODULE MCDistributedQuickselect ----------------------
(* Instantiates the quickselect for TLC.  orp_id is 0 in every record:    *)
(* the host zeroes each record (host/parallel.c 628) and orshuffle_sort    *)
(* assigns ORP IDs over a length of 0 (orshuffle.c 275), so equal keys     *)
(* compare equal, and duplicates are in the input space.                   *)
EXTENDS DistributedQuickselect

MCElems == [key : 1 .. 3, orp_id : {0}]
=============================================================================
