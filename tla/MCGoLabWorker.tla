--------------------------- MODULE MCGoLabWorker ---------------------------
(* Two option sets, two cache sizes; the ioConcurrency that is posted is   *)
(* below the lower bound, which validate raises it to.                     *)
EXTENDS GoLabWorker

MCBaseline == [opts |-> "base", cache |-> 1000, io |-> 2]
MCOptions == {"base", "one_slot"}
MCCaches == {2, 1000}
MCPostedIO == {0}
=============================================================================
