--------------------------- MODULE MCPyLabWorker ---------------------------
(* Two option sets, two cache sizes, one ioConcurrency.                    *)
EXTENDS PyLabWorker

MCBaseline == [opts |-> "base", cache |-> 1000, io |-> 2]
MCOptions == {"base", "one_slot"}
MCCaches == {2, 1000}
MCPostedIO == {2}
=============================================================================
