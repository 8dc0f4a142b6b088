------------------------------ MODULE MCBoards ------------------------------
(* Small instance: the 36 panels of the demo's golden-signals board may    *)
(* grow into the ids of row P, which start two above.                      *)
EXTENDS Boards
=============================================================================
