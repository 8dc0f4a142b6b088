------------------------- MODULE MCPercentileSearch -------------------------
(* Four executions, one of them longer than the range, the median and a    *)
(* percentile whose rank must be rounded up.                               *)
EXTENDS PercentileSearch, TLC

CONSTANTS e1, e2, e3, e4

MCDurationOf == (e1 :> 1) @@ (e2 :> 3) @@ (e3 :> 7) @@ (e4 :> 12)
MCPercentiles == <<500, 900>>
=============================================================================
