----------------------------- MODULE MCFastPoll -----------------------------
(* A small instance of FastPoll for TLC: one type, a ladder of two rungs.  *)
EXTENDS FastRules, TLC

CONSTANTS e1

MCTypeOf == e1 :> 1
MCBudget == <<1>>
MCBuckets == <<1, 2>>
MCStale == [over_budget |-> 0]
=============================================================================
