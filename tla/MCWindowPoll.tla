---------------------------- MODULE MCWindowPoll ----------------------------
(* A small instance of WindowPoll for TLC: two types, two executions.       *)
EXTENDS WindowRules, TLC

CONSTANTS e1, e2

MCTypeOf == e1 :> 1 @@ e2 :> 1
MCBudget == <<1, 2>>
MCStale == [closed_window |-> 1]
=============================================================================
