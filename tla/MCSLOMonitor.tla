---------------------------- MODULE MCSLOMonitor ----------------------------
(* A small instance of SLOMonitor for TLC.  The store is empty: what the   *)
(* polls count is the subject of MCWindowPoll and MCFastPoll, here it is   *)
(* the order of their steps.                                               *)
EXTENDS SLOMonitor

NoExecOf == [e \in {} |-> 1]
OneBudget == <<1>>
OneRung == <<1>>
=============================================================================
