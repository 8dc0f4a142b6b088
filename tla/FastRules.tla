----------------------------- MODULE FastRules -----------------------------
(***************************************************************************)
(* The alerts on single executions, and on the monitor itself, over the    *)
(* gauges of the fast poll.                                                *)
(***************************************************************************)
EXTENDS FastPoll, VisibilityRules

ShownValue(g) == IF g.at = NoSeries THEN Absent ELSE g.n

(* The rungs with bucket="2".                                              *)
SecondRungs == {j \in 1..NumBuckets : Buckets[j] = 2}
AlertOverBudget(i) == \E j \in SecondRungs : ExecutionsOverBudget(ShownValue(ladder[i][j]))
AlertStale(i, kind) ==
  MonitorStale(kind, clock, fresh[i][kind].stamp)

(* An execution past twice its budget is on an alert: once the kind has    *)
(* been polled, one that has been past it for longer than the staleness    *)
(* threshold and the time the last full poll took either fires             *)
(* ExecutionsOverBudget or the monitor is reported stale, whatever query   *)
(* failed (generate_visibility_rules.py 186-193, a frozen gauge looks      *)
(* healthy).                                                               *)
LateSeenOrStale ==
  \A i \in WorkflowTypes :
    LET last == fresh[i]["over_budget"]
        reported == clock - StaleAfter["over_budget"] - (last.stamp - last.poll)
    IN /\ last.stamp # NoSeries
       /\ OverBudget(i, 2, reported) # {}
       => AlertOverBudget(i) \/ AlertStale(i, "over_budget")

StuckShown == \A i \in WorkflowTypes, c \in 1..Causes : ShownValue(stuckGauge[i][c]) # Absent

(* Stuck detection ends in the mode the server and the configuration call  *)
(* for: with the attribute and not configured away, the series of every    *)
(* cause is there; otherwise StuckDetectionUnavailable fires.  Neither     *)
(* may happen only while the monitor is shut down, or while the probe is   *)
(* made again for ever because every attempt met an error that settles     *)
(* nothing: no single error decides it, and none ends the retries          *)
(* (monitor.go 110-117 and 172-175).                                       *)
StuckSettled ==
  \/ <>cancelled
  \/ []<>(fpc = "probe")
  \/ <>[](IF supported /\ ~fallback THEN StuckShown ELSE StuckDetectionUnavailable(detection))
=============================================================================
