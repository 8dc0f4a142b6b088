---------------------------- MODULE WindowRules ----------------------------
(***************************************************************************)
(* The compliance rules over the gauges of the window poll.                *)
(***************************************************************************)
EXTENDS WindowPoll, VisibilityRules

ShownGauge(i, t) == IF At(i, t) = NoSeries THEN Absent ELSE Gauge(i, t)

RemainingShown(i) ==
  BudgetRemaining(Compliance(ShownGauge(i, "in"), ShownGauge(i, "over"), ShownGauge(i, "open")))

(* The budget that really remained at instant now, with only the late      *)
(* executions that no answer of the store can have hidden.                 *)
RemainingAt(i, now) ==
  LET late == Cardinality(SettledLate(i, now))
      all == late + Cardinality(ClosedInBudget(i, now))
      allowed == (Whole - ObjectiveRatio) * all
  IN <<allowed - late * Whole, allowed>>

(* The budget alerts never flatter: at every scrape outside a publication, *)
(* a budget that was low or exhausted at the instant of the poll is shown  *)
(* as such, with the late executions still open in the denominator, so     *)
(* that terminating them improves nothing (generate_visibility_rules.py    *)
(* 83-87, 175-178).                                                        *)
BudgetNotFlattered ==
  \A i \in WorkflowTypes : ~Publishing(i) /\ Published(i) =>
    LET at == At(i, "open") IN
    /\ BudgetLow(RemainingAt(i, at)) => BudgetLow(RemainingShown(i))
    /\ BudgetExhausted(RemainingAt(i, at)) => BudgetExhausted(RemainingShown(i))

(* A type none of whose executions is in the window has spent nothing of   *)
(* its budget (generate_visibility_rules.py 111, 1.0 is untouched).        *)
QuietTypeKeepsBudget ==
  \A i \in WorkflowTypes :
    Published(i) /\ Started(i) = {} => ~BudgetExhausted(RemainingShown(i))
=============================================================================
