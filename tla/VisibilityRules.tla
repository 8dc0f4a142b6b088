-------------------------- MODULE VisibilityRules --------------------------
(***************************************************************************)
(* The rules tools/generate_visibility_rules.py renders for the production *)
(* and cloud bundles over the gauges of the SLO monitor: two recorded      *)
(* ratios and the conditions of the alerts, each over the series of one    *)
(* Workflow Type as the last scrape showed them.  Whether a condition held *)
(* long enough ("for") is said by the properties, with <>[].               *)
(*                                                                         *)
(* The objective is given in ten-thousandths, the precision of the         *)
(* clamp_min of the budget; a stamp or a gauge never set is Absent.        *)
(***************************************************************************)
EXTENDS PromQL

CONSTANTS
  ObjectiveRatio, \* temporal_slo_objective_ratio, in ten-thousandths
  StaleAfter      \* MonitorStale: [query kind -> ticks], 300 s and 1500 s

Whole == 10000

ASSUME VisibilityRulesAssumption ==
  /\ ObjectiveRatio \in 1..(Whole - 1)
  /\ \A k \in DOMAIN StaleAfter : StaleAfter[k] \in Nat

ClampMin(a, least) == IF a = Absent THEN Absent ELSE IF a < least THEN least ELSE a

(* With a bug: the still-open executions are not in the denominator.       *)
ComplianceOfClosed(closedIn, closedOver, open) ==
  Divide(closedIn, ClampMin(Plus(closedIn, closedOver), 1))

\* <record>workflow_compliance:ratio
Compliance(closedIn, closedOver, open) ==
  Divide(closedIn, ClampMin(Plus(Plus(closedIn, closedOver), open), 1))

\* <record>workflow_budget_remaining:ratio, 1 - (1 - compliance) / (1 - objective)
BudgetRemaining(compliance) ==
  LET allowed == ClampMin(Whole - ObjectiveRatio, 1)
  IN <<compliance[2] * allowed - (compliance[2] - compliance[1]) * Whole,
       compliance[2] * allowed>>

Shown(ratio) == ratio[2] # 0

BudgetLow(remaining) == Shown(remaining) /\ 4 * remaining[1] < remaining[2]
BudgetExhausted(remaining) == Shown(remaining) /\ remaining[1] <= 0

\* the series with bucket="2"
ExecutionsOverBudget(rung) == rung > 0

\* time() - stamp > threshold, of the poll loop the kind belongs to
MonitorStale(kind, now, stamp) == stamp # Absent /\ now - stamp > StaleAfter[kind]

StuckDetectionUnavailable(available) == available = 0
=============================================================================
