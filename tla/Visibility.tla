----------------------------- MODULE Visibility -----------------------------
(***************************************************************************)
(* The Workflow Executions a Temporal Visibility store reports on, the     *)
(* count queries of monitor/internal/visibility/query.go over them, and    *)
(* one call of Monitor.count (monitor/internal/monitor/monitor.go) around  *)
(* Client.Count (monitor/internal/counter/counter.go).                     *)
(*                                                                         *)
(* A query is modelled by the set of executions its list filter selects;   *)
(* the text of the filter, its quoting and the optional TaskQueue clause   *)
(* are left out.  The store itself is external: an execution starts, and   *)
(* later closes with a terminal status, at any moment, so that two queries *)
(* of one poll may see different stores.  Its records are assumed current: *)
(* a query sees the state of the store when it is answered.                *)
(*                                                                         *)
(* Time is counted in ticks; Second ticks make one second, the precision   *)
(* the queries truncate their cutoffs to.                                  *)
(***************************************************************************)
EXTENDS Integers, FiniteSets

CONSTANTS
  Execs,          \* the executions that may ever exist
  NumTypes,       \* len(workflow_types) of slo-config.yaml
  TypeOf,         \* [Execs -> 1..NumTypes], the execution's Workflow Type
  Budget,         \* [1..NumTypes -> Nat \ {0}], the budget of each type, in ticks
  SLOWindow,      \* defaults.slo_window, in ticks
  Outcomes,       \* terminal statuses the store can report
  ClosedStatuses, \* defaults.closed_over_budget_statuses
  Second,         \* ticks per second
  MaxClock,       \* bound: the clock stops here
  MaxErrors       \* bound: failed queries that are counted as poll errors

WorkflowTypes == 1..NumTypes

ASSUME VisibilityAssumption ==
  /\ IsFiniteSet(Execs)
  /\ NumTypes \in Nat \ {0}
  /\ TypeOf \in [Execs -> WorkflowTypes]
  /\ Budget \in [WorkflowTypes -> Nat \ {0}]
  /\ SLOWindow \in Nat \ {0}
  /\ {"none", "running"} \cap Outcomes = {}
  /\ ClosedStatuses \subseteq Outcomes
  /\ Second \in Nat \ {0}
  /\ MaxClock \in Nat
  /\ MaxErrors \in Nat

VARIABLES
  clock,      \* mo.now()
  status,     \* [Execs -> {"none", "running"} \cup Outcomes], ExecutionStatus
  startTime,  \* [Execs -> Nat], StartTime; 0 until the execution starts
  closeTime,  \* [Execs -> Nat], CloseTime; 0 until it closes
  cancelled,  \* ctx.Err() # nil: SIGTERM, or the metrics server has failed
  pollErrors  \* poll_errors_total, over all its labels

storeVars == <<clock, status, startTime, closeTime>>
callVars == <<cancelled, pollErrors>>
visibilityVars == <<storeVars, callVars>>

VisibilityTypeOK ==
  /\ clock \in 0..MaxClock
  /\ status \in [Execs -> {"none", "running"} \cup Outcomes]
  /\ startTime \in [Execs -> Nat]
  /\ closeTime \in [Execs -> Nat]
  /\ cancelled \in BOOLEAN
  /\ pollErrors \in 0..MaxErrors

VisibilityInit ==
  /\ clock = 0
  /\ status = [e \in Execs |-> "none"]
  /\ startTime = [e \in Execs |-> 0]
  /\ closeTime = [e \in Execs |-> 0]
  /\ cancelled = FALSE
  /\ pollErrors = 0

-----------------------------------------------------------------------------
(* The store.                                                              *)

Advance ==
  /\ clock < MaxClock
  /\ clock' = clock + 1
  /\ UNCHANGED <<status, startTime, closeTime>>

StartExecution(e) ==
  /\ status[e] = "none"
  /\ status' = [status EXCEPT ![e] = "running"]
  /\ startTime' = [startTime EXCEPT ![e] = clock]
  /\ UNCHANGED <<clock, closeTime>>

CloseExecution(e, s) ==
  /\ status[e] = "running"
  /\ status' = [status EXCEPT ![e] = s]
  /\ closeTime' = [closeTime EXCEPT ![e] = clock]
  /\ UNCHANGED <<clock, startTime>>

StoreStep ==
  \/ Advance
  \/ \E e \in Execs : StartExecution(e)
  \/ \E e \in Execs, s \in Outcomes : CloseExecution(e, s)

Cancel ==
  /\ ~cancelled
  /\ cancelled' = TRUE
  /\ UNCHANGED pollErrors

(* The queries of the other poll loop are counted by the same counter.     *)
OtherQueryFails ==
  /\ ~cancelled
  /\ pollErrors < MaxErrors
  /\ pollErrors' = pollErrors + 1
  /\ UNCHANGED cancelled

-----------------------------------------------------------------------------
(* The queries.                                                            *)

Truncate(t) == t - (t % Second)

(* With a bug: the ExecutionStatus = Running clause is missing.            *)
RunningAnyStatus(i) == {e \in Execs : TypeOf[e] = i /\ status[e] # "none"}

Running(i) == {e \in Execs : TypeOf[e] = i /\ status[e] = "running"}

Cutoff(i, mult, now) == Truncate(now - mult * Budget[i])

OverBudget(i, mult, now) == {e \in Running(i) : startTime[e] < Cutoff(i, mult, now)}

WithinBudget(e, i) == closeTime[e] - startTime[e] < Budget[i]

ClosedSince(i, now) ==
  {e \in Execs : /\ TypeOf[e] = i
                 /\ status[e] \in ClosedStatuses
                 /\ closeTime[e] >= Truncate(now - SLOWindow)}

ClosedInBudget(i, now) == {e \in ClosedSince(i, now) : WithinBudget(e, i)}
ClosedOverBudget(i, now) == {e \in ClosedSince(i, now) : ~WithinBudget(e, i)}

-----------------------------------------------------------------------------
(* Monitor.count: one paced query under a deadline.  A call that has been  *)
(* cancelled fails without being counted as a poll error.                  *)

Failed == -1

(* A gauge is kept with the instant of the poll that set it; NoSeries is   *)
(* the instant of a gauge never set, which /metrics does not show.         *)
NoSeries == -1

CountSucceeds == ~cancelled /\ UNCHANGED callVars

CountFails ==
  /\ \/ cancelled /\ UNCHANGED pollErrors
     \/ ~cancelled /\ pollErrors < MaxErrors /\ pollErrors' = pollErrors + 1
  /\ UNCHANGED cancelled

=============================================================================
