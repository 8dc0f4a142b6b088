----------------------------- MODULE WindowPoll -----------------------------
(***************************************************************************)
(* Monitor.pollWindow (monitor/internal/monitor/monitor.go): the three     *)
(* terms of the compliance SLI,                                            *)
(*                                                                         *)
(*   closed_in_budget / (closed_in_budget + closed_over_budget             *)
(*                         + over_budget_executions_at_window_poll),       *)
(*                                                                         *)
(* are counted by three queries sent one after the other for one instant   *)
(* wnow, and published only if all three succeed.  The store goes on       *)
(* changing between the queries; a Prometheus scrape may fall between two  *)
(* of the three gauge assignments.                                         *)
(***************************************************************************)
EXTENDS Visibility

VARIABLES
  wpc,         \* the query or the assignment pollWindow is about to make
  wtype,       \* index of the type the loop is at
  wnow,        \* now := mo.now() of this poll
  reply,       \* in, over, open of the loop body: a count, or Failed
  windowGauge, \* [WorkflowTypes -> [Term -> [n, at]]], the three gauges
  windowFresh  \* [WorkflowTypes -> Int], the closed_window freshness stamp

windowVars == <<wpc, wtype, wnow, reply, windowGauge, windowFresh>>

Term == {"in", "over", "open"}

WindowLoopTypeOK ==
  /\ wpc \in {"idle", "in", "over", "open", "set_in", "set_over", "set_open"}
  /\ wtype \in WorkflowTypes
  /\ wnow \in 0..MaxClock
  /\ reply \in [Term -> Nat \cup {Failed}]
  /\ windowGauge \in [WorkflowTypes -> [Term -> [n : Nat, at : 0..MaxClock \cup {NoSeries}]]]
  /\ windowFresh \in [WorkflowTypes -> 0..MaxClock \cup {NoSeries}]

WindowTypeOK == VisibilityTypeOK /\ WindowLoopTypeOK

WindowInit ==
  /\ wpc = "idle"
  /\ wtype = 1
  /\ wnow = 0
  /\ reply = [t \in Term |-> 0]
  /\ windowGauge = [i \in WorkflowTypes |-> [t \in Term |-> [n |-> 0, at |-> NoSeries]]]
  /\ windowFresh = [i \in WorkflowTypes |-> NoSeries]

-----------------------------------------------------------------------------
(* With a bug: the loop over the types does not start again at the first.  *)
BeginWindowPollNoReset ==
  /\ wpc = "idle"
  /\ wpc' = "in"
  /\ wnow' = clock
  /\ UNCHANGED <<storeVars, callVars, wtype, reply, windowGauge, windowFresh>>

BeginWindowPoll ==
  /\ wpc = "idle"
  /\ wpc' = "in"
  /\ wtype' = 1
  /\ wnow' = clock
  /\ UNCHANGED <<storeVars, callVars, reply, windowGauge, windowFresh>>

TermSet(t, i) ==
  CASE t = "in"   -> ClosedInBudget(i, wnow)
    [] t = "over" -> ClosedOverBudget(i, wnow)
    [] t = "open" -> OverBudget(i, 1, wnow)

(* With a bug: a failed query reads as zero.                               *)
QueryTermFailsAsZero(t, next) ==
  /\ wpc = t
  /\ \/ CountSucceeds /\ reply' = [reply EXCEPT ![t] = Cardinality(TermSet(t, wtype))]
     \/ CountFails /\ reply' = [reply EXCEPT ![t] = 0]
  /\ wpc' = next
  /\ UNCHANGED <<storeVars, wtype, wnow, windowGauge, windowFresh>>

(* One of the three calls of count; its failure does not skip the others.  *)
QueryTerm(t, next) ==
  /\ wpc = t
  /\ \/ CountSucceeds /\ reply' = [reply EXCEPT ![t] = Cardinality(TermSet(t, wtype))]
     \/ CountFails /\ reply' = [reply EXCEPT ![t] = Failed]
  /\ wpc' = next
  /\ UNCHANGED <<storeVars, wtype, wnow, windowGauge, windowFresh>>

QueryIn == QueryTerm("in", "over")
QueryOver == QueryTerm("over", "open")
QueryOpen == QueryTerm("open", "set_in")

AllOK == \A t \in Term : reply[t] # Failed

(* The next turn of the loop over the types, or its end.                   *)
NextWindowType ==
  IF wtype < NumTypes THEN wtype' = wtype + 1 /\ wpc' = "in"
                      ELSE wtype' = wtype /\ wpc' = "idle"

(* With a bug: the terms that did succeed are published on their own.      *)
PublishWhatSucceeded ==
  /\ wpc = "set_in"
  /\ ~AllOK
  /\ windowGauge' = [windowGauge EXCEPT ![wtype] =
       [t \in Term |-> IF reply[t] = Failed THEN @[t] ELSE [n |-> reply[t], at |-> wnow]]]
  /\ NextWindowType
  /\ UNCHANGED <<storeVars, callVars, wnow, reply, windowFresh>>

SkipPublish ==
  /\ wpc = "set_in"
  /\ ~AllOK
  /\ NextWindowType
  /\ UNCHANGED <<storeVars, callVars, wnow, reply, windowGauge, windowFresh>>

SetTerm(t) ==
  windowGauge' = [windowGauge EXCEPT ![wtype][t] = [n |-> reply[t], at |-> wnow]]

SetIn ==
  /\ wpc = "set_in"
  /\ AllOK
  /\ SetTerm("in")
  /\ wpc' = "set_over"
  /\ UNCHANGED <<storeVars, callVars, wtype, wnow, reply, windowFresh>>

SetOver ==
  /\ wpc = "set_over"
  /\ SetTerm("over")
  /\ wpc' = "set_open"
  /\ UNCHANGED <<storeVars, callVars, wtype, wnow, reply, windowFresh>>

SetOpen ==
  /\ wpc = "set_open"
  /\ SetTerm("open")
  /\ windowFresh' = [windowFresh EXCEPT ![wtype] = clock]
  /\ NextWindowType
  /\ UNCHANGED <<storeVars, callVars, wnow, reply>>

WindowStep ==
  QueryIn \/ QueryOver \/ QueryOpen \/ SkipPublish \/ SetIn \/ SetOver \/ SetOpen

-----------------------------------------------------------------------------
WindowEnvironment ==
  \/ StoreStep /\ UNCHANGED <<callVars, windowVars>>
  \/ (Cancel \/ OtherQueryFails) /\ UNCHANGED <<storeVars, windowVars>>

windowPollVars == <<visibilityVars, windowVars>>

WindowPollInit == VisibilityInit /\ WindowInit
WindowNext == WindowEnvironment \/ BeginWindowPoll \/ WindowStep
WindowSpec == WindowPollInit /\ [][WindowNext]_windowPollVars

(* Every query returns, by its deadline at the latest (counter.go          *)
(* queryTimeout), and the loop calls pollWindow again.  Nothing is assumed *)
(* of the store.                                                           *)
WindowFairSpec == WindowSpec /\ WF_windowPollVars(BeginWindowPoll) /\ WF_windowPollVars(WindowStep)

-----------------------------------------------------------------------------
(* Properties.                                                             *)

Gauge(i, t) == windowGauge[i][t].n
At(i, t) == windowGauge[i][t].at
Published(i) == \A t \in Term : At(i, t) # NoSeries

Publishing(i) == wtype = i /\ wpc \in {"set_over", "set_open"}

Started(i) == {e \in Execs : TypeOf[e] = i /\ status[e] # "none"}

(* Outside the three assignments of a publication, the terms of a type     *)
(* come from one poll, and the type's freshness stamp is not older than    *)
(* that poll (monitor.go 231-239, all or nothing).                         *)
TermsOfOnePoll ==
  \A i \in WorkflowTypes : ~Publishing(i) =>
    /\ \A t, u \in Term : At(i, t) = At(i, u)
    /\ \A t \in Term : At(i, t) <= windowFresh[i]
    /\ windowFresh[i] # NoSeries => Published(i)

(* An execution is counted in at most one term: however the store changes  *)
(* between the three queries, the terms of one poll never add up to more   *)
(* executions than have started.  The order of the queries, closed before  *)
(* open, is what keeps it (monitor.go 227-229).                            *)
NoDoubleCount ==
  \A i \in WorkflowTypes : ~Publishing(i) =>
    Gauge(i, "in") + Gauge(i, "over") + Gauge(i, "open") <= Cardinality(Started(i))

(* The executions of type i that were past their budget at instant now and *)
(* have either not closed yet or had closed, inside the SLO window, before *)
(* now: the ones no answer of the store can have hidden from a poll at now.*)
SettledLate(i, now) ==
  OverBudget(i, 1, now) \cup {e \in ClosedOverBudget(i, now) : closeTime[e] < now}

(* A late execution is lost from the denominator only by closing during    *)
(* the poll itself: every other one is in closed_over_budget or in         *)
(* over_budget_executions_at_window_poll, so no outage, no failed query    *)
(* and no termination outside a poll makes compliance look better.         *)
LateExecutionsCounted ==
  \A i \in WorkflowTypes : ~Publishing(i) /\ Published(i) =>
    Cardinality(SettledLate(i, At(i, "open"))) <= Gauge(i, "over") + Gauge(i, "open")

(* Once the store stops changing, the published terms come to say what is  *)
(* in it, for every type, whatever queries failed before: a poll repeats   *)
(* the count of every term of every type (monitor.go 213-241).             *)
Truthful(i) ==
  \A t \in Term :
    /\ At(i, t) = clock
    /\ Gauge(i, t) = CASE t = "in"   -> Cardinality(ClosedInBudget(i, clock))
                       [] t = "over" -> Cardinality(ClosedOverBudget(i, clock))
                       [] t = "open" -> Cardinality(OverBudget(i, 1, clock))

ConvergesToStore == <>[](cancelled \/ \A i \in WorkflowTypes : Truthful(i))

=============================================================================
