----------------------------- MODULE SLORules -----------------------------
(***************************************************************************)
(* The SLO rule bundles the generators of tools/ write: production, cloud, *)
(* app (app-team) and demo.  One behaviour follows one SLI of one bundle   *)
(* through the three rule groups of its file:                              *)
(*                                                                         *)
(*   events  records bad and total event rates (demo: a ratio per window), *)
(*   meta    records the ratio and the burn rate of every window,          *)
(*   burn    evaluates the alerts on those burn rates.                     *)
(*                                                                         *)
(* Prometheus evaluates the groups of one file concurrently, each once per *)
(* interval: a group reads what another recorded in this interval or in    *)
(* the one before.  Within a group the rules run in the order of the file. *)
(* A recording looks back five minutes, many intervals, so the recordings  *)
(* of a window overlap.                                                    *)
(*                                                                         *)
(* Time is counted in evaluation intervals: Ticks gives the length of a    *)
(* window and Holds that of an alert's "for" (keyed by minutes).  Budgets  *)
(* are in thousandths, burn factors in tenths.                             *)
(***************************************************************************)
EXTENDS PromQL

CONSTANTS
    SLIs,       \* the SLIs a behaviour may follow, of the bundles below
    Traffic,    \* [kind |-> the samples one interval may show]
    Ticks,      \* [window |-> intervals]
    Holds,      \* [minutes of a "for" |-> evaluations]
    Unit,       \* averages of the cloud's gauges are in units of 1/Unit
    Keep        \* bound: intervals of samples kept; of recordings, those of kept samples

VARIABLES
    sli,        \* the SLI followed
    samples,    \* what the scrapes of the last Keep intervals showed
    events,     \* slo:events_bad:rate5m and slo:events_total:rate5m, with what had
                \* really happened in the five minutes (kept for the properties)
    ratio,      \* slo:sli_bad:ratio_rate<w>
    burn,       \* the ratios behind slo:burn_rate:ratio_rate<w> and the budget
    held,       \* [alert |-> evaluations in a row its condition held]
    due         \* the groups that have not run in this interval

vars == <<sli, samples, events, ratio, burn, held, due>>
---------------------------------------------------------------------------
(* The SLIs of the four generators.                                        *)

SLI(bundle, kind, budget, names) ==
    {[bundle |-> bundle, kind |-> kind, budget |-> budget, name |-> n] : n \in names}

ProductionSLIs ==
    SLI("production", "error", 1, {"frontend_availability", "history_availability",
                                   "matching_availability", "persistence_availability"})
    \union SLI("production", "latency", 10, {"frontend_latency", "task_delivery"})
    \union SLI("production", "outcome", 10, {"workflow_completion"})

CloudSLIs ==
    SLI("cloud", "error", 1, {"cloud_service_availability"})
    \union SLI("cloud", "gated", 10, {"cloud_start_workflow_latency"})
    \union SLI("cloud", "outcome", 10, {"workflow_completion", "activity_completion"})
    \union SLI("cloud", "delivery", 1, {"task_delivery"})

AppSLIs ==
    SLI("app", "outcome", 10, {"workflow_completion"})
    \union SLI("app", "latency", 10, {"task_delivery"})
    \union SLI("app", "latency", 50, {"workflow_latency"})

DemoSLIs ==
    SLI("demo", "error", 1, {"frontend_availability", "history_availability",
                             "matching_availability", "persistence_availability"})
    \union SLI("demo", "latency", 10, {"frontend_latency", "history_latency",
                                       "matching_latency"})
    \union SLI("demo", "latency", 100, {"worker_task_delivery"})
    \union SLI("demo", "outcome", 10, {"workflow_completion"})
---------------------------------------------------------------------------
(* What emit() of each generator writes: the windows of the ratio and burn *)
(* rules, the compliance window, and the alerts.  A burn alert needs its   *)
(* long and its short window above the factor; the exhausted alert         *)
(* compares the compliance window with the budget itself.                  *)

Alert(name, factor, long, short, for) ==
    [name |-> name, factor |-> factor, long |-> long, short |-> short, for |-> for]

FastBurn == Alert("SLOFastBurn", 144, "1h", "5m", 2)
SlowBurn == Alert("SLOSlowBurn", 60, "6h", "30m", 15)
BurnTicket == Alert("SLOBudgetBurnTicket", 30, "1d", "2h", 60)
SlowTicket == Alert("SLOBudgetBurnSlowTicket", 10, "3d", "6h", 180)
Exhausted(window, for) == Alert("SLOErrorBudgetExhausted", 0, window, window, for)

LongWindows == {"5m", "30m", "1h", "2h", "6h", "1d", "3d", "28d"}

ProductionRules ==
    [windows |-> LongWindows, burn |-> LongWindows \ {"28d"}, compliance |-> "28d",
     alerts |-> {FastBurn, SlowBurn, BurnTicket, SlowTicket, Exhausted("28d", 10)}]

CloudRules ==
    [windows |-> LongWindows, burn |-> LongWindows \ {"28d"}, compliance |-> "28d",
     alerts |-> {FastBurn, SlowBurn, BurnTicket, Exhausted("28d", 10)}]

AppRules ==
    [windows |-> {"5m", "30m", "1h", "6h", "28d"}, burn |-> {"5m", "30m", "1h", "6h"},
     compliance |-> "28d", alerts |-> {FastBurn, Exhausted("28d", 15)}]

DemoRules ==
    [windows |-> {"5m", "30m", "1h", "6h"}, burn |-> {"5m", "30m", "1h", "6h"},
     compliance |-> "1h", alerts |-> {FastBurn, SlowBurn, Exhausted("1h", 5)}]

RulesOf(s) ==
    CASE s.bundle = "production" -> ProductionRules
      [] s.bundle = "cloud"      -> CloudRules
      [] s.bundle = "app"        -> AppRules
      [] s.bundle = "demo"       -> DemoRules

ASSUME SLIsAssumption ==
    SLIs \subseteq ProductionSLIs \union CloudSLIs \union AppSLIs \union DemoSLIs

KeepRecordings == Keep - Ticks["5m"]

\* The logs outlive every window, and the short windows of the alerts by what a recording
\* looks back on and the intervals the groups may lag; averages are whole in their unit.
ShortWindows == {"5m", "30m", "2h", "6h"}

ASSUME TicksAssumption ==
    /\ Keep \in Nat
    /\ LongWindows \subseteq DOMAIN Ticks
    /\ \A w \in LongWindows : Ticks[w] \in 1..KeepRecordings
    /\ \A w \in ShortWindows : Ticks[w] < KeepRecordings
    /\ Unit \in Nat \ {0}
    /\ \A n \in 1..Ticks["5m"] : Unit % n = 0

ASSUME HoldsAssumption ==
    {2, 5, 10, 15, 60, 180} \subseteq DOMAIN Holds /\ \A m \in DOMAIN Holds : Holds[m] \in Nat

\* what an interval adds to a counter that may not exist yet
Increase == Nat \union {Absent}

\* An error is also a request (generate_cloud_rules.py), the counts of a latency SLI are
\* of one histogram, and a poll has succeeded once: else the total of a delivery SLI is empty.
ASSUME TrafficAssumption ==
    /\ \A v \in Traffic["error"] :
         /\ v \in [errors : Increase, requests : Increase]
         /\ v.errors <= v.requests
    /\ \A v \in Traffic["latency"] :
         /\ v \in [count : Increase, fast : Increase]
         /\ v.fast <= v.count
         /\ v.fast = Absent <=> v.count = Absent
    /\ Traffic["outcome"] \subseteq
         [success : Increase, failed : Increase, timeout : Increase]
    /\ Traffic["delivery"] \subseteq [noPoller : Increase, matched : Nat]
    /\ Traffic["gated"] \subseteq [rps : {0, 1}, p95 : {0, 1}]

Rules == RulesOf(sli)
Groups == {"events", "meta", "burn"}
---------------------------------------------------------------------------
(* Layer 1: the bad and the total events by kind of SLI; v has the values  *)
(* of the series over a range.                                             *)

\* the outcomes a completion SLI counts as bad; the app bundle has no timeout counter
BadOutcomes(s) == IF s.bundle = "app" THEN {"failed"} ELSE {"failed", "timeout"}
Outcomes(s) == {"success"} \union BadOutcomes(s)

(* With a bug: the guard that borrowed the success series.                 *)
SumGuardedBySuccess(s, v, names) ==
    PlusAll([n \in names |-> Or(v[n], TimesZero(v["success"]))])

\* promql_guards.outcome_ratio_terms: every term, or the zero of the union of all terms
SumGuarded(s, v, names) ==
    PlusAll([n \in names |-> Or(v[n], ZeroOfUnion(v, Outcomes(s)))])

(* With a bug: errors without the zero guard.                              *)
UnguardedErrors(v) == v["errors"]

ErrorBad(v) == Or(v["errors"], TimesZero(v["requests"]))
LatencyBad(v) == ClampedMinus(v["count"], v["fast"])
NoPollerTasks(v) == Or(v["noPoller"], TimesZero(v["matched"]))

\* (p95 > bool 0.5) and (count > MIN_RPS), over count > bool MIN_RPS
GatedBad(v) == IF v["rps"] = 1 THEN v["p95"] ELSE Absent

Bad(s, v) ==
    CASE s.kind = "error"    -> ErrorBad(v)
      [] s.kind = "latency"  -> LatencyBad(v)
      [] s.kind = "outcome"  -> SumGuarded(s, v, BadOutcomes(s))
      [] s.kind = "delivery" -> NoPollerTasks(v)
      [] s.kind = "gated"    -> GatedBad(v)

Total(s, v) ==
    CASE s.kind = "error"    -> v["requests"]
      [] s.kind = "latency"  -> v["count"]
      [] s.kind = "outcome"  -> SumGuarded(s, v, Outcomes(s))
      [] s.kind = "delivery" -> Plus(v["matched"], NoPollerTasks(v))
      [] s.kind = "gated"    -> v["rps"]

\* the last entries of a log that a window covers
Window(log, w) ==
    SubSeq(log, IF Len(log) > Ticks[w] THEN Len(log) - Ticks[w] + 1 ELSE 1, Len(log))

Remember(log, x, keep) == LET l == Append(log, x) IN IF Len(l) > keep THEN Tail(l) ELSE l

\* What an expression reads of the samples of a range: rates of counters; the cloud
\* exports gauges, which it averages, but for a gated SLI, which reads the latest.
Read(s, range) ==
    LET series(n) == [i \in DOMAIN range |-> range[i][n]]
        names == DOMAIN Last(range)
    IN IF s.kind = "gated" THEN Last(range)
       ELSE IF s.bundle = "cloud" THEN [n \in names |-> AverageOver(series(n), Unit)]
       ELSE [n \in names |-> RateOver(series(n))]

\* what clamp_min(total, 0.001) puts in the place of fewer events of a window, in
\* thousandths of an event: its seconds
Seconds(w) ==
    CASE w = "5m" -> 300 [] w = "30m" -> 1800 [] w = "1h" -> 3600 [] w = "6h" -> 21600

Least(s, w) == IF s.bundle = "demo" /\ s.kind = "outcome" THEN Seconds(w) ELSE 0

\* demo: one ratio straight from the raw series of the window
RawRatio(s, w) ==
    LET v == Read(s, Window(samples, w))
    IN DivideClamped(Bad(s, v), Total(s, v), Least(s, w))

\* the others: instant values for 5m, averages of the two recordings for the rest
Recordings(w) ==
    IF w = "5m" /\ events # <<>> THEN <<Last(events)>> ELSE Window(events, w)

RecordedRatio(w) ==
    LET log == Recordings(w)
    IN DivideAverages([i \in DOMAIN log |-> log[i].bad],
                      [i \in DOMAIN log |-> log[i].total])
---------------------------------------------------------------------------
(* The events that really happened, whatever the expressions made of them. *)

Happened(x) == IF x = Absent THEN 0 ELSE x

TrueBad(s, v) ==
    CASE s.kind = "error"    -> Happened(v["errors"])
      [] s.kind = "latency"  -> Happened(v["count"]) - Happened(v["fast"])
      [] s.kind = "outcome"  -> SumFunction([n \in BadOutcomes(s) |-> Happened(v[n])])
      [] s.kind = "delivery" -> Happened(v["noPoller"])
      [] s.kind = "gated"    -> IF v["rps"] = 1 THEN Happened(v["p95"]) ELSE 0

TrueTotal(s, v) ==
    CASE s.kind = "error"    -> Happened(v["requests"])
      [] s.kind = "latency"  -> Happened(v["count"])
      [] s.kind = "outcome"  -> SumFunction([n \in Outcomes(s) |-> Happened(v[n])])
      [] s.kind = "delivery" -> Happened(v["matched"]) + Happened(v["noPoller"])
      [] s.kind = "gated"    -> IF v["rps"] = 1 THEN 1 ELSE 0

\* in all samples of a range
AllBad(s, range) == SumFunction([i \in DOMAIN range |-> TrueBad(s, range[i])])
AllTotal(s, range) == SumFunction([i \in DOMAIN range |-> TrueTotal(s, range[i])])
---------------------------------------------------------------------------
Init ==
    /\ sli \in SLIs
    /\ samples = <<>>
    /\ events = <<>>
    /\ ratio = [w \in Rules.windows |-> NoRatio]
    /\ burn = [w \in Rules.burn \union {Rules.compliance} |-> NoRatio]
    /\ held = [name \in {a.name : a \in Rules.alerts} |-> 0]
    /\ due = {}

\* The next interval: the targets are scraped, every group is due once more.
Scrape ==
    /\ due = {}
    /\ \E v \in Traffic[sli.kind] : samples' = Remember(samples, v, Keep)
    /\ due' = Groups
    /\ UNCHANGED <<sli, events, ratio, burn, held>>

\* what layer 1 records of a range
Recording(s, range) ==
    LET v == Read(s, range)
    IN [bad |-> Bad(s, v), total |-> Total(s, v),
        trueBad |-> AllBad(s, range), trueTotal |-> AllTotal(s, range)]

RecordEvents ==
    events' = Remember(events, Recording(sli, Window(samples, "5m")), KeepRecordings)

RecordRawRatios == ratio' = [w \in Rules.windows |-> RawRatio(sli, w)]

EventsGroup ==
    /\ "events" \in due
    /\ IF sli.bundle = "demo" THEN RecordRawRatios /\ UNCHANGED events
                              ELSE RecordEvents /\ UNCHANGED ratio
    /\ due' = due \ {"events"}
    /\ UNCHANGED <<sli, samples, burn, held>>

\* ratio rules come before burn rules in the group: burn reads this evaluation's ratios
MetaGroup ==
    /\ "meta" \in due
    /\ IF sli.bundle = "demo" THEN UNCHANGED ratio
       ELSE ratio' = [w \in Rules.windows |-> RecordedRatio(w)]
    /\ burn' = [w \in DOMAIN burn |-> ratio'[w]]
    /\ due' = due \ {"meta"}
    /\ UNCHANGED <<sli, samples, events, held>>

\* burn rate > factor; error budget remaining <= 0
Exceeds(r, factor) == r[2] # 0 /\ r[1] * 10000 > factor * sli.budget * r[2]
Spent(r) == r[2] # 0 /\ r[1] * 1000 >= sli.budget * r[2]

(* With a bug: a burn alert on its long window alone.                      *)
LongWindowOnly(a) ==
    IF a.factor = 0 THEN Spent(burn[a.long]) ELSE Exceeds(burn[a.long], a.factor)

Condition(a) ==
    IF a.factor = 0 THEN Spent(burn[a.long])
    ELSE Exceeds(burn[a.long], a.factor) /\ Exceeds(burn[a.short], a.factor)

AlertOf(name) == CHOOSE a \in Rules.alerts : a.name = name
HoldOf(name) == Holds[AlertOf(name).for]
Firing(name) == held[name] > HoldOf(name)

\* A condition that holds is pending for "for", then fires; one that fails resets it.
BurnGroup ==
    /\ "burn" \in due
    /\ held' = [name \in DOMAIN held |->
                  IF ~Condition(AlertOf(name)) THEN 0
                  ELSE IF Firing(name) THEN held[name] ELSE held[name] + 1]
    /\ due' = due \ {"burn"}
    /\ UNCHANGED <<sli, samples, events, ratio, burn>>

Next == Scrape \/ EventsGroup \/ MetaGroup \/ BurnGroup

\* Prometheus keeps scraping and evaluating; every group runs once per interval, so
\* progress of the whole is progress of each.  Next is never disabled: that it happens again
\* and again is its weak fairness, and spares TLC an ENABLED that is slow to evaluate.
Spec == Init /\ [][Next]_vars /\ []<><<Next>>_vars
---------------------------------------------------------------------------
RecordingSet == [bad : Increase, total : Increase, trueBad : Nat, trueTotal : Nat]

TypeOK ==
    /\ sli \in SLIs
    /\ samples \in Seq(Traffic[sli.kind]) /\ Len(samples) <= Keep
    /\ events \in Seq(RecordingSet) /\ Len(events) <= KeepRecordings
    /\ ratio \in [Rules.windows -> Nat \X Nat]
    /\ burn \in [Rules.burn \union {Rules.compliance} -> Nat \X Nat]
    /\ DOMAIN held = {a.name : a \in Rules.alerts}
    /\ \A name \in DOMAIN held : held[name] \in 0..HoldOf(name) + 1
    /\ due \subseteq Groups /\ (due # {} => samples # <<>>)

\* f is the share that the bad events are of all, or of the least where all are fewer
IsShareOf(f, bad, total, least) ==
    IF total = 0 THEN f[1] = 0
    ELSE /\ f[2] # 0
         /\ f[1] * Max({1000 * total, least}) = 1000 * bad * f[2]

\* a field of the recordings of a window, all together
Recorded(field, w) ==
    LET log == Recordings(w) IN SumFunction([i \in DOMAIN log |-> log[i][field]])

(* Every ratio of counters is the traffic-weighted one: all bad events over*)
(* all events of what was looked back on, an event counted as often as a   *)
(* recording saw it.  A quiet interval weighs little, a counter that does  *)
(* not exist yet counts as zero, an interval in which only bad outcomes    *)
(* have a series is not lost, and the one thing that bends a ratio is the  *)
(* clamp of the demo's workflow_completion, where events are few           *)
(* (promql_guards.py, the header of the production bundle).                *)
TrafficWeighted ==
    [][ ratio' # ratio /\ sli.bundle # "cloud" =>
          \A w \in Rules.windows :
            IF sli.bundle = "demo"
            THEN IsShareOf(ratio'[w], AllBad(sli, Window(samples, w)),
                           AllTotal(sli, Window(samples, w)), Least(sli, w))
            ELSE IsShareOf(ratio'[w], Recorded("trueBad", w), Recorded("trueTotal", w), 0) ]_vars

(* An alert ends soon after the incident: while a burn alert is pending or *)
(* firing after an evaluation there was a bad event within its short       *)
(* window, the five minutes its recordings look back on, and the intervals *)
(* by which the groups may lag each other, however long its long window    *)
(* still remembers the incident.                                           *)
AlertClears ==
    \A a \in Rules.alerts :
        "burn" \notin due /\ a.factor # 0 /\ held[a.name] > 0 =>
            \E i \in DOMAIN samples :
                /\ Len(samples) - i < Ticks[a.short] + Ticks["5m"] + 1
                /\ TrueBad(sli, samples[i]) > 0

\* everything that happens is bad
Outage == samples # <<>> /\ TrueBad(sli, Last(samples)) > 0
                         /\ TrueBad(sli, Last(samples)) = TrueTotal(sli, Last(samples))

(* A total outage that lasts is eventually alerted on, and stays so: also  *)
(* when no success series exists, whatever the group order, in every       *)
(* bundle and for every objective (worker_task_delivery included, whose    *)
(* 10% budget puts the fast burn out of reach).                            *)
OutageAlerts == <>[]Outage => <>[](\E name \in DOMAIN held : Firing(name))
=============================================================================
