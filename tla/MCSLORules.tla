---------------------------- MODULE MCSLORules ----------------------------
(* Bounds for SLORules: one SLI per kind and bundle, samples of at most    *)
(* five intervals, windows of two or three intervals.                      *)
EXTENDS SLORules

MCKeep == 5

MCTicks == [w \in {"5m", "30m", "2h", "6h"} |-> 2] @@ [w \in {"1h", "1d", "3d", "28d"} |-> 3]

MCHolds == (2 :> 1) @@ (5 :> 1) @@ (10 :> 1) @@ (15 :> 1) @@ (60 :> 2) @@ (180 :> 2)

Named(all, names) == {s \in all : s.name \in names}

MCSLIs ==
    Named(ProductionSLIs, {"frontend_availability"})
    \union Named(CloudSLIs, {"cloud_service_availability", "cloud_start_workflow_latency",
                             "workflow_completion", "task_delivery"})
    \union Named(AppSLIs, {"workflow_completion", "workflow_latency"})
    \union Named(DemoSLIs, {"frontend_availability", "worker_task_delivery",
                            "workflow_completion"})

Outcome(s, f, t) == [success |-> s, failed |-> f, timeout |-> t]

MCTraffic ==
    [error    |-> {[errors |-> Absent, requests |-> 9], [errors |-> 1, requests |-> 30],
                   [errors |-> 2, requests |-> 2]},
     latency  |-> {[count |-> Absent, fast |-> Absent], [count |-> 30, fast |-> 29],
                   [count |-> 2, fast |-> 0]},
     outcome  |-> {Outcome(Absent, Absent, Absent), Outcome(0, 0, 0), Outcome(30, 1, Absent),
                   Outcome(Absent, 1, 2)},
     delivery |-> {[noPoller |-> Absent, matched |-> 9], [noPoller |-> 1, matched |-> 30],
                   [noPoller |-> 2, matched |-> 0]},
     gated    |-> {[rps |-> 0, p95 |-> 0], [rps |-> 1, p95 |-> 0], [rps |-> 1, p95 |-> 1]}]
=============================================================================
