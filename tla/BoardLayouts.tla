---------------------------- MODULE BoardLayouts ----------------------------
(***************************************************************************)
(* What the generators of the four boards that exist for the demo and for  *)
(* production lay out, section by section, in the order of their scripts.  *)
(* Of a panel the model keeps its place in the grid, the refIds of its     *)
(* queries, and the deployment that alone has the series or the logs they  *)
(* read; titles, links, queries and styling are left out.  Its id is 0     *)
(* until the script numbers it, and owned is the marker of the             *)
(* post-processor.                                                         *)
(***************************************************************************)
EXTENDS Integers, Sequences, FiniteSets

A == <<"A">>
AB == <<"A", "B">>
ABC == <<"A", "B", "C">>
ABCD == <<"A", "B", "C", "D">>

(* A panel on data that the deployment alone has, or on what both have.    *)
PanelOf(deployment, x, y, w, h, refs) ==
  [id |-> 0, owned |-> FALSE, x |-> x, y |-> y, w |-> w, h |-> h,
   refs |-> refs, of |-> deployment]

Panel(x, y, w, h, refs) == PanelOf("both", x, y, w, h, refs)

Row(y) == Panel(0, y, 24, 1, <<>>)

Text(x, y, w, h) == Panel(x, y, w, h, <<>>)

(* p50, p95 and p99 of one histogram.                                      *)
Pct(x, y, w, h) == Panel(x, y, w, h, ABC)

-----------------------------------------------------------------------------
(* generate_golden_signals.py                                              *)

ServiceLevel == <<Row(0), Panel(0, 1, 4, 6, A), Panel(4, 1, 12, 6, A),
                  Panel(16, 1, 8, 6, A)>>

Rate == <<Row(7), Panel(0, 8, 4, 7, A), Panel(4, 8, 10, 7, A), Panel(14, 8, 10, 7, AB)>>

Errors == <<Row(15), Panel(0, 16, 4, 7, A), Panel(4, 16, 10, 7, A),
            Panel(14, 16, 10, 7, ABC)>>

Duration == <<Row(23), Panel(0, 24, 8, 7, ABC), Panel(8, 24, 8, 7, A),
              Panel(16, 24, 8, 7, AB)>>

Saturation == <<Row(31), Panel(0, 32, 8, 7, A), Panel(8, 32, 8, 7, A),
                Panel(16, 32, 8, 7, A)>>

WorkerCache == <<Row(42), Panel(0, 43, 24, 8, AB)>>

(* The demo's log labels and its Loki.                                     *)
Logs == <<Row(51), PanelOf("demo", 0, 52, 8, 8, A), PanelOf("demo", 8, 52, 8, 8, A),
          PanelOf("demo", 16, 52, 8, 8, A)>>

DurationSLO == <<Row(60), Panel(0, 61, 5, 6, A), Panel(5, 61, 10, 6, A),
                 Panel(15, 61, 5, 6, A), Panel(20, 61, 2, 6, A), Panel(22, 61, 2, 6, A)>>

(* Span metrics, from Prometheus.  The buttons and links of both boards    *)
(* name Tempo and Pyroscope by the uids of the demo's data sources.        *)
Traces == <<Row(69), Text(0, 70, 24, 4), Panel(0, 74, 12, 7, A), Panel(12, 74, 12, 7, A)>>

GoldenSignals(deployment) ==
  ServiceLevel \o Rate \o Errors \o Duration \o Saturation \o WorkerCache
    \o (IF deployment = "demo" THEN Logs ELSE <<>>) \o DurationSLO \o Traces

-----------------------------------------------------------------------------
(* generate_slo_board.py                                                   *)

Budgets == <<Row(0), Panel(0, 1, 5, 10, A), Panel(5, 1, 19, 10, A)>>

BudgetTable == <<Row(11), Panel(0, 12, 24, 11, ABCD)>>

BurnRates == <<Row(23), Panel(0, 24, 12, 9, A), Panel(12, 24, 12, 9, AB)>>

(* The last panel reads worker_task_delivery of the demo's rules, or       *)
(* task_delivery of production's.                                          *)
Roles(deployment) ==
  <<Row(33), Panel(0, 34, 12, 9, A), Panel(12, 34, 12, 9, A), Panel(0, 43, 12, 9, A),
    PanelOf(deployment, 12, 43, 12, 9, AB)>>

SLOBoard(deployment) == Budgets \o BudgetTable \o BurnRates \o Roles(deployment)

-----------------------------------------------------------------------------
(* generate_overview.py                                                    *)

HeroStrip == <<Text(0, 0, 3, 5), Panel(3, 0, 4, 5, A), Panel(7, 0, 4, 5, A),
               Panel(11, 0, 4, 5, A), Panel(15, 0, 4, 5, A), Panel(19, 0, 5, 5, A)>>

Health == <<Row(5), Panel(0, 6, 12, 8, A), Panel(12, 6, 12, 8, A),
            Panel(0, 14, 12, 8, ABC), Panel(12, 14, 12, 8, ABC)>>

TaskQueues == <<Row(22), Panel(0, 23, 12, 7, A), Panel(12, 23, 12, 7, AB),
                Panel(0, 30, 12, 7, A), Panel(12, 30, 12, 7, A)>>

ServiceLevels == <<Row(37), Panel(0, 38, 4, 6, A), Panel(4, 38, 10, 6, A),
                   Panel(14, 38, 10, 6, A)>>

Navigation == <<Text(0, 44, 24, 4)>>

Overview == HeroStrip \o Health \o TaskQueues \o ServiceLevels \o Navigation

-----------------------------------------------------------------------------
(* generate_selfhosted_full.py                                             *)

Header == <<Panel(0, 0, 4, 4, A), Panel(4, 0, 4, 4, A), Panel(8, 0, 4, 4, A),
            Panel(12, 0, 4, 4, A), Panel(16, 0, 4, 4, A), Panel(20, 0, 4, 4, A)>>

Workflows == <<Row(4), Panel(0, 5, 12, 8, ABCD), Panel(12, 5, 12, 8, A),
               Pct(0, 13, 12, 8), Pct(12, 13, 12, 8)>>

Activities == <<Row(21), Pct(0, 22, 12, 8), Pct(12, 22, 12, 8), Panel(0, 30, 12, 8, A),
                Panel(12, 30, 12, 8, AB)>>

Pollers == <<Row(38), Panel(0, 39, 12, 8, ABCD), Panel(12, 39, 12, 8, A),
             Panel(0, 47, 12, 8, AB), Panel(12, 47, 12, 8, AB)>>

Service == <<Row(55), Panel(0, 56, 12, 8, A), Panel(12, 56, 12, 8, A), Pct(0, 64, 12, 8),
             Panel(12, 64, 12, 8, A), Pct(0, 72, 8, 7), Pct(8, 72, 8, 7), Pct(16, 72, 8, 7)>>

Persistence == <<Row(79), Pct(0, 80, 12, 8), Panel(12, 80, 12, 8, A),
                 Panel(0, 88, 12, 8, AB), Panel(12, 88, 12, 8, AB)>>

FullOverview == Header \o Workflows \o Activities \o Pollers \o Service \o Persistence
=============================================================================
