----------------------------- MODULE SLOMonitor -----------------------------
(***************************************************************************)
(* Monitor.Run (monitor/internal/monitor/monitor.go): the one goroutine    *)
(* that probes, polls once, and then serves two tickers and the            *)
(* cancellation of its context through one select.  The two polls are the  *)
(* modules FastPoll and WindowPoll; this module says when they run.        *)
(*                                                                         *)
(* A time.Ticker delivers on a channel of capacity one and drops a tick    *)
(* the loop has not taken yet, so a ticker is one bit.  Ticks are not tied *)
(* to the clock: only that they keep coming matters here.                  *)
(***************************************************************************)
EXTENDS FastPoll, WindowPoll

VARIABLES
  phase,     \* where Run is
  fastTick,  \* a tick is waiting on fast.C
  windowTick \* a tick is waiting on window.C

runVars == <<phase, fastTick, windowTick>>
vars == <<visibilityVars, fastVars, windowVars, runVars>>

Init ==
  /\ VisibilityInit
  /\ FastInit
  /\ WindowInit
  /\ phase = "probe"
  /\ fastTick = FALSE
  /\ windowTick = FALSE

-----------------------------------------------------------------------------
(* Run is inside a poll until the poll's last step.                        *)
Polling == fpc \notin {"start", "idle"} \/ wpc # "idle"

(* With a bug: Run does not probe before its first poll.                   *)
NoProbe ==
  /\ phase = "probe"
  /\ fpc' = "idle"
  /\ phase' = "first_fast"
  /\ UNCHANGED <<visibilityVars, fallback, supported, probePending, stuckAvailable, detection,
                 ftype, fnow, idx, allOK, runningGauge, ladder, stuckGauge, fresh,
                 windowVars, fastTick, windowTick>>

Probe ==
  /\ phase = "probe"
  /\ StartProbe
  /\ phase' = "first_fast"
  /\ UNCHANGED <<windowVars, fastTick, windowTick>>

FirstFast ==
  /\ phase = "first_fast"
  /\ BeginFastPoll
  /\ phase' = "first_window"
  /\ UNCHANGED <<windowVars, fastTick, windowTick>>

FirstWindow ==
  /\ phase = "first_window"
  /\ ~Polling
  /\ BeginWindowPoll
  /\ phase' = "select"
  /\ UNCHANGED <<fastVars, fastTick, windowTick>>

Selecting == phase = "select" /\ ~Polling

SelectFast ==
  /\ Selecting
  /\ fastTick
  /\ BeginFastPoll
  /\ fastTick' = FALSE
  /\ UNCHANGED <<windowVars, phase, windowTick>>

(* With a bug: a fast tick that is waiting always goes first.              *)
SelectWindowLast ==
  /\ Selecting
  /\ windowTick
  /\ ~fastTick
  /\ BeginWindowPoll
  /\ windowTick' = FALSE
  /\ UNCHANGED <<fastVars, phase, fastTick>>

(* With a bug: the instant of the previous window poll is used again.      *)
SelectWindowNoInstant ==
  /\ Selecting
  /\ windowTick
  /\ wpc' = "in"
  /\ wtype' = 1
  /\ windowTick' = FALSE
  /\ UNCHANGED <<visibilityVars, fastVars, wnow, reply, windowGauge, windowFresh,
                 phase, fastTick>>

SelectWindow ==
  /\ Selecting
  /\ windowTick
  /\ BeginWindowPoll
  /\ windowTick' = FALSE
  /\ UNCHANGED <<fastVars, phase, fastTick>>

SelectDone ==
  /\ Selecting
  /\ cancelled
  /\ phase' = "stopped"
  /\ UNCHANGED <<visibilityVars, fastVars, windowVars, fastTick, windowTick>>

PollStep ==
  \/ phase # "probe" /\ FastStep /\ UNCHANGED <<windowVars, runVars>>
  \/ WindowStep /\ UNCHANGED <<fastVars, runVars>>

RunStep ==
  Probe \/ FirstFast \/ FirstWindow \/ SelectFast \/ SelectWindow \/ SelectDone \/ PollStep

(* The tickers run from their creation, after the probe, until Run returns.*)
TickersRun == phase \notin {"probe", "stopped"}

FastTicker ==
  /\ TickersRun
  /\ ~fastTick
  /\ fastTick' = TRUE
  /\ UNCHANGED <<visibilityVars, fastVars, windowVars, phase, windowTick>>

WindowTicker ==
  /\ TickersRun
  /\ ~windowTick
  /\ windowTick' = TRUE
  /\ UNCHANGED <<visibilityVars, fastVars, windowVars, phase, fastTick>>

Environment ==
  \/ StoreStep /\ UNCHANGED <<callVars, fastVars, windowVars, runVars>>
  \/ Cancel /\ UNCHANGED <<storeVars, fastVars, windowVars, runVars>>

Next == Environment \/ FastTicker \/ WindowTicker \/ RunStep

(* The goroutine runs and every query returns by its deadline; the tickers *)
(* tick.  select chooses at random among the cases that are ready, so a    *)
(* case that is ready again and again is taken: strong fairness.           *)
Fairness ==
  /\ WF_vars(RunStep)
  /\ WF_vars(FastTicker)
  /\ WF_vars(WindowTicker)
  /\ SF_vars(SelectFast)
  /\ SF_vars(SelectWindow)
  /\ SF_vars(SelectDone)

Spec == Init /\ [][Next]_vars
FairSpec == Spec /\ Fairness

-----------------------------------------------------------------------------
(* Properties.                                                             *)

(* Run only ever drives each poll the way its own module says.             *)
ImplementsFastPoll == FastSpec
ImplementsWindowPoll == WindowSpec

(* One goroutine serves both loops, and neither starves the other: while   *)
(* the monitor is not shut down, each poll is begun again and again, the   *)
(* fairness FastPoll and WindowPoll assume of their caller (counter.go     *)
(* 34-36, a query that hangs starves the other loop); and once it is shut  *)
(* down it stops, whatever poll it was in and although ticks keep coming.  *)
ServesBothUntilStopped ==
  /\ []~cancelled => /\ WF_fastPollVars(BeginFastPoll)
                     /\ WF_windowPollVars(BeginWindowPoll)
  /\ cancelled ~> phase = "stopped"

=============================================================================
