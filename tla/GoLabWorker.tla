---------------------------- MODULE GoLabWorker ----------------------------
(***************************************************************************)
(* The Go Worker of the tuning lab (demo/lab/worker.go): the configuration *)
(* loop, apply and swap, the drain of a replaced Worker and its gauges in  *)
(* the aggregator (demo/lab/telemetry.go), with the process exiting on     *)
(* purpose, crashing, and being restarted by Compose.                      *)
(*                                                                         *)
(* Every swap makes a Worker instance; the SDK behind it is external.  Its *)
(* Stop gives in-flight Activities 30 seconds and then returns, while an   *)
(* Activity of the lab may take two minutes (controller.go 423-424,        *)
(* DurationMs 60000 and jitter 100%): an Activity may outlive the Stop of  *)
(* its Worker, and updates the slot gauges when it ends, before or after   *)
(* the Worker's values were dropped.                                       *)
(***************************************************************************)
EXTENDS LabController

CONSTANTS
  MaxSwaps,    \* bound: Worker instances started
  MaxFailures, \* bound: swaps that fail
  MaxCrashes   \* bound: crashes of the Worker process

ASSUME GoLabWorkerAssumption ==
  MaxSwaps \in Nat /\ MaxFailures \in Nat /\ MaxCrashes \in Nat

VARIABLES
  pc,        \* what the configuration loop does next
  msg,       \* the configuration it has fetched
  live,      \* g.cfg, what the Activities read
  applied,   \* g.applied
  cacheSize, \* g.cacheSize
  running,   \* g.running: options the current Worker was built with
  swapCount, \* g.swapCount, which makes the instance's name
  instance,  \* [1..MaxSwaps -> state of the instance]
  gauged,    \* instances with values in aggregator.gauges
  failures,  \* swaps that have failed
  crashes    \* crashes so far

loopVars == <<pc, msg>>
appliedVars == <<live, applied, cacheSize, running>>
instVars == <<swapCount, instance, gauged>>
goVars == <<loopVars, appliedVars, instVars, failures, crashes>>
vars == <<labVars, goVars>>

NoMsg == [version |-> 0]
Instances == 1..MaxSwaps

(* The life of an instance: it polls; Stop drains it; Stop has returned,   *)
(* with its Activities ended (stopped) or by the timeout (overran); its    *)
(* values have been dropped, and nothing (gone) or an Activity (adrift) is *)
(* left of it.                                                             *)
InstanceState == {"none", "polling", "draining", "stopped", "overran", "gone", "adrift"}

TypeOK ==
  /\ CtlTypeOK
  /\ pc \in {"down", "boot", "poll", "apply", "swap", "mark"}
  /\ msg \in {NoMsg} \cup [version : 1..MaxVersion, config : LaneConfig]
  /\ pc \in {"apply", "swap", "mark"} => msg # NoMsg
  /\ live \in {NoMsg} \cup [version : 1..MaxVersion, config : LaneConfig]
  /\ applied \in 0..MaxVersion
  /\ cacheSize \in Caches \cup {0}
  /\ running \in Options \cup {NoOptions}
  /\ swapCount \in 0..MaxSwaps
  /\ instance \in [Instances -> InstanceState]
  /\ gauged \subseteq Instances
  /\ failures \in 0..MaxFailures
  /\ crashes \in 0..MaxCrashes

GoInit ==
  /\ pc = "boot"
  /\ msg = NoMsg
  /\ live = NoMsg
  /\ applied = 0
  /\ cacheSize = 0
  /\ running = NoOptions
  /\ swapCount = 0
  /\ instance = [i \in Instances |-> "none"]
  /\ gauged = {}
  /\ failures = 0
  /\ crashes = 0

-----------------------------------------------------------------------------
(* waitForConfig and configLoop.  A fetch that fails changes nothing.      *)

FirstConfig ==
  /\ pc = "boot"
  /\ msg' = Versioned
  /\ cacheSize' = cfg.cache
  /\ pc' = "apply"
  /\ UNCHANGED <<labVars, live, applied, running, instVars, failures, crashes>>

Fetch ==
  /\ pc = "poll"
  /\ version # applied
  /\ msg' = Versioned
  /\ pc' = "apply"
  /\ UNCHANGED <<labVars, appliedVars, instVars, failures, crashes>>

-----------------------------------------------------------------------------
(* apply: the Activities see the configuration at once; a new cache size   *)
(* ends the process; new options swap the Worker; the version is recorded  *)
(* last.                                                                   *)

(* With a bug: the previous configuration is compared with the next one,   *)
(* not the options of the running Worker.                                  *)
NeedsSwapPrevious(prev, c) == prev = NoMsg \/ prev.config.opts # c.opts

NeedsSwap(prev, c) == running = NoOptions \/ running # c.opts

(* Everything the process kept is gone.                                    *)
Exit ==
  /\ pc' = "down"
  /\ msg' = NoMsg
  /\ live' = NoMsg
  /\ applied' = 0
  /\ cacheSize' = 0
  /\ running' = NoOptions
  /\ swapCount' = 0
  /\ instance' = [i \in Instances |-> "none"]
  /\ gauged' = {}

StoreConfig ==
  /\ live' = msg
  /\ pc' = IF NeedsSwap(live, msg.config) THEN "swap" ELSE "mark"
  /\ UNCHANGED <<msg, applied, cacheSize, running, instVars>>

Apply ==
  /\ pc = "apply"
  /\ IF msg.config.cache # cacheSize THEN Exit ELSE StoreConfig
  /\ UNCHANGED <<labVars, failures, crashes>>

(* Start the new Worker, then stop the old one in the background.          *)
SwapSucceeds ==
  /\ pc = "swap"
  /\ swapCount < MaxSwaps
  /\ swapCount' = swapCount + 1
  /\ instance' = [i \in Instances |->
       IF i = swapCount + 1 THEN "polling"
       ELSE IF instance[i] = "polling" THEN "draining" ELSE instance[i]]
  /\ running' = msg.config.opts
  /\ pc' = "mark"
  /\ UNCHANGED <<labVars, msg, live, applied, cacheSize, gauged, failures, crashes>>

(* With a bug: a failed swap is recorded as applied.                       *)
SwapFailsMarked ==
  /\ pc = "swap"
  /\ swapCount < MaxSwaps - 1
  /\ swapCount' = swapCount + 1
  /\ failures < MaxFailures
  /\ failures' = failures + 1
  /\ pc' = "mark"
  /\ UNCHANGED <<labVars, msg, appliedVars, instance, gauged, crashes>>

(* The client or the start of the new Worker fails: the old one stays.     *)
SwapFails ==
  /\ pc = "swap"
  /\ swapCount < MaxSwaps - 1
  /\ swapCount' = swapCount + 1
  /\ failures < MaxFailures
  /\ failures' = failures + 1
  /\ pc' = "poll"
  /\ UNCHANGED <<labVars, msg, appliedVars, instance, gauged, crashes>>

Mark ==
  /\ pc = "mark"
  /\ applied' = msg.version
  /\ pc' = "poll"
  /\ UNCHANGED <<labVars, msg, live, cacheSize, running, instVars, failures, crashes>>

ConfigLoop == FirstConfig \/ Fetch \/ Apply \/ SwapSucceeds \/ SwapFails \/ Mark

-----------------------------------------------------------------------------
(* The instances: the SDK updates the gauges of one that polls, drains or  *)
(* has an Activity left.                                                   *)

UpdateGauge(i) ==
  /\ instance[i] \in {"polling", "draining", "overran", "adrift"}
  /\ gauged' = gauged \cup {i}
  /\ UNCHANGED <<labVars, loopVars, appliedVars, swapCount, instance, failures, crashes>>

(* The goroutine of an old instance: Stop, then Close, which changes       *)
(* nothing kept here, and dropInstance.                                    *)
StopReturns(i) ==
  /\ instance[i] = "draining"
  /\ \E end \in {"stopped", "overran"} : instance' = [instance EXCEPT ![i] = end]
  /\ UNCHANGED <<labVars, loopVars, appliedVars, swapCount, gauged, failures, crashes>>

(* With a bug: the values are dropped when the drain begins.               *)
DropInstanceFirst(i) ==
  /\ instance[i] \in {"draining", "stopped", "overran"}
  /\ instance' = [instance EXCEPT ![i] =
       CASE @ = "draining" -> "draining" [] @ = "stopped" -> "gone" [] @ = "overran" -> "adrift"]
  /\ gauged' = IF instance[i] = "draining" THEN gauged \ {i} ELSE gauged
  /\ UNCHANGED <<labVars, loopVars, appliedVars, swapCount, failures, crashes>>

DropInstance(i) ==
  /\ instance[i] \in {"stopped", "overran"}
  /\ instance' = [instance EXCEPT ![i] = IF @ = "stopped" THEN "gone" ELSE "adrift"]
  /\ gauged' = gauged \ {i}
  /\ UNCHANGED <<labVars, loopVars, appliedVars, swapCount, failures, crashes>>

InstanceStep(i) == UpdateGauge(i) \/ StopReturns(i) \/ DropInstance(i)

(* The process.                                                            *)

Crash ==
  /\ pc # "down"
  /\ crashes < MaxCrashes
  /\ crashes' = crashes + 1
  /\ Exit
  /\ UNCHANGED <<labVars, failures>>

Start ==
  /\ pc = "down"
  /\ pc' = "boot"
  /\ UNCHANGED <<labVars, msg, appliedVars, instVars, failures, crashes>>

(* reportLoop, which starts after the first apply.                         *)
SendOne ==
  /\ pc = "poll" \/ applied # 0
  /\ SendReport(applied, running, cacheSize)
  /\ UNCHANGED goVars

-----------------------------------------------------------------------------
Init == CtlInit /\ GoInit

Next ==
  \/ ConfigLoop
  \/ \E i \in Instances : InstanceStep(i)
  \/ Crash
  \/ Start
  \/ SendOne
  \/ (CtlStep \/ HandleReport \/ LoseReport) /\ UNCHANGED goVars

Spec == Init /\ [][Next]_vars

(* The loops run once a second and twice a second; Compose restarts the    *)
(* process (restart: unless-stopped); not every post is lost.              *)
FairSpec ==
  /\ Spec
  /\ WF_vars(ConfigLoop)
  /\ WF_vars(Start)
  /\ WF_vars(SendOne)
  /\ SF_vars(HandleReport /\ UNCHANGED goVars)

-----------------------------------------------------------------------------
(* Properties.                                                             *)

(* The Go lane keeps the promise of Rollout: through swaps that fail or    *)
(* overlap, cache restarts and crashes the Task Queue of a live process    *)
(* keeps a poller, and neither a failed swap, nor a configuration set in   *)
(* the middle of one, nor a report overtaken by a later one, nor a         *)
(* controller that restarted and counts again from 1 makes the UI show a   *)
(* configuration as applied too early (worker.go 159-164, 173-175,         *)
(* controller.go 787).                                                     *)
Poller == IF \E i \in Instances : instance[i] = "polling" THEN "polling" ELSE "none"
Current == IF running = NoOptions THEN NotBuilt ELSE [opts |-> running, cache |-> cacheSize]

Lane == INSTANCE Rollout WITH
  Overlaps <- TRUE,
  want <- BuildOf(cfg), trusted <- Unambiguous,
  built <- ReportedBuild, shown <- Applied,
  alive <- pc # "down", current <- Current, poller <- Poller, raised <- 0

ImplementsRollout == Lane!Spec

(* A new configuration takes effect: once no more are posted, and unless   *)
(* its version was given out by a controller before, the Worker ends up    *)
(* built with the last one and shown as having applied it, through failed  *)
(* swaps, lost reports, cache restarts and crashes (worker.go 159-162).    *)
ConfigTakesEffect ==
  <>[](Unambiguous =>
       /\ running = cfg.opts
       /\ cacheSize = cfg.cache
       /\ live.config = cfg
       /\ Applied)

(* A Worker whose drain has ended stops counting: the gauges summed are    *)
(* those of Workers that poll or are being stopped, and of those an        *)
(* Activity of which outlived the 30 seconds of Stop, however the swaps    *)
(* overlap (telemetry.go 93-95, worker.go 213-217).                        *)
DrainedStopCounting == \A i \in gauged : instance[i] \notin {"none", "gone"}

=============================================================================
