---------------------------- MODULE PyLabWorker ----------------------------
(***************************************************************************)
(* The Python Worker of the tuning lab (demo/lab/pyworker/worker.py):      *)
(* config_loop, apply and swap, report_loop.                               *)
(*                                                                         *)
(* Everything runs on one event loop: between two awaits nothing else      *)
(* happens.  swap awaits only the connection of the new client, so that    *)
(* the new Worker, cfg and version change in one step.  worker.run() is a  *)
(* task nobody awaits: it polls once it has validated its namespace, while *)
(* the old Worker is told to shut down at once, and it may end with an     *)
(* exception.                                                              *)
(***************************************************************************)
EXTENDS LabController

CONSTANTS
  MaxSwaps,    \* bound: Worker instances made
  MaxFailures, \* bound: connections that fail
  MaxRunFaults,\* bound: Workers whose run() raises
  MaxCrashes   \* bound: crashes of the Worker process

ASSUME PyLabWorkerAssumption ==
  /\ MaxSwaps \in Nat /\ MaxFailures \in Nat
  /\ MaxRunFaults \in Nat /\ MaxCrashes \in Nat

VARIABLES
  pc,         \* what config_loop does next
  msg,        \* the configuration it has fetched
  pcfg,       \* self.cfg
  pversion,   \* self.version
  worker,     \* self.worker: its number, 0 before the first
  workerOpts, \* what that Worker was built with
  instance,   \* [1..MaxSwaps -> state of the Worker and its run() task]
  buffer,     \* the Worker whose gauge update is the last in the metric buffer, or 0
  gauge,      \* the Worker whose value Telemetry.gauges holds, or 0
  failures,   \* connections that have failed
  runFaults,  \* run() tasks that have raised
  crashes     \* crashes so far

loopVars == <<pc, msg>>
appliedVars == <<pcfg, pversion, worker, workerOpts>>
metricVars == <<buffer, gauge>>
faultVars == <<failures, runFaults, crashes>>
pyVars == <<loopVars, appliedVars, instance, metricVars, faultVars>>
vars == <<labVars, pyVars>>

NoMsg == [version |-> 0]
NoConfig == [opts |-> NoOptions]
Instances == 1..MaxSwaps

TypeOK ==
  /\ CtlTypeOK
  /\ pc \in {"down", "boot", "poll", "apply", "swap"}
  /\ msg \in {NoMsg} \cup [version : 1..MaxVersion, config : LaneConfig]
  /\ pc \in {"apply", "swap"} => msg # NoMsg
  /\ pcfg \in {NoConfig} \cup LaneConfig
  /\ pversion \in 0..MaxVersion
  /\ worker \in 0..MaxSwaps
  /\ workerOpts \in [opts : Options \cup {NoOptions}, cache : Caches \cup {0}]
  /\ instance \in [Instances -> {"none", "starting", "polling", "draining", "stopped", "failed"}]
  /\ buffer \in 0..MaxSwaps /\ gauge \in 0..MaxSwaps
  /\ failures \in 0..MaxFailures
  /\ runFaults \in 0..MaxRunFaults
  /\ crashes \in 0..MaxCrashes

PyInit ==
  /\ pc = "boot"
  /\ msg = NoMsg
  /\ pcfg = NoConfig
  /\ pversion = 0
  /\ worker = 0
  /\ workerOpts = [opts |-> NoOptions, cache |-> 0]
  /\ instance = [i \in Instances |-> "none"]
  /\ buffer = 0
  /\ gauge = 0
  /\ failures = 0
  /\ runFaults = 0
  /\ crashes = 0

-----------------------------------------------------------------------------
(* main's first loop and config_loop: fetch, then apply.                   *)

Fetch ==
  /\ pc \in {"boot", "poll"}
  /\ version # pversion
  /\ msg' = Versioned
  /\ pc' = "apply"
  /\ UNCHANGED <<labVars, appliedVars, instance, metricVars, faultVars>>

NeedsSwap(c) == pcfg = NoConfig \/ pcfg.opts # c.opts \/ pcfg.cache # c.cache

Record == pcfg' = msg.config /\ pversion' = msg.version

Apply ==
  /\ pc = "apply"
  /\ IF NeedsSwap(msg.config)
     THEN pc' = "swap" /\ UNCHANGED <<pcfg, pversion>>
     ELSE pc' = "poll" /\ Record
  /\ UNCHANGED <<labVars, msg, worker, workerOpts, instance, metricVars, faultVars>>

(* With a bug: the old Worker is shut down before the connection is made.  *)
SwapFailsAfterShutdown ==
  /\ pc = "swap"
  /\ failures < MaxFailures
  /\ failures' = failures + 1
  /\ pc' = IF pcfg = NoConfig THEN "boot" ELSE "poll"
  /\ instance' = [i \in Instances |-> IF i = worker THEN "draining" ELSE instance[i]]
  /\ UNCHANGED <<labVars, msg, appliedVars, metricVars, runFaults, crashes>>

(* Client.connect or the constructor raises; the next poll tries again.    *)
SwapFails ==
  /\ pc = "swap"
  /\ failures < MaxFailures
  /\ failures' = failures + 1
  /\ pc' = IF pcfg = NoConfig THEN "boot" ELSE "poll"
  /\ UNCHANGED <<labVars, msg, appliedVars, instance, metricVars, runFaults, crashes>>

(* With a bug: the old Worker is not told to drain.                        *)
KeepOld(state) == state

Retire(state) == IF state = "failed" THEN state ELSE "draining"

Swap ==
  /\ pc = "swap"
  /\ worker < MaxSwaps
  /\ worker' = worker + 1
  /\ workerOpts' = [opts |-> msg.config.opts, cache |-> msg.config.cache]
  /\ instance' = [i \in Instances |->
       IF i = worker + 1 THEN "starting"
       ELSE IF i = worker THEN Retire(instance[i]) ELSE instance[i]]
  /\ gauge' = 0
  /\ Record
  /\ pc' = "poll"
  /\ UNCHANGED <<labVars, msg, buffer, faultVars>>

ConfigLoop == Fetch \/ Apply \/ SwapFails \/ Swap

-----------------------------------------------------------------------------
(* The run() tasks and the drain of an old one.                            *)

(* run() has validated the Worker's namespace and begins to poll.          *)
RunStarts(i) ==
  /\ instance[i] = "starting"
  /\ instance' = [instance EXCEPT ![i] = "polling"]
  /\ UNCHANGED <<labVars, loopVars, appliedVars, metricVars, faultVars>>

RunRaises(i) ==
  /\ instance[i] \in {"starting", "polling"}
  /\ runFaults < MaxRunFaults
  /\ runFaults' = runFaults + 1
  /\ instance' = [instance EXCEPT ![i] = "failed"]
  /\ UNCHANGED <<labVars, loopVars, appliedVars, metricVars, failures, crashes>>

Drained(i) ==
  /\ instance[i] = "draining"
  /\ instance' = [instance EXCEPT ![i] = "stopped"]
  /\ UNCHANGED <<labVars, loopVars, appliedVars, metricVars, faultVars>>

(* The SDK's metric buffer: a Worker that polls or drains updates gauges,  *)
(* which carry no Worker; the last update of a key is the one that counts. *)
Emit(i) ==
  /\ instance[i] \in {"polling", "draining"}
  /\ buffer' = i
  /\ UNCHANGED <<labVars, loopVars, appliedVars, instance, gauge, faultVars>>

(* report_loop: drain the buffer, then post.                               *)
SendOne ==
  /\ pc # "down"
  /\ pcfg # NoConfig
  /\ SendReport(pversion, workerOpts.opts, workerOpts.cache)
  /\ gauge' = IF buffer = 0 THEN gauge ELSE buffer
  /\ buffer' = 0
  /\ UNCHANGED <<loopVars, appliedVars, instance, faultVars>>

Crash ==
  /\ pc # "down"
  /\ crashes < MaxCrashes
  /\ crashes' = crashes + 1
  /\ pc' = "down"
  /\ msg' = NoMsg
  /\ pcfg' = NoConfig
  /\ pversion' = 0
  /\ worker' = 0
  /\ workerOpts' = [opts |-> NoOptions, cache |-> 0]
  /\ instance' = [i \in Instances |-> "none"]
  /\ buffer' = 0
  /\ gauge' = 0
  /\ UNCHANGED <<labVars, failures, runFaults>>

Start ==
  /\ pc = "down"
  /\ pc' = "boot"
  /\ UNCHANGED <<labVars, msg, appliedVars, instance, metricVars, faultVars>>

-----------------------------------------------------------------------------
Init == CtlInit /\ PyInit

Next ==
  \/ ConfigLoop
  \/ \E i \in Instances : RunStarts(i) \/ RunRaises(i) \/ Drained(i) \/ Emit(i)
  \/ SendOne
  \/ Crash
  \/ Start
  \/ (CtlStep \/ HandleReport \/ LoseReport) /\ UNCHANGED pyVars

Spec == Init /\ [][Next]_vars

(* Both loops run for ever, Compose restarts the process (restart:         *)
(* unless-stopped), not every post is lost, a run() task starts, a drain   *)
(* ends (graceful_shutdown_timeout), and a polling Worker keeps updating.  *)
FairSpec ==
  /\ Spec
  /\ WF_vars(ConfigLoop)
  /\ WF_vars(Start)
  /\ SF_vars(SendOne)
  /\ SF_vars(HandleReport /\ UNCHANGED pyVars)
  /\ \A i \in Instances :
       WF_vars(RunStarts(i)) /\ WF_vars(Drained(i)) /\ WF_vars(Emit(i))

-----------------------------------------------------------------------------
(* Properties.                                                             *)

(* The current Worker of the lane, as the Task Queue sees it.              *)
Poller ==
  IF \E i \in Instances : instance[i] = "polling" THEN "polling"
  ELSE IF \E i \in Instances : instance[i] = "starting" THEN "starting"
  ELSE "none"

(* The Python lane keeps the promise of Rollout, with a configuration set  *)
(* while swap awaits its connection, connections that fail and a           *)
(* controller that restarts: the Task Queue loses its poller only while a  *)
(* Worker built otherwise is starting, or to a run() that raised, whose    *)
(* task is awaited by nobody; and what the UI shows as applied was built   *)
(* (worker.py 257, 274-282, 288-292).                                      *)
Lane == INSTANCE Rollout WITH
  Overlaps <- FALSE,
  want <- BuildOf(cfg), trusted <- Unambiguous,
  built <- ReportedBuild, shown <- Applied,
  alive <- pc # "down", current <- workerOpts, poller <- Poller, raised <- runFaults

ImplementsRollout == Lane!Spec

(* After the last swap the gauges shown end up as those of the current     *)
(* Worker and stay so, although updates carry no Worker and the old one    *)
(* goes on updating while it drains: it does not drain for ever            *)
(* (worker.py 123-125, 276-282).                                           *)
GaugesSettle ==
  <>[](runFaults = 0 => gauge \in {0, worker})

=============================================================================
