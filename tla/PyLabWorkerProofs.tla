------------------------- MODULE PyLabWorkerProofs -------------------------
(***************************************************************************)
(* The Python lane of the tuning lab keeps the promise of Rollout, for any *)
(* number of requests, configurations, swaps, failures, crashes and        *)
(* restarts of the controller.                                             *)
(***************************************************************************)
EXTENDS PyLabWorker, TLAPS

(* What the Worker would report now.                                       *)
Now == [version |-> pversion, opts |-> workerOpts.opts, cache |-> workerOpts.cache]

(* The reports on their way and the one on show.                           *)
Reports == posts \cup {report}

(* A report that names a version names what a Worker was built with.       *)
WellBuilt(r) == r.version # 0 => r.opts \in Options /\ r.cache \in Caches

(* No version is ahead of those given out, and the lane's own version, if  *)
(* no controller gave it out before, stands for the lane's own             *)
(* configuration.                                                          *)
Truthful(r) ==
  /\ r.version <= Highest
  /\ Unambiguous /\ r.version = version => BuildOf(r) = BuildOf(cfg)

(* swap and apply change cfg, version and the Worker in one step: what     *)
(* self.cfg asks for is what the Worker was built with, and a swap is made *)
(* for another build only.                                                 *)
BuiltAsRecorded ==
  /\ IF pcfg = NoConfig THEN workerOpts = NotBuilt
     ELSE BuildOf(workerOpts) = BuildOf(pcfg) /\ pversion # 0
  /\ pc = "swap" => NeedsSwap(msg.config)
  /\ pc = "down" => pcfg = NoConfig

(* Only the current Worker starts or polls.                                *)
OnlyCurrent ==
  /\ \A i \in Instances : instance[i] \in {"starting", "polling"} => i = worker
  /\ \A i \in Instances : i > worker => instance[i] = "none"

ReportInv == \A r \in Reports : WellBuilt(r)

(* A version no controller gave out before is given to one configuration   *)
(* only.                                                                   *)
Names(v, c) == v <= Highest /\ (Unambiguous /\ v = version => c = cfg)

VersionInv ==
  /\ \A r \in Reports : Truthful(r)
  /\ msg # NoMsg => Names(msg.version, msg.config)
  /\ pcfg # NoConfig => Names(pversion, pcfg)

IInv == TypeOK /\ BuiltAsRecorded /\ OnlyCurrent /\ ReportInv /\ VersionInv

-----------------------------------------------------------------------------
(* The controller's own types, whatever the Worker does.                   *)

(* validate brings ioConcurrency within its bounds.                        *)
LEMMA ValidateType ==
  ASSUME NEW o \in Options, NEW s \in Caches, NEW n \in PostedIO
  PROVE  Validate([opts |-> o, cache |-> s, io |-> n]) \in LaneConfig
BY LabAssumption DEF Validate, Clamp, LaneConfig

(* The controller starts well formed.                                      *)
LEMMA CtlInitType == CtlInit => CtlTypeOK
BY LabAssumption DEF CtlInit, CtlTypeOK, LaneConfig, NumLanes

(* Its steps keep it well formed.                                          *)
LEMMA CtlType ==
  ASSUME CtlTypeOK, CtlStep \/ HandleReport \/ LoseReport
  PROVE  CtlTypeOK'
<1> USE DEF CtlTypeOK, NumLanes, ctlVars, reportVars
<1>1. ASSUME NEW h \in Handlers, PostConfig(h) PROVE CtlTypeOK'
  <2>1. PICK c \in LaneConfig : SetConfig(h, c)
    BY <1>1, ValidateType DEF PostConfig
  <2>2. c.io \in 1..MaxIO
    BY DEF LaneConfig
  <2>3. handler' \in [Handlers -> {Idle} \cup [pc : {"limit"}, io : 1..MaxIO]]
    BY <2>1, <2>2 DEF SetConfig
  <2>4. counter' \in NumLanes..MaxVersion /\ version' \in 1..counter'
    BY <2>1, LabAssumption DEF SetConfig
  <2> QED
    BY <2>1, <2>3, <2>4 DEF SetConfig
<1>2. ASSUME NEW h \in Handlers, SetLimit(h) PROVE CtlTypeOK'
  <2>1. limit' \in 1..MaxIO
    BY <1>2 DEF SetLimit
  <2>2. handler' = [handler EXCEPT ![h] = Idle]
    BY <1>2 DEF SetLimit
  <2> QED
    BY <1>2, <2>1, <2>2 DEF SetLimit
<1>3. CASE OtherLane
  BY <1>3, LabAssumption DEF OtherLane
<1>4. CASE RestartController
  <2>1. /\ NumLanes \in NumLanes..MaxVersion /\ BootVersion \in 1..NumLanes
        /\ Baseline \in LaneConfig /\ Baseline.io \in 1..MaxIO
    BY LabAssumption DEF LaneConfig
  <2>2. restarts' \in 0..MaxRestarts /\ givenOut' \in 0..MaxVersion
    BY <1>4, LabAssumption DEF RestartController, Highest
  <2> QED
    BY <1>4, <2>1, <2>2 DEF RestartController
<1>5. CASE HandleReport
  BY <1>5 DEF HandleReport
<1>6. CASE LoseReport
  BY <1>6 DEF LoseReport
<1> QED
  BY <1>1, <1>2, <1>3, <1>4, <1>5, <1>6 DEF CtlStep

-----------------------------------------------------------------------------
(* The steps of the controller.                                            *)

(* Initially nothing is applied and nothing reported.                      *)
LEMMA InitIInv == Init => IInv
<1> SUFFICES ASSUME Init PROVE IInv
  OBVIOUS
<1> USE LabAssumption, PyLabWorkerAssumption DEF Init, PyInit
<1>1. TypeOK
  BY CtlInitType DEF TypeOK, Instances, NoMsg, NoConfig, NoOptions
<1>2. BuiltAsRecorded /\ OnlyCurrent
  BY DEF BuiltAsRecorded, OnlyCurrent, NotBuilt
<1>3. ReportInv
  BY DEF CtlInit, ReportInv, Reports, WellBuilt, None
<1>4. VersionInv
  BY DEF CtlInit, VersionInv, Reports, Truthful, None, NumLanes, NoMsg, Highest, Unambiguous
<1> QED
  BY <1>1, <1>2, <1>3, <1>4 DEF IInv

(* A configuration is posted: its version is new.                          *)
LEMMA PostConfigKeeps ==
  ASSUME NEW h \in Handlers, IInv, PostConfig(h), UNCHANGED pyVars
  PROVE  ReportInv' /\ VersionInv'
<1>1. PICK c \in LaneConfig : SetConfig(h, c)
  BY ValidateType DEF PostConfig
<1> USE <1>1 DEF SetConfig, reportVars, pyVars, loopVars, appliedVars
<1>2. ReportInv'
  BY DEF IInv, ReportInv, Reports, WellBuilt
<1>3. VersionInv'
  <2>1. /\ counter \in Nat /\ givenOut \in Nat
        /\ version' = counter + 1 /\ counter' = counter + 1 /\ givenOut' = givenOut
    BY DEF IInv, TypeOK, CtlTypeOK, NumLanes
  <2>2. /\ \A n \in Nat : n <= Highest => n <= Highest'
        /\ \A n \in Nat : n <= Highest /\ Unambiguous' => n < version'
    BY <2>1 DEF Highest, Unambiguous
  <2>3. \A r \in Reports : r.version \in Nat /\ r.version <= Highest
    BY DEF IInv, TypeOK, CtlTypeOK, VersionInv, Truthful, Reports, Report, None
  <2>4. (msg # NoMsg => msg.version \in Nat) /\ pversion \in Nat
    BY DEF IInv, TypeOK
  <2>5. /\ msg # NoMsg => msg.version <= Highest
        /\ pcfg # NoConfig => pversion <= Highest
    BY DEF IInv, VersionInv, Names
  <2>6. Reports' = Reports /\ version' \in Nat
    BY <2>1 DEF Reports
  <2>7. \A r \in Reports' : Truthful(r)'
    BY <2>2, <2>3, <2>6 DEF Truthful
  <2> QED
    BY <2>2, <2>4, <2>5, <2>6, <2>7 DEF VersionInv, Names
<1> QED
  BY <1>2, <1>3

(* The other steps of the controller.                                      *)
LEMMA CtlKeeps ==
  ASSUME IInv, CtlStep \/ HandleReport \/ LoseReport, UNCHANGED pyVars
  PROVE  IInv'
<1> USE DEF pyVars, loopVars, appliedVars, metricVars, faultVars, ctlVars, reportVars
<1>1. TypeOK' /\ BuiltAsRecorded' /\ OnlyCurrent'
  BY CtlType DEF IInv, TypeOK, BuiltAsRecorded, OnlyCurrent, BuildOf, NeedsSwap
<1> SUFFICES ReportInv' /\ VersionInv'
  BY <1>1 DEF IInv
<1>2. ASSUME NEW h \in Handlers, PostConfig(h) PROVE ReportInv' /\ VersionInv'
  BY <1>2, PostConfigKeeps
<1>3. ASSUME NEW h \in Handlers, SetLimit(h) PROVE ReportInv' /\ VersionInv'
  BY <1>3
     DEF SetLimit, IInv, ReportInv, VersionInv, Reports, WellBuilt, Truthful, Names, BuildOf,
         Highest, Unambiguous
<1>4. CASE OtherLane
  <2>1. Reports' = Reports /\ UNCHANGED <<version, cfg, givenOut, msg, pcfg, pversion>>
    BY <1>4 DEF OtherLane, Reports
  <2>2. \A n \in Nat : n <= Highest => n <= Highest'
    BY <1>4 DEF OtherLane, IInv, TypeOK, CtlTypeOK, NumLanes, Highest
  <2>3. \A r \in Reports : r.version \in Nat
    BY DEF IInv, TypeOK, CtlTypeOK, Reports, Report, None
  <2>4. \A r \in Reports' : Truthful(r)'
    BY <2>1, <2>2, <2>3 DEF IInv, VersionInv, Truthful, Unambiguous, BuildOf
  <2>5. (msg # NoMsg => msg.version \in Nat) /\ pversion \in Nat
    BY DEF IInv, TypeOK
  <2>6. VersionInv'
    BY <2>1, <2>2, <2>4, <2>5 DEF IInv, VersionInv, Names, Unambiguous
  <2> QED
    BY <2>1, <2>6 DEF IInv, ReportInv, WellBuilt
<1>5. CASE RestartController
  <2>1. ReportInv'
    BY <1>5 DEF RestartController, IInv, ReportInv, Reports, WellBuilt, None
  <2>2. counter \in Nat /\ NumLanes <= counter /\ givenOut \in Nat
    BY DEF IInv, TypeOK, CtlTypeOK, NumLanes
  <2>3. /\ givenOut' = Highest /\ counter' = NumLanes /\ version' = BootVersion
        /\ BootVersion <= NumLanes /\ NumLanes \in Nat /\ BootVersion \in Nat
    BY <1>5, LabAssumption DEF RestartController, NumLanes
  <2>4. Highest' = Highest /\ ~Unambiguous' /\ Highest \in Nat
    BY <2>2, <2>3 DEF Highest, Unambiguous
  <2>5. (\A r \in Reports' : r.version = 0) /\ UNCHANGED <<msg, pcfg, pversion>>
    BY <1>5 DEF RestartController, Reports, None
  <2>6. VersionInv'
    BY <2>4, <2>5 DEF IInv, VersionInv, Truthful, Names
  <2> QED
    BY <2>1, <2>6
<1>6. CASE HandleReport \/ LoseReport
  <2>1. Reports' \subseteq Reports /\ UNCHANGED ctlVars
    BY <1>6 DEF HandleReport, LoseReport, Reports
  <2> QED
    BY <2>1
       DEF IInv, ReportInv, VersionInv, WellBuilt, Truthful, Names, BuildOf, Highest, Unambiguous
<1> QED
  BY <1>2, <1>3, <1>4, <1>5, <1>6 DEF CtlStep

-----------------------------------------------------------------------------
(* The steps of the Worker.                                                *)

(* Steps of the Worker leave the controller as it is, and what was         *)
(* reported honest.                                                        *)
LEMMA LabSame ==
  ASSUME IInv, UNCHANGED labVars
  PROVE  /\ CtlTypeOK' /\ ReportInv' /\ \A r \in Reports' : Truthful(r)'
         /\ UNCHANGED <<version, cfg, Highest, Unambiguous>>
<1> USE DEF labVars, ctlVars, reportVars
<1>1. CtlTypeOK'
  BY DEF IInv, TypeOK, CtlTypeOK
<1>2. UNCHANGED <<version, cfg, Highest, Unambiguous>>
  BY DEF Highest, Unambiguous
<1>3. ReportInv' /\ \A r \in Reports' : Truthful(r)'
  BY <1>2 DEF IInv, ReportInv, VersionInv, Reports, WellBuilt, Truthful, BuildOf
<1> QED
  BY <1>1, <1>2, <1>3

(* The configuration that has been fetched is the lane's.                  *)
LEMMA FetchKeeps == ASSUME IInv, Fetch PROVE IInv'
<1> USE DEF Fetch, appliedVars, metricVars, faultVars
<1>1. version \in 1..MaxVersion /\ cfg \in LaneConfig
  BY LabAssumption DEF IInv, TypeOK, CtlTypeOK, NumLanes
<1>2. TypeOK'
  BY <1>1, LabSame DEF IInv, TypeOK, Versioned, NoMsg
<1>3. BuiltAsRecorded' /\ OnlyCurrent'
  BY DEF IInv, BuiltAsRecorded, OnlyCurrent, BuildOf, NeedsSwap
<1>4. version <= Highest
  BY DEF Highest, IInv, TypeOK, CtlTypeOK, NumLanes
<1>5. VersionInv'
  BY <1>1, <1>4, LabSame DEF IInv, VersionInv, Names, Versioned
<1> QED
  BY <1>2, <1>3, <1>5, LabSame DEF IInv

(* No configuration is the absence of one.                                 *)
LEMMA NoConfigIsNone == \A c \in LaneConfig : c # NoConfig
BY LabAssumption DEF LaneConfig, NoConfig

(* What a message names is recorded when the Worker is built as it says.   *)
LEMMA RecordKeeps ==
  ASSUME IInv, Record, pc \in {"apply", "swap"}, pc' = "poll",
         UNCHANGED <<labVars, msg, faultVars>>,
         BuildOf(workerOpts') = BuildOf(msg.config),
         workerOpts' \in [opts : Options \cup {NoOptions}, cache : Caches \cup {0}],
         worker' \in 0..MaxSwaps, buffer' \in 0..MaxSwaps, gauge' \in 0..MaxSwaps,
         instance' \in [Instances ->
           {"none", "starting", "polling", "draining", "stopped", "failed"}],
         OnlyCurrent'
  PROVE  IInv'
<1> USE DEF Record, faultVars
<1>1. msg # NoMsg /\ msg \in [version : 1..MaxVersion, config : LaneConfig]
  BY DEF IInv, TypeOK
<1>2. TypeOK'
  BY <1>1, LabSame DEF IInv, TypeOK
<1>3. BuiltAsRecorded'
  BY <1>1, NoConfigIsNone DEF BuiltAsRecorded, BuildOf
<1>4. VersionInv'
  BY <1>1, LabSame DEF IInv, VersionInv, Names
<1> QED
  BY <1>2, <1>3, <1>4, LabSame DEF IInv

(* apply records at once a configuration that needs no swap.               *)
LEMMA ApplyKeeps == ASSUME IInv, Apply PROVE IInv'
<1> USE DEF Apply, metricVars, faultVars
<1>1. CASE NeedsSwap(msg.config)
  <2>1. TypeOK'
    BY <1>1, LabSame DEF IInv, TypeOK
  <2>2. BuiltAsRecorded' /\ OnlyCurrent' /\ VersionInv'
    BY <1>1, LabSame
       DEF IInv, BuiltAsRecorded, OnlyCurrent, BuildOf, NeedsSwap, VersionInv, Names
  <2> QED
    BY <2>1, <2>2, LabSame DEF IInv
<1>2. CASE ~NeedsSwap(msg.config)
  <2>1. BuildOf(workerOpts) = BuildOf(msg.config)
    BY <1>2 DEF IInv, BuiltAsRecorded, NeedsSwap, BuildOf
  <2>2. OnlyCurrent'
    BY DEF IInv, OnlyCurrent
  <2> QED
    BY <1>2, <2>1, <2>2, RecordKeeps DEF IInv, TypeOK
<1> QED
  BY <1>1, <1>2

(* swap makes a Worker of the configuration and records it in one step.    *)
LEMMA SwapKeeps == ASSUME IInv, Swap PROVE IInv'
<1> USE DEF Swap
<1>1. msg.config.opts \in Options /\ msg.config.cache \in Caches
  BY DEF IInv, TypeOK, LaneConfig
<1>2. /\ workerOpts' \in [opts : Options \cup {NoOptions}, cache : Caches \cup {0}]
      /\ BuildOf(workerOpts') = BuildOf(msg.config)
  BY <1>1 DEF BuildOf
<1>3. instance' \in [Instances ->
        {"none", "starting", "polling", "draining", "stopped", "failed"}]
  BY DEF Retire, IInv, TypeOK
<1>4. worker' \in 0..MaxSwaps /\ buffer' \in 0..MaxSwaps /\ gauge' \in 0..MaxSwaps
  BY PyLabWorkerAssumption DEF IInv, TypeOK
<1>5. OnlyCurrent'
  BY <1>4, PyLabWorkerAssumption DEF IInv, OnlyCurrent, Retire, Instances, TypeOK
<1> QED
  BY <1>2, <1>3, <1>4, <1>5, RecordKeeps

(* A process that ends forgets what it had applied.                        *)
LEMMA CrashKeeps == ASSUME IInv, Crash PROVE IInv'
<1> USE DEF Crash
<1>1. TypeOK'
  BY LabAssumption, PyLabWorkerAssumption, LabSame DEF IInv, TypeOK, NoMsg, NoConfig, NoOptions
<1>2. BuiltAsRecorded' /\ OnlyCurrent' /\ VersionInv'
  BY LabSame DEF IInv, BuiltAsRecorded, OnlyCurrent, VersionInv, NotBuilt, NoMsg
<1> QED
  BY <1>1, <1>2, LabSame DEF IInv

(* A swap that fails, the tasks of the Workers, the metric buffer and the  *)
(* start of the process leave alone what is recorded.                      *)
LEMMA TasksKeep ==
  ASSUME IInv,
         \/ SwapFails \/ Start
         \/ \E i \in Instances : RunStarts(i) \/ RunRaises(i) \/ Drained(i) \/ Emit(i)
  PROVE  IInv'
<1> USE DEF loopVars, appliedVars, metricVars, faultVars
<1>1. /\ UNCHANGED <<labVars, msg, appliedVars, crashes>>
      /\ pc' = pc \/ pc' \in {"boot", "poll"}
  BY DEF SwapFails, Start, RunStarts, RunRaises, Drained, Emit
<1>2. /\ instance' \in [Instances ->
           {"none", "starting", "polling", "draining", "stopped", "failed"}]
      /\ buffer' \in 0..MaxSwaps /\ gauge' \in 0..MaxSwaps
  BY PyLabWorkerAssumption
     DEF SwapFails, Start, RunStarts, RunRaises, Drained, Emit, IInv, TypeOK, Instances
<1>3. failures' \in 0..MaxFailures /\ runFaults' \in 0..MaxRunFaults
  BY PyLabWorkerAssumption
     DEF SwapFails, Start, RunStarts, RunRaises, Drained, Emit, IInv, TypeOK
<1>4. TypeOK'
  BY <1>1, <1>2, <1>3, LabSame DEF IInv, TypeOK
<1>5. BuiltAsRecorded' /\ VersionInv'
  BY <1>1, LabSame DEF IInv, BuiltAsRecorded, BuildOf, NeedsSwap, VersionInv, Names
<1>6. OnlyCurrent'
  BY <1>1 DEF SwapFails, Start, RunStarts, RunRaises, Drained, Emit, IInv, TypeOK, OnlyCurrent
<1> QED
  BY <1>1, <1>4, <1>5, <1>6, LabSame DEF IInv

(* A report on its way is what the Worker had recorded when it was sent.   *)
LEMMA SendOneKeeps == ASSUME IInv, SendOne PROVE IInv'
<1> USE DEF SendOne, SendReport, loopVars, appliedVars, faultVars, ctlVars
<1>1. Now \in Report /\ posts' = posts \cup {Now} /\ report' = report
  BY DEF Now, Report, IInv, TypeOK
<1>2. TypeOK'
  BY <1>1, PyLabWorkerAssumption DEF IInv, TypeOK, CtlTypeOK
<1>3. pcfg \in LaneConfig /\ BuildOf(workerOpts) = BuildOf(pcfg)
  BY DEF IInv, TypeOK, BuiltAsRecorded
<1>4. WellBuilt(Now) /\ Truthful(Now)
  BY <1>3 DEF WellBuilt, Truthful, Now, BuildOf, LaneConfig, IInv, VersionInv, Names
<1>5. ReportInv'
  BY <1>1, <1>4 DEF IInv, ReportInv, Reports, WellBuilt
<1>6. VersionInv'
  BY <1>1, <1>4
     DEF IInv, VersionInv, Reports, Truthful, Names, BuildOf, Highest, Unambiguous
<1>7. BuiltAsRecorded' /\ OnlyCurrent'
  BY DEF IInv, BuiltAsRecorded, OnlyCurrent, BuildOf, NeedsSwap
<1> QED
  BY <1>2, <1>5, <1>6, <1>7 DEF IInv

(* Every step keeps the invariant.                                         *)
LEMMA NextIInv == IInv /\ [Next]_vars => IInv'
<1> SUFFICES ASSUME IInv, [Next]_vars PROVE IInv'
  OBVIOUS
<1>1. CASE UNCHANGED vars
  <2>1. UNCHANGED labVars /\ UNCHANGED <<loopVars, appliedVars, instance, metricVars, faultVars>>
    BY <1>1 DEF vars, pyVars
  <2>2. TypeOK'
    BY <2>1, LabSame DEF IInv, TypeOK, loopVars, appliedVars, metricVars, faultVars
  <2>3. BuiltAsRecorded' /\ OnlyCurrent' /\ VersionInv'
    BY <2>1, LabSame
       DEF IInv, BuiltAsRecorded, OnlyCurrent, BuildOf, NeedsSwap, VersionInv, Names, loopVars,
           appliedVars
  <2> QED
    BY <2>1, <2>2, <2>3, LabSame DEF IInv
<1>2. CASE Next
  BY <1>2, FetchKeeps, ApplyKeeps, SwapKeeps, TasksKeep, SendOneKeeps, CrashKeeps, CtlKeeps
     DEF Next, ConfigLoop
<1> QED
  BY <1>1, <1>2

(* The Worker's state and the controller's are always well formed.         *)
THEOREM PyLabWorkerTypeOK == Spec => []TypeOK
<1>1. IInv => TypeOK
  BY DEF IInv
<1> QED
  BY InitIInv, NextIInv, <1>1, PTL DEF Spec

-----------------------------------------------------------------------------
(* The refinement: what a step of the lane is in Rollout.                  *)

(* A lane that starts has nothing built, nothing shown and no poller.      *)
LEMMA LaneInit == Init => Lane!Init
<1> SUFFICES ASSUME Init PROVE Lane!Init
  OBVIOUS
<1>1. BuildOf(cfg) \in Builds
  BY LabAssumption DEF Init, CtlInit, BuildOf, Builds, LaneConfig
<1>2. ReportedBuild = NotBuilt /\ Applied = FALSE /\ Unambiguous = TRUE
  BY LabAssumption DEF Init, CtlInit, ReportedBuild, Applied, None, NumLanes, Unambiguous
<1>3. workerOpts = NotBuilt /\ Poller = "none"
  BY DEF Init, PyInit, NotBuilt, Poller
<1> QED
  BY <1>1, <1>2, <1>3 DEF Lane!Init, Init, PyInit

(* What the controller shows is the same while it does nothing.            *)
LEMMA LabLane ==
  ASSUME UNCHANGED <<cfg, report, version, givenOut>>
  PROVE  UNCHANGED <<Lane!setVars, Lane!toldVars>>
BY DEF Lane!setVars, Lane!toldVars, BuildOf, ReportedBuild, Applied, Unambiguous

(* A step that leaves all that Rollout sees is a stutter.                  *)
LEMMA LaneStutter ==
  ASSUME UNCHANGED <<cfg, report, version, givenOut, workerOpts, instance, runFaults>>,
         pc = "down" <=> pc' = "down"
  PROVE  UNCHANGED Lane!vars
<1>1. UNCHANGED Poller
  BY DEF Poller
<1> QED
  BY <1>1, LabLane DEF Lane!vars, Lane!workerVars

(* What is unchanged of the process is unchanged of the Worker.            *)
LEMMA PyLane == ASSUME UNCHANGED pyVars PROVE UNCHANGED Lane!workerVars
<1>1. UNCHANGED <<pc, workerOpts, instance, runFaults>>
  BY DEF pyVars, loopVars, appliedVars, faultVars
<1> QED
  BY <1>1 DEF Lane!workerVars, Poller

(* A configuration that is posted has a new version: it is not shown as    *)
(* applied, unless a controller before this one gave the version out.      *)
LEMMA LaneSet ==
  ASSUME NEW h \in Handlers, IInv, IInv', PostConfig(h), UNCHANGED pyVars
  PROVE  Lane!Set
<1>1. PICK c \in LaneConfig : SetConfig(h, c)
  BY ValidateType DEF PostConfig
<1>2. UNCHANGED <<report, givenOut>> /\ version' = counter + 1
  BY <1>1 DEF SetConfig, reportVars
<1>3. /\ report.version \in Nat /\ version \in Nat /\ counter \in Nat /\ version <= counter
      /\ givenOut \in Nat
  BY DEF IInv, TypeOK, CtlTypeOK, Report, None, NumLanes
<1>4. report.version <= Highest
  BY DEF IInv, VersionInv, Reports, Truthful
<1>5. (Unambiguous => Unambiguous') /\ (Unambiguous' => ~Applied')
  BY <1>2, <1>3, <1>4 DEF Applied, Unambiguous, Highest
<1>6. BuildOf(cfg)' \in Builds
  BY DEF IInv, TypeOK, CtlTypeOK, BuildOf, Builds, LaneConfig
<1>7. Unambiguous' \in BOOLEAN /\ Applied' \in BOOLEAN
  BY DEF Unambiguous, Applied
<1> QED
  BY <1>2, <1>5, <1>6, <1>7, PyLane DEF Lane!Set, ReportedBuild, BuildOf

(* A report of the lane's own version is of the lane's own configuration.  *)
LEMMA LaneTell ==
  ASSUME IInv, IInv', HandleReport, UNCHANGED pyVars
  PROVE  Lane!Tell
<1>1. UNCHANGED <<cfg, version, givenOut>>
  BY DEF HandleReport, ctlVars
<1>2. ReportedBuild' \in Builds \cup {NotBuilt}
  BY DEF IInv, ReportInv, Reports, WellBuilt, ReportedBuild, BuildOf, Builds
<1>3. Truthful(report)'
  BY DEF IInv, VersionInv, Reports
<1>4. version # 0
  BY DEF IInv, TypeOK, CtlTypeOK, NumLanes
<1>5. Unambiguous /\ Applied' => ReportedBuild' = BuildOf(cfg)
  BY <1>1, <1>3, <1>4 DEF Applied, ReportedBuild, Truthful, BuildOf, Unambiguous
<1>6. Applied' \in BOOLEAN /\ UNCHANGED Lane!setVars
  BY <1>1 DEF Applied, Lane!setVars, BuildOf, Unambiguous
<1> QED
  BY <1>2, <1>5, <1>6, PyLane DEF Lane!Tell

(* A swap makes a Worker that is built otherwise, and that nobody polls    *)
(* for yet: the old one is retired.                                        *)
LEMMA LaneSwap == ASSUME IInv, IInv', Swap PROVE Lane!Swap
<1>1. /\ UNCHANGED <<cfg, report, version, givenOut, runFaults>> /\ pc = "swap" /\ pc' = "poll"
      /\ worker + 1 \in Instances /\ worker' = worker + 1
      /\ instance'[worker + 1] = "starting"
      /\ workerOpts' = [opts |-> msg.config.opts, cache |-> msg.config.cache]
  BY PyLabWorkerAssumption
     DEF Swap, labVars, ctlVars, reportVars, faultVars, Instances, IInv, TypeOK
<1>2. ~\E i \in Instances : instance'[i] = "polling"
  BY <1>1 DEF IInv, OnlyCurrent
<1>3. Poller' = "starting"
  BY <1>1, <1>2 DEF Poller
<1>4. msg.config.opts \in Options /\ msg.config.cache \in Caches /\ NeedsSwap(msg.config)
  BY <1>1 DEF IInv, TypeOK, LaneConfig, BuiltAsRecorded
<1>5. workerOpts' # workerOpts
  <2>1. CASE pcfg = NoConfig
    BY <1>1, <1>4, <2>1, LabAssumption DEF IInv, BuiltAsRecorded, NotBuilt
  <2>2. CASE pcfg # NoConfig
    <3>1. workerOpts.opts = pcfg.opts /\ workerOpts.cache = pcfg.cache
      BY <2>2 DEF IInv, BuiltAsRecorded, BuildOf
    <3>2. workerOpts'.opts = msg.config.opts /\ workerOpts'.cache = msg.config.cache
      BY <1>1
    <3> QED
      BY <1>4, <2>2, <3>1, <3>2 DEF NeedsSwap
  <2> QED
    BY <2>1, <2>2
<1>6. workerOpts' \in Builds \ {workerOpts}
  BY <1>1, <1>4, <1>5 DEF Builds
<1> QED
  BY <1>1, <1>3, <1>6, LabLane DEF Lane!Swap

(* The run() of the current Worker begins to poll.                         *)
LEMMA LaneRunStarts ==
  ASSUME NEW i \in Instances, IInv, RunStarts(i) PROVE Lane!RunStarts
<1>1. /\ UNCHANGED <<cfg, report, version, givenOut, pc, workerOpts, runFaults>>
      /\ instance[i] = "starting" /\ instance'[i] = "polling"
  BY DEF RunStarts, labVars, ctlVars, reportVars, loopVars, appliedVars, faultVars, IInv, TypeOK
<1>2. i = worker
  BY <1>1 DEF IInv, OnlyCurrent
<1>3. Poller = "starting"
  BY <1>1, <1>2 DEF Poller, IInv, OnlyCurrent
<1>4. Poller' = "polling"
  BY <1>1 DEF Poller
<1> QED
  BY <1>1, <1>3, <1>4, LabLane DEF Lane!RunStarts

(* A run() that raises leaves the Task Queue without a poller.             *)
LEMMA LaneRunRaises ==
  ASSUME NEW i \in Instances, IInv, RunRaises(i) PROVE Lane!RunRaises
<1>1. /\ UNCHANGED <<cfg, report, version, givenOut, pc, workerOpts>>
      /\ instance[i] \in {"starting", "polling"} /\ runFaults' = runFaults + 1
      /\ instance' = [instance EXCEPT ![i] = "failed"]
  BY DEF RunRaises, labVars, ctlVars, reportVars, loopVars, appliedVars
<1>2. i = worker
  BY <1>1 DEF IInv, OnlyCurrent
<1>3. \A j \in Instances : instance'[j] \notin {"starting", "polling"}
  BY <1>1, <1>2 DEF IInv, TypeOK, OnlyCurrent
<1>4. Poller # "none" /\ Poller' = "none"
  BY <1>1, <1>3 DEF Poller
<1> QED
  BY <1>1, <1>4, LabLane DEF Lane!RunRaises

(* A process that ends leaves the Task Queue without a poller.             *)
LEMMA LaneEnd == ASSUME Crash PROVE Lane!End
<1>1. UNCHANGED <<cfg, report, version, givenOut, runFaults>> /\ pc' = "down"
  BY DEF Crash, labVars, ctlVars, reportVars
<1>2. Poller' = "none" /\ workerOpts' = NotBuilt
  BY DEF Crash, Poller, NotBuilt
<1> QED
  BY <1>1, <1>2, LabLane DEF Lane!End

(* Every step of the lane is a step of Rollout, or a stutter.              *)
LEMMA LaneNext == IInv /\ IInv' /\ [Next]_vars => [Lane!Next]_(Lane!vars)
<1> SUFFICES ASSUME IInv, IInv', [Next]_vars PROVE Lane!Next \/ UNCHANGED Lane!vars
  OBVIOUS
<1> USE DEF labVars, ctlVars, reportVars
<1>1. CASE Fetch \/ Apply \/ SwapFails
  <2>1. UNCHANGED <<cfg, report, version, givenOut, workerOpts, instance, runFaults>>
    BY <1>1 DEF Fetch, Apply, SwapFails, appliedVars, faultVars
  <2>2. pc # "down" /\ pc' # "down"
    BY <1>1 DEF Fetch, Apply, SwapFails
  <2> QED
    BY <2>1, <2>2, LaneStutter
<1>2. CASE Swap
  BY <1>2, LaneSwap DEF Lane!Next
<1>3. CASE \E i \in Instances : RunStarts(i) \/ RunRaises(i)
  BY <1>3, LaneRunStarts, LaneRunRaises DEF Lane!Next
<1>4. ASSUME NEW i \in Instances, Drained(i) PROVE UNCHANGED Lane!vars
  <2>1. /\ UNCHANGED <<cfg, report, version, givenOut, workerOpts, runFaults, pc>>
        /\ instance[i] = "draining" /\ instance' = [instance EXCEPT ![i] = "stopped"]
    BY <1>4 DEF Drained, loopVars, appliedVars, faultVars
  <2>2. \A j \in Instances, s \in {"starting", "polling"} : instance'[j] = s <=> instance[j] = s
    BY <2>1 DEF IInv, TypeOK
  <2>3. UNCHANGED Poller
    BY <2>2 DEF Poller
  <2> QED
    BY <2>1, <2>3, LabLane DEF Lane!vars, Lane!workerVars
<1>5. CASE SendOne \/ \E i \in Instances : Emit(i)
  <2>1. UNCHANGED <<cfg, report, version, givenOut, workerOpts, instance, runFaults, pc>>
    BY <1>5 DEF SendOne, SendReport, Emit, loopVars, appliedVars, faultVars
  <2> QED
    BY <2>1, LaneStutter
<1>6. CASE Crash
  BY <1>6, LaneEnd DEF Lane!Next
<1>7. CASE Start
  <2>1. UNCHANGED <<cfg, report, version, givenOut, workerOpts, instance, runFaults>>
    BY <1>7 DEF Start, appliedVars, faultVars
  <2>2. UNCHANGED Poller
    BY <2>1 DEF Poller
  <2> QED
    BY <1>7, <2>1, <2>2, LabLane DEF Start, Lane!Next, Lane!Begin
<1>8. CASE CtlStep /\ UNCHANGED pyVars
  <2>1. ASSUME NEW h \in Handlers, PostConfig(h) PROVE Lane!Next
    BY <1>8, <2>1, LaneSet DEF Lane!Next
  <2>2. CASE OtherLane \/ \E h \in Handlers : SetLimit(h)
    <3>1. UNCHANGED <<cfg, report, version, givenOut>>
      BY <2>2 DEF OtherLane, SetLimit
    <3> QED
      BY <1>8, <3>1, LabLane, PyLane DEF Lane!vars
  <2>3. CASE RestartController
    <3>1. BootVersion # 0 /\ BuildOf(Baseline) \in Builds
      BY LabAssumption DEF NumLanes, BuildOf, Builds, LaneConfig
    <3>2. counter \in Nat /\ givenOut \in Nat /\ BootVersion \in Nat /\ BootVersion <= counter
      BY LabAssumption DEF IInv, TypeOK, CtlTypeOK, NumLanes
    <3>3. ReportedBuild' = NotBuilt /\ Applied' = FALSE /\ Unambiguous' = FALSE
      BY <2>3, <3>1, <3>2
         DEF RestartController, ReportedBuild, Applied, Unambiguous, Highest, None
    <3>4. BuildOf(cfg)' = BuildOf(Baseline)
      BY <2>3 DEF RestartController, BuildOf
    <3>5. Lane!RestartController
      BY <1>8, <3>1, <3>3, <3>4, PyLane DEF Lane!RestartController
    <3> QED
      BY <3>5 DEF Lane!Next
  <2> QED
    BY <1>8, <2>1, <2>2, <2>3 DEF CtlStep
<1>9. CASE HandleReport /\ UNCHANGED pyVars
  BY <1>9, LaneTell DEF Lane!Next
<1>10. CASE LoseReport /\ UNCHANGED pyVars
  BY <1>10, LabLane, PyLane DEF LoseReport, Lane!vars
<1>11. CASE UNCHANGED vars
  BY <1>11, LabLane, PyLane DEF vars, Lane!vars
<1> QED
  BY <1>1, <1>2, <1>3, <1>4, <1>5, <1>6, <1>7, <1>8, <1>9, <1>10, <1>11 DEF Next, ConfigLoop

(* The Python lane keeps the promise of Rollout: the Task Queue of a live  *)
(* process loses its poller only while a Worker built otherwise is         *)
(* starting or to a run() that raised, and the UI never shows a            *)
(* configuration as applied that the Worker was not built with, restarts   *)
(* of the controller included where the version says which configuration   *)
(* is meant.                                                               *)
THEOREM PyLabWorkerRollout == Spec => ImplementsRollout
  BY InitIInv, NextIInv, LaneInit, LaneNext, PTL DEF Spec, ImplementsRollout, Lane!Spec
=============================================================================
