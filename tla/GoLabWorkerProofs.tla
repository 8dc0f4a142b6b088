------------------------- MODULE GoLabWorkerProofs -------------------------
(***************************************************************************)
(* The Go lane of the tuning lab keeps the promise of Rollout, for any     *)
(* number of requests, configurations, swaps, failures, crashes and        *)
(* restarts of the controller, and a drained Worker stops counting.        *)
(***************************************************************************)
EXTENDS GoLabWorker, TLAPS

(* What the Worker would report now.                                       *)
Now == [version |-> applied, opts |-> running, cache |-> cacheSize]

(* The reports there are: on their way, on show, and the next one.         *)
Reports == posts \cup {report, Now}

(* A report that names a version names what a Worker was built with.       *)
WellBuilt(r) == r.version # 0 => r.opts \in Options /\ r.cache \in Caches

(* No version is ahead of those given out, and the lane's own version, if  *)
(* no controller gave it out before, stands for the lane's own             *)
(* configuration.                                                          *)
Truthful(r) ==
  /\ r.version <= Highest
  /\ Unambiguous /\ r.version = version => BuildOf(r) = BuildOf(cfg)

(* The configuration loop: what a swap has built when Mark records it.     *)
LoopInv ==
  /\ pc \in {"down", "boot"} => applied = 0 /\ running = NoOptions
  /\ pc = "swap" => msg.config.cache = cacheSize /\ running # msg.config.opts
  /\ pc = "mark" => running = msg.config.opts /\ cacheSize = msg.config.cache

ReportInv == \A r \in Reports : WellBuilt(r)

(* A version no controller gave out before is given to one configuration   *)
(* only; the version being applied is not the one the Worker reports, so   *)
(* that a Worker half way through a swap reports an older one.             *)
VersionInv ==
  /\ \A r \in Reports : Truthful(r)
  /\ msg # NoMsg =>
       /\ msg.version <= Highest
       /\ Unambiguous /\ msg.version = version => msg.config = cfg
  /\ Unambiguous /\ pc \in {"apply", "swap", "mark"} => applied # version

IInv == TypeOK /\ LoopInv /\ ReportInv /\ VersionInv

-----------------------------------------------------------------------------
(* The controller's own types, whatever the Worker does.                   *)

(* validate brings ioConcurrency within its bounds.                        *)
LEMMA ValidateType ==
  ASSUME NEW o \in Options, NEW s \in Caches, NEW n \in PostedIO
  PROVE  Validate([opts |-> o, cache |-> s, io |-> n]) \in LaneConfig
BY LabAssumption DEF Validate, Clamp, LaneConfig

(* The controller starts well formed.                                      *)
LEMMA CtlInitType == CtlInit => CtlTypeOK
BY LabAssumption DEF CtlInit, CtlTypeOK, LaneConfig, NumLanes

(* Its steps keep it well formed.                                          *)
LEMMA CtlType ==
  ASSUME CtlTypeOK, CtlStep \/ HandleReport \/ LoseReport
  PROVE  CtlTypeOK'
<1> USE DEF CtlTypeOK, NumLanes, ctlVars, reportVars
<1>1. ASSUME NEW h \in Handlers, PostConfig(h) PROVE CtlTypeOK'
  <2>1. PICK c \in LaneConfig : SetConfig(h, c)
    BY <1>1, ValidateType DEF PostConfig
  <2>2. c.io \in 1..MaxIO
    BY DEF LaneConfig
  <2>3. handler' \in [Handlers -> {Idle} \cup [pc : {"limit"}, io : 1..MaxIO]]
    BY <2>1, <2>2 DEF SetConfig
  <2>4. counter' \in NumLanes..MaxVersion /\ version' \in 1..counter'
    BY <2>1, LabAssumption DEF SetConfig
  <2> QED
    BY <2>1, <2>3, <2>4 DEF SetConfig
<1>2. ASSUME NEW h \in Handlers, SetLimit(h) PROVE CtlTypeOK'
  <2>1. limit' \in 1..MaxIO
    BY <1>2 DEF SetLimit
  <2>2. handler' = [handler EXCEPT ![h] = Idle]
    BY <1>2 DEF SetLimit
  <2> QED
    BY <1>2, <2>1, <2>2 DEF SetLimit
<1>3. CASE OtherLane
  BY <1>3, LabAssumption DEF OtherLane
<1>4. CASE RestartController
  <2>1. /\ NumLanes \in NumLanes..MaxVersion /\ BootVersion \in 1..NumLanes
        /\ Baseline \in LaneConfig /\ Baseline.io \in 1..MaxIO
    BY LabAssumption DEF LaneConfig
  <2>2. restarts' \in 0..MaxRestarts /\ givenOut' \in 0..MaxVersion
    BY <1>4, LabAssumption DEF RestartController, Highest
  <2> QED
    BY <1>4, <2>1, <2>2 DEF RestartController
<1>5. CASE HandleReport
  BY <1>5 DEF HandleReport
<1>6. CASE LoseReport
  BY <1>6 DEF LoseReport
<1> QED
  BY <1>1, <1>2, <1>3, <1>4, <1>5, <1>6 DEF CtlStep

-----------------------------------------------------------------------------
(* Initially nothing is applied and nothing reported.                      *)
LEMMA InitIInv == Init => IInv
<1> SUFFICES ASSUME Init PROVE IInv
  OBVIOUS
<1> USE LabAssumption, GoLabWorkerAssumption DEF Init, GoInit
<1>1. TypeOK
  BY CtlInitType DEF TypeOK, Instances, NoMsg, NoOptions, InstanceState
<1>2. LoopInv
  BY DEF LoopInv
<1>3. ReportInv
  BY DEF CtlInit, ReportInv, Reports, Now, WellBuilt, None
<1>4. VersionInv
  BY DEF CtlInit, VersionInv, Reports, Now, Truthful, None, NumLanes, NoMsg, Highest, Unambiguous
<1> QED
  BY <1>1, <1>2, <1>3, <1>4 DEF IInv

(* A configuration is posted: its version is new.                          *)
LEMMA PostConfigKeeps ==
  ASSUME NEW h \in Handlers, IInv, PostConfig(h), UNCHANGED goVars
  PROVE  ReportInv' /\ VersionInv'
<1>1. PICK c \in LaneConfig : SetConfig(h, c)
  BY ValidateType DEF PostConfig
<1> USE <1>1 DEF SetConfig, reportVars, goVars, loopVars, appliedVars, instVars
<1>2. ReportInv'
  BY DEF IInv, ReportInv, Reports, Now, WellBuilt
<1>3. VersionInv'
  <2>1. counter \in Nat /\ givenOut \in Nat /\ version' = counter + 1
        /\ counter' = counter + 1 /\ givenOut' = givenOut
    BY DEF IInv, TypeOK, CtlTypeOK, NumLanes
  <2>2. /\ \A n \in Nat : n <= Highest => n <= Highest'
        /\ \A n \in Nat : n <= Highest /\ Unambiguous' => n < version'
    BY <2>1 DEF Highest, Unambiguous
  <2>3. \A r \in Reports : r.version \in Nat /\ r.version <= Highest
    BY DEF IInv, TypeOK, CtlTypeOK, VersionInv, Truthful, Reports, Now, Report, None
  <2>4. msg # NoMsg => msg.version \in Nat /\ msg.version <= Highest
    BY DEF IInv, TypeOK, VersionInv
  <2>5. applied \in Nat /\ applied <= Highest
    <3>1. Now \in Reports /\ Now.version = applied
      BY DEF Reports, Now
    <3> QED
      BY <2>3, <3>1
  <2>6. Reports' = Reports
    BY DEF Reports, Now
  <2>7. version' \in Nat
    BY <2>1
  <2>8. \A r \in Reports' : Truthful(r)'
    BY <2>2, <2>3, <2>6, <2>7 DEF Truthful
  <2> QED
    BY <2>2, <2>4, <2>5, <2>7, <2>8 DEF VersionInv
<1> QED
  BY <1>2, <1>3

(* The other steps of the controller.                                      *)
LEMMA CtlKeeps ==
  ASSUME IInv, CtlStep \/ HandleReport \/ LoseReport, UNCHANGED goVars
  PROVE  IInv'
<1> USE DEF goVars, loopVars, appliedVars, instVars, ctlVars, reportVars
<1>1. TypeOK' /\ LoopInv'
  BY CtlType DEF IInv, TypeOK, LoopInv
<1> SUFFICES ReportInv' /\ VersionInv'
  BY <1>1 DEF IInv
<1>2. ASSUME NEW h \in Handlers, PostConfig(h) PROVE ReportInv' /\ VersionInv'
  BY <1>2, PostConfigKeeps
<1>3. ASSUME NEW h \in Handlers, SetLimit(h) PROVE ReportInv' /\ VersionInv'
  BY <1>3
     DEF SetLimit, IInv, ReportInv, VersionInv, Reports, Now, WellBuilt, Truthful, BuildOf,
         Highest, Unambiguous
<1>4. CASE OtherLane
  <2>1. Reports' = Reports /\ UNCHANGED <<version, cfg, givenOut, msg, pc, applied>>
    BY <1>4 DEF OtherLane, Reports, Now
  <2>2. \A n \in Nat : n <= Highest => n <= Highest'
    BY <1>4 DEF OtherLane, IInv, TypeOK, CtlTypeOK, NumLanes, Highest
  <2>3. \A r \in Reports : r.version \in Nat
    BY DEF IInv, TypeOK, CtlTypeOK, Reports, Now, Report, None
  <2>4. \A r \in Reports' : Truthful(r)'
    BY <2>1, <2>2, <2>3 DEF IInv, VersionInv, Truthful, Unambiguous, BuildOf
  <2>5. msg # NoMsg => msg.version \in Nat
    BY DEF IInv, TypeOK
  <2>6. VersionInv'
    BY <2>1, <2>2, <2>4, <2>5 DEF IInv, VersionInv, Unambiguous
  <2> QED
    BY <2>1, <2>6 DEF IInv, ReportInv, WellBuilt
<1>5. CASE RestartController
  <2>1. ReportInv'
    BY <1>5 DEF RestartController, IInv, ReportInv, Reports, Now, WellBuilt, None
  <2>2. counter \in Nat /\ NumLanes <= counter /\ givenOut \in Nat
    BY DEF IInv, TypeOK, CtlTypeOK, NumLanes
  <2>3. /\ givenOut' = Highest /\ counter' = NumLanes /\ version' = BootVersion
        /\ BootVersion <= NumLanes /\ NumLanes \in Nat /\ BootVersion \in Nat
    BY <1>5, LabAssumption DEF RestartController, NumLanes
  <2>4. Highest' = Highest /\ ~Unambiguous' /\ Highest \in Nat
    BY <2>2, <2>3 DEF Highest, Unambiguous
  <2>5. \A r \in Reports' : (r \in Reports \/ r.version = 0) /\ UNCHANGED <<msg, pc>>
    BY <1>5 DEF RestartController, Reports, Now, None
  <2>6. VersionInv'
    BY <2>4, <2>5 DEF IInv, VersionInv, Truthful
  <2> QED
    BY <2>1, <2>6
<1>6. CASE HandleReport \/ LoseReport
  <2>1. Reports' \subseteq Reports /\ UNCHANGED ctlVars
    BY <1>6 DEF HandleReport, LoseReport, Reports, Now
  <2> QED
    BY <2>1
       DEF IInv, ReportInv, VersionInv, WellBuilt, Truthful, BuildOf, Highest, Unambiguous
<1> QED
  BY <1>2, <1>3, <1>4, <1>5, <1>6 DEF CtlStep

-----------------------------------------------------------------------------
(* The steps of the Worker.                                                *)

(* Steps of the Worker leave the controller as it is.                      *)
LEMMA CtlSame == ASSUME CtlTypeOK, UNCHANGED labVars PROVE CtlTypeOK'
BY DEF CtlTypeOK, labVars, ctlVars, reportVars

(* A step that leaves the lane alone and reports nothing new keeps the     *)
(* reports honest; what names no version says nothing.                     *)
LEMMA SameReports ==
  ASSUME IInv, UNCHANGED labVars,
         \A r \in Reports' : r \in Reports \/ r.version = 0
  PROVE  ReportInv' /\ (\A r \in Reports' : Truthful(r)')
<1>1. /\ version \in Nat \ {0} /\ Highest \in Nat
      /\ UNCHANGED <<version, cfg, Highest, Unambiguous>>
  BY DEF IInv, TypeOK, CtlTypeOK, NumLanes, Highest, Unambiguous, labVars, ctlVars
<1>2. ReportInv'
  BY DEF IInv, ReportInv, WellBuilt
<1>3. ASSUME NEW r \in Reports' PROVE Truthful(r)'
  BY <1>1, <1>3 DEF IInv, VersionInv, Truthful, BuildOf
<1> QED
  BY <1>2, <1>3

(* The configuration that has been fetched is the lane's.                  *)
LEMMA FetchKeeps == ASSUME IInv, FirstConfig \/ Fetch PROVE IInv'
<1> USE DEF appliedVars, instVars
<1>1. /\ msg' = Versioned /\ pc' = "apply" /\ pc \in {"boot", "poll"}
      /\ UNCHANGED <<labVars, live, running, applied, instVars, failures, crashes>>
  BY DEF FirstConfig, Fetch
<1>2. cfg.cache \in Caches /\ version \in 1..MaxVersion /\ cfg \in LaneConfig
  BY LabAssumption DEF IInv, TypeOK, CtlTypeOK, LaneConfig, NumLanes
<1>3. cacheSize' \in Caches \cup {0} /\ (cacheSize' = cacheSize \/ applied = 0)
  BY <1>2 DEF FirstConfig, Fetch, IInv, TypeOK, LoopInv
<1>4. TypeOK'
  BY <1>1, <1>2, <1>3, CtlSame DEF IInv, TypeOK, Versioned, NoMsg
<1>5. LoopInv'
  BY <1>1 DEF LoopInv
<1>6. applied # version
  BY <1>2 DEF FirstConfig, Fetch, IInv, LoopInv
<1>7. \A r \in Reports' : r \in Reports \/ r.version = 0
  BY <1>1, <1>3 DEF Reports, Now, labVars, ctlVars, reportVars
<1>8. ReportInv' /\ (\A r \in Reports' : Truthful(r)')
  BY <1>1, <1>7, SameReports
<1>9. version <= Highest
  BY <1>2 DEF Highest, IInv, TypeOK, CtlTypeOK, NumLanes
<1>10. VersionInv'
  BY <1>1, <1>2, <1>3, <1>6, <1>8, <1>9
     DEF FirstConfig, Fetch, VersionInv, Versioned, labVars, ctlVars, Highest, Unambiguous
<1> QED
  BY <1>4, <1>5, <1>8, <1>10 DEF IInv

(* A process that ends forgets what it had applied.                        *)
LEMMA ExitKeeps ==
  ASSUME IInv, Exit, failures' \in 0..MaxFailures, crashes' \in 0..MaxCrashes,
         UNCHANGED labVars
  PROVE  IInv'
<1> USE DEF Exit
<1>1. TypeOK'
  BY LabAssumption, GoLabWorkerAssumption, CtlSame
     DEF IInv, TypeOK, NoMsg, NoOptions, InstanceState
<1>2. LoopInv'
  BY DEF LoopInv
<1>3. \A r \in Reports' : r \in Reports \/ r.version = 0
  BY DEF Reports, Now, labVars, ctlVars, reportVars
<1>4. ReportInv' /\ (\A r \in Reports' : Truthful(r)')
  BY <1>3, SameReports
<1>5. VersionInv'
  BY <1>4 DEF VersionInv
<1> QED
  BY <1>1, <1>2, <1>4, <1>5 DEF IInv

(* apply leaves the versions alone; it goes on to Mark only when the       *)
(* Worker runs with the options of the message already.                    *)
LEMMA StoreConfigKeeps ==
  ASSUME IInv, pc = "apply", msg.config.cache = cacheSize, StoreConfig,
         UNCHANGED <<labVars, failures, crashes>>
  PROVE  IInv'
<1> USE DEF StoreConfig, instVars
<1>1. TypeOK'
  BY CtlSame DEF IInv, TypeOK
<1>2. LoopInv'
  <2>1. msg.config.opts # NoOptions
    BY LabAssumption DEF IInv, TypeOK, LaneConfig
  <2> QED
    BY <2>1 DEF LoopInv, NeedsSwap
<1>3. \A r \in Reports' : r \in Reports \/ r.version = 0
  BY DEF Reports, Now, labVars, ctlVars, reportVars
<1>4. ReportInv' /\ (\A r \in Reports' : Truthful(r)')
  BY <1>3, SameReports
<1>5. VersionInv'
  BY <1>4 DEF IInv, VersionInv, labVars, ctlVars, Highest, Unambiguous
<1> QED
  BY <1>1, <1>2, <1>4, <1>5 DEF IInv

(* A swap that succeeds leaves a Worker with the options of the message,   *)
(* reported under the older version until Mark; one that fails changes     *)
(* nothing that is reported.                                               *)
LEMMA SwapKeeps == ASSUME IInv, SwapSucceeds \/ SwapFails PROVE IInv'
<1> USE DEF appliedVars, instVars
<1>1. /\ pc = "swap" /\ msg # NoMsg
      /\ UNCHANGED <<labVars, msg, live, applied, cacheSize, gauged, crashes>>
      /\ swapCount' \in 0..MaxSwaps /\ failures' \in 0..MaxFailures
      /\ \/ running' = running /\ pc' = "poll" /\ instance' = instance
         \/ running' = msg.config.opts /\ pc' = "mark"
  BY GoLabWorkerAssumption DEF SwapSucceeds, SwapFails, IInv, TypeOK
<1>2. msg.config.opts \in Options /\ msg.config.cache \in Caches
  BY <1>1 DEF IInv, TypeOK, LaneConfig
<1>3. instance' \in [Instances -> InstanceState]
  BY DEF SwapSucceeds, SwapFails, IInv, TypeOK, InstanceState
<1>4. TypeOK'
  BY <1>1, <1>2, <1>3, CtlSame DEF IInv, TypeOK
<1>5. LoopInv'
  BY <1>1 DEF IInv, LoopInv
<1>6. cacheSize = msg.config.cache /\ (Unambiguous => applied # version)
  BY <1>1 DEF IInv, LoopInv, VersionInv
<1>7. Reports' \subseteq Reports \cup {Now'} /\ WellBuilt(Now')
  BY <1>1, <1>2, <1>6 DEF Reports, Now, WellBuilt, IInv, ReportInv, labVars, reportVars
<1>8. ReportInv'
  BY <1>7 DEF IInv, ReportInv, WellBuilt
<1>9. \A r \in Reports' : Truthful(r)'
  <2>1. SUFFICES ASSUME NEW r \in Reports' PROVE Truthful(r)'
    OBVIOUS
  <2>2. CASE r \in Reports
    BY <1>1, <2>2
       DEF IInv, VersionInv, Truthful, BuildOf, labVars, ctlVars, Highest, Unambiguous
  <2>3. CASE r = Now'
    <3>1. Truthful(Now)
      BY DEF IInv, VersionInv, Reports
    <3> QED
      BY <1>1, <1>6, <2>3, <3>1 DEF Truthful, Now, labVars, ctlVars, Highest, Unambiguous
  <2> QED
    BY <1>7, <2>2, <2>3
<1>10. VersionInv'
  BY <1>1, <1>6, <1>9 DEF IInv, VersionInv, labVars, ctlVars, Highest, Unambiguous
<1> QED
  BY <1>4, <1>5, <1>8, <1>10 DEF IInv

(* Mark records the version of what now runs.                              *)
LEMMA MarkKeeps == ASSUME IInv, Mark PROVE IInv'
<1> USE DEF instVars
<1>1. /\ pc = "mark" /\ pc' = "poll" /\ msg # NoMsg /\ applied' = msg.version
      /\ UNCHANGED <<labVars, msg, live, cacheSize, running, instVars, failures, crashes>>
  BY DEF Mark, IInv, TypeOK
<1>2. msg \in [version : 1..MaxVersion, config : LaneConfig]
  BY <1>1 DEF IInv, TypeOK
<1>3. running = msg.config.opts /\ cacheSize = msg.config.cache
  BY <1>1 DEF IInv, LoopInv
<1>4. TypeOK'
  BY <1>1, <1>2, CtlSame DEF IInv, TypeOK
<1>5. LoopInv'
  BY <1>1 DEF LoopInv
<1>6. Reports' \subseteq Reports \cup {Now'} /\ WellBuilt(Now')
  BY <1>1, <1>2, <1>3 DEF Reports, Now, WellBuilt, LaneConfig, labVars, reportVars
<1>7. ReportInv'
  BY <1>6 DEF IInv, ReportInv, WellBuilt
<1>8. /\ msg.version <= Highest
      /\ Unambiguous /\ msg.version = version => msg.config = cfg
  BY <1>1 DEF IInv, VersionInv
<1>9. VersionInv'
  BY <1>1, <1>3, <1>6, <1>8
     DEF IInv, VersionInv, Truthful, BuildOf, Now, labVars, ctlVars, Highest, Unambiguous
<1> QED
  BY <1>4, <1>5, <1>7, <1>9 DEF IInv

(* A report on its way is what the Worker had applied when it was sent.    *)
LEMMA SendOneKeeps == ASSUME IInv, SendOne PROVE IInv'
<1> USE DEF goVars, loopVars, appliedVars, instVars
<1>1. UNCHANGED <<goVars, ctlVars, report>> /\ posts' = posts \cup {Now}
  BY DEF SendOne, SendReport, Now
<1>2. Now \in Report
  BY DEF Now, Report, IInv, TypeOK
<1>3. TypeOK' /\ LoopInv'
  BY <1>1, <1>2 DEF IInv, TypeOK, CtlTypeOK, LoopInv, ctlVars
<1>4. Reports' \subseteq Reports
  BY <1>1 DEF Reports, Now
<1>5. ReportInv'
  BY <1>4 DEF IInv, ReportInv, WellBuilt
<1>6. VersionInv'
  BY <1>1, <1>4 DEF IInv, VersionInv, Truthful, BuildOf, ctlVars, Highest, Unambiguous
<1> QED
  BY <1>3, <1>5, <1>6 DEF IInv

(* The instances and the start of the process report nothing new.          *)
LEMMA InstanceKeeps ==
  ASSUME IInv, (\E i \in Instances : InstanceStep(i)) \/ Start PROVE IInv'
<1> USE DEF loopVars, appliedVars, instVars
<1>1. /\ UNCHANGED <<labVars, msg, live, applied, cacheSize, running>>
      /\ UNCHANGED <<swapCount, failures, crashes>>
      /\ pc' = pc \/ (pc = "down" /\ pc' = "boot")
  BY DEF InstanceStep, UpdateGauge, StopReturns, DropInstance, Start
<1>2. /\ instance' \in [Instances -> InstanceState]
      /\ gauged' \subseteq Instances
  BY DEF InstanceStep, UpdateGauge, StopReturns, DropInstance, Start, IInv, TypeOK, InstanceState
<1>3. TypeOK'
  BY <1>1, <1>2, CtlSame DEF IInv, TypeOK
<1>4. LoopInv'
  BY <1>1 DEF IInv, LoopInv
<1>5. \A r \in Reports' : r \in Reports \/ r.version = 0
  BY <1>1 DEF Reports, Now, labVars, reportVars
<1>6. ReportInv' /\ (\A r \in Reports' : Truthful(r)')
  BY <1>1, <1>5, SameReports
<1>7. VersionInv'
  BY <1>1, <1>6 DEF IInv, VersionInv, labVars, ctlVars, Highest, Unambiguous
<1> QED
  BY <1>3, <1>4, <1>6, <1>7 DEF IInv

(* Every step keeps the invariant.                                         *)
LEMMA NextIInv == IInv /\ [Next]_vars => IInv'
<1> SUFFICES ASSUME IInv, [Next]_vars PROVE IInv'
  OBVIOUS
<1>1. CASE FirstConfig \/ Fetch
  BY <1>1, FetchKeeps
<1>2. CASE Apply
  <2>1. /\ failures' \in 0..MaxFailures /\ crashes' \in 0..MaxCrashes
        /\ UNCHANGED <<labVars, failures, crashes>>
    BY <1>2 DEF Apply, IInv, TypeOK
  <2>2. CASE Exit
    BY <2>1, <2>2, ExitKeeps
  <2>3. CASE msg.config.cache = cacheSize /\ StoreConfig
    BY <1>2, <2>1, <2>3, StoreConfigKeeps DEF Apply
  <2> QED
    BY <1>2, <2>2, <2>3 DEF Apply
<1>3. CASE SwapSucceeds \/ SwapFails
  BY <1>3, SwapKeeps
<1>4. CASE Mark
  BY <1>4, MarkKeeps
<1>5. CASE Crash
  <2>1. failures' \in 0..MaxFailures /\ crashes' \in 0..MaxCrashes /\ Exit /\ UNCHANGED labVars
    BY <1>5, GoLabWorkerAssumption DEF Crash, IInv, TypeOK
  <2> QED
    BY <2>1, ExitKeeps
<1>6. CASE (\E i \in Instances : InstanceStep(i)) \/ Start
  BY <1>6, InstanceKeeps
<1>7. CASE SendOne
  BY <1>7, SendOneKeeps
<1>8. CASE (CtlStep \/ HandleReport \/ LoseReport) /\ UNCHANGED goVars
  BY <1>8, CtlKeeps
<1>9. CASE UNCHANGED vars
  <2>1. UNCHANGED <<labVars, goVars, loopVars, appliedVars, instVars>>
    BY <1>9 DEF vars, goVars
  <2>2. TypeOK' /\ LoopInv'
    BY <2>1, CtlSame DEF IInv, TypeOK, LoopInv, goVars, loopVars, appliedVars, instVars
  <2>3. \A r \in Reports' : r \in Reports \/ r.version = 0
    BY <2>1 DEF Reports, Now, labVars, reportVars, appliedVars
  <2>4. ReportInv' /\ (\A r \in Reports' : Truthful(r)')
    BY <2>1, <2>3, SameReports
  <2>5. VersionInv'
    BY <2>1, <2>4
       DEF IInv, VersionInv, labVars, ctlVars, loopVars, appliedVars, Highest, Unambiguous
  <2> QED
    BY <2>2, <2>4, <2>5 DEF IInv
<1> QED
  BY <1>1, <1>2, <1>3, <1>4, <1>5, <1>6, <1>7, <1>8, <1>9 DEF Next, ConfigLoop

(* The Worker's state and the controller's are always well formed.         *)
THEOREM GoLabWorkerTypeOK == Spec => []TypeOK
<1>1. IInv => TypeOK
  BY DEF IInv
<1> QED
  BY InitIInv, NextIInv, <1>1, PTL DEF Spec

-----------------------------------------------------------------------------
(* The refinement: what a step of the lane is in Rollout.                  *)

Polled == \E i \in Instances : instance[i] = "polling"

(* A lane that starts has nothing built, nothing shown and no poller.      *)
LEMMA LaneInit == Init => Lane!Init
<1> SUFFICES ASSUME Init PROVE Lane!Init
  OBVIOUS
<1>1. BuildOf(cfg) \in Builds
  BY LabAssumption DEF Init, CtlInit, BuildOf, Builds, LaneConfig
<1>2. ReportedBuild = NotBuilt /\ Applied = FALSE /\ Unambiguous = TRUE
  BY LabAssumption DEF Init, CtlInit, ReportedBuild, Applied, None, NumLanes, Unambiguous
<1>3. Current = NotBuilt
  BY DEF Init, GoInit, Current
<1>4. Poller = "none"
  BY DEF Init, GoInit, Poller
<1> QED
  BY <1>1, <1>2, <1>3, <1>4 DEF Lane!Init, Init, GoInit

(* What the controller shows is the same while it does nothing.            *)
LEMMA LabLane ==
  ASSUME UNCHANGED <<cfg, report, version, givenOut>>
  PROVE  UNCHANGED <<Lane!setVars, Lane!toldVars>>
BY DEF Lane!setVars, Lane!toldVars, BuildOf, ReportedBuild, Applied, Unambiguous

(* The Worker is the same while the process neither swaps nor ends.        *)
LEMMA WorkerLane ==
  ASSUME pc = "down" <=> pc' = "down", UNCHANGED running, Polled' = Polled,
         cacheSize' = cacheSize \/ running = NoOptions
  PROVE  UNCHANGED Lane!workerVars
<1>1. UNCHANGED Current
  BY DEF Current
<1>2. UNCHANGED Poller
  BY DEF Poller, Polled
<1> QED
  BY <1>1, <1>2 DEF Lane!workerVars

(* A step that leaves all that Rollout sees is a stutter.                  *)
LEMMA LaneStutter ==
  ASSUME UNCHANGED <<cfg, report, version, givenOut>>, pc = "down" <=> pc' = "down",
         UNCHANGED running, cacheSize' = cacheSize \/ running = NoOptions, Polled' = Polled
  PROVE  UNCHANGED Lane!vars
BY LabLane, WorkerLane DEF Lane!vars

(* What is unchanged of the process is unchanged of the Worker.            *)
LEMMA GoLane == ASSUME UNCHANGED goVars PROVE UNCHANGED Lane!workerVars
<1>1. UNCHANGED <<pc, running, cacheSize, instance>>
  BY DEF goVars, loopVars, appliedVars, instVars
<1>2. Polled' = Polled
  BY <1>1 DEF Polled
<1> QED
  BY <1>1, <1>2, WorkerLane

(* A configuration that is posted has a new version: it is not shown as    *)
(* applied, unless a controller before this one gave the version out.      *)
LEMMA LaneSet ==
  ASSUME NEW h \in Handlers, IInv, IInv', PostConfig(h), UNCHANGED goVars
  PROVE  Lane!Set
<1>1. PICK c \in LaneConfig : SetConfig(h, c)
  BY ValidateType DEF PostConfig
<1>2. UNCHANGED <<report, givenOut>> /\ version' = counter + 1
  BY <1>1 DEF SetConfig, reportVars
<1>3. /\ report.version \in Nat /\ version \in Nat /\ counter \in Nat /\ version <= counter
      /\ givenOut \in Nat
  BY DEF IInv, TypeOK, CtlTypeOK, Report, None, NumLanes
<1>4. report.version <= Highest
  BY DEF IInv, VersionInv, Reports, Truthful
<1>5. (Unambiguous => Unambiguous') /\ (Unambiguous' => ~Applied')
  BY <1>2, <1>3, <1>4 DEF Applied, Unambiguous, Highest
<1>6. BuildOf(cfg)' \in Builds
  BY DEF IInv, TypeOK, CtlTypeOK, BuildOf, Builds, LaneConfig
<1>7. Unambiguous' \in BOOLEAN /\ Applied' \in BOOLEAN
  BY DEF Unambiguous, Applied
<1> QED
  BY <1>2, <1>5, <1>6, <1>7, GoLane DEF Lane!Set, ReportedBuild, BuildOf

(* A report of the lane's own version is of the lane's own configuration.  *)
LEMMA LaneTell ==
  ASSUME IInv, IInv', HandleReport, UNCHANGED goVars
  PROVE  Lane!Tell
<1>1. UNCHANGED <<cfg, version, givenOut>>
  BY DEF HandleReport, ctlVars
<1>2. ReportedBuild' \in Builds \cup {NotBuilt}
  BY DEF IInv, ReportInv, Reports, WellBuilt, ReportedBuild, BuildOf, Builds
<1>3. Truthful(report)'
  BY DEF IInv, VersionInv, Reports
<1>4. version # 0
  BY DEF IInv, TypeOK, CtlTypeOK, NumLanes
<1>5. Unambiguous /\ Applied' => ReportedBuild' = BuildOf(cfg)
  BY <1>1, <1>3, <1>4 DEF Applied, ReportedBuild, Truthful, BuildOf, Unambiguous
<1>6. Applied' \in BOOLEAN /\ UNCHANGED Lane!setVars
  BY <1>1 DEF Applied, Lane!setVars, BuildOf, Unambiguous
<1> QED
  BY <1>2, <1>5, <1>6, GoLane DEF Lane!Tell

(* A swap that succeeds builds a Worker otherwise than the last one, and   *)
(* the Task Queue has a poller in the step that stops that one.            *)
LEMMA LaneSwap == ASSUME IInv, SwapSucceeds PROVE Lane!Swap
<1>1. /\ UNCHANGED <<cfg, report, version, givenOut, cacheSize>> /\ pc = "swap" /\ pc' = "mark"
      /\ swapCount + 1 \in Instances /\ instance'[swapCount + 1] = "polling"
      /\ running' = msg.config.opts
  BY GoLabWorkerAssumption
     DEF SwapSucceeds, labVars, ctlVars, reportVars, Instances, IInv, TypeOK
<1>2. Poller' = "polling"
  BY <1>1 DEF Poller
<1>3. /\ msg.config.opts \in Options /\ msg.config.cache \in Caches
      /\ cacheSize = msg.config.cache /\ running # msg.config.opts
  BY <1>1 DEF IInv, TypeOK, LaneConfig, LoopInv
<1>4. Current' = [opts |-> msg.config.opts, cache |-> msg.config.cache]
  BY <1>1, <1>3, LabAssumption DEF Current
<1>5. Current.opts = running
  BY DEF Current, NotBuilt
<1>6. Current' \in Builds \ {Current}
  BY <1>3, <1>4, <1>5 DEF Builds
<1> QED
  BY <1>1, <1>2, <1>6, LabLane DEF Lane!Swap

(* A process that ends leaves the Task Queue without a poller.             *)
LEMMA LaneEnd == ASSUME Exit, UNCHANGED labVars PROVE Lane!End
<1>1. UNCHANGED <<cfg, report, version, givenOut>> /\ pc' = "down" /\ running' = NoOptions
  BY DEF Exit, labVars, ctlVars, reportVars
<1>2. Poller' = "none" /\ Current' = NotBuilt
  BY <1>1 DEF Exit, Poller, Current
<1> QED
  BY <1>1, <1>2, LabLane DEF Lane!End

(* Every step of the lane is a step of Rollout, or a stutter.              *)
LEMMA LaneNext == IInv /\ IInv' /\ [Next]_vars => [Lane!Next]_(Lane!vars)
<1> SUFFICES ASSUME IInv, IInv', [Next]_vars PROVE Lane!Next \/ UNCHANGED Lane!vars
  OBVIOUS
<1> USE DEF labVars, ctlVars, reportVars
<1>1. CASE FirstConfig
  <2>1. running = NoOptions
    BY <1>1 DEF FirstConfig, IInv, LoopInv
  <2> QED
    BY <1>1, <2>1, LaneStutter DEF FirstConfig, instVars, Polled
<1>2. CASE Fetch \/ SwapFails \/ Mark
  BY <1>2, LaneStutter DEF Fetch, SwapFails, Mark, appliedVars, instVars, Polled
<1>3. CASE Apply
  <2>1. CASE Exit
    BY <1>3, <2>1, LaneEnd DEF Apply, Lane!Next
  <2>2. CASE StoreConfig
    BY <1>3, <2>2, LaneStutter DEF Apply, StoreConfig, instVars, Polled
  <2> QED
    BY <1>3, <2>1, <2>2 DEF Apply
<1>4. CASE SwapSucceeds
  BY <1>4, LaneSwap DEF Lane!Next
<1>5. CASE \E i \in Instances : InstanceStep(i)
  <2>1. UNCHANGED <<cfg, report, version, givenOut, pc, running, cacheSize>> /\ Polled' = Polled
    BY <1>5
       DEF InstanceStep, UpdateGauge, StopReturns, DropInstance, Polled, IInv, TypeOK,
           loopVars, appliedVars
  <2> QED
    BY <2>1, LaneStutter
<1>6. CASE Crash
  BY <1>6, LaneEnd DEF Crash, Lane!Next
<1>7. CASE Start
  <2>1. UNCHANGED <<running, cacheSize, instance, cfg, report, version, givenOut>>
    BY <1>7 DEF Start, appliedVars, instVars
  <2>2. UNCHANGED <<Current, Poller>>
    BY <2>1 DEF Current, Poller
  <2> QED
    BY <1>7, <2>1, <2>2, LabLane DEF Start, Lane!Next, Lane!Begin
<1>8. CASE SendOne
  <2>1. UNCHANGED <<cfg, report, version, givenOut>> /\ UNCHANGED goVars
    BY <1>8 DEF SendOne, SendReport
  <2> QED
    BY <2>1, LabLane, GoLane DEF Lane!vars
<1>9. CASE CtlStep /\ UNCHANGED goVars
  <2>1. ASSUME NEW h \in Handlers, PostConfig(h) PROVE Lane!Next
    BY <1>9, <2>1, LaneSet DEF Lane!Next
  <2>2. CASE OtherLane \/ \E h \in Handlers : SetLimit(h)
    <3>1. UNCHANGED <<cfg, report, version, givenOut>>
      BY <2>2 DEF OtherLane, SetLimit
    <3> QED
      BY <1>9, <3>1, LabLane, GoLane DEF Lane!vars
  <2>3. CASE RestartController
    <3>1. BootVersion # 0 /\ BuildOf(Baseline) \in Builds
      BY LabAssumption DEF NumLanes, BuildOf, Builds, LaneConfig
    <3>2. counter \in Nat /\ givenOut \in Nat /\ BootVersion \in Nat /\ BootVersion <= counter
      BY LabAssumption DEF IInv, TypeOK, CtlTypeOK, NumLanes
    <3>3. ReportedBuild' = NotBuilt /\ Applied' = FALSE /\ Unambiguous' = FALSE
      BY <2>3, <3>1, <3>2
         DEF RestartController, ReportedBuild, Applied, Unambiguous, Highest, None
    <3>4. BuildOf(cfg)' = BuildOf(Baseline)
      BY <2>3 DEF RestartController, BuildOf
    <3>5. Lane!RestartController
      BY <1>9, <3>1, <3>3, <3>4, GoLane DEF Lane!RestartController
    <3> QED
      BY <3>5 DEF Lane!Next
  <2> QED
    BY <1>9, <2>1, <2>2, <2>3 DEF CtlStep
<1>10. CASE HandleReport /\ UNCHANGED goVars
  BY <1>10, LaneTell DEF Lane!Next
<1>11. CASE LoseReport /\ UNCHANGED goVars
  BY <1>11, LabLane, GoLane DEF LoseReport, Lane!vars
<1>12. CASE UNCHANGED vars
  BY <1>12, LabLane, GoLane DEF vars, Lane!vars
<1> QED
  BY <1>1, <1>2, <1>3, <1>4, <1>5, <1>6, <1>7, <1>8, <1>9, <1>10, <1>11, <1>12
     DEF Next, ConfigLoop

(* The Go lane keeps the promise of Rollout: the Task Queue of a live      *)
(* process keeps its poller, and the UI never shows a configuration as     *)
(* applied that the Worker was not built with, restarts of the controller  *)
(* included where the version says which configuration is meant.           *)
THEOREM GoLabWorkerRollout == Spec => ImplementsRollout
  BY InitIInv, NextIInv, LaneInit, LaneNext, PTL DEF Spec, ImplementsRollout, Lane!Spec

-----------------------------------------------------------------------------
(* The gauges.                                                             *)

(* However swaps overlap and drains end, a value in the aggregator is of a *)
(* Worker that polls or is being stopped, or of one an Activity of which   *)
(* outlived its Stop.                                                      *)
THEOREM GoLabWorkerGauges == Spec => []DrainedStopCounting
<1> DEFINE GInv == DrainedStopCounting /\ gauged \subseteq Instances
<1>1. Init => GInv
  BY DEF Init, GoInit, DrainedStopCounting
<1>2. GInv /\ TypeOK /\ [Next]_vars => GInv'
  <2> SUFFICES ASSUME GInv, TypeOK, [Next]_vars PROVE GInv'
    OBVIOUS
  <2> USE DEF DrainedStopCounting
  <2>1. CASE Exit
    BY <2>1 DEF Exit
  <2>2. CASE SwapSucceeds
    BY <2>2 DEF SwapSucceeds, TypeOK
  <2>3. ASSUME NEW i \in Instances, UpdateGauge(i) PROVE GInv'
    BY <2>3 DEF UpdateGauge
  <2>4. ASSUME NEW i \in Instances, StopReturns(i) PROVE GInv'
    BY <2>4 DEF StopReturns, TypeOK
  <2>5. ASSUME NEW i \in Instances, DropInstance(i) PROVE GInv'
    BY <2>5 DEF DropInstance, TypeOK
  <2>6. CASE UNCHANGED <<instance, gauged>>
    BY <2>6
  <2> QED
    BY <2>1, <2>2, <2>3, <2>4, <2>5, <2>6
       DEF Next, ConfigLoop, FirstConfig, Fetch, Apply, StoreConfig, SwapFails, Mark, Crash,
           Start, SendOne, InstanceStep, vars, goVars, instVars
<1>3. GInv => DrainedStopCounting
  OBVIOUS
<1> QED
  BY <1>1, <1>2, <1>3, GoLabWorkerTypeOK, PTL DEF Spec
=============================================================================
