--------------------------- MODULE LabController ---------------------------
(***************************************************************************)
(* One lane of the tuning lab's controller (demo/lab/controller.go): its   *)
(* versioned configuration, the limit of its downstream dependency, the    *)
(* Worker reports it keeps.  The Worker of the lane is GoLabWorker or      *)
(* PyLabWorker, which extend this module.                                  *)
(*                                                                         *)
(* A LaneConfig is kept as the three parts that take effect in different   *)
(* ways (shared.go 14-23): opts stands for the pollers and slots of a      *)
(* Worker, cache for the sticky cache size, io for IOConcurrency.  Load,   *)
(* Workflow shape and Activity profile are left out.                       *)
(*                                                                         *)
(* A report carries, besides the version the Worker says it applied, what  *)
(* the Worker was really built with when it said so; the properties look   *)
(* at it, no action does.                                                  *)
(***************************************************************************)
EXTENDS Integers, FiniteSets

CONSTANTS
  Handlers,    \* HTTP requests the controller serves at the same time
  Options,     \* pollers and slots
  Caches,      \* sticky cache sizes
  PostedIO,    \* values of ioConcurrency a request may carry
  MaxIO,       \* 1000 in validate
  Baseline,    \* the configuration of a controller that has just started
  BootVersion, \* version of this lane after start: 1 for "go", 2 for "python"
  MaxVersion,  \* bound: configurations set, over both lanes
  MaxRestarts, \* bound: restarts of the controller
  MaxPosts     \* bound: reports on their way at the same time

LaneConfig == [opts : Options, cache : Caches, io : 1..MaxIO]
NumLanes == 2
NoOptions == "none"

ASSUME LabAssumption ==
  /\ NoOptions \notin Options
  /\ MaxIO \in Nat \ {0}
  /\ PostedIO \subseteq Int
  /\ Baseline \in LaneConfig
  /\ BootVersion \in 1..NumLanes
  /\ MaxVersion \in Nat /\ MaxVersion >= NumLanes
  /\ MaxRestarts \in Nat
  /\ MaxPosts \in Nat

VARIABLES
  counter,  \* controller.version, shared by the lanes
  version,  \* laneState.version
  cfg,      \* laneState.cfg
  limit,    \* laneState.ds.limit
  handler,  \* what each request still has to do
  posts,    \* reports the Worker has sent and the controller has not handled
  report,   \* laneState.reports, of the one Worker of the lane
  restarts, \* restarts of the controller so far
  givenOut  \* the highest version any controller before this one gave out

ctlVars == <<counter, version, cfg, limit, handler, restarts, givenOut>>
reportVars == <<posts, report>>
labVars == <<ctlVars, reportVars>>

Idle == [pc |-> "idle", io |-> 0]
None == [version |-> 0]
Report == [version : 0..MaxVersion, opts : Options \cup {NoOptions}, cache : Caches \cup {0}]

CtlTypeOK ==
  /\ counter \in NumLanes..MaxVersion
  /\ version \in 1..counter
  /\ cfg \in LaneConfig
  /\ limit \in 1..MaxIO
  /\ handler \in [Handlers -> {Idle} \cup [pc : {"limit"}, io : 1..MaxIO]]
  /\ posts \subseteq Report
  /\ report \in {None} \cup Report
  /\ restarts \in 0..MaxRestarts
  /\ givenOut \in 0..MaxVersion

(* The highest version given out so far, by any controller.               *)
Highest == IF counter > givenOut THEN counter ELSE givenOut

CtlInit ==
  /\ counter = NumLanes
  /\ version = BootVersion
  /\ cfg = Baseline
  /\ limit = Baseline.io
  /\ handler = [h \in Handlers |-> Idle]
  /\ posts = {}
  /\ report = None
  /\ restarts = 0
  /\ givenOut = 0

-----------------------------------------------------------------------------
(* handleConfig and handlePreset: validate, then setConfig, which sets the *)
(* configuration and its version under the lane's mutex and the limiter's  *)
(* limit after unlocking it.                                               *)

Clamp(v, lo, hi) == IF v < lo THEN lo ELSE IF v > hi THEN hi ELSE v

Validate(c) == [c EXCEPT !.io = Clamp(@, 1, MaxIO)]

SetConfig(h, c) ==
  /\ handler[h] = Idle
  /\ counter < MaxVersion
  /\ cfg' = c
  /\ counter' = counter + 1
  /\ version' = counter + 1
  /\ handler' = [handler EXCEPT ![h] = [pc |-> "limit", io |-> c.io]]
  /\ UNCHANGED <<limit, restarts, givenOut, reportVars>>

SetLimit(h) ==
  /\ handler[h] # Idle
  /\ limit' = handler[h].io
  /\ handler' = [handler EXCEPT ![h] = Idle]
  /\ UNCHANGED <<counter, version, cfg, restarts, givenOut, reportVars>>

PostConfig(h) ==
  \E o \in Options, s \in Caches, n \in PostedIO :
    SetConfig(h, Validate([opts |-> o, cache |-> s, io |-> n]))

(* setConfig for the other lane takes a version from the same counter.     *)
OtherLane ==
  /\ counter < MaxVersion
  /\ counter' = counter + 1
  /\ UNCHANGED <<version, cfg, limit, handler, restarts, givenOut, reportVars>>

(* The configuration, its version and the reports are kept in memory only. *)
RestartController ==
  /\ restarts < MaxRestarts
  /\ restarts' = restarts + 1
  /\ givenOut' = Highest
  /\ counter' = NumLanes
  /\ version' = BootVersion
  /\ cfg' = Baseline
  /\ limit' = Baseline.io
  /\ handler' = [h \in Handlers |-> Idle]
  /\ posts' = {}
  /\ report' = None

CtlStep ==
  \/ \E h \in Handlers : PostConfig(h) \/ SetLimit(h)
  \/ OtherLane
  \/ RestartController

-----------------------------------------------------------------------------
(* What the Worker of the lane asks of the controller.                     *)

(* GET /api/config: the configuration and its version, under the mutex.    *)
Versioned == [version |-> version, config |-> cfg]

(* reportLoop: a report is read, then posted; a post that timed out may    *)
(* still be handled, after a later one.                                    *)
SendReport(v, o, s) ==
  /\ Cardinality(posts) < MaxPosts
  /\ posts' = posts \cup {[version |-> v, opts |-> o, cache |-> s]}
  /\ UNCHANGED <<ctlVars, report>>

HandleReport ==
  /\ \E p \in posts : report' = p /\ posts' = posts \ {p}
  /\ UNCHANGED ctlVars

LoseReport ==
  /\ \E p \in posts : posts' = posts \ {p}
  /\ UNCHANGED <<ctlVars, report>>

(* laneSnapshot: the UI shows the lane as applied, not as applying.        *)
Applied == report.version = version

-----------------------------------------------------------------------------
(* Properties.                                                             *)

(* The lane as Rollout sees it: the version of its configuration names no  *)
(* configuration of a controller before this one, and what was built.      *)
Unambiguous == version > givenOut
BuildOf(c) == [opts |-> c.opts, cache |-> c.cache]
Builds == [opts : Options, cache : Caches]
NotBuilt == [opts |-> NoOptions, cache |-> 0]
ReportedBuild == IF report.version = 0 THEN NotBuilt ELSE BuildOf(report)

=============================================================================
