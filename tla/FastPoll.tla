------------------------------ MODULE FastPoll ------------------------------
(***************************************************************************)
(* Monitor.pollFast and Monitor.probeStuckDetection                        *)
(* (monitor/internal/monitor/monitor.go): the running gauge, the           *)
(* over-budget ladder and the stuck gauges, with one freshness stamp per   *)
(* kind, written only when every query of the kind succeeded.              *)
(*                                                                         *)
(* Whether the server knows the search attribute TemporalReportedProblems  *)
(* is fixed when the monitor starts (supported), and so is what the        *)
(* configuration asks for (fallback).  Executions that Temporal            *)
(* reports as stuck come and go with their Workflow Tasks, so the answer   *)
(* to a stuck query is any number of running executions.                   *)
(***************************************************************************)
EXTENDS Visibility, Sequences

CONSTANTS
  Buckets,       \* defaults.buckets: a sequence of multiples of the budget
  Causes         \* len(visibility.ReportedProblemCauses)

NumBuckets == Len(Buckets)

ASSUME FastPollAssumption ==
  /\ Buckets \in Seq(Nat \ {0})
  /\ NumBuckets > 0
  /\ Causes \in Nat \ {0}

VARIABLES
  fallback,       \* deployment.stuck_detection = duration_buckets
  supported,      \* the server knows TemporalReportedProblems
  probePending,   \* mo.probePending
  stuckAvailable, \* mo.stuckAvailable
  detection,      \* stuck_detection_available{method="reported_problems"}
  fpc,            \* what pollFast does next
  ftype,          \* index of the type the loop is at
  fnow,           \* now := mo.now() of this poll
  idx,            \* index of the inner loop, over Buckets or the causes
  allOK,          \* allOK of the inner loop
  runningGauge,   \* running_executions
  ladder,         \* over_budget_executions, by type and bucket index
  stuckGauge,     \* stuck_executions, by type and cause
  fresh           \* last_successful_poll_timestamp_seconds, by type and kind,
                  \* and the instant of the poll the stamp was written for

probeVars == <<fallback, supported, probePending, stuckAvailable, detection>>
loopVars == <<fpc, ftype, fnow, idx, allOK>>
gaugeVars == <<runningGauge, ladder, stuckGauge, fresh>>
fastVars == <<probeVars, loopVars, gaugeVars>>

Kind == {"running", "over_budget", "stuck"}

Instant == 0..MaxClock \cup {NoSeries}
Unset == [n |-> 0, at |-> NoSeries]
GaugeValue == [n : Nat, at : Instant]

ProbeTypeOK ==
  /\ fallback \in BOOLEAN
  /\ supported \in BOOLEAN
  /\ probePending \in BOOLEAN
  /\ stuckAvailable \in BOOLEAN
  /\ detection \in {NoSeries, 0, 1}

LoopTypeOK ==
  /\ fpc \in {"start", "idle", "probe", "running", "bucket", "stuck"}
  /\ ftype \in WorkflowTypes
  /\ fnow \in 0..MaxClock
  /\ idx \in Nat \ {0}
  /\ fpc = "bucket" => idx <= NumBuckets
  /\ fpc = "stuck" => idx <= Causes
  /\ allOK \in BOOLEAN

GaugeTypeOK ==
  /\ runningGauge \in [WorkflowTypes -> GaugeValue]
  /\ ladder \in [WorkflowTypes -> [1..NumBuckets -> GaugeValue]]
  /\ stuckGauge \in [WorkflowTypes -> [1..Causes -> GaugeValue]]
  /\ fresh \in [WorkflowTypes -> [Kind -> [stamp : Instant, poll : Instant]]]

FastTypeOK == VisibilityTypeOK /\ ProbeTypeOK /\ LoopTypeOK /\ GaugeTypeOK

FastInit ==
  /\ fallback \in BOOLEAN
  /\ supported \in BOOLEAN
  /\ probePending = FALSE
  /\ stuckAvailable = FALSE
  /\ detection = NoSeries
  /\ fpc = "start"
  /\ ftype = 1
  /\ fnow = 0
  /\ idx = 1
  /\ allOK = TRUE
  /\ runningGauge = [i \in WorkflowTypes |-> Unset]
  /\ ladder = [i \in WorkflowTypes |-> [j \in 1..NumBuckets |-> Unset]]
  /\ stuckGauge = [i \in WorkflowTypes |-> [j \in 1..Causes |-> Unset]]
  /\ fresh = [i \in WorkflowTypes |->
                [k \in Kind |-> [stamp |-> NoSeries, poll |-> NoSeries]]]

-----------------------------------------------------------------------------
(* The probe: one query per half, both rejected by a server that does not  *)
(* know the attribute.  Only a rejection settles that it does not; any     *)
(* other error, a cancelled call included, leaves the probe pending, and   *)
(* nothing bounds how often that happens.                                  *)

ProbeDisabled ==
  /\ fallback
  /\ stuckAvailable' = FALSE
  /\ detection' = 0
  /\ UNCHANGED probePending

(* With a bug: any error of the probe settles that the attribute is absent.*)
AnyErrorSettles ==
  /\ ~fallback
  /\ stuckAvailable' = FALSE
  /\ probePending' = FALSE
  /\ detection' = 0

ProbeTransient ==
  /\ ~fallback
  /\ stuckAvailable' = FALSE
  /\ probePending' = TRUE
  /\ UNCHANGED detection

ProbeSettled ==
  /\ ~fallback
  /\ ~cancelled
  /\ probePending' = FALSE
  /\ stuckAvailable' = supported
  /\ detection' = IF supported THEN 1 ELSE 0

probeStuckDetection ==
  /\ ProbeDisabled \/ ProbeTransient \/ ProbeSettled
  /\ UNCHANGED <<fallback, supported>>

-----------------------------------------------------------------------------
(* The first statements of Run, and the entry of pollFast.                 *)

StartProbe ==
  /\ fpc = "start"
  /\ probeStuckDetection
  /\ fpc' = "idle"
  /\ UNCHANGED <<storeVars, callVars, ftype, fnow, idx, allOK, gaugeVars>>

EnterLoop ==
  /\ fpc' = "running"
  /\ ftype' = 1
  /\ fnow' = clock
  /\ UNCHANGED <<storeVars, callVars, idx, allOK, gaugeVars>>

(* With a bug: a probe that is pending is not made again.                  *)
BeginFastPollNoReprobe == fpc = "idle" /\ UNCHANGED probeVars /\ EnterLoop

BeginFastPoll ==
  /\ fpc = "idle"
  /\ UNCHANGED probeVars
  /\ IF probePending
     THEN fpc' = "probe" /\ UNCHANGED <<storeVars, callVars, ftype, fnow, idx, allOK, gaugeVars>>
     ELSE EnterLoop

Reprobe == fpc = "probe" /\ probeStuckDetection /\ EnterLoop

-----------------------------------------------------------------------------
(* The loop over the types: the running query, the queries of the ladder,  *)
(* the stuck queries.                                                      *)

Stamp(kind) ==
  fresh' = [fresh EXCEPT ![ftype][kind] = [stamp |-> clock, poll |-> fnow]]

InnerLoop(label) == fpc' = label /\ idx' = 1 /\ allOK' = TRUE /\ UNCHANGED ftype

NextFastType ==
  /\ IF ftype < NumTypes THEN ftype' = ftype + 1 /\ fpc' = "running"
                         ELSE ftype' = ftype /\ fpc' = "idle"
  /\ UNCHANGED <<idx, allOK>>

QueryRunning ==
  /\ fpc = "running"
  /\ \/ /\ CountSucceeds
        /\ runningGauge' = [runningGauge EXCEPT ![ftype] =
                              [n |-> Cardinality(Running(ftype)), at |-> fnow]]
        /\ Stamp("running")
     \/ CountFails /\ UNCHANGED <<runningGauge, fresh>>
  /\ InnerLoop("bucket")
  /\ UNCHANGED <<storeVars, probeVars, fnow, ladder, stuckGauge>>

(* With a bug: the stamp looks at the last query of the kind only.         *)
EndQueryStampsLast(ok, last, kind, Continue) ==
  IF idx < last
  THEN /\ idx' = idx + 1
       /\ allOK' = (allOK /\ ok)
       /\ UNCHANGED <<fpc, ftype, fresh>>
  ELSE /\ IF ok THEN Stamp(kind) ELSE UNCHANGED fresh
       /\ Continue

(* The turn of an inner loop that has just made its query: on the last one *)
(* the kind is stamped, if no query of it failed, and the body goes on.    *)
EndQuery(ok, last, kind, Continue) ==
  IF idx < last
  THEN /\ idx' = idx + 1
       /\ allOK' = (allOK /\ ok)
       /\ UNCHANGED <<fpc, ftype, fresh>>
  ELSE /\ IF allOK /\ ok THEN Stamp(kind) ELSE UNCHANGED fresh
       /\ Continue

AfterLadder == IF stuckAvailable THEN InnerLoop("stuck") ELSE NextFastType

(* With a bug: a failed query is published as zero.                        *)
QueryBucketFailsAsZero ==
  /\ fpc = "bucket"
  /\ \/ /\ CountSucceeds
        /\ ladder' = [ladder EXCEPT ![ftype][idx] =
             [n |-> Cardinality(OverBudget(ftype, Buckets[idx], fnow)), at |-> fnow]]
        /\ EndQuery(TRUE, NumBuckets, "over_budget", AfterLadder)
     \/ /\ CountFails
        /\ ladder' = [ladder EXCEPT ![ftype][idx] = [n |-> 0, at |-> fnow]]
        /\ EndQuery(FALSE, NumBuckets, "over_budget", AfterLadder)
  /\ UNCHANGED <<storeVars, probeVars, fnow, runningGauge, stuckGauge>>

QueryBucket ==
  /\ fpc = "bucket"
  /\ \/ /\ CountSucceeds
        /\ ladder' = [ladder EXCEPT ![ftype][idx] =
             [n |-> Cardinality(OverBudget(ftype, Buckets[idx], fnow)), at |-> fnow]]
        /\ EndQuery(TRUE, NumBuckets, "over_budget", AfterLadder)
     \/ /\ CountFails
        /\ UNCHANGED ladder
        /\ EndQuery(FALSE, NumBuckets, "over_budget", AfterLadder)
  /\ UNCHANGED <<storeVars, probeVars, fnow, runningGauge, stuckGauge>>

QueryStuck ==
  /\ fpc = "stuck"
  /\ \/ /\ CountSucceeds
        /\ \E n \in 0..Cardinality(Running(ftype)) :
             stuckGauge' = [stuckGauge EXCEPT ![ftype][idx] = [n |-> n, at |-> fnow]]
        /\ EndQuery(TRUE, Causes, "stuck", NextFastType)
     \/ /\ CountFails
        /\ UNCHANGED stuckGauge
        /\ EndQuery(FALSE, Causes, "stuck", NextFastType)
  /\ UNCHANGED <<storeVars, probeVars, fnow, runningGauge, ladder>>

FastStep == StartProbe \/ Reprobe \/ QueryRunning \/ QueryBucket \/ QueryStuck

-----------------------------------------------------------------------------
FastEnvironment ==
  \/ StoreStep /\ UNCHANGED <<callVars, fastVars>>
  \/ (Cancel \/ OtherQueryFails) /\ UNCHANGED <<storeVars, fastVars>>

fastPollVars == <<visibilityVars, fastVars>>

FastPollInit == VisibilityInit /\ FastInit
FastNext == FastEnvironment \/ BeginFastPoll \/ FastStep
FastSpec == FastPollInit /\ [][FastNext]_fastPollVars

(* Every query returns, by its deadline at the latest (counter.go          *)
(* queryTimeout), and the loop calls pollFast again.                       *)
FastFairSpec == FastSpec /\ WF_fastPollVars(BeginFastPoll) /\ WF_fastPollVars(FastStep)

-----------------------------------------------------------------------------
(* Properties.                                                             *)

StartedBefore(i, t) == {e \in Execs : TypeOf[e] = i /\ status[e] # "none" /\ startTime[e] < t}

(* A rung of the ladder never hides an execution that is past that rung    *)
(* and still open, and never counts one that was not past it: whatever     *)
(* failed or closed since, the value lies between the two (monitor.go      *)
(* 253-260, a failed query leaves the gauge alone).                        *)
LadderBracketed ==
  \A i \in WorkflowTypes, j \in 1..NumBuckets :
    LET g == ladder[i][j] IN
    g.at # NoSeries =>
      /\ Cardinality(OverBudget(i, Buckets[j], g.at)) <= g.n
      /\ g.n <= Cardinality(StartedBefore(i, Cutoff(i, Buckets[j], g.at)))

(* A freshness stamp vouches for every gauge of its kind: none of them is  *)
(* older than the poll the stamp was written for (monitor.go 243-247, one  *)
(* failing query must not hide behind its siblings).                       *)
FreshnessHonest ==
  \A i \in WorkflowTypes :
    /\ \A k \in Kind : fresh[i][k].poll <= fresh[i][k].stamp
    /\ fresh[i]["running"].poll <= runningGauge[i].at
    /\ \A j \in 1..NumBuckets : fresh[i]["over_budget"].poll <= ladder[i][j].at
    /\ \A j \in 1..Causes : fresh[i]["stuck"].poll <= stuckGauge[i][j].at

(* stuck_executions is published only on a server that has the attribute,  *)
(* and stuck_detection_available never says of a server what no answer of  *)
(* it established: a transient error is not a rejection (monitor.go        *)
(* 110-120).                                                               *)
DetectionHonest ==
  /\ detection = 1 => supported /\ stuckAvailable
  /\ detection = 0 => ~stuckAvailable /\ (fallback \/ ~supported)
  /\ \A i \in WorkflowTypes, j \in 1..Causes :
       stuckGauge[i][j].at # NoSeries => detection = 1

=============================================================================
