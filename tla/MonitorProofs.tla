--------------------------- MODULE MonitorProofs ---------------------------
(***************************************************************************)
(* What the two polls of the monitor and the alerts over their gauges      *)
(* guarantee for every set of executions, number of types, ladder,         *)
(* threshold and bound: first the window poll, then the fast poll, then    *)
(* Run, which implements both and so has what is proved of either.         *)
(***************************************************************************)
EXTENDS SLOMonitor, FastRules, WindowRules, FiniteSetTheorems, TLAPS

(* The set behind each term is a finite set of executions, so its count is *)
(* a natural number (query.go).                                            *)
LEMMA TermSetFinite ==
  ASSUME NEW t \in Term, NEW i \in WorkflowTypes
  PROVE  /\ TermSet(t, i) \subseteq Execs
         /\ IsFiniteSet(TermSet(t, i))
         /\ Cardinality(TermSet(t, i)) \in Nat
<1>1. TermSet(t, i) \subseteq Execs
  BY DEF Term, TermSet, ClosedInBudget, ClosedOverBudget, ClosedSince, OverBudget, Running
<1>2. IsFiniteSet(TermSet(t, i))
  BY <1>1, FS_Subset, VisibilityAssumption DEF VisibilityAssumption
<1>3. QED
  BY <1>1, <1>2, FS_CardinalityType

(* What the environment of a poll may do to the store and to the calls.    *)
LEMMA EnvironmentTypeOK == VisibilityTypeOK /\ WindowEnvironment => VisibilityTypeOK'
<1> SUFFICES ASSUME VisibilityTypeOK, WindowEnvironment PROVE VisibilityTypeOK'
  OBVIOUS
<1> USE DEF VisibilityTypeOK
<1>1. CASE Advance /\ UNCHANGED callVars
  BY <1>1, VisibilityAssumption DEF Advance, callVars, VisibilityAssumption
<1>2. ASSUME NEW e \in Execs, StartExecution(e), UNCHANGED callVars PROVE VisibilityTypeOK'
  BY <1>2 DEF StartExecution, callVars
<1>3. ASSUME NEW e \in Execs, NEW s \in Outcomes, CloseExecution(e, s), UNCHANGED callVars
      PROVE  VisibilityTypeOK'
  BY <1>3 DEF CloseExecution, callVars
<1>4. CASE Cancel /\ UNCHANGED storeVars
  BY <1>4 DEF Cancel, storeVars
<1>5. CASE OtherQueryFails /\ UNCHANGED storeVars
  BY <1>5, VisibilityAssumption DEF OtherQueryFails, storeVars, VisibilityAssumption
<1>6. QED
  BY <1>1, <1>2, <1>3, <1>4, <1>5 DEF WindowEnvironment, StoreStep

(* A call of count leaves the call variables well typed.                   *)
LEMMA CountTypeOK ==
  VisibilityTypeOK /\ (CountSucceeds \/ CountFails) /\ UNCHANGED storeVars => VisibilityTypeOK'
BY VisibilityAssumption
DEF VisibilityTypeOK, CountSucceeds, CountFails, callVars, storeVars, VisibilityAssumption

(* A query moves the poll on and changes only its own reply.               *)
LEMMA QueryTypeOK ==
  ASSUME WindowTypeOK, NEW t \in Term, NEW next \in {"over", "open", "set_in"}, QueryTerm(t, next)
  PROVE  WindowTypeOK'
<1> USE DEF WindowTypeOK
<1>1. VisibilityTypeOK'
  BY CountTypeOK DEF QueryTerm
<1>2. reply' \in [Term -> Nat \cup {Failed}]
  BY TermSetFinite DEF WindowLoopTypeOK, QueryTerm
<1>3. UNCHANGED <<wtype, wnow, windowGauge, windowFresh>>
  BY DEF QueryTerm
<1>4. wpc' = next
  BY DEF QueryTerm
<1>5. QED
  BY <1>1, <1>2, <1>3, <1>4 DEF WindowLoopTypeOK

(* WindowTypeOK is an invariant; in particular only counts that were answered    *)
(* are published, never a failed reply (monitor.go 231-239).               *)
Answered ==
  /\ wpc = "set_over" => AllOK
  /\ wpc = "set_open" => AllOK

(* Publishing one term, once all three were answered, keeps the types.     *)
LEMMA SetTermTypeOK ==
  ASSUME WindowTypeOK, AllOK, NEW t \in Term, SetTerm(t)
  PROVE  windowGauge' \in [WorkflowTypes -> [Term -> [n : Nat, at : 0..MaxClock \cup {NoSeries}]]]
<1>1. reply[t] \in Nat
  BY DEF WindowTypeOK, WindowLoopTypeOK, AllOK
<1>2. QED
  BY <1>1 DEF SetTerm, WindowTypeOK, WindowLoopTypeOK

(* Every step keeps the types, and what is published was answered.         *)
LEMMA TypeInductive == WindowTypeOK /\ Answered /\ [WindowNext]_windowPollVars => (WindowTypeOK /\ Answered)'
<1> SUFFICES ASSUME WindowTypeOK, Answered, [WindowNext]_windowPollVars PROVE (WindowTypeOK /\ Answered)'
  OBVIOUS
<1> USE DEF Answered
<1>1. CASE WindowEnvironment
  <2>1. VisibilityTypeOK'
    BY <1>1, EnvironmentTypeOK DEF WindowTypeOK
  <2>2. UNCHANGED windowVars
    BY <1>1 DEF WindowEnvironment
  <2>3. QED
    BY <2>1, <2>2 DEF WindowTypeOK, WindowLoopTypeOK, windowVars, AllOK
<1>2. CASE BeginWindowPoll
  BY <1>2, VisibilityAssumption
  DEF BeginWindowPoll, WindowTypeOK, WindowLoopTypeOK, VisibilityTypeOK, VisibilityAssumption,
      storeVars, callVars, WorkflowTypes
<1>3. ASSUME NEW t \in Term, NEW next \in {"over", "open", "set_in"}, QueryTerm(t, next)
      PROVE  (WindowTypeOK /\ Answered)'
  BY <1>3, QueryTypeOK DEF QueryTerm
<1>9a. CASE QueryIn \/ QueryOver \/ QueryOpen
  BY <1>3, <1>9a DEF QueryIn, QueryOver, QueryOpen, Term
<1>4. CASE SkipPublish
  BY <1>4, VisibilityAssumption
  DEF SkipPublish, NextWindowType, WindowTypeOK, WindowLoopTypeOK, VisibilityTypeOK,
      VisibilityAssumption, storeVars, callVars, WorkflowTypes
<1>5. CASE SetIn
  <2>1. windowGauge' \in [WorkflowTypes -> [Term -> [n : Nat, at : 0..MaxClock \cup {NoSeries}]]]
    BY <1>5, SetTermTypeOK DEF SetIn, Term
  <2>2. QED
    BY <1>5, <2>1
    DEF SetIn, WindowTypeOK, WindowLoopTypeOK, VisibilityTypeOK, storeVars, callVars, AllOK
<1>6. CASE SetOver
  <2>1. windowGauge' \in [WorkflowTypes -> [Term -> [n : Nat, at : 0..MaxClock \cup {NoSeries}]]]
    BY <1>6, SetTermTypeOK DEF SetOver, Term
  <2>2. QED
    BY <1>6, <2>1
    DEF SetOver, WindowTypeOK, WindowLoopTypeOK, VisibilityTypeOK, storeVars, callVars, AllOK
<1>7. CASE SetOpen
  <2>1. windowGauge' \in [WorkflowTypes -> [Term -> [n : Nat, at : 0..MaxClock \cup {NoSeries}]]]
    BY <1>7, SetTermTypeOK DEF SetOpen, Term
  <2>2. QED
    BY <1>7, <2>1, VisibilityAssumption
    DEF SetOpen, NextWindowType, WindowTypeOK, WindowLoopTypeOK, VisibilityTypeOK,
        VisibilityAssumption, storeVars, callVars, WorkflowTypes
<1>8. CASE UNCHANGED windowPollVars
  BY <1>8
  DEF windowPollVars, visibilityVars, storeVars, callVars, windowVars, WindowTypeOK, WindowLoopTypeOK,
      VisibilityTypeOK, AllOK
<1>q. QED
  BY <1>1, <1>2, <1>9a, <1>4, <1>5, <1>6, <1>7, <1>8 DEF WindowNext, WindowStep

(* The monitor starts with no gauge set and no query made.                 *)
LEMMA InitTypeOK == WindowPollInit => WindowTypeOK /\ Answered
<1> SUFFICES ASSUME WindowPollInit PROVE WindowTypeOK /\ Answered
  OBVIOUS
<1>1. VisibilityTypeOK
  <2>1. clock \in 0..MaxClock /\ pollErrors \in 0..MaxErrors
    BY VisibilityAssumption DEF WindowPollInit, VisibilityInit, VisibilityAssumption
  <2>2. status \in [Execs -> {"none", "running"} \cup Outcomes]
    BY DEF WindowPollInit, VisibilityInit
  <2>3. startTime \in [Execs -> Nat] /\ closeTime \in [Execs -> Nat]
    BY DEF WindowPollInit, VisibilityInit
  <2>4. cancelled \in BOOLEAN
    BY DEF WindowPollInit, VisibilityInit
  <2>5. QED
    BY <2>1, <2>2, <2>3, <2>4 DEF VisibilityTypeOK
<1>2. windowGauge \in [WorkflowTypes -> [Term -> [n : Nat, at : 0..MaxClock \cup {NoSeries}]]]
  BY DEF WindowPollInit, WindowInit
<1>3. windowFresh \in [WorkflowTypes -> 0..MaxClock \cup {NoSeries}]
  BY DEF WindowPollInit, WindowInit
<1>4. wtype \in WorkflowTypes /\ wnow \in 0..MaxClock /\ reply \in [Term -> Nat \cup {Failed}]
  BY VisibilityAssumption DEF WindowPollInit, WindowInit, VisibilityAssumption, WorkflowTypes
<1>5. wpc = "idle"
  BY DEF WindowPollInit, WindowInit
<1>6. QED
  BY <1>1, <1>2, <1>3, <1>4, <1>5 DEF WindowTypeOK, WindowLoopTypeOK, Answered

(* WindowTypeOK holds; in particular only counts that were answered are          *)
(* published, never a failed reply (monitor.go 231-239).                   *)
THEOREM WindowPollTypeOK == WindowSpec => []WindowTypeOK
<1>1. WindowTypeOK /\ Answered /\ [WindowNext]_windowPollVars => (WindowTypeOK /\ Answered)'
  BY TypeInductive
<1>2. QED
  BY <1>1, InitTypeOK, PTL DEF WindowSpec

-----------------------------------------------------------------------------
(* The inductive invariant.  What the answers so far say of the store can  *)
(* only become truer while the poll goes on: closed executions stay closed *)
(* and started ones started, executions past the cutoff can only leave the *)
(* running ones, and none that closes later has closed before the poll.    *)

Closed(i) == {e \in Started(i) : status[e] # "running"}
ClosedWithin(i) == {e \in Closed(i) : WithinBudget(e, i)}
LateClosed(i, now) == {e \in ClosedOverBudget(i, now) : closeTime[e] < now}

WindowInstantsPast ==
  /\ wnow <= clock
  /\ \A i \in WorkflowTypes, t \in Term : At(i, t) <= clock

RepliesCountOnce ==
  /\ wpc = "over" => reply["in"] <= Cardinality(ClosedWithin(wtype))
  /\ wpc = "open" => reply["in"] + reply["over"] <= Cardinality(Closed(wtype))
  /\ wpc \in {"set_in", "set_over", "set_open"} =>
       reply["in"] + reply["over"] + reply["open"] <= Cardinality(Started(wtype))

RepliesCoverLate ==
  /\ wpc \in {"open", "set_in", "set_over", "set_open"} /\ reply["over"] # Failed =>
       \A now \in {wnow} : Cardinality(LateClosed(wtype, now)) <= reply["over"]
  /\ wpc \in {"set_in", "set_over", "set_open"} /\ reply["open"] # Failed =>
       \A now \in {wnow} : Cardinality(OverBudget(wtype, 1, now)) <= reply["open"]

PartlyPublished ==
  /\ wpc \in {"set_over", "set_open"} =>
       windowGauge[wtype]["in"] = [n |-> reply["in"], at |-> wnow]
  /\ wpc = "set_open" =>
       windowGauge[wtype]["over"] = [n |-> reply["over"], at |-> wnow]

LateCounted(i) ==
  \A now \in 0..MaxClock : At(i, "open") = now =>
    Cardinality(SettledLate(i, now)) <= Gauge(i, "over") + Gauge(i, "open")

LateAlwaysCounted == \A i \in WorkflowTypes : ~Publishing(i) => LateCounted(i)

WindowIInv ==
  /\ WindowTypeOK
  /\ Answered
  /\ WindowInstantsPast
  /\ RepliesCountOnce
  /\ RepliesCoverLate
  /\ PartlyPublished
  /\ TermsOfOnePoll
  /\ NoDoubleCount
  /\ LateAlwaysCounted

-----------------------------------------------------------------------------
(* Counting subsets of the executions.                                     *)

(* A subset counts no more than the set it is taken from.                  *)
LEMMA SubsetCount ==
  ASSUME NEW T, T \subseteq Execs, NEW S, S \subseteq T
  PROVE  /\ Cardinality(S) \in Nat
         /\ Cardinality(T) \in Nat
         /\ Cardinality(S) <= Cardinality(T)
<1>1. IsFiniteSet(T)
  BY FS_Subset, VisibilityAssumption DEF VisibilityAssumption
<1>2. IsFiniteSet(S) /\ Cardinality(S) <= Cardinality(T)
  BY <1>1, FS_Subset
<1>3. QED
  BY <1>1, <1>2, FS_CardinalityType

(* A union counts no more than its two parts together.                     *)
LEMMA UnionCount ==
  ASSUME NEW S, S \subseteq Execs, NEW T, T \subseteq Execs
  PROVE  /\ Cardinality(S \cup T) <= Cardinality(S) + Cardinality(T)
         /\ S \cap T = {} => Cardinality(S \cup T) = Cardinality(S) + Cardinality(T)
<1>1. IsFiniteSet(S) /\ IsFiniteSet(T) /\ IsFiniteSet(S \cap T)
  BY FS_Subset, VisibilityAssumption DEF VisibilityAssumption
<1>2. Cardinality(S \cup T) = Cardinality(S) + Cardinality(T) - Cardinality(S \cap T)
  BY <1>1, FS_Union
<1>3. Cardinality(S) \in Nat /\ Cardinality(T) \in Nat /\ Cardinality(S \cap T) \in Nat
  BY <1>1, FS_CardinalityType
<1>4. S \cap T = {} => Cardinality(S \cap T) = 0
  BY FS_EmptySet
<1>5. QED
  BY <1>2, <1>3, <1>4

(* Disjoint subsets count together no more than what holds them both.      *)
LEMMA DisjointCount ==
  ASSUME NEW U, U \subseteq Execs, NEW S, S \subseteq U, NEW T, T \subseteq U, S \cap T = {}
  PROVE  Cardinality(S) + Cardinality(T) <= Cardinality(U)
<1>1. Cardinality(S \cup T) = Cardinality(S) + Cardinality(T)
  BY UnionCount
<1>2. Cardinality(S \cup T) <= Cardinality(U)
  BY SubsetCount
<1>3. QED
  BY <1>1, <1>2

(* Cutoffs lie in the past of the instant they are computed from, and an   *)
(* execution past its cutoff has exceeded its budget.                      *)
LEMMA CutoffPast ==
  ASSUME NEW i \in WorkflowTypes, NEW now \in Nat
  PROVE  Cutoff(i, 1, now) \in Int /\ Cutoff(i, 1, now) <= now
<1>1. \A t \in Int : Truncate(t) \in Int /\ Truncate(t) <= t
  BY VisibilityAssumption DEF Truncate, VisibilityAssumption
<1>2. Budget[i] \in Nat
  BY VisibilityAssumption DEF VisibilityAssumption
<1>3. now - 1 * Budget[i] \in Int /\ now - 1 * Budget[i] <= now
  BY <1>2
<1>4. QED
  BY <1>1, <1>3 DEF Cutoff

(* What the properties count are sets of executions.                       *)
LEMMA SetsOfExecs ==
  ASSUME NEW i \in WorkflowTypes, NEW now
  PROVE  /\ Started(i) \subseteq Execs
         /\ Closed(i) \subseteq Started(i)
         /\ ClosedWithin(i) \subseteq Closed(i)
         /\ Running(i) \subseteq Started(i) \ Closed(i)
         /\ OverBudget(i, 1, now) \subseteq Running(i)
         /\ LateClosed(i, now) \subseteq ClosedOverBudget(i, now)
         /\ ClosedInBudget(i, now) \subseteq ClosedWithin(i)
         /\ ClosedOverBudget(i, now) \subseteq Closed(i) \ ClosedWithin(i)
         /\ SettledLate(i, now) = OverBudget(i, 1, now) \cup LateClosed(i, now)
BY VisibilityAssumption
DEF Started, Closed, ClosedWithin, Running, OverBudget, LateClosed, ClosedInBudget,
    ClosedOverBudget, ClosedSince, SettledLate, VisibilityAssumption

(* What a step of the store does to the sets, for an instant not after it. *)
LEMMA StoreMonotone ==
  ASSUME WindowTypeOK, StoreStep \/ UNCHANGED storeVars,
         NEW i \in WorkflowTypes, NEW now \in Nat, now <= clock
  PROVE  /\ Started(i) \subseteq Started(i)'
         /\ Closed(i) \subseteq Closed(i)'
         /\ ClosedWithin(i) \subseteq ClosedWithin(i)'
         /\ LateClosed(i, now)' = LateClosed(i, now)
         /\ OverBudget(i, 1, now)' \subseteq OverBudget(i, 1, now)
         /\ clock <= clock'
<1> USE VisibilityAssumption DEF WindowTypeOK, VisibilityTypeOK, Started, Closed, ClosedWithin,
        WithinBudget, Running, OverBudget, LateClosed, ClosedOverBudget, ClosedSince,
        VisibilityAssumption
<1>1. CASE UNCHANGED storeVars
  BY <1>1 DEF storeVars
<1>2. CASE Advance
  BY <1>2 DEF Advance
<1>3. ASSUME NEW e \in Execs, StartExecution(e)
      PROVE  /\ Started(i) \subseteq Started(i)'
             /\ Closed(i) \subseteq Closed(i)'
             /\ ClosedWithin(i) \subseteq ClosedWithin(i)'
             /\ LateClosed(i, now)' = LateClosed(i, now)
             /\ OverBudget(i, 1, now)' \subseteq OverBudget(i, 1, now)
             /\ clock <= clock'
  BY <1>3, CutoffPast DEF StartExecution
<1>4. ASSUME NEW e \in Execs, NEW s \in Outcomes, CloseExecution(e, s)
      PROVE  /\ Started(i) \subseteq Started(i)'
             /\ Closed(i) \subseteq Closed(i)'
             /\ ClosedWithin(i) \subseteq ClosedWithin(i)'
             /\ LateClosed(i, now)' = LateClosed(i, now)
             /\ OverBudget(i, 1, now)' \subseteq OverBudget(i, 1, now)
             /\ clock <= clock'
  BY <1>4 DEF CloseExecution
<1>5. QED
  BY <1>1, <1>2, <1>3, <1>4 DEF StoreStep

-----------------------------------------------------------------------------
(* A step outside the poll keeps the invariant.                            *)
LEMMA EnvironmentKeepsIInv ==
  ASSUME WindowIInv, WindowEnvironment \/ UNCHANGED windowPollVars
  PROVE  WindowIInv'
<1>1. StoreStep \/ UNCHANGED storeVars
  BY DEF WindowEnvironment, windowPollVars, visibilityVars
<1>2. UNCHANGED <<wpc, wtype, wnow, reply, windowGauge, windowFresh>>
  BY DEF WindowEnvironment, windowPollVars, windowVars
<1>3. WindowTypeOK' /\ Answered'
  BY TypeInductive DEF WindowIInv, WindowNext
<1>4. /\ WindowTypeOK
      /\ wtype \in WorkflowTypes
      /\ wnow \in Nat /\ wnow <= clock
      /\ clock \in Nat
      /\ \A t \in Term : reply[t] \in Int
  BY VisibilityAssumption
  DEF WindowIInv, WindowTypeOK, WindowLoopTypeOK, VisibilityTypeOK, WindowInstantsPast, Failed, VisibilityAssumption
<1>5. WindowInstantsPast'
  <2>1. clock <= clock'
    BY <1>1, <1>4, StoreMonotone
  <2>2. clock' \in Nat
    BY <1>3 DEF WindowTypeOK, VisibilityTypeOK
  <2>3. \A i \in WorkflowTypes, t \in Term : At(i, t) \in Int /\ At(i, t) <= clock
    BY VisibilityAssumption DEF WindowIInv, WindowInstantsPast, WindowTypeOK, WindowLoopTypeOK, At, NoSeries, VisibilityAssumption
  <2>4. QED
    BY <1>2, <1>4, <2>1, <2>2, <2>3 DEF WindowInstantsPast, At
<1>6. RepliesCountOnce'
  <2>1. /\ Cardinality(ClosedWithin(wtype)) <= Cardinality(ClosedWithin(wtype)')
        /\ Cardinality(Closed(wtype)) <= Cardinality(Closed(wtype)')
        /\ Cardinality(Started(wtype)) <= Cardinality(Started(wtype)')
        /\ Cardinality(ClosedWithin(wtype)) \in Nat /\ Cardinality(ClosedWithin(wtype)') \in Nat
        /\ Cardinality(Closed(wtype)) \in Nat /\ Cardinality(Closed(wtype)') \in Nat
        /\ Cardinality(Started(wtype)) \in Nat /\ Cardinality(Started(wtype)') \in Nat
    <3>1. /\ ClosedWithin(wtype) \subseteq ClosedWithin(wtype)'
          /\ Closed(wtype) \subseteq Closed(wtype)'
          /\ Started(wtype) \subseteq Started(wtype)'
      BY <1>1, <1>2, <1>4, StoreMonotone
    <3>2. /\ ClosedWithin(wtype)' \subseteq Execs
          /\ Closed(wtype)' \subseteq Execs
          /\ Started(wtype)' \subseteq Execs
      BY DEF ClosedWithin, Closed, Started
    <3>3. QED
      BY <3>1, <3>2, SubsetCount
  <2>2. QED
    BY <1>2, <1>4, <2>1 DEF WindowIInv, RepliesCountOnce, Term
<1>7. RepliesCoverLate'
  <2>1. LateClosed(wtype, wnow)' = LateClosed(wtype, wnow)
    BY <1>1, <1>2, <1>4, StoreMonotone
  <2>2. /\ Cardinality(OverBudget(wtype, 1, wnow)') <= Cardinality(OverBudget(wtype, 1, wnow))
        /\ Cardinality(OverBudget(wtype, 1, wnow)') \in Nat
        /\ Cardinality(OverBudget(wtype, 1, wnow)) \in Nat
    <3>1. OverBudget(wtype, 1, wnow)' \subseteq OverBudget(wtype, 1, wnow)
      BY <1>1, <1>2, <1>4, StoreMonotone
    <3>2. OverBudget(wtype, 1, wnow) \subseteq Execs
      BY DEF OverBudget, Running
    <3>3. QED
      BY <3>1, <3>2, SubsetCount
  <2>3. QED
    BY <1>2, <1>4, <2>1, <2>2 DEF WindowIInv, RepliesCoverLate, Term
<1>8. PartlyPublished' /\ TermsOfOnePoll'
  BY <1>2 DEF WindowIInv, PartlyPublished, TermsOfOnePoll, Publishing, Published, At
<1>9. NoDoubleCount'
  <2> SUFFICES ASSUME NEW i \in WorkflowTypes, ~Publishing(i)'
               PROVE  (Gauge(i, "in") + Gauge(i, "over") + Gauge(i, "open") <= Cardinality(Started(i)))'
    BY DEF NoDoubleCount
  <2>1. Gauge(i, "in") + Gauge(i, "over") + Gauge(i, "open") <= Cardinality(Started(i))
    BY <1>2 DEF WindowIInv, NoDoubleCount, Publishing
  <2>2. /\ Cardinality(Started(i)) <= Cardinality(Started(i)')
        /\ Cardinality(Started(i)) \in Nat /\ Cardinality(Started(i)') \in Nat
    <3>1. Started(i) \subseteq Started(i)'
      BY <1>1, <1>4, StoreMonotone
    <3>2. Started(i)' \subseteq Execs
      BY DEF Started
    <3>3. QED
      BY <3>1, <3>2, SubsetCount
  <2>3. \A t \in Term : Gauge(i, t) \in Nat
    BY <1>4 DEF WindowTypeOK, WindowLoopTypeOK, Gauge
  <2>4. QED
    BY <1>2, <2>1, <2>2, <2>3 DEF Gauge, Term
<1>10. LateAlwaysCounted'
  <2> SUFFICES ASSUME NEW i \in WorkflowTypes, ~Publishing(i)',
                      NEW now \in 0..MaxClock, (At(i, "open"))' = now
               PROVE  Cardinality(SettledLate(i, now))' <= (Gauge(i, "over") + Gauge(i, "open"))'
    BY DEF LateAlwaysCounted, LateCounted
  <2>1. Cardinality(SettledLate(i, now)) <= Gauge(i, "over") + Gauge(i, "open")
    BY <1>2 DEF WindowIInv, LateAlwaysCounted, LateCounted, Publishing, At
  <2>2. now <= clock /\ now \in Nat
    BY <1>2, VisibilityAssumption DEF WindowIInv, WindowInstantsPast, At, Term, VisibilityAssumption
  <2>3. /\ Cardinality(SettledLate(i, now)') <= Cardinality(SettledLate(i, now))
        /\ Cardinality(SettledLate(i, now)) \in Nat
        /\ Cardinality(SettledLate(i, now)') \in Nat
    <3>1. /\ OverBudget(i, 1, now)' \subseteq OverBudget(i, 1, now)
          /\ LateClosed(i, now)' = LateClosed(i, now)
      BY <1>1, <1>4, <2>2, StoreMonotone
    <3>2. SettledLate(i, now)' = OverBudget(i, 1, now)' \cup LateClosed(i, now)'
      BY DEF SettledLate, LateClosed
    <3>3. /\ SettledLate(i, now) = OverBudget(i, 1, now) \cup LateClosed(i, now)
          /\ SettledLate(i, now) \subseteq Execs
      BY DEF SettledLate, LateClosed, OverBudget, Running, ClosedOverBudget, ClosedSince
    <3>4. QED
      BY <3>1, <3>2, <3>3, SubsetCount
  <2>4. \A t \in Term : Gauge(i, t) \in Nat
    BY <1>4 DEF WindowTypeOK, WindowLoopTypeOK, Gauge
  <2>5. QED
    BY <1>2, <2>1, <2>3, <2>4 DEF Gauge, Term
<1>11. QED
  BY <1>3, <1>5, <1>6, <1>7, <1>8, <1>9, <1>10 DEF WindowIInv

-----------------------------------------------------------------------------
(* The steps of the poll.  None of them changes the store.                 *)

(* A poll starts from replies that claim nothing (monitor.go 219-222).     *)
LEMMA BeginKeepsIInv ==
  ASSUME WindowIInv, BeginWindowPoll
  PROVE  WindowIInv'
<1>1. UNCHANGED storeVars /\ UNCHANGED windowGauge /\ UNCHANGED windowFresh
  BY DEF BeginWindowPoll
<1>2. wpc = "idle" /\ wpc' = "in" /\ wnow' = clock
  BY DEF BeginWindowPoll
<1>3. WindowTypeOK' /\ Answered'
  BY TypeInductive DEF WindowIInv, WindowNext
<1>4. WindowInstantsPast'
  BY <1>1, <1>2, VisibilityAssumption
  DEF WindowIInv, WindowInstantsPast, At, storeVars, WindowTypeOK, VisibilityTypeOK, VisibilityAssumption
<1>5. RepliesCountOnce' /\ RepliesCoverLate' /\ PartlyPublished'
  BY <1>2 DEF RepliesCountOnce, RepliesCoverLate, PartlyPublished
<1>6. TermsOfOnePoll' /\ NoDoubleCount' /\ LateAlwaysCounted'
  BY <1>1, <1>2
  DEF WindowIInv, TermsOfOnePoll, NoDoubleCount, LateAlwaysCounted, LateCounted, Publishing, Published,
      At, Gauge, Started, SettledLate, OverBudget, Running, ClosedOverBudget, ClosedSince,
      WithinBudget, storeVars
<1>7. QED
  BY <1>3, <1>4, <1>5, <1>6 DEF WindowIInv

(* The part of the invariant that is about the gauges is kept by any step  *)
(* that leaves the gauges, their stamps and the store alone, and begins no *)
(* publication.                                                            *)
LEMMA GaugesKept ==
  ASSUME WindowIInv, UNCHANGED <<storeVars, windowGauge, windowFresh>>,
         wpc \notin {"set_over", "set_open"}
  PROVE  TermsOfOnePoll' /\ NoDoubleCount' /\ LateAlwaysCounted'
BY DEF WindowIInv, TermsOfOnePoll, NoDoubleCount, LateAlwaysCounted, LateCounted, Publishing, Published,
      At, Gauge, Started, SettledLate, OverBudget, Running, ClosedOverBudget, ClosedSince,
      WithinBudget, storeVars

(* One query: the bound on the replies so far passes to the next one.      *)
LEMMA QueryKeepsIInv ==
  ASSUME WindowIInv, NEW t \in Term, NEW next \in {"over", "open", "set_in"}, QueryTerm(t, next),
         <<t, next>> \in {<<"in", "over">>, <<"over", "open">>, <<"open", "set_in">>}
  PROVE  WindowIInv'
<1>1. UNCHANGED storeVars /\ UNCHANGED <<wtype, wnow, windowGauge, windowFresh>>
  BY DEF QueryTerm
<1>2. wpc = t /\ wpc' = next
  BY DEF QueryTerm
<1>3. WindowTypeOK' /\ Answered'
  BY <1>2, QueryTypeOK DEF WindowIInv, Answered
<1>4. /\ wtype \in WorkflowTypes
      /\ reply \in [Term -> Nat \cup {Failed}]
      /\ \A u \in Term : reply[u] \in Int
  BY DEF WindowIInv, WindowTypeOK, WindowLoopTypeOK, Failed
<1>5. reply' = [reply EXCEPT ![t] = Cardinality(TermSet(t, wtype))]
        \/ reply' = [reply EXCEPT ![t] = Failed]
  BY DEF QueryTerm
<1>6. WindowInstantsPast'
  BY <1>1 DEF WindowIInv, WindowInstantsPast, At, storeVars
<1>7. /\ UNCHANGED ClosedWithin(wtype)
      /\ UNCHANGED Closed(wtype)
      /\ UNCHANGED Started(wtype)
      /\ UNCHANGED LateClosed(wtype, wnow)
      /\ UNCHANGED OverBudget(wtype, 1, wnow)
  BY <1>1
  DEF storeVars, ClosedWithin, WithinBudget, Closed, Started, LateClosed, ClosedOverBudget,
      ClosedSince, OverBudget, Running
<1>8. /\ Cardinality(ClosedWithin(wtype)) \in Nat
      /\ Cardinality(Closed(wtype)) \in Nat
      /\ Cardinality(Started(wtype)) \in Nat
      /\ Cardinality(ClosedWithin(wtype)) <= Cardinality(Closed(wtype))
      /\ Cardinality(Closed(wtype)) <= Cardinality(Started(wtype))
  BY <1>4, SetsOfExecs, SubsetCount
<1>9. RepliesCountOnce'
  <2>1. CASE t = "in"
    <3>1. reply'["in"] <= Cardinality(ClosedWithin(wtype))
      <4>1. Cardinality(TermSet("in", wtype)) <= Cardinality(ClosedWithin(wtype))
        BY <1>4, SetsOfExecs, SubsetCount DEF TermSet
      <4>2. QED
        BY <1>4, <1>5, <1>8, <2>1, <4>1 DEF Failed
    <3>2. QED
      BY <1>1, <1>2, <1>7, <2>1, <3>1 DEF RepliesCountOnce
  <2>2. CASE t = "over"
    <3>1. Cardinality(ClosedWithin(wtype)) + Cardinality(TermSet("over", wtype)) <= Cardinality(Closed(wtype))
      <4>1. TermSet("over", wtype) \subseteq Closed(wtype) \ ClosedWithin(wtype)
        BY <1>4, SetsOfExecs DEF TermSet
      <4>2. Closed(wtype) \subseteq Execs
        BY <1>4, SetsOfExecs
      <4>3. QED
        BY <1>4, <4>1, <4>2, SetsOfExecs, DisjointCount
    <3>2. reply["in"] <= Cardinality(ClosedWithin(wtype))
      BY <1>2, <2>2 DEF WindowIInv, RepliesCountOnce
    <3>3. Cardinality(TermSet("over", wtype)) \in Nat
      BY <1>4, TermSetFinite DEF Term
    <3>4. reply'["in"] + reply'["over"] <= Cardinality(Closed(wtype))
      BY <1>4, <1>5, <1>8, <2>2, <3>1, <3>2, <3>3 DEF Failed, Term
    <3>5. QED
      BY <1>1, <1>2, <1>7, <2>2, <3>4 DEF RepliesCountOnce
  <2>3. CASE t = "open"
    <3>1. Cardinality(Closed(wtype)) + Cardinality(TermSet("open", wtype)) <= Cardinality(Started(wtype))
      <4>1. TermSet("open", wtype) \subseteq Started(wtype) \ Closed(wtype)
        BY <1>4, SetsOfExecs DEF TermSet
      <4>2. Started(wtype) \subseteq Execs /\ Closed(wtype) \subseteq Started(wtype)
        BY <1>4, SetsOfExecs
      <4>3. QED
        BY <4>1, <4>2, DisjointCount
    <3>2. reply["in"] + reply["over"] <= Cardinality(Closed(wtype))
      BY <1>2, <2>3 DEF WindowIInv, RepliesCountOnce
    <3>3. Cardinality(TermSet("open", wtype)) \in Nat
      BY <1>4, TermSetFinite DEF Term
    <3>4. reply'["in"] + reply'["over"] + reply'["open"] <= Cardinality(Started(wtype))
      BY <1>4, <1>5, <1>8, <2>3, <3>1, <3>2, <3>3 DEF Failed, Term
    <3>5. QED
      BY <1>1, <1>2, <1>7, <2>3, <3>4 DEF RepliesCountOnce
  <2>4. QED
    BY <2>1, <2>2, <2>3 DEF Term
<1>10. RepliesCoverLate'
  <2>1. CASE t = "in"
    BY <1>2, <2>1 DEF RepliesCoverLate
  <2>2. CASE t = "over"
    <3>1. Cardinality(LateClosed(wtype, wnow)) <= Cardinality(TermSet("over", wtype))
      <4>1. LateClosed(wtype, wnow) \subseteq TermSet("over", wtype)
        BY <1>4, SetsOfExecs DEF TermSet
      <4>2. QED
        BY <1>4, <4>1, TermSetFinite, SubsetCount DEF Term
    <3>2. QED
      BY <1>1, <1>2, <1>4, <1>5, <1>7, <2>2, <3>1 DEF RepliesCoverLate, Term, Failed
  <2>3. CASE t = "open"
    <3>1. TermSet("open", wtype) = OverBudget(wtype, 1, wnow)
      BY DEF TermSet
    <3>2. reply'["over"] = reply["over"]
      BY <1>4, <1>5, <2>3 DEF Term
    <3>3. reply'["open"] # Failed => reply'["open"] = Cardinality(OverBudget(wtype, 1, wnow))
      BY <1>4, <1>5, <2>3, <3>1 DEF Term
    <3>4. Cardinality(OverBudget(wtype, 1, wnow)) \in Nat
      BY <1>4, <3>1, TermSetFinite DEF Term
    <3>5. QED
      BY <1>1, <1>2, <1>7, <2>3, <3>2, <3>3, <3>4 DEF WindowIInv, RepliesCoverLate
  <2>4. QED
    BY <2>1, <2>2, <2>3 DEF Term
<1>11. PartlyPublished'
  BY <1>2 DEF PartlyPublished
<1>12. TermsOfOnePoll' /\ NoDoubleCount' /\ LateAlwaysCounted'
  BY <1>1, <1>2, GaugesKept DEF Term
<1>13. QED
  BY <1>3, <1>6, <1>9, <1>10, <1>11, <1>12 DEF WindowIInv

(* A poll with a failed query leaves all three gauges (monitor.go 231).    *)
LEMMA SkipKeepsIInv ==
  ASSUME WindowIInv, SkipPublish
  PROVE  WindowIInv'
<1>1. UNCHANGED <<storeVars, wnow, reply, windowGauge, windowFresh>>
  BY DEF SkipPublish
<1>2. wpc = "set_in" /\ wpc' \in {"in", "idle"}
  BY DEF SkipPublish, NextWindowType
<1>3. WindowTypeOK' /\ Answered'
  BY TypeInductive DEF WindowIInv, WindowNext, WindowStep
<1>4. WindowInstantsPast'
  BY <1>1 DEF WindowIInv, WindowInstantsPast, At, storeVars
<1>5. RepliesCountOnce' /\ RepliesCoverLate' /\ PartlyPublished'
  BY <1>2 DEF RepliesCountOnce, RepliesCoverLate, PartlyPublished
<1>6. TermsOfOnePoll' /\ NoDoubleCount' /\ LateAlwaysCounted'
  BY <1>1, <1>2, GaugesKept
<1>7. QED
  BY <1>3, <1>4, <1>5, <1>6 DEF WindowIInv

(* The first two assignments of a publication: the type is being published *)
(* from now on, so nothing is said of its gauges until the third.          *)
LEMMA SetKeepsIInv ==
  ASSUME WindowIInv, SetIn \/ SetOver
  PROVE  WindowIInv'
<1>1. UNCHANGED <<storeVars, wtype, wnow, reply, windowFresh>>
  BY DEF SetIn, SetOver
<1>2. WindowTypeOK' /\ Answered'
  BY TypeInductive DEF WindowIInv, WindowNext, WindowStep
<1>3. /\ wtype \in WorkflowTypes
      /\ windowGauge \in [WorkflowTypes -> [Term -> [n : Nat, at : 0..MaxClock \cup {NoSeries}]]]
      /\ \A u \in Term : reply[u] \in Int
  BY DEF WindowIInv, WindowTypeOK, WindowLoopTypeOK, Failed
<1>4. PICK t \in {"in", "over"} :
        /\ wpc = (IF t = "in" THEN "set_in" ELSE "set_over")
        /\ wpc' = (IF t = "in" THEN "set_over" ELSE "set_open")
        /\ SetTerm(t)
  BY DEF SetIn, SetOver
<1>5. windowGauge'[wtype][t] = [n |-> reply[t], at |-> wnow]
  BY <1>3, <1>4 DEF SetTerm, Term
<1>6. \A i \in WorkflowTypes, u \in Term :
        i # wtype \/ u # t => windowGauge'[i][u] = windowGauge[i][u]
  BY <1>3, <1>4 DEF SetTerm
<1>7. WindowInstantsPast'
  BY <1>1, <1>4, <1>5, <1>6 DEF WindowIInv, WindowInstantsPast, At, storeVars
<1>8. /\ UNCHANGED Started(wtype)
      /\ UNCHANGED LateClosed(wtype, wnow)
      /\ UNCHANGED OverBudget(wtype, 1, wnow)
  BY <1>1
  DEF storeVars, WithinBudget, Started, LateClosed, ClosedOverBudget, ClosedSince, OverBudget,
      Running
<1>9. RepliesCountOnce' /\ RepliesCoverLate'
  BY <1>1, <1>4, <1>8 DEF WindowIInv, RepliesCountOnce, RepliesCoverLate
<1>10. PartlyPublished'
  BY <1>1, <1>3, <1>4, <1>5, <1>6 DEF WindowIInv, PartlyPublished, Term
<1>11. \A i \in WorkflowTypes : ~Publishing(i)' =>
         /\ i # wtype
         /\ ~Publishing(i)
         /\ \A u \in Term : windowGauge'[i][u] = windowGauge[i][u]
  BY <1>1, <1>4, <1>6 DEF Publishing
<1>12. TermsOfOnePoll'
  BY <1>1, <1>11 DEF WindowIInv, TermsOfOnePoll, Published, At
<1>13. NoDoubleCount'
  BY <1>1, <1>11 DEF WindowIInv, NoDoubleCount, Gauge, Started, storeVars, Term
<1>14. LateAlwaysCounted'
  BY <1>1, <1>11
  DEF WindowIInv, LateAlwaysCounted, LateCounted, Gauge, At, SettledLate, OverBudget, Running,
      ClosedOverBudget, ClosedSince, WithinBudget, storeVars, Term
<1>15. QED
  BY <1>2, <1>7, <1>9, <1>10, <1>12, <1>13, <1>14 DEF WindowIInv

(* The last assignment completes the publication: here the properties of   *)
(* the replies become properties of the gauges.                            *)
LEMMA SetOpenKeepsIInv ==
  ASSUME WindowIInv, SetOpen
  PROVE  WindowIInv'
<1>1. UNCHANGED <<storeVars, wnow, reply>>
  BY DEF SetOpen
<1>2. WindowTypeOK' /\ Answered'
  BY TypeInductive DEF WindowIInv, WindowNext, WindowStep
<1>3. /\ wtype \in WorkflowTypes
      /\ windowGauge \in [WorkflowTypes -> [Term -> [n : Nat, at : 0..MaxClock \cup {NoSeries}]]]
      /\ windowFresh \in [WorkflowTypes -> 0..MaxClock \cup {NoSeries}]
      /\ \A u \in Term : reply[u] \in Nat
      /\ wnow \in Nat /\ clock \in Nat /\ wnow <= clock
  BY VisibilityAssumption
  DEF WindowIInv, WindowTypeOK, WindowLoopTypeOK, VisibilityTypeOK, VisibilityAssumption, WindowInstantsPast,
      Answered, AllOK, SetOpen
<1>4. wpc = "set_open" /\ wpc' \in {"in", "idle"}
  BY DEF SetOpen, NextWindowType
<1>5. \A u \in Term : windowGauge'[wtype][u] = [n |-> reply[u], at |-> wnow]
  BY <1>3, <1>4 DEF WindowIInv, PartlyPublished, SetOpen, SetTerm, Term
<1>6. \A i \in WorkflowTypes \ {wtype} : windowGauge'[i] = windowGauge[i]
  BY <1>3 DEF SetOpen, SetTerm
<1>7. /\ windowFresh'[wtype] = clock
      /\ \A i \in WorkflowTypes \ {wtype} : windowFresh'[i] = windowFresh[i]
  BY <1>3 DEF SetOpen
<1>8. WindowInstantsPast'
  <2>1. clock' = clock
    BY <1>1 DEF storeVars
  <2>2. ASSUME NEW t \in Term PROVE windowGauge'[wtype][t].at <= clock
    <3>1. windowGauge'[wtype][t].at = wnow
      <4>1. windowGauge'[wtype][t] = [n |-> reply[t], at |-> wnow]
        BY <1>5
      <4>2. QED
        BY <4>1
    <3>2. QED
      BY <1>3, <3>1
  <2>3. \A i \in WorkflowTypes \ {wtype}, t \in Term : windowGauge'[i][t].at <= clock
    BY <1>6 DEF WindowIInv, WindowInstantsPast, At
  <2>4. QED
    BY <1>1, <1>3, <2>1, <2>2, <2>3 DEF WindowInstantsPast, At
<1>9. RepliesCountOnce' /\ RepliesCoverLate' /\ PartlyPublished'
  BY <1>4 DEF RepliesCountOnce, RepliesCoverLate, PartlyPublished
<1>10. \A i \in WorkflowTypes \ {wtype} : ~Publishing(i)
  BY DEF Publishing
<1>11. TermsOfOnePoll'
  BY <1>3, <1>5, <1>6, <1>7, <1>10
  DEF WindowIInv, TermsOfOnePoll, Published, At, Term, NoSeries
<1>12. NoDoubleCount'
  <2> SUFFICES ASSUME NEW i \in WorkflowTypes
               PROVE  (Gauge(i, "in") + Gauge(i, "over") + Gauge(i, "open") <= Cardinality(Started(i)))'
    BY DEF NoDoubleCount
  <2>1. UNCHANGED Started(i)
    BY <1>1 DEF Started, storeVars
  <2>2. CASE i = wtype
    BY <1>4, <1>5, <2>1, <2>2 DEF WindowIInv, RepliesCountOnce, Gauge, Term
  <2>3. CASE i # wtype
    BY <1>6, <1>10, <2>1, <2>3 DEF WindowIInv, NoDoubleCount, Gauge
  <2>4. QED
    BY <2>2, <2>3
<1>13. LateAlwaysCounted'
  <2> SUFFICES ASSUME NEW i \in WorkflowTypes, NEW now \in 0..MaxClock, At(i, "open")' = now
               PROVE  Cardinality(SettledLate(i, now))' <= (Gauge(i, "over") + Gauge(i, "open"))'
    BY DEF LateAlwaysCounted, LateCounted
  <2>1. SettledLate(i, now)' = SettledLate(i, now)
    BY <1>1
    DEF SettledLate, OverBudget, Running, ClosedOverBudget, ClosedSince, WithinBudget, storeVars
  <2>2. CASE i = wtype
    <3>1. now = wnow
      BY <1>5, <2>2 DEF At, Term
    <3>2. Cardinality(SettledLate(wtype, wnow)) <=
            Cardinality(OverBudget(wtype, 1, wnow)) + Cardinality(LateClosed(wtype, wnow))
      <4>1. OverBudget(wtype, 1, wnow) \subseteq Execs /\ LateClosed(wtype, wnow) \subseteq Execs
        BY DEF OverBudget, Running, LateClosed, ClosedOverBudget, ClosedSince
      <4>2. SettledLate(wtype, wnow) = OverBudget(wtype, 1, wnow) \cup LateClosed(wtype, wnow)
        BY DEF SettledLate, LateClosed
      <4>3. QED
        BY <4>1, <4>2, UnionCount
    <3>3. /\ Cardinality(LateClosed(wtype, wnow)) <= reply["over"]
          /\ Cardinality(OverBudget(wtype, 1, wnow)) <= reply["open"]
      BY <1>3, <1>4 DEF WindowIInv, RepliesCoverLate, Failed, Term
    <3>4. /\ Cardinality(LateClosed(wtype, wnow)) \in Nat
          /\ Cardinality(OverBudget(wtype, 1, wnow)) \in Nat
          /\ Cardinality(SettledLate(wtype, wnow)) \in Nat
      <4>1. /\ OverBudget(wtype, 1, wnow) \subseteq Execs
            /\ LateClosed(wtype, wnow) \subseteq Execs
            /\ SettledLate(wtype, wnow) \subseteq Execs
        BY DEF OverBudget, Running, LateClosed, SettledLate, ClosedOverBudget, ClosedSince
      <4>2. QED
        BY <4>1, SubsetCount
    <3>5. QED
      BY <1>3, <1>5, <2>1, <2>2, <3>1, <3>2, <3>3, <3>4 DEF Gauge, Term
  <2>3. CASE i # wtype
    BY <1>6, <1>10, <2>1, <2>3 DEF WindowIInv, LateAlwaysCounted, LateCounted, Gauge, At
  <2>4. QED
    BY <2>2, <2>3
<1>14. QED
  BY <1>2, <1>8, <1>9, <1>11, <1>12, <1>13 DEF WindowIInv

-----------------------------------------------------------------------------
(* Nothing has been asked and nothing published.                           *)
LEMMA WindowInitIInv == WindowPollInit => WindowIInv
<1> SUFFICES ASSUME WindowPollInit PROVE WindowIInv
  OBVIOUS
<1>1. WindowTypeOK
  BY InitTypeOK
<1>2. wpc = "idle" /\ wnow = 0 /\ clock = 0
  BY DEF WindowPollInit, VisibilityInit, WindowInit
<1>3. \A i \in WorkflowTypes, t \in Term : windowGauge[i][t] = [n |-> 0, at |-> NoSeries]
  BY DEF WindowPollInit, WindowInit
<1>4. \A i \in WorkflowTypes : windowFresh[i] = NoSeries
  BY DEF WindowPollInit, WindowInit
<1>5. \A i \in WorkflowTypes : Cardinality(Started(i)) \in Nat
  BY SubsetCount DEF Started
<1>6. NoDoubleCount
  BY <1>3, <1>5 DEF NoDoubleCount, Gauge, Term
<1>7. LateAlwaysCounted
  BY <1>3 DEF LateAlwaysCounted, LateCounted, At, Term, NoSeries
<1>8. TermsOfOnePoll
  BY <1>3, <1>4 DEF TermsOfOnePoll, Published, At, NoSeries
<1>9. WindowInstantsPast
  BY <1>2, <1>3 DEF WindowInstantsPast, At, NoSeries
<1>10. QED
  BY <1>1, <1>2, <1>6, <1>7, <1>8, <1>9
  DEF WindowIInv, Answered, RepliesCountOnce, RepliesCoverLate, PartlyPublished

(* The invariant, step by step of WindowNext.                                    *)
THEOREM WindowPollInvariant == WindowSpec => []WindowIInv
<1>1. WindowIInv /\ [WindowNext]_windowPollVars => WindowIInv'
  <2> SUFFICES ASSUME WindowIInv, [WindowNext]_windowPollVars PROVE WindowIInv'
    OBVIOUS
  <2>1. CASE WindowEnvironment \/ UNCHANGED windowPollVars
    BY <2>1, EnvironmentKeepsIInv
  <2>2. CASE BeginWindowPoll
    BY <2>2, BeginKeepsIInv
  <2>3. CASE QueryIn
    BY <2>3, QueryKeepsIInv DEF QueryIn, Term
  <2>4. CASE QueryOver
    BY <2>4, QueryKeepsIInv DEF QueryOver, Term
  <2>5. CASE QueryOpen
    BY <2>5, QueryKeepsIInv DEF QueryOpen, Term
  <2>6. CASE SkipPublish
    BY <2>6, SkipKeepsIInv
  <2>7. CASE SetIn \/ SetOver
    BY <2>7, SetKeepsIInv
  <2>8. CASE SetOpen
    BY <2>8, SetOpenKeepsIInv
  <2>9. QED
    BY <2>1, <2>2, <2>3, <2>4, <2>5, <2>6, <2>7, <2>8 DEF WindowNext, WindowStep
<1>2. QED
  BY <1>1, WindowInitIInv, PTL DEF WindowSpec

(* Whatever the executions do between the queries, the three terms of a    *)
(* complete publication count no execution twice (monitor.go 227-238).     *)
THEOREM WindowPollNoDoubleCount == WindowSpec => []NoDoubleCount
BY WindowPollInvariant, PTL DEF WindowIInv

(* Outside a publication the terms of a type are of one poll, vouched for  *)
(* by its freshness stamp (monitor.go 231-239).                            *)
THEOREM WindowPollTermsOfOnePoll == WindowSpec => []TermsOfOnePoll
BY WindowPollInvariant, PTL DEF WindowIInv

(* An execution that is past its budget is in the published denominator    *)
(* unless it closed during the poll itself (monitor.go 221-239).           *)
THEOREM WindowPollLateCounted == WindowSpec => []LateExecutionsCounted
<1>1. WindowIInv => LateExecutionsCounted
  <2> SUFFICES ASSUME WindowIInv, NEW i \in WorkflowTypes, ~Publishing(i), Published(i)
               PROVE  Cardinality(SettledLate(i, At(i, "open"))) <= Gauge(i, "over") + Gauge(i, "open")
    BY DEF LateExecutionsCounted
  <2>1. At(i, "open") \in 0..MaxClock
    BY DEF WindowIInv, WindowTypeOK, WindowLoopTypeOK, At, Published, Term
  <2>2. QED
    BY <2>1 DEF WindowIInv, LateAlwaysCounted, LateCounted
<1>2. QED
  BY <1>1, WindowPollInvariant, PTL

-----------------------------------------------------------------------------
(* The alerts on the budget.                                               *)

(* closed_in_budget was true when it was counted, and stays true: what has *)
(* closed in its budget inside the window of an instant stays in the       *)
(* answer for that instant.                                                *)
InCovered ==
  /\ wpc \notin {"idle", "in"} /\ reply["in"] # Failed =>
       \A now \in {wnow} : reply["in"] <= Cardinality(ClosedInBudget(wtype, now))
  /\ \A i \in WorkflowTypes, now \in 0..MaxClock : At(i, "in") = now =>
       Gauge(i, "in") <= Cardinality(ClosedInBudget(i, now))

(* No step of the store takes an execution out of an answer of             *)
(* closed_in_budget.                                                       *)
LEMMA InMonotone ==
  ASSUME WindowTypeOK, WindowTypeOK', StoreStep \/ UNCHANGED storeVars, NEW i, NEW now
  PROVE  /\ Cardinality(ClosedInBudget(i, now)) \in Nat
         /\ Cardinality(ClosedInBudget(i, now)') \in Nat
         /\ Cardinality(ClosedInBudget(i, now)) <= Cardinality(ClosedInBudget(i, now)')
<1>1. ClosedInBudget(i, now) \subseteq ClosedInBudget(i, now)'
  <2> USE VisibilityAssumption
      DEF WindowTypeOK, VisibilityTypeOK, ClosedInBudget, ClosedSince, WithinBudget, VisibilityAssumption
  <2>1. CASE Advance \/ UNCHANGED storeVars
    BY <2>1 DEF Advance, storeVars
  <2>2. CASE \E e \in Execs : StartExecution(e)
    BY <2>2 DEF StartExecution
  <2>3. CASE \E e \in Execs, s \in Outcomes : CloseExecution(e, s)
    BY <2>3 DEF CloseExecution
  <2> QED
    BY <2>1, <2>2, <2>3 DEF StoreStep
<1>2. ClosedInBudget(i, now)' \subseteq Execs
  BY DEF ClosedInBudget, ClosedSince
<1> QED
  BY <1>1, <1>2, SubsetCount

(* Only the first query counts it, and only the first assignment shows it. *)
LEMMA NextInCovered ==
  ASSUME WindowIInv, WindowIInv', InCovered, [WindowNext]_windowPollVars
  PROVE  InCovered'
<1>1. /\ WindowTypeOK /\ WindowTypeOK' /\ wtype \in WorkflowTypes
      /\ \A t \in Term : reply[t] \in Nat \cup {Failed}
      /\ \A i \in WorkflowTypes : Gauge(i, "in") \in Nat
      /\ windowGauge \in [WorkflowTypes -> [Term -> [n : Nat, at : 0..MaxClock \cup {NoSeries}]]]
      /\ reply \in [Term -> Nat \cup {Failed}]
  BY DEF WindowIInv, WindowTypeOK, WindowLoopTypeOK, Gauge, Term
<1>2. StoreStep \/ UNCHANGED storeVars
  BY DEF WindowNext, WindowEnvironment, BeginWindowPoll, WindowStep, QueryIn, QueryOver, QueryOpen, QueryTerm,
         SkipPublish, SetIn, SetOver, SetOpen, windowPollVars, visibilityVars
<1>3. \A i, now : /\ Cardinality(ClosedInBudget(i, now)) \in Nat
                  /\ Cardinality(ClosedInBudget(i, now)') \in Nat
                  /\ Cardinality(ClosedInBudget(i, now)) <= Cardinality(ClosedInBudget(i, now)')
  BY <1>1, <1>2, InMonotone
<1>4. ASSUME NEW i \in WorkflowTypes, NEW now \in 0..MaxClock,
             windowGauge'[i]["in"] = windowGauge[i]["in"], At(i, "in") = now
      PROVE  Gauge(i, "in")' <= Cardinality(ClosedInBudget(i, now)')
  BY <1>1, <1>3, <1>4 DEF InCovered, Gauge, At
<1>0. PICK k, at : k = wtype /\ at = wnow
  OBVIOUS
<1>5. ASSUME wpc \notin {"idle", "in"}, reply["in"] # Failed
      PROVE  reply["in"] <= Cardinality(ClosedInBudget(k, at)')
  <2>1. reply["in"] <= Cardinality(ClosedInBudget(k, at))
    BY <1>0, <1>5 DEF InCovered
  <2>2. reply["in"] \in Nat
    BY <1>1, <1>5 DEF Term
  <2> QED
    BY <1>3, <2>1, <2>2
<1>6. /\ \A i \in WorkflowTypes : At(i, "in")' = windowGauge'[i]["in"].at
      /\ \A i \in WorkflowTypes : At(i, "in") = windowGauge[i]["in"].at
  BY DEF At
<1>7. CASE QueryIn
  <2>1. /\ UNCHANGED <<wtype, wnow, windowGauge>> /\ UNCHANGED storeVars
        /\ \/ reply'["in"] = Cardinality(ClosedInBudget(k, at))
           \/ reply'["in"] = Failed
    BY <1>0, <1>1, <1>7 DEF QueryIn, QueryTerm, TermSet, Term
  <2>2. Cardinality(ClosedInBudget(k, at)) <= Cardinality(ClosedInBudget(k, at)')
    BY <1>3
  <2> QED
    BY <1>0, <1>4, <1>6, <2>1, <2>2 DEF InCovered
<1>8. CASE SetIn
  <2>1. /\ wpc = "set_in" /\ reply["in"] # Failed /\ UNCHANGED <<wtype, wnow, reply>>
        /\ windowGauge'[wtype]["in"] = [n |-> reply["in"], at |-> wnow]
        /\ \A i \in WorkflowTypes \ {wtype} : windowGauge'[i]["in"] = windowGauge[i]["in"]
    BY <1>1, <1>8 DEF SetIn, AllOK, SetTerm, Term
  <2>2. ASSUME NEW i \in WorkflowTypes, NEW now \in 0..MaxClock, At(i, "in")' = now
        PROVE  Gauge(i, "in")' <= Cardinality(ClosedInBudget(i, now)')
    <3>1. CASE i = wtype
      <4>1. now = wnow /\ Gauge(i, "in")' = reply["in"]
        BY <2>1, <2>2, <3>1 DEF At, Gauge
      <4> QED
        BY <1>0, <1>5, <2>1, <3>1, <4>1
    <3>2. CASE i # wtype
      BY <1>4, <1>6, <2>1, <2>2, <3>2
    <3> QED
      BY <3>1, <3>2
  <2> QED
    BY <1>0, <1>5, <2>1, <2>2 DEF InCovered
<1>9. CASE QueryOver \/ QueryOpen
  <2>1. /\ UNCHANGED <<wtype, wnow, windowGauge>> /\ reply'["in"] = reply["in"]
        /\ wpc \notin {"idle", "in"}
    BY <1>1, <1>9 DEF QueryOver, QueryOpen, QueryTerm, Term
  <2> QED
    BY <1>0, <1>4, <1>5, <1>6, <2>1 DEF InCovered
<1>10. CASE SetOver \/ SetOpen \/ SkipPublish
  <2>1. /\ \A i \in WorkflowTypes : windowGauge'[i]["in"] = windowGauge[i]["in"]
        /\ wpc' \in {"set_open", "idle", "in"} /\ wpc \notin {"idle", "in"}
        /\ wpc' = "set_open" => UNCHANGED <<wtype, wnow, reply>>
    BY <1>1, <1>10 DEF SetOver, SetOpen, SkipPublish, SetTerm, NextWindowType, Term
  <2> QED
    BY <1>0, <1>4, <1>5, <1>6, <2>1 DEF InCovered
<1>11. CASE BeginWindowPoll
  <2>1. wpc' = "in" /\ UNCHANGED windowGauge
    BY <1>11 DEF BeginWindowPoll
  <2> QED
    BY <1>4, <1>6, <2>1 DEF InCovered
<1>12. CASE WindowEnvironment \/ UNCHANGED windowPollVars
  <2>1. UNCHANGED windowVars
    BY <1>12 DEF WindowEnvironment, windowPollVars
  <2>2. UNCHANGED <<wpc, wtype, wnow, reply, windowGauge>>
    BY <2>1 DEF windowVars
  <2> QED
    BY <1>0, <1>4, <1>5, <1>6, <2>2 DEF InCovered
<1> QED
  BY <1>7, <1>8, <1>9, <1>10, <1>11, <1>12 DEF WindowNext, WindowStep

(* What the two alerts compare, with allowed the share of the executions   *)
(* that may be late: more in budget and fewer late can only look better.   *)
LEMMA BudgetOrder ==
  ASSUME NEW allowed \in 0..Whole, NEW late \in Nat, NEW good \in Nat,
         NEW shownLate \in Nat, NEW shownGood \in Nat, late <= shownLate, shownGood <= good
  PROVE  /\ 3 * (allowed * (late + good)) < 4 * (late * Whole) =>
              3 * (allowed * (shownLate + shownGood)) < 4 * (shownLate * Whole)
         /\ allowed * (late + good) <= late * Whole =>
              allowed * (shownLate + shownGood) <= shownLate * Whole
<1>1. PICK more \in Nat : shownLate = late + more
  <2>1. shownLate - late \in Nat /\ shownLate = late + (shownLate - late)
    OBVIOUS
  <2> QED
    BY <2>1
<1>2. PICK fewer \in Nat : good = shownGood + fewer
  <2>1. good - shownGood \in Nat /\ good = shownGood + (good - shownGood)
    OBVIOUS
  <2> QED
    BY <2>1
<1>3. /\ allowed * more \in Nat /\ allowed * fewer \in Nat /\ allowed * late \in Nat
      /\ allowed * shownGood \in Nat
  OBVIOUS
<1>4. allowed * more <= more * Whole
  <2>1. \A a \in Nat, b \in Nat, c \in Nat : a <= b => a * c <= c * b
    OBVIOUS
  <2> QED
    BY <2>1 DEF Whole
<1>5. /\ allowed * (late + good) = allowed * late + allowed * shownGood + allowed * fewer
      /\ allowed * (shownLate + shownGood) = allowed * late + allowed * more + allowed * shownGood
      /\ shownLate * Whole = late * Whole + more * Whole
  BY <1>1, <1>2 DEF Whole
<1>6. PICK ofLate \in Nat, ofGood \in Nat, ofMore \in Nat, ofFewer \in Nat :
        /\ ofLate = allowed * late /\ ofGood = allowed * shownGood
        /\ ofMore = allowed * more /\ ofFewer = allowed * fewer
  BY <1>3
<1>7. /\ allowed * (late + good) = ofLate + ofGood + ofFewer
      /\ allowed * (shownLate + shownGood) = ofLate + ofMore + ofGood
      /\ ofMore <= more * Whole
  BY <1>4, <1>5, <1>6
<1> QED
  BY <1>5, <1>7 DEF Whole

(* The budget alerts never flatter: a budget that was low or exhausted at  *)
(* the instant of the poll is shown as such at every scrape outside a      *)
(* publication (generate_visibility_rules.py 83-87, 175-178).              *)
THEOREM WindowRulesBudget == WindowSpec => []BudgetNotFlattered
<1>1. WindowPollInit => InCovered
  BY DEF WindowPollInit, WindowInit, InCovered, At, NoSeries, Term
<1>2. WindowIInv /\ InCovered => BudgetNotFlattered
  <2> SUFFICES ASSUME WindowIInv, InCovered, NEW i \in WorkflowTypes, ~Publishing(i), Published(i)
               PROVE  /\ BudgetLow(RemainingAt(i, At(i, "open"))) => BudgetLow(RemainingShown(i))
                      /\ BudgetExhausted(RemainingAt(i, At(i, "open"))) => BudgetExhausted(RemainingShown(i))
    BY DEF BudgetNotFlattered
  <2>1. PICK at \in 0..MaxClock : /\ \A t \in Term : At(i, t) = at
    BY DEF WindowIInv, TermsOfOnePoll, WindowTypeOK, WindowLoopTypeOK, At, Published, Term
  <2>2. PICK late, good : late = Cardinality(SettledLate(i, at)) /\ good = Cardinality(ClosedInBudget(i, at))
    OBVIOUS
  <2>3. late \in Nat /\ good \in Nat
    BY <2>2, SetsOfExecs, SubsetCount
  <2>4. PICK shownGood \in Nat, over \in Nat, open \in Nat :
          shownGood = Gauge(i, "in") /\ over = Gauge(i, "over") /\ open = Gauge(i, "open")
    BY DEF WindowIInv, WindowTypeOK, WindowLoopTypeOK, Gauge, Term
  <2>5. PICK shownLate \in Nat : shownLate = over + open
    OBVIOUS
  <2>6. late <= shownLate /\ shownGood <= good
    BY <2>1, <2>2, <2>4, <2>5 DEF WindowIInv, LateAlwaysCounted, LateCounted, InCovered, Term
  <2>7. PICK allowed \in 1..Whole : allowed = Whole - ObjectiveRatio
    BY VisibilityRulesAssumption DEF Whole
  <2>8. PICK all \in Nat : all = IF shownGood + shownLate < 1 THEN 1 ELSE shownGood + shownLate
    OBVIOUS
  <2>9. RemainingAt(i, at) = <<allowed * (late + good) - late * Whole, allowed * (late + good)>>
    BY <2>2, <2>7 DEF RemainingAt
  <2>10. RemainingShown(i) = <<all * allowed - (all - shownGood) * Whole, all * allowed>>
    <3>1. /\ ShownGauge(i, "in") = shownGood /\ ShownGauge(i, "over") = over
          /\ ShownGauge(i, "open") = open
      BY <2>1, <2>4 DEF ShownGauge, NoSeries, Term
    <3>2. Compliance(shownGood, over, open) = <<shownGood, all>>
      BY <2>5, <2>8 DEF Compliance, Plus, ClampMin, Divide, Absent
    <3>3. ClampMin(Whole - ObjectiveRatio, 1) = allowed
      BY <2>7 DEF ClampMin, Absent
    <3> QED
      BY <3>1, <3>2, <3>3 DEF RemainingShown, BudgetRemaining
  <2>11. /\ 3 * (allowed * (late + good)) < 4 * (late * Whole) =>
              3 * (allowed * (shownLate + shownGood)) < 4 * (shownLate * Whole)
         /\ allowed * (late + good) <= late * Whole =>
              allowed * (shownLate + shownGood) <= shownLate * Whole
    <3>1. allowed \in 0..Whole
      BY <2>7 DEF Whole
    <3> QED
      BY <2>3, <2>6, <3>1, BudgetOrder
  <2>12. At(i, "open") = at
    BY <2>1 DEF Term
  <2>13. CASE shownGood + shownLate < 1
    <3>1. all = 1 /\ shownGood = 0
      BY <2>8, <2>13
    <3>2. RemainingShown(i) = <<allowed - Whole, allowed>>
      BY <2>10, <3>1 DEF Whole
    <3>3. allowed <= Whole /\ allowed # 0 /\ allowed < Whole
      BY <2>7, VisibilityRulesAssumption DEF Whole
    <3> QED
      BY <2>7, <3>2, <3>3 DEF BudgetLow, BudgetExhausted, Shown, Whole
  <2>14. CASE ~(shownGood + shownLate < 1)
    <3>1. all = shownLate + shownGood /\ all - shownGood = shownLate /\ all > 0
      BY <2>8, <2>14
    <3>2. RemainingShown(i)
            = <<allowed * (shownLate + shownGood) - shownLate * Whole, allowed * (shownLate + shownGood)>>
      BY <2>10, <3>1
    <3>3. /\ allowed * (shownLate + shownGood) \in Nat \ {0}
          /\ allowed * (late + good) \in Nat
          /\ shownLate * Whole \in Nat /\ late * Whole \in Nat
      BY <2>3, <3>1 DEF Whole
    <3>4. ASSUME NEW share \in Nat, NEW spent \in Nat
          PROVE  /\ BudgetLow(<<share - spent, share>>) <=> share # 0 /\ 3 * share < 4 * spent
                 /\ BudgetExhausted(<<share - spent, share>>) <=> share # 0 /\ share <= spent
      BY DEF BudgetLow, BudgetExhausted, Shown
    <3>5. PICK share \in Nat, spent \in Nat, shownShare \in Nat \ {0}, shownSpent \in Nat :
            /\ share = allowed * (late + good) /\ spent = late * Whole
            /\ shownShare = allowed * (shownLate + shownGood) /\ shownSpent = shownLate * Whole
      BY <3>3
    <3>6. /\ 3 * share < 4 * spent => 3 * shownShare < 4 * shownSpent
          /\ share <= spent => shownShare <= shownSpent
      BY <2>11, <3>5
    <3>7. /\ RemainingAt(i, at) = <<share - spent, share>>
          /\ RemainingShown(i) = <<shownShare - shownSpent, shownShare>>
      BY <2>9, <3>2, <3>5
    <3> QED
      BY <2>12, <3>4, <3>6, <3>7
  <2> QED
    BY <2>13, <2>14
<1>3. WindowIInv /\ WindowIInv' /\ InCovered /\ [WindowNext]_windowPollVars => InCovered'
  BY NextInCovered
<1> QED
  BY <1>1, <1>2, <1>3, WindowPollInvariant, PTL DEF WindowSpec

-----------------------------------------------------------------------------
(* A cutoff never lies after the instant it was computed for, and a later  *)
(* one gives no earlier cutoff, although both are truncated to a second.   *)
LEMMA TruncateMonotone ==
  ASSUME NEW a \in Int, NEW b \in Int, a <= b
  PROVE  Truncate(a) \in Int /\ Truncate(a) <= a /\ Truncate(a) <= Truncate(b)
<1>1. Second \in Nat /\ Second > 0
  BY VisibilityAssumption
<1> DEFINE p == a \div Second
           q == b \div Second
<1>2. p \in Int /\ a % Second \in 0..(Second - 1) /\ a = Second * p + (a % Second)
  BY <1>1
<1>3. q \in Int /\ b % Second \in 0..(Second - 1) /\ b = Second * q + (b % Second)
  BY <1>1
<1>4. Truncate(a) = Second * p /\ Truncate(b) = Second * q
  BY <1>1, <1>2, <1>3 DEF Truncate
<1> HIDE DEF p, q
<1>5. Second * p < Second * (q + 1)
  BY <1>1, <1>2, <1>3
<1>6. p <= q
  BY <1>1, <1>2, <1>3, <1>5
<1>7. Second * p <= Second * q
  BY <1>1, <1>2, <1>3, <1>6
<1> QED
  BY <1>1, <1>2, <1>4, <1>7

(* So it is with the cutoffs of one rung at two polls.                     *)
LEMMA CutoffMonotone ==
  ASSUME NEW i \in WorkflowTypes, NEW m \in Nat, NEW s \in Int, NEW t \in Int, s <= t
  PROVE  Cutoff(i, m, s) \in Int /\ Cutoff(i, m, s) <= s /\ Cutoff(i, m, s) <= Cutoff(i, m, t)
<1>1. m * Budget[i] \in Nat
  BY VisibilityAssumption
<1> DEFINE late == m * Budget[i]
<1> HIDE DEF late
<1>2. late \in Nat /\ Cutoff(i, m, s) = Truncate(s - late) /\ Cutoff(i, m, t) = Truncate(t - late)
  BY <1>1 DEF late, Cutoff
<1>3. s - late \in Int /\ t - late \in Int /\ s - late <= t - late /\ s - late <= s
  BY <1>2
<1> QED
  BY <1>2, <1>3, TruncateMonotone

(* The executions of a query can be counted.                               *)
LEMMA Counted ==
  ASSUME NEW S, S \subseteq Execs
  PROVE  IsFiniteSet(S) /\ Cardinality(S) \in Nat
BY VisibilityAssumption, FS_Subset, FS_CardinalityType

(* A smaller set of executions counts less.                                *)
LEMMA CountMonotone ==
  ASSUME NEW S, NEW T, S \subseteq T, T \subseteq Execs
  PROVE  Cardinality(S) <= Cardinality(T)
BY Counted, FS_Subset

-----------------------------------------------------------------------------
(* The inductive invariant.                                                *)

(* The poll's now has passed, and no gauge and no stamp is of a later one. *)
FastInstantsPast ==
  /\ fnow <= clock
  /\ \A i \in WorkflowTypes :
       /\ runningGauge[i].at <= fnow
       /\ \A j \in 1..NumBuckets : ladder[i][j].at <= fnow
       /\ \A j \in 1..Causes : stuckGauge[i][j].at <= fnow
       /\ \A k \in Kind : fresh[i][k].poll <= fnow

(* While no query of an inner loop has failed, the gauges it has passed    *)
(* are of this poll: what the stamp is about to vouch for.                 *)
Swept ==
  allOK =>
    /\ fpc = "bucket" => \A j \in 1..(idx - 1) : ladder[ftype][j].at = fnow
    /\ fpc = "stuck" => \A j \in 1..(idx - 1) : stuckGauge[ftype][j].at = fnow

(* Nothing is said of stuck detection before the probe has settled it, and *)
(* stuck queries are made only once it has found the attribute.            *)
ProbeInv ==
  /\ probePending \/ fpc = "start" => detection = NoSeries
  /\ probePending => ~fallback
  /\ fpc = "probe" => probePending
  /\ stuckAvailable => detection = 1
  /\ fpc = "stuck" => stuckAvailable

FastIInv ==
  /\ FastTypeOK
  /\ FastInstantsPast /\ Swept /\ ProbeInv
  /\ LadderBracketed /\ FreshnessHonest /\ DetectionHonest

-----------------------------------------------------------------------------
(* What the steps do, without the turns of the inner loops.                *)

(* A query for a rung: on success it sets that rung and no other.          *)
LEMMA BucketEffect ==
  ASSUME FastTypeOK, QueryBucket
  PROVE  \E ok \in BOOLEAN :
    /\ \A i \in WorkflowTypes, j \in 1..NumBuckets :
         ladder'[i][j] = IF ok /\ i = ftype /\ j = idx
                         THEN [n |-> Cardinality(OverBudget(ftype, Buckets[idx], fnow)), at |-> fnow]
                         ELSE ladder[i][j]
    /\ EndQuery(ok, NumBuckets, "over_budget", AfterLadder)
<1>1. ftype \in WorkflowTypes /\ idx \in 1..NumBuckets
  BY DEF QueryBucket, FastTypeOK, LoopTypeOK
<1>2. ladder \in [WorkflowTypes -> [1..NumBuckets -> GaugeValue]]
  BY DEF FastTypeOK, GaugeTypeOK
<1>3. CASE /\ ladder' = [ladder EXCEPT ![ftype][idx] =
                [n |-> Cardinality(OverBudget(ftype, Buckets[idx], fnow)), at |-> fnow]]
           /\ EndQuery(TRUE, NumBuckets, "over_budget", AfterLadder)
  BY <1>1, <1>2, <1>3
<1>4. CASE UNCHANGED ladder /\ EndQuery(FALSE, NumBuckets, "over_budget", AfterLadder)
  BY <1>4
<1> QED
  BY <1>3, <1>4 DEF QueryBucket

(* A query for a cause: on success it sets that cause and no other.        *)
LEMMA StuckEffect ==
  ASSUME FastTypeOK, QueryStuck
  PROVE  \E ok \in BOOLEAN :
    /\ \E n \in Nat : \A i \in WorkflowTypes, j \in 1..Causes :
         stuckGauge'[i][j] = IF ok /\ i = ftype /\ j = idx
                             THEN [n |-> n, at |-> fnow] ELSE stuckGauge[i][j]
    /\ EndQuery(ok, Causes, "stuck", NextFastType)
<1>1. ftype \in WorkflowTypes /\ idx \in 1..Causes
  BY DEF QueryStuck, FastTypeOK, LoopTypeOK
<1>2. stuckGauge \in [WorkflowTypes -> [1..Causes -> GaugeValue]]
  BY DEF FastTypeOK, GaugeTypeOK
<1>3. ASSUME NEW n \in 0..Cardinality(Running(ftype)),
             stuckGauge' = [stuckGauge EXCEPT ![ftype][idx] = [n |-> n, at |-> fnow]],
             EndQuery(TRUE, Causes, "stuck", NextFastType)
      PROVE  \E ok \in BOOLEAN :
        /\ \E m \in Nat : \A i \in WorkflowTypes, j \in 1..Causes :
             stuckGauge'[i][j] = IF ok /\ i = ftype /\ j = idx
                                 THEN [n |-> m, at |-> fnow] ELSE stuckGauge[i][j]
        /\ EndQuery(ok, Causes, "stuck", NextFastType)
  <2>1. n \in Nat
    BY Counted DEF Running
  <2>2. \A i \in WorkflowTypes, j \in 1..Causes :
          stuckGauge'[i][j] = IF TRUE /\ i = ftype /\ j = idx
                              THEN [n |-> n, at |-> fnow] ELSE stuckGauge[i][j]
    BY <1>1, <1>2, <1>3
  <2> QED
    BY <1>3, <2>1, <2>2
<1>4. CASE UNCHANGED stuckGauge /\ EndQuery(FALSE, Causes, "stuck", NextFastType)
  <2>1. \A i \in WorkflowTypes, j \in 1..Causes :
          stuckGauge'[i][j] = IF FALSE /\ i = ftype /\ j = idx
                              THEN [n |-> 0, at |-> fnow] ELSE stuckGauge[i][j]
    BY <1>4
  <2> QED
    BY <1>4, <2>1
<1> QED
  BY <1>3, <1>4 DEF QueryStuck

-----------------------------------------------------------------------------
(* The ladder has a rung.                                                  *)
LEMMA LadderLength == NumBuckets \in Nat \ {0}
BY FastPollAssumption DEF NumBuckets

(* Initially nothing is published.                                         *)
LEMMA FastInitIInv == FastPollInit => FastIInv
<1> SUFFICES ASSUME FastPollInit PROVE FastIInv
  OBVIOUS
<1> USE VisibilityAssumption, FastPollAssumption
    DEF FastPollInit, VisibilityInit, FastInit, Unset, NoSeries
<1>0. NumBuckets \in Nat
  BY LadderLength
<1>1. VisibilityTypeOK
  <2>1. clock \in 0..MaxClock /\ pollErrors \in 0..MaxErrors
    OBVIOUS
  <2>4. cancelled \in BOOLEAN
    OBVIOUS
  <2>2. status \in [Execs -> {"none", "running"} \cup Outcomes]
    OBVIOUS
  <2>3. startTime \in [Execs -> Nat] /\ closeTime \in [Execs -> Nat]
    OBVIOUS
  <2> QED
    BY <2>1, <2>2, <2>3, <2>4 DEF VisibilityTypeOK
<1>2. ProbeTypeOK
  <2>1. fallback \in BOOLEAN /\ supported \in BOOLEAN
    OBVIOUS
  <2>2. probePending \in BOOLEAN /\ stuckAvailable \in BOOLEAN
    OBVIOUS
  <2> QED
    BY <2>1, <2>2 DEF ProbeTypeOK
<1>3. LoopTypeOK
  BY DEF LoopTypeOK, WorkflowTypes
<1>4. GaugeTypeOK
  BY <1>0 DEF GaugeTypeOK, GaugeValue, Instant
<1>5. FastInstantsPast /\ Swept /\ ProbeInv
  BY DEF FastInstantsPast, Swept, ProbeInv
<1>6. LadderBracketed /\ FreshnessHonest /\ DetectionHonest
  BY DEF LadderBracketed, FreshnessHonest, DetectionHonest, Kind
<1> QED
  BY <1>1, <1>2, <1>3, <1>4, <1>5, <1>6 DEF FastIInv, FastTypeOK

(* What the store and the other poll loop do.                              *)
LEMMA EnvironmentType == ASSUME VisibilityTypeOK, FastEnvironment PROVE VisibilityTypeOK'
<1> USE VisibilityAssumption DEF VisibilityTypeOK
<1>1. CASE Advance /\ UNCHANGED callVars
  BY <1>1 DEF Advance, callVars
<1>2. ASSUME NEW e \in Execs, StartExecution(e), UNCHANGED callVars PROVE VisibilityTypeOK'
  BY <1>2 DEF StartExecution, callVars
<1>3. ASSUME NEW e \in Execs, NEW s \in Outcomes, CloseExecution(e, s), UNCHANGED callVars
      PROVE  VisibilityTypeOK'
  BY <1>3 DEF CloseExecution, callVars
<1>4. CASE Cancel /\ UNCHANGED storeVars
  BY <1>4 DEF Cancel, storeVars
<1>5. CASE OtherQueryFails /\ UNCHANGED storeVars
  BY <1>5 DEF OtherQueryFails, storeVars
<1> QED
  BY <1>1, <1>2, <1>3, <1>4, <1>5 DEF FastEnvironment, StoreStep

(* The probe.                                                              *)
LEMMA ProbeType == ASSUME ProbeTypeOK, probeStuckDetection PROVE ProbeTypeOK'
<1> USE FastPollAssumption DEF ProbeTypeOK, NoSeries
<1>1. UNCHANGED <<fallback, supported>>
  BY DEF probeStuckDetection
<1>2. CASE ProbeDisabled
  BY <1>1, <1>2 DEF ProbeDisabled
<1>3. CASE ProbeTransient
  <2>1. stuckAvailable' = FALSE /\ probePending' = TRUE /\ UNCHANGED detection
    BY <1>3 DEF ProbeTransient
  <2> QED
    BY <1>1, <2>1
<1>4. CASE ProbeSettled
  BY <1>1, <1>4 DEF ProbeSettled
<1> QED
  BY <1>2, <1>3, <1>4 DEF probeStuckDetection

(* A query leaves the store and the probe alone, and counts an error at    *)
(* most.                                                                   *)
LEMMA CallType ==
  ASSUME FastTypeOK, CountSucceeds \/ CountFails, UNCHANGED <<storeVars, probeVars>>
  PROVE  VisibilityTypeOK' /\ ProbeTypeOK'
<1>1. ProbeTypeOK'
  BY DEF FastTypeOK, ProbeTypeOK, probeVars
<1>2. pollErrors' \in 0..MaxErrors /\ UNCHANGED cancelled
  BY VisibilityAssumption DEF CountSucceeds, CountFails, callVars, FastTypeOK, VisibilityTypeOK
<1>3. VisibilityTypeOK'
  BY <1>2 DEF FastTypeOK, VisibilityTypeOK, storeVars
<1> QED
  BY <1>1, <1>3

(* A stamp is a well-formed one.                                           *)
LEMMA StampType ==
  ASSUME FastTypeOK, NEW k \in Kind, Stamp(k)
  PROVE  fresh' \in [WorkflowTypes -> [Kind -> [stamp : Instant, poll : Instant]]]
BY DEF Stamp, FastTypeOK, VisibilityTypeOK, LoopTypeOK, GaugeTypeOK, Instant

(* The next turn of the outer loop.                                        *)
LEMMA NextTypeType ==
  ASSUME FastTypeOK, NextFastType
  PROVE  ftype' \in WorkflowTypes /\ fpc' \in {"running", "idle"} /\ UNCHANGED <<idx, allOK>>
BY VisibilityAssumption DEF NextFastType, FastTypeOK, LoopTypeOK, WorkflowTypes

(* A query of the ladder keeps the types.                                  *)
LEMMA BucketType == ASSUME FastTypeOK, QueryBucket PROVE FastTypeOK'
<1>1. VisibilityTypeOK' /\ ProbeTypeOK'
  BY CallType DEF QueryBucket
<1>2. Cardinality(OverBudget(ftype, Buckets[idx], fnow)) \in Nat
  BY Counted DEF OverBudget, Running
<1>3. ladder' \in [WorkflowTypes -> [1..NumBuckets -> GaugeValue]]
  <2>1. [n |-> Cardinality(OverBudget(ftype, Buckets[idx], fnow)), at |-> fnow] \in GaugeValue
    BY <1>2 DEF GaugeValue, Instant, FastTypeOK, LoopTypeOK
  <2>2. ftype \in WorkflowTypes /\ idx \in 1..NumBuckets
    BY DEF QueryBucket, FastTypeOK, LoopTypeOK
  <2>3. ladder \in [WorkflowTypes -> [1..NumBuckets -> GaugeValue]]
    BY DEF FastTypeOK, GaugeTypeOK
  <2>4. [ladder EXCEPT ![ftype][idx] =
           [n |-> Cardinality(OverBudget(ftype, Buckets[idx], fnow)), at |-> fnow]]
        \in [WorkflowTypes -> [1..NumBuckets -> GaugeValue]]
    BY <2>1, <2>2, <2>3
  <2> QED
    BY <2>3, <2>4 DEF QueryBucket
<1>4. PICK ok \in BOOLEAN : EndQuery(ok, NumBuckets, "over_budget", AfterLadder)
  BY BucketEffect
<1>5. fresh' \in [WorkflowTypes -> [Kind -> [stamp : Instant, poll : Instant]]]
  BY <1>4, StampType DEF EndQuery, Kind, FastTypeOK, GaugeTypeOK
<1>6. GaugeTypeOK'
  BY <1>3, <1>5 DEF QueryBucket, FastTypeOK, GaugeTypeOK
<1>7. fnow' \in 0..MaxClock /\ fpc = "bucket" /\ idx \in Nat \ {0} /\ idx <= NumBuckets
  BY DEF QueryBucket, FastTypeOK, LoopTypeOK
<1>8. CASE idx < NumBuckets
  <2>1. allOK' \in BOOLEAN
    BY <1>4, <1>8 DEF EndQuery
  <2>2. idx' = idx + 1 /\ UNCHANGED <<fpc, ftype>>
    BY <1>4, <1>8 DEF EndQuery
  <2>3. idx' \in Nat \ {0} /\ idx' <= NumBuckets
    BY <1>7, <1>8, <2>2, LadderLength
  <2> QED
    BY <1>1, <1>6, <1>7, <2>1, <2>2, <2>3 DEF FastTypeOK, LoopTypeOK
<1>9. CASE ~(idx < NumBuckets)
  <2>1. AfterLadder
    BY <1>4, <1>9 DEF EndQuery
  <2>2. CASE stuckAvailable
    <3>1. fpc' = "stuck" /\ idx' = 1 /\ allOK' = TRUE /\ UNCHANGED ftype
      BY <2>1, <2>2 DEF AfterLadder, InnerLoop
    <3>2. idx' \in Nat \ {0} /\ idx' <= Causes
      BY <3>1, FastPollAssumption
    <3> QED
      BY <1>1, <1>6, <1>7, <3>1, <3>2 DEF FastTypeOK, LoopTypeOK
  <2>3. CASE ~stuckAvailable
    <3>1. NextFastType
      BY <2>1, <2>3 DEF AfterLadder
    <3> QED
      BY <1>1, <1>6, <1>7, <3>1, NextTypeType DEF FastTypeOK, LoopTypeOK
  <2> QED
    BY <2>2, <2>3
<1> QED
  BY <1>8, <1>9

(* So does a stuck query.                                                  *)
LEMMA StuckType == ASSUME FastTypeOK, QueryStuck PROVE FastTypeOK'
<1>1. VisibilityTypeOK' /\ ProbeTypeOK'
  BY CallType DEF QueryStuck
<1>2. stuckGauge' \in [WorkflowTypes -> [1..Causes -> GaugeValue]]
  <2>1. \A n \in 0..Cardinality(Running(ftype)) : [n |-> n, at |-> fnow] \in GaugeValue
    BY Counted DEF GaugeValue, Instant, FastTypeOK, LoopTypeOK, Running
  <2>2. ftype \in WorkflowTypes /\ idx \in 1..Causes
    BY DEF QueryStuck, FastTypeOK, LoopTypeOK
  <2>3. stuckGauge \in [WorkflowTypes -> [1..Causes -> GaugeValue]]
    BY DEF FastTypeOK, GaugeTypeOK
  <2>4. \A n \in 0..Cardinality(Running(ftype)) :
          [stuckGauge EXCEPT ![ftype][idx] = [n |-> n, at |-> fnow]]
            \in [WorkflowTypes -> [1..Causes -> GaugeValue]]
    BY <2>1, <2>2, <2>3
  <2> QED
    BY <2>3, <2>4 DEF QueryStuck
<1>3. PICK ok \in BOOLEAN : EndQuery(ok, Causes, "stuck", NextFastType)
  <2>1. TRUE \in BOOLEAN /\ FALSE \in BOOLEAN
    OBVIOUS
  <2>2. \/ EndQuery(TRUE, Causes, "stuck", NextFastType)
        \/ EndQuery(FALSE, Causes, "stuck", NextFastType)
    BY Zenon DEF QueryStuck
  <2> QED
    BY <2>1, <2>2, Zenon
<1>4. fresh' \in [WorkflowTypes -> [Kind -> [stamp : Instant, poll : Instant]]]
  BY <1>3, StampType DEF EndQuery, Kind, FastTypeOK, GaugeTypeOK
<1>5. GaugeTypeOK'
  BY <1>2, <1>4 DEF QueryStuck, FastTypeOK, GaugeTypeOK
<1>6. fnow' \in 0..MaxClock /\ fpc = "stuck" /\ idx \in Nat \ {0} /\ idx <= Causes
  BY DEF QueryStuck, FastTypeOK, LoopTypeOK
<1>7. CASE idx < Causes
  <2>1. allOK' \in BOOLEAN
    BY <1>3, <1>7 DEF EndQuery
  <2>2. idx' = idx + 1 /\ UNCHANGED <<fpc, ftype>>
    BY <1>3, <1>7 DEF EndQuery
  <2>3. idx' \in Nat \ {0} /\ idx' <= Causes
    BY <1>6, <1>7, <2>2, FastPollAssumption
  <2> QED
    BY <1>1, <1>5, <1>6, <2>1, <2>2, <2>3 DEF FastTypeOK, LoopTypeOK
<1>8. CASE ~(idx < Causes)
  <2>1. NextFastType
    BY <1>3, <1>8 DEF EndQuery
  <2>2. LoopTypeOK'
    BY <1>6, <2>1, NextTypeType DEF FastTypeOK, LoopTypeOK
  <2> QED
    BY <1>1, <1>5, <2>2 DEF FastTypeOK
<1> QED
  BY <1>7, <1>8

(* Every step keeps the types.                                             *)
LEMMA NextType == ASSUME FastTypeOK, [FastNext]_fastPollVars PROVE FastTypeOK'
<1> USE DEF fastVars, probeVars, loopVars, gaugeVars
<1>1. CASE FastEnvironment
  <2>1. UNCHANGED fastVars
    BY <1>1 DEF FastEnvironment
  <2>2. ProbeTypeOK'
    BY <2>1 DEF FastTypeOK, ProbeTypeOK
  <2>3. LoopTypeOK' /\ GaugeTypeOK'
    BY <2>1 DEF FastTypeOK, LoopTypeOK, GaugeTypeOK
  <2> QED
    BY <1>1, <2>2, <2>3, EnvironmentType DEF FastTypeOK
<1>2. CASE StartProbe
  BY <1>2, ProbeType
     DEF StartProbe, FastTypeOK, VisibilityTypeOK, LoopTypeOK, GaugeTypeOK, storeVars, callVars
<1>3. ASSUME EnterLoop, ProbeTypeOK' PROVE FastTypeOK'
  BY <1>3, VisibilityAssumption
     DEF EnterLoop, FastTypeOK, VisibilityTypeOK, LoopTypeOK, GaugeTypeOK, storeVars, callVars,
         WorkflowTypes
<1>4. CASE BeginFastPoll
  <2>1. ProbeTypeOK'
    BY <1>4 DEF BeginFastPoll, FastTypeOK, ProbeTypeOK
  <2>2. CASE probePending
    BY <1>4, <2>1, <2>2
       DEF BeginFastPoll, FastTypeOK, VisibilityTypeOK, LoopTypeOK, GaugeTypeOK, storeVars, callVars
  <2> QED
    BY <1>3, <1>4, <2>1, <2>2 DEF BeginFastPoll
<1>5. CASE Reprobe
  <2>1. ProbeTypeOK /\ probeStuckDetection /\ EnterLoop
    BY <1>5 DEF Reprobe, FastTypeOK
  <2>2. ProbeTypeOK'
    BY <2>1, ProbeType
  <2> QED
    BY <1>3, <2>1, <2>2
<1>6. CASE QueryRunning
  <2>1. VisibilityTypeOK' /\ ProbeTypeOK'
    BY <1>6, CallType DEF QueryRunning
  <2>2. LoopTypeOK'
    BY <1>6, LadderLength DEF QueryRunning, InnerLoop, FastTypeOK, LoopTypeOK
  <2>3. [n |-> Cardinality(Running(ftype)), at |-> fnow] \in GaugeValue
    BY Counted DEF GaugeValue, Instant, FastTypeOK, LoopTypeOK, Running
  <2>4. runningGauge' \in [WorkflowTypes -> GaugeValue]
    BY <1>6, <2>3 DEF QueryRunning, FastTypeOK, GaugeTypeOK
  <2>5. fresh' \in [WorkflowTypes -> [Kind -> [stamp : Instant, poll : Instant]]]
    BY <1>6, StampType DEF QueryRunning, Kind, FastTypeOK, GaugeTypeOK
  <2>6. GaugeTypeOK'
    BY <1>6, <2>4, <2>5 DEF QueryRunning, FastTypeOK, GaugeTypeOK
  <2> QED
    BY <2>1, <2>2, <2>6 DEF FastTypeOK
<1>7. CASE QueryBucket \/ QueryStuck
  BY <1>7, BucketType, StuckType
<1>8. CASE UNCHANGED fastPollVars
  BY <1>8
     DEF fastPollVars, visibilityVars, storeVars, callVars, FastTypeOK, VisibilityTypeOK, ProbeTypeOK,
         LoopTypeOK, GaugeTypeOK
<1> QED
  BY <1>1, <1>2, <1>4, <1>5, <1>6, <1>7, <1>8 DEF FastNext, FastStep

-----------------------------------------------------------------------------
(* Stuck detection.                                                        *)

(* The steps that leave the probe alone.                                   *)
LEMMA ProbeSame ==
  ASSUME FastIInv, UNCHANGED probeVars,
         fpc' # "start", fpc' = "probe" => probePending, fpc' = "stuck" => stuckAvailable,
         \A i \in WorkflowTypes, j \in 1..Causes :
           stuckGauge'[i][j].at = stuckGauge[i][j].at \/ stuckAvailable
  PROVE  ProbeInv' /\ DetectionHonest'
<1>1. UNCHANGED <<fallback, supported, probePending, stuckAvailable, detection>>
  BY DEF probeVars
<1>2. ProbeInv'
  BY <1>1 DEF FastIInv, ProbeInv
<1>3. \A i \in WorkflowTypes, j \in 1..Causes :
        stuckGauge'[i][j].at # NoSeries => detection' = 1
  BY <1>1 DEF FastIInv, ProbeInv, DetectionHonest
<1> QED
  BY <1>1, <1>2, <1>3 DEF FastIInv, DetectionHonest

(* A probe is made only while nothing has been said, so that a transient   *)
(* error says nothing and an answer says what is so.                       *)
LEMMA ProbeMade ==
  ASSUME FastIInv, probeStuckDetection, fpc \in {"start", "probe"}, fpc' \in {"idle", "running"},
         UNCHANGED stuckGauge
  PROVE  ProbeInv' /\ DetectionHonest'
<1>1. detection = NoSeries
  BY DEF FastIInv, ProbeInv
<1>2. \A i \in WorkflowTypes, j \in 1..Causes : stuckGauge'[i][j].at = NoSeries
  BY <1>1 DEF FastIInv, DetectionHonest, NoSeries
<1>3. UNCHANGED <<fallback, supported>>
  BY DEF probeStuckDetection
<1>4. CASE ProbeDisabled
  <2>1. probePending' = FALSE /\ stuckAvailable' = FALSE /\ detection' = 0 /\ fallback
    BY <1>4 DEF ProbeDisabled, FastIInv, ProbeInv, FastTypeOK, ProbeTypeOK
  <2> QED
    BY <1>2, <1>3, <2>1 DEF ProbeInv, DetectionHonest
<1>5. CASE ProbeTransient
  <2>1. ~fallback /\ stuckAvailable' = FALSE /\ detection' = NoSeries
    BY <1>1, <1>5 DEF ProbeTransient
  <2> QED
    BY <1>2, <1>3, <2>1 DEF ProbeInv, DetectionHonest, NoSeries
<1>6. CASE ProbeSettled
  <2>1. CASE supported
    <3>1. probePending' = FALSE /\ stuckAvailable' = TRUE /\ detection' = 1
      BY <1>6, <2>1 DEF ProbeSettled, FastIInv, FastTypeOK, ProbeTypeOK
    <3> QED
      BY <1>2, <1>3, <2>1, <3>1 DEF ProbeInv, DetectionHonest
  <2>2. CASE ~supported
    <3>1. probePending' = FALSE /\ stuckAvailable' = FALSE /\ detection' = 0
      BY <1>6, <2>2 DEF ProbeSettled, FastIInv, FastTypeOK, ProbeTypeOK
    <3> QED
      BY <1>2, <1>3, <2>2, <3>1 DEF ProbeInv, DetectionHonest
  <2> QED
    BY <2>1, <2>2
<1> QED
  BY <1>4, <1>5, <1>6 DEF probeStuckDetection

(* Every step keeps what is said of stuck detection.                       *)
LEMMA NextDetection == ASSUME FastIInv, [FastNext]_fastPollVars PROVE ProbeInv' /\ DetectionHonest'
<1> USE DEF fastVars, loopVars, gaugeVars
<1>1. CASE FastEnvironment \/ UNCHANGED fastPollVars
  <2>1. UNCHANGED <<probeVars, fpc, stuckGauge>>
    BY <1>1 DEF FastEnvironment, fastPollVars
  <2> QED
    BY <2>1 DEF probeVars, FastIInv, ProbeInv, DetectionHonest
<1>2. CASE StartProbe
  BY <1>2, ProbeMade DEF StartProbe
<1>3. CASE Reprobe
  BY <1>3, ProbeMade DEF Reprobe, EnterLoop
<1>4. CASE BeginFastPoll
  BY <1>4, ProbeSame DEF BeginFastPoll, EnterLoop
<1>5. CASE QueryRunning
  BY <1>5, ProbeSame DEF QueryRunning, InnerLoop
<1>6. CASE QueryBucket
  <2>1. PICK ok \in BOOLEAN : EndQuery(ok, NumBuckets, "over_budget", AfterLadder)
    BY <1>6, BucketEffect DEF FastIInv
  <2>2. fpc' \in {"bucket", "running", "idle"} \/ (fpc' = "stuck" /\ stuckAvailable)
    BY <1>6, <2>1 DEF QueryBucket, EndQuery, AfterLadder, InnerLoop, NextFastType
  <2> QED
    BY <1>6, <2>2, ProbeSame DEF QueryBucket
<1>7. CASE QueryStuck
  <2>1. PICK ok \in BOOLEAN : EndQuery(ok, Causes, "stuck", NextFastType)
    BY <1>7, StuckEffect DEF FastIInv
  <2>2. stuckAvailable /\ fpc' \in {"stuck", "running", "idle"}
    BY <1>7, <2>1 DEF QueryStuck, EndQuery, NextFastType, FastIInv, ProbeInv
  <2> QED
    BY <1>7, <2>2, ProbeSame DEF QueryStuck
<1> QED
  BY <1>1, <1>2, <1>3, <1>4, <1>5, <1>6, <1>7 DEF FastNext, FastStep

-----------------------------------------------------------------------------
(* Freshness.                                                              *)

Fresh == FastInstantsPast /\ Swept /\ FreshnessHonest

(* A stamp is of the type and the kind it is written for, and of now.      *)
LEMMA StampEffect ==
  ASSUME FastTypeOK, NEW k \in Kind, Stamp(k)
  PROVE  \A i \in WorkflowTypes, x \in Kind :
           fresh'[i][x] = IF i = ftype /\ x = k THEN [stamp |-> clock, poll |-> fnow]
                                                ELSE fresh[i][x]
<1>1. ftype \in WorkflowTypes
  BY DEF FastTypeOK, LoopTypeOK
<1>2. fresh \in [WorkflowTypes -> [Kind -> [stamp : Instant, poll : Instant]]]
  BY DEF FastTypeOK, GaugeTypeOK
<1> QED
  BY <1>1, <1>2 DEF Stamp

(* The instants are integers.                                              *)
LEMMA InstantsInt ==
  ASSUME FastTypeOK
  PROVE  /\ fnow \in Int /\ clock \in Int
         /\ \A i \in WorkflowTypes :
              /\ runningGauge[i].at \in Int
              /\ \A j \in 1..NumBuckets : ladder[i][j].at \in Int
              /\ \A j \in 1..Causes : stuckGauge[i][j].at \in Int
              /\ \A k \in Kind : fresh[i][k].poll \in Int /\ fresh[i][k].stamp \in Int
<1>1. Instant \subseteq Int
  BY VisibilityAssumption DEF Instant, NoSeries
<1>2. fnow \in Int /\ clock \in Int
  BY DEF FastTypeOK, VisibilityTypeOK, LoopTypeOK
<1>3. ASSUME NEW i \in WorkflowTypes
      PROVE  /\ runningGauge[i].at \in Instant
             /\ \A j \in 1..NumBuckets : ladder[i][j].at \in Instant
             /\ \A j \in 1..Causes : stuckGauge[i][j].at \in Instant
             /\ \A k \in Kind : fresh[i][k].poll \in Instant /\ fresh[i][k].stamp \in Instant
  <2>1. runningGauge[i] \in GaugeValue
    BY DEF FastTypeOK, GaugeTypeOK
  <2>2. \A j \in 1..NumBuckets : ladder[i][j] \in GaugeValue
    BY DEF FastTypeOK, GaugeTypeOK
  <2>3. \A j \in 1..Causes : stuckGauge[i][j] \in GaugeValue
    BY DEF FastTypeOK, GaugeTypeOK
  <2>4. \A k \in Kind : fresh[i][k] \in [stamp : Instant, poll : Instant]
    BY DEF FastTypeOK, GaugeTypeOK
  <2> QED
    BY <2>1, <2>2, <2>3, <2>4 DEF GaugeValue
<1> QED
  BY <1>1, <1>2, <1>3

(* A poll that begins later than the last one leaves everything behind it. *)
LEMMA BeginFresh ==
  ASSUME FastIInv, UNCHANGED <<clock, gaugeVars>>, fnow' \in {fnow, clock},
         fpc' \notin {"bucket", "stuck"}
  PROVE  Fresh'
<1>1. fnow <= fnow' /\ fnow' <= clock' /\ fnow' \in Int
  BY InstantsInt DEF FastIInv, FastInstantsPast
<1>2. FastInstantsPast'
  BY <1>1, InstantsInt DEF FastIInv, FastInstantsPast, gaugeVars
<1>3. Swept' /\ FreshnessHonest'
  BY DEF FastIInv, Swept, FreshnessHonest, gaugeVars
<1> QED
  BY <1>2, <1>3 DEF Fresh

(* The running query sets its gauge and its stamp together.                *)
LEMMA RunningFresh == ASSUME FastIInv, QueryRunning PROVE Fresh'
<1>1. /\ UNCHANGED <<clock, fnow, ladder, stuckGauge>> /\ idx' = 1
      /\ ftype \in WorkflowTypes /\ "running" \in Kind
      /\ runningGauge \in [WorkflowTypes -> GaugeValue]
  BY DEF QueryRunning, InnerLoop, storeVars, FastIInv, FastTypeOK, LoopTypeOK, GaugeTypeOK, Kind
<1>2. Swept'
  BY <1>1 DEF Swept
<1>3. CASE UNCHANGED <<runningGauge, fresh>>
  BY <1>1, <1>2, <1>3 DEF FastIInv, FastInstantsPast, FreshnessHonest, Fresh
<1>4. CASE /\ runningGauge' = [runningGauge EXCEPT ![ftype] =
                [n |-> Cardinality(Running(ftype)), at |-> fnow]]
           /\ Stamp("running")
  <2>1. \A i \in WorkflowTypes : runningGauge'[i].at = IF i = ftype THEN fnow ELSE runningGauge[i].at
    BY <1>1, <1>4
  <2>2. \A i \in WorkflowTypes, x \in Kind :
          fresh'[i][x] = IF i = ftype /\ x = "running" THEN [stamp |-> clock, poll |-> fnow]
                                                       ELSE fresh[i][x]
    BY <1>1, <1>4, StampEffect DEF FastIInv
  <2>3. FastInstantsPast'
    BY <1>1, <2>1, <2>2, InstantsInt DEF FastIInv, FastInstantsPast
  <2>4. FreshnessHonest'
    BY <1>1, <2>1, <2>2, InstantsInt DEF FastIInv, FastInstantsPast, FreshnessHonest, Kind
  <2> QED
    BY <1>2, <2>3, <2>4 DEF Fresh
<1> QED
  BY <1>3, <1>4 DEF QueryRunning

(* The ladder is stamped when the last rung is set and no query before it  *)
(* failed: every rung is then of this poll.                                *)
LEMMA BucketFresh == ASSUME FastIInv, QueryBucket PROVE Fresh'
<1>1. /\ UNCHANGED <<clock, fnow, runningGauge, stuckGauge>> /\ fpc = "bucket"
      /\ ftype \in WorkflowTypes /\ idx \in 1..NumBuckets /\ "over_budget" \in Kind
      /\ NumBuckets \in Nat
  BY LadderLength DEF QueryBucket, storeVars, FastIInv, FastTypeOK, LoopTypeOK, Kind
<1>2. PICK ok \in BOOLEAN :
        /\ \A i \in WorkflowTypes, j \in 1..NumBuckets :
             ladder'[i][j] = IF ok /\ i = ftype /\ j = idx
               THEN [n |-> Cardinality(OverBudget(ftype, Buckets[idx], fnow)), at |-> fnow]
               ELSE ladder[i][j]
        /\ EndQuery(ok, NumBuckets, "over_budget", AfterLadder)
  BY BucketEffect DEF FastIInv
<1>3. \A i \in WorkflowTypes, j \in 1..NumBuckets :
        ladder'[i][j].at = IF ok /\ i = ftype /\ j = idx THEN fnow ELSE ladder[i][j].at
  BY <1>2
<1>4. Swept'
  <2>1. CASE idx < NumBuckets
    <3>1. idx' = idx + 1 /\ (allOK' => allOK /\ ok) /\ UNCHANGED <<fpc, ftype>>
      BY <1>2, <2>1 DEF EndQuery
    <3> QED
      BY <1>1, <1>3, <3>1 DEF FastIInv, Swept
  <2>2. CASE ~(idx < NumBuckets)
    <3>1. fpc' \in {"running", "idle"} \/ (fpc' = "stuck" /\ idx' = 1)
      BY <1>2, <2>2 DEF EndQuery, AfterLadder, InnerLoop, NextFastType
    <3> QED
      BY <3>1 DEF Swept
  <2> QED
    BY <2>1, <2>2
<1>5. CASE UNCHANGED fresh
  <2>1. FastInstantsPast'
    BY <1>1, <1>3, <1>5, InstantsInt DEF FastIInv, FastInstantsPast
  <2>2. FreshnessHonest'
    BY <1>1, <1>3, <1>5, InstantsInt DEF FastIInv, FastInstantsPast, FreshnessHonest, Kind
  <2> QED
    BY <1>4, <2>1, <2>2 DEF Fresh
<1>6. CASE ~(idx < NumBuckets) /\ allOK /\ ok /\ Stamp("over_budget")
  <2>1. \A i \in WorkflowTypes, x \in Kind :
          fresh'[i][x] = IF i = ftype /\ x = "over_budget" THEN [stamp |-> clock, poll |-> fnow]
                                                           ELSE fresh[i][x]
    BY <1>1, <1>6, StampEffect DEF FastIInv
  <2>2. \A j \in 1..NumBuckets : ladder'[ftype][j].at = fnow
    BY <1>1, <1>3, <1>6 DEF FastIInv, Swept
  <2>3. FastInstantsPast'
    BY <1>1, <1>3, <2>1, InstantsInt DEF FastIInv, FastInstantsPast
  <2>4. FreshnessHonest'
    BY <1>1, <1>3, <2>1, <2>2, InstantsInt DEF FastIInv, FastInstantsPast, FreshnessHonest, Kind
  <2> QED
    BY <1>4, <2>3, <2>4 DEF Fresh
<1> QED
  BY <1>2, <1>5, <1>6 DEF EndQuery

(* So it is with the causes of stuck executions.                           *)
LEMMA StuckFresh == ASSUME FastIInv, QueryStuck PROVE Fresh'
<1>1. /\ UNCHANGED <<clock, fnow, runningGauge, ladder>> /\ fpc = "stuck"
      /\ ftype \in WorkflowTypes /\ idx \in 1..Causes /\ "stuck" \in Kind
      /\ Causes \in Nat
  BY FastPollAssumption DEF QueryStuck, storeVars, FastIInv, FastTypeOK, LoopTypeOK, Kind
<1>2. PICK ok \in BOOLEAN :
        /\ \E n \in Nat : \A i \in WorkflowTypes, j \in 1..Causes :
             stuckGauge'[i][j] = IF ok /\ i = ftype /\ j = idx
                                 THEN [n |-> n, at |-> fnow] ELSE stuckGauge[i][j]
        /\ EndQuery(ok, Causes, "stuck", NextFastType)
  BY StuckEffect DEF FastIInv
<1>3. \A i \in WorkflowTypes, j \in 1..Causes :
        stuckGauge'[i][j].at = IF ok /\ i = ftype /\ j = idx THEN fnow ELSE stuckGauge[i][j].at
  BY <1>2
<1>4. Swept'
  <2>1. CASE idx < Causes
    <3>1. idx' = idx + 1 /\ (allOK' => allOK /\ ok) /\ UNCHANGED <<fpc, ftype>>
      BY <1>2, <2>1 DEF EndQuery
    <3> QED
      BY <1>1, <1>3, <3>1 DEF FastIInv, Swept
  <2>2. CASE ~(idx < Causes)
    <3>1. fpc' \in {"running", "idle"} 
      BY <1>2, <2>2 DEF EndQuery, NextFastType
    <3> QED
      BY <3>1 DEF Swept
  <2> QED
    BY <2>1, <2>2
<1>5. CASE UNCHANGED fresh
  <2>1. FastInstantsPast'
    BY <1>1, <1>3, <1>5, InstantsInt DEF FastIInv, FastInstantsPast
  <2>2. FreshnessHonest'
    BY <1>1, <1>3, <1>5, InstantsInt DEF FastIInv, FastInstantsPast, FreshnessHonest, Kind
  <2> QED
    BY <1>4, <2>1, <2>2 DEF Fresh
<1>6. CASE ~(idx < Causes) /\ allOK /\ ok /\ Stamp("stuck")
  <2>1. \A i \in WorkflowTypes, x \in Kind :
          fresh'[i][x] = IF i = ftype /\ x = "stuck" THEN [stamp |-> clock, poll |-> fnow]
                                                           ELSE fresh[i][x]
    BY <1>1, <1>6, StampEffect DEF FastIInv
  <2>2. \A j \in 1..Causes : stuckGauge'[ftype][j].at = fnow
    BY <1>1, <1>3, <1>6 DEF FastIInv, Swept
  <2>3. FastInstantsPast'
    BY <1>1, <1>3, <2>1, InstantsInt DEF FastIInv, FastInstantsPast
  <2>4. FreshnessHonest'
    BY <1>1, <1>3, <2>1, <2>2, InstantsInt DEF FastIInv, FastInstantsPast, FreshnessHonest, Kind
  <2> QED
    BY <1>4, <2>3, <2>4 DEF Fresh
<1> QED
  BY <1>2, <1>5, <1>6 DEF EndQuery

(* Every step keeps the stamps honest.                                     *)
LEMMA NextFresh == ASSUME FastIInv, [FastNext]_fastPollVars PROVE Fresh'
<1> USE DEF fastVars, loopVars, gaugeVars, visibilityVars, storeVars
<1>1. CASE FastEnvironment \/ UNCHANGED fastPollVars
  <2>1. UNCHANGED <<fpc, ftype, fnow, idx, allOK, runningGauge, ladder, stuckGauge, fresh>>
    BY <1>1 DEF FastEnvironment, fastPollVars
  <2>2. clock <= clock' /\ clock' \in Int
    BY <1>1, InstantsInt
       DEF FastEnvironment, fastPollVars, StoreStep, Advance, StartExecution, CloseExecution, FastIInv
  <2>3. FastInstantsPast'
    BY <2>1, <2>2, InstantsInt DEF FastIInv, FastInstantsPast
  <2>4. Swept' /\ FreshnessHonest'
    BY <2>1 DEF FastIInv, Swept, FreshnessHonest
  <2> QED
    BY <2>3, <2>4 DEF Fresh
<1>2. CASE StartProbe \/ BeginFastPoll \/ Reprobe
  <2>1. /\ UNCHANGED <<clock, gaugeVars>> /\ fnow' \in {fnow, clock}
        /\ fpc' \notin {"bucket", "stuck"}
    BY <1>2 DEF StartProbe, BeginFastPoll, Reprobe, EnterLoop
  <2> QED
    BY <2>1, BeginFresh
<1>3. CASE QueryRunning \/ QueryBucket \/ QueryStuck
  BY <1>3, RunningFresh, BucketFresh, StuckFresh
<1> QED
  BY <1>1, <1>2, <1>3 DEF FastNext, FastStep

-----------------------------------------------------------------------------
(* The ladder.                                                             *)

(* The executions of a type that are running and started before an         *)
(* instant: OverBudget, by its cutoff.                                     *)
Late(i, t) == {e \in Running(i) : startTime[e] < t}

(* A rung is a multiple of the budget.                                     *)
LEMMA RungType == \A j \in 1..NumBuckets : Buckets[j] \in Nat
BY FastPollAssumption DEF NumBuckets

(* The executions past a cutoff lie among those started before it.         *)
LEMMA LateStarted ==
  ASSUME NEW i, NEW t PROVE Late(i, t) \subseteq StartedBefore(i, t)
BY DEF Late, Running, StartedBefore

(* No execution starts before an instant that has passed: those that are   *)
(* late can only close, those that have started before it stay so.         *)
LEMMA StoreMoves ==
  ASSUME FastTypeOK, StoreStep, NEW i \in WorkflowTypes, NEW t \in Int, t <= clock
  PROVE  Late(i, t)' \subseteq Late(i, t) /\ StartedBefore(i, t)' = StartedBefore(i, t)
<1> USE DEF Late, Running, StartedBefore, FastTypeOK, VisibilityTypeOK
<1>1. CASE Advance
  BY <1>1 DEF Advance
<1>2. ASSUME NEW x \in Execs, StartExecution(x)
      PROVE  Late(i, t)' \subseteq Late(i, t) /\ StartedBefore(i, t)' = StartedBefore(i, t)
  BY <1>2 DEF StartExecution
<1>3. ASSUME NEW x \in Execs, NEW o \in Outcomes, CloseExecution(x, o)
      PROVE  Late(i, t)' \subseteq Late(i, t) /\ StartedBefore(i, t)' = StartedBefore(i, t)
  <2>1. o # "running" /\ o # "none"
    BY VisibilityAssumption
  <2> QED
    BY <1>3, <2>1 DEF CloseExecution
<1> QED
  BY <1>1, <1>2, <1>3 DEF StoreStep

(* A rung that is set counts the executions past it now.                   *)
LEMMA RungCounted ==
  ASSUME NEW i \in WorkflowTypes, NEW m \in Nat, NEW t \in Int
  PROVE  /\ Cardinality(OverBudget(i, m, t)) \in Nat
         /\ Cardinality(OverBudget(i, m, t)) <= Cardinality(StartedBefore(i, Cutoff(i, m, t)))
<1>1. OverBudget(i, m, t) \subseteq StartedBefore(i, Cutoff(i, m, t))
  BY LateStarted DEF OverBudget, Late
<1>2. StartedBefore(i, Cutoff(i, m, t)) \subseteq Execs
  BY DEF StartedBefore
<1> QED
  BY <1>1, <1>2, Counted, CountMonotone

(* A rung that is left alone stays between the two while the store moves.  *)
LEMMA RungKept ==
  ASSUME FastTypeOK, StoreStep, NEW i \in WorkflowTypes, NEW m \in Nat,
         NEW at \in Int, at <= clock, NEW n \in Int,
         Cardinality(OverBudget(i, m, at)) <= n,
         n <= Cardinality(StartedBefore(i, Cutoff(i, m, at)))
  PROVE  /\ Cardinality(OverBudget(i, m, at))' <= n
         /\ n <= Cardinality(StartedBefore(i, Cutoff(i, m, at)))'
<1> DEFINE t == Cutoff(i, m, at)
<1>1. clock \in Int
  BY DEF FastTypeOK, VisibilityTypeOK
<1>2. t \in Int /\ t <= clock
  BY <1>1, CutoffMonotone
<1>3. OverBudget(i, m, at) = Late(i, t) /\ OverBudget(i, m, at)' = Late(i, t)'
  BY DEF OverBudget, Late
<1> HIDE DEF t
<1>4. Late(i, t)' \subseteq Late(i, t) /\ StartedBefore(i, t)' = StartedBefore(i, t)
  BY <1>2, StoreMoves
<1>5. Late(i, t)' \subseteq Execs /\ Late(i, t) \subseteq Execs
  BY DEF Late, Running
<1>6. /\ Cardinality(Late(i, t)') \in Nat /\ Cardinality(Late(i, t)) \in Nat
      /\ Cardinality(Late(i, t)') <= Cardinality(Late(i, t))
  BY <1>4, <1>5, Counted, CountMonotone
<1>7. n <= Cardinality(StartedBefore(i, t))
  BY DEF t
<1>8. n <= Cardinality(StartedBefore(i, t))'
  BY <1>4, <1>7
<1>9. Cardinality(OverBudget(i, m, at))' <= n
  BY <1>3, <1>6
<1> QED
  BY <1>8, <1>9 DEF t

(* Every step keeps every rung between what is past it and still open and  *)
(* what was past it when it was counted.                                   *)
LEMMA NextLadder == ASSUME FastIInv, [FastNext]_fastPollVars PROVE LadderBracketed'
<1> SUFFICES ASSUME NEW i \in WorkflowTypes, NEW j \in 1..NumBuckets,
                    ladder'[i][j].at # NoSeries
             PROVE  /\ Cardinality(OverBudget(i, Buckets[j], ladder[i][j].at))' <= ladder'[i][j].n
                    /\ ladder'[i][j].n
                         <= Cardinality(StartedBefore(i, Cutoff(i, Buckets[j], ladder[i][j].at)))'
  BY DEF LadderBracketed
<1>1. Buckets[j] \in Nat
  BY RungType
<1>2. ladder[i][j].at \in Int /\ ladder[i][j].at <= clock /\ ladder[i][j].n \in Int
  <2>1. ladder[i][j] \in GaugeValue
    <3>1. ladder \in [WorkflowTypes -> [1..NumBuckets -> GaugeValue]]
      BY DEF FastIInv, FastTypeOK, GaugeTypeOK
    <3> QED
      BY <3>1
  <2>2. ladder[i][j].n \in Int
    BY <2>1 DEF GaugeValue
  <2>3. ladder[i][j].at \in Int /\ ladder[i][j].at <= fnow /\ fnow <= clock
        /\ fnow \in Int /\ clock \in Int
    BY InstantsInt DEF FastIInv, FastInstantsPast
  <2> QED
    BY <2>2, <2>3
<1>3. CASE StoreStep /\ UNCHANGED ladder
  <2>1. PICK at \in Int, n \in Int : at = ladder[i][j].at /\ n = ladder[i][j].n
    BY <1>2
  <2>2. /\ Cardinality(OverBudget(i, Buckets[j], at)) <= n
        /\ n <= Cardinality(StartedBefore(i, Cutoff(i, Buckets[j], at)))
    BY <1>3, <2>1 DEF FastIInv, LadderBracketed
  <2>3. /\ Cardinality(OverBudget(i, Buckets[j], at))' <= n
        /\ n <= Cardinality(StartedBefore(i, Cutoff(i, Buckets[j], at)))'
    BY <1>1, <1>2, <1>3, <2>1, <2>2, RungKept DEF FastIInv
  <2>4. ladder'[i][j].at = at /\ ladder'[i][j].n = n
    BY <1>3, <2>1
  <2> QED
    BY <2>3, <2>4
<1>4. ASSUME UNCHANGED storeVars,
             \/ ladder'[i][j] = ladder[i][j]
             \/ ladder'[i][j] = [n |-> Cardinality(OverBudget(i, Buckets[j], fnow)), at |-> fnow]
      PROVE  /\ Cardinality(OverBudget(i, Buckets[j], ladder[i][j].at))' <= ladder'[i][j].n
             /\ ladder'[i][j].n
                  <= Cardinality(StartedBefore(i, Cutoff(i, Buckets[j], ladder[i][j].at)))'
  <2> DEFINE at == ladder'[i][j].at
  <2>1. /\ OverBudget(i, Buckets[j], ladder[i][j].at)' = OverBudget(i, Buckets[j], at)
        /\ StartedBefore(i, Cutoff(i, Buckets[j], ladder[i][j].at))'
             = StartedBefore(i, Cutoff(i, Buckets[j], at))
    BY <1>4 DEF storeVars, OverBudget, Running, StartedBefore, Cutoff
  <2>2. CASE ladder'[i][j] = ladder[i][j]
    BY <2>1, <2>2 DEF FastIInv, LadderBracketed
  <2>3. CASE ladder'[i][j] = [n |-> Cardinality(OverBudget(i, Buckets[j], fnow)), at |-> fnow]
    <3>1. fnow \in Int
      BY InstantsInt DEF FastIInv
    <3>2. at = fnow /\ ladder'[i][j].n = Cardinality(OverBudget(i, Buckets[j], fnow))
      BY <2>3
    <3>3. /\ Cardinality(OverBudget(i, Buckets[j], fnow)) \in Nat
          /\ Cardinality(OverBudget(i, Buckets[j], fnow))
               <= Cardinality(StartedBefore(i, Cutoff(i, Buckets[j], fnow)))
      BY <1>1, <3>1, RungCounted
    <3>4. /\ Cardinality(OverBudget(i, Buckets[j], ladder[i][j].at))'
               = Cardinality(OverBudget(i, Buckets[j], fnow))
          /\ Cardinality(StartedBefore(i, Cutoff(i, Buckets[j], ladder[i][j].at)))'
               = Cardinality(StartedBefore(i, Cutoff(i, Buckets[j], fnow)))
      BY <2>1, <3>2
    <3> QED
      BY <3>2, <3>3, <3>4
  <2> QED
    BY <1>4, <2>2, <2>3
<1>5. CASE FastEnvironment \/ UNCHANGED fastPollVars
  <2>1. (StoreStep /\ UNCHANGED ladder) \/ UNCHANGED <<storeVars, ladder>>
    BY <1>5 DEF FastEnvironment, fastPollVars, visibilityVars, fastVars, gaugeVars
  <2> QED
    BY <1>3, <1>4, <2>1
<1>6. CASE StartProbe \/ BeginFastPoll \/ Reprobe \/ QueryRunning \/ QueryStuck
  <2>1. UNCHANGED <<storeVars, ladder>>
    BY <1>6
       DEF StartProbe, BeginFastPoll, Reprobe, EnterLoop, QueryRunning, QueryStuck, gaugeVars
  <2> QED
    BY <1>4, <2>1
<1>7. CASE QueryBucket
  <2>1. UNCHANGED storeVars
    BY <1>7 DEF QueryBucket
  <2>2. PICK ok \in BOOLEAN :
          \A h \in WorkflowTypes, k \in 1..NumBuckets :
            ladder'[h][k] = IF ok /\ h = ftype /\ k = idx
              THEN [n |-> Cardinality(OverBudget(ftype, Buckets[idx], fnow)), at |-> fnow]
              ELSE ladder[h][k]
    BY <1>7, BucketEffect DEF FastIInv
  <2>3. \/ ladder'[i][j] = ladder[i][j]
        \/ ladder'[i][j] = [n |-> Cardinality(OverBudget(i, Buckets[j], fnow)), at |-> fnow]
    BY <2>2
  <2> QED
    BY <1>4, <2>1, <2>3
<1> QED
  BY <1>5, <1>6, <1>7 DEF FastNext, FastStep

-----------------------------------------------------------------------------
(* Every step keeps the invariant.                                         *)
LEMMA NextIInv == FastIInv /\ [FastNext]_fastPollVars => FastIInv'
BY NextType, NextDetection, NextFresh, NextLadder DEF FastIInv, Fresh

(* Every behaviour keeps it.                                               *)
LEMMA Invariance == FastSpec => []FastIInv
<1>1. FastPollInit => FastIInv
  BY FastInitIInv
<1> QED
  BY <1>1, NextIInv, PTL DEF FastSpec

(* The state of the fast poll and of the probe keeps its types.            *)
THEOREM FastPollTypeOK == FastSpec => []FastTypeOK
<1>1. FastIInv => FastTypeOK
  BY DEF FastIInv
<1> QED
  BY <1>1, Invariance, PTL

(* A rung never hides an execution that is past it and still open, and     *)
(* never counts one that was not past it, however many executions start    *)
(* and close and whichever queries fail (monitor.go 253-260).              *)
THEOREM FastPollLadder == FastSpec => []LadderBracketed
<1>1. FastIInv => LadderBracketed
  BY DEF FastIInv
<1> QED
  BY <1>1, Invariance, PTL

(* A stamp vouches for every gauge of its kind: one failing query does not *)
(* hide behind its siblings (monitor.go 243-247).                          *)
THEOREM FastPollFreshness == FastSpec => []FreshnessHonest
<1>1. FastIInv => FreshnessHonest
  BY DEF FastIInv
<1> QED
  BY <1>1, Invariance, PTL

(* Stuck executions are published only on a server that has the attribute, *)
(* and a transient error is never taken for a rejection (monitor.go        *)
(* 110-120).                                                               *)
THEOREM FastPollDetection == FastSpec => []DetectionHonest
<1>1. FastIInv => DetectionHonest
  BY DEF FastIInv
<1> QED
  BY <1>1, Invariance, PTL

-----------------------------------------------------------------------------
(* The alerts.                                                             *)

(* A ladder that is not stale was counted at a poll after the instant the  *)
(* property speaks of, so that its second rung counts what is late since.  *)
LEMMA SecondRungSees ==
  ASSUME SecondRungs # {}, "over_budget" \in DOMAIN StaleAfter, FastIInv
  PROVE  LateSeenOrStale
<1> SUFFICES ASSUME NEW i \in WorkflowTypes,
                    fresh[i]["over_budget"].stamp # NoSeries,
                    OverBudget(i, 2, clock - StaleAfter["over_budget"]
                      - (fresh[i]["over_budget"].stamp - fresh[i]["over_budget"].poll)) # {},
                    ~AlertStale(i, "over_budget")
             PROVE  AlertOverBudget(i)
  BY DEF LateSeenOrStale
<1> DEFINE last == fresh[i]["over_budget"]
           reported == clock - StaleAfter["over_budget"] - (last.stamp - last.poll)
<1>1. PICK j \in SecondRungs : TRUE
  OBVIOUS
<1>2. j \in 1..NumBuckets /\ Buckets[j] = 2
  BY <1>1 DEF SecondRungs
<1>3. StaleAfter["over_budget"] \in Nat
  BY VisibilityRulesAssumption
<1>4. /\ clock \in Int /\ last.stamp \in Int /\ last.poll \in Int
      /\ ladder[i][j].at \in Int /\ ladder[i][j].n \in Nat
  <2>1. ladder[i][j] \in GaugeValue
    <3>1. ladder \in [WorkflowTypes -> [1..NumBuckets -> GaugeValue]]
      BY DEF FastIInv, FastTypeOK, GaugeTypeOK
    <3> QED
      BY <1>2, <3>1
  <2> QED
    BY <1>2, <2>1, InstantsInt DEF FastIInv, GaugeValue, Kind
<1>5. clock - last.stamp <= StaleAfter["over_budget"]
  BY <1>3, <1>4 DEF AlertStale, MonitorStale, Absent, NoSeries
<1>6. last.poll <= ladder[i][j].at
  BY <1>2 DEF FastIInv, FreshnessHonest
<1>7. reported \in Int /\ reported <= ladder[i][j].at
  BY <1>3, <1>4, <1>5, <1>6
<1> HIDE DEF last, reported
<1>8. OverBudget(i, 2, reported) # {}
  BY DEF last, reported
<1>9. OverBudget(i, 2, reported) \subseteq OverBudget(i, 2, ladder[i][j].at)
  <2>1. /\ Cutoff(i, 2, reported) \in Int /\ Cutoff(i, 2, ladder[i][j].at) \in Int
        /\ Cutoff(i, 2, reported) <= Cutoff(i, 2, ladder[i][j].at)
    BY <1>4, <1>7, CutoffMonotone
  <2>2. \A e \in Execs : startTime[e] \in Int
    BY DEF FastIInv, FastTypeOK, VisibilityTypeOK
  <2> QED
    BY <2>1, <2>2 DEF OverBudget, Running
<1>10. Cardinality(OverBudget(i, 2, ladder[i][j].at)) >= 1
  <2>1. OverBudget(i, 2, ladder[i][j].at) \subseteq Execs
    BY DEF OverBudget, Running
  <2>2. OverBudget(i, 2, ladder[i][j].at) # {}
    BY <1>8, <1>9
  <2>3. /\ IsFiniteSet(OverBudget(i, 2, ladder[i][j].at))
        /\ Cardinality(OverBudget(i, 2, ladder[i][j].at)) \in Nat
    BY <2>1, Counted
  <2> QED
    BY <2>2, <2>3, FS_EmptySet
<1>11. ladder[i][j].at # NoSeries
  <2>1. PICK e \in Execs : startTime[e] < Cutoff(i, 2, ladder[i][j].at)
    BY <1>8, <1>9 DEF OverBudget, Running
  <2>2. startTime[e] \in Nat
    BY DEF FastIInv, FastTypeOK, VisibilityTypeOK
  <2>3. /\ Cutoff(i, 2, ladder[i][j].at) \in Int
        /\ Cutoff(i, 2, ladder[i][j].at) <= ladder[i][j].at
    <3>1. ladder[i][j].at \in Int /\ ladder[i][j].at <= ladder[i][j].at /\ 2 \in Nat
      BY <1>4
    <3> QED
      BY <3>1, CutoffMonotone
  <2> QED
    BY <1>4, <2>1, <2>2, <2>3 DEF NoSeries
<1>12. ladder[i][j].n > 0
  <2>1. Cardinality(OverBudget(i, 2, ladder[i][j].at)) <= ladder[i][j].n
    BY <1>2, <1>11 DEF FastIInv, LadderBracketed
  <2>2. Cardinality(OverBudget(i, 2, ladder[i][j].at)) \in Nat
    BY Counted DEF OverBudget, Running
  <2> QED
    BY <1>4, <1>10, <2>1, <2>2
<1> QED
  BY <1>1, <1>11, <1>12 DEF AlertOverBudget, ShownValue, ExecutionsOverBudget

(* An execution past twice its budget is on an alert, or the monitor is    *)
(* reported stale, whatever query failed: a gauge frozen by failures looks *)
(* healthy only for as long as the stamp is fresh                          *)
(* (generate_visibility_rules.py 186-193).  The alert selects bucket="2",  *)
(* so the ladder must have that rung; the default one does.                *)
THEOREM FastRulesLateSeen ==
  ASSUME SecondRungs # {}, "over_budget" \in DOMAIN StaleAfter
  PROVE  FastSpec => []LateSeenOrStale
<1>1. FastIInv => LateSeenOrStale
  BY SecondRungSees
<1> QED
  BY <1>1, Invariance, PTL

-----------------------------------------------------------------------------
(* Run, which drives the two polls.                                        *)

(* What leaves the variables of a poll and the store alone is no step of   *)
(* that poll.                                                              *)
LEMMA FastUnchanged ==
  ASSUME UNCHANGED <<visibilityVars, fastVars>>
  PROVE  UNCHANGED fastPollVars
BY DEF fastPollVars

(* The same of the window poll.                                            *)
LEMMA WindowUnchanged ==
  ASSUME UNCHANGED <<visibilityVars, windowVars>>
  PROVE  UNCHANGED windowPollVars
BY DEF windowPollVars

(* To the fast poll a step of the window poll is another user of the error *)
(* counter, and nothing else (monitor.go 261-277, one count for both).     *)
LEMMA WindowSeenByFast ==
  ASSUME BeginWindowPoll \/ WindowStep, UNCHANGED fastVars
  PROVE  [FastNext]_fastPollVars
<1>1. /\ UNCHANGED storeVars
      /\ UNCHANGED callVars \/ OtherQueryFails
  BY DEF BeginWindowPoll, WindowStep, QueryIn, QueryOver, QueryOpen, QueryTerm, SkipPublish,
         SetIn, SetOver, SetOpen, CountSucceeds, CountFails, OtherQueryFails, callVars
<1> QED
  BY <1>1, FastUnchanged DEF FastNext, FastEnvironment, visibilityVars

(* And the other way round.                                                *)
LEMMA FastSeenByWindow ==
  ASSUME BeginFastPoll \/ FastStep, UNCHANGED windowVars
  PROVE  [WindowNext]_windowPollVars
<1>1. /\ UNCHANGED storeVars
      /\ UNCHANGED callVars \/ OtherQueryFails
  BY DEF BeginFastPoll, FastStep, StartProbe, Reprobe, EnterLoop, QueryRunning, QueryBucket,
         QueryStuck, CountSucceeds, CountFails, OtherQueryFails, callVars
<1> QED
  BY <1>1, WindowUnchanged DEF WindowNext, WindowEnvironment, visibilityVars

(* Run drives the fast poll exactly as its module says: the probe first,   *)
(* and between two of its steps, which the window poll and the select loop *)
(* may be given, only what the module allows for (monitor.go 53-78).       *)
THEOREM MonitorFastPoll == Spec => ImplementsFastPoll
<1>1. Init => FastPollInit
  BY DEF Init, FastPollInit
<1>2. [Next]_vars => [FastNext]_fastPollVars
  <2> SUFFICES ASSUME [Next]_vars PROVE [FastNext]_fastPollVars
    OBVIOUS
  <2>1. CASE Environment
    BY <2>1 DEF Environment, FastNext, FastEnvironment
  <2>2. CASE FastTicker \/ WindowTicker \/ SelectDone \/ UNCHANGED vars
    BY <2>2, FastUnchanged DEF FastTicker, WindowTicker, SelectDone, vars
  <2>3. CASE Probe \/ FirstFast \/ SelectFast
    BY <2>3 DEF Probe, FirstFast, SelectFast, FastNext, FastStep
  <2>4. CASE FirstWindow \/ SelectWindow
    BY <2>4, WindowSeenByFast DEF FirstWindow, SelectWindow
  <2>5. CASE PollStep
    BY <2>5, WindowSeenByFast DEF PollStep, FastNext
  <2> QED
    BY <2>1, <2>2, <2>3, <2>4, <2>5 DEF Next, RunStep
<1> QED
  BY <1>1, <1>2, PTL DEF Spec, ImplementsFastPoll, FastSpec

(* Run drives the window poll exactly as its module says, although the     *)
(* same goroutine serves the fast one (monitor.go 53-78).                  *)
THEOREM MonitorWindowPoll == Spec => ImplementsWindowPoll
<1>1. Init => WindowPollInit
  BY DEF Init, WindowPollInit
<1>2. [Next]_vars => [WindowNext]_windowPollVars
  <2> SUFFICES ASSUME [Next]_vars PROVE [WindowNext]_windowPollVars
    OBVIOUS
  <2>1. CASE Environment
    BY <2>1 DEF Environment, WindowNext, WindowEnvironment
  <2>2. CASE FastTicker \/ WindowTicker \/ SelectDone \/ UNCHANGED vars
    BY <2>2, WindowUnchanged DEF FastTicker, WindowTicker, SelectDone, vars
  <2>3. CASE FirstWindow \/ SelectWindow
    BY <2>3 DEF FirstWindow, SelectWindow, WindowNext
  <2>4. CASE Probe \/ FirstFast \/ SelectFast
    BY <2>4, FastSeenByWindow DEF Probe, FirstFast, SelectFast, FastStep
  <2>5. CASE PollStep
    BY <2>5, FastSeenByWindow DEF PollStep, WindowNext
  <2> QED
    BY <2>1, <2>2, <2>3, <2>4, <2>5 DEF Next, RunStep
<1> QED
  BY <1>1, <1>2, PTL DEF Spec, ImplementsWindowPoll, WindowSpec

(* So what is proved of the polls, each on its own, holds of the process   *)
(* that runs them in one goroutine (monitor.go 53-79), whatever the other  *)
(* poll and the tickers do in between.                                     *)
THEOREM MonitorGaugesHonest ==
  Spec => [](/\ TermsOfOnePoll /\ NoDoubleCount /\ LateExecutionsCounted
             /\ LadderBracketed /\ FreshnessHonest /\ DetectionHonest
             /\ BudgetNotFlattered)
BY MonitorFastPoll, MonitorWindowPoll, FastPollLadder, FastPollFreshness, FastPollDetection,
   WindowPollTermsOfOnePoll, WindowPollNoDoubleCount, WindowPollLateCounted, WindowRulesBudget,
   PTL
DEF ImplementsFastPoll, ImplementsWindowPoll
=============================================================================
