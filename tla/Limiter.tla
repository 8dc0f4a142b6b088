------------------------------ MODULE Limiter ------------------------------
(***************************************************************************)
(* The lab's fake dependency (demo/lab/controller.go, limiter and          *)
(* handleDownstream): it admits limit requests at a time, the others wait  *)
(* on a condition variable, and the limit changes while they wait.         *)
(*                                                                         *)
(* A step is what one holder of the mutex does.  release and setLimit      *)
(* broadcast after unlocking, so that the broadcast is a step of its own;  *)
(* a waiter that is woken takes the mutex again in a later step, when the  *)
(* limit may be reached once more.                                         *)
(***************************************************************************)
EXTENDS Integers, FiniteSets

CONSTANTS
  Requests, \* requests to /downstream, each served by a goroutine
  Setters,  \* requests that set a configuration
  MaxLimit  \* the limit is between 1 and MaxLimit

ASSUME LimiterAssumption ==
  /\ IsFiniteSet(Requests)
  /\ Requests \cap Setters = {}
  /\ MaxLimit \in Nat \ {0}

VARIABLES
  limit,    \* l.limit
  inflight, \* l.inflight
  waiting,  \* l.waiting
  req,      \* what each request does
  pending   \* requests that have unlocked and not yet broadcast

vars == <<limit, inflight, waiting, req, pending>>

In(states) == {r \in Requests : req[r] \in states}

TypeOK ==
  /\ limit \in 1..MaxLimit
  /\ inflight \in Nat
  /\ waiting \in Nat
  /\ req \in [Requests -> {"new", "asleep", "woken", "served", "done"}]
  /\ pending \subseteq Requests \cup Setters

Init ==
  /\ limit \in 1..MaxLimit
  /\ inflight = 0
  /\ waiting = 0
  /\ req = [r \in Requests |-> "new"]
  /\ pending = {}

-----------------------------------------------------------------------------
(* acquire: counted as waiting, then admitted or put to sleep.             *)

Arrive(r) ==
  /\ req[r] = "new"
  /\ IF inflight >= limit
     THEN /\ req' = [req EXCEPT ![r] = "asleep"]
          /\ waiting' = waiting + 1
          /\ UNCHANGED inflight
     ELSE /\ req' = [req EXCEPT ![r] = "served"]
          /\ inflight' = inflight + 1
          /\ UNCHANGED waiting
  /\ UNCHANGED <<limit, pending>>

(* With a bug: a woken waiter does not look at the limit again.            *)
WakeUnchecked(r) ==
  /\ req[r] = "woken"
  /\ req' = [req EXCEPT ![r] = "served"]
  /\ waiting' = waiting - 1
  /\ inflight' = inflight + 1
  /\ UNCHANGED <<limit, pending>>

Wake(r) ==
  /\ req[r] = "woken"
  /\ IF inflight >= limit
     THEN /\ req' = [req EXCEPT ![r] = "asleep"]
          /\ UNCHANGED <<waiting, inflight>>
     ELSE /\ req' = [req EXCEPT ![r] = "served"]
          /\ waiting' = waiting - 1
          /\ inflight' = inflight + 1
  /\ UNCHANGED <<limit, pending>>

(* With a bug: the release of an admitted request wakes nobody.            *)
ReleaseSilently(r) ==
  /\ req[r] = "served"
  /\ req' = [req EXCEPT ![r] = "done"]
  /\ inflight' = inflight - 1
  /\ UNCHANGED <<limit, waiting, pending>>

(* With a bug: a client that goes while its request is queued releases it. *)
ReleaseQueued(r) ==
  /\ req[r] \in {"served", "woken"}
  /\ req' = [req EXCEPT ![r] = "done"]
  /\ inflight' = inflight - 1
  /\ pending' = pending \cup {r}
  /\ UNCHANGED <<limit, waiting>>

(* handleDownstream has waited, or its client has gone: release.           *)
Release(r) ==
  /\ req[r] = "served"
  /\ req' = [req EXCEPT ![r] = "done"]
  /\ inflight' = inflight - 1
  /\ pending' = pending \cup {r}
  /\ UNCHANGED <<limit, waiting>>

(* With a bug: setLimit does not broadcast.                                *)
SetLimitSilently(s, n) ==
  /\ s \notin pending
  /\ limit' = n
  /\ UNCHANGED <<inflight, waiting, req, pending>>

SetLimit(s, n) ==
  /\ s \notin pending
  /\ limit' = n
  /\ pending' = pending \cup {s}
  /\ UNCHANGED <<inflight, waiting, req>>

Broadcast(p) ==
  /\ p \in pending
  /\ pending' = pending \ {p}
  /\ req' = [r \in Requests |-> IF req[r] = "asleep" THEN "woken" ELSE req[r]]
  /\ UNCHANGED <<limit, inflight, waiting>>

Handle(r) == Arrive(r) \/ Wake(r) \/ Release(r)

Next ==
  \/ \E r \in Requests : Handle(r)
  \/ \E s \in Setters, n \in 1..MaxLimit : SetLimit(s, n)
  \/ \E p \in Requests \cup Setters : Broadcast(p)

Spec == Init /\ [][Next]_vars

(* Every goroutine runs: a request that can take the mutex does in the     *)
(* end, and what is unlocked is broadcast.  Nobody need set a limit.       *)
FairSpec ==
  /\ Spec
  /\ \A r \in Requests : WF_vars(Handle(r))
  /\ \A p \in Requests \cup Setters : WF_vars(Broadcast(p))

-----------------------------------------------------------------------------
(* Properties.                                                             *)

(* The counters the UI shows, and the diagnosis reads, are what they say:  *)
(* requests admitted and requests queued (controller.go 727-731, 818).     *)
CountsExact ==
  /\ inflight = Cardinality(In({"served"}))
  /\ waiting = Cardinality(In({"asleep", "woken"}))

(* No wakeup is lost: a request sleeps while there is room only if a       *)
(* broadcast that will wake it is still to come.                           *)
NoLostWakeup ==
  In({"asleep"}) # {} /\ inflight < limit => pending # {}

(* The dependency is work-conserving: a request that waits is served in    *)
(* the end, whatever becomes of the limit.                                 *)
EveryRequestServed == \A r \in Requests : req[r] # "new" ~> req[r] = "done"

(* A lowered limit is respected: while more requests are in flight than it *)
(* allows, none is added.                                                  *)
NeverAbove == [][inflight > limit => inflight' <= inflight]_vars

=============================================================================
