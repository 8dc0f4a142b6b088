--------------------------- MODULE LimiterProofs ---------------------------
(***************************************************************************)
(* The limiter's counters are exact and it loses no wakeup, for any number *)
(* of requests, any limit and any number of configurations set meanwhile.  *)
(***************************************************************************)
EXTENDS Limiter, FiniteSetTheorems, TLAPS

IInv == TypeOK /\ CountsExact /\ NoLostWakeup

-----------------------------------------------------------------------------
(* The requests in some states, when one request changes its state.        *)

(* A request that enters a set of states adds one to it.                   *)
LEMMA Enters ==
  ASSUME NEW r \in Requests, NEW S, NEW new, TypeOK,
         req' = [req EXCEPT ![r] = new], req[r] \notin S, new \in S
  PROVE  Cardinality(In(S)') = Cardinality(In(S)) + 1
<1>1. In(S)' = In(S) \cup {r} /\ r \notin In(S)
  BY DEF In, TypeOK
<1>2. IsFiniteSet(In(S))
  BY LimiterAssumption, FS_Subset DEF In
<1> QED
  BY <1>1, <1>2, FS_AddElement

(* A request that leaves a set of states takes one from it.                *)
LEMMA Leaves ==
  ASSUME NEW r \in Requests, NEW S, NEW new, TypeOK,
         req' = [req EXCEPT ![r] = new], req[r] \in S, new \notin S
  PROVE  /\ Cardinality(In(S)') = Cardinality(In(S)) - 1
         /\ Cardinality(In(S)) > 0
<1>1. In(S)' = In(S) \ {r} /\ r \in In(S)
  BY DEF In, TypeOK
<1>2. IsFiniteSet(In(S))
  BY LimiterAssumption, FS_Subset DEF In
<1>3. Cardinality(In(S)') = Cardinality(In(S)) - 1
  BY <1>1, <1>2, FS_RemoveElement
<1>4. Cardinality(In(S)) # 0 /\ Cardinality(In(S)) \in Nat
  BY <1>1, <1>2, FS_EmptySet, FS_CardinalityType
<1> QED
  BY <1>3, <1>4

(* A request that moves inside a set of states, or outside it, leaves the  *)
(* set as it is.                                                           *)
LEMMA Stays ==
  ASSUME NEW r \in Requests, NEW S, NEW new, TypeOK,
         req' = [req EXCEPT ![r] = new], req[r] \in S <=> new \in S
  PROVE  In(S)' = In(S)
BY DEF In, TypeOK

(* The requests in some states can be counted.                             *)
LEMMA Counted ==
  ASSUME NEW S PROVE IsFiniteSet(In(S)) /\ Cardinality(In(S)) \in Nat
BY LimiterAssumption, FS_Subset, FS_CardinalityType DEF In

-----------------------------------------------------------------------------
(* Initially nothing is in flight and nobody waits.                        *)
LEMMA InitIInv == Init => IInv
<1> SUFFICES ASSUME Init PROVE IInv
  OBVIOUS
<1>1. In({"served"}) = {} /\ In({"asleep", "woken"}) = {} /\ In({"asleep"}) = {}
  BY DEF Init, In
<1>2. TypeOK
  BY DEF Init, TypeOK
<1> QED
  BY <1>1, <1>2, FS_EmptySet DEF IInv, CountsExact, NoLostWakeup, Init

(* A new request is admitted, or sleeps because the limit is reached.      *)
LEMMA ArriveKeeps ==
  ASSUME NEW r \in Requests, IInv, Arrive(r) PROVE IInv'
<1> USE DEF IInv
<1>1. req[r] = "new" /\ inflight \in Nat /\ waiting \in Nat /\ limit \in Nat
  BY DEF Arrive, TypeOK
<1>2. CASE inflight >= limit
  <2>1. req' = [req EXCEPT ![r] = "asleep"] /\ waiting' = waiting + 1 /\ UNCHANGED <<inflight, limit, pending>>
    BY <1>2 DEF Arrive
  <2>2. Cardinality(In({"asleep", "woken"})') = Cardinality(In({"asleep", "woken"})) + 1
    BY <1>1, <2>1, Enters
  <2>3. In({"served"})' = In({"served"})
    BY <1>1, <2>1, Stays
  <2>4. TypeOK'
    BY <1>1, <2>1 DEF TypeOK
  <2>5. CountsExact'
    BY <2>1, <2>2, <2>3 DEF CountsExact
  <2>6. NoLostWakeup'
    BY <1>1, <1>2, <2>1 DEF NoLostWakeup
  <2> QED
    BY <2>4, <2>5, <2>6
<1>3. CASE ~(inflight >= limit)
  <2>1. req' = [req EXCEPT ![r] = "served"] /\ inflight' = inflight + 1 /\ UNCHANGED <<waiting, limit, pending>>
    BY <1>3 DEF Arrive
  <2>2. Cardinality(In({"served"})') = Cardinality(In({"served"})) + 1
    BY <1>1, <2>1, Enters
  <2>3. In({"asleep", "woken"})' = In({"asleep", "woken"}) /\ In({"asleep"})' = In({"asleep"})
    BY <1>1, <2>1, Stays
  <2>4. TypeOK'
    BY <1>1, <2>1 DEF TypeOK
  <2>5. CountsExact'
    BY <2>1, <2>2, <2>3 DEF CountsExact
  <2>6. NoLostWakeup'
    BY <1>1, <1>3, <2>1, <2>3 DEF NoLostWakeup
  <2> QED
    BY <2>4, <2>5, <2>6
<1> QED
  BY <1>2, <1>3

(* A woken request is admitted, or sleeps again because the limit is       *)
(* reached.                                                                *)
LEMMA WakeKeeps ==
  ASSUME NEW r \in Requests, IInv, Wake(r) PROVE IInv'
<1> USE DEF IInv
<1>1. req[r] = "woken" /\ inflight \in Nat /\ waiting \in Nat /\ limit \in Nat
  BY DEF Wake, TypeOK
<1>2. CASE inflight >= limit
  <2>1. req' = [req EXCEPT ![r] = "asleep"] /\ UNCHANGED <<waiting, inflight, limit, pending>>
    BY <1>2 DEF Wake
  <2>2. In({"asleep", "woken"})' = In({"asleep", "woken"}) /\ In({"served"})' = In({"served"})
    BY <1>1, <2>1, Stays
  <2>3. TypeOK'
    BY <1>1, <2>1 DEF TypeOK
  <2>4. CountsExact'
    BY <2>1, <2>2 DEF CountsExact
  <2>5. NoLostWakeup'
    BY <1>1, <1>2, <2>1 DEF NoLostWakeup
  <2> QED
    BY <2>3, <2>4, <2>5
<1>3. CASE ~(inflight >= limit)
  <2>1. /\ req' = [req EXCEPT ![r] = "served"]
        /\ waiting' = waiting - 1 /\ inflight' = inflight + 1
        /\ UNCHANGED <<limit, pending>>
    BY <1>3 DEF Wake
  <2>2. Cardinality(In({"served"})') = Cardinality(In({"served"})) + 1
    BY <1>1, <2>1, Enters
  <2>3. /\ Cardinality(In({"asleep", "woken"})') = Cardinality(In({"asleep", "woken"})) - 1
        /\ Cardinality(In({"asleep", "woken"})) > 0
    BY <1>1, <2>1, Leaves
  <2>4. In({"asleep"})' = In({"asleep"})
    BY <1>1, <2>1, Stays
  <2>5. TypeOK'
    BY <1>1, <2>1, <2>3 DEF TypeOK, CountsExact
  <2>6. CountsExact'
    BY <2>1, <2>2, <2>3 DEF CountsExact
  <2>7. NoLostWakeup'
    BY <1>1, <1>3, <2>1, <2>4 DEF NoLostWakeup
  <2> QED
    BY <2>5, <2>6, <2>7
<1> QED
  BY <1>2, <1>3

(* A request that is served leaves a broadcast to come.                    *)
LEMMA ReleaseKeeps ==
  ASSUME NEW r \in Requests, IInv, Release(r) PROVE IInv'
<1> USE DEF IInv
<1>1. /\ req[r] = "served" /\ inflight \in Nat
      /\ req' = [req EXCEPT ![r] = "done"]
      /\ inflight' = inflight - 1 /\ pending' = pending \cup {r}
      /\ UNCHANGED <<limit, waiting>>
  BY DEF Release, TypeOK
<1>2. /\ Cardinality(In({"served"})') = Cardinality(In({"served"})) - 1
      /\ Cardinality(In({"served"})) > 0
  <2>1. TypeOK /\ req[r] \in {"served"} /\ "done" \notin {"served"}
    BY <1>1
  <2> QED
    BY <1>1, <2>1, Leaves
<1>3. In({"asleep", "woken"})' = In({"asleep", "woken"})
  BY <1>1, Stays
<1>4. TypeOK'
  BY <1>1, <1>2 DEF TypeOK, CountsExact
<1>5. CountsExact'
  BY <1>1, <1>2, <1>3 DEF CountsExact
<1>6. NoLostWakeup'
  BY <1>1 DEF NoLostWakeup
<1> QED
  BY <1>4, <1>5, <1>6

(* So does a new limit.                                                    *)
LEMMA SetLimitKeeps ==
  ASSUME NEW s \in Setters, NEW n \in 1..MaxLimit, IInv, SetLimit(s, n) PROVE IInv'
<1>1. TypeOK'
  BY LimiterAssumption DEF IInv, TypeOK, SetLimit
<1>2. CountsExact'
  BY DEF IInv, CountsExact, SetLimit, In
<1>3. NoLostWakeup'
  BY DEF NoLostWakeup, SetLimit
<1> QED
  BY <1>1, <1>2, <1>3 DEF IInv

(* A broadcast leaves nobody asleep.                                       *)
LEMMA BroadcastKeeps ==
  ASSUME NEW p \in Requests \cup Setters, IInv, Broadcast(p) PROVE IInv'
<1>1. req' = [r \in Requests |-> IF req[r] = "asleep" THEN "woken" ELSE req[r]]
  BY DEF Broadcast
<1>2. In({"asleep"})' = {}
  BY <1>1 DEF In
<1>3. In({"served"})' = In({"served"}) /\ In({"asleep", "woken"})' = In({"asleep", "woken"})
  BY <1>1 DEF In, IInv, TypeOK
<1>4. TypeOK'
  BY <1>1 DEF IInv, TypeOK, Broadcast
<1>5. CountsExact'
  BY <1>3 DEF IInv, CountsExact, Broadcast
<1>6. NoLostWakeup'
  BY <1>2 DEF NoLostWakeup
<1> QED
  BY <1>4, <1>5, <1>6 DEF IInv

(* Every step keeps the invariant.                                         *)
LEMMA NextIInv == IInv /\ [Next]_vars => IInv'
<1> SUFFICES ASSUME IInv, [Next]_vars PROVE IInv'
  OBVIOUS
<1>1. CASE \E r \in Requests : Handle(r)
  BY <1>1, ArriveKeeps, WakeKeeps, ReleaseKeeps DEF Handle
<1>2. CASE \E s \in Setters, n \in 1..MaxLimit : SetLimit(s, n)
  BY <1>2, SetLimitKeeps
<1>3. CASE \E p \in Requests \cup Setters : Broadcast(p)
  BY <1>3, BroadcastKeeps
<1>4. CASE UNCHANGED vars
  BY <1>4 DEF vars, IInv, TypeOK, CountsExact, NoLostWakeup, In
<1> QED
  BY <1>1, <1>2, <1>3, <1>4 DEF Next

(* The limiter's state is always well formed: neither counter is ever      *)
(* negative.                                                               *)
THEOREM LimiterTypeOK == Spec => []TypeOK
<1>1. IInv => TypeOK
  BY DEF IInv
<1> QED
  BY InitIInv, NextIInv, <1>1, PTL DEF Spec

(* The counters the UI shows are exact, whatever limits were set.          *)
THEOREM LimiterCountsExact == Spec => []CountsExact
<1>1. IInv => CountsExact
  BY DEF IInv
<1> QED
  BY InitIInv, NextIInv, <1>1, PTL DEF Spec

(* No request sleeps beside a free place, unless a broadcast is to come.   *)
THEOREM LimiterNoLostWakeup == Spec => []NoLostWakeup
<1>1. IInv => NoLostWakeup
  BY DEF IInv
<1> QED
  BY InitIInv, NextIInv, <1>1, PTL DEF Spec

(* No step adds a request while more are in flight than the limit allows:  *)
(* a request that arrives or wakes is admitted only below the limit, a     *)
(* lower limit or a broadcast admits nobody.                               *)
LEMMA NextNeverAbove ==
  TypeOK /\ [Next]_vars => (inflight > limit => inflight' <= inflight)
<1> SUFFICES ASSUME TypeOK, [Next]_vars, inflight > limit PROVE inflight' <= inflight
  OBVIOUS
<1>1. inflight \in Nat /\ limit \in Nat
  BY DEF TypeOK
<1>2. CASE \E r \in Requests : Handle(r)
  <2>1. PICK r \in Requests : Arrive(r) \/ Wake(r) \/ Release(r)
    BY <1>2 DEF Handle
  <2>2. CASE Arrive(r)
    BY <1>1, <2>2 DEF Arrive
  <2>3. CASE Wake(r)
    BY <1>1, <2>3 DEF Wake
  <2>4. CASE Release(r)
    BY <1>1, <2>4 DEF Release
  <2> QED
    BY <2>1, <2>2, <2>3, <2>4
<1>3. CASE \E s \in Setters, n \in 1..MaxLimit : SetLimit(s, n)
  BY <1>1, <1>3 DEF SetLimit
<1>4. CASE \E p \in Requests \cup Setters : Broadcast(p)
  BY <1>1, <1>4 DEF Broadcast
<1>5. CASE UNCHANGED vars
  BY <1>1, <1>5 DEF vars
<1> QED
  BY <1>2, <1>3, <1>4, <1>5 DEF Next

(* A lowered limit is respected by every admission that follows.           *)
THEOREM LimiterNeverAbove == Spec => NeverAbove
<1>1. IInv => TypeOK
  BY DEF IInv
<1> QED
  BY InitIInv, NextIInv, NextNeverAbove, <1>1, PTL DEF Spec, NeverAbove

=============================================================================
