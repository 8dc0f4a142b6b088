----------------------- MODULE PercentileSearchProofs -----------------------
(***************************************************************************)
(* The results of the percentile search cover the percentile and are tight,*)
(* whatever the durations, the percentiles, the tolerance, the range, the  *)
(* cap on the queries, and whatever completes while the search runs.       *)
(*                                                                         *)
(* The bisection keeps the percentile between lo and hi although the store *)
(* grows under it: hi covers the rank in the store as it is now, lo misses *)
(* it in the store as it was counted.                                      *)
(***************************************************************************)
EXTENDS PercentileSearch, FiniteSetTheorems, SequenceTheorems, TLAPS

Bracketed ==
  pc = "search" => Count(closed, hi) >= target /\ Count(counted, lo) < target

IInv ==
  /\ TypeOK
  /\ total = Cardinality(counted)
  /\ pc \in {"range", "search"} => total > 0
  /\ pc = "total" => results = <<>>
  /\ Bracketed
  /\ CoversPercentile
  /\ TightPercentile

-----------------------------------------------------------------------------
(* A larger store, or a longer duration, counts at least as many.          *)
LEMMA CountGrows ==
  ASSUME NEW S \in SUBSET Execs, NEW T \in SUBSET Execs, S \subseteq T,
         NEW c \in Int, NEW d \in Int, c <= d
  PROVE  /\ Count(S, c) \in Nat
         /\ Count(T, d) \in Nat
         /\ Count(S, c) <= Count(T, d)
<1>1. AtMost(S, c) \subseteq AtMost(T, d)
  BY PercentileAssumption DEF AtMost
<1>2. IsFiniteSet(AtMost(T, d))
  BY PercentileAssumption, FS_Subset DEF AtMost
<1> QED
  BY <1>1, <1>2, FS_Subset, FS_CardinalityType DEF Count

(* No execution takes no time.                                             *)
LEMMA CountNone ==
  ASSUME NEW S \in SUBSET Execs, NEW d \in Int, d <= 0
  PROVE  Count(S, d) = 0
<1>1. AtMost(S, d) = {}
  BY PercentileAssumption DEF AtMost
<1> QED
  BY <1>1, FS_EmptySet DEF Count

(* The rank is the least that covers the percentile.                       *)
LEMMA RankCovers ==
  \A n \in Nat \ {0}, p \in 1..1000 :
    /\ Rank(n, p) \in 1..n
    /\ 1000 * Rank(n, p) >= p * n
    /\ \A m \in Nat : m < Rank(n, p) => 1000 * m < p * n
<1> TAKE n \in Nat \ {0}, p \in 1..1000
<1>1. PICK x \in Int : x = n * p
  OBVIOUS
<1>2. p * n = x /\ x >= 1
  BY <1>1
<1>3. 1000 * n - x = n * (1000 - p)
  BY <1>1
<1>4. x <= 1000 * n
  <2>1. n * (1000 - p) >= 0
    OBVIOUS
  <2> QED
    BY <1>1, <1>3, <2>1
<1>5. PICK r \in Int : r = (x + 999) \div 1000
  BY <1>1
<1>6. 1000 * r <= x + 999 /\ x + 999 < 1000 * r + 1000
  BY <1>1, <1>5
<1>7. r >= 1 /\ r <= n
  BY <1>2, <1>4, <1>6
<1>8. Rank(n, p) = r
  BY <1>1, <1>5, <1>7 DEF Rank
<1> QED
  BY <1>2, <1>6, <1>7, <1>8

(* The percentile that is searched for, and its rank.                      *)
LEMMA TargetCovers ==
  ASSUME TypeOK, total > 0
  PROVE  /\ Percentiles[k] \in 1..1000
         /\ target \in 1..total
         /\ 1000 * target >= Percentiles[k] * total
         /\ \A m \in Nat : m < target => 1000 * m < Percentiles[k] * total
<1> DEFINE T == 1..1000
<1>1. k \in 1..Len(Percentiles) /\ Percentiles \in Seq(T)
  BY PercentileAssumption DEF TypeOK, NumPercentiles
<1>2. Percentiles[k] \in T
  <2> HIDE DEF T
  <2> QED
    BY <1>1, ElementOfSeq
<1>3. total \in Nat \ {0}
  BY DEF TypeOK
<1>4. PICK n \in Nat \ {0}, p \in 1..1000 : n = total /\ p = Percentiles[k]
  BY <1>2, <1>3
<1>5. /\ Rank(n, p) \in 1..n
      /\ 1000 * Rank(n, p) >= p * n
      /\ \A m \in Nat : m < Rank(n, p) => 1000 * m < p * n
  BY RankCovers, ZenonT(30)
<1> QED
  BY <1>4, <1>5 DEF target

-----------------------------------------------------------------------------
(* Before the first query nothing is claimed yet.                          *)
LEMMA InitIInv == Init => IInv
<1> SUFFICES ASSUME Init PROVE IInv
  OBVIOUS
<1>1. /\ NumPercentiles \in Nat \ {0}
      /\ MaxDuration \in Nat \ {0}
      /\ MaxQueries \in Nat \ {0}
  BY PercentileAssumption DEF NumPercentiles
<1>2. TypeOK
  BY <1>1 DEF Init, TypeOK
<1> QED
  BY <1>2, FS_EmptySet DEF Init, IInv, Bracketed, CoversPercentile, TightPercentile

-----------------------------------------------------------------------------
(* A result that is appended.                                              *)
LEMMA AppendResult ==
  ASSUME NEW s \in Seq(Result), NEW r \in Result, NEW t, t = Append(s, r)
  PROVE  /\ t \in Seq(Result)
         /\ \A i \in DOMAIN t : (i \in DOMAIN s /\ t[i] = s[i]) \/ t[i] = r
<1>1. t \in Seq(Result) /\ Len(t) = Len(s) + 1 /\ Len(s) \in Nat
  OBVIOUS
<1>2. DOMAIN t = 1..Len(t) /\ DOMAIN s = 1..Len(s)
  BY <1>1
<1> SUFFICES ASSUME NEW i \in DOMAIN t
             PROVE  (i \in DOMAIN s /\ t[i] = s[i]) \/ t[i] = r
  BY <1>1
<1>3. CASE i = Len(s) + 1
  BY <1>1, <1>3
<1>4. CASE i \in 1..Len(s)
  BY <1>1, <1>2, <1>4
<1> QED
  BY <1>1, <1>2, <1>3, <1>4

(* What the search does when it has found a percentile keeps everything if *)
(* the result is right.                                                    *)
LEMMA FoundKeeps ==
  ASSUME IInv, pc \in {"range", "search"},
         NEW d \in 0..MaxDuration, NEW n \in Nat, NEW conv \in BOOLEAN, NEW above \in BOOLEAN,
         Found(d, n, conv, above), n <= MaxQueries,
         UNCHANGED <<closed, callVars, lo, hi>>, queries' = n,
         ~above => Count(closed, d) >= target,
         conv => Count(counted, d - tolerance) < target,
         above => Count(counted, MaxDuration) < target /\ ~conv
  PROVE  IInv'
<1> DEFINE r == [p |-> Percentiles[k], duration |-> d, queries |-> n,
                 converged |-> conv, aboveRange |-> above]
<1>1. TypeOK /\ total \in Nat /\ total > 0 /\ tolerance \in Nat
  BY PercentileAssumption DEF IInv, TypeOK
<1>2. r \in Result
  BY <1>1, TargetCovers DEF Result
<1>3. results' = Append(results, r) /\ results \in Seq(Result)
  BY <1>1 DEF Found, TypeOK
<1>4. /\ results' \in Seq(Result)
      /\ \A i \in DOMAIN results' : \/ i \in DOMAIN results /\ results'[i] = results[i]
                                    \/ results'[i] = r
  BY <1>2, <1>3, AppendResult
<1>6. pc' \in {"done", "range"} /\ k' \in 1..NumPercentiles
  BY <1>1, PercentileAssumption DEF Found, TypeOK, NumPercentiles
<1>7. TypeOK'
  BY <1>1, <1>4, <1>6, PercentileAssumption DEF TypeOK, callVars
<1>8. /\ Count(closed, d) \in Nat
      /\ Count(counted, d - tolerance) \in Nat
      /\ Count(counted, MaxDuration) \in Nat
  BY <1>1, CountGrows, PercentileAssumption DEF TypeOK
<1>9. Covers(r) /\ Tight(r)
  <2>1. ~above => 1000 * Count(closed, d) >= Percentiles[k] * total
    BY <1>1, <1>8, TargetCovers, Z3
  <2>2. conv => 1000 * Count(counted, d - tolerance) < Percentiles[k] * total
    BY <1>1, <1>8, TargetCovers
  <2>3. above => 1000 * Count(counted, MaxDuration) < Percentiles[k] * total
    BY <1>1, <1>8, TargetCovers
  <2> QED
    BY <2>1, <2>2, <2>3 DEF Covers, Tight
<1>10. \A i \in DOMAIN results' : Covers(results'[i]) /\ Tight(results'[i])
  BY <1>4, <1>9 DEF IInv, CoversPercentile, TightPercentile
<1>11. CoversPercentile' /\ TightPercentile'
  BY <1>10 DEF CoversPercentile, TightPercentile, Covers, Tight, callVars
<1>12. pc' # "total" /\ (pc' = "range" => total' > 0) /\ Bracketed'
  BY <1>1, <1>6 DEF Bracketed, callVars
<1>13. total' = Cardinality(counted')
  BY DEF callVars, IInv
<1> QED
  BY <1>6, <1>7, <1>11, <1>12, <1>13 DEF IInv

(* Every step keeps the invariant.                                         *)
LEMMA NextKeeps == IInv /\ [Next]_vars => IInv'
<1> SUFFICES ASSUME IInv, [Next]_vars PROVE IInv'
  OBVIOUS
<1>1. /\ TypeOK
      /\ total \in Nat /\ tolerance \in Nat /\ lo \in Int /\ hi \in Int
      /\ MaxDuration \in Nat \ {0} /\ MaxQueries \in Nat \ {0}
      /\ closed \subseteq Execs /\ counted \subseteq closed
  BY PercentileAssumption DEF IInv, TypeOK
<1>2. ASSUME NEW e \in Execs, Complete(e) PROVE IInv'
  <2>1. TypeOK'
    BY <1>1, <1>2 DEF Complete, TypeOK, callVars, searchVars
  <2>2. \A d \in Int : Count(closed', d) >= Count(closed, d) /\ Count(closed', d) \in Nat
                       /\ Count(closed, d) \in Nat
    BY <1>1, <1>2, CountGrows DEF Complete
  <2>3. target' = target /\ (pc' = "search" => target \in Int)
    BY <1>1, <1>2, TargetCovers DEF Complete, callVars, target, IInv
  <2>4. Bracketed'
    <3> SUFFICES ASSUME pc = "search"
                 PROVE  Count(closed', hi) >= target /\ Count(counted, lo) < target
      BY <1>2, <2>3 DEF Complete, callVars, searchVars, Bracketed
    <3>1. Count(closed, hi) >= target /\ Count(counted, lo) < target /\ target \in Int
      BY <1>2, <2>3 DEF Bracketed, IInv, Complete
    <3> QED
      BY <1>1, <2>2, <3>1
  <2>5. \A r \in Result : Covers(r) => Covers(r)'
    <3> SUFFICES ASSUME NEW r \in Result, Covers(r) PROVE Covers(r)'
      OBVIOUS
    <3>1. r.duration \in Int /\ r.p \in Int
      BY <1>1 DEF Result
    <3>2. PICK x \in Int : x = r.p * total
      BY <1>1, <3>1
    <3>3. PICK c \in Nat : c = Count(closed, r.duration)
      BY <2>2, <3>1
    <3>4. Count(closed', r.duration) >= c /\ Count(closed', r.duration) \in Nat
      BY <2>2, <3>1, <3>3
    <3>5. ~r.aboveRange => 1000 * c >= x
      BY <3>2, <3>3 DEF Covers
    <3>6. ~r.aboveRange => 1000 * Count(closed', r.duration) >= x
      BY <3>4, <3>5
    <3> QED
      BY <1>2, <3>2, <3>6 DEF Complete, callVars, Covers
  <2>6. \A i \in DOMAIN results : results[i] \in Result
    BY <1>1, ElementOfSeq DEF TypeOK
  <2>7. CoversPercentile'
    BY <1>2, <2>5, <2>6 DEF Complete, CoversPercentile, IInv
  <2>8. TightPercentile'
    BY <1>2 DEF Complete, callVars, Tight, TightPercentile, IInv
  <2> QED
    BY <1>2, <2>1, <2>4, <2>7, <2>8 DEF IInv, Complete, callVars
<1>3. CASE CountTotal
  <2>1. Cardinality(closed) \in Nat /\ (closed # {} => Cardinality(closed) > 0)
    BY <1>1, PercentileAssumption, FS_Subset, FS_CardinalityType, FS_EmptySet
  <2>2. TypeOK'
    BY <1>1, <1>3, <2>1 DEF CountTotal, TypeOK, searchVars
  <2>3. results' = <<>> /\ pc' \in {"done", "range"} /\ (pc' = "range" => total' > 0)
    BY <1>3, <2>1 DEF CountTotal, IInv
  <2> QED
    BY <1>3, <2>2, <2>3 DEF CountTotal, IInv, Bracketed, CoversPercentile, TightPercentile
<1>4. CASE QueryFails
  <2>1. TypeOK'
    BY <1>1, <1>4 DEF QueryFails, TypeOK, callVars, searchVars
  <2> QED
    BY <1>4, <2>1 DEF QueryFails, IInv, callVars, Bracketed, CoversPercentile, TightPercentile
<1>5. CASE Probe
  <2>1. pc = "range" /\ total > 0
    BY <1>5 DEF Probe, IInv
  <2>2. target \in 1..total
    BY <1>1, <2>1, TargetCovers
  <2>3. /\ Count(counted, MaxDuration) <= Count(closed, MaxDuration)
        /\ Count(counted, MaxDuration) \in Nat
        /\ Count(closed, MaxDuration) \in Nat
    BY <1>1, CountGrows
  <2>4. CASE Count(closed, MaxDuration) < target
    <3>1. Found(MaxDuration, 1, FALSE, TRUE) /\ UNCHANGED <<closed, callVars, lo, hi>>
          /\ queries' = 1
      BY <1>5, <2>4 DEF Probe
    <3>2. Count(counted, MaxDuration) < target
      BY <2>2, <2>3, <2>4
    <3>3. MaxDuration \in 0..MaxDuration /\ 1 <= MaxQueries /\ pc \in {"range", "search"}
      BY <1>1, <2>1
    <3> QED
      BY <3>1, <3>2, <3>3, FoundKeeps
  <2>5. CASE ~(Count(closed, MaxDuration) < target)
    <3>1. /\ pc' = "search" /\ lo' = 0 /\ hi' = MaxDuration /\ queries' = 1
          /\ UNCHANGED <<k, results, closed, callVars>>
      BY <1>5, <2>5 DEF Probe
    <3>2. TypeOK'
      BY <1>1, <3>1 DEF TypeOK, callVars
    <3>3. Count(counted, 0) = 0
      BY <1>1, CountNone
    <3>4. Bracketed'
      BY <2>2, <2>3, <2>5, <3>1, <3>3 DEF Bracketed, callVars, target
    <3>5. CoversPercentile' /\ TightPercentile'
      BY <3>1 DEF IInv, CoversPercentile, TightPercentile, Covers, Tight, callVars
    <3> QED
      BY <2>1, <3>1, <3>2, <3>4, <3>5 DEF IInv, callVars
  <2> QED
    BY <2>4, <2>5
<1>6. CASE Bisect
  <2> DEFINE mid == lo + (hi - lo) \div 2
  <2>1. pc = "search" /\ total > 0 /\ Count(closed, hi) >= target /\ Count(counted, lo) < target
    BY <1>6 DEF Bisect, IInv, Bracketed
  <2>2. target \in 1..total
    BY <1>1, <2>1, TargetCovers
  <2>3. mid \in lo..hi /\ mid \in 0..MaxDuration
    BY <1>1 DEF TypeOK
  <2> HIDE DEF mid
  <2>4. /\ Count(counted, mid) <= Count(closed, mid)
        /\ Count(counted, mid) \in Nat
        /\ Count(closed, mid) \in Nat
    BY <1>1, <2>3, CountGrows
  <2>5. /\ queries < MaxQueries /\ queries' = queries + 1
        /\ UNCHANGED <<closed, callVars, pc, k, results>>
        /\ \/ Count(closed, mid) >= target /\ hi' = mid /\ lo' = lo
           \/ ~(Count(closed, mid) >= target) /\ lo' = mid /\ hi' = hi
    BY <1>6 DEF Bisect, mid
  <2>6. lo' \in 0..MaxDuration /\ hi' \in lo'..MaxDuration
    BY <1>1, <2>3, <2>5 DEF TypeOK
  <2>7. TypeOK'
    BY <1>1, <2>5, <2>6 DEF TypeOK, callVars
  <2>8. Bracketed'
    BY <2>1, <2>2, <2>4, <2>5 DEF Bracketed, callVars, target
  <2>9. CoversPercentile' /\ TightPercentile'
    BY <2>5 DEF IInv, CoversPercentile, TightPercentile, Covers, Tight, callVars
  <2> QED
    BY <2>1, <2>5, <2>7, <2>8, <2>9 DEF IInv, callVars
<1>7. CASE Conclude
  <2> DEFINE conv == hi - lo <= tolerance
  <2>1. pc = "search" /\ total > 0 /\ Count(closed, hi) >= target /\ Count(counted, lo) < target
    BY <1>7 DEF Conclude, IInv, Bracketed
  <2>2. target \in 1..total
    BY <1>1, <2>1, TargetCovers
  <2>3. conv => Count(counted, hi - tolerance) < target
    <3>1. CASE hi - tolerance <= lo
      BY <1>1, <2>1, <2>2, <3>1, CountGrows
    <3> QED
      BY <1>1, <3>1
  <2>4. hi \in 0..MaxDuration /\ queries \in Nat /\ queries <= MaxQueries
    BY <1>1 DEF TypeOK
  <2>5. Found(hi, queries, conv, FALSE) /\ UNCHANGED <<closed, callVars, lo, hi>>
        /\ queries' = queries
    BY <1>7 DEF Conclude, searchVars
  <2>6. conv \in BOOLEAN
    OBVIOUS
  <2> HIDE DEF conv
  <2> QED
    BY <2>1, <2>3, <2>4, <2>5, <2>6, FoundKeeps
<1>8. CASE UNCHANGED vars
  <2>1. TypeOK' /\ Bracketed'
    BY <1>8 DEF vars, callVars, searchVars, IInv, TypeOK, Bracketed, target
  <2>2. CoversPercentile' /\ TightPercentile'
    BY <1>8 DEF vars, callVars, IInv, CoversPercentile, TightPercentile, Covers, Tight
  <2> QED
    BY <1>8, <2>1, <2>2 DEF vars, callVars, IInv
<1> QED
  BY <1>2, <1>3, <1>4, <1>5, <1>6, <1>7, <1>8 DEF Next, Search

-----------------------------------------------------------------------------
(* IInv holds in every reachable state.                                    *)
LEMMA Invariant == Spec => []IInv
  BY InitIInv, NextKeeps, PTL DEF Spec

(* The state of a search keeps its types: the interval stays inside the    *)
(* range and in order, the queries stay under their cap.                   *)
THEOREM PercentileTypeOK == Spec => []TypeOK
<1>1. IInv => TypeOK
  BY DEF IInv
<1> QED
  BY <1>1, Invariant, PTL

(* A result that is not flagged covers the percentile that was asked for.  *)
THEOREM PercentileCovers == Spec => []CoversPercentile
<1>1. IInv => CoversPercentile
  BY DEF IInv
<1> QED
  BY <1>1, Invariant, PTL

(* A converged result is less than the tolerance above the percentile, and *)
(* a percentile flagged as above the range is above it.                    *)
THEOREM PercentileTight == Spec => []TightPercentile
<1>1. IInv => TightPercentile
  BY DEF IInv
<1> QED
  BY <1>1, Invariant, PTL

=============================================================================
