-------------------------- MODULE PercentileSearch --------------------------
(***************************************************************************)
(* DurationPercentiles (monitor/internal/visibility/percentile.go), the    *)
(* search of budget-derive: percentiles of the duration of completed       *)
(* executions, found by bisection over count queries.                      *)
(*                                                                         *)
(* Every query is a step.  The queries have a lower bound on CloseTime and *)
(* no upper one, so that executions which complete while the search runs   *)
(* are counted by the later queries and not by the earlier ones.  None     *)
(* leaves the store: its retention is longer than the lookback.            *)
(***************************************************************************)
EXTENDS Integers, Sequences, FiniteSets

CONSTANTS
  Execs,       \* executions of the type that complete inside the lookback
  DurationOf,  \* [Execs -> duration], ExecutionDuration
  Percentiles, \* a sequence of percentiles, in thousandths
  MaxDuration, \* maxDuration
  Tolerances,  \* values of tolerance
  MaxQueries   \* 40

NumPercentiles == Len(Percentiles)

ASSUME PercentileAssumption ==
  /\ IsFiniteSet(Execs)
  /\ DurationOf \in [Execs -> Nat \ {0}]
  /\ Percentiles \in Seq(1..1000)
  /\ NumPercentiles > 0
  /\ MaxDuration \in Nat \ {0}
  /\ Tolerances \subseteq Nat
  /\ MaxQueries \in Nat \ {0}

VARIABLES
  closed,    \* executions that have completed
  counted,   \* those that total counted
  tolerance, \* tolerance
  pc,        \* the next query
  total,     \* total
  k,         \* index of the percentile, p
  lo, hi,    \* lo, hi
  queries,   \* queries
  results    \* results

callVars == <<tolerance, total, counted>>
searchVars == <<lo, hi, queries>>
vars == <<closed, callVars, pc, k, searchVars, results>>

(* The answer to ClosedDurationAtMost(d) when S has completed.             *)
AtMost(S, d) == {e \in S : DurationOf[e] <= d}
Count(S, d) == Cardinality(AtMost(S, d))

(* With a bug: the rank is rounded down.                                   *)
RankDown(n, p) == LET r == (n * p) \div 1000 IN IF r < 1 THEN 1 ELSE IF r > n THEN n ELSE r

Rank(n, p) == LET r == (n * p + 999) \div 1000 IN IF r < 1 THEN 1 ELSE IF r > n THEN n ELSE r
target == Rank(total, Percentiles[k])

Result == [p : 1..1000, duration : 0..MaxDuration, queries : Nat,
           converged : BOOLEAN, aboveRange : BOOLEAN]

TypeOK ==
  /\ closed \subseteq Execs
  /\ counted \subseteq closed
  /\ tolerance \in Tolerances
  /\ pc \in {"total", "range", "search", "done", "failed"}
  /\ total \in Nat
  /\ k \in 1..NumPercentiles
  /\ lo \in 0..MaxDuration
  /\ hi \in lo..MaxDuration
  /\ queries \in 0..MaxQueries
  /\ results \in Seq(Result)

Init ==
  /\ closed \in SUBSET Execs
  /\ counted = {}
  /\ tolerance \in Tolerances
  /\ pc = "total"
  /\ total = 0
  /\ k = 1
  /\ lo = 0
  /\ hi = MaxDuration
  /\ queries = 0
  /\ results = <<>>

-----------------------------------------------------------------------------
Complete(e) ==
  /\ e \notin closed
  /\ closed' = closed \cup {e}
  /\ UNCHANGED <<callVars, pc, k, searchVars, results>>

CountTotal ==
  /\ pc = "total"
  /\ total' = Cardinality(closed)
  /\ counted' = closed
  /\ pc' = IF closed = {} THEN "done" ELSE "range"
  /\ UNCHANGED <<closed, tolerance, k, searchVars, results>>

(* Any query may fail, and then there are no results at all.               *)
QueryFails ==
  /\ \/ pc \in {"total", "range"}
     \/ pc = "search" /\ hi - lo > tolerance /\ queries < MaxQueries
  /\ pc' = "failed"
  /\ results' = <<>>
  /\ UNCHANGED <<closed, callVars, k, searchVars>>

Found(d, n, conv, above) ==
  /\ results' = Append(results, [p |-> Percentiles[k], duration |-> d, queries |-> n,
                                 converged |-> conv, aboveRange |-> above])
  /\ IF k = NumPercentiles THEN pc' = "done" /\ UNCHANGED k
                           ELSE pc' = "range" /\ k' = k + 1

(* Is the percentile inside the range at all?                              *)
Probe ==
  /\ pc = "range"
  /\ queries' = 1
  /\ IF Count(closed, MaxDuration) < target
     THEN Found(MaxDuration, 1, FALSE, TRUE) /\ UNCHANGED <<lo, hi>>
     ELSE pc' = "search" /\ lo' = 0 /\ hi' = MaxDuration /\ UNCHANGED <<k, results>>
  /\ UNCHANGED <<closed, callVars>>

Bisect ==
  /\ pc = "search"
  /\ hi - lo > tolerance
  /\ queries < MaxQueries
  /\ queries' = queries + 1
  /\ LET mid == lo + (hi - lo) \div 2 IN
     IF Count(closed, mid) >= target THEN hi' = mid /\ UNCHANGED lo
                                     ELSE lo' = mid /\ UNCHANGED hi
  /\ UNCHANGED <<closed, callVars, pc, k, results>>

(* With a bug: a search that ran out of queries is taken for an answer.    *)
ConcludeConverged ==
  /\ pc = "search"
  /\ hi - lo <= tolerance \/ queries >= MaxQueries
  /\ Found(hi, queries, TRUE, FALSE)
  /\ UNCHANGED <<closed, callVars, searchVars>>

Conclude ==
  /\ pc = "search"
  /\ hi - lo <= tolerance \/ queries >= MaxQueries
  /\ Found(hi, queries, hi - lo <= tolerance, FALSE)
  /\ UNCHANGED <<closed, callVars, searchVars>>

Search == CountTotal \/ Probe \/ Bisect \/ Conclude

Next == Search \/ QueryFails \/ \E e \in Execs : Complete(e)

Spec == Init /\ [][Next]_vars

-----------------------------------------------------------------------------
(* Properties.                                                             *)

Covers(r) == ~r.aboveRange => 1000 * Count(closed, r.duration) >= r.p * total

Tight(r) ==
  /\ r.converged => 1000 * Count(counted, r.duration - tolerance) < r.p * total
  /\ r.aboveRange => 1000 * Count(counted, MaxDuration) < r.p * total /\ ~r.converged

(* A duration that is returned as one covers the percentile: at least that *)
(* share of the executions that were counted is within it, also when more  *)
(* complete during the search and when the search runs out of queries.  A  *)
(* budget made from it is never tighter than what was asked for            *)
(* (percentile.go 74-84, 116-120).                                         *)
CoversPercentile ==
  \A i \in DOMAIN results : Covers(results[i])

(* And it is tight: of the executions counted, fewer than the percentile   *)
(* are faster than a converged result by the tolerance or more; and what   *)
(* is flagged as above the range was not inside it (percentile.go 87-101). *)
TightPercentile ==
  \A i \in DOMAIN results : Tight(results[i])

=============================================================================
