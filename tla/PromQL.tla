------------------------------ MODULE PromQL ------------------------------
(***************************************************************************)
(* What the rule bundles use of PromQL, for one label set: an instant      *)
(* vector has at most one sample, so it is a natural number or Absent.     *)
(* Prometheus is not in the repository; every operator here is modelled    *)
(* from the way the rule generators use it.  A ratio is a pair             *)
(* <<numerator, denominator>>; denominator 0 stands for "no sample" and    *)
(* for NaN (0/0), which every comparison of the rules drops alike.         *)
(***************************************************************************)
EXTENDS Integers, Sequences, FiniteSets, SequencesExt, FiniteSetsExt

\* No series matches the selector.
Absent == -1

NoRatio == <<0, 0>>

\* `a or b`
Or(a, b) == IF a # Absent THEN a ELSE b

\* `x or y or ...` over the series S of sample v, times 0
ZeroOfUnion(v, S) == IF \E x \in S : v[x] # Absent THEN 0 ELSE Absent

\* a binary operator yields nothing when an operand is empty
TimesZero(a) == IF a = Absent THEN Absent ELSE 0
Plus(a, b) == IF Absent \in {a, b} THEN Absent ELSE a + b
ClampedMinus(a, b) ==
    IF Absent \in {a, b} THEN Absent ELSE IF a < b THEN 0 ELSE a - b
Divide(a, b) == IF Absent \in {a, b} THEN NoRatio ELSE <<a, b>>

\* a sum of several terms
PlusAll(terms) ==
    IF \E n \in DOMAIN terms : terms[n] = Absent THEN Absent ELSE SumFunction(terms)

\* the samples a range selector finds: the intervals with no series leave no sample
Present(range) == {i \in DOMAIN range : range[i] # Absent}

\* rate() over the window: the increments it saw, nothing without a sample
RateOver(range) ==
    LET present == Present(range)
    IN IF present = {} THEN Absent ELSE SumFunctionOnSet(range, present)

\* avg_over_time() of a gauge, in units of 1/unit: the intervals without a sample do not
\* count
AverageOver(range, unit) ==
    LET present == Present(range)
    IN IF present = {} THEN Absent
       ELSE (unit * SumFunctionOnSet(range, present)) \div Cardinality(present)

\* a / clamp_min(b, least), least in thousandths
DivideClamped(a, b, least) ==
    IF Absent \in {a, b} THEN NoRatio
    ELSE IF 1000 * b < least THEN <<1000 * a, least>> ELSE <<a, b>>

\* avg_over_time(a) / avg_over_time(b): each average divides by the number of
\* samples its own range has
DivideAverages(a, b) ==
    LET as == Present(a)
        bs == Present(b)
    IN IF as = {} \/ bs = {} THEN NoRatio
       ELSE <<SumFunctionOnSet(a, as) * Cardinality(bs),
              SumFunctionOnSet(b, bs) * Cardinality(as)>>
=============================================================================
