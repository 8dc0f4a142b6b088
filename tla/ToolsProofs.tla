---------------------------- MODULE ToolsProofs ----------------------------
(***************************************************************************)
(* Proofs about what the generators of tools/ write: the rule bundles      *)
(* (SLORules) and the boards (Boards).                                     *)
(*                                                                         *)
(* The rules first need sums over finite sets: that bad and total, as the  *)
(* expressions compute them on one sample and over a window, are sums of   *)
(* the events that happened.  The invariant then says what each log holds  *)
(* of the samples and how old the bad event behind a ratio, a burn rate or *)
(* a held alert may be.  The boards need that every section lies below the *)
(* one before it; the invariant says that both boards are neat and that    *)
(* what is merged is what the scripts wrote for some edition.              *)
(***************************************************************************)
EXTENDS SLORules, Boards, FiniteSetTheorems, SequenceTheorems, WellFoundedInduction, TLAPS

-----------------------------------------------------------------------------
(* Finite sets: the library states induction for an operator; stated for   *)
(* a set of subsets it can be cited.                                       *)

(* A nonempty set F of subsets of a finite set S has a smallest one.       *)
LEMMA SmallestSubset ==
  ASSUME NEW S, IsFiniteSet(S), NEW F, F \subseteq SUBSET S, F # {}
  PROVE  \E T \in F : \A U \in SUBSET T : U # T => U \notin F
<1>1. F \subseteq FiniteSubsetsOf(S)
  BY FS_Subset DEF FiniteSubsetsOf
<1>2. PICK T \in F : \A U \in F : <<U, T>> \notin StrictSubsetOrdering(S)
  BY <1>1, FS_StrictSubsetOrderingWellFounded, WFMin
<1>3. ASSUME NEW U \in SUBSET T, U # T, U \in F
      PROVE  FALSE
  BY <1>2, <1>3 DEF StrictSubsetOrdering
<1> QED
  BY <1>3

(* Induction over a finite set S, stated of the set P of the subsets it    *)
(* has been shown for: P holds the empty set and grows by one element.     *)
LEMMA SetInduction ==
  ASSUME NEW S, IsFiniteSet(S), NEW P,
         {} \in P,
         \A T \in SUBSET S : \A x \in S \ T : T \in P => T \cup {x} \in P
  PROVE  S \in P
<1> DEFINE Fail == {T \in SUBSET S : T \notin P}
<1>1. SUFFICES ASSUME Fail # {} PROVE FALSE
  OBVIOUS
<1>2. PICK T \in Fail : \A U \in SUBSET T : U # T => U \notin Fail
  <2>1. Fail \subseteq SUBSET S
    OBVIOUS
  <2> HIDE DEF Fail
  <2> QED
    BY <1>1, <2>1, SmallestSubset
<1>3. PICK x \in T : TRUE
  OBVIOUS
<1>4. T \ {x} \in SUBSET S /\ x \in S \ (T \ {x}) /\ (T \ {x}) \cup {x} = T
  BY <1>3
<1>5. T \ {x} \in P
  BY <1>2, <1>3, <1>4
<1> QED
  BY <1>2, <1>4, <1>5

-----------------------------------------------------------------------------
(* Sums: SumFunctionOnSet is a fold over a table of the sums of all        *)
(* subsets.  What is needed of it follows from the table's equation.       *)

\* the element the fold takes next
Some(S) == CHOOSE x \in S : TRUE

\* g holds the sum of f over every subset of S
IsSumTable(f, g, S) ==
  g = [s \in SUBSET S |-> IF s = {} THEN 0 ELSE f[Some(s)] + g[s \ {Some(s)}]]

(* The sum is the table's entry for the whole set.                         *)
LEMMA SumIsTable ==
  ASSUME NEW f, NEW S
  PROVE  SumFunctionOnSet(f, S) = (CHOOSE g : IsSumTable(f, g, S))[S]
BY DEF SumFunctionOnSet, FoldFunctionOnSet, MapThenFoldSet, IsSumTable, Some

(* Two tables of f agree on the sets both have.                            *)
LEMMA TablesAgree ==
  ASSUME NEW f, NEW S, NEW g, IsSumTable(f, g, S), NEW T, NEW h, IsSumTable(f, h, T),
         NEW U, U \subseteq S, U \subseteq T, IsFiniteSet(U)
  PROVE  g[U] = h[U]
<1> DEFINE Fail == {s \in SUBSET U : g[s] # h[s]}
<1>1. SUFFICES ASSUME Fail # {} PROVE FALSE
  OBVIOUS
<1>2. PICK s \in Fail : \A t \in SUBSET s : t # s => t \notin Fail
  <2>1. Fail \subseteq SUBSET U
    OBVIOUS
  <2> HIDE DEF Fail
  <2> QED
    BY <1>1, <2>1, SmallestSubset
<1>3. s \in SUBSET S /\ s \in SUBSET T
  OBVIOUS
<1>4. CASE s = {}
  BY <1>2, <1>3, <1>4 DEF IsSumTable
<1>5. CASE s # {}
  <2>1. Some(s) \in s
    BY <1>5 DEF Some
  <2>2. s \ {Some(s)} \in SUBSET s /\ s \ {Some(s)} # s
    BY <2>1
  <2>3. g[s \ {Some(s)}] = h[s \ {Some(s)}]
    BY <1>2, <2>2
  <2>4. g[s] = f[Some(s)] + g[s \ {Some(s)}]
    BY <1>3, <1>5 DEF IsSumTable
  <2>5. h[s] = f[Some(s)] + h[s \ {Some(s)}]
    BY <1>3, <1>5 DEF IsSumTable
  <2> QED
    BY <1>2, <2>3, <2>4, <2>5
<1> QED
  BY <1>4, <1>5

(* Every finite set has one: at a smallest set without, the tables of its  *)
(* subsets make it up.                                                     *)
LEMMA TableExists ==
  ASSUME NEW f, NEW S, IsFiniteSet(S)
  PROVE  IsSumTable(f, CHOOSE g : IsSumTable(f, g, S), S)
<1> DEFINE table(s) == CHOOSE g : IsSumTable(f, g, s)
           Fail == {s \in SUBSET S : ~IsSumTable(f, table(s), s)}
<1>1. SUFFICES ASSUME Fail # {} PROVE FALSE
  OBVIOUS
<1>2. PICK T \in Fail : \A s \in SUBSET T : s # T => s \notin Fail
  <2>1. Fail \subseteq SUBSET S
    OBVIOUS
  <2> HIDE DEF Fail
  <2> QED
    BY <1>1, <2>1, SmallestSubset
<1>3. ASSUME NEW s \in SUBSET T, s # T
      PROVE  IsSumTable(f, table(s), s)
  BY <1>2, <1>3
<1> HIDE DEF table
<1> DEFINE g == [s \in SUBSET T |->
                   IF s = {} THEN 0
                   ELSE f[Some(s)] + table(s \ {Some(s)})[s \ {Some(s)}]]
<1>4. ASSUME NEW s \in SUBSET T, s # T
      PROVE  g[s] = table(s)[s]
  <2>1. IsSumTable(f, table(s), s)
    BY <1>3, <1>4
  <2>2. CASE s = {}
    BY <2>1, <2>2 DEF IsSumTable
  <2>3. CASE s # {}
    <3> DEFINE r == s \ {Some(s)}
    <3>1. Some(s) \in s
      BY <2>3 DEF Some
    <3>2. r \subseteq s /\ r \in SUBSET T /\ r # T
      BY <1>4, <3>1
    <3>3. IsFiniteSet(r)
      BY <3>2, FS_Subset
    <3>4. IsSumTable(f, table(r), r)
      BY <1>3, <3>2
    <3>5. table(s)[r] = table(r)[r]
      BY <2>1, <3>2, <3>3, <3>4, TablesAgree
    <3>6. table(s)[s] = f[Some(s)] + table(s)[r]
      BY <2>1, <2>3 DEF IsSumTable
    <3>7. g[s] = f[Some(s)] + table(r)[r]
      BY <2>3
    <3> QED
      BY <3>5, <3>6, <3>7
  <2> QED
    BY <2>2, <2>3
<1>5. IsSumTable(f, g, T)
  <2>1. ASSUME NEW s \in SUBSET T, s # {}
        PROVE  g[s] = f[Some(s)] + g[s \ {Some(s)}]
    <3>1. Some(s) \in s
      BY <2>1 DEF Some
    <3>2. s \ {Some(s)} \in SUBSET T /\ s \ {Some(s)} # T
      BY <3>1
    <3>3. g[s \ {Some(s)}] = table(s \ {Some(s)})[s \ {Some(s)}]
      BY <1>4, <3>2
    <3> QED
      BY <2>1, <3>3
  <2>2. T # {} \/ g[{}] = 0
    OBVIOUS
  <2>3. g = [s \in SUBSET T |-> g[s]]
    OBVIOUS
  <2>4. g[{}] = 0
    OBVIOUS
  <2> HIDE DEF g
  <2> QED
    BY <2>1, <2>3, <2>4 DEF IsSumTable
<1>6. IsSumTable(f, table(T), T)
  BY <1>5 DEF table
<1> QED
  BY <1>2, <1>6

(* The equation of a sum: nothing sums to 0, and something to one of it    *)
(* and the rest.                                                           *)
LEMMA SumEquation ==
  ASSUME NEW f, NEW S, IsFiniteSet(S)
  PROVE  /\ S = {} => SumFunctionOnSet(f, S) = 0
         /\ S # {} => /\ Some(S) \in S
                      /\ SumFunctionOnSet(f, S) = f[Some(S)] + SumFunctionOnSet(f, S \ {Some(S)})
<1> DEFINE table(s) == CHOOSE g : IsSumTable(f, g, s)
           R == S \ {Some(S)}
<1>1. IsFiniteSet(R)
  BY FS_Subset
<1>2. IsSumTable(f, table(S), S) /\ IsSumTable(f, table(R), R)
  BY <1>1, TableExists
<1>3. SumFunctionOnSet(f, S) = table(S)[S] /\ SumFunctionOnSet(f, R) = table(R)[R]
  BY SumIsTable
<1> HIDE DEF table
<1>4. CASE S = {}
  <2>1. table(S)[S] = 0
    BY <1>2, <1>4 DEF IsSumTable
  <2> QED
    BY <1>3, <1>4, <2>1
<1>5. CASE S # {}
  <2>1. Some(S) \in S
    BY <1>5 DEF Some
  <2>2. table(S)[S] = f[Some(S)] + table(S)[R]
    BY <1>2, <1>5 DEF IsSumTable
  <2>3. table(S)[R] = table(R)[R]
    BY <1>1, <1>2, TablesAgree
  <2> QED
    BY <1>3, <1>5, <2>1, <2>2, <2>3
<1> QED
  BY <1>4, <1>5

(* A sum of naturals is a natural.                                         *)
LEMMA SumNat ==
  ASSUME NEW f, NEW S, IsFiniteSet(S), \A x \in S : f[x] \in Nat
  PROVE  SumFunctionOnSet(f, S) \in Nat
<1> DEFINE Fail == {T \in SUBSET S : SumFunctionOnSet(f, T) \notin Nat}
<1>1. SUFFICES ASSUME Fail # {} PROVE FALSE
  OBVIOUS
<1>2. PICK T \in Fail : \A U \in SUBSET T : U # T => U \notin Fail
  <2>1. Fail \subseteq SUBSET S
    OBVIOUS
  <2> HIDE DEF Fail
  <2> QED
    BY <1>1, <2>1, SmallestSubset
<1>3. IsFiniteSet(T)
  BY FS_Subset
<1>4. T # {} /\ Some(T) \in T
  <2>1. SumFunctionOnSet(f, T) \notin Nat
    BY <1>2
  <2>2. T = {} => SumFunctionOnSet(f, T) = 0
    BY <1>3, SumEquation
  <2>3. T # {}
    BY <2>1, <2>2
  <2> QED
    BY <2>3 DEF Some
<1>5. SumFunctionOnSet(f, T \ {Some(T)}) \in Nat
  BY <1>2, <1>4
<1>6. SumFunctionOnSet(f, T) = f[Some(T)] + SumFunctionOnSet(f, T \ {Some(T)})
  BY <1>3, <1>4, SumEquation
<1> QED
  BY <1>2, <1>4, <1>5, <1>6

(* Any element can be taken out of a sum, not only the one the fold        *)
(* chooses: addition does not mind the order.                              *)
LEMMA SumTakeOut ==
  ASSUME NEW f, NEW S, IsFiniteSet(S), \A x \in S : f[x] \in Nat, NEW x \in S
  PROVE  SumFunctionOnSet(f, S) = f[x] + SumFunctionOnSet(f, S \ {x})
<1> DEFINE Fail == {T \in SUBSET S : \E y \in T :
                      SumFunctionOnSet(f, T) # f[y] + SumFunctionOnSet(f, T \ {y})}
<1>1. SUFFICES ASSUME Fail # {} PROVE FALSE
  OBVIOUS
<1>2. PICK T \in Fail : \A U \in SUBSET T : U # T => U \notin Fail
  <2>1. Fail \subseteq SUBSET S
    OBVIOUS
  <2> HIDE DEF Fail
  <2> QED
    BY <1>1, <2>1, SmallestSubset
<1>3. PICK y \in T : SumFunctionOnSet(f, T) # f[y] + SumFunctionOnSet(f, T \ {y})
  OBVIOUS
<1> DEFINE z == Some(T)
<1>4. IsFiniteSet(T) /\ IsFiniteSet(T \ {y}) /\ IsFiniteSet(T \ {z}) /\ IsFiniteSet((T \ {z}) \ {y})
  BY FS_Subset
<1>5. z \in T /\ SumFunctionOnSet(f, T) = f[z] + SumFunctionOnSet(f, T \ {z})
  BY <1>3, <1>4, SumEquation
<1>6. y # z
  BY <1>3, <1>5
<1>7. SumFunctionOnSet(f, T \ {z}) = f[y] + SumFunctionOnSet(f, (T \ {z}) \ {y})
  <2>1. T \ {z} \in SUBSET T /\ T \ {z} # T /\ y \in T \ {z}
    BY <1>5, <1>6
  <2> QED
    BY <1>2, <2>1
<1>8. SumFunctionOnSet(f, T \ {y}) = f[z] + SumFunctionOnSet(f, (T \ {y}) \ {z})
  <2>1. T \ {y} \in SUBSET T /\ T \ {y} # T /\ z \in T \ {y}
    BY <1>5, <1>6
  <2> QED
    BY <1>2, <2>1
<1>9. (T \ {y}) \ {z} = (T \ {z}) \ {y}
  OBVIOUS
<1>10. SumFunctionOnSet(f, (T \ {z}) \ {y}) \in Nat /\ f[y] \in Nat /\ f[z] \in Nat
  BY <1>4, <1>5, SumNat
<1> DEFINE rest == SumFunctionOnSet(f, (T \ {z}) \ {y})
<1>11. SumFunctionOnSet(f, T) = f[z] + (f[y] + rest)
  BY <1>5, <1>7
<1>12. SumFunctionOnSet(f, T \ {y}) = f[z] + rest
  BY <1>8, <1>9
<1>13. rest \in Nat /\ f[y] \in Nat /\ f[z] \in Nat
  BY <1>10
<1> HIDE DEF z, rest
<1>14. f[z] + (f[y] + rest) = f[y] + (f[z] + rest)
  BY <1>13
<1> QED
  BY <1>3, <1>11, <1>12, <1>14

(* A sum grows by the element that is added.                               *)
LEMMA SumAdd ==
  ASSUME NEW f, NEW S, IsFiniteSet(S), NEW x, x \notin S, \A y \in S \cup {x} : f[y] \in Nat
  PROVE  SumFunctionOnSet(f, S \cup {x}) = f[x] + SumFunctionOnSet(f, S)
<1>1. IsFiniteSet(S \cup {x}) /\ (S \cup {x}) \ {x} = S
  BY FS_AddElement
<1> QED
  BY <1>1, SumTakeOut

(* Functions that agree on S have the same sum over it.                    *)
LEMMA SumAgree ==
  ASSUME NEW S, IsFiniteSet(S), NEW f, NEW g,
         \A x \in S : f[x] \in Nat /\ f[x] = g[x]
  PROVE  SumFunctionOnSet(f, S) = SumFunctionOnSet(g, S)
<1> DEFINE P == {T \in SUBSET S : SumFunctionOnSet(f, T) = SumFunctionOnSet(g, T)}
<1>1. {} \in P
  BY FS_EmptySet, SumEquation
<1>2. ASSUME NEW T \in SUBSET S, NEW x \in S \ T, T \in P
      PROVE  T \cup {x} \in P
  <2>1. IsFiniteSet(T) /\ T \cup {x} \in SUBSET S
    BY FS_Subset
  <2>2. SumFunctionOnSet(f, T \cup {x}) = f[x] + SumFunctionOnSet(f, T)
    BY <2>1, SumAdd
  <2>3. SumFunctionOnSet(g, T \cup {x}) = g[x] + SumFunctionOnSet(g, T)
    BY <2>1, SumAdd
  <2> QED
    BY <1>2, <2>1, <2>2, <2>3
<1> HIDE DEF P
<1>3. S \in P
  BY <1>1, <1>2, SetInduction
<1> QED
  BY <1>3 DEF P

(* What is 0 outside T adds nothing there.                                 *)
LEMMA SumOutside ==
  ASSUME NEW S, IsFiniteSet(S), NEW T, T \subseteq S, NEW f,
         \A x \in S : f[x] \in Nat, \A x \in S \ T : f[x] = 0
  PROVE  SumFunctionOnSet(f, S) = SumFunctionOnSet(f, T)
<1> DEFINE P == {U \in SUBSET S : SumFunctionOnSet(f, U) = SumFunctionOnSet(f, U \cap T)}
<1>1. {} \in P
  <2>1. {} \cap T = {}
    OBVIOUS
  <2> QED
    BY <2>1
<1>2. ASSUME NEW U \in SUBSET S, NEW x \in S \ U, U \in P
      PROVE  U \cup {x} \in P
  <2>1. IsFiniteSet(U) /\ IsFiniteSet(U \cap T) /\ U \cup {x} \in SUBSET S
    BY FS_Subset
  <2>2. SumFunctionOnSet(f, U \cup {x}) = f[x] + SumFunctionOnSet(f, U)
    BY <2>1, SumAdd
  <2>3. CASE x \in T
    <3>1. (U \cup {x}) \cap T = (U \cap T) \cup {x}
      BY <2>3
    <3>2. SumFunctionOnSet(f, (U \cap T) \cup {x}) = f[x] + SumFunctionOnSet(f, U \cap T)
      BY <2>1, SumAdd
    <3> QED
      BY <1>2, <2>1, <2>2, <3>1, <3>2
  <2>4. CASE x \notin T
    <3>1. (U \cup {x}) \cap T = U \cap T
      BY <2>4
    <3>2. SumFunctionOnSet(f, U) \in Nat
      BY <2>1, SumNat
    <3>3. f[x] = 0 /\ SumFunctionOnSet(f, U \cup {x}) = SumFunctionOnSet(f, U)
      BY <2>2, <2>4, <3>2
    <3> QED
      BY <1>2, <2>1, <3>1, <3>3
  <2> QED
    BY <2>3, <2>4
<1> HIDE DEF P
<1>3. S \in P
  BY <1>1, <1>2, SetInduction
<1>4. S \cap T = T
  OBVIOUS
<1> QED
  BY <1>3, <1>4 DEF P

(* Sums are monotone, and so is their being positive: a positive sum has a *)
(* positive term.                                                          *)
LEMMA SumMonotone ==
  ASSUME NEW S, IsFiniteSet(S), NEW f, NEW g,
         \A x \in S : f[x] \in Nat /\ g[x] \in Nat /\ f[x] <= g[x]
  PROVE  SumFunctionOnSet(f, S) <= SumFunctionOnSet(g, S)
<1> DEFINE P == {T \in SUBSET S : SumFunctionOnSet(f, T) <= SumFunctionOnSet(g, T)}
<1>1. {} \in P
  <2>1. SumFunctionOnSet(f, {}) = 0 /\ SumFunctionOnSet(g, {}) = 0
    BY FS_EmptySet, SumEquation
  <2> QED
    BY <2>1
<1>2. ASSUME NEW T \in SUBSET S, NEW x \in S \ T, T \in P
      PROVE  T \cup {x} \in P
  <2>1. IsFiniteSet(T) /\ T \cup {x} \in SUBSET S
    BY FS_Subset
  <2>2. SumFunctionOnSet(f, T \cup {x}) = f[x] + SumFunctionOnSet(f, T)
    BY <2>1, SumAdd
  <2>3. SumFunctionOnSet(g, T \cup {x}) = g[x] + SumFunctionOnSet(g, T)
    BY <2>1, SumAdd
  <2>4. SumFunctionOnSet(f, T) \in Nat /\ SumFunctionOnSet(g, T) \in Nat
    BY <2>1, SumNat
  <2> QED
    BY <1>2, <2>1, <2>2, <2>3, <2>4
<1> HIDE DEF P
<1>3. S \in P
  BY <1>1, <1>2, SetInduction
<1> QED
  BY <1>3 DEF P

(* A sum that is not 0 has a summand above 0.                              *)
LEMMA SumPositive ==
  ASSUME NEW S, IsFiniteSet(S), NEW f, \A x \in S : f[x] \in Nat,
         SumFunctionOnSet(f, S) # 0
  PROVE  \E x \in S : f[x] > 0
<1>1. SUFFICES ASSUME \A x \in S : f[x] = 0 PROVE FALSE
  OBVIOUS
<1>2. SumFunctionOnSet(f, S) = SumFunctionOnSet(f, {})
  BY <1>1, SumOutside
<1> QED
  BY <1>2, FS_EmptySet, SumEquation

(* The sum of the sums of two functions.                                   *)
LEMMA SumPlus ==
  ASSUME NEW S, IsFiniteSet(S), NEW f, NEW g, NEW h,
         \A x \in S : f[x] \in Nat /\ g[x] \in Nat /\ h[x] = f[x] + g[x]
  PROVE  SumFunctionOnSet(h, S) = SumFunctionOnSet(f, S) + SumFunctionOnSet(g, S)
<1> DEFINE P == {T \in SUBSET S : SumFunctionOnSet(h, T)
                                    = SumFunctionOnSet(f, T) + SumFunctionOnSet(g, T)}
<1>1. {} \in P
  <2>1. /\ SumFunctionOnSet(f, {}) = 0 /\ SumFunctionOnSet(g, {}) = 0
        /\ SumFunctionOnSet(h, {}) = 0
    BY FS_EmptySet, SumEquation
  <2> QED
    BY <2>1
<1>2. ASSUME NEW T \in SUBSET S, NEW x \in S \ T, T \in P
      PROVE  T \cup {x} \in P
  <2>1. IsFiniteSet(T) /\ T \cup {x} \in SUBSET S
    BY FS_Subset
  <2>2. SumFunctionOnSet(f, T \cup {x}) = f[x] + SumFunctionOnSet(f, T)
    BY <2>1, SumAdd
  <2>3. SumFunctionOnSet(g, T \cup {x}) = g[x] + SumFunctionOnSet(g, T)
    BY <2>1, SumAdd
  <2>4. SumFunctionOnSet(h, T \cup {x}) = h[x] + SumFunctionOnSet(h, T)
    BY <2>1, SumAdd
  <2>5. SumFunctionOnSet(f, T) \in Nat /\ SumFunctionOnSet(g, T) \in Nat
    BY <2>1, SumNat
  <2> QED
    BY <1>2, <2>1, <2>2, <2>3, <2>4, <2>5
<1> HIDE DEF P
<1>3. S \in P
  BY <1>1, <1>2, SetInduction
<1> QED
  BY <1>3 DEF P

-----------------------------------------------------------------------------
(* The expressions, on one sample and over a window.                       *)

SumOver(f) == SumFunctionOnSet(f, DOMAIN f)

(* The samples that are present hold everything that happened.             *)
LEMMA PresentSum ==
  ASSUME NEW r, IsFiniteSet(DOMAIN r), \A i \in DOMAIN r : r[i] \in Increase
  PROVE  /\ Present(r) \subseteq DOMAIN r /\ IsFiniteSet(Present(r))
         /\ SumFunctionOnSet(r, Present(r)) = SumOver([i \in DOMAIN r |-> Happened(r[i])])
         /\ SumFunctionOnSet(r, Present(r)) \in Nat
         /\ Present(r) = {} => SumFunctionOnSet(r, Present(r)) = 0
<1> DEFINE P == Present(r)
           h == [i \in DOMAIN r |-> Happened(r[i])]
<1>1. P \subseteq DOMAIN r /\ IsFiniteSet(P)
  BY FS_Subset DEF Present
<1>2. \A i \in P : r[i] \in Nat /\ h[i] = r[i]
  BY DEF Present, Increase, Happened
<1>3. \A i \in DOMAIN r : h[i] \in Nat
  BY DEF Increase, Happened, Absent
<1>4. \A i \in DOMAIN r \ P : h[i] = 0
  BY DEF Present, Happened
<1>5. SumOver(h) = SumFunctionOnSet(h, DOMAIN r)
  BY DEF SumOver
<1> HIDE DEF P, h
<1>6. SumFunctionOnSet(r, P) = SumFunctionOnSet(h, P)
  BY <1>1, <1>2, SumAgree
<1>7. SumFunctionOnSet(h, DOMAIN r) = SumFunctionOnSet(h, P)
  BY <1>1, <1>3, <1>4, SumOutside
<1>8. SumFunctionOnSet(r, P) \in Nat
  BY <1>1, <1>2, SumNat
<1>9. P = {} => SumFunctionOnSet(r, P) = 0
  BY <1>1, SumEquation
<1> QED
  BY <1>1, <1>5, <1>6, <1>7, <1>8, <1>9 DEF P, h

(* The rate of a counter is what happened in the window, and absent only   *)
(* when the counter was in none of its intervals.                          *)
LEMMA RateIsHappened ==
  ASSUME NEW r, IsFiniteSet(DOMAIN r), \A i \in DOMAIN r : r[i] \in Increase
  PROVE  /\ RateOver(r) \in Increase
         /\ RateOver(r) = Absent <=> \A i \in DOMAIN r : r[i] = Absent
         /\ Happened(RateOver(r)) = SumOver([i \in DOMAIN r |-> Happened(r[i])])
<1>1. RateOver(r) = IF Present(r) = {} THEN Absent ELSE SumFunctionOnSet(r, Present(r))
  BY DEF RateOver
<1>2. SumFunctionOnSet(r, Present(r)) \in Nat
  BY PresentSum
<1>3. SumFunctionOnSet(r, Present(r)) # Absent
  BY <1>2 DEF Absent
<1>4. Present(r) = {} <=> \A i \in DOMAIN r : r[i] = Absent
  BY DEF Present
<1> QED
  BY <1>1, <1>2, <1>3, <1>4, PresentSum DEF Increase, Happened

(* With the guard of the union, a sum of outcomes is what happened of      *)
(* them; it is absent only when every outcome is.                          *)
LEMMA GuardedIsHappened ==
  ASSUME NEW s, NEW v, \A n \in Outcomes(s) : v[n] \in Increase,
         NEW names, names \subseteq Outcomes(s), names # {}
  PROVE  IF \A n \in Outcomes(s) : v[n] = Absent THEN SumGuarded(s, v, names) = Absent
         ELSE SumGuarded(s, v, names) = SumOver([n \in names |-> Happened(v[n])])
<1> DEFINE terms == [n \in names |-> Or(v[n], ZeroOfUnion(v, Outcomes(s)))]
<1>1. SumGuarded(s, v, names)
        = IF \E n \in names : terms[n] = Absent THEN Absent ELSE SumOver(terms)
  BY DEF SumGuarded, PlusAll, SumFunction, SumOver
<1>2. CASE \A n \in Outcomes(s) : v[n] = Absent
  <2>1. \A n \in names : terms[n] = Absent
    BY <1>2 DEF Or, ZeroOfUnion
  <2> HIDE DEF terms
  <2> QED
    BY <1>1, <1>2, <2>1
<1>3. CASE ~ \A n \in Outcomes(s) : v[n] = Absent
  <2>1. ZeroOfUnion(v, Outcomes(s)) = 0
    BY <1>3 DEF ZeroOfUnion
  <2>2. \A n \in names : terms[n] = Happened(v[n]) /\ terms[n] \in Nat
    BY <2>1 DEF Or, Happened, Increase, Absent
  <2>3. terms = [n \in names |-> Happened(v[n])]
    BY <2>2
  <2>4. ~ \E n \in names : terms[n] = Absent
    BY <2>2 DEF Absent
  <2> HIDE DEF terms
  <2> QED
    BY <1>1, <1>3, <2>3, <2>4
<1> QED
  BY <1>2, <1>3

(* Sums over outcomes and over intervals may be exchanged.                 *)
LEMMA SumsExchange ==
  ASSUME NEW D, IsFiniteSet(D), NEW names, IsFiniteSet(names),
         NEW m, \A n \in names : \A i \in D : m[n][i] \in Nat
  PROVE  SumFunctionOnSet([n \in names |-> SumFunctionOnSet(m[n], D)], names)
           = SumFunctionOnSet([i \in D |-> SumFunctionOnSet([n \in names |-> m[n][i]], names)], D)
<1> DEFINE rows == [n \in names |-> SumFunctionOnSet(m[n], D)]
           column(i) == [n \in names |-> m[n][i]]
           across(T) == [i \in D |-> SumFunctionOnSet(column(i), T)]
           P == {T \in SUBSET names :
                   SumFunctionOnSet(rows, T) = SumFunctionOnSet(across(T), D)}
<1>0. \A n \in names : rows[n] \in Nat
  BY SumNat
<1>1. {} \in P
  <2>1. \A i \in D : across({})[i] = 0
    BY FS_EmptySet, SumEquation
  <2> HIDE DEF across
  <2>2. SumFunctionOnSet(across({}), D) = SumFunctionOnSet(across({}), {})
    BY <2>1, SumOutside
  <2>3. SumFunctionOnSet(across({}), {}) = 0 /\ SumFunctionOnSet(rows, {}) = 0
    BY FS_EmptySet, SumEquation
  <2> QED
    BY <2>2, <2>3
<1>2. ASSUME NEW T \in SUBSET names, NEW x \in names \ T, T \in P
      PROVE  T \cup {x} \in P
  <2>1. IsFiniteSet(T) /\ T \cup {x} \in SUBSET names
    BY FS_Subset
  <2>2. SumFunctionOnSet(rows, T \cup {x}) = rows[x] + SumFunctionOnSet(rows, T)
    <3> HIDE DEF rows
    <3> QED
      BY <1>0, <2>1, SumAdd
  <2>3. rows[x] = SumFunctionOnSet(m[x], D)
    OBVIOUS
  <2>4. \A i \in D : /\ m[x][i] \in Nat
                     /\ across(T)[i] \in Nat
                     /\ across(T \cup {x})[i] = m[x][i] + across(T)[i]
    <3> SUFFICES ASSUME NEW i \in D
                 PROVE  /\ m[x][i] \in Nat
                        /\ across(T)[i] \in Nat
                        /\ across(T \cup {x})[i] = m[x][i] + across(T)[i]
      OBVIOUS
    <3>1. \A n \in names : column(i)[n] \in Nat
      OBVIOUS
    <3>2. column(i)[x] = m[x][i]
      OBVIOUS
    <3> HIDE DEF column
    <3>3. SumFunctionOnSet(column(i), T \cup {x}) = column(i)[x] + SumFunctionOnSet(column(i), T)
      BY <2>1, <3>1, SumAdd
    <3>4. SumFunctionOnSet(column(i), T) \in Nat
      BY <2>1, <3>1, SumNat
    <3> QED
      BY <3>2, <3>3, <3>4
  <2> HIDE DEF across
  <2>5. SumFunctionOnSet(across(T \cup {x}), D)
          = SumFunctionOnSet(m[x], D) + SumFunctionOnSet(across(T), D)
    BY <2>4, SumPlus
  <2> QED
    BY <1>2, <2>1, <2>2, <2>3, <2>5
<1> HIDE DEF P
<1>3. names \in P
  BY <1>1, <1>2, SetInduction
<1> QED
  BY <1>3 DEF P

(* What the tables of the generators have in common.                       *)
LEMMA SLIFacts ==
  ASSUME NEW s \in SLIs
  PROVE  /\ s.bundle \in {"production", "cloud", "app", "demo"}
         /\ s.kind \in {"error", "latency", "outcome", "delivery", "gated"}
         /\ s.budget \in Nat /\ s.budget > 0
         /\ s.bundle # "cloud" => s.kind \in {"error", "latency", "outcome"}
         /\ s.bundle = "cloud" => s.kind \in {"error", "outcome", "delivery", "gated"}
<1>1. ASSUME NEW bundle, NEW kind, NEW budget, NEW names, s \in SLI(bundle, kind, budget, names)
      PROVE  s.bundle = bundle /\ s.kind = kind /\ s.budget = budget
  BY <1>1 DEF SLI
<1>2. CASE s \in ProductionSLIs
  BY <1>1, <1>2 DEF ProductionSLIs
<1>3. CASE s \in CloudSLIs
  BY <1>1, <1>3 DEF CloudSLIs
<1>4. CASE s \in AppSLIs
  BY <1>1, <1>4 DEF AppSLIs
<1>5. CASE s \in DemoSLIs
  BY <1>1, <1>5 DEF DemoSLIs
<1> QED
  BY <1>2, <1>3, <1>4, <1>5, SLIsAssumption

(* The outcomes of a completion SLI are some of three, and the bad ones    *)
(* are some of those.                                                      *)
LEMMA OutcomeFacts ==
  ASSUME NEW s
  PROVE  /\ BadOutcomes(s) \subseteq Outcomes(s) /\ BadOutcomes(s) # {} /\ Outcomes(s) # {}
         /\ Outcomes(s) \subseteq {"success", "failed", "timeout"}
         /\ IsFiniteSet(Outcomes(s)) /\ IsFiniteSet(BadOutcomes(s))
<1>1. IsFiniteSet({"success", "failed", "timeout"})
  <2>1. IsFiniteSet({"success"}) /\ IsFiniteSet({"success"} \cup {"failed"})
    BY FS_Singleton, FS_AddElement
  <2>2. IsFiniteSet(({"success"} \cup {"failed"}) \cup {"timeout"})
    BY <2>1, FS_AddElement
  <2>3. ({"success"} \cup {"failed"}) \cup {"timeout"} = {"success", "failed", "timeout"}
    OBVIOUS
  <2> QED
    BY <2>2, <2>3
<1>2. Outcomes(s) \subseteq {"success", "failed", "timeout"}
  BY DEF Outcomes, BadOutcomes
<1>3. BadOutcomes(s) \subseteq Outcomes(s) /\ BadOutcomes(s) # {} /\ Outcomes(s) # {}
  BY DEF Outcomes, BadOutcomes
<1> QED
  BY <1>1, <1>2, <1>3, FS_Subset

(* The truth about one sample: its bad events are some of its events.      *)
LEMMA TruthFacts ==
  ASSUME NEW s \in SLIs, NEW v \in Traffic[s.kind]
  PROVE  /\ TrueBad(s, v) \in Nat /\ TrueTotal(s, v) \in Nat
         /\ TrueBad(s, v) <= TrueTotal(s, v)
<1> USE DEF TrueBad, TrueTotal, Increase, Absent, Happened
<1>1. CASE s.kind = "error"
  <2>1. /\ v.errors \in Increase /\ v.requests \in Increase
        /\ v.errors <= v.requests
    BY <1>1, TrafficAssumption
  <2> QED
    BY <1>1, <2>1
<1>2. CASE s.kind = "latency"
  <2>1. /\ v.count \in Increase /\ v.fast \in Increase
        /\ v.fast <= v.count
        /\ v.fast = Absent <=> v.count = Absent
    BY <1>2, TrafficAssumption
  <2> QED
    BY <1>2, <2>1
<1>3. CASE s.kind = "outcome"
  <2> DEFINE B == BadOutcomes(s)
             O == Outcomes(s)
             h(names) == [n \in names |-> Happened(v[n])]
             g == [n \in O |-> IF n \in B THEN h(O)[n] ELSE 0]
  <2>1. B \subseteq O /\ IsFiniteSet(O) /\ IsFiniteSet(B)
    BY OutcomeFacts
  <2>2. \A n \in O : v[n] \in Increase
    BY <1>3, OutcomeFacts, TrafficAssumption
  <2>3. /\ TrueBad(s, v) = SumFunctionOnSet(h(B), B)
        /\ TrueTotal(s, v) = SumFunctionOnSet(h(O), O)
    BY <1>3 DEF SumFunction
  <2>4. \A n \in O : h(O)[n] \in Nat /\ g[n] \in Nat /\ g[n] <= h(O)[n]
    BY <2>2
  <2>5. \A n \in O \ B : g[n] = 0
    OBVIOUS
  <2>6. \A n \in B : h(B)[n] \in Nat /\ h(B)[n] = g[n]
    BY <2>1, <2>4
  <2> HIDE DEF B, O, h, g, TrueBad, TrueTotal
  <2>7. SumFunctionOnSet(g, O) <= SumFunctionOnSet(h(O), O)
    BY <2>1, <2>4, SumMonotone
  <2>8. SumFunctionOnSet(g, O) = SumFunctionOnSet(g, B)
    BY <2>1, <2>4, <2>5, SumOutside
  <2>9. SumFunctionOnSet(h(B), B) = SumFunctionOnSet(g, B)
    BY <2>1, <2>6, SumAgree
  <2>10. SumFunctionOnSet(h(B), B) \in Nat /\ SumFunctionOnSet(h(O), O) \in Nat
    BY <2>1, <2>4, <2>6, SumNat
  <2> QED
    BY <2>3, <2>7, <2>8, <2>9, <2>10
<1>4. CASE s.kind = "delivery"
  <2>1. v.noPoller \in Increase /\ v.matched \in Nat
    BY <1>4, TrafficAssumption
  <2> QED
    BY <1>4, <2>1
<1>5. CASE s.kind = "gated"
  <2>1. v.rps \in {0, 1} /\ v.p95 \in {0, 1}
    BY <1>5, TrafficAssumption
  <2> QED
    BY <1>5, <2>1
<1> QED
  BY <1>1, <1>2, <1>3, <1>4, <1>5, SLIFacts

(* And about the samples of a range.                                       *)
LEMMA AllFacts ==
  ASSUME NEW s \in SLIs, NEW ss, IsFiniteSet(DOMAIN ss),
         \A i \in DOMAIN ss : ss[i] \in Traffic[s.kind]
  PROVE  /\ AllBad(s, ss) \in Nat /\ AllTotal(s, ss) \in Nat
         /\ AllBad(s, ss) <= AllTotal(s, ss)
         /\ AllBad(s, ss) > 0 => \E i \in DOMAIN ss : TrueBad(s, ss[i]) > 0
<1> DEFINE D == DOMAIN ss
           a == [i \in D |-> TrueBad(s, ss[i])]
           b == [i \in D |-> TrueTotal(s, ss[i])]
<1>1. \A i \in D : a[i] \in Nat /\ b[i] \in Nat /\ a[i] <= b[i] /\ a[i] = TrueBad(s, ss[i])
  BY TruthFacts
<1>2. AllBad(s, ss) = SumFunctionOnSet(a, D) /\ AllTotal(s, ss) = SumFunctionOnSet(b, D)
  BY DEF AllBad, AllTotal, SumFunction
<1>3. IsFiniteSet(D)
  OBVIOUS
<1> HIDE DEF a, b, D
<1>4. /\ SumFunctionOnSet(a, D) \in Nat /\ SumFunctionOnSet(b, D) \in Nat
      /\ SumFunctionOnSet(a, D) <= SumFunctionOnSet(b, D)
  BY <1>1, <1>3, SumNat, SumMonotone
<1>5. SumFunctionOnSet(a, D) # 0 => \E i \in D : a[i] > 0
  BY <1>1, <1>3, SumPositive
<1> QED
  BY <1>1, <1>2, <1>4, <1>5 DEF D

\* one series of the samples ss
Series(ss, n) == [i \in DOMAIN ss |-> ss[i][n]]

\* of each sample, what happened of the outcomes in names
Sums(ss, names) == [i \in DOMAIN ss |-> SumOver([n \in names |-> Happened(ss[i][n])])]

(* The demo's expressions over a window: a guarded sum of the rates of     *)
(* outcomes is what happened of them in all its samples.                   *)
LEMMA OutcomesOverWindow ==
  ASSUME NEW s \in SLIs, s.kind = "outcome", NEW ss, IsFiniteSet(DOMAIN ss),
         \A i \in DOMAIN ss : ss[i] \in Traffic["outcome"],
         NEW v, \A n \in Outcomes(s) : v[n] = RateOver(Series(ss, n)),
         NEW names, names \subseteq Outcomes(s), names # {}
  PROVE  /\ SumGuarded(s, v, names) \in Increase
         /\ SumGuarded(s, v, names) = Absent <=> \A n \in Outcomes(s) : v[n] = Absent
         /\ Happened(SumGuarded(s, v, names)) = SumOver(Sums(ss, names))
<1> DEFINE D == DOMAIN ss
           m == [n \in names |-> [i \in D |-> Happened(ss[i][n])]]
           h == [n \in names |-> Happened(v[n])]
           G == SumGuarded(s, v, names)
<1>1. IsFiniteSet(names)
  BY OutcomeFacts, FS_Subset
<1>2. ASSUME NEW n \in Outcomes(s)
      PROVE  /\ \A i \in D : ss[i][n] \in Increase
             /\ v[n] \in Increase
             /\ Happened(v[n]) = SumOver([i \in D |-> Happened(ss[i][n])])
  <2> DEFINE r == Series(ss, n)
  <2>1. \A i \in D : ss[i][n] \in Increase
    BY OutcomeFacts, TrafficAssumption DEF Increase
  <2>2. v[n] = RateOver(r) /\ DOMAIN r = D /\ \A i \in D : r[i] \in Increase
    BY <2>1 DEF Series
  <2>3. [i \in D |-> Happened(r[i])] = [i \in D |-> Happened(ss[i][n])]
    BY DEF Series
  <2> HIDE DEF r
  <2> QED
    BY <2>1, <2>2, <2>3, RateIsHappened
<1>3. \A n \in names : \A i \in D : m[n][i] \in Nat
  BY <1>2 DEF Increase, Happened, Absent
<1>4. h = [n \in names |-> SumFunctionOnSet(m[n], D)]
  BY <1>2 DEF SumOver
<1>5. SumFunctionOnSet(h, names)
        = SumFunctionOnSet([i \in D |-> SumFunctionOnSet([n \in names |-> m[n][i]], names)], D)
  <2>1. IsFiniteSet(D)
    OBVIOUS
  <2> HIDE DEF D, h, m
  <2> QED
    BY <1>1, <1>3, <1>4, <2>1, SumsExchange
<1>6. [i \in D |-> SumFunctionOnSet([n \in names |-> m[n][i]], names)]
        = [i \in D |-> SumOver([n \in names |-> Happened(ss[i][n])])]
  BY DEF SumOver
<1>7. SumOver(h) = SumOver(Sums(ss, names))
  BY <1>5, <1>6 DEF SumOver, Sums
<1>8. IF \A n \in Outcomes(s) : v[n] = Absent THEN G = Absent ELSE G = SumOver(h)
  <2>1. \A n \in Outcomes(s) : v[n] \in Increase
    BY <1>2
  <2> QED
    BY <2>1, GuardedIsHappened
<1>9. \A n \in names : h[n] \in Nat
  BY <1>2 DEF Increase, Happened, Absent
<1>10. SumOver(h) = SumFunctionOnSet(h, names)
  BY DEF SumOver
<1>11. (\A n \in Outcomes(s) : v[n] = Absent) => \A n \in names : h[n] = 0
  BY DEF Happened
<1> HIDE DEF h, G
<1>12. SumOver(h) \in Nat
  BY <1>1, <1>9, <1>10, SumNat
<1>13. (\A n \in Outcomes(s) : v[n] = Absent) => SumOver(h) = 0
  <2>1. SUFFICES ASSUME \A n \in Outcomes(s) : v[n] = Absent PROVE SumOver(h) = 0
    OBVIOUS
  <2>2. SumFunctionOnSet(h, names) = SumFunctionOnSet(h, {})
    BY <1>1, <1>9, <1>11, <2>1, SumOutside
  <2> QED
    BY <1>10, <2>2, FS_EmptySet, SumEquation
<1>14. G \in Increase /\ (G = Absent <=> \A n \in Outcomes(s) : v[n] = Absent)
  BY <1>8, <1>12 DEF Increase, Absent
<1>15. Happened(G) = SumOver(h)
  BY <1>8, <1>12, <1>13 DEF Happened, Absent
<1> QED
  BY <1>7, <1>14, <1>15 DEF G

\* the series an SLI of the kind reads
SeriesOf(kind) ==
  CASE kind = "error"    -> {"errors", "requests"}
    [] kind = "latency"  -> {"count", "fast"}
    [] kind = "outcome"  -> {"success", "failed", "timeout"}
    [] kind = "delivery" -> {"noPoller", "matched"}

(* The series of a sample are those of its kind.                           *)
LEMMA SeriesFacts ==
  ASSUME NEW kind \in {"error", "latency", "outcome", "delivery"}, NEW v \in Traffic[kind]
  PROVE  DOMAIN v = SeriesOf(kind)
<1>1. kind = "error" => v \in [errors : Increase, requests : Increase]
  BY TrafficAssumption
<1>2. kind = "latency" => v \in [count : Increase, fast : Increase]
  BY TrafficAssumption
<1>3. kind = "outcome" => v \in [success : Increase, failed : Increase, timeout : Increase]
  BY TrafficAssumption
<1>4. kind = "delivery" => v \in [noPoller : Increase, matched : Nat]
  BY TrafficAssumption
<1> QED
  BY <1>1, <1>2, <1>3, <1>4 DEF SeriesOf

(* Outside the cloud every series of the range is read as a rate.          *)
LEMMA ReadFacts ==
  ASSUME NEW s \in SLIs, s.bundle # "cloud",
         NEW ss, ss \in Seq(Traffic[s.kind]), ss # <<>>
  PROVE  /\ s.kind \in {"error", "latency", "outcome"}
         /\ \A n \in SeriesOf(s.kind) : Read(s, ss)[n] = RateOver(Series(ss, n))
<1>1. s.kind \in {"error", "latency", "outcome"}
  BY SLIFacts
<1>2. Last(ss) = ss[Len(ss)] /\ Len(ss) \in 1..Len(ss)
  BY DEF Last
<1>3. DOMAIN Last(ss) = SeriesOf(s.kind)
  BY <1>1, <1>2, ElementOfSeq, SeriesFacts
<1>4. Read(s, ss) = [n \in DOMAIN Last(ss) |-> RateOver(Series(ss, n))]
  BY <1>1 DEF Read, Series
<1> QED
  BY <1>1, <1>3, <1>4

(* So are the other expressions: over a window as on one sample, bad and   *)
(* total are what happened, both or neither.                               *)
LEMMA RatesHappened ==
  ASSUME NEW s \in SLIs, s.kind \in {"error", "latency", "outcome"},
         NEW ss, IsFiniteSet(DOMAIN ss), \A i \in DOMAIN ss : ss[i] \in Traffic[s.kind],
         NEW v, \A n \in SeriesOf(s.kind) : v[n] = RateOver(Series(ss, n))
  PROVE  /\ Bad(s, v) \in Increase /\ Total(s, v) \in Increase
         /\ Bad(s, v) = Absent <=> Total(s, v) = Absent
         /\ Happened(Bad(s, v)) = SumOver([i \in DOMAIN ss |-> TrueBad(s, ss[i])])
         /\ Happened(Total(s, v)) = SumOver([i \in DOMAIN ss |-> TrueTotal(s, ss[i])])
<1> DEFINE D == DOMAIN ss
           r(n) == Series(ss, n)
           h(n) == [i \in D |-> Happened(ss[i][n])]
           ta == [i \in D |-> TrueBad(s, ss[i])]
           tb == [i \in D |-> TrueTotal(s, ss[i])]
<1>1. ASSUME NEW n \in SeriesOf(s.kind), \A i \in D : ss[i][n] \in Increase
      PROVE  /\ v[n] \in Increase
             /\ v[n] = Absent <=> \A i \in D : ss[i][n] = Absent
             /\ Happened(v[n]) = SumOver(h(n))
  <2>1. v[n] = RateOver(r(n)) /\ DOMAIN r(n) = D /\ \A i \in D : r(n)[i] \in Increase
    BY <1>1 DEF Series
  <2>2. [i \in D |-> Happened(r(n)[i])] = h(n) /\ \A i \in D : r(n)[i] = ss[i][n]
    BY DEF Series
  <2> HIDE DEF r, h
  <2> QED
    BY <2>1, <2>2, RateIsHappened
<1>2. CASE s.kind = "error"
  <2>1. \A i \in D : /\ ss[i]["errors"] \in Increase /\ ss[i]["requests"] \in Increase
                     /\ ss[i]["errors"] <= ss[i]["requests"]
    BY <1>2, TrafficAssumption DEF Increase
  <2>2. /\ v["errors"] \in Increase
        /\ v["errors"] = Absent <=> \A i \in D : ss[i]["errors"] = Absent
        /\ Happened(v["errors"]) = SumOver(h("errors"))
    BY <1>1, <1>2, <2>1 DEF SeriesOf
  <2>3. /\ v["requests"] \in Increase
        /\ v["requests"] = Absent <=> \A i \in D : ss[i]["requests"] = Absent
        /\ Happened(v["requests"]) = SumOver(h("requests"))
    BY <1>1, <1>2, <2>1 DEF SeriesOf
  <2>4. v["requests"] = Absent => v["errors"] = Absent
    BY <2>1, <2>2, <2>3 DEF Increase, Absent
  <2>5. ta = h("errors") /\ tb = h("requests")
    BY <1>2 DEF TrueBad, TrueTotal
  <2>6. Bad(s, v) = Or(v["errors"], TimesZero(v["requests"])) /\ Total(s, v) = v["requests"]
    BY <1>2 DEF Bad, Total, ErrorBad
  <2>7. /\ Bad(s, v) \in Increase
        /\ Bad(s, v) = Absent <=> Total(s, v) = Absent
        /\ Happened(Bad(s, v)) = Happened(v["errors"])
    BY <2>2, <2>3, <2>4, <2>6 DEF Or, TimesZero, Increase, Absent, Happened
  <2> HIDE DEF h, ta, tb
  <2> QED
    BY <2>2, <2>3, <2>5, <2>6, <2>7 DEF ta, tb
<1>3. CASE s.kind = "latency"
  <2>1. \A i \in D : /\ ss[i]["count"] \in Increase /\ ss[i]["fast"] \in Increase
                     /\ ss[i]["fast"] <= ss[i]["count"]
                     /\ ss[i]["fast"] = Absent <=> ss[i]["count"] = Absent
    BY <1>3, TrafficAssumption DEF Increase
  <2>2. /\ v["count"] \in Increase
        /\ v["count"] = Absent <=> \A i \in D : ss[i]["count"] = Absent
        /\ Happened(v["count"]) = SumOver(h("count"))
    BY <1>1, <1>3, <2>1 DEF SeriesOf
  <2>3. /\ v["fast"] \in Increase
        /\ v["fast"] = Absent <=> \A i \in D : ss[i]["fast"] = Absent
        /\ Happened(v["fast"]) = SumOver(h("fast"))
    BY <1>1, <1>3, <2>1 DEF SeriesOf
  <2>4. v["count"] = Absent <=> v["fast"] = Absent
    BY <2>1, <2>2, <2>3
  <2>5. tb = h("count")
    BY <1>3 DEF TrueTotal
  <2>6. \A i \in D : /\ ta[i] \in Nat /\ h("fast")[i] \in Nat
                     /\ h("count")[i] = ta[i] + h("fast")[i]
    BY <1>3, <2>1 DEF TrueBad, Increase, Happened, Absent
  <2>7. /\ Bad(s, v) = ClampedMinus(v["count"], v["fast"])
        /\ Total(s, v) = v["count"]
    BY <1>3 DEF Bad, Total, LatencyBad
  <2>8. /\ SumOver(ta) = SumFunctionOnSet(ta, D)
        /\ SumOver(h("fast")) = SumFunctionOnSet(h("fast"), D)
        /\ SumOver(h("count")) = SumFunctionOnSet(h("count"), D)
    BY DEF SumOver
  <2>9. IsFiniteSet(D)
    OBVIOUS
  <2> HIDE DEF h, ta, tb, D
  <2>10. SumOver(h("count")) = SumOver(ta) + SumOver(h("fast"))
    BY <2>6, <2>8, <2>9, SumPlus
  <2>11. SumOver(ta) \in Nat /\ SumOver(h("fast")) \in Nat
    BY <2>6, <2>8, <2>9, SumNat
  <2>12. CASE v["count"] = Absent
    BY <2>2, <2>3, <2>4, <2>5, <2>7, <2>10, <2>11, <2>12
       DEF ClampedMinus, Increase, Absent, Happened, ta, tb, D
  <2>13. CASE v["count"] # Absent
    <3>1. v["count"] = SumOver(ta) + v["fast"] /\ v["fast"] \in Nat /\ v["count"] \in Nat
      BY <2>2, <2>3, <2>4, <2>10, <2>13 DEF Happened, Increase
    <3>2. ClampedMinus(v["count"], v["fast"]) = SumOver(ta)
      BY <2>11, <3>1 DEF ClampedMinus, Absent
    <3>3. Happened(Bad(s, v)) = SumOver(ta) /\ Bad(s, v) # Absent /\ Bad(s, v) \in Increase
      BY <2>7, <2>11, <3>2 DEF Happened, Absent, Increase
    <3> QED
      BY <2>2, <2>5, <2>7, <2>13, <3>3 DEF ta, tb, D
  <2> QED
    BY <2>12, <2>13
<1>4. CASE s.kind = "outcome"
  <2>1. \A n \in Outcomes(s) : v[n] = RateOver(Series(ss, n))
    BY <1>4, OutcomeFacts DEF SeriesOf
  <2>2. /\ Bad(s, v) = SumGuarded(s, v, BadOutcomes(s))
        /\ Total(s, v) = SumGuarded(s, v, Outcomes(s))
    BY <1>4 DEF Bad, Total
  <2>3. ta = Sums(ss, BadOutcomes(s))
    BY <1>4 DEF TrueBad, SumFunction, SumOver, Sums
  <2>4. tb = Sums(ss, Outcomes(s))
    BY <1>4 DEF TrueTotal, SumFunction, SumOver, Sums
  <2>5. \A i \in D : ss[i] \in Traffic["outcome"]
    BY <1>4
  <2>6. /\ BadOutcomes(s) \subseteq Outcomes(s) /\ BadOutcomes(s) # {}
        /\ Outcomes(s) \subseteq Outcomes(s) /\ Outcomes(s) # {}
    BY OutcomeFacts
  <2>7. /\ Bad(s, v) \in Increase
        /\ Bad(s, v) = Absent <=> \A n \in Outcomes(s) : v[n] = Absent
        /\ Happened(Bad(s, v)) = SumOver(ta)
    <3>1. /\ SumGuarded(s, v, BadOutcomes(s)) \in Increase
          /\ SumGuarded(s, v, BadOutcomes(s)) = Absent <=> \A n \in Outcomes(s) : v[n] = Absent
          /\ Happened(SumGuarded(s, v, BadOutcomes(s))) = SumOver(Sums(ss, BadOutcomes(s)))
      BY <1>4, <2>1, <2>5, <2>6, OutcomesOverWindow
    <3> HIDE DEF ta
    <3> QED
      BY <2>2, <2>3, <3>1
  <2>8. /\ Total(s, v) \in Increase
        /\ Total(s, v) = Absent <=> \A n \in Outcomes(s) : v[n] = Absent
        /\ Happened(Total(s, v)) = SumOver(tb)
    <3>1. /\ SumGuarded(s, v, Outcomes(s)) \in Increase
          /\ SumGuarded(s, v, Outcomes(s)) = Absent <=> \A n \in Outcomes(s) : v[n] = Absent
          /\ Happened(SumGuarded(s, v, Outcomes(s))) = SumOver(Sums(ss, Outcomes(s)))
      BY <1>4, <2>1, <2>5, <2>6, OutcomesOverWindow
    <3> HIDE DEF tb
    <3> QED
      BY <2>2, <2>4, <3>1
  <2> QED
    BY <2>7, <2>8
<1> QED
  BY <1>2, <1>3, <1>4

(* The greater of two numbers.                                             *)
LEMMA MaxOfTwo ==
  ASSUME NEW a \in Nat, NEW b \in Nat
  PROVE  Max({a, b}) = IF a >= b THEN a ELSE b
<1>1. Max({a, b}) = CHOOSE x \in {a, b} : \A y \in {a, b} : x >= y
  BY DEF Max
<1>2. CASE a >= b
  BY <1>1, <1>2
<1>3. CASE ~(a >= b)
  BY <1>1, <1>3
<1> QED
  BY <1>2, <1>3

(* Hence their quotient is the share of the window's events, or of the     *)
(* least where all are fewer.                                              *)
LEMMA RawShare ==
  ASSUME NEW s \in SLIs, s.kind \in {"error", "latency", "outcome"},
         NEW ss, IsFiniteSet(DOMAIN ss), \A i \in DOMAIN ss : ss[i] \in Traffic[s.kind],
         NEW v, \A n \in SeriesOf(s.kind) : v[n] = RateOver(Series(ss, n)),
         NEW least \in Nat, NEW f, f = DivideClamped(Bad(s, v), Total(s, v), least)
  PROVE  /\ f \in Nat \X Nat
         /\ f[1] > 0 => \E i \in DOMAIN ss : TrueBad(s, ss[i]) > 0
         /\ IsShareOf(f, AllBad(s, ss), AllTotal(s, ss), least)
<1> DEFINE a == AllBad(s, ss)
           b == AllTotal(s, ss)
<1>1. /\ a \in Nat /\ b \in Nat /\ a <= b
      /\ a > 0 => \E i \in DOMAIN ss : TrueBad(s, ss[i]) > 0
  BY AllFacts
<1>2. /\ Bad(s, v) \in Increase /\ Total(s, v) \in Increase
      /\ Bad(s, v) = Absent <=> Total(s, v) = Absent
      /\ Happened(Bad(s, v)) = a /\ Happened(Total(s, v)) = b
  BY RatesHappened DEF AllBad, AllTotal, SumFunction, SumOver
<1>3. 1000 * b \in Nat /\ Max({1000 * b, least}) = IF 1000 * b >= least THEN 1000 * b ELSE least
  <2>1. 1000 * b \in Nat
    BY <1>1
  <2> HIDE DEF b
  <2> QED
    BY <2>1, MaxOfTwo
<1>4. IsShareOf(f, a, b, least) <=>
        IF b = 0 THEN f[1] = 0
        ELSE f[2] # 0 /\ f[1] * Max({1000 * b, least}) = 1000 * a * f[2]
  BY DEF IsShareOf
<1> HIDE DEF a, b
<1>5. CASE Bad(s, v) = Absent
  <2>1. f = <<0, 0>> /\ a = 0 /\ b = 0
    BY <1>2, <1>5 DEF DivideClamped, NoRatio, Happened
  <2> QED
    BY <1>4, <2>1 DEF a, b
<1>6. CASE Bad(s, v) # Absent
  <2>1. Bad(s, v) = a /\ Total(s, v) = b /\ Absent \notin {Bad(s, v), Total(s, v)}
    BY <1>2, <1>6 DEF Happened
  <2>2. f = IF 1000 * b < least THEN <<1000 * a, least>> ELSE <<a, b>>
    BY <2>1 DEF DivideClamped
  <2>3. CASE 1000 * b < least
    <3>1. f = <<1000 * a, least>> /\ f[1] = 1000 * a /\ f[2] = least
      BY <2>2, <2>3
    <3>2. Max({1000 * b, least}) = least /\ least # 0
      BY <1>1, <1>3, <2>3
    <3>3. f \in Nat \X Nat /\ (f[1] > 0 => a > 0) /\ (b = 0 => f[1] = 0)
      BY <1>1, <3>1
    <3>4. IsShareOf(f, a, b, least)
      BY <1>4, <3>1, <3>2, <3>3
    <3> QED
      BY <1>1, <3>3, <3>4 DEF a, b
  <2>4. CASE ~(1000 * b < least)
    <3>1. f = <<a, b>> /\ f[1] = a /\ f[2] = b
      BY <2>2, <2>4
    <3>2. Max({1000 * b, least}) = 1000 * b
      BY <1>1, <1>3, <2>4
    <3>3. f \in Nat \X Nat /\ (b = 0 => a = 0)
      BY <1>1, <3>1
    <3>4. a * (1000 * b) = 1000 * a * b
      BY <1>1
    <3>5. IsShareOf(f, a, b, least)
      BY <1>4, <3>1, <3>2, <3>3, <3>4
    <3> QED
      BY <1>1, <3>1, <3>3, <3>5 DEF a, b
  <2> QED
    BY <2>3, <2>4
<1> QED
  BY <1>5, <1>6

(* An average of gauges is a count like theirs, and above 0 only if one of *)
(* them is.                                                                *)
LEMMA AverageFacts ==
  ASSUME NEW r, IsFiniteSet(DOMAIN r), \A i \in DOMAIN r : r[i] \in Increase
  PROVE  /\ AverageOver(r, Unit) \in Increase
         /\ AverageOver(r, Unit) > 0 => \E i \in DOMAIN r : r[i] > 0
<1> DEFINE p == Present(r)
           t == SumFunctionOnSet(r, p)
           c == Cardinality(p)
<1>1. p \subseteq DOMAIN r /\ IsFiniteSet(p) /\ t \in Nat /\ \A i \in p : r[i] \in Nat
  BY PresentSum DEF Present, Increase
<1>2. AverageOver(r, Unit) = IF p = {} THEN Absent ELSE (Unit * t) \div c
  BY DEF AverageOver
<1>3. c \in Nat /\ (p # {} => c # 0)
  BY <1>1, FS_CardinalityType, FS_EmptySet
<1>4. t # 0 => \E i \in p : r[i] > 0
  <2> HIDE DEF p
  <2> QED
    BY <1>1, SumPositive
<1>5. Unit \in Nat
  BY TicksAssumption
<1> HIDE DEF p, t, c
<1>6. CASE p = {}
  BY <1>2, <1>6 DEF Absent, Increase
<1>7. CASE p # {}
  <2>1. c \in Nat \ {0} /\ Unit * t \in Nat
    BY <1>1, <1>3, <1>5, <1>7
  <2>2. (Unit * t) \div c \in Nat
    BY <2>1
  <2>3. t = 0 => Unit * t = 0
    BY <1>5
  <2>4. t = 0 => (Unit * t) \div c = 0
    BY <2>1, <2>3
  <2> QED
    BY <1>1, <1>2, <1>4, <1>7, <2>2, <2>4 DEF Increase
<1> QED
  BY <1>6, <1>7

(* A bad rate of the cloud is a count, and above 0 only if a bad event     *)
(* happened in its range.                                                  *)
LEMMA CloudBad ==
  ASSUME NEW s \in SLIs, s.bundle = "cloud",
         NEW ss, ss \in Seq(Traffic[s.kind]), ss # <<>>, IsFiniteSet(DOMAIN ss),
         NEW v, v = Read(s, ss)
  PROVE  /\ Bad(s, v) \in Increase /\ Total(s, v) \in Increase
         /\ Bad(s, v) > 0 => \E i \in DOMAIN ss : TrueBad(s, ss[i]) > 0
<1> DEFINE D == DOMAIN ss
<1>1. /\ Last(ss) = ss[Len(ss)] /\ Len(ss) \in D
      /\ \A i \in D : ss[i] \in Traffic[s.kind]
  <2>1. Len(ss) \in 1..Len(ss)
    OBVIOUS
  <2>2. \A i \in 1..Len(ss) : ss[i] \in Traffic[s.kind]
    BY ElementOfSeq
  <2> QED
    BY <2>1, <2>2 DEF Last
<1>2. CASE s.kind = "gated"
  <2>1. v = ss[Len(ss)]
    BY <1>1, <1>2 DEF Read
  <2>2. v.rps \in {0, 1} /\ v.p95 \in {0, 1}
    BY <1>1, <1>2, <2>1, TrafficAssumption
  <2>3. Bad(s, v) = (IF v["rps"] = 1 THEN v["p95"] ELSE Absent) /\ Total(s, v) = v["rps"]
    BY <1>2 DEF Bad, Total, GatedBad
  <2>4. TrueBad(s, v) = IF v["rps"] = 1 THEN Happened(v["p95"]) ELSE 0
    BY <1>2 DEF TrueBad
  <2>5. Bad(s, v) > 0 => TrueBad(s, v) > 0
    BY <2>2, <2>3, <2>4 DEF Absent, Happened
  <2>6. Bad(s, v) \in Increase /\ Total(s, v) \in Increase
    BY <2>2, <2>3 DEF Increase
  <2> QED
    BY <1>1, <2>1, <2>5, <2>6
<1>3. CASE s.kind # "gated"
  <2>1. s.kind \in {"error", "outcome", "delivery"}
    BY <1>3, SLIFacts
  <2>2. \A n \in SeriesOf(s.kind) : v[n] = AverageOver(Series(ss, n), Unit)
    <3>1. DOMAIN Last(ss) = SeriesOf(s.kind)
      BY <1>1, <2>1, SeriesFacts
    <3>2. v = [n \in DOMAIN Last(ss) |-> AverageOver(Series(ss, n), Unit)]
      BY <1>3 DEF Read, Series
    <3> QED
      BY <3>1, <3>2
  <2>3. ASSUME NEW n \in SeriesOf(s.kind), \A i \in D : ss[i][n] \in Increase
        PROVE  v[n] \in Increase /\ (v[n] > 0 => \E i \in D : ss[i][n] > 0)
    <3> DEFINE r == Series(ss, n)
    <3>1. DOMAIN r = D /\ \A i \in D : r[i] = ss[i][n]
      BY DEF Series
    <3>2. v[n] = AverageOver(r, Unit)
      BY <2>2
    <3> HIDE DEF r
    <3> QED
      BY <2>3, <3>1, <3>2, AverageFacts
  <2>4. CASE s.kind = "error"
    <3>1. \A i \in D : ss[i]["errors"] \in Increase /\ ss[i]["requests"] \in Increase
      BY <1>1, <2>4, TrafficAssumption
    <3>2. /\ v["errors"] \in Increase /\ v["requests"] \in Increase
          /\ v["errors"] > 0 => \E i \in D : ss[i]["errors"] > 0
      BY <2>3, <2>4, <3>1 DEF SeriesOf
    <3>3. Bad(s, v) = Or(v["errors"], TimesZero(v["requests"])) /\ Total(s, v) = v["requests"]
      BY <2>4 DEF Bad, Total, ErrorBad
    <3>4. \A i \in D : ss[i]["errors"] > 0 => TrueBad(s, ss[i]) > 0
      BY <2>4, <3>1 DEF TrueBad, Happened, Absent
    <3> QED
      BY <3>2, <3>3, <3>4 DEF Or, TimesZero, Increase, Absent
  <2>5. CASE s.kind = "delivery"
    <3>1. \A i \in D : ss[i]["noPoller"] \in Increase /\ ss[i]["matched"] \in Increase
      BY <1>1, <2>5, TrafficAssumption DEF Increase
    <3>2. /\ v["noPoller"] \in Increase /\ v["matched"] \in Increase
          /\ v["noPoller"] > 0 => \E i \in D : ss[i]["noPoller"] > 0
      BY <2>3, <2>5, <3>1 DEF SeriesOf
    <3>3. /\ Bad(s, v) = Or(v["noPoller"], TimesZero(v["matched"]))
          /\ Total(s, v) = Plus(v["matched"], Bad(s, v))
      BY <2>5 DEF Bad, Total, NoPollerTasks
    <3>4. \A i \in D : ss[i]["noPoller"] > 0 => TrueBad(s, ss[i]) > 0
      BY <2>5, <3>1 DEF TrueBad, Happened, Absent
    <3>5. Bad(s, v) \in Increase /\ (Bad(s, v) > 0 => v["noPoller"] > 0)
      BY <3>2, <3>3 DEF Or, TimesZero, Increase, Absent
    <3>6. Total(s, v) \in Increase
      BY <3>2, <3>3, <3>5 DEF Plus, Increase, Absent
    <3> QED
      BY <3>2, <3>4, <3>5, <3>6
  <2>6. CASE s.kind = "outcome"
    <3> DEFINE B == BadOutcomes(s)
               O == Outcomes(s)
               h(names) == [n \in names |-> Happened(v[n])]
               truth(i) == [n \in B |-> Happened(ss[i][n])]
    <3>1. /\ B \subseteq O /\ B # {} /\ O # {} /\ O \subseteq SeriesOf(s.kind)
          /\ IsFiniteSet(O) /\ IsFiniteSet(B)
      BY <2>6, OutcomeFacts DEF SeriesOf
    <3>2. \A n \in O : \A i \in D : ss[i][n] \in Increase
      BY <1>1, <2>6, <3>1, TrafficAssumption DEF SeriesOf
    <3>3. \A n \in O : v[n] \in Increase /\ (v[n] > 0 => \E i \in D : ss[i][n] > 0)
      BY <2>3, <3>1, <3>2
    <3>4. /\ Bad(s, v) \in {Absent, SumOver(h(B))}
          /\ Total(s, v) \in {Absent, SumOver(h(O))}
      <4>1. Bad(s, v) = SumGuarded(s, v, B) /\ Total(s, v) = SumGuarded(s, v, O)
        BY <2>6 DEF Bad, Total
      <4> QED
        BY <3>1, <3>3, <4>1, GuardedIsHappened
    <3>5. /\ \A n \in B : h(B)[n] \in Nat /\ (h(B)[n] > 0 => v[n] > 0)
          /\ \A n \in O : h(O)[n] \in Nat
      BY <3>1, <3>3 DEF Happened, Increase, Absent
    <3>6. /\ SumOver(h(B)) = SumFunctionOnSet(h(B), B)
          /\ SumOver(h(O)) = SumFunctionOnSet(h(O), O)
      BY DEF SumOver
    <3>7. \A i \in D : TrueBad(s, ss[i]) = SumFunctionOnSet(truth(i), B)
      BY <2>6 DEF TrueBad, SumFunction
    <3>8. \A i \in D : \A n \in B : truth(i)[n] \in Nat /\ (ss[i][n] > 0 => truth(i)[n] > 0)
      BY <3>1, <3>2 DEF Happened, Increase, Absent
    <3> HIDE DEF B, O, h, truth
    <3>9. SumOver(h(B)) \in Nat /\ SumOver(h(O)) \in Nat
      BY <3>1, <3>5, <3>6, SumNat
    <3>10. Bad(s, v) \in Increase /\ Total(s, v) \in Increase
      BY <3>4, <3>9 DEF Increase
    <3>11. ASSUME Bad(s, v) > 0
           PROVE  \E i \in D : TrueBad(s, ss[i]) > 0
      <4>1. SumFunctionOnSet(h(B), B) # 0
        BY <3>4, <3>6, <3>11 DEF Absent
      <4>2. PICK n \in B : h(B)[n] > 0
        BY <3>1, <3>5, <4>1, SumPositive
      <4>3. PICK i \in D : ss[i][n] > 0
        BY <3>1, <3>3, <3>5, <4>2
      <4> DEFINE g == truth(i)
      <4>4. (\A k \in B : g[k] \in Nat) /\ g[n] > 0 /\ TrueBad(s, ss[i]) = SumFunctionOnSet(g, B)
        BY <3>7, <3>8, <4>3
      <4> HIDE DEF g
      <4>5. SumFunctionOnSet(g, B) = g[n] + SumFunctionOnSet(g, B \ {n})
        BY <3>1, <4>4, SumTakeOut
      <4>6. SumFunctionOnSet(g, B \ {n}) \in Nat
        BY <3>1, <4>4, FS_Subset, SumNat
      <4> QED
        BY <4>4, <4>5, <4>6
    <3> QED
      BY <3>10, <3>11
  <2> QED
    BY <2>1, <2>4, <2>5, <2>6
<1> QED
  BY <1>2, <1>3

\* the recordings that say what happened
TrueRecordings ==
  {e \in RecordingSet : /\ Happened(e.bad) = e.trueBad /\ Happened(e.total) = e.trueTotal
                        /\ e.bad = Absent <=> e.total = Absent
                        /\ e.trueBad <= e.trueTotal}

(* What layer 1 records of a range: a bad event only of a bad event in it, *)
(* and, but for the cloud's averages, what happened.                       *)
LEMMA RecordingFacts ==
  ASSUME NEW s \in SLIs, NEW ss, ss \in Seq(Traffic[s.kind]), ss # <<>>,
         IsFiniteSet(DOMAIN ss), NEW e, e = Recording(s, ss)
  PROVE  /\ e \in RecordingSet
         /\ e.bad > 0 => \E i \in DOMAIN ss : TrueBad(s, ss[i]) > 0
         /\ s.bundle # "cloud" => e \in TrueRecordings
<1> DEFINE v == Read(s, ss)
           x == Bad(s, v)
           y == Total(s, v)
           a == AllBad(s, ss)
           b == AllTotal(s, ss)
<1>1. e = [bad |-> x, total |-> y, trueBad |-> a, trueTotal |-> b]
  BY DEF Recording
<1>2. \A i \in DOMAIN ss : ss[i] \in Traffic[s.kind]
  BY ElementOfSeq
<1>3. /\ a \in Nat /\ b \in Nat /\ a <= b
      /\ a > 0 => \E i \in DOMAIN ss : TrueBad(s, ss[i]) > 0
  BY <1>2, AllFacts
<1>4. CASE s.bundle = "cloud"
  <2>1. /\ x \in Increase /\ y \in Increase
        /\ x > 0 => \E i \in DOMAIN ss : TrueBad(s, ss[i]) > 0
    BY <1>4, CloudBad
  <2> HIDE DEF v, x, y, a, b
  <2> QED
    BY <1>1, <1>3, <1>4, <2>1 DEF RecordingSet
<1>5. CASE s.bundle # "cloud"
  <2>1. s.kind \in {"error", "latency", "outcome"}
    BY <1>5, SLIFacts
  <2>2. \A n \in SeriesOf(s.kind) : v[n] = RateOver(Series(ss, n))
    BY <1>5, <2>1, ReadFacts
  <2>3. /\ x \in Increase /\ y \in Increase /\ (x = Absent <=> y = Absent)
        /\ Happened(x) = a /\ Happened(y) = b
    <3> HIDE DEF v
    <3> QED
      BY <1>2, <2>1, <2>2, RatesHappened DEF AllBad, AllTotal, SumFunction, SumOver
  <2> HIDE DEF v, x, y, a, b
  <2>4. x > 0 => a > 0
    BY <2>3 DEF Happened, Absent
  <2>5. e \in RecordingSet
    BY <1>1, <1>3, <2>3 DEF RecordingSet
  <2> QED
    BY <1>1, <1>3, <2>3, <2>4, <2>5 DEF TrueRecordings
<1> QED
  BY <1>4, <1>5

(* An average of recordings over another: a pair of naturals, 0 unless a   *)
(* recording has a bad event, and of true recordings their share of all    *)
(* events.                                                                 *)
LEMMA RecordedShare ==
  ASSUME NEW rs, IsFiniteSet(DOMAIN rs), \A i \in DOMAIN rs : rs[i] \in RecordingSet,
         NEW f, f = DivideAverages([i \in DOMAIN rs |-> rs[i].bad],
                                   [i \in DOMAIN rs |-> rs[i].total])
  PROVE  /\ f \in Nat \X Nat
         /\ f[1] > 0 => \E i \in DOMAIN rs : rs[i].bad > 0
         /\ (\A i \in DOMAIN rs : rs[i] \in TrueRecordings) =>
              IsShareOf(f, SumFunction([i \in DOMAIN rs |-> rs[i].trueBad]),
                        SumFunction([i \in DOMAIN rs |-> rs[i].trueTotal]), 0)
<1> DEFINE D == DOMAIN rs
           a == [i \in D |-> rs[i].bad]
           b == [i \in D |-> rs[i].total]
           ta == [i \in D |-> rs[i].trueBad]
           tb == [i \in D |-> rs[i].trueTotal]
           badSum == SumFunctionOnSet(a, Present(a))
           totalSum == SumFunctionOnSet(b, Present(b))
<1>1. /\ DOMAIN a = D /\ \A i \in D : a[i] \in Increase
      /\ DOMAIN b = D /\ \A i \in D : b[i] \in Increase
  BY DEF RecordingSet
<1>2. \A i \in D : ta[i] \in Nat /\ tb[i] \in Nat /\ a[i] = rs[i].bad
  BY DEF RecordingSet
<1>3. (\A i \in D : rs[i] \in TrueRecordings) =>
        /\ ta = [i \in D |-> Happened(a[i])] /\ tb = [i \in D |-> Happened(b[i])]
        /\ \A i \in D : (a[i] = Absent <=> b[i] = Absent) /\ ta[i] <= tb[i]
  BY DEF TrueRecordings
<1>4. f = IF Present(a) = {} \/ Present(b) = {} THEN <<0, 0>>
          ELSE <<badSum * Cardinality(Present(b)), totalSum * Cardinality(Present(a))>>
  BY DEF DivideAverages, NoRatio
<1>5. /\ SumFunction(ta) = SumFunctionOnSet(ta, D) /\ SumOver(ta) = SumFunctionOnSet(ta, D)
      /\ SumFunction(tb) = SumFunctionOnSet(tb, D) /\ SumOver(tb) = SumFunctionOnSet(tb, D)
  BY DEF SumOver, SumFunction
<1>6. IsFiniteSet(D)
  OBVIOUS
<1> HIDE DEF D, a, b, ta, tb
<1>7. /\ Present(a) \subseteq D /\ IsFiniteSet(Present(a)) /\ badSum \in Nat
      /\ Present(b) \subseteq D /\ IsFiniteSet(Present(b)) /\ totalSum \in Nat
      /\ Present(b) = {} => totalSum = 0
  BY <1>1, <1>6, PresentSum
<1>8. \A i \in Present(a) : a[i] \in Nat
  BY <1>1 DEF Present, Increase
<1>9. /\ Cardinality(Present(a)) \in Nat /\ Cardinality(Present(b)) \in Nat
      /\ Present(a) # {} => Cardinality(Present(a)) # 0
      /\ Present(b) # {} => Cardinality(Present(b)) # 0
  BY <1>7, FS_CardinalityType, FS_EmptySet
<1>10. badSum # 0 => \E i \in Present(a) : a[i] > 0
  BY <1>7, <1>8, SumPositive
<1>11. ASSUME \A i \in D : rs[i] \in TrueRecordings
       PROVE  badSum = SumOver(ta) /\ totalSum = SumOver(tb)
  BY <1>1, <1>3, <1>6, <1>11, PresentSum
<1> HIDE DEF badSum, totalSum
<1>12. f \in Nat \X Nat
  BY <1>4, <1>7, <1>9
<1>13. ASSUME f[1] > 0
       PROVE  \E i \in D : rs[i].bad > 0
  <2>1. badSum # 0
    BY <1>4, <1>7, <1>9, <1>13
  <2> QED
    BY <1>2, <1>7, <1>10, <2>1
<1>14. ASSUME \A i \in D : rs[i] \in TrueRecordings
       PROVE  IsShareOf(f, SumFunction(ta), SumFunction(tb), 0)
  <2>1. Present(a) = Present(b)
    BY <1>1, <1>3, <1>14 DEF Present
  <2>2. badSum = SumFunction(ta) /\ totalSum = SumFunction(tb)
    BY <1>5, <1>11, <1>14
  <2>3. badSum <= totalSum
    <3>1. SumFunctionOnSet(ta, D) <= SumFunctionOnSet(tb, D)
      BY <1>2, <1>3, <1>6, <1>14, SumMonotone
    <3> QED
      BY <1>5, <2>2, <3>1
  <2>4. Max({1000 * totalSum, 0}) = 1000 * totalSum
    <3>1. 1000 * totalSum \in Nat /\ 1000 * totalSum >= 0
      BY <1>7
    <3> QED
      BY <3>1, MaxOfTwo
  <2>5. IsShareOf(f, badSum, totalSum, 0) <=>
          IF totalSum = 0 THEN f[1] = 0
          ELSE f[2] # 0 /\ f[1] * (1000 * totalSum) = 1000 * badSum * f[2]
    BY <2>4 DEF IsShareOf
  <2> DEFINE c == Cardinality(Present(a))
  <2>6. CASE totalSum = 0
    <3>1. badSum = 0
      BY <1>7, <2>3, <2>6
    <3>2. f[1] = 0
      BY <1>4, <1>9, <3>1
    <3> QED
      BY <2>2, <2>5, <2>6, <3>2
  <2>7. CASE totalSum # 0
    <3>1. f[1] = badSum * c /\ f[2] = totalSum * c
      BY <1>4, <1>7, <2>1, <2>7
    <3>2. c \in Nat /\ c # 0
      BY <1>7, <1>9, <2>1, <2>7
    <3> HIDE DEF c
    <3>3. f[2] # 0
      BY <1>7, <2>7, <3>1, <3>2
    <3>4. (badSum * c) * (1000 * totalSum) = 1000 * badSum * (totalSum * c)
      BY <1>7, <3>2
    <3> QED
      BY <2>2, <2>5, <2>7, <3>1, <3>3, <3>4
  <2> QED
    BY <2>6, <2>7
<1> QED
  BY <1>12, <1>13, <1>14 DEF D, ta, tb

-----------------------------------------------------------------------------
(* The logs.                                                               *)

(* The log of the samples is longer than that of the recordings, and both  *)
(* are longer than their windows.                                          *)
LEMMA KeepFacts ==
  /\ Keep \in Nat /\ KeepRecordings \in Nat /\ KeepRecordings > 0
  /\ Ticks["5m"] \in Nat /\ Ticks["5m"] > 0 /\ Keep = KeepRecordings + Ticks["5m"]
  /\ \A w \in LongWindows : Ticks[w] \in Nat /\ Ticks[w] > 0 /\ Ticks[w] <= KeepRecordings
  /\ \A w \in ShortWindows : Ticks[w] < KeepRecordings
<1>1. "5m" \in LongWindows
  BY DEF LongWindows
<1>2. Keep \in Nat /\ \A w \in LongWindows : Ticks[w] \in 1..KeepRecordings
  BY TicksAssumption
<1>3. Ticks["5m"] \in 1..Keep - Ticks["5m"]
  BY <1>1, <1>2 DEF KeepRecordings
<1>4. Ticks["5m"] \in Nat /\ Ticks["5m"] > 0 /\ Keep - Ticks["5m"] \in Nat
      /\ Keep - Ticks["5m"] > 0 /\ Keep = Keep - Ticks["5m"] + Ticks["5m"]
  BY <1>2, <1>3
<1> QED
  BY <1>2, <1>4, TicksAssumption DEF KeepRecordings

(* Remember appends, and drops the oldest entry beyond what is kept.       *)
LEMMA RememberFacts ==
  ASSUME NEW keep \in Nat, keep > 0, NEW S, NEW log \in Seq(S), NEW x \in S, Len(log) <= keep,
         NEW l, l = Remember(log, x, keep)
  PROVE  /\ l \in Seq(S) /\ l # <<>> /\ l[Len(l)] = x
         /\ Len(l) = IF Len(log) < keep THEN Len(log) + 1 ELSE keep
         /\ \A j \in 1..Len(l) - 1 : l[Len(l) - j] = log[Len(log) - (j - 1)]
<1> DEFINE m == Append(log, x)
<1>1. m \in Seq(S) /\ Len(m) = Len(log) + 1 /\ Len(log) \in Nat
  OBVIOUS
<1>2. m[Len(m)] = x /\ \A i \in 1..Len(log) : m[i] = log[i]
  OBVIOUS
<1>3. l = IF Len(m) > keep THEN Tail(m) ELSE m
  BY DEF Remember
<1> HIDE DEF m
<1>4. CASE Len(m) > keep
  <2>1. l \in Seq(S) /\ Len(l) = Len(m) - 1 /\ \A i \in 1..Len(m) - 1 : l[i] = m[i + 1]
    BY <1>1, <1>3, <1>4
  <2>2. Len(log) = keep /\ Len(l) = keep
    BY <1>1, <1>4, <2>1
  <2>3. l[Len(l)] = x
    BY <1>1, <1>2, <2>1, <2>2
  <2>4. ASSUME NEW j \in 1..Len(l) - 1
        PROVE  l[Len(l) - j] = log[Len(log) - (j - 1)]
    <3>1. l[keep - j] = m[keep - j + 1]
      BY <1>1, <2>1, <2>2, <2>4
    <3>2. m[keep - j + 1] = log[keep - j + 1]
      BY <1>1, <1>2, <2>2, <2>4
    <3>3. keep - j + 1 = keep - (j - 1)
      BY <2>4
    <3> QED
      BY <2>2, <3>1, <3>2, <3>3
  <2> QED
    BY <2>1, <2>2, <2>3, <2>4
<1>5. CASE ~(Len(m) > keep)
  <2>1. l = m /\ Len(log) < keep /\ Len(l) = Len(log) + 1
    BY <1>1, <1>3, <1>5
  <2>2. \A j \in 1..Len(l) - 1 : l[Len(l) - j] = log[Len(log) - (j - 1)]
    <3> TAKE j \in 1..Len(l) - 1
    <3>1. Len(l) - j = Len(log) - (j - 1) /\ Len(l) - j \in 1..Len(log)
      BY <1>1, <2>1
    <3> QED
      BY <1>2, <2>1, <3>1
  <2> QED
    BY <1>1, <1>2, <2>1, <2>2
<1> QED
  BY <1>4, <1>5

\* the number of entries a window covers
Covered(log, w) == IF Len(log) > Ticks[w] THEN Ticks[w] ELSE Len(log)

(* A window is the end of its log.                                         *)
LEMMA WindowFacts ==
  ASSUME NEW S, NEW log \in Seq(S), NEW w \in LongWindows
  PROVE  /\ Covered(log, w) \in Nat /\ Covered(log, w) <= Len(log)
         /\ Covered(log, w) <= Ticks[w]
         /\ DOMAIN Window(log, w) = 1..Covered(log, w)
         /\ IsFiniteSet(DOMAIN Window(log, w))
         /\ \A i \in 1..Covered(log, w) :
              Window(log, w)[i] = log[Len(log) - Covered(log, w) + i]
         /\ Window(log, w) \in Seq(S)
<1> DEFINE n == Len(log)
           m == IF n > Ticks[w] THEN n - Ticks[w] + 1 ELSE 1
           W == Window(log, w)
<1>1. n \in Nat /\ Ticks[w] \in Nat /\ Ticks[w] > 0
  BY KeepFacts
<1>2. W = SubSeq(log, m, n)
  BY DEF Window
<1>3. Covered(log, w) \in Nat /\ Covered(log, w) <= n /\ Covered(log, w) <= Ticks[w]
      /\ m = n - Covered(log, w) + 1
  BY <1>1 DEF Covered
<1>4. m \in Int /\ n \in Int /\ \A i \in m..n : log[i] \in S
  BY <1>1, <1>3
<1>5. /\ W \in Seq(S) /\ Len(W) = IF m <= n THEN n - m + 1 ELSE 0
      /\ \A i \in 1..n - m + 1 : W[i] = log[m + i - 1]
  <2> HIDE DEF n, m, W
  <2> QED
    BY <1>2, <1>4, SubSeqProperties
<1> HIDE DEF n, m, W
<1>6. n - m + 1 = Covered(log, w) /\ (m > n => Covered(log, w) = 0)
  BY <1>1, <1>3
<1>7. Len(W) = Covered(log, w) /\ DOMAIN W = 1..Covered(log, w)
  <2>1. Len(W) = Covered(log, w)
    BY <1>4, <1>5, <1>6
  <2> QED
    BY <1>5, <2>1
<1>8. \A i \in 1..Covered(log, w) : W[i] = log[n - Covered(log, w) + i]
  <2> TAKE i \in 1..Covered(log, w)
  <2>1. m + i - 1 = n - Covered(log, w) + i
    BY <1>1, <1>3
  <2> QED
    BY <1>5, <1>6, <2>1
<1>9. IsFiniteSet(1..Covered(log, w))
  BY <1>3, FS_Interval
<1> QED
  BY <1>3, <1>5, <1>7, <1>8, <1>9 DEF W, n

(* What the rule files have in common.                                     *)
LEMMA RulesFacts ==
  ASSUME NEW s \in SLIs
  PROVE  /\ RulesOf(s).windows \subseteq LongWindows
         /\ RulesOf(s).burn \union {RulesOf(s).compliance} \subseteq RulesOf(s).windows
         /\ \A a \in RulesOf(s).alerts :
              /\ a.for \in {2, 5, 10, 15, 60, 180} /\ a.factor \in Nat
              /\ a.factor # 0 => a.short \in ShortWindows \intersect RulesOf(s).burn
         /\ \A a, b \in RulesOf(s).alerts : a.name = b.name => a = b
<1> USE DEF LongWindows, ShortWindows, FastBurn, SlowBurn, BurnTicket, SlowTicket, Exhausted, Alert
<1>1. CASE s.bundle = "production"
  BY <1>1 DEF RulesOf, ProductionRules
<1>2. CASE s.bundle = "cloud"
  BY <1>2 DEF RulesOf, CloudRules
<1>3. CASE s.bundle = "app"
  BY <1>3 DEF RulesOf, AppRules
<1>4. CASE s.bundle = "demo"
  BY <1>4 DEF RulesOf, DemoRules
<1> QED
  BY <1>1, <1>2, <1>3, <1>4, SLIFacts

(* An alert is found by its name, and has a "for".                         *)
LEMMA AlertFacts ==
  ASSUME sli \in SLIs
  PROVE  /\ \A a \in Rules.alerts : AlertOf(a.name) = a
         /\ \A name \in {a.name : a \in Rules.alerts} :
              AlertOf(name) \in Rules.alerts /\ HoldOf(name) \in Nat
<1>1. ASSUME NEW a \in Rules.alerts
      PROVE  AlertOf(a.name) = a
  BY RulesFacts DEF AlertOf, Rules
<1>2. ASSUME NEW a \in Rules.alerts
      PROVE  Holds[a.for] \in Nat
  BY RulesFacts, HoldsAssumption DEF Rules
<1> QED
  BY <1>1, <1>2 DEF HoldOf

-----------------------------------------------------------------------------
(* The inductive invariant.                                                *)

(* The recordings but the cloud's say what happened; the demo has none.    *)
EventsTrue ==
  /\ sli.bundle # "cloud" => events \in Seq(TrueRecordings)
  /\ sli.bundle = "demo" => events = <<>>

\* one of the last d samples of the log has a bad event
BadWithin(log, s, d) == \E i \in DOMAIN log : Len(log) - i < d /\ TrueBad(s, log[i]) > 0

(* A ratio or a burn rate above 0 has a bad event in its window or in the  *)
(* intervals it has not been evaluated in since.                           *)
RatioClears ==
  sli.bundle = "demo" =>
    \A w \in Rules.windows \intersect ShortWindows :
      ratio[w][1] > 0 =>
        BadWithin(samples, sli, Ticks[w] + (IF "events" \in due THEN 1 ELSE 0))

BurnClears ==
  \A w \in Rules.burn \intersect ShortWindows :
    burn[w][1] > 0 =>
      BadWithin(samples, sli, Ticks[w] + Ticks["5m"] + (IF "meta" \in due THEN 1 ELSE 0))

\* the intervals by which the recordings lag the samples
Lag == IF "events" \in due THEN 1 ELSE 0

(* A recording of a bad event has one in the five minutes before it.       *)
EventsClear ==
  \A j \in 0..Len(events) - 1 :
    events[Len(events) - j].bad > 0 => BadWithin(samples, sli, j + Ticks["5m"] + Lag)

IInv == TypeOK /\ EventsTrue /\ EventsClear /\ RatioClears /\ BurnClears /\ AlertClears

-----------------------------------------------------------------------------
(* What the rules compute in a state that satisfies it.                    *)

(* A window of a log that has entries has some.                            *)
LEMMA WindowNotEmpty ==
  ASSUME NEW S, NEW log \in Seq(S), log # <<>>, NEW w \in LongWindows
  PROVE  Window(log, w) # <<>>
<1> DEFINE W == Window(log, w)
<1>1. Covered(log, w) >= 1
  BY KeepFacts DEF Covered
<1>2. DOMAIN W = 1..Covered(log, w) /\ Covered(log, w) \in Nat
  BY WindowFacts
<1> HIDE DEF W
<1>3. 1 \in DOMAIN W
  BY <1>1, <1>2
<1>4. W # <<>>
  BY <1>3
<1> QED
  BY <1>4 DEF W

(* A bad event seen in a window is within its length.                      *)
LEMMA WindowClears ==
  ASSUME NEW s \in SLIs, NEW log \in Seq(Traffic[s.kind]), NEW w \in LongWindows,
         \E i \in DOMAIN Window(log, w) : TrueBad(s, Window(log, w)[i]) > 0
  PROVE  BadWithin(log, s, Ticks[w])
<1>1. PICK i \in DOMAIN Window(log, w) : TrueBad(s, Window(log, w)[i]) > 0
  OBVIOUS
<1> DEFINE c == Covered(log, w)
           j == Len(log) - c + i
<1>2. /\ c \in Nat /\ c <= Len(log) /\ c <= Ticks[w] /\ i \in 1..c
      /\ Window(log, w)[i] = log[j]
  BY WindowFacts
<1>3. j \in DOMAIN log /\ Len(log) - j < Ticks[w]
  BY <1>2, KeepFacts
<1>4. TrueBad(s, log[j]) > 0
  BY <1>1, <1>2
<1> QED
  BY <1>3, <1>4 DEF BadWithin

(* A bad event ages with the log, and is not lost before its time.         *)
LEMMA BadAges ==
  ASSUME NEW S, NEW log \in Seq(S), NEW x \in S, Len(log) <= Keep,
         NEW s, NEW d \in Nat, d + 1 <= Keep, BadWithin(log, s, d)
  PROVE  BadWithin(Remember(log, x, Keep), s, d + 1)
<1> DEFINE l == Remember(log, x, Keep)
<1>1. /\ l \in Seq(S) /\ Len(l) = IF Len(log) < Keep THEN Len(log) + 1 ELSE Keep
      /\ \A j \in 1..Len(l) - 1 : l[Len(l) - j] = log[Len(log) - (j - 1)]
  <2>1. \A keep \in Nat : keep > 0 /\ Len(log) <= keep =>
          LET m == Remember(log, x, keep)
          IN  /\ m \in Seq(S) /\ Len(m) = IF Len(log) < keep THEN Len(log) + 1 ELSE keep
              /\ \A j \in 1..Len(m) - 1 : m[Len(m) - j] = log[Len(log) - (j - 1)]
    BY RememberFacts
  <2>2. Keep \in Nat /\ Keep > 0
    BY KeepFacts
  <2> QED
    BY <2>1, <2>2
<1>2. PICK i \in DOMAIN log : Len(log) - i < d /\ TrueBad(s, log[i]) > 0
  BY DEF BadWithin
<1> HIDE DEF l
<1> DEFINE j == Len(log) - i + 1
<1>3. /\ j \in 1..Len(l) - 1 /\ Len(log) - (j - 1) = i
      /\ Len(l) - (Len(l) - j) < d + 1 /\ Len(l) - j \in DOMAIN l
  <2>1. i \in 1..Len(log) /\ Len(log) \in Nat /\ Len(l) \in Nat /\ DOMAIN l = 1..Len(l)
    BY <1>1, <1>2
  <2>2. j \in Nat /\ j >= 1 /\ j <= d /\ j <= Len(log) /\ Len(log) - (j - 1) = i
    BY <1>2, <2>1
  <2> HIDE DEF j
  <2>3. j <= Len(l) - 1
    BY <1>1, <2>1, <2>2, KeepFacts
  <2> QED
    BY <2>1, <2>2, <2>3
<1>4. l[Len(l) - j] = log[i]
  BY <1>1, <1>3
<1> QED
  BY <1>2, <1>3, <1>4 DEF BadWithin, l

(* A bad event within some intervals is within more.                       *)
LEMMA BadWider ==
  ASSUME NEW S, NEW log \in Seq(S), NEW s, NEW d \in Nat, NEW e \in Nat, d <= e,
         BadWithin(log, s, d)
  PROVE  BadWithin(log, s, e)
BY DEF BadWithin

(* A ratio of recordings: above 0 only with a bad event in its window or   *)
(* before it by what a recording looks back on, and the share of what      *)
(* happened if the recordings say that.                                    *)
LEMMA RecordedFacts ==
  ASSUME TypeOK, EventsTrue, EventsClear, NEW w \in Rules.windows
  PROVE  /\ RecordedRatio(w) \in Nat \X Nat
         /\ RecordedRatio(w)[1] > 0 =>
              BadWithin(samples, sli, Ticks[w] + Ticks["5m"] - 1 + Lag)
         /\ sli.bundle # "cloud" =>
              IsShareOf(RecordedRatio(w), Recorded("trueBad", w), Recorded("trueTotal", w), 0)
<1> DEFINE rs == Recordings(w)
           n == Len(events)
           c == Covered(events, w)
<1>1. w \in LongWindows /\ samples \in Seq(Traffic[sli.kind]) /\ sli \in SLIs
  BY RulesFacts DEF TypeOK, Rules
<1>2. /\ Ticks[w] \in Nat /\ Ticks[w] > 0 /\ Ticks["5m"] \in Nat /\ Ticks["5m"] > 0
      /\ Lag \in {0, 1}
  BY <1>1, KeepFacts DEF Lag
<1>3. events \in Seq(RecordingSet) /\ n \in Nat
  BY DEF TypeOK
<1>4. /\ IsFiniteSet(DOMAIN rs)
      /\ \A i \in DOMAIN rs : \E j \in 0..n - 1 : j < Ticks[w] /\ rs[i] = events[n - j]
  <2>1. CASE w = "5m" /\ events # <<>>
    <3>1. rs = <<events[n]>>
      BY <2>1 DEF Recordings, Last
    <3>2. n # 0
      BY <1>3, <2>1
    <3>3. DOMAIN rs = {1} /\ rs[1] = events[n - 0] /\ 0 \in 0..n - 1 /\ 0 < Ticks[w]
      BY <1>2, <1>3, <3>1, <3>2
    <3> QED
      BY <3>3, FS_Singleton
  <2>2. CASE ~(w = "5m" /\ events # <<>>)
    <3>1. rs = Window(events, w)
      BY <2>2 DEF Recordings
    <3>2. /\ c \in Nat /\ c <= n /\ c <= Ticks[w] /\ DOMAIN rs = 1..c
          /\ IsFiniteSet(DOMAIN rs) /\ \A i \in 1..c : rs[i] = events[n - c + i]
      BY <1>1, <1>3, <3>1, WindowFacts
    <3> HIDE DEF rs, c, n
    <3>3. ASSUME NEW i \in 1..c
          PROVE  \E j \in 0..n - 1 : j < Ticks[w] /\ rs[i] = events[n - j]
      <4>1. /\ c - i \in 0..n - 1 /\ c - i < Ticks[w] /\ n - (c - i) = n - c + i
        BY <1>2, <1>3, <3>2, <3>3
      <4> QED
        BY <3>2, <3>3, <4>1
    <3> QED
      BY <3>2, <3>3
  <2> QED
    BY <2>1, <2>2
<1>5. RecordedRatio(w) = DivideAverages([i \in DOMAIN rs |-> rs[i].bad],
                                        [i \in DOMAIN rs |-> rs[i].total])
  BY DEF RecordedRatio
<1>6. /\ Recorded("trueBad", w) = SumFunction([i \in DOMAIN rs |-> rs[i].trueBad])
      /\ Recorded("trueTotal", w) = SumFunction([i \in DOMAIN rs |-> rs[i].trueTotal])
  BY DEF Recorded
<1> HIDE DEF rs
<1>7. \A i \in DOMAIN rs : rs[i] \in RecordingSet
  <2> TAKE i \in DOMAIN rs
  <2>1. PICK j \in 0..n - 1 : rs[i] = events[n - j]
    BY <1>4
  <2>2. n - j \in 1..n
    BY <1>3, <2>1
  <2> QED
    BY <1>3, <2>1, <2>2, ElementOfSeq
<1>8. sli.bundle # "cloud" => \A i \in DOMAIN rs : rs[i] \in TrueRecordings
  <2> SUFFICES ASSUME sli.bundle # "cloud", NEW i \in DOMAIN rs PROVE rs[i] \in TrueRecordings
    OBVIOUS
  <2>1. PICK j \in 0..n - 1 : rs[i] = events[n - j]
    BY <1>4
  <2>2. n - j \in 1..n
    BY <1>3, <2>1
  <2>3. events \in Seq(TrueRecordings)
    BY DEF EventsTrue
  <2> QED
    BY <2>1, <2>2, <2>3, ElementOfSeq
<1>9. /\ RecordedRatio(w) \in Nat \X Nat
      /\ RecordedRatio(w)[1] > 0 => \E i \in DOMAIN rs : rs[i].bad > 0
      /\ (\A i \in DOMAIN rs : rs[i] \in TrueRecordings) =>
           IsShareOf(RecordedRatio(w), SumFunction([i \in DOMAIN rs |-> rs[i].trueBad]),
                     SumFunction([i \in DOMAIN rs |-> rs[i].trueTotal]), 0)
  BY <1>4, <1>5, <1>7, RecordedShare
<1>10. ASSUME NEW i \in DOMAIN rs, rs[i].bad > 0
       PROVE  BadWithin(samples, sli, Ticks[w] + Ticks["5m"] - 1 + Lag)
  <2>1. PICK j \in 0..n - 1 : j < Ticks[w] /\ rs[i] = events[n - j]
    BY <1>4
  <2>2. BadWithin(samples, sli, j + Ticks["5m"] + Lag)
    BY <1>10, <2>1 DEF EventsClear
  <2>3. /\ j + Ticks["5m"] + Lag \in Nat /\ Ticks[w] + Ticks["5m"] - 1 + Lag \in Nat
        /\ j + Ticks["5m"] + Lag <= Ticks[w] + Ticks["5m"] - 1 + Lag
    <3>1. j \in Nat /\ j < Ticks[w]
      BY <1>3, <2>1
    <3> QED
      BY <1>2, <3>1
  <2> DEFINE d == j + Ticks["5m"] + Lag
             k == Ticks[w] + Ticks["5m"] - 1 + Lag
  <2>4. d \in Nat /\ k \in Nat /\ d <= k /\ BadWithin(samples, sli, d)
    BY <2>2, <2>3
  <2> HIDE DEF d, k
  <2>5. BadWithin(samples, sli, k)
    BY <1>1, <2>4, BadWider
  <2> QED
    BY <2>5 DEF k
<1> QED
  BY <1>6, <1>8, <1>9, <1>10

(* A ratio of the demo: above 0 only with a bad event in its window, and   *)
(* the share of what happened in it, but for the clamp.                    *)
LEMMA RawFacts ==
  ASSUME TypeOK, sli.bundle = "demo", samples # <<>>, NEW w \in Rules.windows
  PROVE  /\ RawRatio(sli, w) \in Nat \X Nat
         /\ RawRatio(sli, w)[1] > 0 => BadWithin(samples, sli, Ticks[w])
         /\ IsShareOf(RawRatio(sli, w), AllBad(sli, Window(samples, w)),
                      AllTotal(sli, Window(samples, w)), Least(sli, w))
<1> DEFINE ss == Window(samples, w)
           v == Read(sli, ss)
           least == Least(sli, w)
<1>1. /\ sli \in SLIs /\ w \in LongWindows /\ samples \in Seq(Traffic[sli.kind])
      /\ w \in {"5m", "30m", "1h", "6h"}
  <2>1. Rules = DemoRules
    BY SLIFacts DEF Rules, RulesOf
  <2> QED
    BY <2>1 DEF TypeOK, DemoRules, LongWindows
<1>2. IsFiniteSet(DOMAIN ss) /\ ss \in Seq(Traffic[sli.kind]) /\ ss # <<>>
  BY <1>1, WindowNotEmpty, WindowFacts
<1>3. RawRatio(sli, w) = DivideClamped(Bad(sli, v), Total(sli, v), least)
  BY DEF RawRatio
<1>4. least \in Nat
  BY <1>1 DEF Least, Seconds
<1>5. /\ sli.kind \in {"error", "latency", "outcome"}
      /\ \A n \in SeriesOf(sli.kind) : v[n] = RateOver(Series(ss, n))
  BY <1>1, <1>2, ReadFacts
<1> HIDE DEF ss, v, least
<1>6. \A i \in DOMAIN ss : ss[i] \in Traffic[sli.kind]
  BY <1>2, ElementOfSeq
<1>7. /\ RawRatio(sli, w) \in Nat \X Nat
      /\ RawRatio(sli, w)[1] > 0 => \E i \in DOMAIN ss : TrueBad(sli, ss[i]) > 0
      /\ IsShareOf(RawRatio(sli, w), AllBad(sli, ss), AllTotal(sli, ss), least)
  BY <1>1, <1>2, <1>3, <1>4, <1>5, <1>6, RawShare
<1> QED
  BY <1>1, <1>7, WindowClears DEF ss, least

-----------------------------------------------------------------------------
(* Every step keeps the invariant.                                         *)

(* The rules and the holds of the alerts are those of the SLI followed.    *)
LEMMA HoldsStay ==
  ASSUME TypeOK, sli' = sli
  PROVE  /\ Rules' = Rules
         /\ \A name \in {a.name : a \in Rules.alerts} : HoldOf(name)' = HoldOf(name)
BY DEF Rules, HoldOf, AlertOf

(* Nothing is recorded before the first scrape.                            *)
LEMMA InitInv == Init => IInv
<1> SUFFICES ASSUME Init PROVE IInv
  OBVIOUS
<1>1. sli \in SLIs /\ samples = <<>> /\ events = <<>> /\ Len(events) = 0
  BY DEF Init
<1>2. NoRatio \in Nat \X Nat /\ NoRatio[1] = 0
  BY DEF NoRatio
<1>3. TypeOK
  <2>1. samples \in Seq(Traffic[sli.kind]) /\ Len(samples) <= Keep
    BY KeepFacts DEF Init
  <2>2. events \in Seq(RecordingSet) /\ Len(events) <= KeepRecordings
    BY KeepFacts DEF Init
  <2>3. \A name \in DOMAIN held : held[name] \in 0..HoldOf(name) + 1
    BY <1>1, AlertFacts DEF Init
  <2> QED
    BY <1>1, <1>2, <2>1, <2>2, <2>3 DEF Init, TypeOK
<1>4. EventsTrue /\ EventsClear
  BY <1>1 DEF EventsTrue, EventsClear
<1>5. RatioClears
  BY <1>2 DEF Init, RatioClears
<1>6. BurnClears
  BY <1>2 DEF Init, BurnClears
<1>7. AlertClears
  BY DEF Init, AlertClears
<1> QED
  BY <1>3, <1>4, <1>5, <1>6, <1>7 DEF IInv

(* A scrape makes every event one interval older.                          *)
LEMMA ScrapeInv == IInv /\ Scrape => IInv'
<1> SUFFICES ASSUME IInv, Scrape PROVE IInv'
  OBVIOUS
<1> USE DEF IInv
<1>1. PICK v \in Traffic[sli.kind] : samples' = Remember(samples, v, Keep)
  BY DEF Scrape
<1>2. /\ due = {} /\ due' = Groups /\ sli' = sli /\ events' = events /\ ratio' = ratio
      /\ burn' = burn /\ held' = held
      /\ Lag = 0 /\ Lag' = 1
  BY DEF Scrape, Lag, Groups
<1>3. /\ sli \in SLIs /\ samples \in Seq(Traffic[sli.kind]) /\ Len(samples) <= Keep
      /\ events \in Seq(RecordingSet) /\ Len(events) <= KeepRecordings
  BY DEF TypeOK
<1>4. /\ samples' \in Seq(Traffic[sli.kind]) /\ samples' # <<>>
      /\ Len(samples') = IF Len(samples) < Keep THEN Len(samples) + 1 ELSE Keep
  <2> DEFINE T == Traffic[sli.kind]
             l == Remember(samples, v, Keep)
  <2>1. samples \in Seq(T) /\ v \in T /\ Len(samples) <= Keep /\ Keep \in Nat /\ Keep > 0
    BY <1>3, KeepFacts
  <2> HIDE DEF T
  <2>2. /\ l \in Seq(T) /\ l # <<>>
        /\ Len(l) = IF Len(samples) < Keep THEN Len(samples) + 1 ELSE Keep
    BY <2>1, RememberFacts
  <2> QED
    BY <1>1, <2>2 DEF T
<1>5. TypeOK'
  <2>1. Len(samples') <= Keep
    BY <1>3, <1>4, KeepFacts
  <2>2. \A name \in DOMAIN held' : held'[name] \in 0..HoldOf(name)' + 1
    BY <1>2, HoldsStay DEF TypeOK
  <2> QED
    BY <1>2, <1>4, <2>1, <2>2, HoldsStay DEF TypeOK
<1>6. EventsTrue'
  BY <1>2 DEF EventsTrue
<1>7. EventsClear'
  <2> SUFFICES ASSUME NEW j \in 0..Len(events) - 1, events[Len(events) - j].bad > 0
               PROVE  BadWithin(samples', sli, j + Ticks["5m"] + 1)
    BY <1>2 DEF EventsClear
  <2> DEFINE d == j + Ticks["5m"]
  <2>1. d \in Nat /\ d + 1 <= Keep /\ d + 0 = d
    BY <1>3, KeepFacts
  <2>2. BadWithin(samples, sli, d + 0)
    BY <1>2 DEF EventsClear
  <2> HIDE DEF d
  <2>3. BadWithin(samples', sli, d + 1)
    BY <1>1, <1>3, <2>1, <2>2, BadAges
  <2> QED
    BY <2>3 DEF d
<1>8. RatioClears'
  <2> SUFFICES ASSUME sli.bundle = "demo", NEW w \in Rules.windows \intersect ShortWindows,
                      ratio[w][1] > 0
               PROVE  BadWithin(samples', sli, Ticks[w] + 1)
    BY <1>2, HoldsStay DEF RatioClears, Groups
  <2>1. BadWithin(samples, sli, Ticks[w] + 0)
    BY <1>2 DEF RatioClears
  <2>2. w \in LongWindows /\ Ticks[w] \in Nat /\ Ticks[w] + 0 = Ticks[w] /\ Ticks[w] + 1 <= Keep
    BY KeepFacts DEF LongWindows, ShortWindows
  <2> QED
    BY <1>1, <1>3, <2>1, <2>2, BadAges
<1>9. BurnClears'
  <2> SUFFICES ASSUME NEW w \in Rules.burn \intersect ShortWindows, burn[w][1] > 0
               PROVE  BadWithin(samples', sli, Ticks[w] + Ticks["5m"] + 1)
    BY <1>2, HoldsStay DEF BurnClears, Groups
  <2> DEFINE d == Ticks[w] + Ticks["5m"]
  <2>1. BadWithin(samples, sli, d + 0)
    BY <1>2 DEF BurnClears
  <2>2. d \in Nat /\ d + 0 = d /\ d + 1 <= Keep
    BY KeepFacts DEF LongWindows, ShortWindows
  <2> HIDE DEF d
  <2>3. BadWithin(samples', sli, d + 1)
    BY <1>1, <1>3, <2>1, <2>2, BadAges
  <2> QED
    BY <2>3 DEF d
<1>10. AlertClears'
  BY <1>2 DEF AlertClears, Groups
<1> QED
  BY <1>5, <1>6, <1>7, <1>8, <1>9, <1>10

(* Layer 1 catches up with the samples: its ratios are those of now, and   *)
(* its recordings grow one interval older, with a new one.                 *)
LEMMA EventsGroupInv == IInv /\ EventsGroup => IInv'
<1> SUFFICES ASSUME IInv, EventsGroup PROVE IInv'
  OBVIOUS
<1> USE DEF IInv
<1>1. /\ "events" \in due /\ due' = due \ {"events"} /\ sli' = sli /\ samples' = samples
      /\ burn' = burn /\ held' = held
      /\ Lag = 1 /\ Lag' = 0
  BY DEF EventsGroup, Lag
<1>2. /\ sli \in SLIs /\ samples \in Seq(Traffic[sli.kind]) /\ Len(samples) <= Keep
      /\ samples # <<>>
      /\ events \in Seq(RecordingSet) /\ Len(events) <= KeepRecordings
  BY <1>1 DEF TypeOK
<1>3. BurnClears'
  BY <1>1, HoldsStay DEF BurnClears
<1>4. AlertClears'
  BY <1>1, HoldsStay DEF AlertClears
<1>5. \A name \in DOMAIN held' : held'[name] \in 0..HoldOf(name)' + 1
  BY <1>1, HoldsStay DEF TypeOK
<1>6. CASE sli.bundle = "demo"
  <2>1. ratio' = [w \in Rules.windows |-> RawRatio(sli, w)] /\ events' = events
    BY <1>6 DEF EventsGroup, RecordRawRatios
  <2>2. ratio' \in [Rules.windows -> Nat \X Nat]
    BY <1>2, <1>6, <2>1, RawFacts
  <2>3. TypeOK'
    BY <1>1, <1>2, <1>5, <2>1, <2>2, HoldsStay DEF TypeOK
  <2>4. EventsTrue'
    BY <1>1, <2>1 DEF EventsTrue
  <2>5. EventsClear'
    <3>1. events' = <<>> /\ Len(events') = 0
      BY <1>6, <2>1 DEF EventsTrue
    <3> QED
      BY <3>1 DEF EventsClear
  <2>6. RatioClears'
    <3> SUFFICES ASSUME NEW w \in Rules.windows \intersect ShortWindows, ratio'[w][1] > 0
                 PROVE  BadWithin(samples, sli, Ticks[w] + 0)
      BY <1>1, HoldsStay DEF RatioClears
    <3>1. BadWithin(samples, sli, Ticks[w])
      BY <1>2, <1>6, <2>1, RawFacts
    <3>2. Ticks[w] + 0 = Ticks[w]
      BY KeepFacts DEF LongWindows, ShortWindows
    <3> QED
      BY <3>1, <3>2
  <2> QED
    BY <1>3, <1>4, <2>3, <2>4, <2>5, <2>6
<1>7. CASE sli.bundle # "demo"
  <2> DEFINE ss == Window(samples, "5m")
             x == Recording(sli, ss)
             n == Len(events)
             f == Len(events')
  <2>1. events' = Remember(events, x, KeepRecordings) /\ ratio' = ratio
    BY <1>7 DEF EventsGroup, RecordEvents
  <2>2. ss \in Seq(Traffic[sli.kind]) /\ ss # <<>> /\ IsFiniteSet(DOMAIN ss)
        /\ "5m" \in LongWindows
    BY <1>2, WindowFacts, WindowNotEmpty DEF LongWindows
  <2>3. /\ x \in RecordingSet
        /\ x.bad > 0 => BadWithin(samples, sli, Ticks["5m"])
        /\ sli.bundle # "cloud" => x \in TrueRecordings
    <3>1. /\ x \in RecordingSet
          /\ x.bad > 0 => \E i \in DOMAIN ss : TrueBad(sli, ss[i]) > 0
          /\ sli.bundle # "cloud" => x \in TrueRecordings
      <4> HIDE DEF ss
      <4> QED
        BY <1>2, <2>2, RecordingFacts
    <3> QED
      BY <1>2, <2>2, <3>1, WindowClears
  <2> HIDE DEF x
  <2>4. KeepRecordings \in Nat /\ KeepRecordings > 0 /\ Ticks["5m"] \in Nat
    BY KeepFacts
  <2>5. /\ events' \in Seq(RecordingSet) /\ events'[f] = x
        /\ f = IF n < KeepRecordings THEN n + 1 ELSE KeepRecordings
        /\ \A j \in 1..f - 1 : events'[f - j] = events[n - (j - 1)]
    <3> DEFINE T == RecordingSet
               l == Remember(events, x, KeepRecordings)
    <3>1. events \in Seq(T) /\ x \in T /\ Len(events) <= KeepRecordings
      BY <1>2, <2>3
    <3> HIDE DEF T
    <3>2. /\ l \in Seq(T) /\ l[Len(l)] = x
          /\ Len(l) = IF Len(events) < KeepRecordings THEN Len(events) + 1 ELSE KeepRecordings
          /\ \A j \in 1..Len(l) - 1 : l[Len(l) - j] = events[Len(events) - (j - 1)]
      BY <2>4, <3>1, RememberFacts
    <3> QED
      BY <2>1, <3>2 DEF T
  <2>6. TypeOK'
    <3>1. Len(events') <= KeepRecordings
      BY <1>2, <2>4, <2>5
    <3> QED
      BY <1>1, <1>5, <2>1, <2>5, <3>1, HoldsStay DEF TypeOK
  <2>7. EventsTrue'
    <3> SUFFICES ASSUME sli.bundle # "cloud" PROVE events' \in Seq(TrueRecordings)
      BY <1>1, <1>7 DEF EventsTrue
    <3>1. events \in Seq(TrueRecordings) /\ x \in TrueRecordings
      BY <2>3 DEF EventsTrue
    <3> QED
      BY <1>2, <2>1, <2>4, <3>1, RememberFacts
  <2>8. EventsClear'
    <3> SUFFICES ASSUME NEW j \in 0..f - 1, events'[f - j].bad > 0
                 PROVE  BadWithin(samples, sli, j + Ticks["5m"] + 0)
      BY <1>1 DEF EventsClear
    <3>1. n \in Nat /\ n <= KeepRecordings /\ f \in Nat
      BY <1>2, <2>4, <2>5
    <3>2. CASE j = 0
      <4>1. f - j = f /\ j + Ticks["5m"] + 0 = Ticks["5m"]
        BY <2>4, <3>1, <3>2
      <4> QED
        BY <2>3, <2>5, <4>1
    <3>3. CASE j # 0
      <4>1. /\ j \in 1..f - 1 /\ j - 1 \in 0..n - 1
            /\ (j - 1) + Ticks["5m"] + 1 = j + Ticks["5m"] + 0
        BY <2>4, <2>5, <3>1, <3>3
      <4>2. events[n - (j - 1)].bad > 0
        BY <2>5, <4>1
      <4>3. BadWithin(samples, sli, (j - 1) + Ticks["5m"] + 1)
        BY <1>1, <4>1, <4>2 DEF EventsClear
      <4> QED
        BY <4>1, <4>3
    <3> QED
      BY <3>2, <3>3
  <2>9. RatioClears'
    BY <1>1, <1>7 DEF RatioClears
  <2> QED
    BY <1>3, <1>4, <2>6, <2>7, <2>8, <2>9
<1> QED
  BY <1>6, <1>7

(* Layer 2 reads what layer 1 recorded in this interval or the one before. *)
LEMMA MetaGroupInv == IInv /\ MetaGroup => IInv'
<1> SUFFICES ASSUME IInv, MetaGroup PROVE IInv'
  OBVIOUS
<1> USE DEF IInv
<1>1. /\ "meta" \in due /\ due' = due \ {"meta"} /\ sli' = sli /\ samples' = samples
      /\ events' = events /\ held' = held
      /\ burn' = [w \in DOMAIN burn |-> ratio'[w]]
      /\ "events" \in due' <=> "events" \in due
      /\ "burn" \in due' <=> "burn" \in due
      /\ Lag' = Lag
  BY DEF MetaGroup, Lag
<1>2. /\ sli \in SLIs /\ samples \in Seq(Traffic[sli.kind])
      /\ DOMAIN burn = Rules.burn \union {Rules.compliance}
      /\ Rules.burn \union {Rules.compliance} \subseteq Rules.windows
      /\ Rules.windows \subseteq LongWindows
  BY RulesFacts DEF TypeOK, Rules
<1>3. /\ ratio' \in [Rules.windows -> Nat \X Nat]
      /\ sli.bundle = "demo" => ratio' = ratio
      /\ \A w \in Rules.windows \intersect ShortWindows :
           ratio'[w][1] > 0 => BadWithin(samples, sli, Ticks[w] + Ticks["5m"] + 0)
  <2>1. CASE sli.bundle = "demo"
    <3>1. ratio' = ratio
      BY <2>1 DEF MetaGroup
    <3>2. ASSUME NEW w \in Rules.windows \intersect ShortWindows, ratio[w][1] > 0
          PROVE  BadWithin(samples, sli, Ticks[w] + Ticks["5m"] + 0)
      <4> DEFINE d == Ticks[w] + (IF "events" \in due THEN 1 ELSE 0)
                 k == Ticks[w] + Ticks["5m"] + 0
      <4>1. BadWithin(samples, sli, d)
        BY <2>1, <3>2 DEF RatioClears
      <4>2. d \in Nat /\ k \in Nat /\ d <= k
        BY <1>2, KeepFacts
      <4> HIDE DEF d, k
      <4>3. BadWithin(samples, sli, k)
        BY <1>2, <4>1, <4>2, BadWider
      <4> QED
        BY <4>3 DEF k
    <3> QED
      BY <3>1, <3>2 DEF TypeOK
  <2>2. CASE sli.bundle # "demo"
    <3>1. ratio' = [w \in Rules.windows |-> RecordedRatio(w)]
      BY <2>2 DEF MetaGroup
    <3>2. ratio' \in [Rules.windows -> Nat \X Nat]
      BY <3>1, RecordedFacts
    <3>3. ASSUME NEW w \in Rules.windows \intersect ShortWindows, ratio'[w][1] > 0
          PROVE  BadWithin(samples, sli, Ticks[w] + Ticks["5m"] + 0)
      <4> DEFINE d == Ticks[w] + Ticks["5m"] - 1 + Lag
                 k == Ticks[w] + Ticks["5m"] + 0
      <4>1. BadWithin(samples, sli, d)
        BY <3>1, <3>3, RecordedFacts
      <4>2. d \in Nat /\ k \in Nat /\ d <= k
        BY <1>2, KeepFacts DEF Lag
      <4> HIDE DEF d, k
      <4>3. BadWithin(samples, sli, k)
        BY <1>2, <4>1, <4>2, BadWider
      <4> QED
        BY <4>3 DEF k
    <3> QED
      BY <2>2, <3>2, <3>3
  <2> QED
    BY <2>1, <2>2
<1>4. TypeOK'
  <2>1. burn' \in [Rules.burn \union {Rules.compliance} -> Nat \X Nat]
    BY <1>1, <1>2, <1>3
  <2>2. \A name \in DOMAIN held' : held'[name] \in 0..HoldOf(name)' + 1
    BY <1>1, HoldsStay DEF TypeOK
  <2> QED
    BY <1>1, <1>3, <2>1, <2>2, HoldsStay DEF TypeOK
<1>5. EventsTrue' /\ EventsClear'
  BY <1>1 DEF EventsTrue, EventsClear
<1>6. RatioClears'
  BY <1>1, <1>3, HoldsStay DEF RatioClears
<1>7. BurnClears'
  BY <1>1, <1>2, <1>3, HoldsStay DEF BurnClears
<1>8. AlertClears'
  BY <1>1, HoldsStay DEF AlertClears
<1> QED
  BY <1>4, <1>5, <1>6, <1>7, <1>8

(* A burn rate above its factor is above 0.                                *)
LEMMA ExceedsFacts ==
  ASSUME TypeOK, NEW r \in Nat \X Nat, NEW factor \in Nat, Exceeds(r, factor)
  PROVE  r[1] > 0
<1>1. sli.budget \in Nat /\ r[1] \in Nat /\ r[2] \in Nat
  BY SLIFacts DEF TypeOK
<1>2. factor * sli.budget * r[2] \in Nat
  BY <1>1
<1>3. r[1] * 10000 > factor * sli.budget * r[2]
  BY DEF Exceeds
<1> QED
  BY <1>1, <1>2, <1>3

(* An alert counts on only while its short window exceeds the factor.      *)
LEMMA BurnGroupInv == IInv /\ BurnGroup => IInv'
<1> SUFFICES ASSUME IInv, BurnGroup PROVE IInv'
  OBVIOUS
<1> USE DEF IInv
<1>1. /\ due' = due \ {"burn"} /\ sli' = sli /\ samples' = samples /\ events' = events
      /\ ratio' = ratio /\ burn' = burn
      /\ held' = [name \in DOMAIN held |->
                    IF ~Condition(AlertOf(name)) THEN 0
                    ELSE IF Firing(name) THEN held[name] ELSE held[name] + 1]
      /\ "events" \in due' <=> "events" \in due
      /\ "meta" \in due' <=> "meta" \in due
      /\ Lag' = Lag
  BY DEF BurnGroup, Lag
<1>2. /\ sli \in SLIs /\ samples \in Seq(Traffic[sli.kind])
      /\ DOMAIN held = {a.name : a \in Rules.alerts}
  BY DEF TypeOK
<1>3. TypeOK'
  <2>1. \A name \in DOMAIN held : held'[name] \in 0..HoldOf(name) + 1
    <3> TAKE name \in DOMAIN held
    <3>1. HoldOf(name) \in Nat /\ held[name] \in 0..HoldOf(name) + 1
      BY <1>2, AlertFacts DEF TypeOK
    <3>2. \/ held'[name] \in {0, held[name]}
          \/ held'[name] = held[name] + 1 /\ ~(held[name] > HoldOf(name))
      BY <1>1 DEF Firing
    <3> QED
      BY <3>1, <3>2
  <2>2. DOMAIN held' = DOMAIN held
    BY <1>1
  <2> QED
    BY <1>1, <1>2, <2>1, <2>2, HoldsStay DEF TypeOK
<1>4. EventsTrue' /\ EventsClear'
  BY <1>1 DEF EventsTrue, EventsClear
<1>5. RatioClears'
  BY <1>1, HoldsStay DEF RatioClears
<1>6. BurnClears'
  BY <1>1, HoldsStay DEF BurnClears
<1>7. ASSUME NEW a \in Rules.alerts, a.factor # 0, held'[a.name] > 0
      PROVE  BadWithin(samples, sli, Ticks[a.short] + Ticks["5m"] + 1)
  <2>1. AlertOf(a.name) = a /\ a.name \in DOMAIN held
    BY <1>2, AlertFacts
  <2>2. Condition(a)
    BY <1>1, <1>7, <2>1
  <2>3. /\ a.factor \in Nat /\ a.short \in ShortWindows \intersect Rules.burn
        /\ a.short \in LongWindows
    BY <1>2, <1>7, RulesFacts DEF Rules
  <2>4. Exceeds(burn[a.short], a.factor) /\ burn[a.short] \in Nat \X Nat
    BY <1>7, <2>2, <2>3 DEF Condition, TypeOK
  <2>5. burn[a.short][1] > 0
    BY <2>3, <2>4, ExceedsFacts
  <2> DEFINE d == Ticks[a.short] + Ticks["5m"] + (IF "meta" \in due THEN 1 ELSE 0)
             k == Ticks[a.short] + Ticks["5m"] + 1
  <2>6. BadWithin(samples, sli, d)
    BY <2>3, <2>5 DEF BurnClears
  <2>7. d \in Nat /\ k \in Nat /\ d <= k
    BY <2>3, KeepFacts
  <2> HIDE DEF d, k
  <2>8. BadWithin(samples, sli, k)
    BY <1>2, <2>6, <2>7, BadWider
  <2> QED
    BY <2>8 DEF k
<1>8. AlertClears'
  BY <1>1, <1>7, HoldsStay DEF AlertClears, BadWithin
<1> QED
  BY <1>3, <1>4, <1>5, <1>6, <1>8

(* Nothing changes.                                                        *)
LEMMA StutterInv == IInv /\ UNCHANGED vars => IInv'
<1> SUFFICES ASSUME IInv, UNCHANGED vars PROVE IInv'
  OBVIOUS
<1>1. /\ sli' = sli /\ samples' = samples /\ events' = events /\ ratio' = ratio
      /\ burn' = burn /\ held' = held /\ due' = due
  BY DEF vars
<1>2. TypeOK'
  BY <1>1, HoldsStay DEF IInv, TypeOK
<1>3. EventsTrue' /\ EventsClear' /\ RatioClears' /\ BurnClears' /\ AlertClears'
  BY <1>1, HoldsStay
     DEF IInv, EventsTrue, EventsClear, Lag, RatioClears, BurnClears, AlertClears, Rules
<1> QED
  BY <1>2, <1>3 DEF IInv

(* The invariant holds of every state of every SLI of every bundle.        *)
THEOREM SLORulesInv == Spec => []IInv
<1>1. Init => IInv
  BY InitInv
<1>2. IInv /\ [Next]_vars => IInv'
  BY ScrapeInv, EventsGroupInv, MetaGroupInv, BurnGroupInv, StutterInv DEF Next
<1> QED
  BY <1>1, <1>2, PTL DEF Spec

(* Types: also that no ratio is negative, and that groups are due only     *)
(* after a scrape.                                                         *)
THEOREM SLORulesTypeOK == Spec => []TypeOK
<1>1. IInv => TypeOK
  BY DEF IInv
<1> QED
  BY <1>1, SLORulesInv, PTL

(* A burn alert ends with the incident: whatever the order of the groups   *)
(* and however long its long window, a bad event lies within its short     *)
(* window, the five minutes a recording looks back on, and one interval.   *)
THEOREM SLORulesAlertClears == Spec => []AlertClears
<1>1. IInv => AlertClears
  BY DEF IInv
<1> QED
  BY <1>1, SLORulesInv, PTL

(* Every ratio of counters is traffic-weighted: the share of the bad       *)
(* events in all events of what its window looks back on, however many     *)
(* series are absent, but for the clamp of the demo's workflow_completion. *)
THEOREM SLORulesTrafficWeighted == Spec => TrafficWeighted
<1>1. IInv /\ [Next]_vars =>
        [ratio' # ratio /\ sli.bundle # "cloud" =>
           \A w \in Rules.windows :
             IF sli.bundle = "demo"
             THEN IsShareOf(ratio'[w], AllBad(sli, Window(samples, w)),
                            AllTotal(sli, Window(samples, w)), Least(sli, w))
             ELSE IsShareOf(ratio'[w], Recorded("trueBad", w), Recorded("trueTotal", w), 0)]_vars
  <2> SUFFICES ASSUME IInv, Next, ratio' # ratio, sli.bundle # "cloud", NEW w \in Rules.windows
               PROVE  IF sli.bundle = "demo"
                      THEN IsShareOf(ratio'[w], AllBad(sli, Window(samples, w)),
                                     AllTotal(sli, Window(samples, w)), Least(sli, w))
                      ELSE IsShareOf(ratio'[w], Recorded("trueBad", w),
                                     Recorded("trueTotal", w), 0)
    BY DEF vars
  <2>1. CASE EventsGroup
    <3>1. /\ sli.bundle = "demo" /\ ratio' = [u \in Rules.windows |-> RawRatio(sli, u)]
          /\ "events" \in due
      BY <2>1 DEF EventsGroup, RecordRawRatios
    <3>2. samples # <<>> /\ TypeOK
      BY <3>1 DEF IInv, TypeOK
    <3>3. IsShareOf(RawRatio(sli, w), AllBad(sli, Window(samples, w)),
                    AllTotal(sli, Window(samples, w)), Least(sli, w))
      BY <3>1, <3>2, RawFacts
    <3> QED
      BY <3>1, <3>3
  <2>2. CASE MetaGroup
    <3>1. sli.bundle # "demo" /\ ratio' = [u \in Rules.windows |-> RecordedRatio(u)]
      BY <2>2 DEF MetaGroup
    <3>2. IsShareOf(RecordedRatio(w), Recorded("trueBad", w), Recorded("trueTotal", w), 0)
      BY RecordedFacts DEF IInv
    <3> QED
      BY <3>1, <3>2
  <2> QED
    BY <2>1, <2>2 DEF Next, Scrape, BurnGroup
<1> QED
  BY <1>1, SLORulesInv, PTL DEF Spec, TrafficWeighted

-----------------------------------------------------------------------------
(* The boards: what a generator may lay out, and what is neat.             *)

Deployments == {"demo", "production"}

RefIds == {<<>>, A, AB, ABC, ABCD}

\* what a panel may be
PanelSet == [id : Nat, owned : BOOLEAN, x : Nat, y : Nat, w : Nat, h : Nat,
             refs : RefIds, of : Deployments \cup {"both"}]

\* what a script lays out for a deployment, before it is numbered
LaidOut(d) == {p \in PanelSet : ~p.owned /\ p.id = 0 /\ p.of \in {"both", d}}

\* the panels of s lie between the lines lo and hi, and none on another
Stacked(s, d, lo, hi) ==
  /\ s \in Seq(LaidOut(d))
  /\ \A i \in DOMAIN s : lo <= s[i].y /\ s[i].y + s[i].h <= hi
  /\ \A i, j \in DOMAIN s : i # j => ~Overlap(s[i], s[j])

(* Of a sequence that goes down to hi, some panel ends there.              *)
Ends(s, hi) == \E i \in DOMAIN s : s[i].y + s[i].h = hi

(* A section laid out below another makes one layout with it.              *)
LEMMA StackedBelow ==
  ASSUME NEW s, NEW t, NEW d, NEW lo \in Nat, NEW mid \in Nat, NEW top \in Nat, NEW hi \in Nat,
         Stacked(s, d, lo, mid), Stacked(t, d, top, hi), lo <= mid, mid <= top, top <= hi
  PROVE  Stacked(s \o t, d, lo, hi)
<1>1. s \in Seq(LaidOut(d)) /\ t \in Seq(LaidOut(d)) /\ s \o t \in Seq(LaidOut(d))
  BY ConcatProperties DEF Stacked
<1>2. /\ \A i \in DOMAIN s : s[i] \in LaidOut(d)
      /\ \A i \in DOMAIN t : t[i] \in LaidOut(d)
  BY <1>1, ElementOfSeq
<1>3. \A i \in DOMAIN (s \o t) :
        \/ i \in DOMAIN s /\ (s \o t)[i] = s[i]
        \/ i - Len(s) \in DOMAIN t /\ (s \o t)[i] = t[i - Len(s)]
  BY <1>1, ConcatProperties
<1>4. \A p \in LaidOut(d) : p.y \in Nat /\ p.h \in Nat /\ p.x \in Nat /\ p.w \in Nat
  BY DEF LaidOut, PanelSet
<1>5. \A i \in DOMAIN (s \o t) : lo <= (s \o t)[i].y /\ (s \o t)[i].y + (s \o t)[i].h <= hi
  BY <1>2, <1>3, <1>4 DEF Stacked
<1>6. ASSUME NEW i \in DOMAIN s, NEW j \in DOMAIN t
      PROVE  ~Overlap(s[i], t[j]) /\ ~Overlap(t[j], s[i])
  BY <1>2, <1>4 DEF Stacked, Overlap
<1>7. ASSUME NEW i \in DOMAIN (s \o t), NEW j \in DOMAIN (s \o t), i # j
      PROVE  ~Overlap((s \o t)[i], (s \o t)[j])
  <2>1. DOMAIN s = 1..Len(s) /\ DOMAIN t = 1..Len(t) /\ Len(s) \in Nat /\ Len(t) \in Nat
    BY <1>1
  <2>2. i \in Int /\ j \in Int
    BY <1>1, ConcatProperties
  <2>3. i - Len(s) # j - Len(s)
    BY <1>7, <2>1, <2>2
  <2> QED
    BY <1>3, <1>6, <1>7, <2>3 DEF Stacked
<1> QED
  BY <1>1, <1>5, <1>7 DEF Stacked

(* And goes down to where the lower one does.                              *)
LEMMA EndsBelow ==
  ASSUME NEW d, NEW s \in Seq(LaidOut(d)), NEW t \in Seq(LaidOut(d)), NEW hi, Ends(t, hi)
  PROVE  Ends(s \o t, hi)
<1>1. PICK i \in DOMAIN t : t[i].y + t[i].h = hi
  BY DEF Ends
<1>2. Len(s) + i \in DOMAIN (s \o t) /\ (s \o t)[Len(s) + i] = t[i]
  BY ConcatProperties
<1> QED
  BY <1>1, <1>2 DEF Ends

-----------------------------------------------------------------------------
(* The sections of generate_golden_signals.py, each between two lines.     *)

(* The panels of ServiceLevel lie between lines 0 and 7, none on another.  *)
LEMMA ServiceLevelStacked == \A d \in Deployments : Stacked(ServiceLevel, d, 0, 7)
BY DEF Stacked, ServiceLevel, Row, Panel, PanelOf, Overlap, LaidOut, PanelSet, RefIds,
       Deployments, A

(* The panels of Rate lie between lines 7 and 15, none on another.         *)
LEMMA RateStacked == \A d \in Deployments : Stacked(Rate, d, 7, 15)
BY DEF Stacked, Rate, Row, Panel, PanelOf, Overlap, LaidOut, PanelSet, RefIds,
       Deployments, A, AB

(* The panels of Errors lie between lines 15 and 23, none on another.      *)
LEMMA ErrorsStacked == \A d \in Deployments : Stacked(Errors, d, 15, 23)
BY DEF Stacked, Errors, Row, Panel, PanelOf, Overlap, LaidOut, PanelSet, RefIds,
       Deployments, A, ABC

(* The panels of Duration lie between lines 23 and 31, none on another.    *)
LEMMA DurationStacked == \A d \in Deployments : Stacked(Duration, d, 23, 31)
BY DEF Stacked, Duration, Row, Panel, PanelOf, Overlap, LaidOut, PanelSet, RefIds,
       Deployments, A, AB, ABC

(* The panels of Saturation lie between lines 31 and 39, none on another.  *)
LEMMA SaturationStacked == \A d \in Deployments : Stacked(Saturation, d, 31, 39)
BY DEF Stacked, Saturation, Row, Panel, PanelOf, Overlap, LaidOut, PanelSet, RefIds,
       Deployments, A

(* The panels of WorkerCache lie between lines 42 and 51, none on another. *)
LEMMA WorkerCacheStacked == \A d \in Deployments : Stacked(WorkerCache, d, 42, 51)
BY DEF Stacked, WorkerCache, Row, Panel, PanelOf, Overlap, LaidOut, PanelSet, RefIds,
       Deployments, AB

(* The panels of Logs lie between lines 51 and 60, none on another.        *)
LEMMA LogsStacked == Stacked(Logs, "demo", 51, 60)
BY DEF Stacked, Logs, Row, Panel, PanelOf, Overlap, LaidOut, PanelSet, RefIds,
       Deployments, A

(* The panels of DurationSLO lie between lines 60 and 67, none on another. *)
LEMMA DurationSLOStacked == \A d \in Deployments : Stacked(DurationSLO, d, 60, 67)
BY DEF Stacked, DurationSLO, Row, Panel, PanelOf, Overlap, LaidOut, PanelSet, RefIds,
       Deployments, A

(* The panels of Traces lie between lines 69 and 81, none on another.      *)
LEMMA TracesStacked == \A d \in Deployments : Stacked(Traces, d, 69, 81)
BY DEF Stacked, Traces, Row, Text, Panel, PanelOf, Overlap, LaidOut, PanelSet, RefIds,
       Deployments, A

(* So do those of the whole board, which ends at line 81.                  *)
LEMMA GoldenSignalsStacked ==
  ASSUME NEW d \in Deployments
  PROVE  Stacked(GoldenSignals(d), d, 0, 81) /\ Ends(GoldenSignals(d), 81)
<1> DEFINE logs == IF d = "demo" THEN Logs ELSE <<>>
<1> DEFINE s1 == ServiceLevel
           s2 == s1 \o Rate
           s3 == s2 \o Errors
           s4 == s3 \o Duration
           s5 == s4 \o Saturation
           s6 == s5 \o WorkerCache
           s7 == s6 \o logs
           s8 == s7 \o DurationSLO
<1>0. Stacked(logs, d, 51, 60)
  BY LogsStacked DEF Stacked, Deployments
<1>1. Stacked(s1, d, 0, 7)
  BY ServiceLevelStacked
<1> HIDE DEF s1, logs
<1>2. Stacked(s2, d, 0, 15)
  BY <1>1, RateStacked, StackedBelow
<1> HIDE DEF s2
<1>3. Stacked(s3, d, 0, 23)
  BY <1>2, ErrorsStacked, StackedBelow
<1> HIDE DEF s3
<1>4. Stacked(s4, d, 0, 31)
  BY <1>3, DurationStacked, StackedBelow
<1> HIDE DEF s4
<1>5. Stacked(s5, d, 0, 39)
  BY <1>4, SaturationStacked, StackedBelow
<1> HIDE DEF s5
<1>6. Stacked(s6, d, 0, 51)
  BY <1>5, WorkerCacheStacked, StackedBelow
<1> HIDE DEF s6
<1>7. Stacked(s7, d, 0, 60)
  BY <1>6, <1>0, StackedBelow
<1> HIDE DEF s7
<1>8. Stacked(s8, d, 0, 67)
  BY <1>7, DurationSLOStacked, StackedBelow
<1> HIDE DEF s8
<1>9. Stacked(s8 \o Traces, d, 0, 81)
  BY <1>8, TracesStacked, StackedBelow
<1>10. Ends(Traces, 81)
  <2>1. 3 \in DOMAIN Traces /\ Traces[3].y + Traces[3].h = 81
    BY DEF Traces, Row, Text, Panel, PanelOf
  <2> QED
    BY <2>1 DEF Ends
<1>11. Ends(s8 \o Traces, 81)
  BY <1>8, <1>10, TracesStacked, EndsBelow DEF Stacked
<1> QED
  BY <1>9, <1>11 DEF GoldenSignals, s1, s2, s3, s4, s5, s6, s7, s8, logs

-----------------------------------------------------------------------------
(* The sections of generate_slo_board.py, each between two lines.          *)

(* The panels of Budgets lie between lines 0 and 11, none on another.      *)
LEMMA BudgetsStacked == \A d \in Deployments : Stacked(Budgets, d, 0, 11)
BY DEF Stacked, Budgets, Row, Panel, PanelOf, Overlap, LaidOut, PanelSet, RefIds,
       Deployments, A

(* The panels of BudgetTable lie between lines 11 and 23, none on another. *)
LEMMA BudgetTableStacked == \A d \in Deployments : Stacked(BudgetTable, d, 11, 23)
BY DEF Stacked, BudgetTable, Row, Panel, PanelOf, Overlap, LaidOut, PanelSet, RefIds,
       Deployments, ABCD

(* The panels of BurnRates lie between lines 23 and 33, none on another.   *)
LEMMA BurnRatesStacked == \A d \in Deployments : Stacked(BurnRates, d, 23, 33)
BY DEF Stacked, BurnRates, Row, Panel, PanelOf, Overlap, LaidOut, PanelSet, RefIds,
       Deployments, A, AB

(* The panels of Roles lie between lines 33 and 52, none on another.       *)
LEMMA RolesStacked == \A d \in Deployments : Stacked(Roles(d), d, 33, 52)
BY DEF Stacked, Roles, Row, Panel, PanelOf, Overlap, LaidOut, PanelSet, RefIds,
       Deployments, A, AB

(* So do those of the whole board, which ends at line 52.                  *)
LEMMA SLOBoardStacked ==
  ASSUME NEW d \in Deployments
  PROVE  Stacked(SLOBoard(d), d, 0, 52) /\ Ends(SLOBoard(d), 52)
<1> DEFINE s1 == Budgets
           s2 == s1 \o BudgetTable
           s3 == s2 \o BurnRates
<1>1. Stacked(s1, d, 0, 11)
  BY BudgetsStacked
<1> HIDE DEF s1
<1>2. Stacked(s2, d, 0, 23)
  BY <1>1, BudgetTableStacked, StackedBelow
<1> HIDE DEF s2
<1>3. Stacked(s3, d, 0, 33)
  BY <1>2, BurnRatesStacked, StackedBelow
<1> HIDE DEF s3
<1>4. Stacked(s3 \o Roles(d), d, 0, 52)
  BY <1>3, RolesStacked, StackedBelow
<1>5. Ends(Roles(d), 52)
  <2>1. 4 \in DOMAIN Roles(d) /\ Roles(d)[4].y + Roles(d)[4].h = 52
    BY DEF Roles, Row, Panel, PanelOf
  <2> QED
    BY <2>1 DEF Ends
<1>6. Ends(s3 \o Roles(d), 52)
  BY <1>3, <1>5, RolesStacked, EndsBelow DEF Stacked
<1> QED
  BY <1>4, <1>6 DEF SLOBoard, s1, s2, s3

-----------------------------------------------------------------------------
(* The sections of generate_overview.py, each between two lines.           *)

(* The panels of HeroStrip lie between lines 0 and 5, none on another.     *)
LEMMA HeroStripStacked == \A d \in Deployments : Stacked(HeroStrip, d, 0, 5)
BY DEF Stacked, HeroStrip, Text, Panel, PanelOf, Overlap, LaidOut, PanelSet, RefIds,
       Deployments, A

(* The panels of Health lie between lines 5 and 22, none on another.       *)
LEMMA HealthStacked == \A d \in Deployments : Stacked(Health, d, 5, 22)
BY DEF Stacked, Health, Row, Panel, PanelOf, Overlap, LaidOut, PanelSet, RefIds,
       Deployments, A, ABC

(* The panels of TaskQueues lie between lines 22 and 37, none on another.  *)
LEMMA TaskQueuesStacked == \A d \in Deployments : Stacked(TaskQueues, d, 22, 37)
BY DEF Stacked, TaskQueues, Row, Panel, PanelOf, Overlap, LaidOut, PanelSet, RefIds,
       Deployments, A, AB

(* The panels of ServiceLevels lie between lines 37 and 44, none on other. *)
LEMMA ServiceLevelsStacked == \A d \in Deployments : Stacked(ServiceLevels, d, 37, 44)
BY DEF Stacked, ServiceLevels, Row, Panel, PanelOf, Overlap, LaidOut, PanelSet, RefIds,
       Deployments, A

(* The panels of Navigation lie between lines 44 and 48, none on another.  *)
LEMMA NavigationStacked == \A d \in Deployments : Stacked(Navigation, d, 44, 48)
BY DEF Stacked, Navigation, Text, Panel, PanelOf, Overlap, LaidOut, PanelSet, RefIds,
       Deployments, A

(* So do those of the whole board, which ends at line 48.                  *)
LEMMA OverviewStacked ==
  ASSUME NEW d \in Deployments
  PROVE  Stacked(Overview, d, 0, 48) /\ Ends(Overview, 48)
<1> DEFINE s1 == HeroStrip
           s2 == s1 \o Health
           s3 == s2 \o TaskQueues
           s4 == s3 \o ServiceLevels
<1>1. Stacked(s1, d, 0, 5)
  BY HeroStripStacked
<1> HIDE DEF s1
<1>2. Stacked(s2, d, 0, 22)
  BY <1>1, HealthStacked, StackedBelow
<1> HIDE DEF s2
<1>3. Stacked(s3, d, 0, 37)
  BY <1>2, TaskQueuesStacked, StackedBelow
<1> HIDE DEF s3
<1>4. Stacked(s4, d, 0, 44)
  BY <1>3, ServiceLevelsStacked, StackedBelow
<1> HIDE DEF s4
<1>5. Stacked(s4 \o Navigation, d, 0, 48)
  BY <1>4, NavigationStacked, StackedBelow
<1>6. Ends(Navigation, 48)
  <2>1. 1 \in DOMAIN Navigation /\ Navigation[1].y + Navigation[1].h = 48
    BY DEF Navigation, Text, Panel, PanelOf
  <2> QED
    BY <2>1 DEF Ends
<1>7. Ends(s4 \o Navigation, 48)
  BY <1>4, <1>6, NavigationStacked, EndsBelow DEF Stacked
<1> QED
  BY <1>5, <1>7 DEF Overview, s1, s2, s3, s4

-----------------------------------------------------------------------------
(* The sections of generate_selfhosted_full.py, each between two lines.    *)

(* The panels of Header lie between lines 0 and 4, none on another.        *)
LEMMA HeaderStacked == \A d \in Deployments : Stacked(Header, d, 0, 4)
BY DEF Stacked, Header, Panel, PanelOf, Overlap, LaidOut, PanelSet, RefIds,
       Deployments, A

(* The panels of Workflows lie between lines 4 and 21, none on another.    *)
LEMMA WorkflowsStacked == \A d \in Deployments : Stacked(Workflows, d, 4, 21)
BY DEF Stacked, Workflows, Row, Pct, Panel, PanelOf, Overlap, LaidOut, PanelSet, RefIds,
       Deployments, A, ABCD, ABC

(* The panels of Activities lie between lines 21 and 38, none on another.  *)
LEMMA ActivitiesStacked == \A d \in Deployments : Stacked(Activities, d, 21, 38)
BY DEF Stacked, Activities, Row, Pct, Panel, PanelOf, Overlap, LaidOut, PanelSet, RefIds,
       Deployments, A, AB, ABC

(* The panels of Pollers lie between lines 38 and 55, none on another.     *)
LEMMA PollersStacked == \A d \in Deployments : Stacked(Pollers, d, 38, 55)
BY DEF Stacked, Pollers, Row, Panel, PanelOf, Overlap, LaidOut, PanelSet, RefIds,
       Deployments, A, AB, ABCD

(* The panels of Service lie between lines 55 and 79, none on another.     *)
LEMMA ServiceStacked == \A d \in Deployments : Stacked(Service, d, 55, 79)
BY SMTT(60) DEF Stacked, Service, Row, Pct, Panel, PanelOf, Overlap, LaidOut, PanelSet, RefIds,
       Deployments, A, ABC

(* The panels of Persistence lie between lines 79 and 96, none on another. *)
LEMMA PersistenceStacked == \A d \in Deployments : Stacked(Persistence, d, 79, 96)
BY DEF Stacked, Persistence, Row, Pct, Panel, PanelOf, Overlap, LaidOut, PanelSet, RefIds,
       Deployments, A, AB, ABC

(* So do those of the whole board, which ends at line 96.                  *)
LEMMA FullOverviewStacked ==
  ASSUME NEW d \in Deployments
  PROVE  Stacked(FullOverview, d, 0, 96) /\ Ends(FullOverview, 96)
<1> DEFINE s1 == Header
           s2 == s1 \o Workflows
           s3 == s2 \o Activities
           s4 == s3 \o Pollers
           s5 == s4 \o Service
<1>1. Stacked(s1, d, 0, 4)
  BY HeaderStacked
<1> HIDE DEF s1
<1>2. Stacked(s2, d, 0, 21)
  BY <1>1, WorkflowsStacked, StackedBelow
<1> HIDE DEF s2
<1>3. Stacked(s3, d, 0, 38)
  BY <1>2, ActivitiesStacked, StackedBelow
<1> HIDE DEF s3
<1>4. Stacked(s4, d, 0, 55)
  BY <1>3, PollersStacked, StackedBelow
<1> HIDE DEF s4
<1>5. Stacked(s5, d, 0, 79)
  BY <1>4, ServiceStacked, StackedBelow
<1> HIDE DEF s5
<1>6. Stacked(s5 \o Persistence, d, 0, 96)
  BY <1>5, PersistenceStacked, StackedBelow
<1>7. Ends(Persistence, 96)
  <2>1. 4 \in DOMAIN Persistence /\ Persistence[4].y + Persistence[4].h = 96
    BY DEF Persistence, Row, Pct, Panel, PanelOf
  <2> QED
    BY <2>1 DEF Ends
<1>8. Ends(s5 \o Persistence, 96)
  BY <1>5, <1>7, PersistenceStacked, EndsBelow DEF Stacked
<1> QED
  BY <1>6, <1>8 DEF FullOverview, s1, s2, s3, s4, s5

-----------------------------------------------------------------------------
(* A board as a set of panels.                                             *)

\* ids are different and no panel lies on another
Neat(panels) ==
  /\ panels \in SUBSET PanelSet /\ IsFiniteSet(panels)
  /\ \A p, q \in panels : p # q => p.id # q.id /\ ~Overlap(p, q)

(* The refIds of a panel are different.                                    *)
LEMMA RefsInjective == \A r \in RefIds : IsInjective(r)
BY DEF RefIds, IsInjective, A, AB, ABC, ABCD

(* The values of a function on a finite set are a finite set.              *)
LEMMA ImageFinite ==
  ASSUME NEW S, IsFiniteSet(S), NEW f, DOMAIN f = S
  PROVE  IsFiniteSet({f[x] : x \in S})
<1> DEFINE T == {f[x] : x \in S}
           g == [x \in S |-> f[x]]
<1>1. g \in Surjection(S, T)
  BY DEF Surjection
<1> QED
  BY <1>1, FS_Surjection

(* A finite set of naturals has a largest one, which is its Max.           *)
LEMMA MaxFacts ==
  ASSUME NEW S \in SUBSET Nat, IsFiniteSet(S), S # {}
  PROVE  Max(S) \in S /\ \A x \in S : x <= Max(S)
<1> DEFINE P == {T \in SUBSET S : T = {} \/ \E m \in T : \A x \in T : m >= x}
<1>1. {} \in P
  OBVIOUS
<1>2. ASSUME NEW T \in SUBSET S, NEW x \in S \ T, T \in P
      PROVE  T \cup {x} \in P
  <2>1. CASE T = {}
    BY <2>1
  <2>2. CASE T # {}
    <3>1. PICK m \in T : \A y \in T : m >= y
      BY <1>2, <2>2
    <3>2. \A y \in T \cup {x} : y \in Nat
      OBVIOUS
    <3>3. CASE x >= m
      <4>1. \A y \in T \cup {x} : x >= y
        BY <3>1, <3>2, <3>3
      <4> QED
        BY <4>1
    <3>4. CASE ~(x >= m)
      <4>1. \A y \in T \cup {x} : m >= y
        BY <3>1, <3>2, <3>4
      <4> QED
        BY <3>1, <4>1
    <3> QED
      BY <3>3, <3>4
  <2> QED
    BY <2>1, <2>2
<1>3. S \in P
  <2> HIDE DEF P
  <2> QED
    BY <1>1, <1>2, SetInduction
<1>4. \E m \in S : \A x \in S : m >= x
  BY <1>3
<1>5. Max(S) \in S /\ \A x \in S : Max(S) >= x
  BY <1>4 DEF Max
<1> QED
  BY <1>5

(* The bottom of a board is the lowest line of its panels.                 *)
LEMMA BottomFacts ==
  ASSUME NEW S \in SUBSET PanelSet, IsFiniteSet(S)
  PROVE  /\ Bottom(S) \in Nat
         /\ \A p \in S : p.y + p.h <= Bottom(S)
         /\ Bottom(S) = 0 \/ \E p \in S : p.y + p.h = Bottom(S)
<1> DEFINE f == [p \in S |-> p.y + p.h]
           V == {f[p] : p \in S}
<1>1. \A p \in S : f[p] \in Nat /\ f[p] = p.y + p.h
  BY DEF PanelSet
<1>2. IsFiniteSet(V)
  BY ImageFinite
<1>3. {0} \cup V = {0} \cup {p.y + p.h : p \in S}
  OBVIOUS
<1>4. IsFiniteSet(V \cup {0}) /\ {0} \cup V = V \cup {0} /\ V \cup {0} \in SUBSET Nat
  BY <1>1, <1>2, FS_AddElement
<1>5. Bottom(S) = Max(V \cup {0})
  BY <1>3, <1>4 DEF Bottom
<1>6. /\ Bottom(S) \in V \cup {0}
      /\ \A x \in V \cup {0} : x <= Bottom(S)
  <2> HIDE DEF V
  <2> QED
    BY <1>4, <1>5, MaxFacts
<1> QED
  BY <1>1, <1>6

(* A panel below another does not lie on it.                               *)
LEMMA BelowIsApart ==
  ASSUME NEW p \in PanelSet, NEW q \in PanelSet, p.y + p.h <= q.y
  PROVE  ~Overlap(p, q) /\ ~Overlap(q, p)
BY DEF PanelSet, Overlap

(* Panels laid out by s and then given different ids are neat, and as many *)
(* as s has.                                                               *)
LEMMA PlacedFacts ==
  ASSUME NEW d, NEW s, NEW lo, NEW hi, Stacked(s, d, lo, hi),
         NEW f, DOMAIN f = DOMAIN s,
         \A i \in DOMAIN s :
           /\ f[i] \in PanelSet
           /\ f[i].x = s[i].x /\ f[i].y = s[i].y /\ f[i].w = s[i].w /\ f[i].h = s[i].h,
         \A i, j \in DOMAIN s : i # j => f[i].id # f[j].id
  PROVE  Neat({f[i] : i \in DOMAIN s}) /\ Cardinality({f[i] : i \in DOMAIN s}) = Len(s)
<1> DEFINE S == {f[i] : i \in DOMAIN s}
<1>1. DOMAIN s = 1..Len(s) /\ Len(s) \in Nat
  BY DEF Stacked
<1>2. IsFiniteSet(DOMAIN s) /\ Cardinality(DOMAIN s) = Len(s)
  <2>1. \A n \in Nat : IsFiniteSet(1..n) /\ Cardinality(1..n) = n
    BY FS_Interval
  <2> QED
    BY <1>1, <2>1
<1>3. IsFiniteSet(S)
  BY <1>2, ImageFinite
<1>4. Cardinality(S) = Len(s)
  <2> DEFINE g == [i \in DOMAIN s |-> f[i]]
  <2>1. \A i, j \in DOMAIN s : g[i] = g[j] => i = j
    OBVIOUS
  <2>2. g \in [DOMAIN s -> S] /\ \A p \in S : \E i \in DOMAIN s : g[i] = p
    OBVIOUS
  <2>3. g \in Bijection(DOMAIN s, S)
    BY <2>1, <2>2 DEF Bijection, Injection, Surjection, IsInjective
  <2>4. ExistsBijection(DOMAIN s, S)
    BY <2>3 DEF ExistsBijection
  <2> QED
    BY <1>2, <2>4, FS_Bijection
<1>5. ASSUME NEW p \in S, NEW q \in S, p # q
      PROVE  p.id # q.id /\ ~Overlap(p, q)
  <2>1. PICK i \in DOMAIN s, j \in DOMAIN s : p = f[i] /\ q = f[j]
    OBVIOUS
  <2>2. i # j /\ ~Overlap(s[i], s[j])
    BY <1>5, <2>1 DEF Stacked
  <2> QED
    BY <2>1, <2>2 DEF Overlap
<1> QED
  BY <1>3, <1>4, <1>5 DEF Neat

(* What a script numbers is neat, and goes down to where its layout does.  *)
LEMMA NumberedFacts ==
  ASSUME NEW d \in Deployments, NEW s, NEW hi \in Nat, Stacked(s, d, 0, hi), Ends(s, hi)
  PROVE  /\ Neat(Numbered(s)) /\ Numbered(s) # {}
         /\ \A p \in Numbered(s) : ~p.owned /\ p.of \in {"both", d} /\ p.id \in DOMAIN s
         /\ Bottom(Numbered(s)) = hi
<1> DEFINE f == [i \in DOMAIN s |-> [s[i] EXCEPT !.id = i]]
<1>1. s \in Seq(LaidOut(d)) /\ DOMAIN s \subseteq Nat
  BY DEF Stacked
<1>2. ASSUME NEW i \in DOMAIN s
      PROVE  /\ f[i] \in PanelSet /\ f[i].id = i /\ ~f[i].owned /\ f[i].of \in {"both", d}
             /\ f[i].x = s[i].x /\ f[i].y = s[i].y /\ f[i].w = s[i].w /\ f[i].h = s[i].h
  <2>1. s[i] \in LaidOut(d)
    BY <1>1, ElementOfSeq
  <2> QED
    BY <1>1, <2>1 DEF LaidOut, PanelSet
<1>3. Numbered(s) = {f[i] : i \in DOMAIN s} /\ DOMAIN f = DOMAIN s
  BY DEF Numbered
<1> HIDE DEF f
<1>4. Neat(Numbered(s))
  BY <1>2, <1>3, PlacedFacts
<1>5. \A p \in Numbered(s) : p.y + p.h <= hi
  BY <1>2, <1>3 DEF Stacked
<1>6. \E p \in Numbered(s) : p.y + p.h = hi
  BY <1>2, <1>3 DEF Ends
<1>7. Bottom(Numbered(s)) = hi
  <2> DEFINE S == Numbered(s)
             b == Bottom(S)
  <2>1. /\ b \in Nat /\ \A p \in S : p.y + p.h <= b
        /\ b = 0 \/ \E p \in S : p.y + p.h = b
    BY <1>4, BottomFacts DEF Neat
  <2>2. hi <= b
    BY <1>6, <2>1
  <2> HIDE DEF S, b
  <2>3. b <= hi
    BY <1>5, <2>1 DEF S
  <2> QED
    BY <2>1, <2>2, <2>3 DEF S, b
<1> QED
  BY <1>2, <1>3, <1>4, <1>6, <1>7

-----------------------------------------------------------------------------
(* What the scripts write.                                                 *)

\* where the board of a script ends
Height ==
  CASE script = "golden-signals" -> 81
    [] script = "slo-board"      -> 52
    [] script = "overview"       -> 48
    [] script = "full-overview"  -> 96

(* Both boards of a script are laid out, down to the same line.            *)
LEMMA LayoutFacts ==
  ASSUME script \in Scripts, NEW d \in Deployments
  PROVE  Height \in Nat /\ Stacked(Layout(d), d, 0, Height) /\ Ends(Layout(d), Height)
BY GoldenSignalsStacked, SLOBoardStacked, OverviewStacked, FullOverviewStacked
DEF Scripts, Layout, Height

(* Later editions stay laid out.                                           *)
LEMMA AppendedFacts ==
  ASSUME NEW d \in Deployments, NEW y0 \in Nat, NEW n \in Nat
  PROVE  /\ Stacked(Appended(y0, n), d, y0, y0 + 8 * n)
         /\ n > 0 => Ends(Appended(y0, n), y0 + 8 * n)
         /\ n = 0 => Appended(y0, n) = <<>>
<1> DEFINE s == Appended(y0, n)
<1>1. DOMAIN s = 1..n
  BY DEF Appended
<1>2. ASSUME NEW i \in 1..n
      PROVE  /\ s[i] \in LaidOut(d) /\ s[i].y = y0 + 8 * (i - 1) /\ s[i].h = 8
             /\ s[i].x = 0 /\ s[i].w = 24
  BY DEF Appended, Panel, PanelOf, LaidOut, PanelSet, RefIds
<1>3. s \in Seq(LaidOut(d))
  BY <1>2 DEF Appended
<1> HIDE DEF s
<1>4. \A i \in 1..n : y0 <= s[i].y /\ s[i].y + s[i].h <= y0 + 8 * n
  BY <1>2
<1>5. \A i, j \in 1..n : i # j => ~Overlap(s[i], s[j])
  BY <1>2 DEF Overlap
<1>6. n > 0 => s[n].y + s[n].h = y0 + 8 * n
  BY <1>2
<1>7. n = 0 => s = <<>>
  BY <1>1, <1>3, EmptySeq
<1> QED
  BY <1>1, <1>3, <1>4, <1>5, <1>6, <1>7 DEF Stacked, Ends, s

\* the boards the tree may hold
BoardSet == [uid : Scripts \X Deployments, panels : SUBSET PanelSet]
Good(board) == board \in BoardSet /\ Neat(board.panels) /\ board.panels # {}

(* What a script writes is neat, has no panel of the post-processor, reads *)
(* what its deployment has, and has the same bottom for either deployment. *)
LEMMA GeneratedFacts ==
  ASSUME script \in Scripts, NEW d \in Deployments, NEW n \in Nat
  PROVE  /\ Good(Generated(d, n)) /\ Generated(d, n).uid = <<script, d>>
         /\ Owned(Generated(d, n)) = {} /\ Kept(Generated(d, n)) = Generated(d, n).panels
         /\ ReadsOnly(Generated(d, n), d)
         /\ Bottom(Generated(d, n).panels) = Height + 8 * n
         /\ n = 0 => \A p \in Generated(d, n).panels : p.id <= Len(Layout(d))
<1> DEFINE l == Layout(d)
           a == Appended(Height, n)
<1>1. Height \in Nat /\ Stacked(l, d, 0, Height) /\ Ends(l, Height)
  BY LayoutFacts
<1>2. Bottom(Numbered(l)) = Height
  BY <1>1, NumberedFacts
<1>3. /\ Stacked(a, d, Height, Height + 8 * n)
      /\ n > 0 => Ends(a, Height + 8 * n)
      /\ n = 0 => a = <<>>
  BY <1>1, AppendedFacts
<1>4. Generated(d, n) = [uid |-> <<script, d>>, panels |-> Numbered(l \o a)]
  BY <1>2 DEF Generated
<1> HIDE DEF l, a
<1>5. Stacked(l \o a, d, 0, Height + 8 * n)
  BY <1>1, <1>3, StackedBelow
<1>6. Ends(l \o a, Height + 8 * n)
  <2>1. l \in Seq(LaidOut(d)) /\ a \in Seq(LaidOut(d))
    BY <1>1, <1>3 DEF Stacked
  <2>2. CASE n > 0
    BY <1>3, <2>1, <2>2, EndsBelow
  <2>3. CASE n = 0
    <3>1. l \o a = l
      BY <1>3, <2>1, <2>3, ConcatEmptySeq
    <3> QED
      BY <1>1, <2>3, <3>1
  <2> QED
    BY <2>2, <2>3
<1> DEFINE S == Numbered(l \o a)
           hi == Height + 8 * n
<1>7. hi \in Nat
  BY <1>1
<1>8. /\ Neat(S) /\ S # {} /\ Bottom(S) = hi
      /\ \A p \in S : ~p.owned /\ p.of \in {"both", d} /\ p.id \in DOMAIN (l \o a)
  <2> HIDE DEF hi
  <2> QED
    BY <1>5, <1>6, <1>7, NumberedFacts DEF hi
<1> HIDE DEF S
<1>9. Generated(d, n).uid = <<script, d>> /\ Generated(d, n).panels = S
  BY <1>4 DEF S
<1>10. Generated(d, n) \in BoardSet
  BY <1>4, <1>8 DEF BoardSet, Neat, S
<1>11. n = 0 => \A p \in Generated(d, n).panels : p.id <= Len(Layout(d))
  <2> SUFFICES ASSUME n = 0 PROVE \A p \in S : p.id <= Len(l)
    BY <1>9 DEF l
  <2>1. l \in Seq(LaidOut(d)) /\ a = <<>>
    BY <1>1, <1>3 DEF Stacked
  <2>2. l \o a = l
    BY <2>1, ConcatEmptySeq
  <2> QED
    BY <1>8, <2>1, <2>2
<1> QED
  BY <1>8, <1>9, <1>10, <1>11 DEF Good, Owned, Kept, ReadsOnly

(* Row P is neat and below where it begins; its five panels are marked and *)
(* have the ids it keeps for itself.                                       *)
LEMMA RowPFacts ==
  ASSUME NEW y0 \in Nat
  PROVE  /\ Neat(RowP(y0)) /\ Cardinality(RowP(y0)) = 5
         /\ \A p \in RowP(y0) : /\ p.owned /\ p.y >= y0 /\ p.id \in BASE_ID..BASE_ID + 4
                                /\ p.of = "both"
<1> DEFINE s == <<Row(y0), Panel(0, y0 + 1, 12, 8, ABC), Panel(12, y0 + 1, 12, 8, AB),
                  Panel(0, y0 + 9, 12, 8, AB), Text(12, y0 + 9, 12, 8)>>
           f == [i \in 1..5 |-> [s[i] EXCEPT !.id = BASE_ID + i - 1, !.owned = TRUE]]
<1>1. Stacked(s, "demo", y0, y0 + 17) /\ DOMAIN s = 1..5 /\ Len(s) = 5
  BY DEF Stacked, Row, Text, Panel, PanelOf, Overlap, LaidOut, PanelSet, RefIds, AB, ABC
<1>2. \A i \in 1..5 : s[i].of = "both"
  BY DEF Row, Text, Panel, PanelOf
<1>3. RowP(y0) = {f[i] : i \in 1..5}
  BY DEF RowP
<1> HIDE DEF s
<1>4. ASSUME NEW i \in 1..5
      PROVE  /\ f[i] \in PanelSet /\ f[i].id = BASE_ID + i - 1 /\ f[i].owned
             /\ f[i].x = s[i].x /\ f[i].y = s[i].y /\ f[i].w = s[i].w /\ f[i].h = s[i].h
             /\ f[i].of = s[i].of /\ f[i].y >= y0
  <2>1. s \in Seq(LaidOut("demo")) /\ s[i].y >= y0
    BY <1>1 DEF Stacked
  <2>2. s[i] \in LaidOut("demo")
    BY <1>1, <2>1, ElementOfSeq
  <2>3. BASE_ID + i - 1 \in Nat /\ f[i] = [s[i] EXCEPT !.id = BASE_ID + i - 1, !.owned = TRUE]
    BY BoundsAreNatural
  <2> HIDE DEF f
  <2> QED
    BY <2>1, <2>2, <2>3 DEF LaidOut, PanelSet
<1>5. DOMAIN f = 1..5
  OBVIOUS
<1> HIDE DEF f
<1>6. \A i, j \in 1..5 : i # j => f[i].id # f[j].id
  BY <1>4, BoundsAreNatural
<1>7. Neat(RowP(y0)) /\ Cardinality(RowP(y0)) = 5
  <2>1. DOMAIN f = DOMAIN s /\ RowP(y0) = {f[i] : i \in DOMAIN s}
    BY <1>1, <1>3, <1>5
  <2>2. \A i \in DOMAIN s :
          /\ f[i] \in PanelSet
          /\ f[i].x = s[i].x /\ f[i].y = s[i].y /\ f[i].w = s[i].w /\ f[i].h = s[i].h
    BY <1>1, <1>4
  <2>3. \A i, j \in DOMAIN s : i # j => f[i].id # f[j].id
    BY <1>1, <1>6
  <2>4. Neat({f[i] : i \in DOMAIN s}) /\ Cardinality({f[i] : i \in DOMAIN s}) = Len(s)
    BY <1>1, <2>1, <2>2, <2>3, PlacedFacts
  <2> QED
    BY <1>1, <2>1, <2>4
<1> QED
  BY <1>2, <1>3, <1>4, <1>7, BoundsAreNatural

(* Two neat sets, the second below the first and with other ids, are neat  *)
(* together.                                                               *)
LEMMA NeatTogether ==
  ASSUME NEW S, NEW T, Neat(S), Neat(T),
         \A p \in S, q \in T : p.id # q.id /\ p.y + p.h <= q.y
  PROVE  Neat(S \cup T)
<1>1. IsFiniteSet(S \cup T)
  BY FS_Union DEF Neat
<1>2. ASSUME NEW p \in S, NEW q \in T
      PROVE  p.id # q.id /\ q.id # p.id /\ ~Overlap(p, q) /\ ~Overlap(q, p)
  BY BelowIsApart DEF Neat
<1> QED
  BY <1>1, <1>2 DEF Neat

(* The post-processor keeps a board neat, and of what it did before only   *)
(* the row at the bottom remains.                                          *)
LEMMA WithRowPFacts ==
  ASSUME NEW board, Good(board), ~Clash(board)
  PROVE  /\ Good(WithRowP(board)) /\ WithRowP(board).uid = board.uid
         /\ Kept(WithRowP(board)) = Kept(board)
         /\ Owned(WithRowP(board)) = RowP(Bottom(Kept(board)))
         /\ Bottom(Kept(board)) \in Nat
<1> DEFINE S == Kept(board)
           y0 == Bottom(S)
           R == RowP(y0)
<1>1. Neat(S) /\ \A p \in S : ~p.owned
  <2>1. S \subseteq board.panels
    BY DEF Kept
  <2>2. IsFiniteSet(S)
    BY <2>1, FS_Subset DEF Good, Neat
  <2> QED
    BY <2>1, <2>2 DEF Good, Neat, Kept
<1>2. y0 \in Nat /\ \A p \in S : p.y + p.h <= y0
  BY <1>1, BottomFacts DEF Neat
<1>3. WithRowP(board) = [board EXCEPT !.panels = S \cup R]
  BY DEF WithRowP
<1>4. \A p \in S : p.id \notin BASE_ID..BASE_ID + 4
  BY DEF Clash, Ids
<1> HIDE DEF S, y0
<1>5. /\ Neat(R) /\ Cardinality(R) = 5
      /\ \A p \in R : /\ p.owned /\ p.y >= y0 /\ p.id \in BASE_ID..BASE_ID + 4
  BY <1>2, RowPFacts
<1> HIDE DEF R
<1>6. Neat(S \cup R)
  <2>1. \A p \in S \cup R : p.y \in Nat /\ p.h \in Nat
    BY <1>1, <1>5 DEF Neat, PanelSet
  <2>2. \A p \in S, q \in R : p.id # q.id /\ p.y + p.h <= q.y
    BY <1>2, <1>4, <1>5, <2>1
  <2> QED
    BY <1>1, <1>5, <2>2, NeatTogether
<1>7. R # {}
  BY <1>5, FS_EmptySet
<1>8. /\ WithRowP(board).panels = S \cup R /\ WithRowP(board).uid = board.uid
      /\ WithRowP(board) \in BoardSet
  BY <1>3, <1>6 DEF Good, BoardSet, Neat
<1>9. Kept(WithRowP(board)) = S /\ Owned(WithRowP(board)) = R
  BY <1>1, <1>5, <1>8 DEF Kept, Owned
<1> QED
  BY <1>2, <1>6, <1>7, <1>8, <1>9 DEF Good, S, y0, R

-----------------------------------------------------------------------------
(* What is done by hand.                                                   *)

(* A panel added by hand gets a free id and goes below the others.         *)
LEMMA AddByHandFacts ==
  ASSUME NEW board, Good(board)
  PROVE  Good(AddByHand(board))
<1> DEFINE S == board.panels
           y0 == Bottom(S)
           m == Max(Ids(S))
           new == [Panel(0, y0, 24, 8, A) EXCEPT !.id = m + 1]
<1>1. Neat(S) /\ S # {} /\ board \in BoardSet
  BY DEF Good
<1>2. y0 \in Nat /\ \A p \in S : p.y + p.h <= y0
  BY <1>1, BottomFacts DEF Neat
<1>3. m \in Nat /\ \A p \in S : p.id <= m
  <2> DEFINE f == [p \in S |-> p.id]
             V == {f[p] : p \in S}
  <2>1. IsFiniteSet(V)
    BY <1>1, ImageFinite DEF Neat
  <2>2. V = Ids(S)
    BY DEF Ids
  <2>3. V \in SUBSET Nat /\ V # {}
    BY <1>1 DEF Neat, PanelSet
  <2>4. m \in V /\ \A x \in V : x <= m
    <3> HIDE DEF V
    <3> QED
      BY <2>1, <2>2, <2>3, MaxFacts
  <2> QED
    BY <2>3, <2>4
<1>4. AddByHand(board) = [board EXCEPT !.panels = S \cup {new}]
  BY DEF AddByHand
<1> HIDE DEF S, y0, m
<1>5. new \in PanelSet /\ new.id = m + 1 /\ new.y = y0
  <2> DEFINE p == Panel(0, y0, 24, 8, A)
  <2>1. p \in PanelSet /\ p.y = y0
    BY <1>2 DEF Panel, PanelOf, PanelSet, RefIds
  <2> HIDE DEF p
  <2> QED
    BY <1>3, <2>1 DEF PanelSet, p
<1> HIDE DEF new
<1>6. Neat({new})
  BY <1>5, FS_Singleton DEF Neat
<1>7. \A p \in S, q \in {new} : p.id # q.id /\ p.y + p.h <= q.y
  <2>1. \A p \in S : p.id \in Nat
    BY <1>1 DEF Neat, PanelSet
  <2> QED
    BY <1>2, <1>3, <1>5, <2>1
<1>8. Neat(S \cup {new})
  BY <1>1, <1>6, <1>7, NeatTogether
<1>9. AddByHand(board).panels = S \cup {new} /\ AddByHand(board) \in BoardSet
  BY <1>1, <1>4, <1>8 DEF BoardSet, Neat
<1> QED
  BY <1>8, <1>9 DEF Good

(* A board that lost its markers has its panels where they were.           *)
LEMMA LoseMarkerFacts ==
  ASSUME NEW board, Good(board)
  PROVE  Good(LoseMarker(board))
<1> DEFINE S == board.panels
           f == [p \in S |-> [p EXCEPT !.owned = FALSE]]
           T == {f[p] : p \in S}
<1>1. Neat(S) /\ S # {} /\ board \in BoardSet
  BY DEF Good
<1>2. IsFiniteSet(T)
  <2>1. IsFiniteSet(S) /\ DOMAIN f = S
    BY <1>1 DEF Neat
  <2> HIDE DEF S, f
  <2> QED
    BY <2>1, ImageFinite
<1>3. ASSUME NEW p \in S
      PROVE  /\ f[p] \in PanelSet /\ f[p].id = p.id
             /\ f[p].x = p.x /\ f[p].y = p.y /\ f[p].w = p.w /\ f[p].h = p.h
  BY <1>1 DEF Neat, PanelSet
<1>4. LoseMarker(board) = [board EXCEPT !.panels = T]
  BY DEF LoseMarker
<1> HIDE DEF S, f
<1>5. Neat(T)
  BY <1>1, <1>2, <1>3 DEF Neat, Overlap
<1>6. LoseMarker(board).panels = T /\ T # {} /\ LoseMarker(board) \in BoardSet
  BY <1>1, <1>4, <1>5 DEF BoardSet, Neat, S
<1> QED
  BY <1>5, <1>6 DEF Good

-----------------------------------------------------------------------------
(* The invariant: the boards of the working tree are neat, and what is     *)
(* merged is what the scripts wrote for some edition, which may no longer  *)
(* be the one of the working tree.                                         *)

\* the demo's board as the scripts make it, and whether the post-processor runs through
DemoBoard(n) ==
  IF script = "golden-signals" THEN WithRowP(Generated("demo", n)) ELSE Generated("demo", n)

MayRun(n) == script = "golden-signals" => ~Clash(Generated("demo", n))

MainRegenerated ==
  \E n \in 0..MaxGrown :
    MayRun(n) /\ main = Tree(n, DemoBoard(n), Generated("production", n))

BoardsInv ==
  /\ script \in Scripts /\ grown \in 0..MaxGrown
  /\ Good(demo) /\ Good(production)
  /\ MainRegenerated

(* The scripts give the demo's board row P once and only where it belongs, *)
(* at its bottom.                                                          *)
LEMMA DemoBoardFacts ==
  ASSUME script \in Scripts, NEW n \in Nat, MayRun(n)
  PROVE  /\ Good(DemoBoard(n)) /\ DemoBoard(n).uid = <<script, "demo">>
         /\ Cardinality(Owned(DemoBoard(n))) = IF script = "golden-signals" THEN 5 ELSE 0
         /\ \A p \in Owned(DemoBoard(n)) : p.y >= Bottom(Kept(DemoBoard(n)))
         /\ ReadsOnly(DemoBoard(n), "demo")
         /\ Bottom(Kept(DemoBoard(n))) = Height + 8 * n
<1> DEFINE b == Generated("demo", n)
<1>1. /\ Good(b) /\ b.uid = <<script, "demo">> /\ Owned(b) = {} /\ Kept(b) = b.panels
      /\ ReadsOnly(b, "demo") /\ Bottom(b.panels) = Height + 8 * n
  BY GeneratedFacts DEF Deployments
<1> HIDE DEF b
<1>2. CASE script = "golden-signals"
  <2> DEFINE w == WithRowP(b)
             y0 == Bottom(Kept(b))
  <2>1. /\ Good(w) /\ w.uid = b.uid /\ Kept(w) = Kept(b)
        /\ Owned(w) = RowP(y0) /\ y0 \in Nat
    BY <1>1, <1>2, WithRowPFacts DEF MayRun, b
  <2> HIDE DEF w, y0
  <2>2. /\ Cardinality(RowP(y0)) = 5
        /\ \A p \in RowP(y0) : p.y >= y0 /\ p.of = "both"
    BY <2>1, RowPFacts
  <2>3. ReadsOnly(w, "demo")
    <3>1. \A p \in w.panels : p \in Kept(w) \/ p \in Owned(w)
      BY DEF Kept, Owned
    <3> QED
      BY <1>1, <2>1, <2>2, <3>1 DEF ReadsOnly
  <2>4. DemoBoard(n) = w
    BY <1>2 DEF DemoBoard, w, b
  <2> QED
    BY <1>1, <1>2, <2>1, <2>2, <2>3, <2>4 DEF y0
<1>3. CASE script # "golden-signals"
  <2>1. DemoBoard(n) = b
    BY <1>3 DEF DemoBoard, b
  <2> QED
    BY <1>1, <1>3, <2>1, FS_EmptySet
<1> QED
  BY <1>2, <1>3

(* The boards a clone starts with are those of the scripts.                *)
LEMMA BoardsInitInv == BoardsInit => BoardsInv
<1> SUFFICES ASSUME BoardsInit PROVE BoardsInv
  OBVIOUS
<1>1. script \in Scripts /\ 0 \in 0..MaxGrown /\ 0 \in Nat
  BY BoundsAreNatural DEF BoardsInit
<1>2. MayRun(0)
  <2> SUFFICES ASSUME script = "golden-signals" PROVE ~Clash(Generated("demo", 0))
    BY DEF MayRun
  <2> DEFINE b == Generated("demo", 0)
  <2>1. Good(b) /\ Kept(b) = b.panels /\ \A p \in b.panels : p.id <= Len(Layout("demo"))
    BY <1>1, GeneratedFacts DEF Deployments
  <2>2. Layout("demo") = GoldenSignals("demo")
    BY DEF Layout
  <2>3. Len(Layout("demo")) \in Nat
    BY <1>1, LayoutFacts DEF Deployments, Stacked
  <2> HIDE DEF b
  <2>4. \A p \in b.panels : p.id \in Nat
    BY <2>1 DEF Good, Neat, PanelSet
  <2>5. \A p \in Kept(b) : p.id \notin BASE_ID..BASE_ID + 4
    BY <2>1, <2>2, <2>3, <2>4, BaseIdIsClear, BoundsAreNatural
  <2> QED
    BY <2>5 DEF Clash, Ids, b
<1>3. demo = DemoBoard(0) /\ production = Generated("production", 0)
  BY DEF BoardsInit, DemoBoard
<1>4. Good(demo) /\ Good(production)
  BY <1>1, <1>2, <1>3, DemoBoardFacts, GeneratedFacts DEF Deployments
<1>5. MainRegenerated
  BY <1>1, <1>2, <1>3 DEF MainRegenerated, BoardsInit
<1> QED
  BY <1>1, <1>4, <1>5 DEF BoardsInv, BoardsInit

(* A step that leaves the script and main alone leaves what is merged.     *)
LEMMA MainKept ==
  ASSUME MainRegenerated, UNCHANGED <<script, main>>
  PROVE  MainRegenerated'
<1>1. \A d \in Deployments : Layout(d)' = Layout(d)
  BY DEF Layout
<1>2. \A d \in Deployments, n \in 0..MaxGrown : Generated(d, n)' = Generated(d, n)
  BY <1>1 DEF Generated
<1>3. \A n \in 0..MaxGrown :
        /\ Generated("demo", n)' = Generated("demo", n)
        /\ Generated("production", n)' = Generated("production", n)
  BY <1>2 DEF Deployments
<1>4. ASSUME NEW n \in 0..MaxGrown
      PROVE  DemoBoard(n)' = DemoBoard(n) /\ (MayRun(n)' <=> MayRun(n))
  <2>1. DemoBoard(n)' = DemoBoard(n)
    BY <1>3 DEF DemoBoard
  <2>2. MayRun(n)' <=> MayRun(n)
    BY <1>3 DEF MayRun
  <2> QED
    BY <2>1, <2>2
<1> QED
  BY <1>3, <1>4 DEF MainRegenerated

(* The invariant holds in every step.                                      *)
LEMMA BoardsNextInv == BoardsInv /\ [BoardsNext]_boardsVars => BoardsInv'
<1> SUFFICES ASSUME BoardsInv, [BoardsNext]_boardsVars PROVE BoardsInv'
  OBVIOUS
<1>1. script \in Scripts /\ grown \in Nat
  BY DEF BoardsInv
<1>2. ASSUME UNCHANGED <<script, main>>, grown' \in 0..MaxGrown, Good(demo'), Good(production')
      PROVE  BoardsInv'
  BY <1>2, MainKept DEF BoardsInv, Good, BoardSet, Neat, PanelSet, Overlap
<1>3. CASE EditGenerator
  BY <1>2, <1>3 DEF EditGenerator, BoardsInv
<1>4. CASE RunForProduction
  <2>1. PICK named \in BOOLEAN : production' = Generated(TakenFor("production", named), grown)
    BY <1>4 DEF RunForProduction
  <2>2. TakenFor("production", named) \in Deployments
    BY DEF TakenFor, Deployments
  <2>3. Good(production')
    BY <1>1, <2>1, <2>2, GeneratedFacts
  <2> QED
    BY <1>2, <1>4, <2>3 DEF RunForProduction, BoardsInv
<1>5. CASE RunForDemo
  <2>1. Good(demo')
    BY <1>1, <1>5, GeneratedFacts DEF RunForDemo, Deployments
  <2> QED
    BY <1>2, <1>5, <2>1 DEF RunForDemo, BoardsInv
<1>6. CASE AddPollOutcomePanels
  <2>1. Good(demo')
    BY <1>6, WithRowPFacts DEF AddPollOutcomePanels, BoardsInv
  <2> QED
    BY <1>2, <1>6, <2>1 DEF AddPollOutcomePanels, BoardsInv
<1>7. CASE EditDemoByHand
  <2>1. Good(demo')
    BY <1>7, AddByHandFacts, LoseMarkerFacts DEF EditDemoByHand, BoardsInv
  <2> QED
    BY <1>2, <1>7, <2>1 DEF EditDemoByHand, BoardsInv
<1>8. CASE EditProductionByHand
  <2>1. Good(production')
    BY <1>8, AddByHandFacts DEF EditProductionByHand, BoardsInv
  <2> QED
    BY <1>2, <1>8, <2>1 DEF EditProductionByHand, BoardsInv
<1>9. CASE Merge
  <2>1. MayRun(grown) /\ demo = DemoBoard(grown) /\ production = Generated("production", grown)
    BY <1>9 DEF Merge, Green, MayRun, DemoBoard, RegeneratedDemo, RegeneratedProduction,
        TakenFor, CheckedOutByCI
  <2>2. main' = Tree(grown, DemoBoard(grown), Generated("production", grown))
    BY <1>9, <2>1 DEF Merge
  <2>3. UNCHANGED <<script, grown, demo, production>>
    BY <1>9 DEF Merge
  <2>4. MainRegenerated'
    BY <2>1, <2>2, <2>3
    DEF BoardsInv, MainRegenerated, MayRun, DemoBoard, Clash, Kept, Ids, Generated, Layout, WithRowP
  <2> QED
    BY <2>3, <2>4 DEF BoardsInv
<1>10. CASE Discard
  <2>1. PICK n \in 0..MaxGrown :
          MayRun(n) /\ main = Tree(n, DemoBoard(n), Generated("production", n))
    BY DEF BoardsInv, MainRegenerated
  <2>2. grown' = n /\ demo' = DemoBoard(n) /\ production' = Generated("production", n)
    BY <1>10, <2>1 DEF Discard, Tree
  <2>3. Good(demo') /\ Good(production')
    BY <1>1, <2>1, <2>2, DemoBoardFacts, GeneratedFacts DEF Deployments
  <2> QED
    BY <1>2, <1>10, <2>2, <2>3 DEF Discard
<1>11. CASE UNCHANGED boardsVars
  BY <1>2, <1>11 DEF boardsVars, BoardsInv
<1> QED
  BY <1>3, <1>4, <1>5, <1>6, <1>7, <1>8, <1>9, <1>10, <1>11 DEF BoardsNext

(* The invariant holds in every state.                                     *)
LEMMA BoardsInvariance == BoardsSpec => []BoardsInv
BY BoardsInitInv, BoardsNextInv, PTL DEF BoardsSpec

(* For every number of editions of a generator, every free range of ids    *)
(* and every order of edits, generator runs and runs of the post-processor *)
(* both boards stay readable (add_poll_outcome_panels.py 231-247).         *)
THEOREM BoardsStayReadable == BoardsSpec => []BoardsReadable
<1>1. ASSUME NEW board, Good(board) PROVE Readable(board)
  <2>1. \A p \in board.panels : IsInjective(p.refs)
    BY <1>1, RefsInjective DEF Good, Neat, PanelSet
  <2> QED
    BY <1>1, <2>1 DEF Good, Neat, Readable
<1>2. BoardsInv => BoardsReadable
  BY <1>1 DEF BoardsInv, BoardsReadable
<1> QED
  BY <1>2, BoardsInvariance, PTL

(* Whatever was run or edited on the way to it, a merged tree is one       *)
(* edition: row P once and at the bottom of the demo's golden-signals      *)
(* board and nowhere else, no panel without its data, and two boards one   *)
(* Grafana can hold (ci.yml 105-128).                                      *)
THEOREM BoardsMergedWhole == BoardsSpec => []MergedTreeIsWhole
<1>1. ASSUME BoardsInv PROVE MergedTreeIsWhole
  <2>1. PICK n \in 0..MaxGrown :
          MayRun(n) /\ main = Tree(n, DemoBoard(n), Generated("production", n))
    BY <1>1 DEF BoardsInv, MainRegenerated
  <2>2. main.demo = DemoBoard(n) /\ main.production = Generated("production", n)
    BY <2>1 DEF Tree
  <2>3. /\ main.demo.uid = <<script, "demo">>
        /\ Cardinality(Owned(main.demo)) = IF script = "golden-signals" THEN 5 ELSE 0
        /\ \A p \in Owned(main.demo) : p.y >= Bottom(Kept(main.demo))
        /\ ReadsOnly(main.demo, "demo")
        /\ Bottom(Kept(main.demo)) = Height + 8 * n
    BY <1>1, <2>1, <2>2, DemoBoardFacts DEF BoardsInv
  <2> DEFINE b == Generated("production", n)
  <2>4. n \in Nat /\ script \in Scripts /\ "production" \in Deployments
    BY <1>1, BoundsAreNatural DEF BoardsInv, Deployments
  <2>5. /\ b.uid = <<script, "production">> /\ Owned(b) = {}
        /\ ReadsOnly(b, "production") /\ Bottom(b.panels) = Height + 8 * n
    BY <2>4, GeneratedFacts
  <2>6. /\ main.production.uid = <<script, "production">> /\ Owned(main.production) = {}
        /\ ReadsOnly(main.production, "production")
        /\ Bottom(main.production.panels) = Height + 8 * n
    BY <2>2, <2>5
  <2> QED
    BY <2>3, <2>6 DEF MergedTreeIsWhole
<1>2. BoardsInv => MergedTreeIsWhole
  BY <1>1
<1> QED
  BY <1>2, BoardsInvariance, PTL
=============================================================================
