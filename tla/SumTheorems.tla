------------------------------ MODULE SumTheorems ------------------------------
(***************************************************************************)
(* Sums over finite sets, as SumFunctionOnSet of the Functions module      *)
(* computes them: the defining equation, and that they do not depend on    *)
(* the order in which elements are taken.  An induction over subsets is an *)
(* appeal to a smallest set of those that lack the property, since the     *)
(* strict inclusion of finite sets is well-founded.                        *)
(***************************************************************************)
EXTENDS Functions, FiniteSetTheorems, TLAPS

Sum(fun, S) == SumFunctionOnSet(fun, S)

\* The element a sum over s takes next.
Pick(s) == CHOOSE x \in s : TRUE

\* `it` tabulates the sums over the subsets of S.
Unfolds(it, fun, S) ==
  it = [s \in SUBSET S |-> IF s = {} THEN 0 ELSE fun[Pick(s)] + it[s \ {Pick(s)}]]

-----------------------------------------------------------------------------
(* The defining equation.                                                  *)

\* What the operator of the Functions module comes to.
LEMMA SumIsTabulated ==
  ASSUME NEW fun, NEW S
  PROVE  Sum(fun, S) = (CHOOSE it : Unfolds(it, fun, S))[S]
BY DEF Sum, SumFunctionOnSet, FoldFunctionOnSet, MapThenFoldSet, Unfolds, Pick

\* What is picked of a set is one of its elements.
LEMMA PickIsElement ==
  ASSUME NEW s, s # {}
  PROVE  Pick(s) \in s
BY DEF Pick

\* Of the subsets of a finite set that are counterexamples one is smallest.
LEMMA SmallestSubset ==
  ASSUME NEW S, IsFiniteSet(S), NEW bad \in SUBSET SUBSET S, bad # {}
  PROVE  \E s \in bad : \A u \in bad : u \subseteq s => u = s
<1>1. IsWellFoundedOn(StrictSubsetOrdering(S), SUBSET S)
  BY FS_StrictSubsetOrderingWellFounded, FS_FiniteSubsetsOfFinite
<1>2. PICK s \in bad : \A u \in bad : <<u, s>> \notin StrictSubsetOrdering(S)
  BY <1>1, WFMin
<1> QED
  BY <1>2 DEF StrictSubsetOrdering

\* The equation a table satisfies, row by row.
LEMMA TableRows ==
  ASSUME NEW it, NEW fun, NEW S, Unfolds(it, fun, S), NEW s \in SUBSET S
  PROVE  it[s] = IF s = {} THEN 0 ELSE fun[Pick(s)] + it[s \ {Pick(s)}]
BY DEF Unfolds

\* Two tables agree where both have a row.
LEMMA TablesAgree ==
  ASSUME NEW fun, NEW S, NEW T, IsFiniteSet(S), NEW i, NEW j,
         Unfolds(i, fun, S), Unfolds(j, fun, T), NEW u \in SUBSET S, u \in SUBSET T
  PROVE  i[u] = j[u]
<1> DEFINE bad == {s \in SUBSET S : s \in SUBSET T /\ i[s] # j[s]}
<1>1. bad \in SUBSET SUBSET S
  OBVIOUS
<1>2. ASSUME bad # {}
      PROVE  FALSE
  <2>1. PICK s \in bad : \A v \in bad : v \subseteq s => v = s
    <3> HIDE DEF bad
    <3> QED
      BY <1>1, <1>2, SmallestSubset
  <2>2. s \in SUBSET S /\ s \in SUBSET T /\ i[s] # j[s]
    BY <2>1
  <2>3. s # {}
    BY <2>2, TableRows
  <2>4. s \ {Pick(s)} # s /\ s \ {Pick(s)} \in SUBSET S /\ s \ {Pick(s)} \in SUBSET T
    BY <2>2, <2>3, PickIsElement
  <2>5. i[s \ {Pick(s)}] = j[s \ {Pick(s)}]
    BY <2>1, <2>4
  <2> QED
    BY <2>2, <2>3, <2>5, TableRows
<1> QED
  BY <1>2

\* A table for every finite set.
LEMMA TableExists ==
  ASSUME NEW fun, NEW S, IsFiniteSet(S)
  PROVE  \E it : Unfolds(it, fun, S)
<1> DEFINE bad == {s \in SUBSET S : ~ \E it : Unfolds(it, fun, s)}
           of(u) == CHOOSE it : Unfolds(it, fun, u)
           rest(u) == u \ {Pick(u)}
<1>1. bad \in SUBSET SUBSET S
  OBVIOUS
<1>2. ASSUME bad # {}
      PROVE  FALSE
  <2>1. PICK s \in bad : \A v \in bad : v \subseteq s => v = s
    <3> HIDE DEF bad
    <3> QED
      BY <1>1, <1>2, SmallestSubset
  <2> DEFINE table == [u \in SUBSET s |-> IF u = {} THEN 0 ELSE fun[Pick(u)] + of(rest(u))[rest(u)]]
  <2>2. ASSUME NEW u \in SUBSET s, u # s
        PROVE  Unfolds(of(u), fun, u) /\ IsFiniteSet(u)
    <3>1. u \in SUBSET S /\ u \notin bad
      BY <2>1, <2>2
    <3>2. \E it : Unfolds(it, fun, u)
      BY <3>1
    <3> QED
      BY <3>1, <3>2, FS_Subset
  <2>3. ASSUME NEW u \in SUBSET s, u # {}
        PROVE  rest(u) \in SUBSET s /\ rest(u) # s /\ rest(u) \in SUBSET u
    BY <2>3, PickIsElement
  <2> HIDE DEF of, rest
  <2>4. ASSUME NEW u \in SUBSET s, u # s
        PROVE  table[u] = of(u)[u]
    <3>1. CASE u = {}
      BY <3>1, <2>2, <2>4, TableRows
    <3>2. CASE u # {}
      <4>1. of(u)[u] = fun[Pick(u)] + of(u)[rest(u)]
        BY <3>2, <2>2, <2>4, TableRows DEF rest
      <4>2. Unfolds(of(u), fun, u) /\ Unfolds(of(rest(u)), fun, rest(u)) /\ IsFiniteSet(u)
        BY <3>2, <2>2, <2>3, <2>4
      <4>3. rest(u) \in SUBSET u /\ rest(u) \in SUBSET rest(u)
        BY <3>2, <2>3
      <4>4. of(u)[rest(u)] = of(rest(u))[rest(u)]
        BY <4>2, <4>3, TablesAgree
      <4> QED
        BY <3>2, <4>1, <4>4
    <3> QED
      BY <3>1, <3>2
  <2>5. ASSUME NEW u \in SUBSET s, u # {}
        PROVE  table[u] = fun[Pick(u)] + table[rest(u)]
    BY <2>3, <2>4, <2>5
  <2>6. \A u \in SUBSET s : table[u] = IF u = {} THEN 0 ELSE fun[Pick(u)] + table[rest(u)]
    BY <2>5
  <2>7. table = [u \in SUBSET s |-> table[u]]
    OBVIOUS
  <2> HIDE DEF table
  <2>8. Unfolds(table, fun, s)
    BY <2>6, <2>7 DEF Unfolds, rest
  <2> QED
    BY <2>1, <2>8
<1> QED
  BY <1>2

\* The sum over a set is the table's last row, and rows for subsets are sums.
LEMMA SumUnfolds ==
  ASSUME NEW fun, NEW S, IsFiniteSet(S), S # {}
  PROVE  Sum(fun, S) = fun[Pick(S)] + Sum(fun, S \ {Pick(S)})
<1> DEFINE of(u) == CHOOSE it : Unfolds(it, fun, u)
           rest == S \ {Pick(S)}
<1>1. rest \in SUBSET S /\ IsFiniteSet(rest)
  BY FS_Subset
<1>2. Unfolds(of(S), fun, S) /\ Unfolds(of(rest), fun, rest)
  <2>1. (\E it : Unfolds(it, fun, S)) /\ (\E it : Unfolds(it, fun, rest))
    BY <1>1, TableExists
  <2> QED
    BY <2>1
<1> HIDE DEF of
<1>3. of(S)[S] = fun[Pick(S)] + of(S)[rest]
  BY <1>2, TableRows
<1>4. of(S)[rest] = of(rest)[rest]
  BY <1>1, <1>2, TablesAgree
<1> QED
  BY <1>3, <1>4, SumIsTabulated DEF of

\* The sum over no elements is nothing.
LEMMA SumEmpty ==
  ASSUME NEW fun
  PROVE  Sum(fun, {}) = 0
<1>1. IsFiniteSet({})
  BY FS_EmptySet
<1>2. PICK it : Unfolds(it, fun, {})
  BY <1>1, TableExists
<1>3. Unfolds(CHOOSE j : Unfolds(j, fun, {}), fun, {})
  BY <1>2
<1> QED
  BY <1>3, SumIsTabulated, TableRows

-----------------------------------------------------------------------------
(* What a sum is, and how it changes.                                      *)

\* A sum of integers is an integer.
LEMMA SumIsInt ==
  ASSUME NEW fun, NEW S, IsFiniteSet(S), \A x \in S : fun[x] \in Int
  PROVE  Sum(fun, S) \in Int
<1> DEFINE bad == {s \in SUBSET S : Sum(fun, s) \notin Int}
<1>1. bad \in SUBSET SUBSET S
  OBVIOUS
<1>2. ASSUME bad # {}
      PROVE  FALSE
  <2>1. PICK s \in bad : \A v \in bad : v \subseteq s => v = s
    <3> HIDE DEF bad
    <3> QED
      BY <1>1, <1>2, SmallestSubset
  <2>2. s # {}
    <3>1. Sum(fun, {}) \in Int
      BY SumEmpty
    <3> QED
      BY <2>1, <3>1
  <2>3. Pick(s) \in s /\ s \ {Pick(s)} \notin bad
    BY <2>1, <2>2, PickIsElement
  <2>4. Sum(fun, s) = fun[Pick(s)] + Sum(fun, s \ {Pick(s)})
    BY <2>1, <2>2, FS_Subset, SumUnfolds
  <2>5. fun[Pick(s)] \in Int /\ Sum(fun, s \ {Pick(s)}) \in Int
    BY <2>1, <2>3
  <2> QED
    BY <2>1, <2>4, <2>5
<1> QED
  BY <1>2

\* A sum of natural numbers is a natural number.
LEMMA SumIsNat ==
  ASSUME NEW fun, NEW S, IsFiniteSet(S), \A x \in S : fun[x] \in Nat
  PROVE  Sum(fun, S) \in Nat
<1> DEFINE bad == {s \in SUBSET S : Sum(fun, s) \notin Nat}
<1>1. bad \in SUBSET SUBSET S
  OBVIOUS
<1>2. ASSUME bad # {}
      PROVE  FALSE
  <2>1. PICK s \in bad : \A v \in bad : v \subseteq s => v = s
    <3> HIDE DEF bad
    <3> QED
      BY <1>1, <1>2, SmallestSubset
  <2>2. s # {}
    <3>1. Sum(fun, {}) \in Nat
      BY SumEmpty
    <3> QED
      BY <2>1, <3>1
  <2>3. Pick(s) \in s /\ s \ {Pick(s)} \notin bad
    BY <2>1, <2>2, PickIsElement
  <2>4. Sum(fun, s) = fun[Pick(s)] + Sum(fun, s \ {Pick(s)})
    BY <2>1, <2>2, FS_Subset, SumUnfolds
  <2>5. fun[Pick(s)] \in Nat /\ Sum(fun, s \ {Pick(s)}) \in Nat
    BY <2>1, <2>3
  <2> QED
    BY <2>1, <2>4, <2>5
<1> QED
  BY <1>2

\* Any element may be taken first.
LEMMA SumRemove ==
  ASSUME NEW fun, NEW S, IsFiniteSet(S), \A x \in S : fun[x] \in Int, NEW x \in S
  PROVE  Sum(fun, S) = fun[x] + Sum(fun, S \ {x})
<1> DEFINE bad == {s \in SUBSET S : \E y \in s : Sum(fun, s) # fun[y] + Sum(fun, s \ {y})}
<1>1. bad \in SUBSET SUBSET S
  OBVIOUS
<1>2. ASSUME bad # {}
      PROVE  FALSE
  <2>1. PICK s \in bad : \A v \in bad : v \subseteq s => v = s
    <3> HIDE DEF bad
    <3> QED
      BY <1>1, <1>2, SmallestSubset
  <2>2. PICK y \in s : Sum(fun, s) # fun[y] + Sum(fun, s \ {y})
    BY <2>1
  <2> DEFINE p == Pick(s)
             rest == s \ {y, p}
  <2>3. p \in s /\ s \in SUBSET S /\ IsFiniteSet(s)
    BY <2>1, <2>2, FS_Subset, PickIsElement
  <2>4. Sum(fun, s) = fun[p] + Sum(fun, s \ {p})
    BY <2>3, SumUnfolds
  <2>5. y # p
    BY <2>2, <2>4
  <2>6. s \ {p} \notin bad /\ s \ {y} \notin bad /\ s \ {p} \in SUBSET S /\ s \ {y} \in SUBSET S
    BY <2>1, <2>3
  <2>7. Sum(fun, s \ {p}) = fun[y] + Sum(fun, rest)
    <3>1. (s \ {p}) \ {y} = rest /\ y \in s \ {p}
      BY <2>5
    <3> QED
      BY <2>6, <3>1
  <2>8. Sum(fun, s \ {y}) = fun[p] + Sum(fun, rest)
    <3>1. (s \ {y}) \ {p} = rest /\ p \in s \ {y}
      BY <2>3, <2>5
    <3> QED
      BY <2>6, <3>1
  <2>9. fun[y] \in Int /\ fun[p] \in Int /\ Sum(fun, rest) \in Int
    <3>1. IsFiniteSet(rest) /\ rest \in SUBSET S
      BY <2>3, FS_Subset
    <3> QED
      BY <3>1, <2>3, SumIsInt
  <2> QED
    BY <2>2, <2>4, <2>7, <2>8, <2>9
<1> QED
  BY <1>2

\* A sum looks at the values on its set only.
LEMMA SumAgrees ==
  ASSUME NEW fun, NEW gun, NEW S, IsFiniteSet(S), \A x \in S : fun[x] = gun[x]
  PROVE  Sum(fun, S) = Sum(gun, S)
<1> DEFINE bad == {s \in SUBSET S : Sum(fun, s) # Sum(gun, s)}
<1>1. bad \in SUBSET SUBSET S
  OBVIOUS
<1>2. ASSUME bad # {}
      PROVE  FALSE
  <2>1. PICK s \in bad : \A v \in bad : v \subseteq s => v = s
    <3> HIDE DEF bad
    <3> QED
      BY <1>1, <1>2, SmallestSubset
  <2>2. s # {} /\ s \in SUBSET S
    BY <2>1, SumEmpty
  <2>3. Pick(s) \in s /\ s \ {Pick(s)} \notin bad
    BY <2>1, <2>2, PickIsElement
  <2>4. /\ Sum(fun, s) = fun[Pick(s)] + Sum(fun, s \ {Pick(s)})
        /\ Sum(gun, s) = gun[Pick(s)] + Sum(gun, s \ {Pick(s)})
    BY <2>2, FS_Subset, SumUnfolds
  <2>5. fun[Pick(s)] = gun[Pick(s)] /\ Sum(fun, s \ {Pick(s)}) = Sum(gun, s \ {Pick(s)})
    BY <2>2, <2>3
  <2> QED
    BY <2>1, <2>4, <2>5
<1> QED
  BY <1>2

\* An element more.
LEMMA SumAdd ==
  ASSUME NEW fun, NEW S, IsFiniteSet(S), NEW x, x \notin S, \A y \in S \cup {x} : fun[y] \in Int
  PROVE  Sum(fun, S \cup {x}) = fun[x] + Sum(fun, S)
<1>1. IsFiniteSet(S \cup {x}) /\ (S \cup {x}) \ {x} = S
  BY FS_AddElement
<1> QED
  BY <1>1, SumRemove

\* When one value changes, the sum changes by as much.
LEMMA SumChanges ==
  ASSUME NEW fun, NEW gun, NEW S, IsFiniteSet(S), NEW x \in S,
         \A y \in S : fun[y] \in Int, gun[x] \in Int, \A y \in S \ {x} : gun[y] = fun[y]
  PROVE  Sum(gun, S) = Sum(fun, S) + (gun[x] - fun[x])
<1>1. IsFiniteSet(S \ {x}) /\ \A y \in S : gun[y] \in Int
  BY FS_RemoveElement
<1>2. Sum(gun, S \ {x}) = Sum(fun, S \ {x}) /\ Sum(fun, S \ {x}) \in Int
  BY <1>1, SumAgrees, SumIsInt
<1>3. Sum(fun, S) = fun[x] + Sum(fun, S \ {x}) /\ Sum(gun, S) = gun[x] + Sum(gun, S \ {x})
  BY <1>1, SumRemove
<1>4. fun[x] \in Int
  OBVIOUS
<1> QED
  BY <1>2, <1>3, <1>4

\* A sum of zeros.
LEMMA SumOfZeros ==
  ASSUME NEW fun, NEW S, IsFiniteSet(S), \A x \in S : fun[x] = 0
  PROVE  Sum(fun, S) = 0
<1> DEFINE bad == {s \in SUBSET S : Sum(fun, s) # 0}
<1>1. bad \in SUBSET SUBSET S
  OBVIOUS
<1>2. ASSUME bad # {}
      PROVE  FALSE
  <2>1. PICK s \in bad : \A v \in bad : v \subseteq s => v = s
    <3> HIDE DEF bad
    <3> QED
      BY <1>1, <1>2, SmallestSubset
  <2>2. s # {} /\ s \in SUBSET S
    BY <2>1, SumEmpty
  <2>3. Pick(s) \in s /\ s \ {Pick(s)} \notin bad
    BY <2>1, <2>2, PickIsElement
  <2>4. Sum(fun, s) = fun[Pick(s)] + Sum(fun, s \ {Pick(s)})
    BY <2>2, FS_Subset, SumUnfolds
  <2>5. fun[Pick(s)] = 0 /\ Sum(fun, s \ {Pick(s)}) = 0
    BY <2>2, <2>3
  <2> QED
    BY <2>1, <2>4, <2>5
<1> QED
  BY <1>2

\* Larger values have a larger sum, and a sum no larger only when they are equal.
LEMMA SumGrows ==
  ASSUME NEW fun, NEW gun, NEW S, IsFiniteSet(S), \A x \in S : fun[x] \in Int /\ gun[x] \in Int /\ fun[x] <= gun[x]
  PROVE  /\ Sum(fun, S) <= Sum(gun, S)
         /\ Sum(fun, S) = Sum(gun, S) => \A x \in S : fun[x] = gun[x]
<1>1. ASSUME NEW s \in SUBSET S
      PROVE  Sum(fun, s) \in Int /\ Sum(gun, s) \in Int
    BY FS_Subset, SumIsInt
<1>2. ASSUME NEW s \in SUBSET S
      PROVE  Sum(fun, s) <= Sum(gun, s)
  <2> DEFINE bad == {u \in SUBSET S : ~(Sum(fun, u) <= Sum(gun, u))}
  <2>1. bad \in SUBSET SUBSET S
    OBVIOUS
  <2>2. ASSUME bad # {}
        PROVE  FALSE
    <3>1. PICK u \in bad : \A v \in bad : v \subseteq u => v = u
      <4> HIDE DEF bad
      <4> QED
        BY <2>1, <2>2, SmallestSubset
    <3>2. u # {} /\ u \in SUBSET S
      <4>1. Sum(fun, {}) = 0 /\ Sum(gun, {}) = 0
        BY SumEmpty
      <4>2. u \in SUBSET S /\ ~(Sum(fun, u) <= Sum(gun, u))
        BY <3>1
      <4>3. CASE u = {}
        <5>1. Sum(fun, u) = 0 /\ Sum(gun, u) = 0
          BY <4>1, <4>3
        <5> QED
          BY <4>2, <5>1
      <4> QED
        BY <4>2, <4>3
    <3>3. Pick(u) \in u /\ u \ {Pick(u)} \in SUBSET S /\ u \ {Pick(u)} \notin bad
      BY <3>1, <3>2, PickIsElement
    <3>4. /\ Sum(fun, u) = fun[Pick(u)] + Sum(fun, u \ {Pick(u)})
          /\ Sum(gun, u) = gun[Pick(u)] + Sum(gun, u \ {Pick(u)})
      BY <3>2, FS_Subset, SumUnfolds
    <3>5. Sum(fun, u \ {Pick(u)}) <= Sum(gun, u \ {Pick(u)})
      BY <3>3
    <3>6. fun[Pick(u)] \in Int /\ gun[Pick(u)] \in Int /\ fun[Pick(u)] <= gun[Pick(u)]
      BY <3>2, <3>3
    <3>7. Sum(fun, u \ {Pick(u)}) \in Int /\ Sum(gun, u \ {Pick(u)}) \in Int
      BY <3>3, <1>1
    <3>8. Sum(fun, u) <= Sum(gun, u)
      BY <3>4, <3>5, <3>6, <3>7
    <3> QED
      BY <3>1, <3>8
  <2> QED
    BY <2>2
<1>3. ASSUME Sum(fun, S) = Sum(gun, S), NEW x \in S
      PROVE  fun[x] = gun[x]
  <2>1. Sum(fun, S) = fun[x] + Sum(fun, S \ {x}) /\ Sum(gun, S) = gun[x] + Sum(gun, S \ {x})
    BY SumRemove
  <2>2. Sum(fun, S \ {x}) <= Sum(gun, S \ {x}) /\ Sum(fun, S \ {x}) \in Int /\ Sum(gun, S \ {x}) \in Int
    BY <1>1, <1>2
  <2>3. fun[x] \in Int /\ gun[x] \in Int /\ fun[x] <= gun[x]
    OBVIOUS
  <2>4. fun[x] + Sum(fun, S \ {x}) = gun[x] + Sum(gun, S \ {x})
    BY <1>3, <2>1
  <2> QED
    BY <2>2, <2>3, <2>4
<1> QED
  BY <1>2, <1>3
================================================================================
