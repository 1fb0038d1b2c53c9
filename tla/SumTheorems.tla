---------------------------- MODULE SumTheorems ----------------------------
(***************************************************************************)
(* Sums of a function over a finite set: what the proofs about balances    *)
(* and ledger entries need to know of SumFunctionOnSet.  Inductions are    *)
(* arguments by a least counterexample, a set of numbers or of sets.       *)
(***************************************************************************)
EXTENDS Functions, FiniteSets, FiniteSetTheorems, WellFoundedInduction, TLAPS

\* A non-empty set of numbers has a least element.
LEMMA LeastNat ==
  ASSUME NEW N \in SUBSET Nat, N # {}
  PROVE  \E n \in N : \A m \in N : n <= m
<1> DEFINE R == OpToRel(<, Nat)
<1>1. IsWellFoundedOn(R, Nat)
  BY NatLessThanWellFounded
<1>2. \A n, m \in Nat : <<n, m>> \in R <=> n < m
  BY DEF OpToRel
<1> HIDE DEF R
<1>3. PICK n \in N : \A m \in N : <<m, n>> \notin R
  BY <1>1, WFMin
<1>4. ASSUME NEW m \in N PROVE n <= m
  <2>1. n \in Nat /\ m \in Nat /\ <<m, n>> \notin R
    BY <1>3
  <2>2. ~(m < n)
    BY <1>2, <2>1, Zenon
  <2> QED
    BY <2>1, <2>2
<1> QED
  BY <1>4

\* A non-empty family of subsets of a finite set has a minimal member.
LEMMA LeastSet ==
  ASSUME NEW S, IsFiniteSet(S), NEW F, F \subseteq SUBSET S, F # {}
  PROVE  \E T \in F : \A U \in F : U \subseteq T => U = T
<1> DEFINE R == StrictSubsetOrdering(S)
<1>1. IsWellFoundedOn(R, SUBSET S)
  BY FS_StrictSubsetOrderingWellFounded, FS_FiniteSubsetsOfFinite, Zenon
<1>2. \A U, T \in SUBSET S : <<U, T>> \in R <=> U \subseteq T /\ U # T
  BY DEF StrictSubsetOrdering
<1> HIDE DEF R
<1>3. \E T \in F : \A U \in F : <<U, T>> \notin R
  BY <1>1, WFMin
<1> QED
  BY <1>2, <1>3

-----------------------------------------------------------------------------

Pick(S) == CHOOSE x \in S : TRUE

\* The equation that defines the sum of f over the subsets of a set.
SumStep(f, g, T) == IF T = {} THEN 0 ELSE f[Pick(T)] + g[T \ {Pick(T)}]

IsSum(f, g, S) == g = [T \in SUBSET S |-> SumStep(f, g, T)]

\* The sum is what a function satisfying the equation returns for the whole set.
LEMMA SumUnfolds ==
  ASSUME NEW f, NEW S
  PROVE  SumFunctionOnSet(f, S) = (CHOOSE g : IsSum(f, g, S))[S]
BY DEF SumFunctionOnSet, FoldFunctionOnSet, MapThenFoldSet, SumStep, Pick, IsSum

\* The element that is taken out first is an element.
LEMMA PickInSet == \A S : S # {} => Pick(S) \in S
BY DEF Pick

\* A function that satisfies the equation on all subsets exists: one that does
\* on the small subsets can be extended by one element.
LEMMA SumExists ==
  ASSUME NEW f, NEW S, IsFiniteSet(S)
  PROVE  \E g : IsSum(f, g, S)
<1> DEFINE Small(n) == {T \in SUBSET S : Cardinality(T) <= n}
           Sums(g, n) == g = [T \in Small(n) |-> SumStep(f, g, T)]
           N == {n \in Nat : ~ \E g : Sums(g, n)}
<1>1. ASSUME NEW n \in Nat, n \notin N PROVE n + 1 \notin N
  <2>1. PICK g : Sums(g, n)
    BY <1>1
  <2> DEFINE h == [T \in Small(n + 1) |-> SumStep(f, g, T)]
  <2>2. ASSUME NEW T \in Small(n + 1) PROVE SumStep(f, h, T) = SumStep(f, g, T)
    <3>1. CASE T = {}
      BY <3>1 DEF SumStep
    <3>2. CASE T # {}
      <4> DEFINE U == T \ {Pick(T)}
      <4>1. IsFiniteSet(T) /\ Pick(T) \in T
        BY <3>2, PickInSet, FS_Subset
      <4>2. Cardinality(U) = Cardinality(T) - 1 /\ Cardinality(T) \in Nat
        BY <4>1, FS_RemoveElement, FS_CardinalityType
      <4>3. U \in Small(n) /\ U \in Small(n + 1)
        BY <4>2
      <4>4. h[U] = SumStep(f, g, U) /\ g[U] = SumStep(f, g, U)
        BY <2>1, <4>3
      <4> QED
        BY <4>4 DEF SumStep
    <3> QED
      BY <3>1, <3>2
  <2>3. Sums(h, n + 1)
    BY <2>2
  <2> QED
    BY <2>3
<1>2. 0 \notin N
  <2>1. \A T \in Small(0) : T = {}
    BY FS_EmptySet, FS_Subset, FS_CardinalityType
  <2>2. Sums([T \in Small(0) |-> 0], 0)
    BY <2>1 DEF SumStep
  <2> QED
    BY <2>2
<1>3. N = {}
  <2> SUFFICES ASSUME N # {} PROVE FALSE
    OBVIOUS
  <2> HIDE DEF Sums
  <2>1. PICK n \in N : \A m \in N : n <= m
    BY LeastNat
  <2> HIDE DEF N
  <2>2. n \in Nat /\ n # 0
    BY <1>2, <2>1 DEF N
  <2>3. n - 1 \in Nat /\ n - 1 \notin N
    BY <2>1, <2>2
  <2>4. (n - 1) + 1 \notin N
    BY <1>1, <2>3
  <2> QED
    BY <2>1, <2>2, <2>4
<1>4. Cardinality(S) \in Nat
  BY FS_CardinalityType
<1>5. PICK g : Sums(g, Cardinality(S))
  BY <1>3, <1>4
<1>6. Small(Cardinality(S)) = SUBSET S
  BY FS_Subset
<1> QED
  BY <1>5, <1>6 DEF IsSum

\* No two functions satisfy the equation.
LEMMA SumUnique ==
  ASSUME NEW f, NEW S, IsFiniteSet(S), NEW g, NEW h, IsSum(f, g, S), IsSum(f, h, S)
  PROVE  g = h
<1> DEFINE F == {T \in SUBSET S : g[T] # h[T]}
<1>1. F = {}
  <2> SUFFICES ASSUME F # {} PROVE FALSE
    OBVIOUS
  <2>0. F \subseteq SUBSET S
    OBVIOUS
  <2>1. PICK T \in F : \A U \in F : U \subseteq T => U = T
    <3> HIDE DEF F
    <3> QED
      BY <2>0, LeastSet
  <2>2. T \in SUBSET S /\ g[T] = SumStep(f, g, T) /\ h[T] = SumStep(f, h, T)
    BY DEF IsSum
  <2>3. T # {}
    BY <2>1, <2>2 DEF SumStep
  <2>4. Pick(T) \in T
    BY <2>3, PickInSet
  <2>5. T \ {Pick(T)} \notin F
    BY <2>1, <2>4
  <2>6. g[T \ {Pick(T)}] = h[T \ {Pick(T)}]
    BY <2>2, <2>5
  <2> QED
    BY <2>1, <2>2, <2>6 DEF SumStep
<1> QED
  BY <1>1 DEF IsSum

\* The recursive equation.
LEMMA SumEquation ==
  ASSUME NEW f, NEW S, IsFiniteSet(S)
  PROVE  SumFunctionOnSet(f, S) =
           IF S = {} THEN 0 ELSE f[Pick(S)] + SumFunctionOnSet(f, S \ {Pick(S)})
<1> DEFINE g == CHOOSE g : IsSum(f, g, S)
           P == S \ {Pick(S)}
           h == CHOOSE h : IsSum(f, h, P)
<1>1. IsSum(f, g, S)
  BY SumExists
<1>2. IsFiniteSet(P)
  BY FS_RemoveElement
<1>3. IsSum(f, h, P)
  BY <1>2, SumExists
<1>4. SumFunctionOnSet(f, S) = g[S] /\ SumFunctionOnSet(f, P) = h[P]
  BY SumUnfolds
<1> HIDE DEF g, h
<1>5. SumFunctionOnSet(f, S) = SumStep(f, g, S)
  BY <1>1, <1>4 DEF IsSum
<1>6. g[P] = h[P]
  <2> DEFINE r == [T \in SUBSET P |-> g[T]]
  <2>1. ASSUME NEW T \in SUBSET P PROVE r[T] = SumStep(f, r, T)
    <3>1. r[T] = SumStep(f, g, T)
      BY <1>1 DEF IsSum
    <3>2. T \ {Pick(T)} \in SUBSET P
      OBVIOUS
    <3>3. r[T \ {Pick(T)}] = g[T \ {Pick(T)}]
      BY <3>2
    <3> QED
      BY <3>1, <3>3 DEF SumStep
  <2>2. IsSum(f, r, P)
    BY <2>1 DEF IsSum
  <2>3. r = h
    BY <1>2, <1>3, <2>2, SumUnique
  <2> QED
    BY <2>3
<1> QED
  BY <1>4, <1>5, <1>6 DEF SumStep

-----------------------------------------------------------------------------

\* The sum over no elements.
LEMMA SumEmpty == \A f : SumFunctionOnSet(f, {}) = 0
BY SumEquation, FS_EmptySet

\* A sum of integers is an integer.
LEMMA SumType ==
  ASSUME NEW f, NEW S, IsFiniteSet(S), \A x \in S : f[x] \in Int
  PROVE  SumFunctionOnSet(f, S) \in Int
<1> DEFINE F == {T \in SUBSET S : SumFunctionOnSet(f, T) \notin Int}
<1>1. F = {}
  <2> SUFFICES ASSUME F # {} PROVE FALSE
    OBVIOUS
  <2>0. F \subseteq SUBSET S
    OBVIOUS
  <2>1. PICK T \in F : \A U \in F : U \subseteq T => U = T
    <3> HIDE DEF F
    <3> QED
      BY <2>0, LeastSet
  <2>2. IsFiniteSet(T) /\ T # {}
    <3>1. T \in SUBSET S /\ SumFunctionOnSet(f, T) \notin Int
      BY <2>1
    <3>2. T # {}
      BY <3>1, SumEmpty
    <3> QED
      BY <3>1, <3>2, FS_Subset
  <2>3. Pick(T) \in T /\ f[Pick(T)] \in Int
    BY <2>2, PickInSet
  <2>4. SumFunctionOnSet(f, T \ {Pick(T)}) \in Int
    BY <2>1, <2>3
  <2> QED
    BY <2>1, <2>2, <2>3, <2>4, SumEquation
<1> QED
  BY <1>1

\* Any element may be taken out first.
LEMMA SumRemove ==
  ASSUME NEW f, NEW S, IsFiniteSet(S), \A x \in S : f[x] \in Int, NEW x \in S
  PROVE  SumFunctionOnSet(f, S) = f[x] + SumFunctionOnSet(f, S \ {x})
<1> DEFINE Sum(T) == SumFunctionOnSet(f, T)
           F == {T \in SUBSET S : \E y \in T : Sum(T) # f[y] + Sum(T \ {y})}
<1> HIDE DEF Sum
<1>1. F = {}
  <2> SUFFICES ASSUME F # {} PROVE FALSE
    OBVIOUS
  <2>0. F \subseteq SUBSET S
    OBVIOUS
  <2>1. PICK T \in F : \A U \in F : U \subseteq T => U = T
    <3> HIDE DEF F
    <3> QED
      BY <2>0, LeastSet
  <2>2. PICK y \in T : Sum(T) # f[y] + Sum(T \ {y})
    BY <2>1
  <2> DEFINE p == Pick(T)
  <2>3. IsFiniteSet(T) /\ p \in T /\ Sum(T) = f[p] + Sum(T \ {p})
    BY FS_Subset, PickInSet, SumEquation DEF Sum
  <2> HIDE DEF p
  <2>4. y # p
    BY <2>2, <2>3
  <2>5. T \ {p} \notin F /\ T \ {y} \notin F
    BY <2>1, <2>2, <2>3
  <2>6. Sum(T \ {p}) = f[y] + Sum((T \ {p}) \ {y})
    BY <2>4, <2>5
  <2>7. Sum(T \ {y}) = f[p] + Sum((T \ {y}) \ {p})
    BY <2>3, <2>4, <2>5
  <2>8. (T \ {p}) \ {y} = (T \ {y}) \ {p}
    OBVIOUS
  <2>9. Sum((T \ {p}) \ {y}) \in Int /\ f[y] \in Int /\ f[p] \in Int
    <3>1. IsFiniteSet((T \ {p}) \ {y})
      BY <2>3, FS_RemoveElement
    <3> QED
      BY <2>3, <3>1, SumType DEF Sum
  <2> QED
    BY <2>2, <2>3, <2>6, <2>7, <2>8, <2>9
<1> QED
  BY <1>1 DEF Sum

\* A new element adds its value.
LEMMA SumAdd ==
  ASSUME NEW f, NEW S, IsFiniteSet(S), NEW x, x \notin S, \A y \in S \cup {x} : f[y] \in Int
  PROVE  SumFunctionOnSet(f, S \cup {x}) = f[x] + SumFunctionOnSet(f, S)
<1>1. IsFiniteSet(S \cup {x}) /\ (S \cup {x}) \ {x} = S
  BY FS_AddElement
<1> QED
  BY <1>1, SumRemove

\* A sum of one term.
LEMMA SumSingleton ==
  ASSUME NEW f, NEW x, f[x] \in Int
  PROVE  SumFunctionOnSet(f, {x}) = f[x]
<1>1. SumFunctionOnSet(f, {} \cup {x}) = f[x] + SumFunctionOnSet(f, {})
  BY SumAdd, FS_EmptySet
<1> QED
  BY <1>1, SumEmpty

\* A pair of terms.
LEMMA SumPair ==
  ASSUME NEW f, NEW x, NEW y, x # y, f[x] \in Int, f[y] \in Int
  PROVE  SumFunctionOnSet(f, {x, y}) = f[x] + f[y]
<1>1. {x, y} = {y} \cup {x} /\ x \notin {y} /\ IsFiniteSet({y})
  BY FS_Singleton
<1>2. SumFunctionOnSet(f, {y} \cup {x}) = f[x] + SumFunctionOnSet(f, {y})
  <2>1. \A z \in {y} \cup {x} : f[z] \in Int
    OBVIOUS
  <2> QED
    BY <1>1, <2>1, SumAdd
<1> QED
  BY <1>1, <1>2, SumSingleton

\* Only the values on the set count.
LEMMA SumCongruent ==
  ASSUME NEW f, NEW g, NEW S, IsFiniteSet(S),
         \A x \in S : f[x] \in Int /\ g[x] = f[x]
  PROVE  SumFunctionOnSet(g, S) = SumFunctionOnSet(f, S)
<1> DEFINE F == {T \in SUBSET S : SumFunctionOnSet(g, T) # SumFunctionOnSet(f, T)}
<1>1. F = {}
  <2> SUFFICES ASSUME F # {} PROVE FALSE
    OBVIOUS
  <2>0. F \subseteq SUBSET S
    OBVIOUS
  <2>1. PICK T \in F : \A U \in F : U \subseteq T => U = T
    <3> HIDE DEF F
    <3> QED
      BY <2>0, LeastSet
  <2>2. IsFiniteSet(T) /\ T # {} /\ T \subseteq S
    <3>1. T \in SUBSET S /\ SumFunctionOnSet(g, T) # SumFunctionOnSet(f, T)
      BY <2>1
    <3>2. T # {}
      BY <3>1, SumEmpty
    <3> QED
      BY <3>1, <3>2, FS_Subset
  <2>3. Pick(T) \in T
    BY <2>2, PickInSet
  <2>4. T \ {Pick(T)} \notin F
    BY <2>1, <2>3
  <2>5. SumFunctionOnSet(g, T \ {Pick(T)}) = SumFunctionOnSet(f, T \ {Pick(T)})
    BY <2>2, <2>4
  <2>6. /\ SumFunctionOnSet(f, T) = f[Pick(T)] + SumFunctionOnSet(f, T \ {Pick(T)})
        /\ SumFunctionOnSet(g, T) = g[Pick(T)] + SumFunctionOnSet(g, T \ {Pick(T)})
    BY <2>2, SumEquation
  <2>7. SumFunctionOnSet(g, T) = SumFunctionOnSet(f, T)
    BY <2>2, <2>3, <2>5, <2>6
  <2> QED
    BY <2>1, <2>7
<1> QED
  BY <1>1

\* The sums of two functions that differ in one place.
LEMMA SumChange ==
  ASSUME NEW f, NEW g, NEW S, IsFiniteSet(S), NEW a \in S,
         \A x \in S : f[x] \in Int /\ g[x] \in Int,
         \A x \in S \ {a} : g[x] = f[x]
  PROVE  SumFunctionOnSet(g, S) = SumFunctionOnSet(f, S) + g[a] - f[a]
<1> DEFINE R == S \ {a}
<1>1. IsFiniteSet(R)
  BY FS_RemoveElement
<1>2. SumFunctionOnSet(g, R) = SumFunctionOnSet(f, R) /\ SumFunctionOnSet(f, R) \in Int
  BY <1>1, SumCongruent, SumType
<1>3. /\ SumFunctionOnSet(f, S) = f[a] + SumFunctionOnSet(f, R)
      /\ SumFunctionOnSet(g, S) = g[a] + SumFunctionOnSet(g, R)
  BY SumRemove
<1>4. f[a] \in Int /\ g[a] \in Int
  OBVIOUS
<1> HIDE DEF R
<1> QED
  BY <1>2, <1>3, <1>4

\* A part of a sum without negative terms is no more than the sum.
LEMMA SumMonotone ==
  ASSUME NEW f, NEW S, IsFiniteSet(S), \A x \in S : f[x] \in Nat, NEW T \in SUBSET S
  PROVE  SumFunctionOnSet(f, T) <= SumFunctionOnSet(f, S)
<1> DEFINE Sum(U) == SumFunctionOnSet(f, U)
           Rest(U) == S \ U
           F == {D \in SUBSET S : ~(Sum(Rest(D)) <= Sum(S))}
<1>0. \A U \in SUBSET S : IsFiniteSet(U) /\ Sum(U) \in Int
  <2> SUFFICES ASSUME NEW U \in SUBSET S PROVE IsFiniteSet(U) /\ Sum(U) \in Int
    OBVIOUS
  <2>1. IsFiniteSet(U) /\ \A x \in U : f[x] \in Int
    BY FS_Subset
  <2> QED
    BY <2>1, SumType
<1>1. \A U \in SUBSET S : \A x \in U : Sum(U) = f[x] + Sum(U \ {x})
  <2> SUFFICES ASSUME NEW U \in SUBSET S, NEW x \in U PROVE Sum(U) = f[x] + Sum(U \ {x})
    OBVIOUS
  <2>1. IsFiniteSet(U) /\ \A y \in U : f[y] \in Int
    BY <1>0
  <2> QED
    BY <2>1, SumRemove
<1> HIDE DEF Sum
<1>2. F = {}
  <2> SUFFICES ASSUME F # {} PROVE FALSE
    OBVIOUS
  <2>0. F \subseteq SUBSET S
    OBVIOUS
  <2>1. PICK D \in F : \A U \in F : U \subseteq D => U = D
    <3> HIDE DEF F
    <3> QED
      BY <2>0, LeastSet
  <2>2. D \in SUBSET S /\ D # {}
    <3>1. Rest({}) = S
      OBVIOUS
    <3>2. Sum(S) <= Sum(S)
      BY <1>0
    <3> QED
      BY <2>1, <3>1, <3>2
  <2>3. PICK d \in D : TRUE
    BY <2>2
  <2>4. D \ {d} \notin F
    BY <2>1, <2>3
  <2>5. Sum(Rest(D \ {d})) <= Sum(S)
    BY <2>2, <2>4
  <2>6. Rest(D \ {d}) \ {d} = Rest(D) /\ d \in Rest(D \ {d})
    BY <2>2, <2>3
  <2>7. Sum(Rest(D \ {d})) = f[d] + Sum(Rest(D))
    BY <1>1, <2>6
  <2>8. Sum(Rest(D)) \in Int /\ Sum(Rest(D \ {d})) \in Int /\ Sum(S) \in Int /\ f[d] \in Nat
    BY <1>0, <2>2
  <2>9. Sum(Rest(D)) <= Sum(S)
    BY <2>5, <2>7, <2>8
  <2> QED
    BY <2>1, <2>9
<1>3. Rest(S \ T) = T
  OBVIOUS
<1>4. Sum(Rest(S \ T)) <= Sum(S)
  BY <1>2
<1> QED
  BY <1>3, <1>4 DEF Sum
=============================================================================
