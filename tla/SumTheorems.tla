---------------------------- MODULE SumTheorems ----------------------------
(***************************************************************************)
(* The sum of a function over a finite set: SumFunctionOnSet and           *)
(* SumFunction of the community modules, which fold the set in an order    *)
(* that CHOOSE fixes.  The sum does not depend on that order; it is moved  *)
(* by an update by the difference of the update, and it is bounded by its  *)
(* parts.                                                                  *)
(*                                                                         *)
(* Induction is stated of sets of numbers and of families of sets, so that *)
(* it can be instantiated; it rests on the minimal elements of well-founded *)
(* orders.                                                                 *)
(***************************************************************************)
EXTENDS Integers, FiniteSets, Functions, FiniteSetTheorems, TLAPS

-----------------------------------------------------------------------------
(* Induction *)

\* A set of natural numbers with 0 and with all successors has all of them.
LEMMA NatInd ==
    ASSUME NEW P \in SUBSET Nat, 0 \in P, \A n \in P : n + 1 \in P
    PROVE  P = Nat
<1> SUFFICES ASSUME P # Nat PROVE FALSE
  OBVIOUS
<1>1. IsWellFoundedOn(OpToRel(<, Nat), Nat)
  BY NatLessThanWellFounded
<1>2. Nat \ P \subseteq Nat /\ Nat \ P # {}
  OBVIOUS
<1>3. \E x \in Nat \ P : \A y \in Nat \ P : ~ (<<y, x>> \in OpToRel(<, Nat))
  BY <1>1, <1>2, WFMin
<1>4. PICK x \in Nat \ P : \A y \in Nat \ P : ~ (y < x)
  BY <1>3 DEF OpToRel
<1>5. x - 1 \in Nat /\ x - 1 < x
  BY SMT
<1>6. x - 1 \in P
  BY <1>4, <1>5
<1> QED  BY <1>6

\* A family of subsets of a finite set that has a set whenever it has all its
\* proper subsets has all of them.
LEMMA FiniteInd ==
    ASSUME NEW S, IsFiniteSet(S), NEW P \in SUBSET SUBSET S,
           \A T \in SUBSET S : (\A U \in SUBSET T : U # T => U \in P) => T \in P
    PROVE  P = SUBSET S
<1> SUFFICES ASSUME P # SUBSET S PROVE FALSE
  OBVIOUS
<1> DEFINE R == StrictSubsetOrdering(S)
           B == (SUBSET S) \ P
<1>1. IsWellFoundedOn(R, SUBSET S)
  <2>1. IsWellFoundedOn(StrictSubsetOrdering(S), FiniteSubsetsOf(S))
    BY FS_StrictSubsetOrderingWellFounded
  <2>2. FiniteSubsetsOf(S) = SUBSET S
    BY FS_FiniteSubsetsOfFinite
  <2> QED  BY <2>1, <2>2
<1>2. B \subseteq SUBSET S /\ B # {}
  OBVIOUS
<1> HIDE DEF R, B
<1>3. PICK T \in B : \A U \in B : ~ (<<U, T>> \in R)
  BY <1>1, <1>2, WFMin
<1>4. \A U \in SUBSET T : U # T => U \in P
  BY <1>3 DEF R, B, StrictSubsetOrdering
<1> QED  BY <1>3, <1>4 DEF B

-----------------------------------------------------------------------------
(* The recursion behind the sum *)

\* The element of a set that the fold takes first.
First(s) == CHOOSE x \in s : TRUE

Rest(s) == s \ {First(s)}

\* g is the fold of f over the sets of D, which has the rest of its sets.
Sums(f, D, g) == g = [s \in D |-> IF s = {} THEN 0 ELSE f[First(s)] + g[Rest(s)]]

LEMMA FirstIsOne ==
    ASSUME NEW s, s # {}
    PROVE  First(s) \in s
  BY DEF First

LEMMA SumIsFold ==
    ASSUME NEW f, NEW S
    PROVE  SumFunctionOnSet(f, S) = (CHOOSE g : Sums(f, SUBSET S, g))[S]
  BY DEF SumFunctionOnSet, FoldFunctionOnSet, MapThenFoldSet, Sums, First, Rest

\* The fold of a finite set is defined: of its subsets of up to n elements for
\* every n.
LEMMA FoldExists ==
    ASSUME NEW f, NEW S, IsFiniteSet(S)
    PROVE  \E g : Sums(f, SUBSET S, g)
<1> DEFINE Upto(n) == {s \in SUBSET S : Cardinality(s) <= n}
           P == {n \in Nat : \E g : Sums(f, Upto(n), g)}
<1>0. \A s \in SUBSET S : IsFiniteSet(s) /\ Cardinality(s) \in Nat /\ Cardinality(s) <= Cardinality(S)
  BY FS_Subset, FS_CardinalityType
<1>1. 0 \in P
  <2>1. \A s \in Upto(0) : s = {}
    BY <1>0, FS_EmptySet
  <2>2. Sums(f, Upto(0), [s \in Upto(0) |-> 0])
    BY <2>1 DEF Sums
  <2> QED  BY <2>2
<1>2. ASSUME NEW n \in P  PROVE n + 1 \in P
  <2>1. PICK g : Sums(f, Upto(n), g)
    OBVIOUS
  <2> DEFINE h == [s \in Upto(n + 1) |-> IF s = {} THEN 0 ELSE f[First(s)] + g[Rest(s)]]
  <2>2. \A s \in Upto(n) : s \in Upto(n + 1)
    BY <1>0
  <2>3. \A s \in Upto(n) : g[s] = h[s]
    BY <2>1, <2>2 DEF Sums
  <2>4. ASSUME NEW s \in Upto(n + 1), s # {}
        PROVE  Rest(s) \in Upto(n)
    <3>1. IsFiniteSet(s) /\ First(s) \in s /\ Cardinality(s) \in Nat
      BY <1>0, <2>4, FirstIsOne
    <3>2. Cardinality(Rest(s)) = Cardinality(s) - 1
      BY <3>1, FS_RemoveElement DEF Rest
    <3>3. Rest(s) \in SUBSET S
      BY DEF Rest
    <3> QED  BY <3>1, <3>2, <3>3
  <2>5. \A s \in Upto(n + 1) : h[s] = IF s = {} THEN 0 ELSE f[First(s)] + h[Rest(s)]
    BY <2>3, <2>4
  <2>6. h = [s \in Upto(n + 1) |-> IF s = {} THEN 0 ELSE f[First(s)] + h[Rest(s)]]
    <3> DEFINE k == [s \in Upto(n + 1) |-> IF s = {} THEN 0 ELSE f[First(s)] + h[Rest(s)]]
    <3>1. h = [s \in Upto(n + 1) |-> h[s]]
      OBVIOUS
    <3>2. \A s \in Upto(n + 1) : h[s] = k[s]
      BY <2>5
    <3> HIDE DEF h
    <3> QED  BY <3>1, <3>2
  <2>7. Sums(f, Upto(n + 1), h)
    BY <2>6 DEF Sums
  <2> HIDE DEF h, Upto
  <2> QED  BY <2>7
<1>3. P = Nat
  <2>1. P \in SUBSET Nat
    OBVIOUS
  <2> HIDE DEF P
  <2> QED  BY <1>1, <1>2, <2>1, NatInd
<1>4. Cardinality(S) \in P /\ Upto(Cardinality(S)) = SUBSET S
  BY <1>0, <1>3, FS_CardinalityType
<1> QED  BY <1>4

\* Two folds agree on the sets that both have.
LEMMA FoldUnique ==
    ASSUME NEW f, NEW S, IsFiniteSet(S), NEW D, NEW E, SUBSET S \subseteq D, SUBSET S \subseteq E,
           NEW g, NEW h, Sums(f, D, g), Sums(f, E, h)
    PROVE  g[S] = h[S]
<1> DEFINE P == {s \in SUBSET S : g[s] = h[s]}
<1>1. ASSUME NEW T \in SUBSET S, \A U \in SUBSET T : U # T => U \in P
      PROVE  T \in P
  <2>0. T \in D /\ T \in E
    OBVIOUS
  <2>1. g[T] = (IF T = {} THEN 0 ELSE f[First(T)] + g[Rest(T)])
    BY <2>0 DEF Sums
  <2>2. h[T] = (IF T = {} THEN 0 ELSE f[First(T)] + h[Rest(T)])
    BY <2>0 DEF Sums
  <2>3. T # {} => Rest(T) \in SUBSET T /\ Rest(T) # T
    BY FirstIsOne DEF Rest
  <2>4. T # {} => g[Rest(T)] = h[Rest(T)]
    BY <1>1, <2>3
  <2> QED  BY <2>1, <2>2, <2>4
<1>2. P \in SUBSET SUBSET S
  OBVIOUS
<1> HIDE DEF P
<1>3. P = SUBSET S
  BY <1>1, <1>2, FiniteInd
<1> QED  BY <1>3 DEF P

\* The sum over a set that is not empty is its first term and the sum of the
\* others.
LEMMA SumFirst ==
    ASSUME NEW f, NEW S, IsFiniteSet(S)
    PROVE  SumFunctionOnSet(f, S) =
             IF S = {} THEN 0 ELSE f[First(S)] + SumFunctionOnSet(f, Rest(S))
<1> DEFINE G(T) == CHOOSE g : Sums(f, SUBSET T, g)
<1>1. Sums(f, SUBSET S, G(S)) /\ SumFunctionOnSet(f, S) = G(S)[S]
  BY FoldExists, SumIsFold
<1>2. G(S)[S] = IF S = {} THEN 0 ELSE f[First(S)] + G(S)[Rest(S)]
  BY <1>1 DEF Sums
<1>3. ASSUME S # {}  PROVE G(S)[Rest(S)] = SumFunctionOnSet(f, Rest(S))
  <2>1. IsFiniteSet(Rest(S)) /\ SUBSET Rest(S) \subseteq SUBSET S
    BY FS_RemoveElement DEF Rest
  <2>2. Sums(f, SUBSET Rest(S), G(Rest(S))) /\ SumFunctionOnSet(f, Rest(S)) = G(Rest(S))[Rest(S)]
    BY <2>1, FoldExists, SumIsFold
  <2> HIDE DEF G
  <2> QED  BY <1>1, <2>1, <2>2, FoldUnique
<1> HIDE DEF G
<1> QED  BY <1>1, <1>2, <1>3

-----------------------------------------------------------------------------
(* The sum over a finite set *)

\* A sum of integers is an integer, a sum of natural numbers a natural number.
LEMMA SumTyped ==
    ASSUME NEW f, NEW S, IsFiniteSet(S), NEW N \in {Int, Nat}, \A x \in S : f[x] \in N
    PROVE  SumFunctionOnSet(f, S) \in N
<1> DEFINE P == {T \in SUBSET S : SumFunctionOnSet(f, T) \in N}
<1>1. ASSUME NEW T \in SUBSET S, \A U \in SUBSET T : U # T => U \in P
      PROVE  T \in P
  <2>1. IsFiniteSet(T)
    BY FS_Subset
  <2>2. SumFunctionOnSet(f, T) = IF T = {} THEN 0 ELSE f[First(T)] + SumFunctionOnSet(f, Rest(T))
    BY <2>1, SumFirst
  <2>3. T # {} => First(T) \in T /\ Rest(T) \in SUBSET T /\ Rest(T) # T
    BY FirstIsOne DEF Rest
  <2>4. T # {} => f[First(T)] \in N /\ SumFunctionOnSet(f, Rest(T)) \in N
    BY <1>1, <2>3
  <2>5. 0 \in N /\ \A a, b \in N : a + b \in N
    OBVIOUS
  <2> DEFINE a == f[First(T)]
             b == SumFunctionOnSet(f, Rest(T))
  <2>6. SumFunctionOnSet(f, T) = IF T = {} THEN 0 ELSE a + b
    BY <2>2
  <2>7. T # {} => a \in N /\ b \in N
    BY <2>4
  <2> HIDE DEF a, b
  <2>8. SumFunctionOnSet(f, T) \in N
    BY <2>5, <2>6, <2>7
  <2> QED  BY <2>8
<1>2. P \in SUBSET SUBSET S
  OBVIOUS
<1> HIDE DEF P
<1>3. P = SUBSET S
  BY <1>1, <1>2, FiniteInd
<1> QED  BY <1>3 DEF P

\* Any element may be taken first.
LEMMA SumRemove ==
    ASSUME NEW f, NEW S, IsFiniteSet(S), \A x \in S : f[x] \in Int, NEW x \in S
    PROVE  SumFunctionOnSet(f, S) = f[x] + SumFunctionOnSet(f, S \ {x})
<1> DEFINE Sum(T) == SumFunctionOnSet(f, T)
           P == {T \in SUBSET S : \A z \in T : Sum(T) = f[z] + Sum(T \ {z})}
<1>0. \A T \in SUBSET S : IsFiniteSet(T) /\ Sum(T) \in Int
  BY FS_Subset, SumTyped
<1>1. ASSUME NEW T \in SUBSET S, \A U \in SUBSET T : U # T => U \in P
      PROVE  T \in P
  <2> SUFFICES ASSUME NEW z \in T  PROVE Sum(T) = f[z] + Sum(T \ {z})
    OBVIOUS
  <2> DEFINE y == First(T)
  <2>1. y \in T /\ Sum(T) = f[y] + Sum(T \ {y})
    BY <1>0, SumFirst, FirstIsOne DEF Rest
  <2>2. CASE z = y
    BY <2>1, <2>2
  <2>3. CASE z # y
    <3> HIDE DEF y, Sum
    <3>1. T \ {y} \in P /\ T \ {z} \in P
      BY <1>1, <2>1
    <3>2. /\ Sum(T \ {y}) = f[z] + Sum((T \ {y}) \ {z})
          /\ Sum(T \ {z}) = f[y] + Sum((T \ {z}) \ {y})
      BY <2>1, <2>3, <3>1
    <3>3. (T \ {y}) \ {z} = (T \ {z}) \ {y}
      OBVIOUS
    <3> DEFINE u == Sum((T \ {z}) \ {y})
               a == f[y]
               c == f[z]
    <3>4. a \in Int /\ c \in Int /\ u \in Int
      BY <1>0, <2>1
    <3>5. Sum(T) = a + (c + u) /\ Sum(T \ {z}) = a + u
      BY <2>1, <3>2, <3>3
    <3> HIDE DEF a, c, u
    <3>6. Sum(T) = c + Sum(T \ {z})
      BY <3>4, <3>5
    <3> QED  BY <3>6 DEF c
  <2> QED  BY <2>2, <2>3
<1>2. P \in SUBSET SUBSET S
  OBVIOUS
<1> HIDE DEF P
<1>3. P = SUBSET S
  BY <1>1, <1>2, FiniteInd
<1> QED  BY <1>3 DEF P

\* The sum depends on the values over the set only.
LEMMA SumCongruent ==
    ASSUME NEW f, NEW g, NEW S, IsFiniteSet(S), \A x \in S : f[x] = g[x]
    PROVE  SumFunctionOnSet(f, S) = SumFunctionOnSet(g, S)
<1> DEFINE P == {T \in SUBSET S : SumFunctionOnSet(f, T) = SumFunctionOnSet(g, T)}
<1>1. ASSUME NEW T \in SUBSET S, \A U \in SUBSET T : U # T => U \in P
      PROVE  T \in P
  <2>1. IsFiniteSet(T)
    BY FS_Subset
  <2>2. /\ SumFunctionOnSet(f, T) = IF T = {} THEN 0 ELSE f[First(T)] + SumFunctionOnSet(f, Rest(T))
        /\ SumFunctionOnSet(g, T) = IF T = {} THEN 0 ELSE g[First(T)] + SumFunctionOnSet(g, Rest(T))
    BY <2>1, SumFirst
  <2>3. T # {} => First(T) \in T /\ Rest(T) \in SUBSET T /\ Rest(T) # T
    BY FirstIsOne DEF Rest
  <2> QED  BY <1>1, <2>2, <2>3
<1>2. P \in SUBSET SUBSET S
  OBVIOUS
<1> HIDE DEF P
<1>3. P = SUBSET S
  BY <1>1, <1>2, FiniteInd
<1> QED  BY <1>3 DEF P

\* Of natural numbers, no term and no two terms exceed the sum.
LEMMA SumBounds ==
    ASSUME NEW f, NEW S, IsFiniteSet(S), \A x \in S : f[x] \in Nat
    PROVE  /\ SumFunctionOnSet(f, S) \in Nat
           /\ \A x \in S : f[x] <= SumFunctionOnSet(f, S)
           /\ \A x, y \in S : x # y => f[x] + f[y] <= SumFunctionOnSet(f, S)
<1> DEFINE Sum(T) == SumFunctionOnSet(f, T)
<1>1. \A T \in SUBSET S : Sum(T) \in Nat
  BY FS_Subset, SumTyped
<1>2. ASSUME NEW T \in SUBSET S, NEW x \in T
      PROVE  Sum(T) = f[x] + Sum(T \ {x})
  <2>1. IsFiniteSet(T) /\ \A y \in T : f[y] \in Int
    BY FS_Subset
  <2> QED  BY <2>1, SumRemove
<1> HIDE DEF Sum
<1>3. ASSUME NEW x \in S  PROVE f[x] <= Sum(S)
  <2>1. Sum(S) = f[x] + Sum(S \ {x}) /\ Sum(S \ {x}) \in Nat /\ f[x] \in Nat
    BY <1>1, <1>2
  <2> QED  BY <2>1
<1>4. ASSUME NEW x \in S, NEW y \in S, x # y  PROVE f[x] + f[y] <= Sum(S)
  <2>1. Sum(S) = f[x] + Sum(S \ {x}) /\ f[x] \in Nat /\ f[y] \in Nat
    BY <1>2
  <2>2. Sum(S \ {x}) = f[y] + Sum((S \ {x}) \ {y}) /\ Sum((S \ {x}) \ {y}) \in Nat
    BY <1>1, <1>2, <1>4
  <2> QED  BY <2>1, <2>2
<1> QED  BY <1>1, <1>3, <1>4 DEF Sum

\* A function whose values are no greater has no greater sum.
LEMMA SumCompare ==
    ASSUME NEW f, NEW g, NEW S, IsFiniteSet(S),
           \A x \in S : f[x] \in Int /\ g[x] \in Int /\ f[x] <= g[x]
    PROVE  SumFunctionOnSet(f, S) <= SumFunctionOnSet(g, S)
<1> DEFINE P == {T \in SUBSET S : SumFunctionOnSet(f, T) <= SumFunctionOnSet(g, T)}
<1>1. ASSUME NEW T \in SUBSET S, \A U \in SUBSET T : U # T => U \in P
      PROVE  T \in P
  <2>1. IsFiniteSet(T)
    BY FS_Subset
  <2>2. /\ SumFunctionOnSet(f, T) = IF T = {} THEN 0 ELSE f[First(T)] + SumFunctionOnSet(f, Rest(T))
        /\ SumFunctionOnSet(g, T) = IF T = {} THEN 0 ELSE g[First(T)] + SumFunctionOnSet(g, Rest(T))
    BY <2>1, SumFirst
  <2>3. CASE T = {}
    BY <2>2, <2>3
  <2>4. CASE T # {}
    <3>1. First(T) \in T /\ Rest(T) \in SUBSET T /\ Rest(T) # T
      BY <2>4, FirstIsOne DEF Rest
    <3>2. SumFunctionOnSet(f, Rest(T)) <= SumFunctionOnSet(g, Rest(T))
      BY <1>1, <3>1
    <3>3. SumFunctionOnSet(f, Rest(T)) \in Int /\ SumFunctionOnSet(g, Rest(T)) \in Int
      <4>1. IsFiniteSet(Rest(T))
        BY <2>1, <3>1, FS_Subset
      <4> QED  BY <3>1, <4>1, SumTyped
    <3>4. f[First(T)] \in Int /\ g[First(T)] \in Int /\ f[First(T)] <= g[First(T)]
      BY <3>1
    <3>5. SumFunctionOnSet(f, T) <= SumFunctionOnSet(g, T)
      BY <2>2, <2>4, <3>2, <3>3, <3>4
    <3> QED  BY <3>5
  <2> QED  BY <2>3, <2>4
<1>2. P \in SUBSET SUBSET S
  OBVIOUS
<1> HIDE DEF P
<1>3. P = SUBSET S
  BY <1>1, <1>2, FiniteInd
<1> QED  BY <1>3 DEF P

\* The sum of natural numbers over a part of a set is no greater than over all
\* of it.
LEMMA SumSubset ==
    ASSUME NEW f, NEW S, IsFiniteSet(S), \A x \in S : f[x] \in Nat, NEW T \in SUBSET S
    PROVE  SumFunctionOnSet(f, T) <= SumFunctionOnSet(f, S)
<1> DEFINE g == [x \in S |-> IF x \in T THEN f[x] ELSE 0]
           P == {U \in SUBSET S : SumFunctionOnSet(g, U) = SumFunctionOnSet(f, U \cap T)}
<1>1. ASSUME NEW U \in SUBSET S, \A V \in SUBSET U : V # U => V \in P
      PROVE  U \in P
  <2>1. IsFiniteSet(U) /\ IsFiniteSet(U \cap T)
    BY FS_Subset
  <2>2. SumFunctionOnSet(g, U) = IF U = {} THEN 0 ELSE g[First(U)] + SumFunctionOnSet(g, Rest(U))
    BY <2>1, SumFirst
  <2>3. CASE U = {}
    <3>1. U \cap T = {}
      BY <2>3
    <3>2. SumFunctionOnSet(f, U \cap T) = 0
      BY <2>1, <3>1, SumFirst
    <3> QED  BY <2>2, <2>3, <3>2
  <2>4. CASE U # {}
    <3> DEFINE x == First(U)
    <3>1. x \in U /\ Rest(U) \in SUBSET U /\ Rest(U) # U /\ Rest(U) = U \ {x}
      BY <2>4, FirstIsOne DEF Rest
    <3> HIDE DEF x
    <3>2. SumFunctionOnSet(g, U \ {x}) = SumFunctionOnSet(f, (U \ {x}) \cap T)
      BY <1>1, <3>1
    <3>3. SumFunctionOnSet(g, U) = g[x] + SumFunctionOnSet(f, (U \ {x}) \cap T)
      BY <2>2, <2>4, <3>1, <3>2 DEF x
    <3>4. SumFunctionOnSet(f, (U \ {x}) \cap T) \in Int
      <4>1. IsFiniteSet((U \ {x}) \cap T)
        BY <2>1, FS_Subset
      <4> QED  BY <4>1, SumTyped
    <3>5. CASE x \in T
      <4>1. SumFunctionOnSet(f, U \cap T) = f[x] + SumFunctionOnSet(f, (U \cap T) \ {x})
        BY <2>1, <3>1, <3>5, SumRemove
      <4>2. (U \cap T) \ {x} = (U \ {x}) \cap T
        OBVIOUS
      <4>3. g[x] = f[x]
        BY <3>5
      <4> QED  BY <3>3, <4>1, <4>2, <4>3
    <3>6. CASE x \notin T
      <4>1. U \cap T = (U \ {x}) \cap T
        BY <3>6
      <4>2. g[x] = 0
        BY <3>1, <3>6
      <4> HIDE DEF g
      <4>3. SumFunctionOnSet(g, U) = SumFunctionOnSet(f, U \cap T)
        <5>1. SumFunctionOnSet(g, U) = 0 + SumFunctionOnSet(f, (U \ {x}) \cap T)
          BY <3>3, <4>2
        <5>2. SumFunctionOnSet(g, U) = SumFunctionOnSet(f, (U \ {x}) \cap T)
          BY <3>4, <5>1
        <5> QED  BY <4>1, <5>2
      <4> QED  BY <4>3
    <3> QED  BY <3>5, <3>6
  <2> QED  BY <2>3, <2>4
<1>2. P \in SUBSET SUBSET S
  OBVIOUS
<1>3. P = SUBSET S
  <2> HIDE DEF P
  <2> QED  BY <1>1, <1>2, FiniteInd
<1>4. SumFunctionOnSet(g, S) = SumFunctionOnSet(f, T)
  <2>1. S \in P /\ S \cap T = T
    BY <1>3
  <2> HIDE DEF g
  <2> QED  BY <2>1
<1>5. \A x \in S : g[x] \in Int /\ f[x] \in Int /\ g[x] <= f[x]
  OBVIOUS
<1> HIDE DEF g
<1>6. SumFunctionOnSet(g, S) <= SumFunctionOnSet(f, S)
  BY <1>5, SumCompare
<1> QED  BY <1>4, <1>6

\* The sum of a constant.
LEMMA SumConstant ==
    ASSUME NEW f, NEW S, IsFiniteSet(S), NEW c \in Int, \A x \in S : f[x] = c
    PROVE  SumFunctionOnSet(f, S) = Cardinality(S) * c
<1> DEFINE P == {T \in SUBSET S : SumFunctionOnSet(f, T) = Cardinality(T) * c}
<1>1. ASSUME NEW T \in SUBSET S, \A U \in SUBSET T : U # T => U \in P
      PROVE  T \in P
  <2>1. IsFiniteSet(T)
    BY FS_Subset
  <2>2. SumFunctionOnSet(f, T) = IF T = {} THEN 0 ELSE f[First(T)] + SumFunctionOnSet(f, Rest(T))
    BY <2>1, SumFirst
  <2>3. CASE T = {}
    <3>1. Cardinality(T) = 0
      BY <2>3, FS_EmptySet
    <3>2. SumFunctionOnSet(f, T) = 0 /\ 0 * c = 0
      BY <2>2, <2>3
    <3> QED  BY <3>1, <3>2
  <2>4. CASE T # {}
    <3> DEFINE x == First(T)
               m == Cardinality(Rest(T))
    <3>1. x \in T /\ Rest(T) \in SUBSET T /\ Rest(T) # T /\ Rest(T) = T \ {x}
      BY <2>4, FirstIsOne DEF Rest
    <3>2. Cardinality(T) = m + 1 /\ m \in Nat
      <4>1. IsFiniteSet(T \ {x}) /\ Cardinality(T \ {x}) = Cardinality(T) - 1
        BY <2>1, <3>1, FS_RemoveElement
      <4>2. Cardinality(T) \in Nat /\ Cardinality(T \ {x}) \in Nat
        BY <2>1, <4>1, FS_CardinalityType
      <4> QED  BY <3>1, <4>1, <4>2
    <3>3. SumFunctionOnSet(f, Rest(T)) = m * c /\ f[x] = c
      BY <1>1, <3>1
    <3>4. SumFunctionOnSet(f, T) = c + m * c
      BY <2>2, <2>4, <3>3
    <3> HIDE DEF m
    <3>5. (m + 1) * c = c + m * c
      BY <3>2, Z3
    <3> QED  BY <3>2, <3>4, <3>5
  <2> QED  BY <2>3, <2>4
<1>2. P \in SUBSET SUBSET S
  OBVIOUS
<1> HIDE DEF P
<1>3. P = SUBSET S
  BY <1>1, <1>2, FiniteInd
<1> QED  BY <1>3 DEF P

\* h is a linear combination of f and g.
Combines(h, c, f, d, g, S) ==
    /\ IsFiniteSet(S) /\ c \in Int /\ d \in Int
    /\ \A x \in S : f[x] \in Int /\ g[x] \in Int /\ h[x] = c * f[x] + d * g[x]

\* A sum is linear.
LEMMA SumLinear ==
    ASSUME NEW f, NEW g, NEW h, NEW S, NEW c, NEW d, Combines(h, c, f, d, g, S)
    PROVE  SumFunctionOnSet(h, S) = c * SumFunctionOnSet(f, S) + d * SumFunctionOnSet(g, S)
<1>0. /\ IsFiniteSet(S) /\ c \in Int /\ d \in Int
      /\ \A x \in S : f[x] \in Int /\ g[x] \in Int /\ h[x] = c * f[x] + d * g[x]
  BY DEF Combines
<1> DEFINE P == {T \in SUBSET S : SumFunctionOnSet(h, T) =
                     c * SumFunctionOnSet(f, T) + d * SumFunctionOnSet(g, T)}
<1>1. ASSUME NEW T \in SUBSET S, \A U \in SUBSET T : U # T => U \in P
      PROVE  T \in P
  <2>1. IsFiniteSet(T)
    BY <1>0, FS_Subset
  <2>2. /\ SumFunctionOnSet(f, T) = IF T = {} THEN 0 ELSE f[First(T)] + SumFunctionOnSet(f, Rest(T))
        /\ SumFunctionOnSet(g, T) = IF T = {} THEN 0 ELSE g[First(T)] + SumFunctionOnSet(g, Rest(T))
        /\ SumFunctionOnSet(h, T) = IF T = {} THEN 0 ELSE h[First(T)] + SumFunctionOnSet(h, Rest(T))
    BY <2>1, SumFirst
  <2>3. CASE T = {}
    <3>1. 0 = c * 0 + d * 0
      BY <1>0, SMT
    <3> QED  BY <2>2, <2>3, <3>1
  <2>4. CASE T # {}
    <3>1. First(T) \in T /\ Rest(T) \in SUBSET T /\ Rest(T) # T
      BY <2>4, FirstIsOne DEF Rest
    <3>2. IsFiniteSet(Rest(T))
      BY <2>1, <3>1, FS_Subset
    <3>3. PICK u \in Int, v \in Int : u = SumFunctionOnSet(f, Rest(T)) /\ v = SumFunctionOnSet(g, Rest(T))
      BY <1>0, <3>1, <3>2, SumTyped
    <3>4. SumFunctionOnSet(h, Rest(T)) = c * u + d * v
      BY <1>1, <3>1, <3>3
    <3>5. PICK a \in Int, b \in Int : a = f[First(T)] /\ b = g[First(T)]
      BY <1>0, <3>1
    <3>6. h[First(T)] = c * a + d * b
      BY <1>0, <3>1, <3>5
    <3>7. (c * a + d * b) + (c * u + d * v) = c * (a + u) + d * (b + v)
      BY <1>0, Z3
    <3> QED  BY <2>2, <2>4, <3>3, <3>4, <3>5, <3>6, <3>7
  <2> QED  BY <2>3, <2>4
<1>2. P \in SUBSET SUBSET S
  OBVIOUS
<1> HIDE DEF P
<1>3. P = SUBSET S
  BY <1>0, <1>1, <1>2, FiniteInd
<1> QED  BY <1>3 DEF P

\* Where one linear term is at most another everywhere, it is in the sums.
LEMMA SumLinearCompare ==
    ASSUME NEW S, IsFiniteSet(S), NEW f, NEW g, NEW u, NEW v,
           NEW a \in Int, NEW b \in Int, NEW c \in Int, NEW d \in Int,
           \A x \in S : /\ f[x] \in Int /\ g[x] \in Int /\ u[x] \in Int /\ v[x] \in Int
                       /\ a * f[x] + b * g[x] <= c * u[x] + d * v[x]
    PROVE  a * SumFunctionOnSet(f, S) + b * SumFunctionOnSet(g, S)
             <= c * SumFunctionOnSet(u, S) + d * SumFunctionOnSet(v, S)
<1> DEFINE l == [x \in S |-> a * f[x] + b * g[x]]
           r == [x \in S |-> c * u[x] + d * v[x]]
<1>1. /\ Combines(l, a, f, b, g, S)
      /\ Combines(r, c, u, d, v, S)
      /\ \A x \in S : l[x] \in Int /\ r[x] \in Int /\ l[x] <= r[x]
  BY DEF Combines
<1> HIDE DEF l, r
<1>2. SumFunctionOnSet(l, S) = a * SumFunctionOnSet(f, S) + b * SumFunctionOnSet(g, S)
  BY <1>1, SumLinear
<1>3. SumFunctionOnSet(r, S) = c * SumFunctionOnSet(u, S) + d * SumFunctionOnSet(v, S)
  BY <1>1, SumLinear
<1>4. SumFunctionOnSet(l, S) <= SumFunctionOnSet(r, S)
  BY <1>1, SumCompare
<1> QED  BY <1>2, <1>3, <1>4

\* Counting the members of a subset is a sum.
LEMMA SumCounts ==
    ASSUME NEW S, IsFiniteSet(S), NEW L \in SUBSET S, NEW f,
           \A x \in S : f[x] = IF x \in L THEN 1 ELSE 0
    PROVE  SumFunctionOnSet(f, S) = Cardinality(L)
<1> DEFINE P == {T \in SUBSET S : SumFunctionOnSet(f, T) = Cardinality(T \cap L)}
<1>1. ASSUME NEW T \in SUBSET S, \A U \in SUBSET T : U # T => U \in P
      PROVE  T \in P
  <2>1. IsFiniteSet(T) /\ IsFiniteSet(T \cap L)
    BY FS_Subset
  <2>2. SumFunctionOnSet(f, T) = IF T = {} THEN 0 ELSE f[First(T)] + SumFunctionOnSet(f, Rest(T))
    BY <2>1, SumFirst
  <2>3. CASE T = {}
    <3>1. T \cap L = {}
      BY <2>3
    <3> QED  BY <2>2, <2>3, <3>1, FS_EmptySet
  <2>4. CASE T # {}
    <3>1. First(T) \in T /\ Rest(T) \in SUBSET T /\ Rest(T) # T /\ Rest(T) = T \ {First(T)}
      BY <2>4, FirstIsOne DEF Rest
    <3>2. PICK x \in T : x = First(T)
      BY <3>1
    <3>3. SumFunctionOnSet(f, Rest(T)) = Cardinality((T \ {x}) \cap L)
      BY <1>1, <3>1, <3>2
    <3>4. CASE x \in L
      <4>1. (T \ {x}) \cap L = (T \cap L) \ {x} /\ x \in T \cap L /\ f[x] = 1
        BY <3>2, <3>4
      <4>2. Cardinality((T \cap L) \ {x}) = Cardinality(T \cap L) - 1
        BY <2>1, <4>1, FS_RemoveElement
      <4>3. PICK n \in Nat : n = Cardinality(T \cap L)
        BY <2>1, FS_CardinalityType
      <4>4. SumFunctionOnSet(f, Rest(T)) = n - 1
        BY <3>3, <4>1, <4>2, <4>3
      <4>5. SumFunctionOnSet(f, T) = 1 + SumFunctionOnSet(f, Rest(T))
        BY <2>2, <2>4, <3>2, <4>1
      <4>6. SumFunctionOnSet(f, T) = n
        BY <4>4, <4>5
      <4> QED  BY <4>3, <4>6
    <3>5. CASE x \notin L
      <4>1. (T \ {x}) \cap L = T \cap L /\ f[x] = 0
        BY <3>2, <3>5
      <4>2. Cardinality(T \cap L) \in Nat
        BY <2>1, FS_CardinalityType
      <4> QED  BY <2>2, <2>4, <3>2, <3>3, <4>1, <4>2
    <3> QED  BY <3>4, <3>5
  <2> QED  BY <2>3, <2>4
<1>2. P \in SUBSET SUBSET S
  OBVIOUS
<1> HIDE DEF P
<1>3. P = SUBSET S
  BY <1>1, <1>2, FiniteInd
<1>4. S \in P /\ S \cap L = L
  BY <1>3
<1> QED  BY <1>4 DEF P

-----------------------------------------------------------------------------
(* The sum of a function *)

\* The sum over a set and over the set without one of its elements, of two
\* functions that agree on the others.
LEMMA SumSplit ==
    ASSUME NEW f, NEW g, NEW S, IsFiniteSet(S), NEW x \in S,
           \A y \in S : f[y] \in Int, \A y \in S \ {x} : g[y] = f[y]
    PROVE  /\ SumFunctionOnSet(g, S \ {x}) = SumFunctionOnSet(f, S) - f[x]
           /\ SumFunctionOnSet(f, S) \in Int
<1>1. IsFiniteSet(S \ {x})
  BY FS_Subset
<1>2. SumFunctionOnSet(g, S \ {x}) = SumFunctionOnSet(f, S \ {x})
  BY <1>1, SumCongruent
<1>3. SumFunctionOnSet(f, S \ {x}) \in Int /\ SumFunctionOnSet(f, S) \in Int
  BY <1>1, SumTyped
<1>4. SumFunctionOnSet(f, S) = f[x] + SumFunctionOnSet(f, S \ {x})
  BY SumRemove
<1> DEFINE a == f[x]
           b == SumFunctionOnSet(f, S \ {x})
<1>5. SumFunctionOnSet(f, S) = a + b /\ a \in Int /\ b \in Int
  BY <1>3, <1>4
<1> HIDE DEF a, b
<1>6. SumFunctionOnSet(f, S) - a = b
  BY <1>5
<1> QED  BY <1>2, <1>3, <1>6 DEF a, b

\* The sum of nothing.
LEMMA SumNothing ==
    ASSUME NEW f, DOMAIN f = {}
    PROVE  SumFunction(f) = 0
  BY SumFirst, FS_EmptySet DEF SumFunction

\* A sum of natural numbers is one, and no term and no two terms exceed it.
LEMMA SumOfNats ==
    ASSUME NEW f, IsFiniteSet(DOMAIN f), \A x \in DOMAIN f : f[x] \in Nat
    PROVE  /\ SumFunction(f) \in Nat
           /\ \A x \in DOMAIN f : f[x] <= SumFunction(f)
           /\ \A x, y \in DOMAIN f : x # y => f[x] + f[y] <= SumFunction(f)
  BY SumBounds DEF SumFunction

\* A function whose values are all zero sums to zero.
LEMMA SumOfZeros ==
    ASSUME NEW f, IsFiniteSet(DOMAIN f), \A x \in DOMAIN f : f[x] = 0
    PROVE  SumFunction(f) = 0
<1>1. SumFunctionOnSet(f, DOMAIN f) \in {0}
  <2> DEFINE D == DOMAIN f
             P == {T \in SUBSET D : SumFunctionOnSet(f, T) = 0}
  <2>1. ASSUME NEW T \in SUBSET D, \A U \in SUBSET T : U # T => U \in P
        PROVE  T \in P
    <3>1. SumFunctionOnSet(f, T) = IF T = {} THEN 0 ELSE f[First(T)] + SumFunctionOnSet(f, Rest(T))
      BY FS_Subset, SumFirst
    <3>2. T # {} => First(T) \in T /\ Rest(T) \in SUBSET T /\ Rest(T) # T
      BY FirstIsOne DEF Rest
    <3>3. T # {} => f[First(T)] = 0 /\ SumFunctionOnSet(f, Rest(T)) = 0
      BY <2>1, <3>2
    <3> QED  BY <3>1, <3>3
  <2>2. P \in SUBSET SUBSET D
    OBVIOUS
  <2> HIDE DEF P
  <2>3. P = SUBSET D
    BY <2>1, <2>2, FiniteInd
  <2> QED  BY <2>3 DEF P
<1> QED  BY <1>1 DEF SumFunction

\* A new entry adds its value; one that is replaced adds the difference.
LEMMA SumPut ==
    ASSUME NEW f, IsFiniteSet(DOMAIN f), \A y \in DOMAIN f : f[y] \in Int,
           NEW x, NEW v \in Int, NEW g,
           DOMAIN g = DOMAIN f \cup {x}, g[x] = v,
           \A y \in DOMAIN f \ {x} : g[y] = f[y]
    PROVE  SumFunction(g) = SumFunction(f) + v - (IF x \in DOMAIN f THEN f[x] ELSE 0)
<1> DEFINE D == DOMAIN f
           E == D \cup {x}
           a == IF x \in D THEN f[x] ELSE 0
<1>1. IsFiniteSet(E) /\ IsFiniteSet(D \ {x}) /\ E \ {x} = D \ {x}
  BY FS_AddElement, FS_Subset
<1>2. \A y \in E : g[y] \in Int
  OBVIOUS
<1>3. /\ SumFunctionOnSet(f, E \ {x}) = SumFunctionOnSet(g, E) - v
      /\ SumFunctionOnSet(g, E) \in Int
  <2>1. x \in E /\ \A y \in E \ {x} : f[y] = g[y]
    OBVIOUS
  <2> HIDE DEF E
  <2>2. SumFunctionOnSet(f, E \ {x}) = SumFunctionOnSet(g, E) - g[x] /\ SumFunctionOnSet(g, E) \in Int
    BY <1>1, <1>2, <2>1, SumSplit
  <2> QED  BY <2>2
<1>4. /\ SumFunctionOnSet(f, D \ {x}) = SumFunctionOnSet(f, D) - a
      /\ SumFunctionOnSet(f, D) \in Int /\ a \in Int
  <2>1. CASE x \in D
    BY <2>1, SumSplit
  <2>2. CASE x \notin D
    <3>1. D \ {x} = D
      BY <2>2
    <3>2. SumFunctionOnSet(f, D) \in Int
      BY SumTyped
    <3> QED  BY <2>2, <3>1, <3>2
  <2> QED  BY <2>1, <2>2
<1>5. SumFunctionOnSet(g, E) = SumFunctionOnSet(f, D) + v - a
  <2> HIDE DEF D, E, a
  <2> QED  BY <1>1, <1>3, <1>4
<1> QED  BY <1>5 DEF SumFunction

\* The entry that EXCEPT replaces adds the difference.
LEMMA SumExcept ==
    ASSUME NEW f, IsFiniteSet(DOMAIN f), \A y \in DOMAIN f : f[y] \in Int,
           NEW x \in DOMAIN f, NEW v \in Int
    PROVE  SumFunction([f EXCEPT ![x] = v]) = SumFunction(f) + v - f[x]
<1> DEFINE g == [f EXCEPT ![x] = v]
<1>1. DOMAIN g = DOMAIN f \cup {x} /\ g[x] = v /\ \A y \in DOMAIN f \ {x} : g[y] = f[y]
  OBVIOUS
<1> HIDE DEF g
<1>2. SumFunction(g) = SumFunction(f) + v - (IF x \in DOMAIN f THEN f[x] ELSE 0)
  BY <1>1, SumPut
<1> QED  BY <1>2 DEF g

\* An entry that is removed takes its value with it.
LEMMA SumDrop ==
    ASSUME NEW f, IsFiniteSet(DOMAIN f), \A y \in DOMAIN f : f[y] \in Int,
           NEW x \in DOMAIN f, NEW g, DOMAIN g = DOMAIN f \ {x},
           \A y \in DOMAIN f \ {x} : g[y] = f[y]
    PROVE  SumFunction(g) = SumFunction(f) - f[x]
  BY SumSplit DEF SumFunction

\* Two functions on a set that differ in one place differ there in their sums.
LEMMA SumMoves ==
    ASSUME NEW S, IsFiniteSet(S), NEW f, NEW g, DOMAIN f = S, DOMAIN g = S,
           \A y \in S : f[y] \in Int, NEW x \in S, NEW v \in Int, g[x] = v,
           \A y \in S \ {x} : g[y] = f[y]
    PROVE  /\ SumFunction(f) \in Int
           /\ SumFunction(g) = SumFunction(f) + v - f[x]
<1>1. IsFiniteSet(DOMAIN f) /\ \A y \in DOMAIN f : f[y] \in Int
  OBVIOUS
<1>2. DOMAIN g = DOMAIN f \cup {x} /\ \A y \in DOMAIN f \ {x} : g[y] = f[y]
  OBVIOUS
<1>3. SumFunction(g) = SumFunction(f) + v - (IF x \in DOMAIN f THEN f[x] ELSE 0)
  BY <1>1, <1>2, SumPut
<1>4. SumFunction(f) \in Int
  BY <1>1, SumTyped DEF SumFunction
<1> QED  BY <1>3, <1>4

-----------------------------------------------------------------------------
(* Sums over parts, images and families *)

\* Where a function is zero outside a part of the set, the part has its sum.
LEMMA SumZeroOutside ==
    ASSUME NEW f, NEW g, NEW S, IsFiniteSet(S), NEW T \in SUBSET S,
           \A x \in T : f[x] \in Int /\ g[x] = f[x], \A x \in S \ T : f[x] = 0
    PROVE  SumFunctionOnSet(f, S) = SumFunctionOnSet(g, T)
<1> DEFINE P == {U \in SUBSET S : SumFunctionOnSet(f, U) = SumFunctionOnSet(g, U \cap T)}
<1>1. ASSUME NEW U \in SUBSET S, \A V \in SUBSET U : V # U => V \in P
      PROVE  U \in P
  <2>1. IsFiniteSet(U) /\ IsFiniteSet(U \cap T)
    BY FS_Subset
  <2>2. SumFunctionOnSet(f, U) = IF U = {} THEN 0 ELSE f[First(U)] + SumFunctionOnSet(f, Rest(U))
    BY <2>1, SumFirst
  <2>3. CASE U = {}
    <3>1. U \cap T = {}
      BY <2>3
    <3>2. SumFunctionOnSet(g, U \cap T) = 0
      BY <2>1, <3>1, SumFirst
    <3> QED  BY <2>2, <2>3, <3>2
  <2>4. CASE U # {}
    <3>1. PICK x \in U : x = First(U) /\ Rest(U) = U \ {x}
      BY <2>4, FirstIsOne DEF Rest
    <3>2. SumFunctionOnSet(f, U \ {x}) = SumFunctionOnSet(g, (U \ {x}) \cap T)
      BY <1>1
    <3>3. SumFunctionOnSet(f, U) = f[x] + SumFunctionOnSet(g, (U \ {x}) \cap T)
      BY <2>2, <2>4, <3>1, <3>2
    <3>4. SumFunctionOnSet(g, (U \ {x}) \cap T) \in Int
      <4>1. IsFiniteSet((U \ {x}) \cap T)
        BY <2>1, FS_Subset
      <4> QED  BY <4>1, SumTyped
    <3>5. CASE x \in T
      <4>1. SumFunctionOnSet(g, U \cap T) = g[x] + SumFunctionOnSet(g, (U \cap T) \ {x})
        BY <2>1, <3>5, SumRemove
      <4>2. (U \cap T) \ {x} = (U \ {x}) \cap T
        OBVIOUS
      <4> QED  BY <3>3, <3>5, <4>1, <4>2
    <3>6. CASE x \notin T
      <4>1. U \cap T = (U \ {x}) \cap T /\ f[x] = 0
        BY <3>6
      <4>2. SumFunctionOnSet(f, U) = SumFunctionOnSet(g, (U \ {x}) \cap T)
        BY <3>3, <3>4, <4>1
      <4>3. SumFunctionOnSet(f, U) = SumFunctionOnSet(g, U \cap T)
        BY <4>1, <4>2
      <4> QED  BY <4>3
    <3> QED  BY <3>5, <3>6
  <2> QED  BY <2>3, <2>4
<1>2. P \in SUBSET SUBSET S
  OBVIOUS
<1> HIDE DEF P
<1>3. P = SUBSET S
  BY <1>1, <1>2, FiniteInd
<1>4. S \in P /\ S \cap T = T
  BY <1>3
<1> QED  BY <1>4 DEF P

\* g is f, but greater by k on a part S of D.
Grows(g, f, D, k, S) ==
    /\ IsFiniteSet(D) /\ S \subseteq D
    /\ \A x \in D : f[x] \in Int
    /\ \A x \in S : k[x] \in Int /\ g[x] = f[x] + k[x]
    /\ \A x \in D \ S : g[x] = f[x]

\* Values that grow by k on a part of the set add the sum of k to the sum.
LEMMA SumPlus ==
    ASSUME NEW f, NEW g, NEW D, NEW S, NEW k, Grows(g, f, D, k, S)
    PROVE  /\ SumFunctionOnSet(f, D) \in Int /\ SumFunctionOnSet(k, S) \in Int
           /\ SumFunctionOnSet(g, D) = SumFunctionOnSet(f, D) + SumFunctionOnSet(k, S)
<1> USE DEF Grows
<1> DEFINE h == [x \in D |-> IF x \in S THEN k[x] ELSE 0]
<1>0. IsFiniteSet(S)
  BY FS_Subset
<1>1. SumFunctionOnSet(h, D) = SumFunctionOnSet(k, S)
  <2>1. \A x \in S : h[x] \in Int /\ k[x] = h[x]
    OBVIOUS
  <2>2. \A x \in D \ S : h[x] = 0
    OBVIOUS
  <2> HIDE DEF h
  <2> QED  BY <2>1, <2>2, SumZeroOutside
<1>2. Combines(g, 1, f, 1, h, D)
  BY DEF Combines
<1> HIDE DEF h
<1>3. SumFunctionOnSet(g, D) = 1 * SumFunctionOnSet(f, D) + 1 * SumFunctionOnSet(h, D)
  BY <1>2, SumLinear
<1>4. SumFunctionOnSet(f, D) \in Int /\ SumFunctionOnSet(k, S) \in Int
  BY <1>0, SumTyped
<1> QED  BY <1>1, <1>3, <1>4

\* The image of a finite set is finite.
LEMMA ImageFinite ==
    ASSUME NEW S, IsFiniteSet(S), NEW h
    PROVE  IsFiniteSet({h[x] : x \in S})
<1> DEFINE T == {h[x] : x \in S}
           m == [x \in S |-> h[x]]
<1>1. m \in Surjection(S, T)
  BY DEF Surjection
<1> HIDE DEF m, T
<1>2. IsFiniteSet(T)
  BY <1>1, FS_Surjection
<1> QED  BY <1>2 DEF T

\* The sum over the image of a set under a function that is one to one.
LEMMA SumReindex ==
    ASSUME NEW S, IsFiniteSet(S), NEW f, NEW g, NEW h,
           \A x \in S : g[x] \in Int /\ f[h[x]] = g[x],
           \A x, y \in S : h[x] = h[y] => x = y
    PROVE  SumFunctionOnSet(f, {h[x] : x \in S}) = SumFunctionOnSet(g, S)
<1> DEFINE Im(T) == {h[x] : x \in T}
           P == {T \in SUBSET S : SumFunctionOnSet(f, Im(T)) = SumFunctionOnSet(g, T)}
<1>1. ASSUME NEW T \in SUBSET S, \A U \in SUBSET T : U # T => U \in P
      PROVE  T \in P
  <2>1. IsFiniteSet(T) /\ IsFiniteSet(Im(T))
    <3>1. IsFiniteSet(T)
      BY FS_Subset
    <3> QED  BY <3>1, ImageFinite
  <2>2. SumFunctionOnSet(g, T) = IF T = {} THEN 0 ELSE g[First(T)] + SumFunctionOnSet(g, Rest(T))
    BY <2>1, SumFirst
  <2>3. CASE T = {}
    <3>1. Im(T) = {}
      BY <2>3
    <3> HIDE DEF Im
    <3>2. SumFunctionOnSet(f, Im(T)) = 0
      BY <2>1, <3>1, SumFirst
    <3> QED  BY <2>2, <2>3, <3>2
  <2>4. CASE T # {}
    <3>1. PICK x \in T : x = First(T) /\ Rest(T) = T \ {x}
      BY <2>4, FirstIsOne DEF Rest
    <3>2. SumFunctionOnSet(f, Im(T \ {x})) = SumFunctionOnSet(g, T \ {x})
      BY <1>1
    <3>3. Im(T) \ {h[x]} = Im(T \ {x}) /\ h[x] \in Im(T)
      OBVIOUS
    <3>4. \A y \in Im(T) : f[y] \in Int
      OBVIOUS
    <3>5. f[h[x]] = g[x]
      OBVIOUS
    <3> HIDE DEF Im
    <3>6. SumFunctionOnSet(f, Im(T)) = f[h[x]] + SumFunctionOnSet(f, Im(T) \ {h[x]})
      BY <2>1, <3>3, <3>4, SumRemove
    <3>7. SumFunctionOnSet(f, Im(T)) = SumFunctionOnSet(g, T)
      BY <2>2, <2>4, <3>1, <3>2, <3>3, <3>5, <3>6
    <3> QED  BY <3>7
  <2> QED  BY <2>3, <2>4
<1>2. P \in SUBSET SUBSET S
  OBVIOUS
<1> HIDE DEF P
<1>3. P = SUBSET S
  BY <1>1, <1>2, FiniteInd
<1> QED  BY <1>3 DEF P

\* g is the sum of f over each of the parts that h divides S into.
Fibred(f, S, h, g, T) ==
    /\ IsFiniteSet(S) /\ IsFiniteSet(T)
    /\ \A x \in S : f[x] \in Int /\ h[x] \in T
    /\ \A y \in T : g[y] = SumFunctionOnSet(f, {x \in S : h[x] = y})

\* The sum over a set is the sum of the sums over its parts.
LEMMA SumFibres ==
    ASSUME NEW S, NEW T, NEW h, NEW f, NEW g, Fibred(f, S, h, g, T)
    PROVE  /\ \A y \in T : g[y] \in Int
           /\ SumFunctionOnSet(f, S) = SumFunctionOnSet(g, T)
<1> USE DEF Fibred
<1> DEFINE Fib(U, y) == {x \in U : h[x] = y}
           G(U) == [y \in T |-> SumFunctionOnSet(f, Fib(U, y))]
           P == {U \in SUBSET S : SumFunctionOnSet(f, U) = SumFunctionOnSet(G(U), T)}
<1>0. \A U \in SUBSET S : IsFiniteSet(U) /\ \A y \in T : IsFiniteSet(Fib(U, y)) /\ G(U)[y] \in Int
  <2> TAKE U \in SUBSET S
  <2>1. IsFiniteSet(U)
    BY FS_Subset
  <2>2. ASSUME NEW y \in T  PROVE IsFiniteSet(Fib(U, y)) /\ SumFunctionOnSet(f, Fib(U, y)) \in Int
    <3>1. IsFiniteSet(Fib(U, y)) /\ \A x \in Fib(U, y) : f[x] \in Int
      BY <2>1, FS_Subset
    <3> QED  BY <3>1, SumTyped
  <2> QED  BY <2>1, <2>2
<1>1. ASSUME NEW U \in SUBSET S, \A V \in SUBSET U : V # U => V \in P
      PROVE  U \in P
  <2>1. SumFunctionOnSet(f, U) = IF U = {} THEN 0 ELSE f[First(U)] + SumFunctionOnSet(f, Rest(U))
    BY <1>0, SumFirst
  <2>2. CASE U = {}
    <3>1. \A y \in T : Fib(U, y) = {}
      BY <2>2
    <3>2. \A y \in T : SumFunctionOnSet(f, {}) = 0
      BY FS_EmptySet, SumFirst
    <3>3. \A y \in T : G(U)[y] = 0
      BY <3>1, <3>2
    <3>4. DOMAIN G(U) = T
      OBVIOUS
    <3> HIDE DEF G, Fib
    <3>5. SumFunction(G(U)) = 0
      BY <3>3, <3>4, SumOfZeros
    <3>6. SumFunctionOnSet(G(U), T) = 0
      BY <3>4, <3>5 DEF SumFunction
    <3> QED  BY <2>1, <2>2, <3>6
  <2>3. CASE U # {}
    <3>1. PICK x \in U : x = First(U) /\ Rest(U) = U \ {x}
      BY <2>3, FirstIsOne DEF Rest
    <3> DEFINE V == U \ {x}
               z == h[x]
               k == [y \in {z} |-> f[x]]
    <3>2. V \in SUBSET S /\ SumFunctionOnSet(f, V) = SumFunctionOnSet(G(V), T)
      BY <1>1
    <3>3. z \in T /\ f[x] \in Int
      OBVIOUS
    <3>4. \A y \in T : G(U)[y] = IF y \in {z} THEN G(V)[y] + k[y] ELSE G(V)[y]
      <4> TAKE y \in T
      <4>1. CASE y = z
        <5>1. Fib(U, y) \ {x} = Fib(V, y) /\ x \in Fib(U, y) /\ \A u \in Fib(U, y) : f[u] \in Int
          BY <4>1
        <5>2. SumFunctionOnSet(f, Fib(U, y)) = f[x] + SumFunctionOnSet(f, Fib(V, y))
          <6>1. PICK F : F = Fib(U, y)
            OBVIOUS
          <6>2. IsFiniteSet(F) /\ x \in F /\ F \ {x} = Fib(V, y) /\ \A u \in F : f[u] \in Int
            BY <1>0, <5>1, <6>1
          <6> HIDE DEF Fib
          <6>3. SumFunctionOnSet(f, F) = f[x] + SumFunctionOnSet(f, F \ {x})
            BY <6>2, SumRemove
          <6> QED  BY <6>1, <6>2, <6>3
        <5>3. G(U)[y] = f[x] + G(V)[y] /\ G(V)[y] \in Int
          BY <1>0, <3>2, <5>2
        <5>4. k[y] = f[x] /\ y \in {z}
          BY <4>1
        <5> HIDE DEF G, k
        <5> QED  BY <3>3, <5>3, <5>4
      <4>2. CASE y # z
        <5>1. Fib(U, y) = Fib(V, y)
          BY <4>2
        <5>2. G(U)[y] = G(V)[y] /\ G(V)[y] \in Int
          BY <1>0, <3>2, <5>1
        <5> HIDE DEF G, k
        <5> QED  BY <4>2, <5>2
      <4> QED  BY <4>1, <4>2
    <3>5. \A y \in T : G(V)[y] \in Int
      BY <1>0, <3>2
    <3>6. \A y \in {z} : k[y] \in Int
      BY <3>3
    <3>7. SumFunctionOnSet(k, {z}) = f[x]
      <4>1. IsFiniteSet({z}) /\ Cardinality({z}) = 1
        BY FS_Singleton
      <4>2. \A y \in {z} : k[y] = f[x]
        OBVIOUS
      <4> HIDE DEF k, z
      <4>3. SumFunctionOnSet(k, {z}) = 1 * f[x]
        BY <3>3, <4>1, <4>2, SumConstant
      <4> QED  BY <3>3, <4>3
    <3>8. {z} \in SUBSET T
      BY <3>3
    <3> HIDE DEF G, k, z, V
    <3>8a. /\ \A y \in {z} : G(U)[y] = G(V)[y] + k[y]
           /\ \A y \in T \ {z} : G(U)[y] = G(V)[y]
      BY <3>4, <3>8
    <3>9. SumFunctionOnSet(G(U), T) = SumFunctionOnSet(G(V), T) + SumFunctionOnSet(k, {z})
      <4>1. Grows(G(U), G(V), T, k, {z})
        BY <3>5, <3>6, <3>8, <3>8a DEF Grows
      <4> QED  BY <4>1, SumPlus
    <3>10. SumFunctionOnSet(f, V) \in Int
      BY <1>0, <3>2, SumTyped
    <3>11. SumFunctionOnSet(f, U) = f[x] + SumFunctionOnSet(f, V)
      BY <2>1, <2>3, <3>1 DEF V
    <3>12. SumFunctionOnSet(f, U) = SumFunctionOnSet(G(U), T)
      BY <3>2, <3>3, <3>7, <3>9, <3>10, <3>11
    <3> QED  BY <3>12
  <2> QED  BY <2>2, <2>3
<1>2. P \in SUBSET SUBSET S
  OBVIOUS
<1>3. P = SUBSET S
  <2> HIDE DEF P
  <2> QED  BY <1>1, <1>2, FiniteInd
<1>4. SumFunctionOnSet(f, S) = SumFunctionOnSet(G(S), T)
  <2>1. S \in P
    BY <1>3
  <2> HIDE DEF G
  <2> QED  BY <2>1
<1>5. \A y \in T : G(S)[y] = g[y] /\ g[y] \in Int
  BY <1>0
<1> HIDE DEF G
<1>6. SumFunctionOnSet(G(S), T) = SumFunctionOnSet(g, T)
  BY <1>5, SumCongruent
<1> QED  BY <1>4, <1>5, <1>6

\* The sum over one element.
LEMMA SumOne ==
    ASSUME NEW k, NEW x, k[x] \in Int
    PROVE  SumFunctionOnSet(k, {x}) = k[x]
<1>1. IsFiniteSet({x}) /\ \A y \in {x} : k[y] \in Int
  BY FS_Singleton
<1>2. SumFunctionOnSet(k, {x}) = k[x] + SumFunctionOnSet(k, {x} \ {x})
  BY <1>1, SumRemove
<1>3. SumFunctionOnSet(k, {x} \ {x}) = 0
  <2>1. IsFiniteSet({x} \ {x}) /\ {x} \ {x} = {}
    BY FS_EmptySet
  <2> QED  BY <2>1, SumFirst
<1> QED  BY <1>2, <1>3

\* The value of f at x, where it has one.
ValueOr0(f, A, x) == IF x \in A THEN f[x] ELSE 0

\* From f on A to g on B, both parts of D, changes the values of T by k.
Shifts(g, B, f, A, k, T, D) ==
    /\ IsFiniteSet(D) /\ A \subseteq D /\ B \subseteq D /\ T \subseteq D
    /\ \A x \in A : f[x] \in Int
    /\ \A x \in B : g[x] \in Int
    /\ \A x \in T : k[x] = ValueOr0(g, B, x) - ValueOr0(f, A, x)
    /\ \A x \in D \ T : ValueOr0(g, B, x) = ValueOr0(f, A, x)

LEMMA SumShifts ==
    ASSUME NEW g, NEW B, NEW f, NEW A, NEW k, NEW T, NEW D, Shifts(g, B, f, A, k, T, D)
    PROVE  /\ SumFunctionOnSet(f, A) \in Int /\ SumFunctionOnSet(k, T) \in Int
           /\ SumFunctionOnSet(g, B) = SumFunctionOnSet(f, A) + SumFunctionOnSet(k, T)
<1> DEFINE F == [x \in D |-> ValueOr0(f, A, x)]
           G == [x \in D |-> ValueOr0(g, B, x)]
<1>0. IsFiniteSet(D) /\ A \in SUBSET D /\ B \in SUBSET D
  BY DEF Shifts
<1>1. \A x \in D : F[x] \in Int /\ G[x] \in Int
  BY DEF Shifts, ValueOr0
<1>2. /\ \A x \in A : F[x] \in Int /\ f[x] = F[x]
      /\ \A x \in D \ A : F[x] = 0
  BY DEF Shifts, ValueOr0
<1>3. /\ \A x \in B : G[x] \in Int /\ g[x] = G[x]
      /\ \A x \in D \ B : G[x] = 0
  BY DEF Shifts, ValueOr0
<1>4. Grows(G, F, D, k, T)
  <2>1. \A x \in T : k[x] = G[x] - F[x]
    BY DEF Shifts
  <2>2. \A x \in D \ T : G[x] = F[x]
    BY DEF Shifts
  <2>3. T \subseteq D
    BY DEF Shifts
  <2> HIDE DEF F, G
  <2> QED  BY <1>0, <1>1, <2>1, <2>2, <2>3 DEF Grows
<1> HIDE DEF F, G
<1>5. SumFunctionOnSet(F, D) = SumFunctionOnSet(f, A)
  BY <1>0, <1>2, SumZeroOutside
<1>6. SumFunctionOnSet(G, D) = SumFunctionOnSet(g, B)
  BY <1>0, <1>3, SumZeroOutside
<1> QED  BY <1>4, <1>5, <1>6, SumPlus

LEMMA SumNegated ==
    ASSUME NEW f, NEW h, NEW S, IsFiniteSet(S), \A x \in S : f[x] \in Nat /\ h[x] = 0 - f[x]
    PROVE  /\ SumFunctionOnSet(f, S) \in Nat
           /\ SumFunctionOnSet(h, S) = 0 - SumFunctionOnSet(f, S)
<1>1. SumFunctionOnSet(f, S) \in Nat
  BY SumTyped
<1>2. Combines(h, 0 - 1, f, 0, f, S)
  BY DEF Combines
<1>3. SumFunctionOnSet(h, S) = (0 - 1) * SumFunctionOnSet(f, S) + 0 * SumFunctionOnSet(f, S)
  BY <1>2, SumLinear
<1> QED  BY <1>1, <1>3

\* The sum of a part of a set, counted by what its elements stand for.
Counted(f, T, g, h, M) ==
    /\ IsFiniteSet(T)
    /\ \A x \in T : f[x] \in Int
    /\ \A x, y \in T : h[x] = h[y] => x = y
    /\ \E U \in SUBSET T : /\ M = {h[x] : x \in U}
                           /\ \A x \in U : g[h[x]] = f[x]
                           /\ \A x \in T \ U : f[x] = 0

LEMMA SumCounted ==
    ASSUME NEW f, NEW T, NEW g, NEW h, NEW M, Counted(f, T, g, h, M)
    PROVE  SumFunctionOnSet(g, M) = SumFunctionOnSet(f, T)
<1>1. PICK U \in SUBSET T : /\ M = {h[x] : x \in U}
                            /\ \A x \in U : g[h[x]] = f[x]
                            /\ \A x \in T \ U : f[x] = 0
  BY DEF Counted
<1>2. IsFiniteSet(T) /\ IsFiniteSet(U) /\ \A x \in T : f[x] \in Int
  BY FS_Subset DEF Counted
<1>3. SumFunctionOnSet(f, T) = SumFunctionOnSet(f, U)
  <2>1. \A x \in U : f[x] \in Int /\ f[x] = f[x]
    BY <1>2
  <2> QED  BY <1>1, <1>2, <2>1, SumZeroOutside
<1>4. \A x, y \in U : h[x] = h[y] => x = y
  BY DEF Counted
<1>5. \A x \in U : f[x] \in Int /\ g[h[x]] = f[x]
  BY <1>1, <1>2
<1>6. SumFunctionOnSet(g, {h[x] : x \in U}) = SumFunctionOnSet(f, U)
  BY <1>2, <1>4, <1>5, SumReindex
<1> QED  BY <1>1, <1>3, <1>6

===============================================================================
