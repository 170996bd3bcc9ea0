----------------------------- MODULE FiniteSums -----------------------------
(***************************************************************************)
(* Facts about the sums that the models write with MapThenSumSet, which    *)
(* folds over a set in an order that CHOOSE picks: the sum of a finite set *)
(* does not depend on that order.  The induction theorems of the library   *)
(* take an operator as a parameter; here a set takes the place of the      *)
(* operator, and its least counterexample that of the induction step.      *)
(***************************************************************************)
EXTENDS Integers, FiniteSetsExt, FiniteSetTheorems, WellFoundedInduction, TLAPS

LEMMA NatInduct ==
  ASSUME NEW S \in SUBSET Nat, 0 \in S, \A n \in S : n + 1 \in S
  PROVE  S = Nat
<1> DEFINE T == Nat \ S
           R == {pair \in Nat \X Nat : pair[1] < pair[2]}
<1>1. SUFFICES ASSUME T # {} PROVE FALSE
  OBVIOUS
<1>2. IsWellFoundedOn(R, Nat)
  BY NatLessThanWellFounded, Zenon DEF OpToRel
<1>3. \E x \in T : \A y \in T : ~(<<y, x>> \in R)
  <2> HIDE DEF R
  <2> QED
    BY <1>1, <1>2, WFMin
<1>4. PICK x \in T : \A y \in T : ~(y < x)
  BY <1>3
<1>5. x # 0 /\ x - 1 \in Nat
  BY <1>4
<1>6. x - 1 \in S
  BY <1>4, <1>5
<1> QED
  BY <1>4, <1>5, <1>6

\* A set of naturals that is not empty has a least element, and Min is it.
LEMMA MinLeast ==
  ASSUME NEW S \in SUBSET Nat, S # {}
  PROVE  Min(S) \in S /\ \A y \in S : Min(S) <= y
<1> DEFINE T == {n \in Nat : \A y \in S : n <= y}
<1>1. \E n \in T : n + 1 \notin T
  <2>1. SUFFICES ASSUME \A n \in T : n + 1 \in T PROVE FALSE
    OBVIOUS
  <2>2. T \in SUBSET Nat /\ 0 \in T
    OBVIOUS
  <2>3. T = Nat
    <3> HIDE DEF T
    <3> QED
      BY <2>1, <2>2, NatInduct
  <2>4. PICK y : y \in S
    OBVIOUS
  <2>5. y \in Nat
    BY <2>4
  <2>6. y + 1 \in T
    <3> HIDE DEF T
    <3> QED
      BY <2>3, <2>5
  <2> QED
    BY <2>4, <2>5, <2>6
<1>2. PICK n \in T : n + 1 \notin T
  BY <1>1
<1>3. n \in S
  BY <1>2
<1> QED
  BY <1>2, <1>3 DEF Min
-----------------------------------------------------------------------------
(* The recursive function behind MapThenSumSet, for weights w.             *)

IsSum(f, w, S) ==
  f = [s \in SUBSET S |-> IF s = {} THEN 0
                          ELSE LET x == CHOOSE x \in s : TRUE IN w[x] + f[s \ {x}]]

\* What it does for the subsets of at most n elements.
UpTo(S, n) == {s \in SUBSET S : Cardinality(s) <= n}
IsSumUpTo(f, w, S, n) ==
  f = [s \in UpTo(S, n) |-> IF s = {} THEN 0
                            ELSE LET x == CHOOSE x \in s : TRUE IN w[x] + f[s \ {x}]]

\* One element less, of a finite set.
LEMMA OneLess ==
  ASSUME NEW s, IsFiniteSet(s), s # {}
  PROVE  LET x == CHOOSE x \in s : TRUE
         IN  /\ x \in s /\ IsFiniteSet(s \ {x})
             /\ Cardinality(s) \in Nat /\ Cardinality(s \ {x}) \in Nat
             /\ Cardinality(s \ {x}) = Cardinality(s) - 1
<1> DEFINE x == CHOOSE x \in s : TRUE
<1>1. x \in s
  OBVIOUS
<1> HIDE DEF x
<1>2. /\ IsFiniteSet(s \ {x}) /\ Cardinality(s) \in Nat
      /\ Cardinality(s \ {x}) = Cardinality(s) - 1 /\ Cardinality(s \ {x}) \in Nat
  BY <1>1, FS_RemoveElement, FS_CardinalityType
<1> QED
  BY <1>1, <1>2 DEF x

LEMMA SumUpToExists ==
  ASSUME NEW S, IsFiniteSet(S), NEW w
  PROVE  \A n \in Nat : \E f : IsSumUpTo(f, w, S, n)
<1> DEFINE A == {n \in Nat : \E f : IsSumUpTo(f, w, S, n)}
<1>0. \A s \in SUBSET S : IsFiniteSet(s)
  BY FS_Subset
<1>1. 0 \in A
  <2> DEFINE f == [s \in UpTo(S, 0) |-> 0]
  <2>1. \A s \in UpTo(S, 0) : s = {}
    BY <1>0, FS_EmptySet, FS_CardinalityType DEF UpTo
  <2>2. IsSumUpTo(f, w, S, 0)
    BY <2>1 DEF IsSumUpTo
  <2> QED
    BY <2>2
<1>2. ASSUME NEW n \in A PROVE n + 1 \in A
  <2>1. PICK f : IsSumUpTo(f, w, S, n)
    OBVIOUS
  <2> DEFINE g == [s \in UpTo(S, n + 1) |->
                     IF s = {} THEN 0
                     ELSE LET x == CHOOSE x \in s : TRUE IN w[x] + f[s \ {x}]]
  <2>2. ASSUME NEW s \in UpTo(S, n) PROVE g[s] = f[s]
    <3>1. s \in UpTo(S, n + 1)
      BY <1>0, FS_CardinalityType DEF UpTo
    <3> QED
      BY <2>1, <3>1 DEF IsSumUpTo
  <2>3. ASSUME NEW s \in UpTo(S, n + 1), s # {}
        PROVE  s \ {CHOOSE x \in s : TRUE} \in UpTo(S, n)
    BY <1>0, <2>3, OneLess DEF UpTo
  <2>4. ASSUME NEW s \in UpTo(S, n + 1), s # {}
        PROVE  g[s \ {CHOOSE x \in s : TRUE}] = f[s \ {CHOOSE x \in s : TRUE}]
    BY <2>2, <2>3, <2>4
  <2>5. ASSUME NEW s \in UpTo(S, n + 1)
        PROVE  g[s] = IF s = {} THEN 0
                      ELSE LET x == CHOOSE x \in s : TRUE IN w[x] + g[s \ {x}]
    <3>1. CASE s = {}
      BY <3>1
    <3>2. CASE s # {}
      <4> DEFINE t == s \ {CHOOSE x \in s : TRUE}
      <4>1. g[t] = f[t]
        BY <2>4, <3>2
      <4>2. g[s] = w[CHOOSE x \in s : TRUE] + f[t]
        BY <3>2
      <4> HIDE DEF g
      <4> QED
        BY <3>2, <4>1, <4>2
    <3> QED
      BY <3>1, <3>2
  <2>6. g = [s \in UpTo(S, n + 1) |-> g[s]]
    OBVIOUS
  <2> HIDE DEF g
  <2>7. IsSumUpTo(g, w, S, n + 1)
    BY <2>5, <2>6 DEF IsSumUpTo
  <2> QED
    BY <2>7
<1>3. A = Nat
  <2> HIDE DEF A
  <2>1. A \in SUBSET Nat
    BY DEF A
  <2> QED
    BY <1>1, <1>2, <2>1, NatInduct
<1> QED
  BY <1>3

\* The function exists ...
LEMMA SumExists ==
  ASSUME NEW S, IsFiniteSet(S), NEW w
  PROVE  \E f : IsSum(f, w, S)
<1>1. Cardinality(S) \in Nat
  BY FS_CardinalityType
<1>2. PICK f : IsSumUpTo(f, w, S, Cardinality(S))
  BY <1>1, SumUpToExists
<1>3. UpTo(S, Cardinality(S)) = SUBSET S
  BY FS_Subset DEF UpTo
<1>4. IsSum(f, w, S)
  BY <1>2, <1>3 DEF IsSum, IsSumUpTo
<1> QED
  BY <1>4

\* ... and says the same of a set whatever set it is part of, and whatever the weights
\* of other elements are.
LEMMA SumUnique ==
  ASSUME NEW S, NEW T, IsFiniteSet(S), NEW w, NEW v, NEW f, NEW g,
         IsSum(f, w, S), IsSum(g, v, T), NEW r, r \subseteq S, r \subseteq T,
         \A x \in r : w[x] = v[x]
  PROVE  f[r] = g[r]
<1> DEFINE A == {n \in Nat : \A s \in SUBSET r : Cardinality(s) = n => f[s] = g[s]}
<1>0. \A s \in SUBSET r : IsFiniteSet(s) /\ s \in SUBSET S /\ s \in SUBSET T
  BY FS_Subset
<1>1. 0 \in A
  <2>1. f[{}] = 0 /\ g[{}] = 0
    BY DEF IsSum
  <2> QED
    BY <1>0, <2>1, FS_EmptySet
<1>2. ASSUME NEW n \in A PROVE n + 1 \in A
  <2> SUFFICES ASSUME NEW s \in SUBSET r, Cardinality(s) = n + 1 PROVE f[s] = g[s]
    OBVIOUS
  <2> DEFINE x == CHOOSE x \in s : TRUE
  <2>0. n \in Nat
    OBVIOUS
  <2>1. s # {}
    <3> HIDE DEF A
    <3> QED
      BY <2>0, FS_EmptySet
  <2>2. x \in s /\ Cardinality(s \ {x}) = n
    BY <1>0, <2>1, OneLess
  <2>3. f[s \ {x}] = g[s \ {x}] /\ w[x] = v[x]
    BY <2>2
  <2>4. f[s] = w[x] + f[s \ {x}]
    BY <1>0, <2>1 DEF IsSum
  <2>5. g[s] = v[x] + g[s \ {x}]
    BY <1>0, <2>1 DEF IsSum
  <2> QED
    BY <2>3, <2>4, <2>5
<1>3. A = Nat
  <2> HIDE DEF A
  <2>1. A \in SUBSET Nat
    BY DEF A
  <2> QED
    BY <1>1, <1>2, <2>1, NatInduct
<1>4. IsFiniteSet(r) /\ Cardinality(r) \in Nat
  BY FS_Subset, FS_CardinalityType
<1> QED
  BY <1>3, <1>4
-----------------------------------------------------------------------------
(* The sum of the weights w of a finite set.                               *)

Sum(w, S) == (CHOOSE h : IsSum(h, w, S))[S]

\* A fold that is written like a sum is the sum.
LEMMA SumOfFold ==
  ASSUME NEW S, IsFiniteSet(S), NEW w, NEW h,
         h = [s \in SUBSET S |-> IF s = {} THEN 0
                                 ELSE LET x == CHOOSE x \in s : TRUE IN w[x] + h[s \ {x}]]
  PROVE  h[S] = Sum(w, S)
<1> DEFINE g == CHOOSE e : IsSum(e, w, S)
<1>1. IsSum(g, w, S)
  BY SumExists
<1>2. Sum(w, S) = g[S]
  BY DEF Sum
<1>3. IsSum(h, w, S)
  BY DEF IsSum
<1> HIDE DEF g
<1>4. h[S] = g[S]
  BY <1>1, <1>3, SumUnique
<1> QED
  BY <1>2, <1>4

\* A sum depends on the weights of the elements alone.
LEMMA SumSame ==
  ASSUME NEW S, IsFiniteSet(S), NEW w, NEW v, \A x \in S : w[x] = v[x]
  PROVE  Sum(w, S) = Sum(v, S)
<1> DEFINE f == CHOOSE h : IsSum(h, w, S)
           g == CHOOSE h : IsSum(h, v, S)
<1>1. IsSum(f, w, S) /\ IsSum(g, v, S)
  BY SumExists
<1>2. Sum(w, S) = f[S] /\ Sum(v, S) = g[S]
  BY DEF Sum
<1> HIDE DEF f, g
<1>3. f[S] = g[S]
  BY <1>1, SumUnique
<1> QED
  BY <1>2, <1>3

\* One element after the other, in the order that CHOOSE picks.
LEMMA SumEquations ==
  ASSUME NEW S, IsFiniteSet(S), NEW w
  PROVE  /\ S = {} => Sum(w, S) = 0
         /\ S # {} => LET x == CHOOSE x \in S : TRUE IN Sum(w, S) = w[x] + Sum(w, S \ {x})
<1> DEFINE F(s) == CHOOSE f : IsSum(f, w, s)
<1>1. \A s \in SUBSET S : IsSum(F(s), w, s)
  BY SumExists, FS_Subset
<1>2. S = {} => Sum(w, S) = 0
  BY <1>1 DEF Sum, IsSum
<1>3. ASSUME S # {}
      PROVE  LET x == CHOOSE x \in S : TRUE IN Sum(w, S) = w[x] + Sum(w, S \ {x})
  <2> DEFINE x == CHOOSE x \in S : TRUE
  <2> DEFINE T == S \ {x}
             f == F(S)
             g == F(T)
  <2>1. IsSum(f, w, S) /\ IsSum(g, w, T)
    BY <1>1
  <2>2. Sum(w, S) = f[S] /\ Sum(w, T) = g[T]
    BY DEF Sum
  <2> HIDE DEF f, g
  <2>3. f[S] = w[x] + f[T]
    BY <1>3, <2>1 DEF IsSum
  <2>4. T \subseteq S
    OBVIOUS
  <2> HIDE DEF T
  <2>5. f[T] = g[T]
    BY <2>1, <2>4, SumUnique
  <2> QED
    BY <2>2, <2>3, <2>5 DEF T
<1> QED
  BY <1>2, <1>3

LEMMA SumType ==
  ASSUME NEW S, IsFiniteSet(S), NEW w, \A x \in S : w[x] \in Int
  PROVE  Sum(w, S) \in Int
<1> DEFINE A == {n \in Nat : \A s \in SUBSET S : Cardinality(s) = n => Sum(w, s) \in Int}
<1>0. \A s \in SUBSET S : IsFiniteSet(s)
  BY FS_Subset
<1>1. 0 \in A
  BY <1>0, SumEquations, FS_EmptySet
<1>2. ASSUME NEW n \in A PROVE n + 1 \in A
  <2> SUFFICES ASSUME NEW s \in SUBSET S, Cardinality(s) = n + 1 PROVE Sum(w, s) \in Int
    OBVIOUS
  <2> DEFINE x == CHOOSE x \in s : TRUE
  <2>1. s # {}
    BY FS_EmptySet
  <2>2. x \in s /\ Cardinality(s \ {x}) = n
    BY <1>0, <2>1, OneLess
  <2>3. Sum(w, s \ {x}) \in Int
    BY <2>2
  <2>4. Sum(w, s) = w[x] + Sum(w, s \ {x})
    BY <1>0, <2>1, SumEquations
  <2> QED
    BY <2>2, <2>3, <2>4
<1>3. A = Nat
  <2> HIDE DEF A
  <2>1. A \in SUBSET Nat
    BY DEF A
  <2> QED
    BY <1>1, <1>2, <2>1, NatInduct
<1> QED
  BY <1>3, FS_CardinalityType

\* Any element may be taken off first.
LEMMA SumRemove ==
  ASSUME NEW S, IsFiniteSet(S), NEW w, \A x \in S : w[x] \in Int, NEW y \in S
  PROVE  Sum(w, S) = w[y] + Sum(w, S \ {y})
<1> DEFINE A == {n \in Nat : \A s \in SUBSET S : Cardinality(s) = n =>
                               \A z \in s : Sum(w, s) = w[z] + Sum(w, s \ {z})}
<1>0. \A s \in SUBSET S : IsFiniteSet(s) /\ Sum(w, s) \in Int
  BY FS_Subset, SumType
<1>1. 0 \in A
  BY <1>0, FS_EmptySet
<1>2. ASSUME NEW n \in A PROVE n + 1 \in A
  <2> SUFFICES ASSUME NEW s \in SUBSET S, Cardinality(s) = n + 1, NEW z \in s
               PROVE  Sum(w, s) = w[z] + Sum(w, s \ {z})
    OBVIOUS
  <2> DEFINE x == CHOOSE x \in s : TRUE
  <2>1. x \in s /\ n \in Nat
    OBVIOUS
  <2>2. x \in s /\ Cardinality(s \ {x}) = n /\ Cardinality(s \ {z}) = n
    <3> HIDE DEF x, A
    <3>1. IsFiniteSet(s)
      BY <1>0
    <3>2. Cardinality(s \ {x}) = (n + 1) - 1 /\ Cardinality(s \ {z}) = (n + 1) - 1
      BY <2>1, <3>1, FS_RemoveElement, ZenonT(40)
    <3> QED
      BY <2>1, <3>2
  <2>3. Sum(w, s) = w[x] + Sum(w, s \ {x})
    BY <1>0, SumEquations
  <2> HIDE DEF x
  <2>4. CASE x = z
    BY <2>3, <2>4
  <2>5. CASE x # z
    <3>1. Sum(w, s \ {x}) = w[z] + Sum(w, (s \ {x}) \ {z})
      BY <2>2, <2>5
    <3>2. Sum(w, s \ {z}) = w[x] + Sum(w, (s \ {z}) \ {x})
      BY <2>2, <2>5
    <3>3. (s \ {x}) \ {z} = (s \ {z}) \ {x}
      OBVIOUS
    <3> DEFINE rest == Sum(w, (s \ {z}) \ {x})
    <3>4. w[x] \in Int /\ w[z] \in Int /\ rest \in Int
      BY <1>0, <2>2
    <3>5. Sum(w, s) = w[x] + (w[z] + rest) /\ Sum(w, s \ {z}) = w[x] + rest
      BY <2>3, <3>1, <3>2, <3>3
    <3> HIDE DEF rest
    <3> QED
      BY <3>4, <3>5
  <2> QED
    BY <2>4, <2>5
<1>3. A = Nat
  <2> HIDE DEF A
  <2>1. A \in SUBSET Nat
    BY DEF A
  <2> QED
    BY <1>1, <1>2, <2>1, NatInduct
<1> QED
  BY <1>3, FS_CardinalityType

\* A sum with one element more.
LEMMA SumAdd ==
  ASSUME NEW S, IsFiniteSet(S), NEW w, NEW y, y \notin S,
         \A x \in S \cup {y} : w[x] \in Int
  PROVE  Sum(w, S \cup {y}) = Sum(w, S) + w[y]
<1>1. IsFiniteSet(S \cup {y})
  BY FS_AddElement
<1>2. Sum(w, S \cup {y}) = w[y] + Sum(w, (S \cup {y}) \ {y})
  BY <1>1, SumRemove
<1>3. (S \cup {y}) \ {y} = S
  OBVIOUS
<1>4. Sum(w, S) \in Int /\ w[y] \in Int
  BY SumType
<1>5. Sum(w, S \cup {y}) = w[y] + Sum(w, S)
  BY <1>2, <1>3
<1> QED
  BY <1>4, <1>5

\* One weight changes.
LEMMA SumPoint ==
  ASSUME NEW S, IsFiniteSet(S), NEW w, NEW v, NEW y \in S,
         \A x \in S : w[x] \in Int, v[y] \in Int, \A x \in S \ {y} : v[x] = w[x]
  PROVE  Sum(w, S) \in Int /\ Sum(v, S) = Sum(w, S) - w[y] + v[y]
<1> DEFINE T == S \ {y}
<1>1. IsFiniteSet(T) /\ y \notin T /\ \A x \in T : w[x] \in Int /\ v[x] = w[x]
  BY FS_Subset
<1>2. \A x \in S : v[x] \in Int
  BY <1>1
<1>3. Sum(w, S) = w[y] + Sum(w, T) /\ Sum(v, S) = v[y] + Sum(v, T)
  BY <1>2, SumRemove
<1> HIDE DEF T
<1>4. Sum(w, T) \in Int /\ Sum(v, T) = Sum(w, T)
  <2>1. Sum(w, T) \in Int
    BY <1>1, SumType
  <2>2. Sum(v, T) = Sum(w, T)
    BY <1>1, SumSame
  <2> QED
    BY <2>1, <2>2
<1>5. w[y] \in Int /\ v[y] \in Int
  OBVIOUS
<1> QED
  BY <1>3, <1>4, <1>5

\* Sums over the places of a sequence: with one place more ...
LEMMA SumNext ==
  ASSUME NEW k \in Nat, NEW w, \A i \in 1 .. k + 1 : w[i] \in Int
  PROVE  Sum(w, 1 .. k + 1) = Sum(w, 1 .. k) + w[k + 1] /\ Sum(w, 1 .. k) \in Int
<1> DEFINE U == 1 .. k
           j == k + 1
<1>1. IsFiniteSet(U)
  BY FS_Interval
<1>2. j \notin U /\ 1 .. j = U \cup {j} /\ \A i \in U \cup {j} : w[i] \in Int
  OBVIOUS
<1> HIDE DEF U, j
<1>3. Sum(w, U \cup {j}) = Sum(w, U) + w[j]
  BY <1>1, <1>2, SumAdd
<1>4. Sum(w, U) \in Int
  BY <1>1, <1>2, SumType
<1> QED
  BY <1>2, <1>3, <1>4 DEF U, j

LEMMA SumNone == ASSUME NEW w PROVE Sum(w, 1 .. 0) = 0
<1>1. 1 .. 0 = {}
  OBVIOUS
<1>2. Sum(w, {}) = 0
  BY FS_EmptySet, SumEquations
<1> QED
  BY <1>1, <1>2

\* ... and without the first.
LEMMA SumShift ==
  ASSUME NEW n \in Nat, NEW w, NEW v,
         \A i \in 1 .. n + 1 : w[i] \in Int, \A i \in 1 .. n : v[i] = w[i + 1]
  PROVE  Sum(w, 1 .. n + 1) = w[1] + Sum(v, 1 .. n)
<1> DEFINE A == {k \in Nat : k <= n => Sum(w, 1 .. k + 1) = w[1] + Sum(v, 1 .. k)}
<1>1. 0 \in A
  <2> DEFINE z == 0
  <2>1. z \in Nat /\ z = 0 /\ w[1] \in Int /\ \A i \in 1 .. z + 1 : w[i] \in Int
    OBVIOUS
  <2> HIDE DEF z
  <2>2. Sum(w, 1 .. z + 1) = Sum(w, 1 .. z) + w[z + 1]
    BY <2>1, SumNext
  <2> QED
    BY <2>1, <2>2, SumNone
<1>2. ASSUME NEW k \in A PROVE k + 1 \in A
  <2> SUFFICES ASSUME k + 1 <= n
               PROVE  Sum(w, 1 .. (k + 1) + 1) = w[1] + Sum(v, 1 .. k + 1)
    OBVIOUS
  <2> DEFINE j == k + 1
  <2>1. k \in Nat /\ j \in Nat /\ j + 1 \in 1 .. n + 1 /\ j \in 1 .. n
    OBVIOUS
  <2>2. Sum(w, 1 .. j) = w[1] + Sum(v, 1 .. k)
    BY <2>1
  <2>3. Sum(v, 1 .. k + 1) = Sum(v, 1 .. k) + v[k + 1] /\ Sum(v, 1 .. k) \in Int
    <3>1. \A i \in 1 .. k + 1 : v[i] \in Int
      BY <2>1
    <3> QED
      BY <2>1, <3>1, SumNext
  <2>4. Sum(w, 1 .. j + 1) = Sum(w, 1 .. j) + w[j + 1]
    <3>1. \A i \in 1 .. j + 1 : w[i] \in Int
      BY <2>1
    <3> HIDE DEF j
    <3> QED
      BY <2>1, <3>1, SumNext
  <2>5. v[j] = w[j + 1] /\ w[j + 1] \in Int /\ w[1] \in Int
    BY <2>1
  <2> QED
    BY <2>2, <2>3, <2>4, <2>5
<1>3. A = Nat
  <2> HIDE DEF A
  <2>1. A \in SUBSET Nat
    BY DEF A
  <2> QED
    BY <1>1, <1>2, <2>1, NatInduct
<1> QED
  BY <1>3
=============================================================================
