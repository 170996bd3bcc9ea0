--------------------------- MODULE OrderBookProofs ---------------------------
(***************************************************************************)
(* Proofs about OrderBook, for every table size, number of levels, and set *)
(* of references, prices and share counts: a book that takes messages      *)
(* shows exactly the depth of its live orders, and it implements           *)
(* OrderBookSpec, in which a message changes the orders in one step.       *)
(***************************************************************************)
EXTENDS OrderBook, FiniteSums, SequenceTheorems

Level == [price : Price, size : Int]

\* A set of orders as the table holds one.
Orders == {S \in SUBSET Order : IsFiniteSet(S)}
-----------------------------------------------------------------------------
(* The shares of a set of orders, as a sum of weights.                     *)

LEMMA SharesAreSum ==
  ASSUME NEW S, IsFiniteSet(S), NEW w, \A o \in S : w[o] = o.shares
  PROVE  SharesOf(S) = Sum(w, S)
<1> DEFINE G(g) == [s \in SUBSET S |-> IF s = {} THEN 0
                      ELSE LET x == CHOOSE x \in s : TRUE IN x.shares + g[s \ {x}]]
           f == CHOOSE g : g = G(g)
           h == CHOOSE g : IsSum(g, w, S)
<1>1. SharesOf(S) = f[S]
  BY DEF SharesOf, MapThenSumSet, MapThenFoldSet
<1>2. Sum(w, S) = h[S]
  BY DEF Sum
<1>3. PICK k : IsSum(k, w, S)
  BY SumExists
<1> HIDE DEF h
<1>4. ASSUME NEW g PROVE IsSum(g, w, S) <=> g = G(g)
  <2>1. G(g) = [s \in SUBSET S |-> IF s = {} THEN 0
                  ELSE LET x == CHOOSE x \in s : TRUE IN w[x] + g[s \ {x}]]
    OBVIOUS
  <2> HIDE DEF G
  <2> QED
    BY ONLY <2>1 DEF IsSum
<1> HIDE DEF G
<1>5. k = G(k)
  BY ONLY <1>3, <1>4
<1>6. f = G(f)
  BY ONLY <1>5 DEF f
<1>7. IsSum(f, w, S)
  BY ONLY <1>4, <1>6
<1>8. IsSum(h, w, S)
  BY ONLY <1>3 DEF h
<1> HIDE DEF f
<1>9. f[S] = h[S]
  BY <1>7, <1>8, SumUnique
<1> QED
  BY <1>1, <1>2, <1>9

LEMMA SharesFacts ==
  ASSUME NEW S \in Orders
  PROVE  /\ SharesOf(S) \in Int
         /\ S = {} => SharesOf(S) = 0
         /\ \A o \in Order \ S : SharesOf(S \cup {o}) = SharesOf(S) + o.shares
<1> DEFINE w == [o \in Order |-> o.shares]
<1>1. \A o \in Order : w[o] \in Int
  BY DEF Order
<1>2. IsFiniteSet(S) /\ S \subseteq Order
  BY DEF Orders
<1>3. SharesOf(S) = Sum(w, S)
  BY <1>2, SharesAreSum
<1>4. ASSUME NEW o \in Order \ S PROVE SharesOf(S \cup {o}) = SharesOf(S) + o.shares
  <2>1. IsFiniteSet(S \cup {o}) /\ S \cup {o} \subseteq Order
    BY <1>2, FS_AddElement
  <2>2. SharesOf(S \cup {o}) = Sum(w, S \cup {o})
    BY <2>1, SharesAreSum
  <2>3. Sum(w, S \cup {o}) = Sum(w, S) + w[o]
    <3> HIDE DEF w
    <3> QED
      BY <1>1, <1>2, <2>1, SumAdd
  <2> QED
    BY <1>3, <2>2, <2>3
<1>5. S = {} => Sum(w, S) = 0
  <2> HIDE DEF w
  <2> QED
    BY <1>2, SumEquations
<1>6. Sum(w, S) \in Int
  <2> HIDE DEF w
  <2> QED
    BY <1>1, <1>2, SumType
<1> QED
  BY <1>3, <1>4, <1>5, <1>6
-----------------------------------------------------------------------------
(* Adding an order to the level cache.                                     *)

LEMMA BetterOrder ==
  ASSUME NEW side \in Side
  PROVE  /\ \A p \in Price : p \in Int /\ ~Better(side, p, p)
         /\ \A p, q \in Price : p = q \/ Better(side, p, q) \/ Better(side, q, p)
         /\ \A p, q, r \in Price : Better(side, p, q) /\ Better(side, q, r) => Better(side, p, r)
BY BookAssumption DEF Better, Side

LEMMA InsertAtFacts ==
  ASSUME NEW s \in Seq(Level), NEW i \in 1 .. Len(s) + 1, NEW e \in Level
  PROVE  /\ InsertAt(s, i, e) \in Seq(Level)
         /\ Len(InsertAt(s, i, e)) = Len(s) + 1
         /\ \A j \in 1 .. Len(s) + 1 :
              InsertAt(s, i, e)[j] = IF j < i THEN s[j] ELSE IF j = i THEN e ELSE s[j - 1]
<1> DEFINE a == SubSeq(s, 1, i - 1)
           c == SubSeq(s, i, Len(s))
<1>1. /\ a \in Seq(Level) /\ Len(a) = i - 1
      /\ \A j \in 1 .. i - 1 : a[j] = s[j]
  BY SubSeqProperties
<1>2. /\ c \in Seq(Level) /\ Len(c) = Len(s) + 1 - i
      /\ \A j \in 1 .. Len(s) + 1 - i : c[j] = s[i + j - 1]
  BY SubSeqProperties
<1>3. InsertAt(s, i, e) = (a \o <<e>>) \o c
  BY DEF InsertAt
<1> HIDE DEF a, c
<1>4. /\ a \o <<e>> \in Seq(Level) /\ Len(a \o <<e>>) = i
      /\ \A j \in 1 .. i : (a \o <<e>>)[j] = IF j < i THEN s[j] ELSE e
  BY <1>1
<1> QED
  BY <1>2, <1>3, <1>4, ConcatProperties, SMTT(30)

LEMMA LevelFacts ==
  ASSUME NEW lv \in Seq(Level)
  PROVE  /\ Len(lv) \in Nat /\ DOMAIN lv = 1 .. Len(lv)
         /\ \A i \in DOMAIN lv : lv[i] \in Level /\ lv[i].price \in Price /\ lv[i].size \in Int
<1>1. Len(lv) \in Nat /\ DOMAIN lv = 1 .. Len(lv) /\ \A i \in DOMAIN lv : lv[i] \in Level
  BY LenProperties, ElementOfSeq
<1> QED
  BY <1>1 DEF Level

\* Where a price that has no level goes: behind the better levels, before the worse.
LEMMA PlaceFacts ==
  ASSUME NEW side \in Side, NEW lv \in Seq(Level), NEW p \in Price,
         \A i \in DOMAIN lv : lv[i].price # p,
         \A i, j \in DOMAIN lv : i < j => Better(side, lv[i].price, lv[j].price)
  PROVE  LET ins == Min({i \in DOMAIN lv : Better(side, p, lv[i].price)} \cup {Len(lv) + 1})
         IN  /\ ins \in 1 .. Len(lv) + 1
             /\ \A i \in 1 .. Len(lv) : IF i < ins THEN Better(side, lv[i].price, p)
                                                   ELSE Better(side, p, lv[i].price)
<1> DEFINE I == {i \in DOMAIN lv : Better(side, p, lv[i].price)} \cup {Len(lv) + 1}
           ins == Min(I)
<1>1. Len(lv) \in Nat /\ DOMAIN lv = 1 .. Len(lv) /\ \A i \in DOMAIN lv : lv[i].price \in Price
  BY LevelFacts
<1>2. I \in SUBSET Nat /\ I # {}
  BY <1>1
<1>3. ins \in I /\ \A i \in I : ins <= i
  <2> HIDE DEF I
  <2> QED
    BY <1>2, MinLeast
<1> HIDE DEF ins
<1>4. ins \in 1 .. Len(lv) + 1
  BY <1>1, <1>3
<1>5. ASSUME NEW i \in 1 .. Len(lv), i < ins PROVE Better(side, lv[i].price, p)
  BY <1>1, <1>3, <1>4, <1>5, BetterOrder
<1>6. ASSUME NEW i \in 1 .. Len(lv), ~(i < ins) PROVE Better(side, p, lv[i].price)
  <2>1. Better(side, p, lv[ins].price) /\ ins \in DOMAIN lv
    BY <1>1, <1>3, <1>4, <1>6
  <2>2. ins = i \/ Better(side, lv[ins].price, lv[i].price)
    BY <1>1, <1>4, <1>6, <2>1
  <2> QED
    BY <1>1, <2>1, <2>2, BetterOrder
<1> QED
  BY <1>4, <1>5, <1>6 DEF ins

\* The orders at a price, before and after one order more.
LEMMA AtPriceType ==
  ASSUME NEW S \in Orders, NEW side, NEW q
  PROVE  AtPrice(S, side, q) \in Orders
<1>1. AtPrice(S, side, q) \in SUBSET S
  BY DEF AtPrice
<1> QED
  BY <1>1, FS_Subset DEF Orders

LEMMA AtPriceAdd ==
  ASSUME NEW S \in Orders, NEW o \in Order, o \notin S, NEW side, NEW q
  PROVE  S \cup {o} \in Orders /\ o \notin AtPrice(S, side, q)
<1>1. S \cup {o} \in Orders
  BY FS_AddElement DEF Orders
<1> QED
  BY <1>1 DEF AtPrice

LEMMA AtItsPrice ==
  ASSUME NEW S \in Orders, NEW o \in Order, o \notin S
  PROVE  AtPrice(S \cup {o}, o.side, o.price) = AtPrice(S, o.side, o.price) \cup {o}
BY DEF AtPrice

LEMMA AtOtherPrice ==
  ASSUME NEW S \in Orders, NEW o \in Order, o \notin S, NEW side, NEW q,
         o.side # side \/ o.price # q
  PROVE  AtPrice(S \cup {o}, side, q) = AtPrice(S, side, q)
BY DEF AtPrice

LEMMA SharesAdd ==
  ASSUME NEW S \in Orders, NEW o \in Order, o \notin S
  PROVE  SharesOf(S \cup {o}) = SharesOf(S) + o.shares
BY SharesFacts

\* An order at the price of a level.
LEMMA InsertMatched ==
  ASSUME NEW side \in Side, NEW lv \in Seq(Level), NEW S \in Orders, NEW o \in Order \ S,
         o.side = side, ShowsSide(lv, S, side), \E i \in DOMAIN lv : lv[i].price = o.price
  PROVE  LET r == side_insert(lv, side, o.price, o.shares)
         IN  r \in Seq(Level) /\ ShowsSide(r, S \cup {o}, side)
<1> DEFINE p == o.price
           r == side_insert(lv, side, p, o.shares)
<1>1. p \in Price /\ o.shares \in Int
  BY DEF Order
<1>2. Len(lv) \in Nat /\ DOMAIN lv = 1 .. Len(lv) /\ \A i \in DOMAIN lv : lv[i] \in Level
  BY LevelFacts
<1>3. r = [i \in DOMAIN lv |-> IF lv[i].price = p THEN [lv[i] EXCEPT !.size = @ + o.shares]
                                                 ELSE lv[i]]
  BY DEF side_insert
<1> HIDE DEF r
<1>4. ASSUME NEW i \in DOMAIN lv
      PROVE  /\ r[i] \in Level /\ r[i].price = lv[i].price
             /\ r[i].size = IF lv[i].price = p THEN lv[i].size + o.shares ELSE lv[i].size
  <2>1. lv[i] \in [price : Price, size : Int] /\ lv[i].size + o.shares \in Int
    BY <1>1, <1>2 DEF Level
  <2>2. CASE lv[i].price = p
    <3>1. r[i] = [lv[i] EXCEPT !.size = @ + o.shares]
      BY <1>3, <2>2
    <3> QED
      BY <2>1, <2>2, <3>1 DEF Level
  <2>3. CASE lv[i].price # p
    BY <1>2, <1>3, <2>3
  <2> QED
    BY <2>2, <2>3
<1>5. r \in Seq(Level) /\ Len(r) = Len(lv) /\ DOMAIN r = DOMAIN lv
  <2>1. r \in [1 .. Len(lv) -> Level]
    BY <1>2, <1>3, <1>4
  <2> QED
    BY <1>2, <2>1
<1>6. ASSUME NEW i \in DOMAIN r
      PROVE  LET there == AtPrice(S \cup {o}, side, r[i].price)
             IN  there # {} /\ r[i].size = SharesOf(there)
  <2> DEFINE q == lv[i].price
             A == AtPrice(S, side, q)
  <2>1. A # {} /\ lv[i].size = SharesOf(A) /\ r[i].price = q
    BY <1>4, <1>5 DEF ShowsSide
  <2>2. A \in Orders /\ o \in Order /\ o \notin A
    BY AtPriceAdd, AtPriceType
  <2>4. CASE o.price = q
    <3>1. SharesOf(A \cup {o}) = SharesOf(A) + o.shares
      BY <2>2, SharesAdd
    <3>2. AtPrice(S \cup {o}, side, r[i].price) = A \cup {o}
      BY <2>1, <2>4, AtItsPrice
    <3>3. r[i].size = SharesOf(A) + o.shares
      BY <1>4, <1>5, <2>1, <2>4 DEF q
    <3> QED
      BY <3>1, <3>2, <3>3
  <2>5. CASE o.price # q
    <3>1. AtPrice(S \cup {o}, side, r[i].price) = A
      BY <2>1, <2>5, AtOtherPrice
    <3>2. r[i].size = SharesOf(A)
      BY <1>4, <1>5, <2>1, <2>5 DEF q
    <3> QED
      BY <2>1, <3>1, <3>2
  <2> QED
    BY <2>4, <2>5
<1>7. Len(r) <= NLEVELS /\ \A i, j \in DOMAIN r : i < j => Better(side, r[i].price, r[j].price)
  BY <1>4, <1>5 DEF ShowsSide
<1>8. ASSUME NEW x \in S \cup {o}, x.side = side
      PROVE  \/ \E i \in DOMAIN r : r[i].price = x.price
             \/ Len(r) = NLEVELS /\ Better(side, r[NLEVELS].price, x.price)
  <2>1. \/ \E i \in DOMAIN lv : lv[i].price = x.price
        \/ Len(lv) = NLEVELS /\ Better(side, lv[NLEVELS].price, x.price)
    BY <1>8 DEF ShowsSide
  <2>2. Len(lv) = NLEVELS => NLEVELS \in DOMAIN lv
    BY <1>2, BookAssumption
  <2> QED
    BY <1>4, <1>5, <2>1, <2>2
<1> QED
  BY <1>5, <1>6, <1>7, <1>8 DEF ShowsSide, r

\* An order at a price that has no level.
LEMMA InsertNew ==
  ASSUME NEW side \in Side, NEW lv \in Seq(Level), NEW S \in Orders, NEW o \in Order \ S,
         o.side = side, ShowsSide(lv, S, side), \A i \in DOMAIN lv : lv[i].price # o.price
  PROVE  LET r == side_insert(lv, side, o.price, o.shares)
         IN  r \in Seq(Level) /\ ShowsSide(r, S \cup {o}, side)
<1> DEFINE p == o.price
           n == Len(lv)
           new == [price |-> p, size |-> o.shares]
           ins == Min({i \in DOMAIN lv : Better(side, p, lv[i].price)} \cup {n + 1})
           all == InsertAt(lv, ins, new)
           len == Min({n + 1, NLEVELS})
           r == SubSeq(all, 1, len)
<1>1. p \in Price /\ o.shares \in Int /\ new \in Level
  BY DEF Order, Level
<1>2. n \in Nat /\ DOMAIN lv = 1 .. n /\ \A i \in DOMAIN lv : lv[i] \in Level /\ lv[i].price \in Price
  BY LevelFacts
<1>3. n <= NLEVELS /\ NLEVELS \in Nat \ {0}
  BY BookAssumption DEF ShowsSide
<1>4. side_insert(lv, side, p, o.shares) = r
  <2>1. Len(all) = n + 1
    <3>1. ins \in 1 .. n + 1
      BY <1>1, PlaceFacts DEF ShowsSide
    <3> HIDE DEF ins
    <3> QED
      BY <1>1, <3>1, InsertAtFacts
  <2> QED
    BY <2>1 DEF side_insert
<1>5. /\ ins \in 1 .. n + 1
      /\ \A i \in 1 .. n : IF i < ins THEN Better(side, lv[i].price, p)
                                     ELSE Better(side, p, lv[i].price)
  BY <1>1, PlaceFacts DEF ShowsSide
<1>6. len = (IF n < NLEVELS THEN n + 1 ELSE NLEVELS) /\ len \in 1 .. n + 1
  BY <1>2, <1>3 DEF Min
<1> HIDE DEF ins, len
<1>7. /\ all \in Seq(Level) /\ Len(all) = n + 1
      /\ \A j \in 1 .. n + 1 :
           all[j] = IF j < ins THEN lv[j] ELSE IF j = ins THEN new ELSE lv[j - 1]
  <2>1. ins \in 1 .. Len(lv) + 1 /\ new \in Level
    BY <1>1, <1>5
  <2>2. all = InsertAt(lv, ins, new)
    OBVIOUS
  <2> HIDE DEF new, p, n, all
  <2>3. all \in Seq(Level) /\ Len(all) = Len(lv) + 1
    BY <2>1, <2>2, InsertAtFacts
  <2>4. \A j \in 1 .. Len(lv) + 1 :
          all[j] = IF j < ins THEN lv[j] ELSE IF j = ins THEN new ELSE lv[j - 1]
    <3>1. SUFFICES ASSUME NEW j \in 1 .. Len(lv) + 1
                   PROVE  all[j] = IF j < ins THEN lv[j] ELSE IF j = ins THEN new ELSE lv[j - 1]
      OBVIOUS
    <3>2. InsertAt(lv, ins, new)[j] = IF j < ins THEN lv[j] ELSE IF j = ins THEN new ELSE lv[j - 1]
      BY <2>1, <3>1, InsertAtFacts
    <3> QED
      BY <2>2, <3>2
  <2> QED
    BY <2>3, <2>4 DEF n
<1> HIDE DEF all
<1>8. r \in Seq(Level) /\ Len(r) = len /\ DOMAIN r = 1 .. len /\ \A j \in 1 .. len : r[j] = all[j]
  <2>1. \A j \in 1 .. len : all[j] \in Level
    BY <1>2, <1>6, <1>7, ElementOfSeq
  <2>2. r \in Seq(Level) /\ Len(r) = len /\ \A j \in 1 .. len : r[j] = all[j]
    BY <1>6, <2>1, SubSeqProperties
  <2> QED
    BY <2>2, LenProperties
<1> HIDE DEF r, new
\* The levels of the result: those in front of the place, the new one, those behind.
<1>9. \A j \in 1 .. len : r[j] = IF j < ins THEN lv[j] ELSE IF j = ins THEN new ELSE lv[j - 1]
  BY <1>6, <1>7, <1>8
<1>10. ASSUME NEW j \in 1 .. len
       PROVE  \/ j < ins /\ j \in 1 .. n /\ r[j] = lv[j] /\ Better(side, lv[j].price, p)
              \/ j = ins /\ r[j] = new
              \/ j > ins /\ j - 1 \in 1 .. n /\ r[j] = lv[j - 1] /\ Better(side, p, lv[j - 1].price)
  <2>1. CASE j < ins
    BY <1>2, <1>5, <1>6, <1>9, <2>1
  <2>2. CASE j = ins
    BY <1>9, <2>2
  <2>3. CASE j > ins
    <3> DEFINE k == j - 1
    <3>1. k \in 1 .. n /\ ~(k < ins) /\ r[j] = lv[k]
      BY <1>2, <1>5, <1>6, <1>9, <2>3
    <3> HIDE DEF k
    <3>2. Better(side, p, lv[k].price)
      BY <1>5, <3>1
    <3> QED
      BY <2>3, <3>1, <3>2 DEF k
  <2> QED
    BY <1>2, <1>5, <1>6, <2>1, <2>2, <2>3
<1>11. \A i, j \in 1 .. n : i < j => Better(side, lv[i].price, lv[j].price)
  BY <1>2 DEF ShowsSide
<1>12. ASSUME NEW i \in 1 .. len, NEW j \in 1 .. len, i < j
       PROVE  Better(side, r[i].price, r[j].price)
  <2>1. new.price = p
    BY DEF new
  <2> DEFINE a == i - 1
             b == j - 1
  <2>2. i \in Int /\ j \in Int /\ ins \in Int /\ (a < b) /\ (i < b \/ i = b)
    BY <1>2, <1>5, <1>6, <1>12
  <2>3. /\ \/ i < ins /\ i \in 1 .. n /\ r[i] = lv[i] /\ Better(side, lv[i].price, p)
           \/ i = ins /\ r[i] = new
           \/ i > ins /\ a \in 1 .. n /\ r[i] = lv[a] /\ Better(side, p, lv[a].price)
        /\ \/ j < ins /\ j \in 1 .. n /\ r[j] = lv[j] /\ Better(side, lv[j].price, p)
           \/ j = ins /\ r[j] = new
           \/ j > ins /\ b \in 1 .. n /\ r[j] = lv[b] /\ Better(side, p, lv[b].price)
    BY <1>10
  <2> HIDE DEF a, b
  <2>4. CASE i < ins /\ r[i] = lv[i] /\ i \in 1 .. n /\ Better(side, lv[i].price, p)
    BY <1>1, <1>2, <1>11, <1>12, <2>1, <2>2, <2>3, <2>4, BetterOrder
  <2>5. CASE i = ins /\ r[i] = new
    BY <1>12, <2>1, <2>2, <2>3, <2>5
  <2>6. CASE i > ins /\ r[i] = lv[a] /\ a \in 1 .. n
    BY <1>11, <1>12, <2>1, <2>2, <2>3, <2>6
  <2> QED
    BY <2>3, <2>4, <2>5, <2>6
\* An order whose price has no level is worse than the last of a full side.
<1>13. ASSUME NEW x \in S, x.side = side
       PROVE  \/ \E i \in 1 .. n : lv[i].price = x.price
              \/ n = NLEVELS /\ Better(side, lv[n].price, x.price) /\ x.price \in Price
  BY <1>2, <1>13 DEF ShowsSide, Orders, Order
<1>14. ins <= len => AtPrice(S, side, p) = {}
  <2> SUFFICES ASSUME ins <= len, NEW x \in S, x.side = side, x.price = p PROVE FALSE
    BY DEF AtPrice
  <2>1. n = NLEVELS /\ Better(side, lv[n].price, p)
    BY <1>2, <1>13
  <2>2. n \in 1 .. n /\ ~(n < ins)
    BY <1>2, <1>3, <1>5, <1>6, <2>1
  <2>3. Better(side, p, lv[n].price)
    BY <1>5, <2>2
  <2> QED
    BY <1>1, <1>2, <2>1, <2>2, <2>3, BetterOrder
<1>15. ASSUME NEW j \in 1 .. len
       PROVE  LET there == AtPrice(S \cup {o}, side, r[j].price)
              IN  there # {} /\ r[j].size = SharesOf(there)
  <2>1. ASSUME NEW k \in 1 .. n, r[j] = lv[k]
        PROVE  LET there == AtPrice(S \cup {o}, side, r[j].price)
               IN  there # {} /\ r[j].size = SharesOf(there)
    <3> DEFINE q == lv[k].price
    <3>1. q # p /\ AtPrice(S, side, q) # {} /\ lv[k].size = SharesOf(AtPrice(S, side, q))
      BY <1>2 DEF ShowsSide
    <3> HIDE DEF q
    <3>2. AtPrice(S \cup {o}, side, q) = AtPrice(S, side, q)
      BY <3>1, AtOtherPrice
    <3> QED
      BY <2>1, <3>1, <3>2 DEF q
  <2>2. CASE j = ins /\ r[j] = new
    <3>1. AtPrice(S, side, p) = {}
      BY <1>14, <1>6, <2>2
    <3>2. AtPrice(S \cup {o}, side, p) = {} \cup {o}
      BY <3>1, AtItsPrice
    <3>3. {} \in Orders /\ SharesOf({} \cup {o}) = o.shares
      <4>1. {} \in Orders
        BY FS_EmptySet DEF Orders
      <4>2. SharesOf({}) = 0 /\ o \in Order \ {} /\ SharesOf({} \cup {o}) = SharesOf({}) + o.shares
        BY <4>1, SharesFacts
      <4> QED
        BY <1>1, <4>1, <4>2
    <3>4. r[j].price = p /\ r[j].size = o.shares
      BY <2>2 DEF new
    <3> HIDE DEF p
    <3> QED
      BY <3>2, <3>3, <3>4
  <2> QED
    BY <1>10, <2>1, <2>2
\* The levels that the cache had are still there, but for the last of a full side.
<1>16. ASSUME NEW i \in 1 .. n
       PROVE  (\E j \in 1 .. len : r[j] = lv[i]) \/ (i = n /\ n = NLEVELS /\ ins <= n)
  <2>0. i \in Int /\ n \in Int /\ len \in Int /\ ins \in Int /\ NLEVELS \in Int /\ 1 <= i /\ i <= n
        /\ ((n < NLEVELS /\ len = n + 1) \/ (n = NLEVELS /\ len = NLEVELS))
    <3>1. n \in Int /\ NLEVELS \in Int /\ n <= NLEVELS
      BY <1>2, <1>3
    <3>2. len \in Int /\ len = (IF n < NLEVELS THEN n + 1 ELSE NLEVELS) /\ ins \in Int
      BY <1>5, <1>6, <3>1
    <3> HIDE DEF n
    <3> QED
      BY <3>1, <3>2
  <2>1. CASE i < ins
    <3>1. i \in 1 .. len
      BY <2>0
    <3> QED
      BY <1>9, <2>1, <3>1
  <2>2. CASE ~(i < ins) /\ i + 1 <= len
    <3> DEFINE j == i + 1
    <3>1. j \in 1 .. len /\ ~(j < ins) /\ j # ins /\ j - 1 = i
      BY <1>2, <1>5, <1>6, <2>2
    <3> HIDE DEF j
    <3> QED
      BY <1>9, <3>1
  <2>3. CASE ~(i < ins) /\ ~(i + 1 <= len)
    BY <2>0, <2>3
  <2> QED
    BY <2>1, <2>2, <2>3
\* On a full side the last level is not worse than the last was.
<1>17. n = NLEVELS => /\ len = NLEVELS /\ NLEVELS \in 1 .. len /\ n \in 1 .. n
                      /\ \/ ins = n + 1 /\ r[NLEVELS] = lv[n]
                         \/ ins <= n /\ Better(side, r[NLEVELS].price, lv[n].price)
                      /\ r[NLEVELS].price \in Price
  <2> SUFFICES ASSUME n = NLEVELS
               PROVE  /\ len = NLEVELS /\ NLEVELS \in 1 .. len /\ n \in 1 .. n
                      /\ \/ ins = n + 1 /\ r[NLEVELS] = lv[n]
                         \/ ins <= n /\ Better(side, r[NLEVELS].price, lv[n].price)
                      /\ r[NLEVELS].price \in Price
    OBVIOUS
  <2>1. len = NLEVELS /\ NLEVELS \in 1 .. len /\ n \in 1 .. n
    BY <1>2, <1>3, <1>6
  <2>2. r[NLEVELS].price \in Price
    BY <1>8, <2>1, LevelFacts
  <2>3. CASE ins = n + 1
    BY <1>9, <2>1, <2>2, <2>3
  <2>4. CASE ins = n
    <3>1. r[NLEVELS].price = p
      BY <1>9, <2>1, <2>4 DEF new
    <3>2. Better(side, p, lv[n].price)
      BY <1>5, <2>1, <2>4
    <3> QED
      BY <2>1, <2>2, <2>4, <3>1, <3>2, <1>2
  <2>5. CASE ins < n
    <3> DEFINE k == n - 1
    <3>1. k \in 1 .. n /\ k < n /\ r[NLEVELS] = lv[k]
      BY <1>2, <1>5, <1>9, <2>1, <2>5
    <3> HIDE DEF k
    <3> QED
      BY <1>2, <1>5, <1>11, <2>1, <2>2, <2>5, <3>1
  <2> QED
    BY <1>2, <1>5, <2>3, <2>4, <2>5
<1>18. ASSUME NEW x \in S \cup {o}, x.side = side
       PROVE  \/ \E i \in 1 .. len : r[i].price = x.price
              \/ len = NLEVELS /\ Better(side, r[NLEVELS].price, x.price)
  <2>1. CASE x = o
    <3>1. CASE ins <= len
      <4>1. ins \in 1 .. len /\ r[ins] = new
        BY <1>5, <1>6, <1>9, <3>1
      <4> QED
        BY <2>1, <4>1 DEF new
    <3>2. CASE ~(ins <= len)
      <4>1. n = NLEVELS /\ ins = n + 1
        BY <1>2, <1>3, <1>5, <1>6, <3>2
      <4>2. r[NLEVELS] = lv[n] /\ n < ins /\ n \in 1 .. n
        BY <1>2, <1>17, <4>1
      <4>3. Better(side, lv[n].price, p)
        BY <1>5, <4>2
      <4> QED
        BY <1>17, <2>1, <4>1, <4>2, <4>3
    <3> QED
      BY <3>1, <3>2
  <2>2. CASE x \in S
    <3>1. CASE \E i \in 1 .. n : lv[i].price = x.price
      <4>1. PICK i \in 1 .. n : lv[i].price = x.price
        BY <3>1
      <4>2. CASE \E j \in 1 .. len : r[j] = lv[i]
        BY <4>1, <4>2
      <4>3. CASE i = n /\ n = NLEVELS /\ ins <= n
        BY <1>2, <1>5, <1>17, <4>1, <4>3
      <4> QED
        BY <1>16, <4>2, <4>3
    <3>2. CASE n = NLEVELS /\ Better(side, lv[n].price, x.price) /\ x.price \in Price
      <4>1. lv[n].price \in Price
        BY <1>2, <1>17, <3>2
      <4> QED
        BY <1>17, <3>2, <4>1, BetterOrder
    <3> QED
      BY <1>13, <1>18, <2>2, <3>1, <3>2
  <2> QED
    BY <2>1, <2>2
<1>19. len <= NLEVELS
  BY <1>2, <1>3, <1>6
<1>20. ShowsSide(r, S \cup {o}, side)
  <2>1. Len(r) = len /\ DOMAIN r = 1 .. len
    BY <1>8
  <2> HIDE DEF p
  <2> QED
    BY <2>1, <1>12, <1>15, <1>18, <1>19 DEF ShowsSide
<1> QED
  BY <1>4, <1>8, <1>20 DEF r

Depth == [Side -> Seq(Level)]

LEMMA InsertShows ==
  ASSUME NEW lvs \in Depth, NEW S \in Orders, NEW o \in Order, o \notin S, Shows(lvs, S)
  PROVE  insert_order(lvs, o) \in Depth /\ Shows(insert_order(lvs, o), S \cup {o})
<1> DEFINE lv == lvs[o.side]
           r == side_insert(lv, o.side, o.price, o.shares)
<1>1. o.side \in Side /\ lv \in Seq(Level) /\ ShowsSide(lv, S, o.side)
  BY DEF Order, Depth, Shows
<1>2. r \in Seq(Level) /\ ShowsSide(r, S \cup {o}, o.side)
  <2> HIDE DEF lv
  <2>1. CASE \E i \in DOMAIN lv : lv[i].price = o.price
    BY <1>1, <2>1, InsertMatched
  <2>2. CASE ~\E i \in DOMAIN lv : lv[i].price = o.price
    BY <1>1, <2>2, InsertNew
  <2> QED
    BY <2>1, <2>2
<1>3. insert_order(lvs, o) = [lvs EXCEPT ![o.side] = r]
  BY DEF insert_order
<1> HIDE DEF r, lv
<1>4. ASSUME NEW s \in Side, s # o.side PROVE ShowsSide(lvs[s], S \cup {o}, s)
  <2>1. ShowsSide(lvs[s], S, s)
    BY DEF Shows
  <2>2. \A q : AtPrice(S \cup {o}, s, q) = AtPrice(S, s, q)
    BY <1>4, AtOtherPrice
  <2> QED
    BY <1>4, <2>1, <2>2 DEF ShowsSide
<1> QED
  BY <1>1, <1>2, <1>3, <1>4 DEF Depth, Shows

\* What the skip of a rebuild relies on: behind the last level of a full side orders come
\* and go unseen.
LEMMA HiddenUnseen ==
  ASSUME NEW lvs \in Depth, NEW S \in Orders, NEW T \in Orders, NEW o \in Order,
         ~aff_displayed(lvs, o), Shows(lvs, S),
         \A x \in S \cup T : (x \in S /\ x \in T) \/ (x.side = o.side /\ x.price = o.price)
  PROVE  Shows(lvs, T)
<1> SUFFICES ASSUME NEW s \in Side PROVE ShowsSide(lvs[s], T, s)
  BY DEF Shows
<1> DEFINE lv == lvs[s]
           n == Len(lv)
<1>1. ShowsSide(lv, S, s) /\ lv \in Seq(Level)
  BY DEF Shows, Depth
<1>2. n \in Nat /\ DOMAIN lv = 1 .. n /\ \A i \in 1 .. n : lv[i].price \in Price
  BY <1>1, LevelFacts
<1>3. s = o.side => n = NLEVELS /\ n \in 1 .. n /\ Better(s, lv[n].price, o.price)
  BY <1>2, BookAssumption DEF aff_displayed
<1>4. o.price \in Price
  BY DEF Order
<1> HIDE DEF lv
<1>5. ASSUME NEW i \in 1 .. n PROVE s # o.side \/ lv[i].price # o.price
  <2> SUFFICES ASSUME s = o.side PROVE lv[i].price # o.price
    OBVIOUS
  <2>1. i = n \/ Better(s, lv[i].price, lv[n].price)
    <3>1. n \in 1 .. n /\ (i = n \/ i < n)
      BY <1>2, <1>3
    <3> HIDE DEF n
    <3> QED
      BY <1>1, <1>2, <3>1 DEF ShowsSide
  <2> QED
    BY <1>2, <1>3, <1>4, <2>1, BetterOrder
<1>6. ASSUME NEW i \in 1 .. n PROVE AtPrice(T, s, lv[i].price) = AtPrice(S, s, lv[i].price)
  BY <1>5 DEF AtPrice
<1>7. ASSUME NEW x \in T, x.side = s
      PROVE  \/ \E i \in 1 .. n : lv[i].price = x.price
             \/ n = NLEVELS /\ Better(s, lv[NLEVELS].price, x.price)
  <2>1. CASE x \in S
    BY <1>1, <1>2, <1>7, <2>1 DEF ShowsSide
  <2>2. CASE x.side = o.side /\ x.price = o.price
    BY <1>3, <1>7, <2>2
  <2> QED
    BY <2>1, <2>2
<1>8. ShowsSide(lv, T, s)
  BY <1>1, <1>2, <1>6, <1>7 DEF ShowsSide
<1> QED
  BY <1>8 DEF lv

\* A level of one depth is not better than the level at its place in another of the
\* same orders, when the levels before it are the same.
LEMMA NotBetter ==
  ASSUME NEW side \in Side, NEW S \in Orders, NEW l \in Seq(Level), NEW k \in Seq(Level),
         ShowsSide(l, S, side), ShowsSide(k, S, side), NEW i \in Nat,
         i + 1 <= Len(l), \A j \in 1 .. i : j <= Len(k) /\ k[j].price = l[j].price
  PROVE  i + 1 <= Len(k) /\ ~Better(side, l[i + 1].price, k[i + 1].price)
<1> DEFINE h == i + 1
           p == l[h].price
<1>0. h \in Nat /\ h >= 1 /\ i < h /\ \A j \in Nat : j < h => j <= i
  OBVIOUS
<1>1. /\ Len(l) \in Nat /\ DOMAIN l = 1 .. Len(l) /\ \A j \in DOMAIN l : l[j].price \in Price
      /\ Len(k) \in Nat /\ DOMAIN k = 1 .. Len(k) /\ \A j \in DOMAIN k : k[j].price \in Price
  BY LevelFacts
<1>2. h \in 1 .. Len(l) /\ h <= Len(l)
  BY <1>0, <1>1
<1>3. NLEVELS \in Nat \ {0} /\ Len(l) <= NLEVELS
  BY BookAssumption DEF ShowsSide
<1> HIDE DEF h
<1>4. p \in Price /\ AtPrice(S, side, p) # {}
  BY <1>1, <1>2 DEF ShowsSide
<1>5. PICK o \in S : o.side = side /\ o.price = p
  BY <1>4 DEF AtPrice
<1>6. \A a, b \in 1 .. Len(k) : a < b => Better(side, k[a].price, k[b].price)
  BY <1>1 DEF ShowsSide
<1>7. \E j \in 1 .. Len(k) : j >= h /\ (k[j].price = p \/ Better(side, k[j].price, p))
  <2>1. CASE \E j \in DOMAIN k : k[j].price = p
    <3>1. PICK j \in 1 .. Len(k) : k[j].price = p
      BY <1>1, <2>1
    <3>2. ASSUME j < h PROVE FALSE
      <4>1. j \in 1 .. i /\ j \in 1 .. Len(l)
        BY <1>0, <1>2, <1>1, <3>2, SMTT(30)
      <4>2. l[j].price = p
        BY <3>1, <4>1
      <4>3. Better(side, l[j].price, l[h].price)
        BY <1>1, <1>2, <3>2, <4>1 DEF ShowsSide
      <4> QED
        BY <1>4, <4>2, <4>3, BetterOrder
    <3> QED
      BY <1>0, <3>1, <3>2
  <2>2. CASE Len(k) = NLEVELS /\ Better(side, k[NLEVELS].price, p)
    BY <1>0, <1>2, <1>3, <2>2
  <2> QED
    BY <1>5, <2>1, <2>2 DEF ShowsSide
<1>8. PICK j \in 1 .. Len(k) : j >= h /\ (k[j].price = p \/ Better(side, k[j].price, p))
  BY <1>7
<1>9. h \in 1 .. Len(k) /\ h <= Len(k)
  BY <1>0, <1>1, <1>8
<1>10. j = h \/ Better(side, k[h].price, k[j].price)
  BY <1>0, <1>1, <1>6, <1>8, <1>9
<1>11. k[h].price \in Price /\ k[j].price \in Price
  BY <1>1, <1>9
<1>12. ~Better(side, p, k[h].price)
  BY <1>4, <1>8, <1>10, <1>11, BetterOrder
<1> QED
  BY <1>9, <1>12 DEF h

\* So the orders determine the depth: to show them is to show one depth alone.
LEMMA DepthOfOrders ==
  ASSUME NEW side \in Side, NEW S \in Orders, NEW l \in Seq(Level), NEW k \in Seq(Level),
         ShowsSide(l, S, side), ShowsSide(k, S, side)
  PROVE  l = k
<1> DEFINE Same(i) == \A j \in 1 .. i : (j <= Len(l) <=> j <= Len(k)) /\
                                       (j <= Len(l) => k[j].price = l[j].price)
           A == {i \in Nat : Same(i)}
<1>0. /\ Len(l) \in Nat /\ DOMAIN l = 1 .. Len(l) /\ \A j \in DOMAIN l : l[j] \in Level
      /\ Len(k) \in Nat /\ DOMAIN k = 1 .. Len(k) /\ \A j \in DOMAIN k : k[j] \in Level
  BY LevelFacts
<1>1. 0 \in A
  OBVIOUS
<1>2. ASSUME NEW i \in A PROVE i + 1 \in A
  <2> DEFINE h == i + 1
  <2>1. i \in Nat /\ Same(i)
    OBVIOUS
  <2>2. ASSUME h <= Len(l)
        PROVE  h <= Len(k) /\ ~Better(side, l[h].price, k[h].price)
    <3>1. \A j \in 1 .. i : j <= Len(k) /\ k[j].price = l[j].price
      BY <1>0, <2>1, <2>2
    <3> QED
      BY <2>1, <2>2, <3>1, NotBetter
  <2>3. ASSUME h <= Len(k)
        PROVE  h <= Len(l) /\ ~Better(side, k[h].price, l[h].price)
    <3>1. \A j \in 1 .. i : j <= Len(l) /\ l[j].price = k[j].price
      BY <1>0, <2>1, <2>3
    <3> QED
      BY <2>1, <2>3, <3>1, NotBetter
  <2>4. h \in Nat /\ \A j \in 1 .. h : j \in 1 .. i \/ j = h
    BY <2>1
  <2> HIDE DEF h
  <2>5. ASSUME h <= Len(l) PROVE k[h].price = l[h].price
    <3>1. h \in DOMAIN l \/ h = 0
      BY <1>0, <2>4, <2>5
    <3>2. h # 0
      BY <2>1 DEF h
    <3>3. l[h].price \in Price /\ k[h].price \in Price
      BY <1>0, <2>2, <2>4, <2>5, <3>1, <3>2, LevelFacts
    <3> QED
      BY <2>2, <2>3, <2>5, <3>3, BetterOrder
  <2>6. Same(h)
    BY <2>1, <2>2, <2>3, <2>4, <2>5
  <2> QED
    BY <2>4, <2>6 DEF h
<1>3. A = Nat
  <2> HIDE DEF A
  <2>1. A \in SUBSET Nat
    BY DEF A
  <2> QED
    BY <1>1, <1>2, <2>1, NatInduct
<1>4. Same(Len(l)) /\ Same(Len(k))
  BY <1>0, <1>3
<1>5. Len(l) = Len(k) /\ \A j \in 1 .. Len(l) : k[j].price = l[j].price
  <2>1. Len(l) <= Len(k)
    BY <1>0, <1>4
  <2>2. Len(k) <= Len(l)
    BY <1>0, <1>4
  <2>3. ASSUME NEW j \in 1 .. Len(l) PROVE k[j].price = l[j].price
    <3>1. j <= Len(l)
      BY <1>0
    <3> QED
      BY <1>4, <3>1
  <2>4. Len(l) = Len(k)
    <3>1. Len(l) \in Int /\ Len(k) \in Int
      BY <1>0
    <3> QED
      BY <2>1, <2>2, <3>1
  <2> QED
    BY <2>3, <2>4
<1>6. ASSUME NEW j \in 1 .. Len(l) PROVE l[j] = k[j]
  <2>1. l[j].price = k[j].price /\ l[j].size = k[j].size
    BY <1>0, <1>5 DEF ShowsSide
  <2> QED
    <3>1. l[j] \in [price : Price, size : Int] /\ k[j] \in [price : Price, size : Int]
      BY <1>0, <1>5 DEF Level
    <3> QED
      BY <2>1, <3>1
<1> QED
  BY <1>0, <1>5, <1>6, SeqEqual
-----------------------------------------------------------------------------
(* The order table.                                                        *)

\* Every order is in the slot of its reference.
Table == {e \in [Entry -> Order \cup {NoOrder}] :
            \A i \in Entry : e[i] # NoOrder => Index(e[i].ref) = i}

LiveIn(e) == {e[i] : i \in Entry} \ {NoOrder}

LEMMA LiveIsOrders == ASSUME NEW e \in Table PROVE LiveIn(e) \in Orders
<1>1. IsFiniteSet(Entry)
  BY FS_Interval, BookAssumption DEF Entry
<1>2. IsFiniteSet({e[i] : i \in Entry})
  <2> DEFINE D == {e[i] : i \in Entry}
             f == [i \in Entry |-> e[i]]
  <2>1. f \in Surjection(Entry, D)
    BY DEF Surjection
  <2>2. IsFiniteSet(D)
    <3> HIDE DEF D, f
    <3> QED
      BY <1>1, <2>1, FS_Surjection
  <2> QED
    BY <2>2
<1>3. IsFiniteSet(LiveIn(e))
  BY <1>2, FS_Subset DEF LiveIn
<1> QED
  BY <1>3 DEF LiveIn, Table, Orders

LEMMA IndexType == \A ref \in Ref : Index(ref) \in Entry
BY BookAssumption DEF Index, Entry

\* Writing a slot replaces the order that it held.
LEMMA TableSet ==
  ASSUME NEW e \in Table, NEW i \in Entry, NEW v \in Order \cup {NoOrder},
         v # NoOrder => Index(v.ref) = i
  PROVE  /\ [e EXCEPT ![i] = v] \in Table
         /\ LiveIn([e EXCEPT ![i] = v]) = (LiveIn(e) \ {e[i]}) \cup ({v} \ {NoOrder})
         /\ v \notin LiveIn(e) \ {e[i]}
<1> DEFINE f == [e EXCEPT ![i] = v]
<1>1. f \in [Entry -> Order \cup {NoOrder}] /\ \A j \in Entry : f[j] = IF j = i THEN v ELSE e[j]
  BY DEF Table
<1> HIDE DEF f
<1>2. f \in Table
  BY <1>1 DEF Table
<1>3. \A j \in Entry : j # i /\ e[j] # NoOrder => e[j] # e[i] /\ e[j] # v
  BY DEF Table
<1>4. LiveIn(f) = (LiveIn(e) \ {e[i]}) \cup ({v} \ {NoOrder})
  BY <1>1, <1>3 DEF LiveIn
<1>5. v \notin LiveIn(e) \ {e[i]}
  BY <1>3 DEF LiveIn
<1> QED
  BY <1>2, <1>4, <1>5 DEF f
-----------------------------------------------------------------------------
(* A message on the table.                                                 *)

LEMMA MessageFields ==
  ASSUME NEW m \in Message
  PROVE  /\ m.type \in {"Add", "Reduce", "Delete", "Replace", "Trade"}
         /\ m.type \in {"Add", "Reduce", "Delete", "Replace"} => m.ref \in Ref
         /\ m.type = "Add" => m.side \in Side /\ m.price \in Price /\ m.shares \in Shares
         /\ m.type = "Reduce" => m.shares \in Shares
         /\ m.type = "Replace" => m.nref \in Ref /\ m.price \in Price /\ m.shares \in Shares
BY DEF Message

Named(orders, ref) == {o \in orders : o.ref = ref}

\* A message names at most the order in its slot.
LEMMA NamedIsTarget ==
  ASSUME NEW e \in Table, NEW ref \in Ref
  PROVE  Named(LiveIn(e), ref) =
           IF e[Index(ref)] # NoOrder /\ e[Index(ref)].ref = ref THEN {e[Index(ref)]} ELSE {}
BY IndexType DEF Table, LiveIn, Named

\* The table after a message about an order that is there.
LEMMA EditedLive ==
  ASSUME NEW b, b.entries \in Table, b.m \in Message, lk_match(b),
         b.m.type \in {"Reduce", "Delete", "Replace"},
         b.m.type = "Replace" => \/ b.entries[Index(b.m.nref)] = NoOrder
                                \/ Index(b.m.nref) = Index(b.m.ref)
  PROVE  edited(b) \in Table /\ LiveIn(edited(b)) = ApplyMsg(LiveIn(b.entries), b.m)
<1> DEFINE e == b.entries
           m == b.m
           i == Index(m.ref)
           o == e[i]
           L == LiveIn(e)
<1>1. m.ref \in Ref /\ i \in Entry
  BY MessageFields, IndexType
<1>2. o \in Order /\ o # NoOrder /\ o.ref = m.ref /\ Index(o.ref) = i /\ o \in L
  BY <1>1 DEF lk_match, target, Table, LiveIn
<1>3. Named(L, m.ref) = {o}
  BY <1>1, <1>2, NamedIsTarget
<1>4. CASE m.type = "Delete"
  <2>1. edited(b) = [e EXCEPT ![i] = NoOrder]
    BY <1>4 DEF edited
  <2>2. edited(b) \in Table /\ LiveIn(edited(b)) = L \ {o}
    BY <1>1, <2>1, TableSet
  <2>3. ApplyMsg(L, m) = L \ {o}
    BY <1>3, <1>4 DEF ApplyMsg, Named
  <2> QED
    BY <2>2, <2>3
<1>5. CASE m.type = "Reduce"
  <2> DEFINE v == IF o.shares > m.shares THEN [o EXCEPT !.shares = @ - m.shares] ELSE NoOrder
  <2>1. edited(b) = [e EXCEPT ![i] = v]
    BY <1>5 DEF edited, target
  <2>a. o.shares > m.shares => v \in Order /\ Index(v.ref) = i
    <3>1. m.shares \in Nat /\ o \in Order
      BY <1>2, <1>5, MessageFields, BookAssumption
    <3>2. o.shares > m.shares => o.shares - m.shares \in Nat \ {0}
      BY <3>1 DEF Order
    <3>3. o.shares > m.shares => v \in Order /\ v.ref = o.ref
      BY <3>1, <3>2 DEF Order
    <3> QED
      BY <1>2, <3>3
  <2>2. v \in Order \cup {NoOrder} /\ (v # NoOrder => Index(v.ref) = i)
    BY <2>a
  <2>3. edited(b) \in Table /\ LiveIn(edited(b)) = (L \ {o}) \cup ({v} \ {NoOrder})
    <3> HIDE DEF v
    <3> QED
      BY <1>1, <2>1, <2>2, TableSet
  <2>4. ApplyMsg(L, m) = (L \ {o}) \cup ({v} \ {NoOrder})
    <3>1. ApplyMsg(L, m) =
            (L \ Named(L, m.ref)) \cup {[x EXCEPT !.shares = @ - m.shares] :
                                         x \in {y \in Named(L, m.ref) : y.shares > m.shares}}
      BY <1>5, SMTT(30) DEF ApplyMsg, Named
    <3>2. CASE o.shares > m.shares
      <4>1. v # NoOrder
        BY <2>a, <3>2, BookAssumption
      <4> QED
        BY <1>3, <3>1, <3>2, <4>1
    <3>3. CASE ~(o.shares > m.shares)
      BY <1>3, <3>1, <3>3
    <3> QED
      BY <3>2, <3>3
  <2> QED
    BY <2>3, <2>4
<1>6. CASE m.type = "Replace"
  <2> DEFINE k == Index(m.nref)
             v == [ref |-> m.nref, side |-> o.side, price |-> m.price, shares |-> m.shares]
             c == [e EXCEPT ![i] = NoOrder]
  <2>1. edited(b) = [c EXCEPT ![k] = v]
    BY <1>6 DEF edited, target
  <2>2. v \in Order /\ v # NoOrder /\ k \in Entry /\ Index(v.ref) = k
    <3>1. v \in Order
      BY <1>2, <1>6, MessageFields, BookAssumption DEF Order
    <3> QED
      BY <1>6, <3>1, MessageFields, IndexType, BookAssumption
  <2>3. c \in Table /\ LiveIn(c) = L \ {o}
    BY <1>1, TableSet
  <2>4. c[k] = NoOrder
    BY <1>1, <1>6, <2>2 DEF Table
  <2>5. ApplyMsg(L, m) = (L \ {o}) \cup {v}
    <3>1. ApplyMsg(L, m) =
            (L \ Named(L, m.ref)) \cup {[ref |-> m.nref, side |-> x.side, price |-> m.price,
                                          shares |-> m.shares] : x \in Named(L, m.ref)}
      BY <1>6 DEF ApplyMsg, Named
    <3> QED
      BY <1>3, <3>1
  <2> HIDE DEF v, c, k
  <2>6. /\ [c EXCEPT ![k] = v] \in Table
        /\ LiveIn([c EXCEPT ![k] = v]) = (LiveIn(c) \ {NoOrder}) \cup ({v} \ {NoOrder})
    BY <2>2, <2>3, <2>4, TableSet
  <2>7. NoOrder \notin LiveIn(c)
    BY DEF LiveIn
  <2>8. LiveIn(c) \ {NoOrder} = L \ {o} /\ {v} \ {NoOrder} = {v}
    <3> HIDE DEF L, o
    <3> QED
      BY ONLY <2>2, <2>3, <2>7
  <2>9. LiveIn(edited(b)) = (L \ {o}) \cup {v}
    BY ONLY <2>1, <2>6, <2>8
  <2>10. edited(b) \in Table
    BY ONLY <2>1, <2>6
  <2> QED
    BY <2>5, <2>9, <2>10
<1> QED
  BY <1>4, <1>5, <1>6

\* A message about an order that is gone changes no order.
LEMMA GoneLive ==
  ASSUME NEW b, b.entries \in Table, b.m \in Message, ~lk_match(b),
         b.m.type \in {"Reduce", "Delete", "Replace"}
  PROVE  ApplyMsg(LiveIn(b.entries), b.m) = LiveIn(b.entries)
<1> DEFINE L == LiveIn(b.entries)
<1>1. Named(L, b.m.ref) = {}
  BY MessageFields, NamedIsTarget DEF lk_match, target
<1> QED
  BY <1>1 DEF ApplyMsg, Named
-----------------------------------------------------------------------------
(* The invariant.  A book that rebuilds its cache has put into the new one *)
(* the orders of the slots it has passed; in the other states the cache is *)
(* the depth of the table, also while a message about an order waits.      *)

BookType ==
  [entries : Table, levels : Depth, state : {"IDLE", "LOOKUP", "RESCAN"},
   m : Message \cup {NoMsg}, scan_addr : 0 .. ORDER_DEPTH + 1, scan : Depth]

\* The orders of the slots below a.
Passed(e, a) == {e[j] : j \in {k \in Entry : k < a}} \ {NoOrder}

WaitInv(b) ==
  b.state = "LOOKUP" =>
    /\ b.m \in Message /\ b.m.type \in {"Reduce", "Delete", "Replace"}
    /\ b.m.type = "Replace" => \/ b.entries[Index(b.m.nref)] = NoOrder
                               \/ Index(b.m.nref) = Index(b.m.ref)

ScanInv(b) ==
  IF b.state = "RESCAN" THEN Shows(b.scan, Passed(b.entries, b.scan_addr - 1))
                        ELSE b.scan_addr = 0 /\ b.scan = no_levels

DepthInv(b) == b.state # "RESCAN" => Shows(b.levels, LiveIn(b.entries))

BookInv(b) == b \in BookType /\ WaitInv(b) /\ ScanInv(b) /\ DepthInv(b)

LEMMA EmptyShows == no_levels \in Depth /\ Shows(no_levels, {})
<1>1. \A side \in Side : no_levels[side] = <<>>
  BY DEF no_levels
<1>2. no_levels \in Depth
  BY <1>1 DEF no_levels, Depth
<1>3. ASSUME NEW side \in Side PROVE ShowsSide(<<>>, {}, side)
  BY BookAssumption DEF ShowsSide
<1> QED
  BY <1>1, <1>2, <1>3 DEF Shows

LEMMA LiveIsLive == \A b : live(b) = LiveIn(b.entries)
BY DEF live, LiveIn

LEMMA EmptyBook == BookInv(InitBook) /\ live(InitBook) = {} /\ Shows(InitBook.levels, {})
<1>1. InitBook.entries \in Table /\ LiveIn(InitBook.entries) = {}
  BY DEF InitBook, Table, LiveIn
<1>2. InitBook \in BookType
  BY <1>1, EmptyShows, BookAssumption DEF InitBook, BookType
<1> QED
  BY <1>1, <1>2, EmptyShows, LiveIsLive DEF InitBook, BookInv, WaitInv, ScanInv, DepthInv

\* An idle book.
LEMMA IdleStep ==
  ASSUME NEW b, BookInv(b), b.state = "IDLE", NEW msg \in Message, Legal(b, msg)
  PROVE  LET c == IdleEdge(b, msg)
         IN  /\ BookInv(c)
             /\ \/ c = b
                \/ /\ c.state = "IDLE" /\ msg.type = "Add"
                   /\ live(c) = ApplyMsg(live(b), msg) /\ Shows(c.levels, live(c))
                \/ /\ c.state = "LOOKUP" /\ c.m = msg
                   /\ c.levels = b.levels /\ c.entries = b.entries
<1> DEFINE c == IdleEdge(b, msg)
           L == LiveIn(b.entries)
<1>0. b \in BookType /\ Shows(b.levels, L) /\ b.scan_addr = 0 /\ b.scan = no_levels
  BY DEF BookInv, DepthInv, ScanInv
<1>1. msg # NoMsg
  BY BookAssumption
<1>2. CASE msg.type = "Add"
  <2> DEFINE o == [ref |-> msg.ref, side |-> msg.side, price |-> msg.price, shares |-> msg.shares]
             i == Index(msg.ref)
  <2>1. o \in Order /\ o # NoOrder /\ i \in Entry /\ Index(o.ref) = i
    <3>1. o \in Order
      BY <1>2, MessageFields, BookAssumption DEF Order
    <3> QED
      BY <1>2, <3>1, MessageFields, IndexType, BookAssumption
  <2>2. b.entries \in Table /\ b.entries[i] = NoOrder
    BY <1>0, <1>2 DEF BookType, Legal, Free
  <2>3. c = [b EXCEPT !.entries[i] = o, !.levels = insert_order(@, o)]
    BY <1>1, <1>2 DEF IdleEdge
  <2>4. ApplyMsg(L, msg) = L \cup {o}
    BY <1>2 DEF ApplyMsg
  <2> HIDE DEF o, i
  <2>5. /\ c.entries = [b.entries EXCEPT ![i] = o] /\ c.levels = insert_order(b.levels, o)
        /\ c.state = "IDLE" /\ c.m = b.m /\ c.scan_addr = b.scan_addr /\ c.scan = b.scan
    BY <1>0, <2>3 DEF BookType
  <2>6. c.entries \in Table /\ LiveIn(c.entries) = L \cup {o} /\ o \notin L
    <3>1. /\ c.entries \in Table
          /\ LiveIn(c.entries) = (L \ {NoOrder}) \cup ({o} \ {NoOrder})
          /\ o \notin L \ {NoOrder}
      BY <2>1, <2>2, <2>5, TableSet
    <3>2. NoOrder \notin L
      BY DEF LiveIn
    <3> QED
      BY <2>1, <3>1, <3>2
  <2>7. c.levels \in Depth /\ Shows(c.levels, L \cup {o})
    <3>1. L \in Orders /\ b.levels \in Depth
      BY <1>0, <2>2, LiveIsOrders DEF BookType
    <3> HIDE DEF c, L
    <3> QED
      BY <1>0, <2>1, <2>5, <2>6, <3>1, InsertShows
  <2>8. c \in BookType
    <3>1. c = [entries |-> c.entries, levels |-> c.levels, state |-> c.state, m |-> c.m,
               scan_addr |-> c.scan_addr, scan |-> c.scan]
      BY <1>0, <2>3 DEF BookType
    <3> HIDE DEF c
    <3> QED
      BY <1>0, <2>5, <2>6, <2>7, <3>1 DEF BookType
  <2> HIDE DEF c
  <2>9. BookInv(c)
    BY <1>0, <2>5, <2>6, <2>7, <2>8 DEF BookInv, WaitInv, ScanInv, DepthInv
  <2> QED
    BY <1>2, <2>4, <2>5, <2>6, <2>7, <2>9, LiveIsLive DEF c
<1>3. CASE msg.type \in {"Reduce", "Delete", "Replace"}
  <2>1. c = [b EXCEPT !.state = "LOOKUP", !.m = msg]
    BY <1>1, <1>3 DEF IdleEdge
  <2>2. /\ c.entries = b.entries /\ c.levels = b.levels /\ c.state = "LOOKUP" /\ c.m = msg
        /\ c.scan_addr = b.scan_addr /\ c.scan = b.scan
    BY <1>0, <2>1 DEF BookType
  <2>3. c \in BookType
    BY <1>0, <2>1 DEF BookType
  <2>4. WaitInv(c)
    BY <1>3, <2>2 DEF WaitInv, Legal, Free
  <2> HIDE DEF c
  <2>5. BookInv(c)
    BY <1>0, <2>2, <2>3, <2>4 DEF BookInv, ScanInv, DepthInv
  <2> QED
    BY <2>2, <2>5 DEF c
<1>4. CASE msg.type = "Trade"
  BY <1>1, <1>4 DEF IdleEdge
<1> QED
  BY <1>2, <1>3, <1>4, MessageFields

\* The orders of a book, as they are after the message it has looked up.
LEMMA OrdersOf ==
  ASSUME NEW b, BookInv(b)
  PROVE  orders_of(b) = IF b.state = "LOOKUP" THEN ApplyMsg(live(b), b.m) ELSE live(b)
<1>0. b \in BookType /\ b.entries \in Table
  BY DEF BookInv, BookType
<1>1. CASE b.state = "LOOKUP" /\ lk_match(b)
  <2> DEFINE c == [b EXCEPT !.entries = edited(b)]
  <2>1. orders_of(b) = LiveIn(c.entries)
    BY <1>1, LiveIsLive DEF orders_of
  <2>2. c.entries = edited(b)
    BY <1>0 DEF BookType
  <2>3. LiveIn(edited(b)) = ApplyMsg(LiveIn(b.entries), b.m)
    BY <1>0, <1>1, EditedLive DEF BookInv, WaitInv
  <2> QED
    BY <1>1, <2>1, <2>2, <2>3, LiveIsLive
<1>2. CASE b.state = "LOOKUP" /\ ~lk_match(b)
  <2>1. ApplyMsg(LiveIn(b.entries), b.m) = LiveIn(b.entries)
    BY <1>0, <1>2, GoneLive DEF BookInv, WaitInv
  <2> QED
    BY <1>2, <2>1, LiveIsLive DEF orders_of
<1>3. CASE b.state # "LOOKUP"
  BY <1>3 DEF orders_of
<1> QED
  BY <1>1, <1>2, <1>3

\* The message is applied; a rebuild that is skipped would have shown nothing new.
LEMMA LookupStep ==
  ASSUME NEW b, BookInv(b), b.state = "LOOKUP"
  PROVE  LET c == LookupEdge(b)
         IN  /\ BookInv(c) /\ c.state \in {"IDLE", "RESCAN"}
             /\ live(c) = orders_of(b) /\ c.levels = b.levels
<1> DEFINE c == LookupEdge(b)
           rescan == lk_match(b) /\ (b.m.type = "Replace" \/ aff_displayed(b.levels, target(b)))
<1>0. /\ b \in BookType /\ b.entries \in Table /\ b.levels \in Depth
      /\ b.m \in Message /\ b.m.type \in {"Reduce", "Delete", "Replace"}
      /\ Shows(b.levels, LiveIn(b.entries)) /\ b.scan_addr = 0 /\ b.scan = no_levels
  BY DEF BookInv, BookType, DepthInv, ScanInv, WaitInv
<1>1. c = [b EXCEPT !.entries = IF lk_match(b) THEN edited(b) ELSE @,
                    !.state = IF rescan THEN "RESCAN" ELSE "IDLE", !.m = NoMsg]
  BY DEF LookupEdge
<1> HIDE DEF rescan
<1>2. /\ c.entries = (IF lk_match(b) THEN edited(b) ELSE b.entries)
      /\ c.state = (IF rescan THEN "RESCAN" ELSE "IDLE") /\ c.m = NoMsg
      /\ c.levels = b.levels /\ c.scan_addr = 0 /\ c.scan = no_levels
  BY <1>0, <1>1 DEF BookType
<1>3. c.entries \in Table
  BY <1>0, <1>2, EditedLive DEF BookInv, WaitInv
<1>4. c \in BookType
  BY <1>0, <1>1, <1>3 DEF BookType
<1>5. live(c) = orders_of(b)
  BY <1>2, <1>0, LiveIsLive DEF orders_of, BookType
<1> HIDE DEF c
<1>6. ScanInv(c)
  <2>1. CASE rescan
    <3>1. Passed(c.entries, 0 - 1) = {}
      BY DEF Passed, Entry
    <3> QED
      BY <1>2, <2>1, <3>1, EmptyShows DEF ScanInv
  <2>2. CASE ~rescan
    BY <1>2, <2>2 DEF ScanInv
  <2> QED
    BY <2>1, <2>2
<1>7. ASSUME ~rescan PROVE Shows(b.levels, LiveIn(c.entries))
  <2>1. CASE ~lk_match(b)
    BY <1>0, <1>2, <2>1
  <2>2. CASE lk_match(b)
    <3> DEFINE o == target(b)
               L == LiveIn(b.entries)
               M == LiveIn(c.entries)
    <3>1. b.m.type \in {"Reduce", "Delete"} /\ ~aff_displayed(b.levels, o)
      BY <1>0, <1>7, <2>2 DEF rescan
    <3>2. o \in Order /\ L \in Orders /\ M \in Orders /\ o.ref = b.m.ref
      <4>1. b.m.ref \in Ref /\ Index(b.m.ref) \in Entry
        BY <1>0, MessageFields, IndexType
      <4> QED
        BY <1>0, <1>3, <2>2, <4>1, LiveIsOrders DEF lk_match, target, Table
    <3>3. M = ApplyMsg(L, b.m)
      BY <1>0, <1>2, <2>2, EditedLive DEF BookInv, WaitInv
    <3>4. Named(L, b.m.ref) = {o}
      BY <1>0, <2>2, MessageFields, NamedIsTarget DEF lk_match, target
    <3> HIDE DEF o, L, M
    <3>5. \A x \in L \cup M : (x \in L /\ x \in M) \/ (x.side = o.side /\ x.price = o.price)
      <4>1. CASE b.m.type = "Delete"
        <5>1. M = L \ {o}
          BY <3>3, <3>4, <4>1 DEF ApplyMsg, Named
        <5> QED
          BY <5>1
      <4>2. CASE b.m.type = "Reduce"
        <5> DEFINE v == [o EXCEPT !.shares = @ - b.m.shares]
        <5>1. M = (L \ Named(L, b.m.ref)) \cup {[x EXCEPT !.shares = @ - b.m.shares] :
                      x \in {y \in Named(L, b.m.ref) : y.shares > b.m.shares}}
          BY <3>3, <4>2 DEF ApplyMsg, Named
        <5>2. M = L \ {o} \/ M = (L \ {o}) \cup {v}
          BY <3>4, <5>1
        <5>3. v.side = o.side /\ v.price = o.price
          BY <3>2 DEF Order
        <5> HIDE DEF v
        <5> QED
          BY <5>2, <5>3
      <4> QED
        BY <3>1, <4>1, <4>2
    <3> QED
      BY <1>0, <3>1, <3>2, <3>5, HiddenUnseen DEF L, M
  <2> QED
    BY <2>1, <2>2
<1>8. DepthInv(c)
  BY <1>2, <1>7 DEF DepthInv
<1>9. WaitInv(c)
  BY <1>2 DEF WaitInv
<1> QED
  BY <1>2, <1>4, <1>5, <1>6, <1>8, <1>9 DEF BookInv, c

\* One slot of the rebuild, or its end.
LEMMA RescanStep ==
  ASSUME NEW b, BookInv(b), b.state = "RESCAN"
  PROVE  LET c == RescanEdge(b)
         IN  /\ BookInv(c) /\ live(c) = live(b)
             /\ \/ c.state = "RESCAN" /\ c.levels = b.levels
                \/ c.state = "IDLE"
<1> DEFINE c == RescanEdge(b)
           e == b.entries
           a == b.scan_addr
<1>0. /\ b \in BookType /\ e \in Table /\ b.levels \in Depth /\ b.scan \in Depth
      /\ a \in 0 .. ORDER_DEPTH + 1 /\ Shows(b.scan, Passed(e, a - 1))
  BY DEF BookInv, BookType, ScanInv
<1>1. CASE a < last_scan
  <2> DEFINE o == e[a - 1]
             new == IF a > 0 /\ o # NoOrder THEN insert_order(b.scan, o) ELSE b.scan
  <2>1. c = [b EXCEPT !.scan = new, !.scan_addr = a + 1]
    BY <1>0, <1>1 DEF RescanEdge, BookType
  <2>2. a + 1 \in 0 .. ORDER_DEPTH + 1 /\ (a + 1) - 1 = a
    BY <1>0, <1>1, BookAssumption DEF last_scan
  <2>3. new \in Depth /\ Shows(new, Passed(e, a))
    <3>1. CASE a = 0
      <4>1. Passed(e, a) = Passed(e, a - 1) /\ new = b.scan
        BY <3>1 DEF Passed, Entry
      <4> QED
        BY <1>0, <4>1
    <3>2. CASE a > 0
      <4> DEFINE P == Passed(e, a - 1)
      <4>1. a - 1 \in Entry /\ \A k \in Entry : k < a <=> k < a - 1 \/ k = a - 1
        BY <1>0, <1>1, <3>2, BookAssumption DEF Entry, last_scan
      <4>2. CASE o = NoOrder
        <5>1. Passed(e, a) = P
          BY <4>1, <4>2 DEF Passed
        <5> QED
          BY <1>0, <4>2, <5>1
      <4>3. CASE o # NoOrder
        <5>1. o \in Order /\ o \notin P /\ Passed(e, a) = P \cup {o}
          <6>1. o \in Order /\ Index(o.ref) = a - 1
            BY <1>0, <4>1, <4>3 DEF Table
          <6>2. \A k \in Entry : k < a - 1 => e[k] # o
            BY <1>0, <4>3, <6>1 DEF Table, Entry
          <6> HIDE DEF o
          <6>3. o \notin P
            BY <6>2 DEF Passed
          <6>4. Passed(e, a) = P \cup {o}
            BY <4>1, <4>3 DEF Passed, o
          <6> QED
            BY <6>1, <6>3, <6>4
        <5>2. P \in Orders
          <6>1. P \subseteq LiveIn(e) /\ LiveIn(e) \in Orders
            BY <1>0, LiveIsOrders DEF Passed, LiveIn
          <6> QED
            BY <6>1, FS_Subset DEF Orders
        <5>3. new = insert_order(b.scan, o)
          BY <3>2, <4>3
        <5> HIDE DEF P, o, new
        <5> QED
          BY <1>0, <5>1, <5>2, <5>3, InsertShows DEF P
      <4> QED
        BY <4>2, <4>3
    <3> QED
      BY <1>0, <3>1, <3>2
  <2> HIDE DEF new
  <2>4. /\ c.entries = e /\ c.levels = b.levels /\ c.state = "RESCAN"
        /\ c.scan_addr = a + 1 /\ c.scan = new
    BY <1>0, <2>1 DEF BookType
  <2>5. c \in BookType
    BY <1>0, <2>1, <2>2, <2>3 DEF BookType
  <2> HIDE DEF c
  <2>6. BookInv(c)
    BY <2>2, <2>3, <2>4, <2>5 DEF BookInv, WaitInv, ScanInv, DepthInv
  <2> QED
    BY <2>4, <2>6, LiveIsLive DEF c
<1>2. CASE ~(a < last_scan)
  <2>1. /\ c = [b EXCEPT !.levels = b.scan, !.state = "IDLE", !.scan_addr = 0, !.scan = no_levels]
    BY <1>2 DEF RescanEdge, after_scan
  <2>2. /\ c.entries = e /\ c.levels = b.scan /\ c.state = "IDLE"
        /\ c.scan_addr = 0 /\ c.scan = no_levels
    BY <1>0, <2>1 DEF BookType
  <2>3. c \in BookType
    <3>1. 0 \in 0 .. ORDER_DEPTH + 1
      BY BookAssumption
    <3> QED
      BY <1>0, <2>1, <3>1, EmptyShows DEF BookType
  <2>4. Passed(e, a - 1) = LiveIn(e)
    <3>1. \A k \in Entry : k < a - 1
      BY <1>0, <1>2, BookAssumption DEF Entry, last_scan
    <3> QED
      BY <3>1 DEF Passed, LiveIn
  <2> HIDE DEF c
  <2>5. BookInv(c)
    BY <1>0, <2>2, <2>3, <2>4 DEF BookInv, WaitInv, ScanInv, DepthInv
  <2> QED
    BY <2>2, <2>5, LiveIsLive DEF c
<1> QED
  BY <1>1, <1>2
-----------------------------------------------------------------------------
Inv == BookInv(book)

LEMMA BookInit == Init => Inv
BY EmptyBook DEF Init, Inv

LEMMA BookStep == Inv /\ [Next]_book => Inv'
<1> SUFFICES ASSUME BookInv(book), [Next]_book PROVE BookInv(book')
  BY DEF Inv
<1>0. book.state \in {"IDLE", "LOOKUP", "RESCAN"}
  BY DEF BookInv, BookType
<1>1. ASSUME NEW msg \in Message, Accept(msg) PROVE BookInv(book')
  <2>1. book.state = "IDLE" /\ Legal(book, msg) /\ book' = IdleEdge(book, msg)
    BY <1>1 DEF Accept, msg_ready, BookEdge
  <2> QED
    BY <2>1, IdleStep
<1>2. CASE Work
  <2>1. \/ book.state = "LOOKUP" /\ book' = LookupEdge(book)
        \/ book.state = "RESCAN" /\ book' = RescanEdge(book)
    BY <1>0, <1>2 DEF Work, msg_ready, BookEdge
  <2> QED
    BY <2>1, LookupStep, RescanStep
<1>3. CASE Reset
  BY <1>3, EmptyBook DEF Reset
<1>4. CASE UNCHANGED book
  BY <1>4
<1> QED
  BY <1>1, <1>2, <1>3, <1>4 DEF Next

\* Whatever the table size, the number of levels and the messages of a legal feed, a book
\* that takes messages shows exactly the best levels of its live orders: insertion order
\* by order, levels that fall off, and the rebuild that is skipped when the order was not
\* displayed come to the same.
THEOREM DepthIsExact == Spec => []BookExact
<1>1. Inv => BookExact
  BY LiveIsLive DEF Inv, BookInv, DepthInv, BookExact, msg_ready
<1> QED
  BY <1>1, BookInit, BookStep, PTL DEF Spec
-----------------------------------------------------------------------------
(* Proof of ImplementsBook.                                                *)

LEMMA AbstractInit == Init => Abstract!Init
<1> SUFFICES ASSUME Init PROVE Abstract!Init
  OBVIOUS
<1>1. book = InitBook /\ book.state = "IDLE"
  BY DEF Init, InitBook
<1>2. orders_of(book) = {} /\ Shows(book.levels, {})
  BY <1>1, EmptyBook DEF orders_of
<1> QED
  BY <1>1, <1>2 DEF Abstract!Init, msg_ready

LEMMA AbstractStep == Inv /\ [Next]_book => [Abstract!Next]_Abstract!vars
<1> SUFFICES ASSUME BookInv(book), [Next]_book PROVE [Abstract!Next]_Abstract!vars
  BY DEF Inv
<1>0. book.state \in {"IDLE", "LOOKUP", "RESCAN"} /\ BookInv(book')
  BY BookStep DEF Inv, BookInv, BookType
<1>1. ASSUME NEW msg \in Message, Accept(msg) PROVE [Abstract!Next]_Abstract!vars
  <2>1. book.state = "IDLE" /\ Legal(book, msg) /\ book' = IdleEdge(book, msg)
    BY <1>1 DEF Accept, msg_ready, BookEdge
  <2>2. orders_of(book) = live(book)
    BY <2>1, OrdersOf
  <2>3. CASE book' = book
    BY <2>3 DEF Abstract!vars, msg_ready, orders_of
  <2>4. CASE /\ book'.state = "IDLE" /\ live(book') = ApplyMsg(live(book), msg)
             /\ Shows(book'.levels, live(book'))
    <3>1. orders_of(book') = live(book')
      BY <1>0, <2>4, OrdersOf
    <3>2. Abstract!Fast(msg)
      BY <2>1, <2>2, <2>4, <3>1 DEF Abstract!Fast, msg_ready
    <3> QED
      BY <3>2 DEF Abstract!Next
  <2>5. CASE /\ book'.state = "LOOKUP" /\ book'.m = msg
             /\ book'.levels = book.levels /\ book'.entries = book.entries
    <3>1. live(book') = live(book)
      BY <2>5, LiveIsLive
    <3>2. orders_of(book') = ApplyMsg(live(book), msg)
      BY <1>0, <2>5, <3>1, OrdersOf
    <3>3. Abstract!Take(msg)
      BY <2>1, <2>2, <2>5, <3>2 DEF Abstract!Take, msg_ready
    <3> QED
      BY <3>3 DEF Abstract!Next
  <2> QED
    BY <2>1, <2>3, <2>4, <2>5, IdleStep
<1>2. CASE Work /\ book.state = "LOOKUP"
  <2>1. book' = LookupEdge(book)
    BY <1>2 DEF Work, BookEdge
  <2>2. /\ book'.state \in {"IDLE", "RESCAN"} /\ live(book') = orders_of(book)
        /\ book'.levels = book.levels
    BY <1>2, <2>1, LookupStep
  <2>3. orders_of(book') = orders_of(book)
    BY <1>0, <2>2, OrdersOf
  <2>4. CASE book'.state = "RESCAN"
    BY <1>2, <2>2, <2>3, <2>4 DEF Abstract!vars, msg_ready
  <2>5. CASE book'.state = "IDLE"
    <3>1. Shows(book'.levels, orders_of(book))
      BY <1>0, <2>2, <2>5, LiveIsLive DEF BookInv, DepthInv
    <3>2. Abstract!Show
      BY <1>2, <2>3, <2>5, <3>1 DEF Abstract!Show, msg_ready
    <3> QED
      BY <3>2 DEF Abstract!Next
  <2> QED
    BY <2>2, <2>4, <2>5
<1>3. CASE Work /\ book.state = "RESCAN"
  <2>1. book' = RescanEdge(book)
    BY <1>3 DEF Work, BookEdge
  <2>2. /\ live(book') = live(book)
        /\ (book'.state = "RESCAN" /\ book'.levels = book.levels) \/ book'.state = "IDLE"
    BY <1>3, <2>1, RescanStep
  <2>3. orders_of(book) = live(book) /\ orders_of(book') = live(book)
    BY <1>0, <1>3, <2>2, OrdersOf
  <2>4. CASE book'.state = "RESCAN" /\ book'.levels = book.levels
    BY <1>3, <2>3, <2>4 DEF Abstract!vars, msg_ready
  <2>5. CASE book'.state = "IDLE"
    <3>1. Shows(book'.levels, orders_of(book))
      BY <1>0, <2>2, <2>3, <2>5, LiveIsLive DEF BookInv, DepthInv
    <3>2. Abstract!Show
      BY <1>3, <2>3, <2>5, <3>1 DEF Abstract!Show, msg_ready
    <3> QED
      BY <3>2 DEF Abstract!Next
  <2> QED
    BY <2>2, <2>4, <2>5
<1>4. CASE Reset
  <2>1. book' = InitBook /\ book'.state = "IDLE"
    BY <1>4 DEF Reset, InitBook
  <2>2. orders_of(book') = {} /\ Shows(book'.levels, {})
    BY <2>1, EmptyBook DEF orders_of
  <2>3. Abstract!Reset
    BY <2>1, <2>2 DEF Abstract!Reset, msg_ready
  <2> QED
    BY <2>3 DEF Abstract!Next
<1>5. CASE UNCHANGED book
  BY <1>5 DEF Abstract!vars, msg_ready, orders_of
<1>6. Work => book.state # "IDLE"
  BY DEF Work, msg_ready
<1> QED
  BY <1>0, <1>1, <1>2, <1>3, <1>4, <1>5, <1>6 DEF Next

\* The book implements OrderBookSpec: each message changes the set of live orders in one
\* step, and while the book works on one it shows the depth that it had before.
THEOREM BookImplements == Spec => ImplementsBook
<1> QED
  BY BookInit, BookStep, AbstractInit, AbstractStep, PTL DEF Spec, ImplementsBook, Abstract!Spec
=============================================================================
