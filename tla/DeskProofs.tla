----------------------------- MODULE DeskProofs -----------------------------
(***************************************************************************)
(* Proofs about Desk, for any symbols, quotes, limits and lots: the        *)
(* exposure cap, what the six runs of live_feed still trade after the kill *)
(* switch, and what the pages show of the losses.  At the end those about  *)
(* Monitor, for any strategies, limits and number of feeds: no order       *)
(* leaves for a broker but on a live feed's quote, or on one that a        *)
(* replaced feed was in the middle of, and none for live money without a   *)
(* confirm; and the legs of the strategies add up to the portfolio.        *)
(***************************************************************************)
EXTENDS Desk, Monitor, FiniteSums, SequenceTheorems

(* Folds over a sequence, from the left.  The recursive function behind    *)
(* them is total when a step, here a function g of the value so far and    *)
(* the place, stays within a set P.                                        *)

LEMMA MaxIs ==
  ASSUME NEW t \in SUBSET Nat, NEW k \in t, \A y \in t : y <= k
  PROVE  Max(t) = k
<1>1. k \in t /\ \A y \in t : k >= y
  OBVIOUS
<1>2. Max(t) \in t /\ \A y \in t : Max(t) >= y
  BY <1>1, Zenon DEF Max
<1> DEFINE m == Max(t)
<1>3. m \in Nat /\ k \in Nat /\ m >= k /\ m <= k
  BY <1>2
<1> QED
  BY <1>3

\* The greatest of some places is one of them.
LEMMA MaxInPlaces ==
  ASSUME NEW n \in Nat, NEW t \in SUBSET (1 .. n), t # {}
  PROVE  Max(t) \in t /\ \A y \in t : y <= Max(t)
<1> DEFINE S == {n - x : x \in t}
           m == Min(S)
<1>1. S \in SUBSET Nat /\ S # {}
  OBVIOUS
<1>2. m \in S /\ \A y \in S : m <= y
  BY <1>1, MinLeast
<1> HIDE DEF m
<1>3. PICK k \in t : m = n - k
  BY <1>2
<1>4. \A y \in t : y <= k
  <2> SUFFICES ASSUME NEW y \in t PROVE y <= k
    OBVIOUS
  <2>1. n - y \in S /\ y \in Nat /\ k \in Nat
    OBVIOUS
  <2>2. n - k <= n - y
    BY <1>2, <1>3, <2>1
  <2> QED
    BY <2>1, <2>2
<1>5. t \in SUBSET Nat
  OBVIOUS
<1>6. Max(t) = k
  BY <1>4, <1>5, MaxIs
<1> QED
  BY <1>4, <1>6

Keeps(g, P, n) == \A p \in P : \A k \in 1 .. n : g[<<p, k>>] \in P

FoldsInto(f, g, P, base, n) ==
  /\ f \in [SUBSET (1 .. n) -> P]
  /\ \A t \in SUBSET (1 .. n) :
       f[t] = IF t = {} THEN base ELSE g[<<f[t \ {Max(t)}], Max(t)>>]

\* Such a function, as far as its values are in P.
Folds(h, g, P, base, n) ==
  /\ h[{}] = base
  /\ \A t \in SUBSET (1 .. n) : t # {} /\ h[t \ {Max(t)}] \in P =>
       h[t] = g[<<h[t \ {Max(t)}], Max(t)>>]

\* Its values on 1 .. k, one place after the other.
Runs(h, g, P, base, n) ==
  /\ h[1 .. 0] = base
  /\ \A k \in 0 .. n : h[1 .. k] \in P
  /\ \A k \in 0 .. n : k < n => h[1 .. k + 1] = g[<<h[1 .. k], k + 1>>]

LEMMA FoldExists ==
  ASSUME NEW P, NEW base \in P, NEW n \in Nat, NEW g, Keeps(g, P, n)
  PROVE  \E f : FoldsInto(f, g, P, base, n)
<1> DEFINE Fits(f, m) == FoldsInto(f, g, P, base, m)
           A == {m \in Nat : m <= n => \E f : Fits(f, m)}
<1>1. 0 \in A
  <2> DEFINE D == SUBSET (1 .. 0)
             f == [t \in D |-> base]
  <2>1. \A t \in D : t = {}
    OBVIOUS
  <2> HIDE DEF D
  <2>2. f \in [D -> P] /\ \A t \in D : f[t] = base
    OBVIOUS
  <2>3. \A t \in D : f[t] = IF t = {} THEN base ELSE g[<<f[t \ {Max(t)}], Max(t)>>]
    BY <2>1, <2>2
  <2> HIDE DEF f
  <2>4. Fits(f, 0)
    BY <2>2, <2>3, Zenon DEF D, FoldsInto
  <2> HIDE DEF Fits
  <2> QED
    BY <2>4
<1>2. ASSUME NEW m \in A PROVE m + 1 \in A
  <2> HIDE DEF Fits
  <2> SUFFICES ASSUME m + 1 <= n PROVE \E f : Fits(f, m + 1)
    OBVIOUS
  <2>1. m \in Nat /\ m <= n
    OBVIOUS
  <2>2. PICK f : Fits(f, m)
    BY <2>1
  <2> USE DEF Fits, FoldsInto, Keeps
  <2> DEFINE j == m + 1
             h == [t \in SUBSET (1 .. j) |-> IF j \in t THEN g[<<f[t \ {j}], j>>] ELSE f[t]]
  <2>3. ASSUME NEW t \in SUBSET (1 .. j) PROVE t \ {j} \in SUBSET (1 .. m)
    BY <2>1
  <2>4. ASSUME NEW t \in SUBSET (1 .. j), j \notin t PROVE t \in SUBSET (1 .. m)
    BY <2>1, <2>4
  <2>5. ASSUME NEW t \in SUBSET (1 .. m) PROVE t \in SUBSET (1 .. j) /\ j \notin t /\ h[t] = f[t]
    BY <2>1
  <2>6. j \in 1 .. n
    BY <2>1
  <2>7. h \in [SUBSET (1 .. j) -> P]
    <3> SUFFICES ASSUME NEW t \in SUBSET (1 .. j) PROVE h[t] \in P
      OBVIOUS
    <3>1. CASE j \in t
      <4>1. f[t \ {j}] \in P
        BY <2>2, <2>3
      <4> QED
        BY <2>6, <3>1, <4>1
    <3>2. CASE j \notin t
      <4>1. f[t] \in P
        BY <2>2, <2>4, <3>2
      <4> QED
        BY <3>2, <4>1
    <3> QED
      BY <3>1, <3>2
  <2>8. ASSUME NEW t \in SUBSET (1 .. j)
        PROVE  h[t] = IF t = {} THEN base ELSE g[<<h[t \ {Max(t)}], Max(t)>>]
    <3>1. CASE j \in t
      <4>1. Max(t) = j
        <5>1. t \in SUBSET Nat /\ \A y \in t : y <= j
          BY <2>1
        <5> HIDE DEF j
        <5> QED
          BY <3>1, <5>1, MaxIs
      <4>2. h[t \ {j}] = f[t \ {j}]
        BY <2>3, <2>5
      <4>3. h[t] = g[<<f[t \ {j}], j>>]
        BY <3>1
      <4> HIDE DEF h, j
      <4> QED
        BY <3>1, <4>1, <4>2, <4>3
    <3>2. CASE j \notin t
      <4>1. h[t] = f[t] /\ t \in SUBSET (1 .. m) /\ t \ {Max(t)} \in SUBSET (1 .. m)
        BY <2>4, <3>2
      <4>2. h[t \ {Max(t)}] = f[t \ {Max(t)}]
        BY <2>5, <4>1
      <4>3. f[t] = IF t = {} THEN base ELSE g[<<f[t \ {Max(t)}], Max(t)>>]
        BY <2>2, <4>1
      <4> HIDE DEF h, j
      <4> QED
        BY <4>1, <4>2, <4>3
    <3> QED
      BY <3>1, <3>2
  <2> HIDE DEF h
  <2>9. Fits(h, m + 1)
    BY <2>7, <2>8
  <2> QED
    BY <2>9
<1>3. A = Nat
  <2> HIDE DEF A
  <2>1. A \in SUBSET Nat
    BY DEF A
  <2> QED
    BY <1>1, <1>2, <2>1, NatInduct
<1>4. \E f : Fits(f, n)
  <2> HIDE DEF Fits
  <2> QED
    BY <1>3
<1> QED
  BY <1>4, Zenon

LEMMA FirstPlaces ==
  ASSUME NEW n \in Nat, NEW k \in Nat, k < n
  PROVE  /\ 1 .. k + 1 \in SUBSET (1 .. n) /\ 1 .. k + 1 # {} /\ k + 1 \in 1 .. n
         /\ (1 .. k + 1) \ {k + 1} = 1 .. k
OBVIOUS

LEMMA FoldRuns ==
  ASSUME NEW P, NEW base \in P, NEW n \in Nat, NEW g, Keeps(g, P, n),
         NEW h, Folds(h, g, P, base, n)
  PROVE  Runs(h, g, P, base, n)
<1> USE DEF Keeps, Folds
<1> DEFINE A == {k \in Nat : k <= n => h[1 .. k] \in P}
<1>1. 1 .. 0 = {}
  OBVIOUS
<1>2. ASSUME NEW k \in Nat, k < n, h[1 .. k] \in P
      PROVE  h[1 .. k + 1] = g[<<h[1 .. k], k + 1>>] /\ h[1 .. k + 1] \in P
  <2> DEFINE j == k + 1
             t == 1 .. j
  <2>1. t \in SUBSET (1 .. n) /\ t # {} /\ j \in 1 .. n /\ t \ {j} = 1 .. k
    BY <1>2, FirstPlaces, Zenon
  <2>2. Max(t) = j
    <3>1. t \in SUBSET Nat /\ j \in t /\ \A y \in t : y <= j
      OBVIOUS
    <3> HIDE DEF t, j
    <3> QED
      BY <3>1, MaxIs
  <2> HIDE DEF t
  <2>3. h[t] = g[<<h[1 .. k], j>>]
    BY <1>2, <2>1, <2>2
  <2>4. g[<<h[1 .. k], j>>] \in P
    BY <1>2, <2>1
  <2> QED
    BY <2>3, <2>4 DEF t
<1>3. 0 \in A
  BY <1>1
<1>4. ASSUME NEW k \in A PROVE k + 1 \in A
  <2> SUFFICES ASSUME k + 1 <= n PROVE h[1 .. k + 1] \in P
    OBVIOUS
  <2>1. k \in Nat /\ k < n /\ h[1 .. k] \in P
    OBVIOUS
  <2> HIDE DEF A
  <2> QED
    BY <1>2, <2>1
<1>5. A = Nat
  <2> HIDE DEF A
  <2>1. A \in SUBSET Nat
    BY DEF A
  <2> QED
    BY <1>3, <1>4, <2>1, NatInduct
<1>6. \A k \in 0 .. n : h[1 .. k] \in P
  BY <1>5
<1> HIDE DEF A
<1> QED
  BY <1>1, <1>2, <1>6 DEF Runs
-----------------------------------------------------------------------------
(* The portfolio.                                                          *)

BookType == [pos : Int, avg_cost : Int, realized : Int, mark : Nat]
Books0 == [Symbol -> BookType]
PfType ==
  [books : Books0, halted : BOOLEAN, peak_equity : Int, equity_curve : Seq(Int), pnl : Seq(Int)]

\* The sums over the books, each with its weights.
RealizedOf(p) == [s \in Symbol |-> p.books[s].realized]
UnrealizedSum(p) == MapThenSumSet(LAMBDA s : unrealized(p.books[s]), Symbol)
UnrealizedOf(p) == [s \in Symbol |-> unrealized(p.books[s])]
GrossOf(p) == [s \in Symbol |-> Magnitude(p.books[s].pos * p.books[s].mark)]

LEMMA RealizedIsSum == ASSUME NEW p PROVE realized(p) = Sum(RealizedOf(p), Symbol)
<1> DEFINE S == Symbol
           w == RealizedOf(p)
           Rec(g) == [s \in SUBSET S |-> IF s = {} THEN 0
                      ELSE LET x == CHOOSE x \in s : TRUE IN p.books[x].realized + g[s \ {x}]]
           h == CHOOSE g : g = Rec(g)
<1>1. realized(p) = h[S]
  BY DEF realized, MapThenSumSet, MapThenFoldSet
<1>2. PICK f : IsSum(f, w, S)
  BY SumExists, PortfolioAssumption
<1>3. \A s \in SUBSET S : s # {} => LET x == CHOOSE x \in s : TRUE IN w[x] = p.books[x].realized
  BY DEF RealizedOf
<1>4. f = Rec(f)
  BY <1>2, <1>3 DEF IsSum
<1>5. h = Rec(h)
  BY <1>4
<1>6. h = [s \in SUBSET S |-> IF s = {} THEN 0
             ELSE LET x == CHOOSE x \in s : TRUE IN w[x] + h[s \ {x}]]
  <2> HIDE DEF h, w
  <2> QED
    BY <1>3, <1>5
<1> HIDE DEF h, w, Rec
<1>7. h[S] = Sum(w, S)
  BY <1>6, SumOfFold, PortfolioAssumption
<1> QED
  BY <1>1, <1>7 DEF w

LEMMA GrossIsSum == ASSUME NEW p PROVE gross_exposure(p) = Sum(GrossOf(p), Symbol)
<1> DEFINE S == Symbol
           w == GrossOf(p)
           Rec(g) == [s \in SUBSET S |-> IF s = {} THEN 0
                      ELSE LET x == CHOOSE x \in s : TRUE
                           IN  Magnitude(p.books[x].pos * p.books[x].mark) + g[s \ {x}]]
           h == CHOOSE g : g = Rec(g)
<1>1. gross_exposure(p) = h[S]
  BY DEF gross_exposure, MapThenSumSet, MapThenFoldSet
<1>2. PICK f : IsSum(f, w, S)
  BY SumExists, PortfolioAssumption
<1>3. \A s \in SUBSET S : s # {} =>
        LET x == CHOOSE x \in s : TRUE IN w[x] = Magnitude(p.books[x].pos * p.books[x].mark)
  BY DEF GrossOf
<1>4. f = Rec(f)
  BY <1>2, <1>3 DEF IsSum
<1>5. h = Rec(h)
  BY <1>4
<1>6. h = [s \in SUBSET S |-> IF s = {} THEN 0
             ELSE LET x == CHOOSE x \in s : TRUE IN w[x] + h[s \ {x}]]
  <2> HIDE DEF h, w
  <2> QED
    BY <1>3, <1>5
<1> HIDE DEF h, w, Rec
<1>7. h[S] = Sum(w, S)
  BY <1>6, SumOfFold, PortfolioAssumption
<1> QED
  BY <1>1, <1>7 DEF w

LEMMA UnrealizedIsSum == ASSUME NEW p PROVE UnrealizedSum(p) = Sum(UnrealizedOf(p), Symbol)
<1> DEFINE S == Symbol
           w == UnrealizedOf(p)
           Rec(g) == [s \in SUBSET S |-> IF s = {} THEN 0
                      ELSE LET x == CHOOSE x \in s : TRUE
                           IN  unrealized(p.books[x]) + g[s \ {x}]]
           h == CHOOSE g : g = Rec(g)
<1>1. UnrealizedSum(p) = h[S]
  BY DEF UnrealizedSum, MapThenSumSet, MapThenFoldSet
<1>2. PICK f : IsSum(f, w, S)
  BY SumExists, PortfolioAssumption
<1>3. \A s \in SUBSET S : s # {} =>
        LET x == CHOOSE x \in s : TRUE IN w[x] = unrealized(p.books[x])
  BY DEF UnrealizedOf
<1>4. f = Rec(f)
  BY <1>2, <1>3 DEF IsSum
<1>5. h = Rec(h)
  BY <1>4
<1>6. h = [s \in SUBSET S |-> IF s = {} THEN 0
             ELSE LET x == CHOOSE x \in s : TRUE IN w[x] + h[s \ {x}]]
  <2> HIDE DEF h, w
  <2> QED
    BY <1>3, <1>5
<1> HIDE DEF h, w, Rec
<1>7. h[S] = Sum(w, S)
  BY <1>6, SumOfFold, PortfolioAssumption
<1> QED
  BY <1>1, <1>7 DEF w

\* Multiplication and division, as the provers need to be told.
LEMMA TimesInt == \A a, b \in Int : a * b \in Int
OBVIOUS

LEMMA DivideInt == \A a \in Int, b \in Nat \ {0} : a \div b \in Int
OBVIOUS

LEMMA MagnitudeNat ==
  ASSUME NEW n \in Int PROVE Magnitude(n) \in Nat /\ (n # 0 => Magnitude(n) # 0)
BY DEF Magnitude

LEMMA EquityInt ==
  ASSUME NEW p, p.books \in Books0
  PROVE  equity(p) \in Int /\ realized(p) \in Int /\ gross_exposure(p) \in Int
<1>1. ASSUME NEW s \in Symbol
      PROVE  p.books[s].pos \in Int /\ p.books[s].mark \in Int /\ p.books[s].realized \in Int
             /\ p.books[s].avg_cost \in Int
  BY DEF Books0, BookType
<1>2. \A s \in Symbol : RealizedOf(p)[s] \in Int
  BY <1>1 DEF RealizedOf
<1>3. \A s \in Symbol : UnrealizedOf(p)[s] \in Int
  <2> SUFFICES ASSUME NEW s \in Symbol PROVE unrealized(p.books[s]) \in Int
    BY DEF UnrealizedOf
  <2> DEFINE b == p.books[s]
             diff == b.mark - b.avg_cost
  <2>1. diff \in Int /\ b.pos \in Int
    BY <1>1
  <2> HIDE DEF diff
  <2>2. b.pos * diff \in Int
    BY <2>1
  <2> QED
    BY <2>2 DEF unrealized, diff
<1>4. \A s \in Symbol : GrossOf(p)[s] \in Int
  <2> SUFFICES ASSUME NEW s \in Symbol
               PROVE  Magnitude(p.books[s].pos * p.books[s].mark) \in Int
    BY DEF GrossOf
  <2> DEFINE x == p.books[s].pos * p.books[s].mark
  <2>1. x \in Int
    BY <1>1, TimesInt
  <2> HIDE DEF x
  <2>2. Magnitude(x) \in Int
    BY <2>1, MagnitudeNat
  <2> QED
    BY <2>2 DEF x
<1>5. realized(p) \in Int
  BY <1>2, RealizedIsSum, SumType, PortfolioAssumption
<1>6. UnrealizedSum(p) \in Int
  BY <1>3, UnrealizedIsSum, SumType, PortfolioAssumption
<1>7. gross_exposure(p) \in Int
  BY <1>4, GrossIsSum, SumType, PortfolioAssumption
<1>8. equity(p) = realized(p) + UnrealizedSum(p)
  BY DEF equity, UnrealizedSum
<1> QED
  BY <1>5, <1>6, <1>7, <1>8

\* A book is replaced.
LEMMA WithBook ==
  ASSUME NEW p \in PfType, NEW s \in Symbol, NEW b \in BookType
  PROVE  LET r == [p EXCEPT !.books[s] = b]
         IN  /\ r \in PfType /\ r.books = [p.books EXCEPT ![s] = b] /\ r.halted = p.halted
             /\ r.peak_equity = p.peak_equity /\ r.equity_curve = p.equity_curve /\ r.pnl = p.pnl
<1> DEFINE B == [p.books EXCEPT ![s] = b]
<1>1. B \in Books0
  BY DEF PfType, Books0
<1> HIDE DEF B
<1>2. LET r == [p EXCEPT !.books = B]
      IN  /\ r \in PfType /\ r.books = B /\ r.halted = p.halted
          /\ r.peak_equity = p.peak_equity /\ r.equity_curve = p.equity_curve /\ r.pnl = p.pnl
  BY <1>1 DEF PfType
<1>3. [p EXCEPT !.books[s] = b] = [p EXCEPT !.books = B]
  BY DEF B
<1> QED
  BY <1>2, <1>3 DEF B

LEMMA Marked ==
  ASSUME NEW p \in PfType, NEW s \in Symbol, NEW mid \in Nat
  PROVE  LET r == mark_price(p, s, mid)
         IN  /\ r \in PfType /\ r.halted = p.halted /\ r.peak_equity = p.peak_equity
             /\ r.equity_curve = p.equity_curve
             /\ r.books[s].pos = p.books[s].pos /\ r.books[s].mark = mid
             /\ \A t \in Symbol \ {s} : r.books[t] = p.books[t]
<1> DEFINE b == p.books[s]
           c == [b EXCEPT !.mark = mid, !.avg_cost = IF b.pos = 0 /\ @ = 0 THEN mid ELSE @]
<1>1. b \in BookType
  BY DEF PfType, Books0
<1> DEFINE cost == IF b.pos = 0 /\ b.avg_cost = 0 THEN mid ELSE b.avg_cost
<1>2. c \in BookType /\ c.pos = b.pos /\ c.mark = mid
  <2>1. cost \in Int /\ c = [b EXCEPT !.mark = mid, !.avg_cost = cost]
    BY <1>1 DEF BookType
  <2> HIDE DEF b, c, cost
  <2> QED
    BY <1>1, <2>1 DEF BookType
<1>3. mark_price(p, s, mid) = [p EXCEPT !.books[s] = c]
  BY DEF mark_price
<1> HIDE DEF c
<1>4. /\ mark_price(p, s, mid) \in PfType /\ mark_price(p, s, mid).halted = p.halted
      /\ mark_price(p, s, mid).peak_equity = p.peak_equity
      /\ mark_price(p, s, mid).equity_curve = p.equity_curve
      /\ mark_price(p, s, mid).books = [p.books EXCEPT ![s] = c]
  <2> DEFINE r == [p EXCEPT !.books[s] = c]
  <2>1. c \in BookType
    BY <1>2
  <2>2. /\ r \in PfType /\ r.books = [p.books EXCEPT ![s] = c] /\ r.halted = p.halted
        /\ r.peak_equity = p.peak_equity /\ r.equity_curve = p.equity_curve
    BY <2>1, WithBook, Zenon
  <2> HIDE DEF r
  <2> QED
    BY <1>3, <2>2 DEF r
<1>5. p.books \in Books0
  BY DEF PfType
<1>6. LET B == [p.books EXCEPT ![s] = c]
      IN  B[s] = c /\ \A t \in Symbol \ {s} : B[t] = p.books[t]
  BY <1>5 DEF Books0
<1> QED
  BY <1>2, <1>4, <1>6

LEMMA MinInt == ASSUME NEW a \in Nat, NEW b \in Nat PROVE Min({a, b}) \in Int
<1>1. Min({a, b}) \in {a, b}
  BY MinLeast
<1> QED
  BY <1>1

\* A book after a trade of some shares.
LEMMA TradedTyped ==
  ASSUME NEW b \in BookType, NEW amount \in Int, amount # 0, NEW price \in Int
  PROVE  /\ Traded(b, amount, price) \in BookType
         /\ Traded(b, amount, price).pos = b.pos + amount /\ Traded(b, amount, price).mark = b.mark
<1> DEFINE pos == b.pos + amount
           closing == Min({Magnitude(amount), Magnitude(b.pos)})
           sign == IF b.pos > 0 THEN 1 ELSE -1
           blend == (b.avg_cost * Magnitude(b.pos) + price * Magnitude(amount)) \div Magnitude(pos)
           gain == b.realized + (price - b.avg_cost) * closing * sign
           cost == IF pos = 0 THEN 0 ELSE IF (pos > 0) # (sign > 0) THEN price ELSE b.avg_cost
<1>1. b.pos \in Int /\ b.avg_cost \in Int /\ b.realized \in Int /\ pos \in Int
  BY DEF BookType
<1>2. closing \in Int
  BY <1>1, MinInt, MagnitudeNat
<1>3. gain \in Int
  <2> HIDE DEF closing
  <2>1. (price - b.avg_cost) \in Int /\ sign \in Int
    BY <1>1
  <2> HIDE DEF sign
  <2>2. (price - b.avg_cost) * closing \in Int
    BY <1>2, <2>1, TimesInt
  <2>3. (price - b.avg_cost) * closing * sign \in Int
    BY <2>1, <2>2, TimesInt
  <2> QED
    BY <1>1, <2>3
<1>4. cost \in Int
  BY <1>1
<1>5. CASE b.pos = 0 \/ (b.pos > 0) = (amount > 0)
  <2>1. pos # 0
    BY <1>1, <1>5
  <2>2. Magnitude(pos) \in Nat \ {0}
    BY <1>1, <2>1, MagnitudeNat
  <2>3. b.avg_cost * Magnitude(b.pos) + price * Magnitude(amount) \in Int
    <3>1. Magnitude(b.pos) \in Int /\ Magnitude(amount) \in Int
      BY <1>1, MagnitudeNat
    <3>2. b.avg_cost * Magnitude(b.pos) \in Int /\ price * Magnitude(amount) \in Int
      BY <1>1, <3>1, TimesInt
    <3> QED
      BY <3>2
  <2>4. blend \in Int
    BY <2>2, <2>3, DivideInt
  <2>5. Traded(b, amount, price) = [b EXCEPT !.pos = pos, !.avg_cost = blend]
    BY <1>5 DEF Traded
  <2> HIDE DEF pos, blend
  <2>6. LET r == [b EXCEPT !.pos = pos, !.avg_cost = blend]
        IN  r \in BookType /\ r.pos = pos /\ r.mark = b.mark
    BY <1>1, <2>4 DEF BookType
  <2> QED
    BY <2>5, <2>6 DEF pos
<1>6. CASE ~(b.pos = 0 \/ (b.pos > 0) = (amount > 0))
  <2>1. Traded(b, amount, price) = [b EXCEPT !.pos = pos, !.realized = gain, !.avg_cost = cost]
    BY <1>6 DEF Traded
  <2> HIDE DEF pos, gain, cost
  <2>2. LET r == [b EXCEPT !.pos = pos, !.realized = gain, !.avg_cost = cost]
        IN  r \in BookType /\ r.pos = pos /\ r.mark = b.mark
    BY <1>1, <1>3, <1>4 DEF BookType
  <2> QED
    BY <2>1, <2>2 DEF pos
<1> QED
  BY <1>5, <1>6
-----------------------------------------------------------------------------
(* The kill switch.  A portfolio is calm when its curve has not fallen by  *)
(* the limit from any point of it, and the high-water mark is not below it;*)
(* a fill leaves it calm or trips the switch.                              *)

Calm(p) ==
  \A i \in 1 .. Len(p.equity_curve) :
    /\ p.equity_curve[i] <= p.peak_equity
    /\ \A j \in i .. Len(p.equity_curve) :
         p.equity_curve[i] - p.equity_curve[j] < daily_loss_limit

Heeded(p) == p.halted \/ Calm(p)

\* The curve with one more point, under a high-water mark that is not lowered.
LEMMA CalmNext ==
  ASSUME NEW c \in Seq(Int), NEW top \in Int, NEW peak \in Int, NEW eq \in Int,
         \A i \in 1 .. Len(c) :
           c[i] <= top /\ \A j \in i .. Len(c) : c[i] - c[j] < daily_loss_limit,
         top <= peak, eq <= peak, peak - eq < daily_loss_limit
  PROVE  LET d == Append(c, eq)
         IN  \A i \in 1 .. Len(d) :
               d[i] <= peak /\ \A j \in i .. Len(d) : d[i] - d[j] < daily_loss_limit
<1> DEFINE d == Append(c, eq)
           n == Len(c)
<1>1. n \in Nat /\ Len(d) = n + 1 /\ d[n + 1] = eq
  OBVIOUS
<1>2. \A i \in 1 .. n : d[i] = c[i] /\ c[i] \in Int
  OBVIOUS
<1>3. daily_loss_limit \in Nat \ {0}
  BY PortfolioAssumption
<1> HIDE DEF d
<1> SUFFICES ASSUME NEW i \in 1 .. n + 1
             PROVE  d[i] <= peak /\ \A j \in i .. n + 1 : d[i] - d[j] < daily_loss_limit
  BY <1>1 DEF d
<1>4. d[i] <= peak /\ d[i] \in Int
  <2>1. CASE i = n + 1
    BY <1>1, <2>1
  <2>2. CASE i \in 1 .. n
    <3>1. d[i] = c[i] /\ c[i] \in Int /\ c[i] <= top
      BY <1>2, <2>2
    <3> QED
      BY <3>1
  <2> QED
    BY <1>1, <2>1, <2>2
<1>5. ASSUME NEW j \in i .. n + 1 PROVE d[i] - d[j] < daily_loss_limit
  <2>1. CASE j = n + 1
    BY <1>1, <1>3, <1>4, <2>1
  <2>2. CASE j \in i .. n
    <3>1. i \in 1 .. n /\ j \in 1 .. n
      BY <1>1, <2>2
    <3>2. d[i] = c[i] /\ d[j] = c[j]
      BY <1>2, <3>1
    <3>3. c[i] - c[j] < daily_loss_limit
      BY <2>2, <3>1
    <3> QED
      BY <3>2, <3>3
  <2> QED
    BY <1>1, <2>1, <2>2
<1> QED
  BY <1>4, <1>5

\* A fill: the books and the curve.
FillsTo(r, p, s, amount, price) ==
  /\ r \in PfType /\ (Heeded(p) => Heeded(r)) /\ (p.halted => r.halted)
  /\ r.books = [p.books EXCEPT ![s] = Traded(p.books[s], amount, price)]

LEMMA Filled ==
  ASSUME NEW p \in PfType, NEW s \in Symbol, NEW action \in {"buy", "sell"},
         NEW size \in Int, size # 0, NEW price \in Int
  PROVE  FillsTo(on_fill(p, s, action, size, price), p, s, Signed(action, size), price)
<1> DEFINE b == Traded(p.books[s], Signed(action, size), price)
           q == [p EXCEPT !.books[s] = b]
           eq == equity(q)
           peak == Greater(q.peak_equity, eq)
           trip == q.halted \/ eq <= -daily_loss_limit \/ peak - eq >= daily_loss_limit
           k == check_kill(q)
           gain == b.realized - p.books[s].realized
           r == [k EXCEPT !.equity_curve = Append(@, equity(k)), !.pnl = Append(@, gain)]
<1>1. p.books[s] \in BookType
  BY DEF PfType, Books0
<1>2. Signed(action, size) \in Int /\ Signed(action, size) # 0
  BY DEF Signed
<1>3. b \in BookType
  BY <1>1, <1>2, TradedTyped
<1> HIDE DEF b
<1>4. /\ q \in PfType /\ q.books = [p.books EXCEPT ![s] = b] /\ q.halted = p.halted
      /\ q.peak_equity = p.peak_equity /\ q.equity_curve = p.equity_curve /\ q.pnl = p.pnl
  BY <1>3, WithBook, Zenon
<1> HIDE DEF q
<1>5. eq \in Int
  <2>1. q.books \in Books0
    BY <1>4 DEF PfType
  <2> QED
    BY <2>1, EquityInt
<1>6. /\ k.books = q.books /\ k.halted = trip /\ k.peak_equity = peak
      /\ k.equity_curve = q.equity_curve /\ k.pnl = q.pnl
      /\ k = [books |-> q.books, halted |-> trip, peak_equity |-> peak,
              equity_curve |-> q.equity_curve, pnl |-> q.pnl]
  <2> HIDE DEF eq
  <2> DEFINE e == eq
             top == Greater(q.peak_equity, e)
             t == q.halted \/ e <= -daily_loss_limit \/ top - e >= daily_loss_limit
  <2>1. k = [q EXCEPT !.peak_equity = top, !.halted = t]
    BY DEF check_kill, eq
  <2> HIDE DEF top, t, k
  <2>2. k = [books |-> q.books, halted |-> t, peak_equity |-> top,
             equity_curve |-> q.equity_curve, pnl |-> q.pnl]
    BY <1>4, <2>1 DEF PfType
  <2> QED
    BY <2>2 DEF top, t
<1>7. equity(k) = eq
  BY <1>6 DEF equity, realized
<1>8. q.peak_equity \in Int /\ peak \in Int /\ q.peak_equity <= peak /\ eq <= peak
  <2>1. q.peak_equity \in Int
    BY <1>4 DEF PfType
  <2> HIDE DEF eq
  <2> QED
    BY <1>5, <2>1 DEF Greater
<1>9. gain \in Int
  BY <1>1, <1>3 DEF BookType
<1>10. on_fill(p, s, action, size, price) = r
  BY DEF on_fill, q, b
<1> DEFINE curve == Append(q.equity_curve, eq)
<1>11. r = [books |-> q.books, halted |-> trip, peak_equity |-> peak,
            equity_curve |-> curve, pnl |-> Append(q.pnl, gain)]
  <2> DEFINE c == Append(k.equity_curve, equity(k))
             n == Append(k.pnl, gain)
  <2>1. r = [k EXCEPT !.equity_curve = c, !.pnl = n]
    OBVIOUS
  <2>2. c = curve /\ n = Append(q.pnl, gain)
    <3> HIDE DEF eq, peak, trip, gain, k
    <3> QED
      BY <1>6, <1>7
  <2> HIDE DEF eq, peak, trip, gain, k, r, c, n, curve
  <2>3. r = [books |-> k.books, halted |-> k.halted, peak_equity |-> k.peak_equity,
             equity_curve |-> c, pnl |-> n]
    BY <1>6, <2>1
  <2> QED
    BY <1>6, <2>2, <2>3
<1> HIDE DEF r, k
<1>12. r \in PfType
  <2>1. q.equity_curve \in Seq(Int) /\ q.pnl \in Seq(Int) /\ q.books \in Books0
    BY <1>4 DEF PfType
  <2>2. trip \in BOOLEAN
    <3>1. q.halted \in BOOLEAN
      BY <1>4 DEF PfType
    <3> QED
      BY <3>1
  <2> HIDE DEF eq, peak, trip, gain
  <2>3. curve \in Seq(Int) /\ Append(q.pnl, gain) \in Seq(Int)
    BY <1>5, <1>9, <2>1
  <2> QED
    BY <1>8, <1>11, <2>1, <2>2, <2>3 DEF PfType
<1>13. Heeded(p) => Heeded(r)
  <2>1. r.halted = trip /\ r.peak_equity = peak /\ r.equity_curve = curve
    BY <1>11
  <2> SUFFICES ASSUME ~trip, Heeded(p) PROVE Calm(r)
    BY <2>1 DEF Heeded
  <2>2. ~p.halted /\ peak - eq < daily_loss_limit
    <3>1. daily_loss_limit \in Nat
      BY PortfolioAssumption
    <3> HIDE DEF eq, peak
    <3> QED
      BY <1>4, <1>5, <1>8, <3>1
  <2>3. Calm(p) /\ q.equity_curve \in Seq(Int)
    BY <1>4, <2>2 DEF Heeded, PfType
  <2> DEFINE c == q.equity_curve
             top == q.peak_equity
  <2>4. \A i \in 1 .. Len(c) :
          c[i] <= top /\ \A j \in i .. Len(c) : c[i] - c[j] < daily_loss_limit
    BY <1>4, <2>3 DEF Calm
  <2>5. LET d == Append(c, eq)
        IN  \A i \in 1 .. Len(d) :
              d[i] <= peak /\ \A j \in i .. Len(d) : d[i] - d[j] < daily_loss_limit
    <3> HIDE DEF eq, peak
    <3> QED
      BY <1>5, <1>8, <2>2, <2>3, <2>4, CalmNext
  <2> HIDE DEF eq, peak
  <2> QED
    BY <2>1, <2>5 DEF Calm
<1>14. r.books = [p.books EXCEPT ![s] = b] /\ (p.halted => r.halted)
  BY <1>4, <1>11
<1> QED
  BY <1>10, <1>12, <1>13, <1>14 DEF b, FillsTo
-----------------------------------------------------------------------------
(* The portfolio and the cash after some fills of one symbol.              *)

FillType == [action : {"buy", "sell"}, size : Int \ {0}, price : Int]

\* What a portfolio comes to by fills and marks of a symbol: the switch is not reset, and
\* the books of the others are left alone.
Comes(p, s, r) ==
  /\ r \in PfType /\ (Heeded(p) => Heeded(r)) /\ (p.halted => r.halted)
  /\ \A t \in Symbol \ {s} : r.books[t] = p.books[t]

\* One more fill.
LEMMA FillComes ==
  ASSUME NEW p, NEW s \in Symbol, NEW q \in PfType, Comes(p, s, q), NEW f \in FillType
  PROVE  Comes(p, s, on_fill(q, s, f.action, f.size, f.price))
<1> DEFINE action == f.action
           size == f.size
           price == f.price
           r == on_fill(q, s, action, size, price)
           b == Traded(q.books[s], Signed(action, size), price)
<1>1. action \in {"buy", "sell"} /\ size \in Int /\ size # 0 /\ price \in Int
  BY DEF FillType
<1> HIDE DEF action, size, price
<1>2. /\ r \in PfType /\ (Heeded(q) => Heeded(r)) /\ (q.halted => r.halted)
      /\ r.books = [q.books EXCEPT ![s] = b]
  <2>1. FillsTo(r, q, s, Signed(action, size), price)
    BY <1>1, Filled
  <2> HIDE DEF r
  <2> QED
    BY <2>1 DEF FillsTo
<1> HIDE DEF r, b
<1>3. q.books \in Books0
  BY DEF PfType
<1>4. \A t \in Symbol \ {s} : r.books[t] = q.books[t]
  BY <1>2, <1>3 DEF Books0
<1>5. Comes(p, s, r)
  BY <1>2, <1>4 DEF Comes
<1> QED
  BY <1>5 DEF r, action, size, price

LEMMA BooksCome ==
  ASSUME NEW p, NEW s \in Symbol, NEW before \in PfType, Comes(p, s, before),
         NEW fills \in Seq(FillType)
  PROVE  /\ Comes(p, s, Books(before, s, fills))
         /\ Len(fills) = 0 => Books(before, s, fills) = before
         /\ Len(fills) = 1 =>
              Books(before, s, fills) = on_fill(before, s, fills[1].action, fills[1].size,
                                                fills[1].price)
<1> DEFINE n == Len(fills)
           P == {q \in PfType : Comes(p, s, q)}
           fill(q, f) == on_fill(q, s, f.action, f.size, f.price)
           g == [x \in P \X (1 .. n) |-> fill(x[1], fills[x[2]])]
           Rec(e) == [t \in SUBSET (1 .. n) |-> IF t = {} THEN before
                      ELSE fill(e[t \ {Max(t)}], fills[Max(t)])]
           h == CHOOSE e : e = Rec(e)
<1>1. n \in Nat /\ DOMAIN fills = 1 .. n
  OBVIOUS
<1>2. Books(before, s, fills) = h[1 .. n]
  <2>1. Books(before, s, fills) = (CHOOSE e : e = [t \in SUBSET (DOMAIN fills) |->
            IF t = {} THEN before ELSE fill(e[t \ {Max(t)}], fills[Max(t)])])[DOMAIN fills]
    BY DEF Books, FoldLeft, MapThenFoldSet
  <2> HIDE DEF fill, n
  <2> QED
    BY <1>1, <2>1
<1>3. before \in P
  OBVIOUS
<1>4. \A q \in P : \A k \in 1 .. n : g[<<q, k>>] \in P /\ g[<<q, k>>] = fill(q, fills[k])
  <2> SUFFICES ASSUME NEW q \in P, NEW k \in 1 .. n
               PROVE  g[<<q, k>>] \in P /\ g[<<q, k>>] = fill(q, fills[k])
    OBVIOUS
  <2>1. fills[k] \in FillType /\ q \in PfType /\ Comes(p, s, q)
    BY <1>1
  <2>2. Comes(p, s, fill(q, fills[k]))
    BY <2>1, FillComes
  <2>3. fill(q, fills[k]) \in P
    BY <2>2 DEF Comes
  <2>4. g[<<q, k>>] = fill(q, fills[k])
    <3> HIDE DEF P, fill, n
    <3> QED
      OBVIOUS
  <2> QED
    BY <2>3, <2>4
<1> HIDE DEF P, g, fill, n
<1>5. Keeps(g, P, n)
  BY <1>4 DEF Keeps
<1>6. PICK f : FoldsInto(f, g, P, before, n)
  BY <1>1, <1>3, <1>5, FoldExists
<1>7. /\ f \in [SUBSET (1 .. n) -> P]
      /\ \A t \in SUBSET (1 .. n) :
           f[t] = IF t = {} THEN before ELSE g[<<f[t \ {Max(t)}], Max(t)>>]
  BY <1>6 DEF FoldsInto
<1>8. \A t \in SUBSET (1 .. n) : t # {} => Max(t) \in 1 .. n
  <2> SUFFICES ASSUME NEW t \in SUBSET (1 .. n), t # {} PROVE Max(t) \in 1 .. n
    OBVIOUS
  <2> QED
    BY <1>1, MaxInPlaces
<1>9. f = Rec(f)
  <2>1. \A t \in SUBSET (1 .. n) :
          f[t] = IF t = {} THEN before ELSE fill(f[t \ {Max(t)}], fills[Max(t)])
    <3> SUFFICES ASSUME NEW t \in SUBSET (1 .. n), t # {}
                 PROVE  f[t] = fill(f[t \ {Max(t)}], fills[Max(t)])
      BY <1>7
    <3>1. f[t \ {Max(t)}] \in P /\ Max(t) \in 1 .. n
      BY <1>7, <1>8
    <3>2. g[<<f[t \ {Max(t)}], Max(t)>>] = fill(f[t \ {Max(t)}], fills[Max(t)])
      BY <1>4, <3>1
    <3> QED
      BY <1>7, <3>2
  <2> QED
    BY <1>7, <2>1
<1>10. h = Rec(h)
  BY <1>9
<1> HIDE DEF h
<1>11. Folds(h, g, P, before, n)
  <2>1. {} \in SUBSET (1 .. n)
    OBVIOUS
  <2>2. h[{}] = before
    BY <1>10, <2>1
  <2> SUFFICES ASSUME NEW t \in SUBSET (1 .. n), t # {}, h[t \ {Max(t)}] \in P
               PROVE  h[t] = g[<<h[t \ {Max(t)}], Max(t)>>]
    BY <2>2 DEF Folds
  <2>3. h[t] = fill(h[t \ {Max(t)}], fills[Max(t)])
    BY <1>10
  <2> QED
    BY <1>4, <1>8, <2>3
<1>12. Runs(h, g, P, before, n)
  BY <1>1, <1>3, <1>5, <1>11, FoldRuns
<1>13. /\ h[1 .. 0] = before
       /\ \A k \in 0 .. n : h[1 .. k] \in P
       /\ \A k \in 0 .. n : k < n => h[1 .. k + 1] = g[<<h[1 .. k], k + 1>>]
  BY <1>12 DEF Runs
<1>14. h[1 .. n] \in P
  BY <1>1, <1>13
<1>15. n = 1 => h[1 .. n] = fill(before, fills[1])
  <2> SUFFICES ASSUME n = 1 PROVE h[1 .. 1] = fill(before, fills[1])
    OBVIOUS
  <2>1. 0 \in 0 .. n /\ 0 < n /\ 1 \in 1 .. n
    OBVIOUS
  <2>2. h[1 .. 0 + 1] = g[<<h[1 .. 0], 0 + 1>>]
    BY <1>13, <2>1
  <2>3. 0 + 1 = 1
    OBVIOUS
  <2>4. h[1 .. 1] = g[<<before, 1>>]
    BY <1>13, <2>2, <2>3
  <2> QED
    BY <1>3, <1>4, <2>1, <2>4
<1> QED
  BY <1>2, <1>13, <1>14, <1>15 DEF P, n, fill
-----------------------------------------------------------------------------
(* What the strategies, the gauntlet and the makers answer.                *)

TouchType == [bid : Nat, bid_size : Nat, ask : Nat, ask_size : Nat]
StType == [prev_valid : BOOLEAN, cooldown : Int]
FlowType == [prev : TouchType \cup {NoQuote}, buf : Seq(Int)]
QuotesType == [bid : Int, bid_size : Int, ask : Int, ask_size : Int]

\* An order: it has a price and shares.
OrderType == [action : {"buy", "sell"}, price : Nat \ {0}, size : Nat \ {0}]

LEMMA QuoteTyped ==
  ASSUME NEW q \in QuoteType
  PROVE  Touch(q) \in TouchType /\ Mid(q) \in Nat /\ q.valid \in BOOLEAN
<1>1. q.bid \in Nat /\ q.ask \in Nat /\ q.bid_size \in Nat /\ q.ask_size \in Nat
      /\ q.valid \in BOOLEAN
  BY DEF QuoteType
<1>2. \A n \in Nat : n \div 2 \in Nat
  OBVIOUS
<1>3. Mid(q) \in Nat
  BY <1>1, <1>2 DEF Mid
<1> QED
  BY <1>1, <1>3 DEF Touch, TouchType

LEMMA QuotesTyped == Quotes \subseteq QuoteType
BY DeskAssumption DEF Quotes, PanelQuotes, gen_quotes

LEMMA OrderIsDecision ==
  ASSUME NEW d \in OrderType
  PROVE  d \in Decision /\ d # NoDec
BY DeskAssumption DEF OrderType, Decision

\* The imbalance strategy.
LEMMA LotPositive == \A x, y : SW!lot(x, y) \in Nat \ {0}
<1>1. BASE_LOT \in Nat \ {0} /\ MAX_LOT \in Nat \ {0}
  BY DeskAssumption
<1>2. 3 * BASE_LOT \in Nat \ {0} /\ 2 * BASE_LOT \in Nat \ {0}
  BY <1>1
<1> QED
  BY <1>1, <1>2 DEF SW!lot

LEMMA TakerTyped ==
  ASSUME NEW st \in StType, NEW valid \in BOOLEAN, NEW q \in TouchType
  PROVE  LET r == SW!evaluate_touch(st, valid, q)
         IN  (r.dec = NoDec \/ r.dec \in OrderType) /\ r.st \in StType
<1> DEFINE b == <<q.bid_size>>
           a == <<q.ask_size>>
           r == SW!evaluate(st, valid, q, b, a)
           w_bid == SW!weighted(b)
           w_ask == SW!weighted(a)
           elig == valid /\ st.prev_valid /\ q.ask > q.bid /\ q.ask - q.bid <= SPREAD
           buy == [action |-> "buy", price |-> q.ask, size |-> SW!lot(w_bid, w_ask)]
           sell == [action |-> "sell", price |-> q.bid, size |-> SW!lot(w_ask, w_bid)]
           dec == IF st.cooldown > 0 \/ ~elig THEN NoDec
                  ELSE IF w_bid * 10 > THRESH * w_ask /\ q.ask > 0 THEN buy
                  ELSE IF w_ask * 10 > THRESH * w_bid /\ q.bid > 0 THEN sell
                  ELSE NoDec
           next == [prev_valid |-> valid,
                    cooldown |-> IF st.cooldown > 0 THEN st.cooldown - 1
                                 ELSE IF dec # NoDec THEN 0 ELSE 0]
<1>1. SW!evaluate_touch(st, valid, q) = r
  BY DEF SW!evaluate_touch
<1>2. r = [dec |-> dec, st |-> next]
  BY DEF SW!evaluate
<1>3. q.ask \in Nat /\ q.bid \in Nat /\ st.cooldown \in Int
  BY DEF TouchType, StType
<1>4. q.ask > 0 => buy \in OrderType
  BY <1>3, LotPositive DEF OrderType
<1>5. q.bid > 0 => sell \in OrderType
  BY <1>3, LotPositive DEF OrderType
<1>6. dec = NoDec \/ dec \in OrderType
  <2> HIDE DEF buy, sell, elig, w_bid, w_ask
  <2> QED
    BY <1>4, <1>5
<1>7. next \in StType
  <2> HIDE DEF dec
  <2> QED
    BY <1>3 DEF StType
<1> HIDE DEF dec, next, r
<1> QED
  BY <1>1, <1>2, <1>6, <1>7

\* The gauntlet lets an order through as it is or smaller, and none when halted.
LEMMA GauntletTyped ==
  ASSUME NEW halted, NEW calm, NEW dec \in OrderType, NEW q, NEW position, NEW room \in Int
  PROVE  LET r == G!evaluate(halted, calm, dec, q, position, room)
         IN  /\ r.dec = NoDec \/ (r.dec \in OrderType /\ r.dec.action = dec.action
                                  /\ r.dec.price = dec.price /\ r.dec.size <= room)
             /\ halted => r.dec = NoDec
<1> DEFINE r == G!evaluate(halted, calm, dec, q, position, room)
           small == [dec EXCEPT !.size = IF @ > room THEN room ELSE @]
<1>1. \/ r.dec = NoDec
      \/ ~halted /\ ~(room <= 0) /\ r.dec = small
  BY DEF G!evaluate
<1>2. halted => r.dec = NoDec
  BY DEF G!evaluate
<1>3. room > 0 => small \in OrderType /\ small.action = dec.action /\ small.price = dec.price
                  /\ small.size <= room
  <2> DEFINE size == IF dec.size > room THEN room ELSE dec.size
  <2>1. /\ dec.size \in Nat \ {0}
        /\ dec \in [action : {"buy", "sell"}, price : Nat \ {0}, size : Nat \ {0}]
    BY DEF OrderType
  <2>2. room > 0 => size \in Nat \ {0} /\ size <= room
    BY <2>1
  <2>3. small = [dec EXCEPT !.size = size]
    OBVIOUS
  <2> HIDE DEF size, small
  <2> QED
    BY <2>1, <2>2, <2>3 DEF OrderType
<1> HIDE DEF r, small
<1>4. ~(room <= 0) => room > 0
  OBVIOUS
<1> QED
  BY <1>1, <1>2, <1>3, <1>4 DEF r

LEMMA RoomInt ==
  ASSUME NEW p \in PfType, NEW s, NEW action, NEW price \in Nat \ {0}
  PROVE  gross_room(p, s, action, price) \in Int
<1> DEFINE headroom == max_gross_notional - gross_exposure(p)
<1>1. p.books \in Books0
  BY DEF PfType
<1>2. headroom \in Int
  BY <1>1, EquityInt, PortfolioAssumption
<1> HIDE DEF headroom
<1>3. headroom \div price \in Int
  BY <1>2, DivideInt
<1> QED
  BY <1>3 DEF gross_room, headroom, Unlimited

\* The order flow: the signal, and the window of the signal and of the maker.
LEMMA IncrementInt ==
  ASSUME NEW prev \in TouchType, NEW q \in TouchType
  PROVE  SB!ofi_increment(prev, q) \in Int
<1>1. /\ prev.bid \in Nat /\ prev.ask \in Nat /\ prev.bid_size \in Int /\ prev.ask_size \in Int
      /\ q.bid \in Nat /\ q.ask \in Nat /\ q.bid_size \in Int /\ q.ask_size \in Int
  BY DEF TouchType
<1>2. \A n \in Int : \A c : SB!Gated(c, n) \in Int
  BY DEF SB!Gated
<1> DEFINE u == SB!Gated(q.bid >= prev.bid, q.bid_size)
           v == SB!Gated(q.bid <= prev.bid, prev.bid_size)
           w == SB!Gated(q.ask <= prev.ask, q.ask_size)
           x == SB!Gated(q.ask >= prev.ask, prev.ask_size)
<1>3. u \in Int /\ v \in Int /\ w \in Int /\ x \in Int
  BY <1>1, <1>2
<1>4. SB!ofi_increment(prev, q) = (u - v) - (w - x)
  BY DEF SB!ofi_increment
<1> HIDE DEF u, v, w, x
<1> QED
  BY <1>3, <1>4

LEMMA AppendTail ==
  ASSUME NEW buf \in Seq(Int), NEW x \in Int
  PROVE  /\ Append(buf, x) \in Seq(Int)
         /\ Len(buf) > 0 => Append(Tail(buf), x) \in Seq(Int) /\ Len(Append(Tail(buf), x)) = Len(buf)
<1>1. Len(buf) \in Nat /\ (Len(buf) > 0 => buf # <<>>)
  OBVIOUS
<1>2. ASSUME Len(buf) > 0 PROVE Tail(buf) \in Seq(Int) /\ Len(Tail(buf)) = Len(buf) - 1
  BY <1>1, <1>2
<1> QED
  BY <1>1, <1>2

LEMMA FlowLotPositive == \A n : SB!ofi_lot(n) \in Nat \ {0}
<1>1. BASE_LOT \in Nat \ {0} /\ MAX_LOT \in Nat \ {0}
  BY DeskAssumption
<1>2. 3 * BASE_LOT \in Nat \ {0} /\ 2 * BASE_LOT \in Nat \ {0}
  BY <1>1
<1> QED
  BY <1>1, <1>2 DEF SB!ofi_lot

LEMMA FlowTyped ==
  ASSUME NEW s \in FlowType, NEW q \in TouchType
  PROVE  LET r == SB!update(s, q, TRUE)
         IN  (r.dec = NoDec \/ r.dec \in OrderType) /\ r.st \in FlowType
<1> DEFINE r == SB!update(s, q, TRUE)
           n == SB!ofi_increment(s.prev, q)
           buf == SB!Pushed(s.buf, n)
           dec == SB!Signal(SB!SumOf(buf), q)
           kept == [s EXCEPT !.prev = q]
<1>1. kept \in FlowType /\ s.buf \in Seq(Int) /\ (s.prev = NoQuote \/ s.prev \in TouchType)
  BY DEF FlowType
<1>2. \/ r = [st |-> kept, dec |-> NoDec]
      \/ /\ q.bid > 0 /\ q.ask > 0 /\ s.prev # NoQuote
         /\ r = [st |-> [prev |-> q, buf |-> buf], dec |-> dec]
  <2>1. q.bid \in Nat /\ q.ask \in Nat
    BY DEF TouchType
  <2> HIDE DEF n, buf, dec, kept
  <2>2. r = IF ~TRUE \/ q.bid <= 0 \/ q.ask <= 0 \/ q.ask <= q.bid
              THEN [st |-> kept, dec |-> NoDec]
            ELSE IF s.prev = NoQuote THEN [st |-> kept, dec |-> NoDec]
            ELSE [st |-> [prev |-> q, buf |-> buf], dec |-> dec]
    BY DEF SB!update, n, buf, dec, kept
  <2> HIDE DEF r
  <2> QED
    BY <2>1, <2>2
<1>3. ASSUME s.prev # NoQuote PROVE buf \in Seq(Int)
  <2>1. n \in Int
    BY <1>1, <1>3, IncrementInt
  <2> HIDE DEF n
  <2>2. Len(s.buf) < OFI_WINDOW \/ Len(s.buf) > 0
    <3>1. Len(s.buf) \in Nat /\ OFI_WINDOW \in Nat \ {0}
      BY <1>1, DeskAssumption
    <3> QED
      BY <3>1
  <2> QED
    BY <1>1, <2>1, <2>2, AppendTail DEF SB!Pushed
<1>4. q.bid > 0 /\ q.ask > 0 => dec = NoDec \/ dec \in OrderType
  <2>1. q.bid \in Nat /\ q.ask \in Nat
    BY DEF TouchType
  <2> DEFINE sum == SB!SumOf(buf)
  <2> HIDE DEF sum
  <2>2. \/ dec = NoDec
        \/ dec = [action |-> "buy", price |-> q.ask, size |-> SB!ofi_lot(sum)]
        \/ dec = [action |-> "sell", price |-> q.bid, size |-> SB!ofi_lot(-sum)]
    BY DEF SB!Signal, sum
  <2> HIDE DEF dec
  <2> QED
    BY <2>1, <2>2, FlowLotPositive DEF OrderType
<1> HIDE DEF r, buf, dec, kept
<1>5. s.prev # NoQuote => [prev |-> q, buf |-> buf] \in FlowType
  BY <1>3 DEF FlowType
<1>6. (r.dec = NoDec \/ r.dec \in OrderType) /\ r.st \in FlowType
  BY <1>1, <1>2, <1>4, <1>5
<1> QED
  BY <1>6 DEF r

LEMMA AdvanceTyped ==
  ASSUME NEW s \in FlowType, Len(s.buf) > 0, NEW q \in TouchType
  PROVE  LET r == SB!advance(s, q, TRUE) IN r \in FlowType /\ Len(r.buf) > 0
<1> DEFINE r == SB!advance(s, q, TRUE)
           n == SB!ofi_increment(s.prev, q)
           buf == Append(Tail(s.buf), n)
<1>1. s.buf \in Seq(Int) /\ (s.prev = NoQuote \/ s.prev \in TouchType)
  BY DEF FlowType
<1>2. \/ r = [s EXCEPT !.prev = NoQuote]
      \/ r = [s EXCEPT !.prev = q]
      \/ s.prev # NoQuote /\ r = [prev |-> q, buf |-> buf]
  BY DEF SB!advance
<1>3. s.prev # NoQuote => buf \in Seq(Int) /\ Len(buf) > 0
  <2>1. s.prev # NoQuote => n \in Int
    BY <1>1, IncrementInt
  <2> HIDE DEF n
  <2> QED
    BY <1>1, <2>1, AppendTail
<1> HIDE DEF r, buf
<1>4. r \in FlowType /\ Len(r.buf) > 0
  BY <1>1, <1>2, <1>3 DEF FlowType
<1> QED
  BY <1>4 DEF r

LEMMA SumOfInt == ASSUME NEW buf \in Seq(Int) PROVE SB!SumOf(buf) \in Int
<1> DEFINE S == DOMAIN buf
           Rec(g) == [s \in SUBSET S |-> IF s = {} THEN 0
                      ELSE LET x == CHOOSE x \in s : TRUE IN buf[x] + g[s \ {x}]]
           h == CHOOSE g : g = Rec(g)
<1>1. SB!SumOf(buf) = h[S]
  BY DEF SB!SumOf, SB!FoldSeq, SB!FoldFunction, SB!FoldFunctionOnSet, SB!MapThenFoldSet
<1>2. S = 1 .. Len(buf) /\ IsFiniteSet(S) /\ \A x \in S : buf[x] \in Int
  BY FS_Interval
<1>3. PICK f : IsSum(f, buf, S)
  BY <1>2, SumExists
<1>4. f = Rec(f)
  BY <1>3 DEF IsSum
<1>5. h = Rec(h)
  BY <1>4
<1> HIDE DEF h, S
<1>6. h[S] = Sum(buf, S)
  BY <1>2, <1>5, SumOfFold
<1>7. Sum(buf, S) \in Int
  BY <1>2, SumType
<1> QED
  BY <1>1, <1>6, <1>7

\* The makers.
LEMMA MicroInt ==
  ASSUME NEW q \in TouchType, q.bid_size + q.ask_size # 0
  PROVE  SB!micro(q) \in Int
<1> DEFINE num == q.bid * q.ask_size + q.ask * q.bid_size
           den == q.bid_size + q.ask_size
<1>1. q.bid \in Int /\ q.ask \in Int /\ q.bid_size \in Nat /\ q.ask_size \in Nat
  BY DEF TouchType
<1>2. q.bid * q.ask_size \in Int /\ q.ask * q.bid_size \in Int
  BY <1>1, TimesInt
<1>3. num \in Int /\ den \in Nat \ {0}
  BY <1>1, <1>2
<1> HIDE DEF num, den
<1>4. num \div den \in Int
  BY <1>3, DivideInt
<1> QED
  BY <1>4 DEF SB!micro, num, den

LEMMA SidedTyped ==
  ASSUME NEW bid \in Int, NEW ask \in Int, NEW inv
  PROVE  SB!Sided(bid, ask, inv) \in QuotesType
<1>1. QUOTE_SIZE \in Int
  BY DeskAssumption
<1> QED
  BY <1>1 DEF SB!Sided, QuotesType

LEMMA NoQuotesTyped == SB!NoQuotes \in QuotesType
BY DEF SB!NoQuotes, QuotesType

\* Quotes of a width around a centre; the ask is above the bid.
LEMMA AroundTyped ==
  ASSUME NEW c \in Int, NEW half \in Int, NEW inv
  PROVE  SB!Sided(c - half, IF c + half <= c - half THEN c - half + 1 ELSE c + half, inv)
           \in QuotesType
<1> DEFINE bid == c - half
           ask == IF c + half <= c - half THEN c - half + 1 ELSE c + half
<1>1. bid \in Int /\ ask \in Int
  OBVIOUS
<1> HIDE DEF bid, ask
<1>2. SB!Sided(bid, ask, inv) \in QuotesType
  BY <1>1, SidedTyped
<1> QED
  BY <1>2 DEF bid, ask

LEMMA CentreInt ==
  ASSUME NEW q \in TouchType, q.bid_size + q.ask_size # 0, NEW inv \in Int
  PROVE  SB!centre(q, inv) \in Int
<1>1. SB!micro(q) \in Int
  BY MicroInt
<1>2. SKEW \in Int
  BY DeskAssumption
<1>3. inv * SKEW \in Int
  BY <1>2, TimesInt
<1> QED
  BY <1>1, <1>3 DEF SB!centre

LEMMA MakerTyped ==
  ASSUME NEW q \in TouchType, NEW inv \in Int
  PROVE  SB!quote(q, inv) \in QuotesType
<1>1. CASE q.bid_size < MIN_BOOK \/ q.ask_size < MIN_BOOK \/ q.ask <= q.bid
  BY <1>1, NoQuotesTyped DEF SB!quote
<1>2. CASE ~(q.bid_size < MIN_BOOK \/ q.ask_size < MIN_BOOK \/ q.ask <= q.bid)
  <2> DEFINE c == SB!centre(q, inv)
  <2>1. q.bid_size + q.ask_size # 0
    <3>1. q.bid_size \in Nat /\ q.ask_size \in Nat /\ MIN_BOOK \in Nat \ {0}
      BY DeskAssumption DEF TouchType
    <3> QED
      BY <1>2, <3>1
  <2>2. c \in Int
    BY <2>1, CentreInt
  <2>3. SB!quote(q, inv) =
          SB!Sided(c - HALF_SPREAD,
                   IF c + HALF_SPREAD <= c - HALF_SPREAD THEN c - HALF_SPREAD + 1
                   ELSE c + HALF_SPREAD, inv)
    BY <1>2 DEF SB!quote
  <2>4. HALF_SPREAD \in Int
    BY DeskAssumption
  <2> HIDE DEF c
  <2> QED
    BY <2>2, <2>3, <2>4, AroundTyped
<1> QED
  BY <1>1, <1>2

LEMMA LeaningInt == \A inv, skew \in Int : SB!leaning(inv, skew) \in Int
BY DEF SB!leaning

LEMMA AvellanedaTyped ==
  ASSUME NEW q \in TouchType, NEW inv, NEW lean \in Int, NEW half \in AS_HALF
  PROVE  SB!as_quote(q, inv, lean, half) \in QuotesType
<1>1. half \in Int
  BY DeskAssumption
<1>2. CASE q.bid <= 0 \/ q.ask <= q.bid
  BY <1>2, NoQuotesTyped DEF SB!as_quote
<1>3. CASE ~(q.bid <= 0 \/ q.ask <= q.bid)
  <2> DEFINE fair == SB!as_fair(q)
             c == fair - lean
  <2>1. fair \in Int
    <3>1. CASE q.bid_size + q.ask_size = 0
      <4>1. q.bid + q.ask \in Int
        BY DEF TouchType
      <4>2. (q.bid + q.ask) \div 2 \in Int
        BY <4>1, DivideInt
      <4> QED
        BY <3>1, <4>2 DEF SB!as_fair
    <3>2. CASE q.bid_size + q.ask_size # 0
      BY <3>2, MicroInt DEF SB!as_fair
    <3> QED
      BY <3>1, <3>2
  <2> HIDE DEF fair
  <2>3. c \in Int
    BY <2>1
  <2>4. SB!as_quote(q, inv, lean, half) =
          SB!Sided(c - half, IF c + half <= c - half THEN c - half + 1 ELSE c + half, inv)
    BY <1>3 DEF SB!as_quote, fair
  <2> HIDE DEF c
  <2> QED
    BY <1>1, <2>3, <2>4, AroundTyped
<1> QED
  BY <1>2, <1>3

LEMMA FlowMakerTyped ==
  ASSUME NEW s \in FlowType, NEW q \in TouchType, NEW inv \in Int
  PROVE  SB!ofi_quote(s, q, TRUE, inv) \in QuotesType
<1>1. CASE ~SB!normal_quote(q, TRUE)
  BY <1>1, NoQuotesTyped DEF SB!ofi_quote
<1>2. CASE SB!normal_quote(q, TRUE)
  <2> DEFINE sum == SB!SumOf(s.buf)
             c == SB!centre(q, inv)
             mid == c + SB!tilt(sum)
             ask == IF mid + HALF_SPREAD <= mid - HALF_SPREAD THEN mid - HALF_SPREAD + 1
                    ELSE mid + HALF_SPREAD
             side == SB!Sided(mid - HALF_SPREAD, ask, inv)
  <2>1. sum \in Int
    BY SumOfInt DEF FlowType
  <2> HIDE DEF sum
  <2>2. SB!tilt(sum) \in Int
    <3>1. ALPHA_DEN \in Nat \ {0} /\ MAX_TILT \in Int
      BY DeskAssumption
    <3>2. sum \div ALPHA_DEN \in Int
      BY <2>1, <3>1, DivideInt
    <3> QED
      BY <3>1, <3>2 DEF SB!tilt
  <2>3. c \in Int
    BY <1>2, CentreInt DEF SB!normal_quote
  <2> HIDE DEF c
  <2>4. mid \in Int
    BY <2>2, <2>3
  <2>5. SB!ofi_quote(s, q, TRUE, inv) =
          [side EXCEPT !.bid = IF @ < 0 THEN 0 ELSE @, !.ask = IF @ < 0 THEN 0 ELSE @]
    BY <1>2 DEF SB!ofi_quote, c, sum
  <2>6. HALF_SPREAD \in Int
    BY DeskAssumption
  <2> HIDE DEF mid
  <2>7. side \in QuotesType
    BY <2>4, <2>6, AroundTyped
  <2> HIDE DEF side
  <2>8. side.bid \in Int /\ side.ask \in Int
    BY <2>7 DEF QuotesType
  <2> DEFINE b == IF side.bid < 0 THEN 0 ELSE side.bid
             a == IF side.ask < 0 THEN 0 ELSE side.ask
  <2>9. b \in Int /\ a \in Int
    BY <2>8
  <2>10. SB!ofi_quote(s, q, TRUE, inv) = [side EXCEPT !.bid = b, !.ask = a]
    BY <2>5
  <2> HIDE DEF b, a
  <2> QED
    BY <2>7, <2>9, <2>10 DEF QuotesType
<1> QED
  BY <1>1, <1>2

\* The fills of a decision, and of a maker's quotes.
LEMMA FillsTyped ==
  ASSUME NEW d, d = NoDec \/ d \in OrderType
  PROVE  /\ Fills(d) \in Seq(FillType) /\ Len(Fills(d)) <= 1
         /\ d = NoDec => Fills(d) = <<>>
         /\ d # NoDec => Fills(d) = <<Fill(d.action, d.size, d.price)>> /\ Len(Fills(d)) = 1
<1> DEFINE f == Fill(d.action, d.size, d.price)
<1>1. d \in OrderType => f \in FillType
  BY DEF OrderType, Fill, FillType
<1>2. (d = NoDec => Fills(d) = <<>>) /\ (d # NoDec => Fills(d) = <<f>>)
  BY DEF Fills
<1> HIDE DEF f
<1>3. <<>> \in Seq(FillType) /\ Len(<<>>) = 0 /\ Len(<<f>>) = 1
  OBVIOUS
<1>4. f \in FillType => <<f>> \in Seq(FillType)
  OBVIOUS
<1>5. Fills(d) \in Seq(FillType) /\ Len(Fills(d)) <= 1 /\ (d # NoDec => Len(Fills(d)) = 1)
  <2> DEFINE F == Fills(d)
  <2>1. F = <<>> \/ (F = <<f>> /\ f \in FillType /\ d # NoDec)
    BY <1>1, <1>2
  <2>2. d # NoDec => F = <<f>>
    BY <1>2
  <2>3. ASSUME F = <<>> PROVE F \in Seq(FillType) /\ Len(F) <= 1
    BY <1>3, <2>3
  <2>4. ASSUME F = <<f>>, f \in FillType PROVE F \in Seq(FillType) /\ Len(F) <= 1 /\ Len(F) = 1
    BY <1>3, <1>4, <2>4
  <2> HIDE DEF F
  <2>5. d # NoDec => Len(F) = 1
    BY <1>3, <2>2
  <2>6. F \in Seq(FillType) /\ Len(F) <= 1
    BY <2>1, <2>3, <2>4
  <2> QED
    BY <2>5, <2>6 DEF F
<1> QED
  BY <1>2, <1>5 DEF f

LEMMA HitsTyped ==
  ASSUME NEW q \in QuotesType, NEW hit
  PROVE  Hits(q, hit) \in Seq(FillType)
<1> DEFINE buy == IF "bid" \in hit /\ q.bid_size # 0 /\ q.bid # 0
                    THEN <<Fill("buy", q.bid_size, q.bid)>> ELSE <<>>
           sell == IF "ask" \in hit /\ q.ask_size # 0 /\ q.ask # 0
                    THEN <<Fill("sell", q.ask_size, q.ask)>> ELSE <<>>
<1>1. /\ q.bid_size # 0 => Fill("buy", q.bid_size, q.bid) \in FillType
      /\ q.ask_size # 0 => Fill("sell", q.ask_size, q.ask) \in FillType
  BY DEF QuotesType, Fill, FillType
<1>2. buy \in Seq(FillType) /\ sell \in Seq(FillType)
  BY <1>1
<1>3. Hits(q, hit) = buy \o sell
  BY DEF Hits
<1> HIDE DEF buy, sell
<1> QED
  BY <1>2, <1>3
-----------------------------------------------------------------------------
(* The strategy book of the panel.                                         *)

LegType == [inventory : Int, avg_cost : Int, realized : Int]
AdType ==
  {ad \in [name : StrategyName, leg : LegType, st : StType \cup FlowType] :
     (ad.name = "imbalance" => ad.st \in StType) /\ (ad.name = "ofi" => ad.st \in FlowType)}
IntentType ==
  [action : {"buy", "sell"}, price : Int, size : Int \ {0}, passive : BOOLEAN]
Asked == [ad : AdType, todo : Seq(IntentType)]

\* Parts are joined one after the other.
LEMMA JoinedTyped ==
  ASSUME NEW B, NEW n \in Nat, NEW s \in [1 .. n -> Seq(B)]
  PROVE  SB!FlattenSeq(s) \in Seq(B)
<1>1. Len(s) = n /\ s \in Seq(Seq(B))
  OBVIOUS
<1>2. CASE n = 0
  <2>1. SB!FlattenSeq(s) = s
    BY <1>1, <1>2 DEF SB!FlattenSeq
  <2>2. s = <<>>
    BY <1>1, <1>2
  <2> QED
    BY <2>1, <2>2
<1>3. CASE n # 0
  <2> DEFINE P == Seq(B)
             g == [x \in P \X (1 .. n) |-> x[1] \o s[x[2]]]
  <2>1. \A p \in P : \A k \in 1 .. n : g[<<p, k>>] = p \o s[k] /\ g[<<p, k>>] \in P
    <3> SUFFICES ASSUME NEW p \in P, NEW k \in 1 .. n
                 PROVE  g[<<p, k>>] = p \o s[k] /\ g[<<p, k>>] \in P
      OBVIOUS
    <3>1. s[k] \in P
      OBVIOUS
    <3>2. g[<<p, k>>] = p \o s[k]
      <4> HIDE DEF P
      <4> QED
        OBVIOUS
    <3> QED
      BY <3>1, <3>2, ConcatProperties
  <2>2. <<>> \in P
    OBVIOUS
  <2> HIDE DEF P, g
  <2>3. Keeps(g, P, n)
    BY <2>1 DEF Keeps
  <2>4. PICK f : FoldsInto(f, g, P, <<>>, n)
    BY <2>2, <2>3, FoldExists
  <2>5. Folds(f, g, P, <<>>, n)
    <3>1. \A t \in SUBSET (1 .. n) :
             f[t] = IF t = {} THEN <<>> ELSE g[<<f[t \ {Max(t)}], Max(t)>>]
      BY <2>4 DEF FoldsInto
    <3>2. {} \in SUBSET (1 .. n)
      OBVIOUS
    <3> QED
      BY <3>1, <3>2 DEF Folds
  <2>6. Runs(f, g, P, <<>>, n)
    BY <2>2, <2>3, <2>5, FoldRuns
  <2> DEFINE j == [i \in 1 .. n |-> f[1 .. i]]
             Rec(e) == [i \in 1 .. Len(s) |-> IF i = 1 THEN s[i] ELSE e[i - 1] \o s[i]]
             h == CHOOSE e : e = Rec(e)
  <2>7. /\ f[1 .. 0] = <<>> /\ \A k \in 0 .. n : f[1 .. k] \in P
        /\ \A k \in 0 .. n : k < n => f[1 .. k + 1] = g[<<f[1 .. k], k + 1>>]
    BY <2>6 DEF Runs
  <2>8. ASSUME NEW i \in 1 .. n
        PROVE  f[1 .. i] \in P /\ f[1 .. i] = IF i = 1 THEN s[i] ELSE f[1 .. (i - 1)] \o s[i]
    <3> DEFINE k == i - 1
    <3>1. k \in 0 .. n /\ k < n /\ k + 1 = i /\ i \in 0 .. n
      OBVIOUS
    <3>2. f[1 .. i] = g[<<f[1 .. k], i>>]
      BY <2>7, <3>1
    <3>3. f[1 .. k] \in P
      BY <2>7, <3>1
    <3>4. f[1 .. i] = f[1 .. k] \o s[i]
      BY <2>1, <3>2, <3>3
    <3>5. i = 1 => f[1 .. k] \o s[i] = s[i]
      <4> SUFFICES ASSUME i = 1 PROVE f[1 .. k] \o s[i] = s[i]
        OBVIOUS
      <4>1. k = 0 /\ s[i] \in Seq(B)
        OBVIOUS
      <4>2. f[1 .. k] = <<>>
        BY <2>7, <4>1
      <4> HIDE DEF k
      <4> QED
        BY <4>1, <4>2
    <3> QED
      BY <2>7, <3>1, <3>4, <3>5
  <2>9. j = Rec(j)
    <3>1. \A i \in 1 .. n : i # 1 => i - 1 \in 1 .. n
      OBVIOUS
    <3>2. \A i \in 1 .. n : j[i] = f[1 .. i]
      OBVIOUS
    <3>3. j = [i \in 1 .. n |-> f[1 .. i]]
      OBVIOUS
    <3> HIDE DEF j
    <3>4. \A i \in 1 .. n : j[i] = IF i = 1 THEN s[i] ELSE j[i - 1] \o s[i]
      BY <2>8, <3>1, <3>2
    <3>5. j = [i \in 1 .. n |-> j[i]]
      BY <3>2, <3>3, Zenon
    <3> QED
      BY <1>1, <3>4, <3>5, Zenon
  <2>10. h = Rec(h)
    BY <2>9, Zenon
  <2> HIDE DEF h, j
  <2>11. \A i \in 1 .. n : h[i] = IF i = 1 THEN s[i] ELSE h[i - 1] \o s[i]
    BY <1>1, <2>10, Zenon
  <2> DEFINE A == {i \in Nat : i \in 1 .. n => h[i] \in P}
  <2>12. 0 \in A
    OBVIOUS
  <2>13. ASSUME NEW i \in A PROVE i + 1 \in A
    <3> SUFFICES ASSUME i + 1 \in 1 .. n PROVE h[i + 1] \in P
      OBVIOUS
    <3> DEFINE k == i + 1
    <3>1. s[k] \in Seq(B)
      OBVIOUS
    <3>2. CASE i = 0
      <4>1. h[1] = s[1] /\ s[1] \in Seq(B)
        BY <1>3, <2>11
      <4> QED
        BY <3>2, <4>1 DEF P
    <3>3. CASE i # 0
      <4>1. i \in 1 .. n /\ i = k - 1 /\ k # 1
        BY <3>3
      <4>2. h[i] \in Seq(B)
        BY <4>1 DEF P
      <4>3. h[k] = h[i] \o s[k]
        BY <2>11, <4>1
      <4> QED
        BY <3>1, <4>2, <4>3, ConcatProperties DEF P
    <3> QED
      BY <3>2, <3>3
  <2>14. A = Nat
    <3> HIDE DEF A
    <3>1. A \in SUBSET Nat
      BY DEF A
    <3> QED
      BY <2>12, <2>13, <3>1, NatInduct
  <2>15. h[n] \in Seq(B)
    <3>1. n \in A
      <4> HIDE DEF A
      <4> QED
        BY <2>14
    <3>2. n \in 1 .. n
      BY <1>3
    <3> QED
      BY <3>1, <3>2 DEF P
  <2>16. SB!FlattenSeq(s) = h[n]
    BY <1>1, <1>3 DEF SB!FlattenSeq, h
  <2> QED
    BY <2>15, <2>16
<1> QED
  BY <1>2, <1>3

\* The taker of the strategy book is the same strategy.
LEMMA BookTakerTyped ==
  ASSUME NEW st \in StType, NEW q \in TouchType
  PROVE  LET r == SB!TakerStrategy!evaluate_touch(st, TRUE, q)
         IN  (r.dec = NoDec \/ r.dec \in OrderType) /\ r.st \in StType
<1>1. SB!TakerStrategy!evaluate_touch(st, TRUE, q) = SW!evaluate_touch(st, TRUE, q)
  BY DEF SB!TakerStrategy!evaluate_touch, SW!evaluate_touch, SB!TakerStrategy!evaluate, SW!evaluate,
         SB!TakerStrategy!weighted, SW!weighted, SB!TakerStrategy!lot, SW!lot,
         SB!TakerStrategy!MapThenSumSet, SW!MapThenSumSet, SB!TakerStrategy!MapThenFoldSet,
         SW!MapThenFoldSet
<1> QED
  BY <1>1, TakerTyped

LEMMA TakerIntents ==
  ASSUME NEW d, d = NoDec \/ d \in OrderType
  PROVE  SB!taker_intents(d) \in Seq(IntentType)
<1> DEFINE x == [action |-> d.action, price |-> d.price, size |-> d.size, passive |-> FALSE]
<1>1. d \in OrderType => x \in IntentType
  BY DEF OrderType, IntentType
<1>2. SB!taker_intents(d) = IF d = NoDec THEN <<>> ELSE <<x>>
  BY DEF SB!taker_intents
<1> HIDE DEF x
<1>3. d # NoDec => <<x>> \in Seq(IntentType)
  BY <1>1
<1> QED
  BY <1>2, <1>3

LEMMA MakerIntents ==
  ASSUME NEW k \in QuotesType
  PROVE  SB!maker_intents(k) \in Seq(IntentType)
<1> DEFINE buy == IF k.bid # 0 /\ k.bid_size # 0
                    THEN <<[action |-> "buy", price |-> k.bid, size |-> k.bid_size, passive |-> TRUE]>>
                    ELSE <<>>
           sell == IF k.ask # 0 /\ k.ask_size # 0
                    THEN <<[action |-> "sell", price |-> k.ask, size |-> k.ask_size, passive |-> TRUE]>>
                    ELSE <<>>
<1>1. /\ k.bid_size # 0 => [action |-> "buy", price |-> k.bid, size |-> k.bid_size, passive |-> TRUE]
                             \in IntentType
      /\ k.ask_size # 0 => [action |-> "sell", price |-> k.ask, size |-> k.ask_size, passive |-> TRUE]
                             \in IntentType
  BY DEF QuotesType, IntentType
<1>2. buy \in Seq(IntentType) /\ sell \in Seq(IntentType)
  BY <1>1
<1>3. SB!maker_intents(k) = buy \o sell
  BY DEF SB!maker_intents
<1> HIDE DEF buy, sell
<1> QED
  BY <1>2, <1>3

LEMMA HeldInt == ASSUME NEW leg \in LegType PROVE SB!held(leg) \in Int
<1>1. leg.inventory \in Int /\ BTC \in Nat \ {0}
  BY DeskAssumption DEF LegType
<1>2. SB!Size(leg.inventory) \in Int
  BY <1>1 DEF SB!Size
<1>3. SB!Size(leg.inventory) \div BTC \in Int /\ leg.inventory \div BTC \in Int
  BY <1>1, <1>2, DivideInt
<1> QED
  BY <1>3 DEF SB!held

LEMMA AskedTyped ==
  ASSUME NEW ad \in AdType, NEW q \in TouchType, NEW skew \in AS_SKEW, NEW half \in AS_HALF
  PROVE  SB!asked(ad, q, skew, half) \in Asked
<1> DEFINE inv == SB!held(ad.leg)
           lean == SB!leaning(ad.leg.inventory, skew)
           imb == SB!TakerStrategy!evaluate_touch(ad.st, TRUE, q)
           ofi == SB!update(ad.st, q, TRUE)
           r == SB!asked(ad, q, skew, half)
<1>1. /\ ad.name \in StrategyName /\ ad.leg \in LegType
      /\ ad.name = "imbalance" => ad.st \in StType
      /\ ad.name = "ofi" => ad.st \in FlowType
  BY DEF AdType
<1>6. inv \in Int
  BY <1>1, HeldInt
<1>7. lean \in Int
  <2>1. ad.leg.inventory \in Int /\ skew \in Int
    BY <1>1, DeskAssumption DEF LegType
  <2> QED
    BY <2>1, LeaningInt
<1> HIDE DEF inv, lean
<1>2. CASE ad.name = "imbalance"
  <2>1. r = [ad |-> [ad EXCEPT !.st = imb.st], todo |-> SB!taker_intents(imb.dec)]
    BY <1>2 DEF SB!asked
  <2>2. (imb.dec = NoDec \/ imb.dec \in OrderType) /\ imb.st \in StType
    BY <1>1, <1>2, BookTakerTyped
  <2> HIDE DEF imb, r
  <2>3. SB!taker_intents(imb.dec) \in Seq(IntentType)
    BY <2>2, TakerIntents
  <2>4. [ad EXCEPT !.st = imb.st] \in AdType
    BY <1>2, <2>2 DEF AdType
  <2>5. r \in Asked
    BY <2>1, <2>3, <2>4 DEF Asked
  <2> QED
    BY <2>5 DEF r
<1>3. CASE ad.name = "ofi"
  <2>1. r = [ad |-> [ad EXCEPT !.st = ofi.st], todo |-> SB!taker_intents(ofi.dec)]
    BY <1>3 DEF SB!asked
  <2>2. (ofi.dec = NoDec \/ ofi.dec \in OrderType) /\ ofi.st \in FlowType
    BY <1>1, <1>3, FlowTyped
  <2> HIDE DEF ofi, r
  <2>3. SB!taker_intents(ofi.dec) \in Seq(IntentType)
    BY <2>2, TakerIntents
  <2>4. [ad EXCEPT !.st = ofi.st] \in AdType
    BY <1>3, <2>2 DEF AdType
  <2>5. r \in Asked
    BY <2>1, <2>3, <2>4 DEF Asked
  <2> QED
    BY <2>5 DEF r
<1>4. CASE ad.name = "market_maker"
  <2> DEFINE todo == SB!maker_intents(SB!quote(q, inv))
  <2>1. r = [ad |-> ad, todo |-> todo]
    BY <1>4 DEF SB!asked, inv
  <2>2. todo \in Seq(IntentType)
    BY <1>6, MakerTyped, MakerIntents
  <2> HIDE DEF todo, r
  <2>3. r \in Asked
    BY <2>1, <2>2 DEF Asked
  <2> QED
    BY <2>3 DEF r
<1>5. CASE ad.name = "avellaneda"
  <2> DEFINE todo == SB!maker_intents(SB!as_quote(q, inv, lean, half))
  <2>1. r = [ad |-> ad, todo |-> todo]
    BY <1>5 DEF SB!asked, inv, lean
  <2>2. todo \in Seq(IntentType)
    BY <1>7, AvellanedaTyped, MakerIntents
  <2> HIDE DEF todo, r
  <2>3. r \in Asked
    BY <2>1, <2>2 DEF Asked
  <2> QED
    BY <2>3 DEF r
<1> QED
  BY <1>1, <1>2, <1>3, <1>4, <1>5 DEF StrategyName

\* What all strategies make of a quote, tagged with their place.
TaggedType(n) == [of : 1 .. n, intent : IntentType]
BookAnswer(out, n) == Len(out.ads) = n /\ out.ads \in Seq(AdType) /\ out.todo \in Seq(TaggedType(n))

LEMMA BookTyped ==
  ASSUME NEW ads \in Seq(AdType), NEW q \in TouchType, NEW skew \in AS_SKEW, NEW half \in AS_HALF
  PROVE  BookAnswer(SB!on_book(ads, q, skew, half), Len(ads))
<1> DEFINE n == Len(ads)
           out == [i \in DOMAIN ads |-> SB!asked(ads[i], q, skew, half)]
           tagged(i) == [k \in DOMAIN out[i].todo |-> [of |-> i, intent |-> out[i].todo[k]]]
           parts == [i \in DOMAIN ads |-> tagged(i)]
           next == [i \in DOMAIN ads |-> out[i].ad]
           r == SB!on_book(ads, q, skew, half)
<1>1. n \in Nat /\ DOMAIN ads = 1 .. n
  OBVIOUS
<1>2. r = [ads |-> next, todo |-> SB!FlattenSeq(parts)]
  BY DEF SB!on_book
<1>3. \A i \in 1 .. n : out[i] \in Asked
  <2>1. \A i \in 1 .. n : ads[i] \in AdType /\ out[i] = SB!asked(ads[i], q, skew, half)
    BY <1>1
  <2> HIDE DEF out
  <2> QED
    BY <2>1, AskedTyped
<1> HIDE DEF out, n, r
<1>4. Len(next) = n /\ next \in Seq(AdType)
  <2>1. \A i \in 1 .. n : out[i].ad \in AdType
    BY <1>3 DEF Asked
  <2> QED
    BY <1>1, <2>1
<1>5. parts \in [1 .. n -> Seq(TaggedType(n))]
  <2>1. ASSUME \A i \in 1 .. n : tagged(i) \in Seq(TaggedType(n))
        PROVE  parts \in [1 .. n -> Seq(TaggedType(n))]
    <3> HIDE DEF tagged
    <3> QED
      BY <1>1, <2>1
  <2> SUFFICES ASSUME NEW i \in 1 .. n PROVE tagged(i) \in Seq(TaggedType(n))
    BY <2>1
  <2> DEFINE todo == out[i].todo
  <2>2. todo \in Seq(IntentType)
    BY <1>3 DEF Asked
  <2> HIDE DEF todo
  <2>3. Len(todo) \in Nat /\ DOMAIN todo = 1 .. Len(todo)
        /\ \A k \in 1 .. Len(todo) : todo[k] \in IntentType
    BY <2>2
  <2>4. \A k \in 1 .. Len(todo) : [of |-> i, intent |-> todo[k]] \in TaggedType(n)
    BY <2>3 DEF TaggedType
  <2>5. tagged(i) = [k \in 1 .. Len(todo) |-> [of |-> i, intent |-> todo[k]]]
    BY <2>3 DEF todo
  <2> DEFINE m == Len(todo)
             x(k) == [of |-> i, intent |-> todo[k]]
             T == TaggedType(n)
             y == tagged(i)
  <2>6. m \in Nat /\ (\A k \in 1 .. m : x(k) \in T) /\ y = [k \in 1 .. m |-> x(k)]
    BY <2>3, <2>4, <2>5, Zenon
  <2> HIDE DEF m, x, T, y
  <2>7. y \in Seq(T)
    BY <2>6
  <2> QED
    BY <2>7, Zenon DEF y, T
<1> HIDE DEF parts, next
<1>6. SB!FlattenSeq(parts) \in Seq(TaggedType(n))
  BY <1>1, <1>5, JoinedTyped
<1>7. BookAnswer(r, n)
  BY <1>2, <1>4, <1>6 DEF BookAnswer
<1> QED
  BY <1>7 DEF r, n

\* A leg after a fill of some shares.
LEMMA LegTyped ==
  ASSUME NEW leg \in LegType, NEW signed \in Int, signed # 0, NEW px \in Int
  PROVE  SB!leg_fill(leg, signed, px) \in LegType
<1> DEFINE inv == leg.inventory + signed
           have == SB!Size(leg.inventory)
           amount == SB!Size(signed)
           closed == IF amount < have THEN amount ELSE have
           gain == IF leg.inventory > 0 THEN px - leg.avg_cost ELSE leg.avg_cost - px
           real == leg.realized + closed * gain
           cost == IF amount > closed THEN px ELSE IF inv = 0 THEN 0 ELSE leg.avg_cost
           blend == (leg.avg_cost * have + px * amount) \div SB!Size(inv)
           closing == leg.inventory # 0 /\ (leg.inventory > 0) # (signed > 0)
           r == SB!leg_fill(leg, signed, px)
<1>1. leg.inventory \in Int /\ leg.avg_cost \in Int /\ leg.realized \in Int /\ inv \in Int
  BY DEF LegType
<1>2. \A k \in Int : SB!Size(k) \in Nat /\ (k # 0 => SB!Size(k) # 0)
  BY DEF SB!Size
<1>3. have \in Int /\ amount \in Int
  BY <1>1, <1>2
<1>4. r = IF closing THEN [inventory |-> inv, realized |-> real, avg_cost |-> cost]
          ELSE [leg EXCEPT !.inventory = inv, !.avg_cost = blend]
  BY DEF SB!leg_fill
<1>5. real \in Int /\ cost \in Int
  <2> HIDE DEF have, amount, inv
  <2>1. closed \in Int /\ gain \in Int /\ cost \in Int
    BY <1>1, <1>3
  <2> HIDE DEF closed, gain
  <2>2. closed * gain \in Int
    BY <2>1, TimesInt
  <2> QED
    BY <1>1, <2>1, <2>2
<1>6. ~closing => blend \in Int
  <2> SUFFICES ASSUME ~closing PROVE blend \in Int
    OBVIOUS
  <2>1. inv # 0
    BY <1>1
  <2>2. SB!Size(inv) \in Nat \ {0}
    BY <1>1, <1>2, <2>1
  <2> HIDE DEF have, amount, inv
  <2>3. leg.avg_cost * have \in Int /\ px * amount \in Int
    BY <1>1, <1>3, TimesInt
  <2>4. leg.avg_cost * have + px * amount \in Int
    BY <2>3
  <2> QED
    BY <2>2, <2>4, DivideInt
<1> HIDE DEF inv, real, cost, blend, closing, r
<1>7. r \in LegType
  BY <1>1, <1>4, <1>5, <1>6 DEF LegType
<1> QED
  BY <1>7 DEF r

LEMMA LegFilled ==
  ASSUME NEW ads \in Seq(AdType), NEW i \in 1 .. Len(ads), NEW signed \in Int, signed # 0,
         NEW px \in Int
  PROVE  LET r == SB!on_fill(ads, i, signed, px) IN r \in Seq(AdType) /\ Len(r) = Len(ads)
<1> DEFINE r == SB!on_fill(ads, i, signed, px)
           ad == ads[i]
           leg == SB!leg_fill(ad.leg, signed, px)
           next == [ad EXCEPT !.leg = leg]
<1>1. ad \in AdType
  OBVIOUS
<1> HIDE DEF ad
<1>2. ad.leg \in LegType
  BY <1>1 DEF AdType
<1>3. leg \in LegType
  BY <1>2, LegTyped
<1>4. r = [ads EXCEPT ![i] = next]
  BY DEF SB!on_fill, ad
<1> HIDE DEF leg
<1>5. next \in AdType
  BY <1>1, <1>3 DEF AdType
<1> HIDE DEF next, r
<1>6. r \in Seq(AdType) /\ Len(r) = Len(ads)
  BY <1>4, <1>5
<1> QED
  BY <1>6 DEF r

LEMMA AdapterTyped == ASSUME NEW name \in StrategyName PROVE SB!Adapter(name) \in AdType
<1>1. SB!NewLeg \in LegType
  BY DEF SB!NewLeg, LegType
<1>2. SB!TakerStrategy!NewStrategy \in StType
  BY DEF SB!TakerStrategy!NewStrategy, StType
<1>3. SB!NewSignal \in FlowType
  BY DEF SB!NewSignal, FlowType
<1> DEFINE st == IF name = "ofi" THEN SB!NewSignal ELSE SB!TakerStrategy!NewStrategy
           ad == [name |-> name, leg |-> SB!NewLeg, st |-> st]
<1>4. SB!Adapter(name) = ad
  BY DEF SB!Adapter
<1>5. /\ st \in StType \cup FlowType /\ (name = "imbalance" => st \in StType)
      /\ (name = "ofi" => st \in FlowType)
  BY <1>2, <1>3
<1> HIDE DEF st
<1>6. ad \in AdType
  BY <1>1, <1>5 DEF AdType
<1> QED
  BY <1>4, <1>6

LEMMA NewBookTyped ==
  ASSUME NEW names \in Seq(StrategyName) PROVE SB!NewBook(names) \in Seq(AdType)
<1> DEFINE n == Len(names)
           ad(i) == SB!Adapter(names[i])
<1>1. n \in Nat /\ DOMAIN names = 1 .. n /\ \A i \in 1 .. n : names[i] \in StrategyName
  OBVIOUS
<1>2. \A i \in 1 .. n : ad(i) \in AdType
  BY <1>1, AdapterTyped
<1>3. SB!NewBook(names) = [i \in 1 .. n |-> ad(i)]
  BY <1>1 DEF SB!NewBook
<1> HIDE DEF ad, n
<1> QED
  BY <1>1, <1>2, <1>3

LEMMA EnabledTyped ==
  ASSUME NEW ads \in Seq(AdType), NEW name \in StrategyName
  PROVE  SB!enable(ads, name) \in Seq(AdType)
<1>1. SB!Adapter(name) \in AdType
  BY AdapterTyped
<1> QED
  BY <1>1 DEF SB!enable

LEMMA DisabledTyped ==
  ASSUME NEW ads \in Seq(AdType), NEW name
  PROVE  SB!disable(ads, name) \in Seq(AdType)
<1> DEFINE i == CHOOSE i \in DOMAIN ads : ads[i].name = name
<1>1. CASE name \in SB!Names(ads)
  <2>1. i \in DOMAIN ads
    BY <1>1 DEF SB!Names
  <2>2. SB!disable(ads, name) = SB!RemoveAt(ads, i)
    BY <1>1 DEF SB!disable
  <2> HIDE DEF i
  <2>3. Len(ads) \in Nat /\ DOMAIN ads = 1 .. Len(ads)
    OBVIOUS
  <2>4. SubSeq(ads, 1, i - 1) \in Seq(AdType) /\ SubSeq(ads, i + 1, Len(ads)) \in Seq(AdType)
    BY <2>1, <2>3, SubSeqProperties
  <2> QED
    BY <2>2, <2>4 DEF SB!RemoveAt
<1>2. CASE name \notin SB!Names(ads)
  BY <1>2 DEF SB!disable
<1> QED
  BY <1>1, <1>2
-----------------------------------------------------------------------------
(* The intents of a quote, one after the other.                            *)

CryptoType == [sym : Symbol, ads : Seq(AdType), position : Int, last : Int, mark : Nat]

\* What a quote of the panel makes of the strategies, the portfolio and the money.
Routes(n, p, s) ==
  {acc \in [crypto : CryptoType, pf : PfType, paid : Int] :
     acc.crypto.sym = s /\ Len(acc.crypto.ads) = n /\ Comes(p, s, acc.pf)}

LEMMA ComesMarked ==
  ASSUME NEW p, NEW s \in Symbol, NEW q \in PfType, Comes(p, s, q), NEW mid \in Nat
  PROVE  Comes(p, s, mark_price(q, s, mid)) /\ mark_price(q, s, mid) \in PfType
<1> DEFINE r == mark_price(q, s, mid)
<1>1. /\ r \in PfType /\ r.halted = q.halted /\ r.peak_equity = q.peak_equity
      /\ r.equity_curve = q.equity_curve /\ \A t \in Symbol \ {s} : r.books[t] = q.books[t]
  BY Marked
<1> HIDE DEF r
<1>2. Heeded(q) => Heeded(r)
  BY <1>1 DEF Heeded, Calm
<1>3. Comes(p, s, r) /\ r \in PfType
  BY <1>1, <1>2 DEF Comes
<1> QED
  BY <1>3 DEF r

LEMMA ComesItself == ASSUME NEW p \in PfType, NEW s PROVE Comes(p, s, p)
BY DEF Comes

LEMMA RoutedTyped ==
  ASSUME NEW n \in Nat, NEW p, NEW s \in Symbol, NEW acc \in Routes(n, p, s),
         NEW i \in 1 .. n, NEW intent \in IntentType, NEW q \in QuoteType, NEW late
  PROVE  Routed(acc, i, intent, q, late) \in Routes(n, p, s)
<1> DEFINE units == qty(intent.size)
           lot == micro(intent.size)
           signed == Signed(intent.action, units)
           price == intent.price
           c == acc.crypto
           place == c.position + signed
           moved == [c EXCEPT !.position = place, !.last = price]
           sent == [acc EXCEPT !.crypto.position = @ + signed, !.crypto.last = intent.price]
           ads == SB!on_fill(moved.ads, i, signed, price)
           filled == [moved EXCEPT !.ads = ads]
           marked == mark_price(acc.pf, s, Mid(q))
           booked == on_fill(marked, s, intent.action, lot, price)
           paid == acc.paid + Signed(intent.action, lot) * price
           last == [crypto |-> filled, pf |-> booked, paid |-> paid]
<1>1. /\ c \in CryptoType /\ acc.pf \in PfType /\ acc.paid \in Int
      /\ c.sym = s /\ Len(c.ads) = n /\ Comes(p, s, acc.pf)
  BY DEF Routes
<1>2. intent.action \in {"buy", "sell"} /\ intent.size \in Int /\ intent.size # 0 /\ price \in Int
  BY DEF IntentType
<1>14. units \in Int
  <2>1. QTY_PER_SHARE \in Int
    BY DeskAssumption
  <2> QED
    BY <1>2, <2>1, TimesInt DEF qty
<1>15. lot \in Int /\ lot # 0
  BY <1>14 DEF micro, Greater
<1>16. may_route(c, intent, late) => units # 0
  <2>1. MIN_QTY \in Nat \ {0}
    BY DeskAssumption
  <2> QED
    BY <1>14, <2>1 DEF may_route
<1> HIDE DEF units, lot
<1>3. signed \in Int /\ (may_route(c, intent, late) => signed # 0)
  BY <1>2, <1>14, <1>16 DEF Signed
<1> HIDE DEF signed
<1>4. moved \in CryptoType /\ moved.sym = s /\ moved.ads = c.ads
  <2>1. place \in Int
    BY <1>1, <1>3 DEF CryptoType
  <2> HIDE DEF place, c
  <2> QED
    BY <1>1, <1>2, <2>1 DEF CryptoType
<1>5. sent = [acc EXCEPT !.crypto = moved] /\ sent.crypto = moved
  <2>1. sent = [acc EXCEPT !.crypto = moved]
    BY DEF Routes, CryptoType, c
  <2> HIDE DEF sent, moved
  <2> QED
    BY <2>1 DEF Routes
<1> HIDE DEF moved
<1>6. sent \in Routes(n, p, s)
  <2> HIDE DEF sent
  <2> QED
    BY <1>1, <1>4, <1>5 DEF Routes
<1>7. may_route(c, intent, late) => ads \in Seq(AdType) /\ Len(ads) = n
  <2>1. moved.ads \in Seq(AdType) /\ Len(moved.ads) = n
    BY <1>1, <1>4 DEF CryptoType
  <2> QED
    BY <1>2, <1>3, <2>1, LegFilled
<1>8. may_route(c, intent, late) =>
        filled \in CryptoType /\ filled.sym = s /\ Len(filled.ads) = n
  <2> HIDE DEF ads
  <2> QED
    BY <1>4, <1>7 DEF CryptoType
<1>9. Comes(p, s, marked) /\ marked \in PfType
  <2>1. Mid(q) \in Nat
    BY QuoteTyped
  <2> QED
    BY <1>1, <2>1, ComesMarked
<1>10. Comes(p, s, booked) /\ booked \in PfType
  <2> HIDE DEF marked
  <2>1. Fill(intent.action, lot, price) \in FillType
    BY <1>2, <1>15 DEF Fill, FillType
  <2> DEFINE f == Fill(intent.action, lot, price)
  <2>2. booked = on_fill(marked, s, f.action, f.size, f.price)
    BY DEF Fill
  <2> HIDE DEF f, booked
  <2>3. f \in FillType
    BY <2>1 DEF f
  <2>4. Comes(p, s, booked)
    BY <1>9, <2>2, <2>3, FillComes
  <2> QED
    BY <2>4 DEF Comes
<1>11. paid \in Int
  <2>1. Signed(intent.action, lot) \in Int
    BY <1>15 DEF Signed
  <2>2. Signed(intent.action, lot) * price \in Int
    BY <1>2, <2>1, TimesInt
  <2> QED
    BY <1>1, <2>2
<1>12. may_route(c, intent, late) => last \in Routes(n, p, s)
  <2> HIDE DEF filled, booked, paid
  <2> QED
    BY <1>8, <1>10, <1>11 DEF Routes
<1>13. Routed(acc, i, intent, q, late) =
         IF ~may_route(c, intent, late) THEN acc
         ELSE IF ~reached(intent, q) THEN sent
         ELSE last
  <2>1. Routed(acc, i, intent, q, late) =
          IF ~may_route(c, intent, late) THEN acc
          ELSE IF ~reached(intent, q) THEN sent
          ELSE [crypto |-> [sent.crypto EXCEPT !.ads = SB!on_fill(@, i, signed, price)],
                pf |-> on_fill(mark_price(acc.pf, c.sym, Mid(q)), c.sym, intent.action, lot, price),
                paid |-> acc.paid + Signed(intent.action, lot) * price]
    BY DEF Routed, signed, units, lot
  <2> HIDE DEF sent
  <2> QED
    BY <1>1, <1>5, <2>1
<1> HIDE DEF last, sent
<1> QED
  BY <1>6, <1>12, <1>13

RouteEnd(base, todo, q, late) ==
  FoldLeftDomain(LAMBDA acc, k : Routed(acc, todo[k].of, todo[k].intent, q, k \in late), base, todo)

LEMMA RouteAll ==
  ASSUME NEW n \in Nat, NEW p, NEW s \in Symbol, NEW base \in Routes(n, p, s),
         NEW todo \in Seq(TaggedType(n)), NEW q \in QuoteType, NEW late
  PROVE  RouteEnd(base, todo, q, late) \in Routes(n, p, s)
<1> DEFINE m == Len(todo)
           P == Routes(n, p, s)
           route(acc, k) == Routed(acc, todo[k].of, todo[k].intent, q, k \in late)
           place == [k \in DOMAIN todo |-> k]
           g == [x \in P \X (1 .. m) |-> route(x[1], x[2])]
           Rec(e) == [t \in SUBSET (1 .. m) |-> IF t = {} THEN base
                      ELSE route(e[t \ {Max(t)}], place[Max(t)])]
           h == CHOOSE e : e = Rec(e)
           all == RouteEnd(base, todo, q, late)
<1>1. m \in Nat /\ DOMAIN todo = 1 .. m /\ DOMAIN place = 1 .. m
  OBVIOUS
<1>2. all = h[1 .. m]
  <2>1. all = (CHOOSE e : e = [t \in SUBSET (DOMAIN place) |-> IF t = {} THEN base
                 ELSE route(e[t \ {Max(t)}], place[Max(t)])])[DOMAIN place]
    BY DEF RouteEnd, FoldLeftDomain, FoldLeft, MapThenFoldSet
  <2> HIDE DEF route, m, place, all
  <2> QED
    BY <1>1, <2>1
<1>3. \A acc \in P : \A k \in 1 .. m : g[<<acc, k>>] \in P /\ g[<<acc, k>>] = route(acc, k)
  <2> SUFFICES ASSUME NEW acc \in P, NEW k \in 1 .. m
               PROVE  g[<<acc, k>>] \in P /\ g[<<acc, k>>] = route(acc, k)
    OBVIOUS
  <2>1. todo[k].of \in 1 .. n /\ todo[k].intent \in IntentType
    <3>1. todo[k] \in TaggedType(n)
      BY <1>1
    <3> QED
      BY <3>1 DEF TaggedType
  <2>2. route(acc, k) \in P
    BY <2>1, RoutedTyped
  <2>3. g[<<acc, k>>] = route(acc, k)
    <3> HIDE DEF P, route, m
    <3> QED
      OBVIOUS
  <2> QED
    BY <2>2, <2>3
<1>4. \A k \in 1 .. m : place[k] = k
  OBVIOUS
<1> HIDE DEF P, g, route, m, place, all
<1>5. Keeps(g, P, m)
  BY <1>3 DEF Keeps
<1>6. base \in P
  BY DEF P
<1>7. PICK f : FoldsInto(f, g, P, base, m)
  BY <1>1, <1>5, <1>6, FoldExists
<1>8. /\ f \in [SUBSET (1 .. m) -> P]
      /\ \A t \in SUBSET (1 .. m) :
           f[t] = IF t = {} THEN base ELSE g[<<f[t \ {Max(t)}], Max(t)>>]
  BY <1>7 DEF FoldsInto
<1>9. \A t \in SUBSET (1 .. m) : t # {} => Max(t) \in 1 .. m
  <2> SUFFICES ASSUME NEW t \in SUBSET (1 .. m), t # {} PROVE Max(t) \in 1 .. m
    OBVIOUS
  <2> QED
    BY <1>1, MaxInPlaces
<1>10. f = Rec(f)
  <2>1. \A t \in SUBSET (1 .. m) :
          f[t] = IF t = {} THEN base ELSE route(f[t \ {Max(t)}], place[Max(t)])
    <3> SUFFICES ASSUME NEW t \in SUBSET (1 .. m), t # {}
                 PROVE  f[t] = route(f[t \ {Max(t)}], place[Max(t)])
      BY <1>8
    <3>1. f[t \ {Max(t)}] \in P /\ Max(t) \in 1 .. m
      BY <1>8, <1>9
    <3>2. g[<<f[t \ {Max(t)}], Max(t)>>] = route(f[t \ {Max(t)}], Max(t))
      BY <1>3, <3>1
    <3> QED
      BY <1>4, <1>8, <3>1, <3>2
  <2> QED
    BY <1>8, <2>1
<1>11. h = Rec(h)
  BY <1>10
<1> HIDE DEF h
<1>12. Folds(h, g, P, base, m)
  <2>1. {} \in SUBSET (1 .. m)
    OBVIOUS
  <2>2. h[{}] = base
    BY <1>11, <2>1
  <2> SUFFICES ASSUME NEW t \in SUBSET (1 .. m), t # {}, h[t \ {Max(t)}] \in P
               PROVE  h[t] = g[<<h[t \ {Max(t)}], Max(t)>>]
    BY <2>2 DEF Folds
  <2>3. h[t] = route(h[t \ {Max(t)}], place[Max(t)]) /\ Max(t) \in 1 .. m
    BY <1>9, <1>11
  <2>4. place[Max(t)] = Max(t)
    BY <1>4, <2>3
  <2> QED
    BY <1>3, <2>3, <2>4
<1>13. Runs(h, g, P, base, m)
  BY <1>1, <1>5, <1>6, <1>12, FoldRuns
<1>14. h[1 .. m] \in P
  BY <1>1, <1>13 DEF Runs
<1> QED
  BY <1>2, <1>14 DEF P, all

\* The money after some fills of a symbol.
LEMMA MoneyAfter ==
  ASSUME NEW c \in Int, NEW fills \in Seq(FillType)
  PROVE  LET r == FoldLeft(LAMBDA m, f : m - Signed(f.action, f.size) * f.price, c, fills)
         IN  /\ r \in Int /\ (Len(fills) = 0 => r = c)
             /\ Len(fills) = 1 => r = c - Signed(fills[1].action, fills[1].size) * fills[1].price
<1> DEFINE n == Len(fills)
           P == Int
           pay(m, f) == m - Signed(f.action, f.size) * f.price
           g == [x \in P \X (1 .. n) |-> pay(x[1], fills[x[2]])]
           Rec(e) == [t \in SUBSET (1 .. n) |-> IF t = {} THEN c
                      ELSE pay(e[t \ {Max(t)}], fills[Max(t)])]
           h == CHOOSE e : e = Rec(e)
           all == FoldLeft(LAMBDA m, f : m - Signed(f.action, f.size) * f.price, c, fills)
<1>1. n \in Nat /\ DOMAIN fills = 1 .. n
  OBVIOUS
<1>2. all = h[1 .. n]
  <2>1. all = (CHOOSE e : e = [t \in SUBSET (DOMAIN fills) |-> IF t = {} THEN c
                 ELSE pay(e[t \ {Max(t)}], fills[Max(t)])])[DOMAIN fills]
    BY DEF FoldLeft, MapThenFoldSet
  <2> HIDE DEF pay, n, all
  <2> QED
    BY <1>1, <2>1
<1>3. \A m \in P : \A k \in 1 .. n : g[<<m, k>>] \in P /\ g[<<m, k>>] = pay(m, fills[k])
  <2> SUFFICES ASSUME NEW m \in P, NEW k \in 1 .. n
               PROVE  g[<<m, k>>] \in P /\ g[<<m, k>>] = pay(m, fills[k])
    OBVIOUS
  <2> DEFINE x == Signed(fills[k].action, fills[k].size)
             y == fills[k].price
  <2>1. x \in Int /\ y \in Int
    <3>1. fills[k] \in FillType
      BY <1>1
    <3> QED
      BY <3>1 DEF FillType, Signed
  <2>2. pay(m, fills[k]) \in P
    <3> HIDE DEF x, y
    <3>1. x * y \in Int
      BY <2>1, TimesInt
    <3>2. m - x * y \in Int
      BY <3>1
    <3> QED
      BY <3>2 DEF x, y
  <2>3. g[<<m, k>>] = pay(m, fills[k])
    <3> HIDE DEF P, pay, n
    <3> QED
      OBVIOUS
  <2> QED
    BY <2>2, <2>3
<1>4. c \in P
  OBVIOUS
<1> HIDE DEF P, g, pay, n, all
<1>5. Keeps(g, P, n)
  BY <1>3 DEF Keeps
<1>6. PICK f : FoldsInto(f, g, P, c, n)
  BY <1>1, <1>4, <1>5, FoldExists
<1>7. /\ f \in [SUBSET (1 .. n) -> P]
      /\ \A t \in SUBSET (1 .. n) :
           f[t] = IF t = {} THEN c ELSE g[<<f[t \ {Max(t)}], Max(t)>>]
  BY <1>6 DEF FoldsInto
<1>8. \A t \in SUBSET (1 .. n) : t # {} => Max(t) \in 1 .. n
  <2> SUFFICES ASSUME NEW t \in SUBSET (1 .. n), t # {} PROVE Max(t) \in 1 .. n
    OBVIOUS
  <2> QED
    BY <1>1, MaxInPlaces
<1>9. f = Rec(f)
  <2>1. \A t \in SUBSET (1 .. n) :
          f[t] = IF t = {} THEN c ELSE pay(f[t \ {Max(t)}], fills[Max(t)])
    <3> SUFFICES ASSUME NEW t \in SUBSET (1 .. n), t # {}
                 PROVE  f[t] = pay(f[t \ {Max(t)}], fills[Max(t)])
      BY <1>7
    <3>1. f[t \ {Max(t)}] \in P /\ Max(t) \in 1 .. n
      BY <1>7, <1>8
    <3>2. g[<<f[t \ {Max(t)}], Max(t)>>] = pay(f[t \ {Max(t)}], fills[Max(t)])
      BY <1>3, <3>1
    <3> QED
      BY <1>7, <3>2
  <2> QED
    BY <1>7, <2>1
<1>10. h = Rec(h)
  BY <1>9
<1> HIDE DEF h
<1>11. Folds(h, g, P, c, n)
  <2>1. {} \in SUBSET (1 .. n)
    OBVIOUS
  <2>2. h[{}] = c
    BY <1>10, <2>1
  <2> SUFFICES ASSUME NEW t \in SUBSET (1 .. n), t # {}, h[t \ {Max(t)}] \in P
               PROVE  h[t] = g[<<h[t \ {Max(t)}], Max(t)>>]
    BY <2>2 DEF Folds
  <2>3. h[t] = pay(h[t \ {Max(t)}], fills[Max(t)])
    BY <1>10
  <2> QED
    BY <1>3, <1>8, <2>3
<1>12. Runs(h, g, P, c, n)
  BY <1>1, <1>4, <1>5, <1>11, FoldRuns
<1>13. /\ h[1 .. 0] = c
       /\ \A k \in 0 .. n : h[1 .. k] \in P
       /\ \A k \in 0 .. n : k < n => h[1 .. k + 1] = g[<<h[1 .. k], k + 1>>]
  BY <1>12 DEF Runs
<1>14. h[1 .. n] \in P
  BY <1>1, <1>13
<1>15. n = 1 => h[1 .. n] = pay(c, fills[1])
  <2> SUFFICES ASSUME n = 1 PROVE h[1 .. 1] = pay(c, fills[1])
    OBVIOUS
  <2>1. 0 \in 0 .. n /\ 0 < n /\ 1 \in 1 .. n /\ 0 + 1 = 1
    OBVIOUS
  <2>2. h[1 .. 0 + 1] = g[<<h[1 .. 0], 0 + 1>>]
    BY <1>13, <2>1
  <2>3. h[1 .. 1] = g[<<c, 1>>]
    BY <1>13, <2>1, <2>2
  <2> QED
    BY <1>3, <1>4, <2>1, <2>3
<1> QED
  BY <1>2, <1>13, <1>14, <1>15 DEF P, n, pay, all
-----------------------------------------------------------------------------
(* The sends on the loop and the orders at IB, and the shares in them.     *)

SeqSum(e) == Sum(e, 1 .. Len(e))

LEMMA SeqSumInt == ASSUME NEW e \in Seq(Int) PROVE SeqSum(e) \in Int
<1>1. IsFiniteSet(1 .. Len(e)) /\ \A i \in 1 .. Len(e) : e[i] \in Int
  BY FS_Interval
<1> QED
  BY <1>1, SumType DEF SeqSum

LEMMA SeqSumAppend ==
  ASSUME NEW e \in Seq(Int), NEW x \in Int
  PROVE  SeqSum(Append(e, x)) = SeqSum(e) + x
<1> DEFINE n == Len(e)
           f == Append(e, x)
<1>1. n \in Nat /\ Len(f) = n + 1 /\ f[n + 1] = x
      /\ (\A i \in 1 .. n : f[i] = e[i]) /\ (\A i \in 1 .. n + 1 : f[i] \in Int)
  OBVIOUS
<1> HIDE DEF n, f
<1>2. Sum(f, 1 .. n + 1) = Sum(f, 1 .. n) + f[n + 1]
  BY <1>1, SumNext
<1>3. Sum(f, 1 .. n) = Sum(e, 1 .. n)
  <2>1. IsFiniteSet(1 .. n)
    BY <1>1, FS_Interval
  <2> QED
    BY <1>1, <2>1, SumSame
<1> QED
  BY <1>1, <1>2, <1>3 DEF SeqSum, n, f

LEMMA SeqSumTail ==
  ASSUME NEW e \in Seq(Int), e # <<>>
  PROVE  SeqSum(e) = Head(e) + SeqSum(Tail(e))
<1> DEFINE f == Tail(e)
           n == Len(f)
<1>1. /\ f \in Seq(Int) /\ Len(f) = Len(e) - 1 /\ Head(e) = e[1]
      /\ \A i \in 1 .. Len(f) : f[i] = e[i + 1]
  BY HeadTailProperties
<1>2. Len(e) \in Nat /\ \A i \in 1 .. Len(e) : e[i] \in Int
  OBVIOUS
<1> HIDE DEF f
<1>3. n \in Nat /\ Len(e) = n + 1
  BY <1>1, <1>2
<1> HIDE DEF n
<1>4. Sum(e, 1 .. n + 1) = e[1] + Sum(f, 1 .. n)
  BY <1>1, <1>2, <1>3, SumShift DEF n
<1> QED
  BY <1>1, <1>3, <1>4 DEF SeqSum, n, f

LEMMA SeqSumPut ==
  ASSUME NEW e \in Seq(Int), NEW i \in 1 .. Len(e), NEW x \in Int
  PROVE  SeqSum([e EXCEPT ![i] = x]) = SeqSum(e) - e[i] + x
<1> DEFINE n == Len(e)
           f == [e EXCEPT ![i] = x]
<1>1. /\ n \in Nat /\ Len(f) = n /\ f[i] = x /\ \A j \in 1 .. n : e[j] \in Int
      /\ \A j \in (1 .. n) \ {i} : f[j] = e[j]
  OBVIOUS
<1>2. IsFiniteSet(1 .. n)
  BY FS_Interval
<1> HIDE DEF f, n
<1>3. Sum(f, 1 .. n) = Sum(e, 1 .. n) - e[i] + f[i]
  <2> DEFINE S == 1 .. n
  <2>1. /\ IsFiniteSet(S) /\ i \in S /\ f[i] \in Int
        /\ (\A j \in S : e[j] \in Int) /\ \A j \in S \ {i} : f[j] = e[j]
    BY <1>1, <1>2 DEF n
  <2> HIDE DEF S
  <2>2. Sum(f, S) = f[i] + Sum(f, S \ {i}) /\ Sum(e, S) = e[i] + Sum(e, S \ {i})
    <3>1. \A j \in S : f[j] \in Int
      BY <2>1
    <3> QED
      BY <2>1, <3>1, SumRemove
  <2>3. IsFiniteSet(S \ {i})
    BY <2>1, FS_RemoveElement
  <2>4. Sum(f, S \ {i}) = Sum(e, S \ {i}) /\ Sum(e, S \ {i}) \in Int
    BY <2>1, <2>3, SumSame, SumType
  <2>5. Sum(f, S) = Sum(e, S) - e[i] + f[i]
    BY <2>1, <2>2, <2>4
  <2> QED
    BY <2>5 DEF S
<1> QED
  BY <1>1, <1>3 DEF SeqSum, n, f

LEMMA SeqSumConcat ==
  ASSUME NEW u \in Seq(Int)
  PROVE  \A v \in Seq(Int) : SeqSum(u \o v) = SeqSum(u) + SeqSum(v)
<1> DEFINE A == {m \in Nat : \A v \in Seq(Int) :
                               Len(v) = m => SeqSum(u \o v) = SeqSum(u) + SeqSum(v)}
<1>1. 0 \in A
  <2> SUFFICES ASSUME NEW v \in Seq(Int), Len(v) = 0 PROVE SeqSum(u \o v) = SeqSum(u) + SeqSum(v)
    OBVIOUS
  <2>1. u \o v = u /\ v = <<>>
    OBVIOUS
  <2>2. SeqSum(v) = 0
    BY <2>1, SumNone DEF SeqSum
  <2> QED
    BY <2>1, <2>2, SeqSumInt
<1>2. ASSUME NEW m \in A PROVE m + 1 \in A
  <2> SUFFICES ASSUME NEW v \in Seq(Int), Len(v) = m + 1
               PROVE  SeqSum(u \o v) = SeqSum(u) + SeqSum(v)
    OBVIOUS
  <2> DEFINE w == SubSeq(v, 1, m)
             x == v[m + 1]
  <2>1. m \in Nat
    OBVIOUS
  <2>2. w \in Seq(Int) /\ Len(w) = m /\ x \in Int
    OBVIOUS
  <2>3. v = Append(w, x)
    OBVIOUS
  <2> HIDE DEF w, x
  <2>4. u \o v = Append(u \o w, x) /\ u \o w \in Seq(Int)
    BY <2>2, <2>3
  <2>5. SeqSum(u \o w) = SeqSum(u) + SeqSum(w)
    BY <2>2
  <2>6. SeqSum(u \o v) = SeqSum(u \o w) + x /\ SeqSum(v) = SeqSum(w) + x
    BY <2>2, <2>3, <2>4, SeqSumAppend
  <2>7. SeqSum(u) \in Int /\ SeqSum(w) \in Int
    BY <2>2, SeqSumInt
  <2> QED
    BY <2>2, <2>5, <2>6, <2>7
<1>3. A = Nat
  <2> HIDE DEF A
  <2>1. A \in SUBSET Nat
    BY DEF A
  <2> QED
    BY <1>1, <1>2, <2>1, NatInduct
<1> QED
  BY <1>3

LEMMA SeqSumRemove ==
  ASSUME NEW e \in Seq(Int), NEW i \in 1 .. Len(e)
  PROVE  RemoveAt(e, i) \in Seq(Int) /\ SeqSum(RemoveAt(e, i)) = SeqSum(e) - e[i]
<1> DEFINE n == Len(e)
           u == SubSeq(e, 1, i - 1)
           v == SubSeq(e, i + 1, n)
           x == e[i]
<1>1. n \in Nat /\ (\A j \in 1 .. n : e[j] \in Int) /\ i \in 1 .. n
  OBVIOUS
<1>2. /\ u \in Seq(Int) /\ Len(u) = i - 1
      /\ \A j \in 1 .. i - 1 : u[j] = e[j]
  <2>1. \A j \in 1 .. i - 1 : e[j] \in Int
    BY <1>1
  <2>2. /\ u \in Seq(Int) /\ Len(u) = IF 1 <= i - 1 THEN i - 1 - 1 + 1 ELSE 0
        /\ \A j \in 1 .. i - 1 - 1 + 1 : u[j] = e[1 + j - 1]
    BY <2>1, SubSeqProperties
  <2> HIDE DEF u
  <2> QED
    BY <1>1, <2>2
<1>3. /\ v \in Seq(Int) /\ Len(v) = n - i
      /\ \A j \in 1 .. n - i : v[j] = e[i + j]
  <2>1. \A j \in i + 1 .. n : e[j] \in Int
    BY <1>1
  <2>2. /\ v \in Seq(Int) /\ Len(v) = IF i + 1 <= n THEN n - (i + 1) + 1 ELSE 0
        /\ \A j \in 1 .. n - (i + 1) + 1 : v[j] = e[i + 1 + j - 1]
    BY <1>1, <2>1, SubSeqProperties
  <2> HIDE DEF v, n
  <2> QED
    BY <1>1, <2>2
<1>4. RemoveAt(e, i) = u \o v
  BY DEF RemoveAt
<1> HIDE DEF u, v, n
<1> DEFINE w == Append(u, x)
<1>5. /\ w \in Seq(Int) /\ Len(w) = i /\ w[i] = x
      /\ \A j \in 1 .. i - 1 : w[j] = e[j]
  BY <1>1, <1>2
<1>6. e = w \o v
  <2> HIDE DEF w
  <2>1. /\ w \o v \in Seq(Int) /\ Len(w \o v) = Len(w) + Len(v)
        /\ \A j \in 1 .. Len(w) + Len(v) : (w \o v)[j] = IF j <= Len(w) THEN w[j] ELSE v[j - Len(w)]
    BY <1>3, <1>5, ConcatProperties
  <2>2. Len(w) + Len(v) = n
    BY <1>1, <1>3, <1>5
  <2>3. /\ w \o v \in Seq(Int) /\ Len(w \o v) = n
        /\ \A j \in 1 .. n : (w \o v)[j] = IF j <= i THEN w[j] ELSE v[j - i]
    BY <1>5, <2>1, <2>2, Zenon
  <2> DEFINE c == w \o v
  <2>4. Len(c) = n /\ c \in Seq(Int)
    BY <1>1, <2>3
  <2> HIDE DEF c
  <2>5. ASSUME NEW j \in 1 .. n PROVE e[j] = c[j]
    <3>1. c[j] = IF j <= i THEN w[j] ELSE v[j - i]
      BY <2>3, Zenon DEF c
    <3>2. CASE j < i
      BY <1>1, <1>5, <3>1, <3>2
    <3>3. CASE j = i
      BY <1>1, <1>5, <3>1, <3>3
    <3>4. CASE j > i
      <4>1. j - i \in 1 .. n - i /\ i + (j - i) = j
        BY <1>1, <3>4
      <4>2. v[j - i] = e[j]
        BY <1>3, <4>1
      <4> QED
        BY <1>1, <3>1, <3>4, <4>2
    <3> QED
      BY <1>1, <3>2, <3>3, <3>4
  <2> QED
    BY <2>4, <2>5, SeqEqual DEF c, n
<1> HIDE DEF w
<1>7. SeqSum(e) = SeqSum(w) + SeqSum(v) /\ SeqSum(u \o v) = SeqSum(u) + SeqSum(v)
  BY <1>2, <1>3, <1>5, <1>6, SeqSumConcat
<1>8. SeqSum(w) = SeqSum(u) + x
  BY <1>1, <1>2, SeqSumAppend DEF w
<1>9. SeqSum(u) \in Int /\ SeqSum(v) \in Int /\ x \in Int
  BY <1>1, <1>2, <1>3, SeqSumInt
<1> HIDE DEF x
<1>10. u \o v \in Seq(Int)
  BY <1>2, <1>3
<1> QED
  BY <1>4, <1>7, <1>8, <1>9, <1>10 DEF x

LEMMA SeqSumNat == \A e \in Seq(Nat) : SeqSum(e) \in Nat
<1> DEFINE A == {m \in Nat : \A e \in Seq(Nat) : Len(e) = m => SeqSum(e) \in Nat}
<1>1. 0 \in A
  <2> SUFFICES ASSUME NEW e \in Seq(Nat), Len(e) = 0 PROVE SeqSum(e) \in Nat
    OBVIOUS
  <2>1. SeqSum(e) = 0
    BY SumNone DEF SeqSum
  <2> QED
    BY <2>1
<1>2. ASSUME NEW m \in A PROVE m + 1 \in A
  <2> SUFFICES ASSUME NEW e \in Seq(Nat), Len(e) = m + 1 PROVE SeqSum(e) \in Nat
    OBVIOUS
  <2> DEFINE w == SubSeq(e, 1, m)
             x == e[m + 1]
  <2>1. m \in Nat
    OBVIOUS
  <2>2. w \in Seq(Nat) /\ w \in Seq(Int) /\ Len(w) = m /\ x \in Nat /\ e = Append(w, x)
    OBVIOUS
  <2> HIDE DEF w, x
  <2>3. SeqSum(w) \in Nat
    BY <2>2
  <2>4. SeqSum(e) = SeqSum(w) + x
    BY <2>2, SeqSumAppend
  <2> QED
    BY <2>2, <2>3, <2>4
<1>3. A = Nat
  <2> HIDE DEF A
  <2>1. A \in SUBSET Nat
    BY DEF A
  <2> QED
    BY <1>1, <1>2, <2>1, NatInduct
<1> QED
  BY <1>3

SendType == Symbol \X OrderType
SharesOf(seq) == FoldLeft(LAMBDA n, order : n + order[2].size, 0, seq)
SizesOf(seq) == [i \in 1 .. Len(seq) |-> seq[i][2].size]

LEMMA SizesTyped ==
  ASSUME NEW seq \in Seq(SendType)
  PROVE  /\ Len(seq) \in Nat /\ SizesOf(seq) \in Seq(Nat) /\ SizesOf(seq) \in Seq(Int)
         /\ Len(SizesOf(seq)) = Len(seq)
         /\ \A i \in 1 .. Len(seq) : SizesOf(seq)[i] = seq[i][2].size
<1> DEFINE n == Len(seq)
           size(i) == seq[i][2].size
<1>1. n \in Nat /\ \A i \in 1 .. n : seq[i] \in SendType
  OBVIOUS
<1>2. \A i \in 1 .. n : size(i) \in Nat
  BY <1>1 DEF SendType, OrderType
<1>3. SizesOf(seq) = [i \in 1 .. n |-> size(i)]
  BY DEF SizesOf
<1> HIDE DEF size, n
<1>4. /\ SizesOf(seq) \in Seq(Nat) /\ SizesOf(seq) \in Seq(Int) /\ Len(SizesOf(seq)) = n
      /\ \A i \in 1 .. n : SizesOf(seq)[i] = size(i)
  BY <1>1, <1>2, <1>3
<1> QED
  BY <1>1, <1>4 DEF n, size

LEMMA SharesAre ==
  ASSUME NEW seq \in Seq(SendType)
  PROVE  SharesOf(seq) = SeqSum(SizesOf(seq)) /\ SharesOf(seq) \in Nat
<1> DEFINE n == Len(seq)
           P == Int
           e == SizesOf(seq)
           plus(m, order) == m + order[2].size
           g == [x \in P \X (1 .. n) |-> x[1] + e[x[2]]]
           Rec(h) == [t \in SUBSET (1 .. n) |-> IF t = {} THEN 0
                      ELSE plus(h[t \ {Max(t)}], seq[Max(t)])]
           h == CHOOSE f : f = Rec(f)
<1>1. n \in Nat /\ DOMAIN seq = 1 .. n
  OBVIOUS
<1>2. SharesOf(seq) = h[1 .. n]
  <2>1. SharesOf(seq) = (CHOOSE f : f = [t \in SUBSET (DOMAIN seq) |-> IF t = {} THEN 0
                           ELSE plus(f[t \ {Max(t)}], seq[Max(t)])])[DOMAIN seq]
    BY DEF SharesOf, FoldLeft, MapThenFoldSet
  <2> HIDE DEF plus, n
  <2> QED
    BY <1>1, <2>1
<1>3. /\ e \in Seq(Int) /\ e \in Seq(Nat) /\ Len(e) = n
      /\ \A i \in 1 .. n : e[i] = seq[i][2].size /\ e[i] \in Int
  BY SizesTyped
<1>4. /\ \A m \in P : \A k \in 1 .. n : g[<<m, k>>] = plus(m, seq[k]) /\ g[<<m, k>>] = m + e[k]
      /\ \A m \in P : \A k \in 1 .. n : g[<<m, k>>] \in P
  <2>1. ASSUME NEW m \in P, NEW k \in 1 .. n
        PROVE  g[<<m, k>>] = plus(m, seq[k]) /\ g[<<m, k>>] = m + e[k] /\ g[<<m, k>>] \in P
    <3>1. e[k] = seq[k][2].size /\ e[k] \in Int
      BY <1>3
    <3> HIDE DEF e, n
    <3>2. g[<<m, k>>] = m + e[k]
      OBVIOUS
    <3> HIDE DEF g
    <3> QED
      BY <3>1, <3>2
  <2> HIDE DEF g, plus, P, n, e
  <2> QED
    BY <2>1
<1>5. 0 \in P
  OBVIOUS
<1> HIDE DEF P, g, plus, n, e
<1>6. Keeps(g, P, n)
  BY <1>4 DEF Keeps
<1>7. PICK f : FoldsInto(f, g, P, 0, n)
  BY <1>1, <1>5, <1>6, FoldExists
<1>8. /\ f \in [SUBSET (1 .. n) -> P]
      /\ \A t \in SUBSET (1 .. n) :
           f[t] = IF t = {} THEN 0 ELSE g[<<f[t \ {Max(t)}], Max(t)>>]
  BY <1>7 DEF FoldsInto
<1>9. \A t \in SUBSET (1 .. n) : t # {} => Max(t) \in 1 .. n
  <2> SUFFICES ASSUME NEW t \in SUBSET (1 .. n), t # {} PROVE Max(t) \in 1 .. n
    OBVIOUS
  <2> QED
    BY <1>1, MaxInPlaces
<1>10. f = Rec(f)
  <2>1. \A t \in SUBSET (1 .. n) :
          f[t] = IF t = {} THEN 0 ELSE plus(f[t \ {Max(t)}], seq[Max(t)])
    <3> SUFFICES ASSUME NEW t \in SUBSET (1 .. n), t # {}
                 PROVE  f[t] = plus(f[t \ {Max(t)}], seq[Max(t)])
      BY <1>8
    <3>1. f[t \ {Max(t)}] \in P /\ Max(t) \in 1 .. n
      BY <1>8, <1>9
    <3>2. g[<<f[t \ {Max(t)}], Max(t)>>] = plus(f[t \ {Max(t)}], seq[Max(t)])
      BY <1>4, <3>1
    <3> QED
      BY <1>8, <3>2
  <2> QED
    BY <1>8, <2>1
<1>11. h = Rec(h)
  BY <1>10
<1> HIDE DEF h
<1>12. Folds(h, g, P, 0, n)
  <2>1. {} \in SUBSET (1 .. n)
    OBVIOUS
  <2>2. h[{}] = 0
    BY <1>11, <2>1
  <2> SUFFICES ASSUME NEW t \in SUBSET (1 .. n), t # {}, h[t \ {Max(t)}] \in P
               PROVE  h[t] = g[<<h[t \ {Max(t)}], Max(t)>>]
    BY <2>2 DEF Folds
  <2>3. h[t] = plus(h[t \ {Max(t)}], seq[Max(t)])
    BY <1>11
  <2> QED
    BY <1>4, <1>9, <2>3
<1>13. Runs(h, g, P, 0, n)
  BY <1>1, <1>5, <1>6, <1>12, FoldRuns
<1>14. /\ h[1 .. 0] = 0
       /\ \A k \in 0 .. n : h[1 .. k] \in P
       /\ \A k \in 0 .. n : k < n => h[1 .. k + 1] = g[<<h[1 .. k], k + 1>>]
  BY <1>13 DEF Runs
<1> DEFINE A == {k \in Nat : k <= n => h[1 .. k] = Sum(e, 1 .. k)}
<1>15. 0 \in A
  BY <1>14, SumNone
<1>16. ASSUME NEW k \in A PROVE k + 1 \in A
  <2> SUFFICES ASSUME k + 1 <= n PROVE h[1 .. k + 1] = Sum(e, 1 .. k + 1)
    OBVIOUS
  <2>1. k \in Nat /\ k \in 0 .. n /\ k < n /\ k + 1 \in 1 .. n /\ h[1 .. k] = Sum(e, 1 .. k)
    BY <1>1
  <2> HIDE DEF A
  <2>2. h[1 .. k + 1] = g[<<h[1 .. k], k + 1>>] /\ h[1 .. k] \in P
    BY <1>14, <2>1
  <2>3. h[1 .. k + 1] = h[1 .. k] + e[k + 1]
    BY <1>4, <2>1, <2>2
  <2>4. \A i \in 1 .. k + 1 : e[i] \in Int
    <3>1. \A i \in 1 .. k + 1 : i \in 1 .. n
      BY <1>1, <2>1
    <3> QED
      BY <1>3, <3>1
  <2>5. Sum(e, 1 .. k + 1) = Sum(e, 1 .. k) + e[k + 1]
    BY <2>1, <2>4, SumNext
  <2> QED
    BY <2>1, <2>3, <2>5
<1>17. A = Nat
  <2> HIDE DEF A
  <2>1. A \in SUBSET Nat
    BY DEF A
  <2> QED
    BY <1>15, <1>16, <2>1, NatInduct
<1>18. h[1 .. n] = Sum(e, 1 .. n)
  <2>1. n \in A
    <3> HIDE DEF A
    <3> QED
      BY <1>1, <1>17
  <2> QED
    BY <1>1, <2>1
<1>19. SharesOf(seq) = SeqSum(e)
  BY <1>2, <1>18, <1>3 DEF SeqSum
<1> QED
  BY <1>19, <1>3, SeqSumNat DEF e

LEMMA SharesAppend ==
  ASSUME NEW seq \in Seq(SendType), NEW x \in SendType
  PROVE  Append(seq, x) \in Seq(SendType) /\ SharesOf(Append(seq, x)) = SharesOf(seq) + x[2].size
<1> DEFINE r == Append(seq, x)
           n == Len(seq)
           size == x[2].size
<1>1. r \in Seq(SendType) /\ n \in Nat /\ Len(r) = n + 1 /\ r[n + 1] = x
      /\ \A i \in 1 .. n : r[i] = seq[i]
  OBVIOUS
<1>2. size \in Int
  BY DEF SendType, OrderType
<1> HIDE DEF r, n
<1>3. SizesOf(r) = Append(SizesOf(seq), size)
  <2> DEFINE e == SizesOf(seq)
             f == SizesOf(r)
  <2>1. /\ e \in Seq(Int) /\ Len(e) = n /\ \A i \in 1 .. n : e[i] = seq[i][2].size
    BY SizesTyped DEF n
  <2>2. /\ f \in Seq(Int) /\ Len(f) = n + 1 /\ \A i \in 1 .. n + 1 : f[i] = r[i][2].size
    BY <1>1, SizesTyped
  <2> HIDE DEF e, f, size
  <2>3. \A i \in 1 .. n : f[i] = e[i]
    <3> SUFFICES ASSUME NEW i \in 1 .. n PROVE f[i] = e[i]
      OBVIOUS
    <3>1. i \in 1 .. n + 1
      BY <1>1
    <3>2. f[i] = r[i][2].size /\ r[i] = seq[i] /\ e[i] = seq[i][2].size
      BY <1>1, <2>1, <2>2, <3>1
    <3> QED
      BY <3>2
  <2>4. f[n + 1] = size
    <3>1. n + 1 \in 1 .. n + 1
      BY <1>1
    <3> QED
      BY <1>1, <2>2, <3>1 DEF size
  <2>5. f = Append(e, size)
    <3> DEFINE g == Append(e, size)
    <3>1. g \in Seq(Int) /\ Len(g) = n + 1 /\ (\A i \in 1 .. n : g[i] = e[i]) /\ g[n + 1] = size
      BY <1>2, <2>1, AppendProperties
    <3> HIDE DEF g
    <3>2. \A i \in 1 .. n + 1 : f[i] = g[i]
      BY <1>1, <2>3, <2>4, <3>1
    <3> QED
      BY <2>2, <3>1, <3>2, SeqEqual DEF g
  <2> QED
    BY <2>5 DEF e, f
<1> HIDE DEF size
<1>4. SeqSum(SizesOf(r)) = SeqSum(SizesOf(seq)) + size
  BY <1>2, <1>3, SizesTyped, SeqSumAppend
<1> QED
  BY <1>1, <1>4, SharesAre DEF r, size

LEMMA SharesTail ==
  ASSUME NEW seq \in Seq(SendType), seq # <<>>
  PROVE  /\ Head(seq) \in SendType /\ Tail(seq) \in Seq(SendType)
         /\ Len(Tail(seq)) = Len(seq) - 1 /\ Len(seq) \in Nat
         /\ SharesOf(seq) = Head(seq)[2].size + SharesOf(Tail(seq))
<1> DEFINE r == Tail(seq)
           n == Len(r)
<1>1. /\ Head(seq) \in SendType /\ r \in Seq(SendType) /\ Len(r) = Len(seq) - 1
      /\ \A i \in 1 .. Len(r) : r[i] = seq[i + 1]
  BY HeadTailProperties
<1>2. Len(seq) \in Nat /\ Head(seq) = seq[1] /\ Len(seq) # 0
  OBVIOUS
<1> HIDE DEF r
<1>3. n \in Nat /\ Len(seq) = n + 1
  BY <1>1, <1>2
<1> DEFINE e == SizesOf(seq)
           f == SizesOf(r)
<1>4. e \in Seq(Int) /\ Len(e) = n + 1 /\ \A i \in 1 .. n + 1 : e[i] = seq[i][2].size
  BY <1>3, SizesTyped
<1>5. f \in Seq(Int) /\ Len(f) = n /\ \A i \in 1 .. n : f[i] = r[i][2].size
  BY <1>1, SizesTyped
<1> HIDE DEF e, f, n
<1>6. e # <<>> /\ Head(e) = Head(seq)[2].size
  BY <1>2, <1>3, <1>4
<1>7. f = Tail(e)
  <2>1. /\ Tail(e) \in Seq(Int) /\ Len(Tail(e)) = n /\ \A i \in 1 .. n : Tail(e)[i] = e[i + 1]
    <3>1. /\ Tail(e) \in Seq(Int) /\ Len(Tail(e)) = Len(e) - 1
          /\ \A i \in 1 .. Len(Tail(e)) : Tail(e)[i] = e[i + 1]
      BY <1>4, <1>6, HeadTailProperties
    <3> QED
      BY <1>3, <1>4, <3>1
  <2>2. \A i \in 1 .. n : f[i] = Tail(e)[i]
    <3> SUFFICES ASSUME NEW i \in 1 .. n PROVE f[i] = Tail(e)[i]
      OBVIOUS
    <3>1. i + 1 \in 1 .. n + 1
      BY <1>3
    <3>2. r[i] = seq[i + 1] /\ e[i + 1] = seq[i + 1][2].size /\ f[i] = r[i][2].size
      BY <1>1, <1>4, <1>5, <3>1 DEF n
    <3> QED
      BY <2>1, <3>2
  <2> QED
    BY <1>5, <2>1, <2>2, SeqEqual
<1>8. SeqSum(e) = Head(e) + SeqSum(f)
  BY <1>4, <1>6, <1>7, SeqSumTail
<1> QED
  BY <1>1, <1>2, <1>6, <1>8, SharesAre DEF r, e, f

\* One element less.
LEMMA Removed ==
  ASSUME NEW S, NEW seq \in Seq(S), NEW i \in 1 .. Len(seq)
  PROVE  LET r == RemoveAt(seq, i)
         IN  /\ r \in Seq(S) /\ Len(r) = Len(seq) - 1
             /\ \A j \in 1 .. Len(seq) - 1 : r[j] = IF j < i THEN seq[j] ELSE seq[j + 1]
<1> DEFINE n == Len(seq)
           u == SubSeq(seq, 1, i - 1)
           v == SubSeq(seq, i + 1, n)
           r == RemoveAt(seq, i)
<1>1. n \in Nat /\ i \in 1 .. n /\ \A j \in 1 .. n : seq[j] \in S
  OBVIOUS
<1>2. u \in Seq(S) /\ Len(u) = i - 1 /\ \A j \in 1 .. i - 1 : u[j] = seq[j]
  <2>1. \A j \in 1 .. i - 1 : seq[j] \in S
    BY <1>1
  <2>2. /\ u \in Seq(S) /\ Len(u) = IF 1 <= i - 1 THEN i - 1 - 1 + 1 ELSE 0
        /\ \A j \in 1 .. i - 1 - 1 + 1 : u[j] = seq[1 + j - 1]
    BY <2>1, SubSeqProperties
  <2> HIDE DEF u
  <2> QED
    BY <1>1, <2>2
<1>3. v \in Seq(S) /\ Len(v) = n - i /\ \A j \in 1 .. n - i : v[j] = seq[i + j]
  <2>1. \A j \in i + 1 .. n : seq[j] \in S
    BY <1>1
  <2>2. /\ v \in Seq(S) /\ Len(v) = IF i + 1 <= n THEN n - (i + 1) + 1 ELSE 0
        /\ \A j \in 1 .. n - (i + 1) + 1 : v[j] = seq[i + 1 + j - 1]
    BY <1>1, <2>1, SubSeqProperties
  <2> HIDE DEF v, n
  <2> QED
    BY <1>1, <2>2
<1>4. r = u \o v
  BY DEF RemoveAt
<1> HIDE DEF u, v, n, r
<1>5. /\ u \o v \in Seq(S) /\ Len(u \o v) = Len(u) + Len(v)
      /\ \A j \in 1 .. Len(u) + Len(v) : (u \o v)[j] = IF j <= Len(u) THEN u[j] ELSE v[j - Len(u)]
  BY <1>2, <1>3, ConcatProperties
<1>6. Len(u) + Len(v) = n - 1
  BY <1>1, <1>2, <1>3
<1>7. ASSUME NEW j \in 1 .. n - 1 PROVE r[j] = IF j < i THEN seq[j] ELSE seq[j + 1]
  <2>1. r[j] = IF j <= Len(u) THEN u[j] ELSE v[j - Len(u)]
    BY <1>4, <1>5, <1>6, Zenon
  <2>2. CASE j < i
    <3>1. j <= Len(u) /\ j \in 1 .. i - 1
      BY <1>1, <1>2, <2>2
    <3> QED
      BY <1>2, <2>1, <2>2, <3>1
  <2>3. CASE ~(j < i)
    <3>1. ~(j <= Len(u)) /\ j - Len(u) \in 1 .. n - i /\ i + (j - Len(u)) = j + 1
      BY <1>1, <1>2, <2>3
    <3>2. v[j - Len(u)] = seq[j + 1]
      BY <1>3, <3>1
    <3> QED
      BY <2>1, <2>3, <3>1, <3>2
  <2> QED
    BY <2>2, <2>3
<1>8. r \in Seq(S) /\ Len(r) = n - 1
  BY <1>4, <1>5, <1>6
<1> QED
  BY <1>7, <1>8 DEF r, n

\* Shares of order i are executed: all of them, or some.
LEMMA SharesDone ==
  ASSUME NEW seq \in Seq(SendType), NEW i \in 1 .. Len(seq)
  PROVE  LET r == RemoveAt(seq, i)
         IN  r \in Seq(SendType) /\ SharesOf(r) = SharesOf(seq) - seq[i][2].size
<1> DEFINE n == Len(seq)
           r == RemoveAt(seq, i)
           e == SizesOf(seq)
           f == SizesOf(r)
           g == RemoveAt(e, i)
<1>1. n \in Nat /\ i \in 1 .. n
  OBVIOUS
<1>2. /\ r \in Seq(SendType) /\ Len(r) = n - 1
      /\ \A j \in 1 .. n - 1 : r[j] = IF j < i THEN seq[j] ELSE seq[j + 1]
  BY Removed
<1> HIDE DEF r
<1>3. e \in Seq(Int) /\ Len(e) = n /\ \A j \in 1 .. n : e[j] = seq[j][2].size
  BY SizesTyped
<1>4. f \in Seq(Int) /\ Len(f) = n - 1 /\ \A j \in 1 .. n - 1 : f[j] = r[j][2].size
  BY <1>2, SizesTyped
<1> HIDE DEF n, e, f
<1>5. /\ g \in Seq(Int) /\ Len(g) = n - 1
      /\ \A j \in 1 .. n - 1 : g[j] = IF j < i THEN e[j] ELSE e[j + 1]
  BY <1>1, <1>3, Removed
<1> HIDE DEF g
<1>6. \A j \in 1 .. n - 1 : f[j] = g[j]
  <2> SUFFICES ASSUME NEW j \in 1 .. n - 1 PROVE f[j] = g[j]
    OBVIOUS
  <2>1. j \in 1 .. n /\ j + 1 \in 1 .. n
    BY <1>1
  <2>2. f[j] = r[j][2].size /\ r[j] = IF j < i THEN seq[j] ELSE seq[j + 1]
    BY <1>2, <1>4, Zenon
  <2>3. g[j] = IF j < i THEN e[j] ELSE e[j + 1]
    BY <1>5, Zenon
  <2>4. e[j] = seq[j][2].size /\ e[j + 1] = seq[j + 1][2].size
    BY <1>3, <2>1, Zenon
  <2> QED
    BY <2>2, <2>3, <2>4, Zenon
<1>7. f = g
  BY <1>4, <1>5, <1>6, SeqEqual
<1>8. SeqSum(g) = SeqSum(e) - e[i]
  BY <1>1, <1>3, SeqSumRemove DEF g
<1>9. e[i] = seq[i][2].size
  BY <1>1, <1>3
<1> QED
  BY <1>2, <1>7, <1>8, <1>9, SharesAre DEF r, e, f

LEMMA SharesFewer ==
  ASSUME NEW seq \in Seq(SendType), NEW i \in 1 .. Len(seq), NEW k \in Nat, k < seq[i][2].size
  PROVE  LET r == [seq EXCEPT ![i][2].size = @ - k]
         IN  r \in Seq(SendType) /\ SharesOf(r) = SharesOf(seq) - k
<1> DEFINE n == Len(seq)
           x == seq[i]
           d == [x[2] EXCEPT !.size = @ - k]
           y == [x EXCEPT ![2] = d]
           r == [seq EXCEPT ![i][2].size = @ - k]
           e == SizesOf(seq)
           f == SizesOf(r)
<1>1. n \in Nat /\ i \in 1 .. n /\ x \in SendType
  OBVIOUS
<1>2. r = [seq EXCEPT ![i] = y]
  <2>1. x = <<x[1], x[2]>> /\ x[2] \in OrderType
    BY <1>1 DEF SendType
  <2> QED
    OBVIOUS
<1>3. y \in SendType /\ y[2].size = x[2].size - k
  <2>1. x[1] \in Symbol /\ x[2] \in OrderType /\ x = <<x[1], x[2]>>
    BY <1>1 DEF SendType
  <2> HIDE DEF x
  <2>2. d \in OrderType /\ d.size = x[2].size - k
    <3> DEFINE size == x[2].size - k
    <3>1. size \in Nat \ {0}
      BY <2>1 DEF OrderType, x
    <3> HIDE DEF size
    <3>2. LET c == [x[2] EXCEPT !.size = size] IN c \in OrderType /\ c.size = size
      BY <2>1, <3>1 DEF OrderType
    <3> QED
      BY <3>2 DEF size
  <2> HIDE DEF d
  <2>3. y = <<x[1], d>>
    BY <2>1
  <2> QED
    BY <2>1, <2>2, <2>3 DEF SendType
<1> HIDE DEF x, y, r
<1>4. r \in Seq(SendType) /\ Len(r) = n /\ r[i] = y /\ \A j \in (1 .. n) \ {i} : r[j] = seq[j]
  BY <1>1, <1>2, <1>3
<1>5. e \in Seq(Int) /\ Len(e) = n /\ \A j \in 1 .. n : e[j] = seq[j][2].size
  BY SizesTyped
<1>6. f \in Seq(Int) /\ Len(f) = n /\ \A j \in 1 .. n : f[j] = r[j][2].size
  BY <1>4, SizesTyped
<1> HIDE DEF n, e, f
<1>7. e[i] = x[2].size /\ e[i] - k \in Int
  BY <1>1, <1>5 DEF x
<1>8. f = [e EXCEPT ![i] = e[i] - k]
  <2> DEFINE g == [e EXCEPT ![i] = e[i] - k]
  <2>1. /\ g \in Seq(Int) /\ Len(g) = n /\ g[i] = e[i] - k
        /\ \A j \in (1 .. n) \ {i} : g[j] = e[j]
    BY <1>1, <1>5, <1>7
  <2> HIDE DEF g
  <2>2. \A j \in 1 .. n : f[j] = g[j]
    BY <1>3, <1>4, <1>5, <1>6, <1>7, <2>1
  <2>3. f = g
    BY <1>6, <2>1, <2>2, SeqEqual
  <2> QED
    BY <2>3 DEF g
<1>9. SeqSum(f) = SeqSum(e) - e[i] + (e[i] - k)
  BY <1>1, <1>5, <1>7, <1>8, SeqSumPut
<1>10. SeqSum(e) \in Int
  BY <1>5, SeqSumInt
<1>11. SeqSum(f) = SeqSum(e) - k
  BY <1>5, <1>1, <1>9, <1>10
<1> QED
  BY <1>4, <1>11, SharesAre DEF r, e, f
-----------------------------------------------------------------------------
(* The inductive invariant.                                                *)

GuardType == [killed : BOOLEAN, position : Int, reference_price : Int]
FeedType ==
  [st : StType, flow : FlowType, guard : GuardType, running : BOOLEAN,
   last : QuoteType \cup {NoQuote}, mids : Seq(Int)]
Live == {"stream", "ibkr"}

DeskType ==
  /\ pf \in PfType /\ feed \in [Symbol -> FeedType]
  /\ path = "backofi" => \A s \in Symbol : Len(feed[s].flow.buf) > 0
  /\ scheduled \in Seq(SendType) /\ (path \notin Live => scheduled = <<>>)
  /\ working \in Seq(SendType) /\ (path # "ibkr" => working = <<>>)
  /\ path = "panel" => crypto \in CryptoType
  /\ cash \in [Symbol -> Int]

\* Without a trip the equity after the fills has never fallen by the limit.
KillInv == (pf.halted => tripped) /\ (~tripped => Calm(pf))

\* After a trip, what was traded and what may still trade is what was under way then, in
\* the runs that look at the kill switch.
HaltInv ==
  /\ leftover \in Nat
  /\ path \in Heeding =>
       /\ after \in Nat
       /\ ~pf.halted => after = 0
       /\ path \notin Live => after = 0
       /\ pf.halted => after + OnTheWay(scheduled, working) <= leftover

DeskInv == DeskType /\ KillInv /\ HaltInv

LEMMA UnderWay ==
  OnTheWay(scheduled, working) =
    IF path = "ibkr" THEN SharesOf(scheduled) + SharesOf(working) ELSE Len(scheduled)
BY DEF OnTheWay, SharesOf

LEMMA UnderWayNext ==
  OnTheWay(scheduled', working') =
    IF path = "ibkr" THEN SharesOf(scheduled') + SharesOf(working') ELSE Len(scheduled')
BY DEF OnTheWay, SharesOf

\* The portfolio, the money and the count of fills after some fills.
LEMMA BookedTyped ==
  ASSUME DeskType, NEW s \in Symbol, NEW before \in PfType, Comes(pf, s, before),
         NEW fills \in Seq(FillType), Booked(s, before, fills)
  PROVE  /\ Comes(pf, s, pf') /\ cash' \in [Symbol -> Int]
         /\ after' = IF pf.halted THEN after + Len(fills) ELSE 0
         /\ Len(fills) = 0 => pf' = before /\ cash' = cash
         /\ Len(fills) = 1 =>
              /\ pf' = on_fill(before, s, fills[1].action, fills[1].size, fills[1].price)
              /\ cash' = [cash EXCEPT ![s] =
                            @ - Signed(fills[1].action, fills[1].size) * fills[1].price]
<1>1. cash \in [Symbol -> Int]
  BY DEF DeskType
<1>2. /\ Comes(pf, s, Books(before, s, fills))
      /\ Len(fills) = 0 => Books(before, s, fills) = before
      /\ Len(fills) = 1 =>
           Books(before, s, fills) = on_fill(before, s, fills[1].action, fills[1].size,
                                             fills[1].price)
  BY BooksCome
<1> DEFINE c == cash[s]
           r == FoldLeft(LAMBDA m, f : m - Signed(f.action, f.size) * f.price, c, fills)
<1>3. c \in Int
  BY <1>1
<1> HIDE DEF c
<1>4. /\ r \in Int /\ (Len(fills) = 0 => r = c)
      /\ Len(fills) = 1 => r = c - Signed(fills[1].action, fills[1].size) * fills[1].price
  BY <1>3, MoneyAfter
<1>5. /\ pf' = Books(before, s, fills) /\ cash' = [cash EXCEPT ![s] = r]
      /\ after' = IF pf.halted THEN after + Len(fills) ELSE 0
  BY DEF Booked, c
<1> HIDE DEF r
<1>6. cash' \in [Symbol -> Int] /\ (Len(fills) = 0 => cash' = cash)
  BY <1>1, <1>4, <1>5 DEF c
<1>7. Len(fills) = 1 =>
        cash' = [cash EXCEPT ![s] = @ - Signed(fills[1].action, fills[1].size) * fills[1].price]
  BY <1>4, <1>5 DEF c
<1> QED
  BY <1>2, <1>5, <1>6, <1>7

LEMMA TimesAtMost ==
  ASSUME NEW h \in Int, NEW p \in Nat \ {0}, NEW k \in Int, k <= h \div p
  PROVE  k * p <= h
<1> DEFINE d == h \div p
           m == h % p
<1>1. d \in Int /\ m \in 0 .. p - 1 /\ h = d * p + m
  OBVIOUS
<1> HIDE DEF d, m
<1>2. \A a \in Int : a >= 0 => a * p >= 0
  OBVIOUS
<1>3. (d - k) * p >= 0
  BY <1>1, <1>2 DEF d
<1>4. (d - k) * p = d * p - k * p /\ d * p \in Int /\ k * p \in Int
  BY <1>1
<1> QED
  BY <1>1, <1>3, <1>4

\* What a decision adds at its price, on top of what the books hold, is within the limit.
Within(p, s, d) ==
  (IF d.action = "buy" THEN p.books[s].pos >= 0 ELSE p.books[s].pos <= 0) =>
    gross_exposure(p) + d.size * d.price <= max_gross_notional

LEMMA WithinRoom ==
  ASSUME NEW p \in PfType, NEW s \in Symbol, NEW d \in OrderType, NEW e \in OrderType,
         e.action = d.action, e.price = d.price, e.size <= gross_room(p, s, d.action, d.price)
  PROVE  Within(p, s, e)
<1> DEFINE head == max_gross_notional - gross_exposure(p)
           adding == IF e.action = "buy" THEN p.books[s].pos >= 0 ELSE p.books[s].pos <= 0
<1>1. p.books \in Books0
  BY DEF PfType
<1>2. gross_exposure(p) \in Int /\ max_gross_notional \in Int
  BY <1>1, EquityInt, PortfolioAssumption
<1>3. e.price \in Nat \ {0} /\ e.size \in Nat \ {0}
  BY DEF OrderType
<1> SUFFICES ASSUME adding PROVE gross_exposure(p) + e.size * e.price <= max_gross_notional
  BY DEF Within
<1>4. gross_room(p, s, d.action, d.price) = IF head <= 0 THEN 0 ELSE head \div e.price
  BY DEF gross_room
<1>5. head \in Int
  BY <1>2
<1> HIDE DEF head
<1>6. e.size <= head \div e.price
  BY <1>3, <1>4
<1>7. e.size * e.price <= head
  BY <1>3, <1>5, <1>6, TimesAtMost
<1>8. e.size * e.price \in Int
  BY <1>3, TimesInt
<1> QED
  BY <1>2, <1>7, <1>8 DEF head

\* What a quote comes to: a mark, an order or none, and the strategy's state.
ProcessedTo(r, s) ==
  /\ r.marked \in PfType /\ Comes(pf, s, r.marked) /\ r.marked.halted = pf.halted
  /\ r.marked.books[s].pos = pf.books[s].pos
  /\ r.dec = NoDec \/ (r.dec \in OrderType /\ ~pf.halted /\ Within(r.marked, s, r.dec))
  /\ r.feed \in FeedType

LEMMA ProcessedTyped ==
  ASSUME DeskType, NEW s \in Symbol, NEW q \in QuoteType, NEW calm
  PROVE  ProcessedTo(Processed(s, q, calm), s)
<1> DEFINE f == feed[s]
           signal == SW!evaluate_touch(f.st, q.valid, Touch(q))
           marked == IF q.valid THEN mark_price(pf, s, Mid(q)) ELSE pf
           room == gross_room(marked, s, signal.dec.action, signal.dec.price)
           passed == G!evaluate(pf.halted, calm, signal.dec, q, f.guard.position, room)
           dec == IF signal.dec = NoDec THEN NoDec ELSE passed.dec
           ref == IF q.valid /\ f.guard.reference_price = 0 THEN Mid(q) ELSE f.guard.reference_price
           r == Processed(s, q, calm)
<1>1. f \in FeedType /\ pf \in PfType /\ pf.halted \in BOOLEAN
  BY DEF DeskType, PfType
<1>2. Touch(q) \in TouchType /\ Mid(q) \in Nat /\ q.valid \in BOOLEAN
  BY QuoteTyped
<1>3. r = [marked |-> marked, dec |-> dec,
           feed |-> [f EXCEPT !.st = signal.st, !.guard.reference_price = ref]]
  BY DEF Processed
<1>4. (signal.dec = NoDec \/ signal.dec \in OrderType) /\ signal.st \in StType
  BY <1>1, <1>2, TakerTyped DEF FeedType
<1>5. /\ marked \in PfType /\ Comes(pf, s, marked) /\ marked.halted = pf.halted
      /\ marked.books[s].pos = pf.books[s].pos
  <2>1. Comes(pf, s, pf)
    BY <1>1, ComesItself
  <2>2. LET m == mark_price(pf, s, Mid(q))
        IN  /\ m \in PfType /\ m.halted = pf.halted /\ m.books[s].pos = pf.books[s].pos
            /\ Comes(pf, s, m)
    BY <1>1, <1>2, <2>1, Marked, ComesMarked
  <2> QED
    BY <1>1, <2>1, <2>2
<1> HIDE DEF f, signal, marked, r
<1>6. dec = NoDec \/ (dec \in OrderType /\ ~pf.halted /\ Within(marked, s, dec))
  <2> SUFFICES ASSUME signal.dec # NoDec
               PROVE  \/ passed.dec = NoDec
                      \/ passed.dec \in OrderType /\ ~pf.halted /\ Within(marked, s, passed.dec)
    OBVIOUS
  <2> DEFINE d == signal.dec
  <2>1. d \in OrderType
    BY <1>4
  <2>2. d.price \in Nat \ {0}
    BY <2>1 DEF OrderType
  <2>3. room \in Int
    BY <1>5, <2>2, RoomInt
  <2>4. /\ \/ passed.dec = NoDec
           \/ (passed.dec \in OrderType /\ passed.dec.action = d.action
               /\ passed.dec.price = d.price /\ passed.dec.size <= room)
        /\ pf.halted => passed.dec = NoDec
    <3> HIDE DEF room
    <3> QED
      BY <2>1, <2>3, GauntletTyped
  <2> HIDE DEF d, passed
  <2>5. passed.dec # NoDec => Within(marked, s, passed.dec)
    BY <1>5, <2>1, <2>4, WithinRoom DEF d
  <2> QED
    BY <2>4, <2>5
<1>7. [f EXCEPT !.st = signal.st, !.guard.reference_price = ref] \in FeedType
  <2> DEFINE g == [f.guard EXCEPT !.reference_price = ref]
  <2>1. f.guard \in GuardType
    BY <1>1 DEF FeedType
  <2>2. ref \in Int
    BY <1>2, <2>1 DEF GuardType
  <2> HIDE DEF ref
  <2>3. g \in GuardType
    BY <2>1, <2>2 DEF GuardType
  <2>4. [f EXCEPT !.st = signal.st, !.guard.reference_price = ref]
          = [f EXCEPT !.st = signal.st, !.guard = g]
    BY <1>1 DEF FeedType
  <2> HIDE DEF g
  <2>5. [f EXCEPT !.st = signal.st, !.guard = g] \in FeedType
    BY <1>1, <1>4, <2>3 DEF FeedType
  <2> QED
    BY <2>4, <2>5
<1> HIDE DEF dec, ref
<1> DEFINE fd == [f EXCEPT !.st = signal.st, !.guard.reference_price = ref]
<1> HIDE DEF fd
<1>8. r.marked = marked /\ r.dec = dec /\ r.feed = fd /\ fd \in FeedType
  BY <1>3, <1>7 DEF fd
<1>9. ProcessedTo(r, s)
  BY <1>5, <1>6, <1>8 DEF ProcessedTo
<1> QED
  BY <1>9 DEF r

LEMMA RecordTyped ==
  ASSUME NEW f \in FeedType, NEW action, NEW k \in Int
  PROVE  LET g == [f EXCEPT !.guard = G!record_fill(@, action, k)]
         IN  g \in FeedType /\ g.flow = f.flow
<1> DEFINE n == IF action = "buy" THEN k ELSE -k
           place == f.guard.position + n
           g == [f.guard EXCEPT !.position = place]
<1>1. f.guard \in GuardType
  BY DEF FeedType
<1>2. G!record_fill(f.guard, action, k) = g
  BY DEF G!record_fill
<1>3. place \in Int
  BY <1>1 DEF GuardType
<1> HIDE DEF place
<1>4. g \in GuardType
  BY <1>1, <1>3 DEF GuardType
<1> HIDE DEF g
<1> QED
  BY <1>2, <1>4 DEF FeedType

\* A send: nothing comes of it, or it is booked, or it goes to IB.
NotSent(before) ==
  /\ pf' = before /\ cash' = cash /\ working' = working
  /\ after' = IF pf.halted THEN after ELSE 0
SentBooked(s, before, d) ==
  /\ path # "ibkr" /\ d \in OrderType /\ working' = working
  /\ pf' = on_fill(before, s, d.action, d.size, d.price)
  /\ cash' = [cash EXCEPT ![s] = @ - Signed(d.action, d.size) * d.price]
  /\ after' = IF pf.halted THEN after + 1 ELSE 0
SentToIB(s, before, d) ==
  /\ path = "ibkr" /\ d \in OrderType /\ working' = Append(working, <<s, d>>)
  /\ pf' = before /\ cash' = cash
  /\ after' = IF pf.halted THEN after ELSE 0

LEMMA SentTyped ==
  ASSUME DeskType, after \in Nat, NEW s \in Symbol, NEW f \in FeedType, NEW before \in PfType,
         Comes(pf, s, before),
         NEW cool, NEW d, cool => d \in OrderType, Sent(s, f, before, d, cool)
  PROVE  /\ Comes(pf, s, pf') /\ cash' \in [Symbol -> Int] /\ feed' \in [Symbol -> FeedType]
         /\ \/ NotSent(before)
            \/ cool /\ SentBooked(s, before, d)
            \/ cool /\ SentToIB(s, before, d)
<1> DEFINE placed == ~page.paused /\ cool /\ G!guard_check(f.guard, d, 0)
           fills == IF placed /\ path # "ibkr" THEN Fills(d) ELSE <<>>
           next == IF placed THEN [f EXCEPT !.guard = G!record_fill(@, d.action, d.size)] ELSE f
<1>1. /\ Booked(s, before, fills) /\ feed' = [feed EXCEPT ![s] = next]
      /\ working' = IF placed /\ path = "ibkr" THEN Append(working, <<s, d>>) ELSE working
  BY DEF Sent
<1>2. placed => d \in OrderType /\ d # NoDec /\ d.size \in Int /\ cool
  BY OrderIsDecision DEF OrderType
<1> HIDE DEF placed
<1>3. next \in FeedType
  BY <1>2, RecordTyped
<1>4. feed' \in [Symbol -> FeedType]
  <2> HIDE DEF next
  <2> QED
    BY <1>1, <1>3 DEF DeskType
<1>5. fills \in Seq(FillType)
  BY <1>2, FillsTyped
<1>6. /\ ~(placed /\ path # "ibkr") => Len(fills) = 0
      /\ placed /\ path # "ibkr" => Len(fills) = 1 /\ fills[1] = Fill(d.action, d.size, d.price)
  <2>1. placed /\ path # "ibkr" => fills = <<Fill(d.action, d.size, d.price)>> /\ Len(fills) = 1
    BY <1>2, FillsTyped
  <2>2. ~(placed /\ path # "ibkr") => fills = <<>>
    OBVIOUS
  <2> HIDE DEF fills
  <2> QED
    BY <2>1, <2>2
<1> HIDE DEF fills
<1>7. /\ Comes(pf, s, pf') /\ cash' \in [Symbol -> Int]
      /\ after' = IF pf.halted THEN after + Len(fills) ELSE 0
      /\ Len(fills) = 0 => pf' = before /\ cash' = cash
      /\ Len(fills) = 1 =>
           /\ pf' = on_fill(before, s, fills[1].action, fills[1].size, fills[1].price)
           /\ cash' = [cash EXCEPT ![s] =
                         @ - Signed(fills[1].action, fills[1].size) * fills[1].price]
  BY <1>1, <1>5, BookedTyped
<1>8. CASE ~placed
  <2>1. NotSent(before)
    BY <1>1, <1>6, <1>7, <1>8 DEF NotSent
  <2> QED
    BY <1>4, <1>7, <2>1
<1>9. CASE placed /\ path # "ibkr"
  <2>1. /\ Len(fills) = 1 /\ fills[1].action = d.action
        /\ fills[1].size = d.size /\ fills[1].price = d.price
    BY <1>6, <1>9 DEF Fill
  <2>2. SentBooked(s, before, d)
    BY <1>1, <1>2, <1>7, <1>9, <2>1 DEF SentBooked
  <2> QED
    BY <1>2, <1>4, <1>7, <1>9, <2>2
<1>10. CASE placed /\ path = "ibkr"
  <2>1. SentToIB(s, before, d)
    BY <1>1, <1>2, <1>6, <1>7, <1>10 DEF SentToIB
  <2> QED
    BY <1>2, <1>4, <1>7, <1>10, <2>1
<1> QED
  BY <1>8, <1>9, <1>10

\* The step of a taker with respect to the exposure that is allowed.
CapStep ==
  \A s \in Symbol :
    LET was == pf.books[s].pos  now == pf'.books[s].pos
        adds == (was >= 0 /\ now > was) \/ (was <= 0 /\ now < was)
        others == gross_exposure(pf') - Magnitude(now - was) * pf'.books[s].mark
    IN  path \in {"taker", "demo", "dryrun"} /\ adds =>
          others + Magnitude(cash'[s] - cash[s]) <= max_gross_notional

LEMMA SignOf ==
  /\ \A a, b \in Int : a >= 0 /\ b >= 0 => a * b >= 0
  /\ \A a, b \in Int : a <= 0 /\ b >= 0 => a * b <= 0
OBVIOUS

\* Shares that add to a position add to what it is worth.
LEMMA MoreOfTheSame ==
  ASSUME NEW was \in Int, NEW amount \in Int, NEW mark \in Nat,
         (was >= 0 /\ amount > 0) \/ (was <= 0 /\ amount < 0)
  PROVE  Magnitude((was + amount) * mark) = Magnitude(was * mark) + Magnitude(amount) * mark
<1> DEFINE a == was * mark
           b == amount * mark
<1>1. a \in Int /\ b \in Int /\ (was + amount) * mark = a + b
  OBVIOUS
<1>2. CASE was >= 0 /\ amount > 0
  <2>1. a >= 0 /\ b >= 0
    BY <1>2, SignOf
  <2>2. Magnitude(amount) = amount
    BY <1>2 DEF Magnitude
  <2>3. Magnitude(amount) * mark = b
    BY <2>2
  <2> HIDE DEF a, b
  <2>4. Magnitude(a + b) = a + b /\ Magnitude(a) = a
    BY <1>1, <2>1 DEF Magnitude
  <2> QED
    BY <1>1, <2>3, <2>4 DEF a
<1>3. CASE was <= 0 /\ amount < 0
  <2>1. a <= 0 /\ b <= 0
    BY <1>3, SignOf
  <2>2. Magnitude(amount) = -amount
    BY <1>3 DEF Magnitude
  <2>3. Magnitude(amount) * mark = -b
    <3>1. (-amount) * mark = -(amount * mark)
      OBVIOUS
    <3> QED
      BY <2>2, <3>1, Zenon
  <2> HIDE DEF a, b
  <2>4. Magnitude(a + b) = -(a + b) /\ Magnitude(a) = -a
    BY <1>1, <2>1 DEF Magnitude
  <2>5. -(a + b) = -a + -b
    BY <1>1
  <2>6. Magnitude(a + b) = Magnitude(a) + Magnitude(amount) * mark
    BY <2>3, <2>4, <2>5, Zenon
  <2> QED
    BY <1>1, <2>6, Zenon DEF a
<1> QED
  BY <1>2, <1>3

\* The exposure after a trade of one symbol.
LEMMA GrossAfter ==
  ASSUME NEW p \in PfType, NEW s \in Symbol, NEW b \in BookType, NEW r,
         r.books = [p.books EXCEPT ![s] = b]
  PROVE  /\ gross_exposure(p) \in Int
         /\ gross_exposure(r) = gross_exposure(p) - Magnitude(p.books[s].pos * p.books[s].mark)
                                + Magnitude(b.pos * b.mark)
<1> DEFINE w == GrossOf(p)
           v == GrossOf(r)
<1>1. p.books \in Books0
  BY DEF PfType
<1>2. \A t \in Symbol : p.books[t].pos \in Int /\ p.books[t].mark \in Int
  BY <1>1 DEF Books0, BookType
<1>3. \A t \in Symbol : Magnitude(p.books[t].pos * p.books[t].mark) \in Int
  <2> SUFFICES ASSUME NEW t \in Symbol PROVE Magnitude(p.books[t].pos * p.books[t].mark) \in Int
    OBVIOUS
  <2> DEFINE x == p.books[t].pos * p.books[t].mark
  <2>1. x \in Int
    BY <1>2, TimesInt
  <2> HIDE DEF x
  <2>2. Magnitude(x) \in Int
    BY <2>1, MagnitudeNat
  <2> QED
    BY <2>2 DEF x
<1>4. Magnitude(b.pos * b.mark) \in Int
  <2> DEFINE x == b.pos * b.mark
  <2>1. x \in Int
    BY TimesInt DEF BookType
  <2> HIDE DEF x
  <2>2. Magnitude(x) \in Int
    BY <2>1, MagnitudeNat
  <2> QED
    BY <2>2 DEF x
<1>5. r.books[s] = b /\ \A t \in Symbol \ {s} : r.books[t] = p.books[t]
  BY <1>1 DEF Books0
<1>6. /\ \A t \in Symbol : w[t] \in Int
      /\ v[s] = Magnitude(b.pos * b.mark) /\ w[s] = Magnitude(p.books[s].pos * p.books[s].mark)
      /\ v[s] \in Int /\ \A t \in Symbol \ {s} : v[t] = w[t]
  BY <1>3, <1>4, <1>5 DEF GrossOf
<1> HIDE DEF w, v
<1>7. Sum(w, Symbol) \in Int /\ Sum(v, Symbol) = Sum(w, Symbol) - w[s] + v[s]
  <2> DEFINE T == Symbol \ {s}
  <2>1. IsFiniteSet(Symbol) /\ IsFiniteSet(T)
    BY PortfolioAssumption, FS_RemoveElement
  <2>2. Sum(w, Symbol) = w[s] + Sum(w, T)
    BY <1>6, <2>1, SumRemove
  <2>3. \A t \in Symbol : v[t] \in Int
    BY <1>6
  <2>4. Sum(v, Symbol) = v[s] + Sum(v, T)
    BY <2>1, <2>3, SumRemove
  <2>5. \A t \in T : v[t] = w[t] /\ w[t] \in Int
    BY <1>6
  <2> HIDE DEF T
  <2>6. Sum(v, T) = Sum(w, T) /\ Sum(w, T) \in Int
    BY <2>1, <2>5, SumSame, SumType
  <2> QED
    BY <1>6, <2>2, <2>4, <2>6
<1> QED
  BY <1>6, <1>7, GrossIsSum DEF w, v

LEMMA CapBooked ==
  ASSUME DeskType, NEW s \in Symbol, NEW before \in PfType, Comes(pf, s, before),
         before.books[s].pos = pf.books[s].pos, NEW d \in OrderType, Within(before, s, d),
         SentBooked(s, before, d)
  PROVE  CapStep
<1> DEFINE b == before.books[s]
           amount == Signed(d.action, d.size)
           price == d.price
           c == Traded(b, amount, price)
<1>1. d.action \in {"buy", "sell"} /\ d.size \in Nat \ {0} /\ price \in Nat \ {0}
  BY DEF OrderType
<1>2. b \in BookType /\ b.pos \in Int /\ b.mark \in Nat
  BY DEF PfType, Books0, BookType
<1>3. /\ amount \in Int /\ amount # 0 /\ Magnitude(amount) = d.size
      /\ amount > 0 => d.action = "buy"
      /\ amount < 0 => d.action = "sell"
  BY <1>1 DEF Signed, Magnitude
<1>4. pf'.books = [before.books EXCEPT ![s] = c]
  <2>1. pf' = on_fill(before, s, d.action, d.size, price)
    BY DEF SentBooked
  <2>2. FillsTo(on_fill(before, s, d.action, d.size, price), before, s, amount, price)
    BY <1>1, Filled
  <2> QED
    BY <2>1, <2>2 DEF FillsTo
<1> HIDE DEF amount, price
<1>5. c \in BookType /\ c.pos = b.pos + amount /\ c.mark = b.mark
  <2>1. amount \in Int /\ amount # 0 /\ price \in Nat \ {0}
    BY <1>1, <1>3
  <2> HIDE DEF b
  <2> QED
    BY <1>2, <2>1, TradedTyped
<1> HIDE DEF c
<1>6. before.books \in Books0
  BY DEF PfType
<1>7. pf'.books[s] = c /\ \A t \in Symbol \ {s} : pf'.books[t] = before.books[t]
  BY <1>4, <1>6 DEF Books0
<1>8. \A t \in Symbol \ {s} : before.books[t] = pf.books[t]
  BY DEF Comes
<1>9. \A t \in Symbol : pf.books[t].pos \in Int
  BY DEF DeskType, PfType, Books0, BookType
<1>10. cash'[s] - cash[s] = -(amount * price) /\ amount * price \in Int
  <2>1. cash[s] \in Int
    BY DEF DeskType
  <2>2. amount * price \in Int
    BY <1>1, <1>3, TimesInt
  <2>3. cash'[s] = cash[s] - amount * price
    BY DEF SentBooked, DeskType, amount, price
  <2> QED
    BY <2>1, <2>2, <2>3
<1>11. Magnitude(cash'[s] - cash[s]) = d.size * price
  <2>1. amount = d.size \/ amount = -d.size
    BY DEF amount, Signed
  <2>2. d.size * price \in Nat
    BY <1>1
  <2>3. -(amount * price) = d.size * price \/ -(amount * price) = -(d.size * price)
    BY <1>1, <2>1
  <2> DEFINE x == -(amount * price)
             y == d.size * price
  <2>4. (x = y \/ x = -y) /\ y \in Nat
    BY <2>2, <2>3
  <2> HIDE DEF x, y
  <2>5. Magnitude(x) = y
    BY <2>4 DEF Magnitude
  <2> QED
    BY <1>10, <2>5 DEF x, y
<1>12. ASSUME (b.pos >= 0 /\ amount > 0) \/ (b.pos <= 0 /\ amount < 0)
       PROVE  gross_exposure(pf') - Magnitude(amount) * c.mark + d.size * price <= max_gross_notional
  <2>1. gross_exposure(before) + d.size * price <= max_gross_notional
    <3>1. IF d.action = "buy" THEN b.pos >= 0 ELSE b.pos <= 0
      BY <1>2, <1>3, <1>12
    <3> QED
      BY <3>1 DEF Within, price
  <2>2. /\ gross_exposure(before) \in Int
        /\ gross_exposure(pf') = gross_exposure(before) - Magnitude(b.pos * b.mark)
                                 + Magnitude(c.pos * c.mark)
    BY <1>4, <1>5, GrossAfter
  <2>3. Magnitude((b.pos + amount) * b.mark) = Magnitude(b.pos * b.mark) + Magnitude(amount) * b.mark
    BY <1>2, <1>3, <1>12, MoreOfTheSame
  <2> DEFINE g == Magnitude(b.pos * b.mark)
             m == Magnitude(amount) * b.mark
  <2>4. g \in Int /\ m \in Int
    <3>1. b.pos * b.mark \in Int
      BY <1>2, TimesInt
    <3> DEFINE x == b.pos * b.mark
    <3> HIDE DEF x
    <3>2. Magnitude(x) \in Int
      BY <3>1, MagnitudeNat DEF x
    <3>3. Magnitude(amount) \in Int /\ b.mark \in Int
      BY <1>2, <1>3, MagnitudeNat
    <3>4. Magnitude(amount) * b.mark \in Int
      BY <3>3, TimesInt
    <3> QED
      BY <3>2, <3>4 DEF x
  <2>5. gross_exposure(pf') = gross_exposure(before) - g + (g + m)
    BY <1>5, <2>2, <2>3
  <2>6. Magnitude(amount) * c.mark = m
    BY <1>5
  <2> HIDE DEF g, m
  <2>7. gross_exposure(pf') - m = gross_exposure(before)
    BY <2>2, <2>4, <2>5
  <2> QED
    BY <2>1, <2>6, <2>7
<1>13. ASSUME NEW t \in Symbol,
              \/ pf.books[t].pos >= 0 /\ pf'.books[t].pos > pf.books[t].pos
              \/ pf.books[t].pos <= 0 /\ pf'.books[t].pos < pf.books[t].pos
       PROVE  gross_exposure(pf') - Magnitude(pf'.books[t].pos - pf.books[t].pos) * pf'.books[t].mark
                + Magnitude(cash'[t] - cash[t]) <= max_gross_notional
  <2>1. t = s
    BY <1>7, <1>8, <1>9, <1>13
  <2>2. pf'.books[t].pos = b.pos + amount /\ pf.books[t].pos = b.pos /\ pf'.books[t].mark = c.mark
    BY <1>5, <1>7, <2>1
  <2>3. (b.pos >= 0 /\ amount > 0) \/ (b.pos <= 0 /\ amount < 0)
    BY <1>2, <1>3, <1>13, <2>2
  <2>4. pf'.books[t].pos - pf.books[t].pos = amount
    BY <1>2, <1>3, <2>2
  <2> QED
    BY <1>11, <1>12, <2>1, <2>2, <2>3, <2>4
<1> QED
  BY <1>13 DEF CapStep

\* The steps that leave the positions alone.
LEMMA CapIdle ==
  ASSUME DeskType, \A s \in Symbol : pf'.books[s].pos = pf.books[s].pos
  PROVE  CapStep
<1>1. \A s \in Symbol : pf.books[s].pos \in Int
  BY DEF DeskType, PfType, Books0, BookType
<1> QED
  BY <1>1 DEF CapStep

LEMMA CapElsewhere ==
  ASSUME path \notin {"taker", "demo", "dryrun"} PROVE CapStep
BY DEF CapStep
-----------------------------------------------------------------------------
(* The steps, each from a state of the invariant.                          *)

\* What a step does to the high-water mark, unless it lowers it.
KillStep == Calm(pf) /\ ~(path = "panel" /\ pf'.peak_equity < pf.peak_equity) => Heeded(pf')

StepOk == DeskType' /\ HaltInv' /\ KillStep /\ CapStep

\* The parts of the type that the steps change.
LEMMA StepTyped ==
  ASSUME path' = path, pf' \in PfType, feed' \in [Symbol -> FeedType],
         path = "backofi" => \A s \in Symbol : Len(feed'[s].flow.buf) > 0,
         scheduled' \in Seq(SendType), path \notin Live => scheduled' = <<>>,
         working' \in Seq(SendType), path # "ibkr" => working' = <<>>,
         path = "panel" => crypto' \in CryptoType,
         cash' \in [Symbol -> Int]
  PROVE  DeskType'
BY DEF DeskType

\* The steps that leave the orders alone, on a path where orders do not wait.
LEMMA Quiet ==
  ASSUME DeskInv, path \notin Live, UNCHANGED <<path, scheduled, working, leftover>>,
         path \in Heeding => after' = 0
  PROVE  /\ HaltInv' /\ scheduled' \in Seq(SendType) /\ scheduled' = <<>>
         /\ working' \in Seq(SendType) /\ working' = <<>>
<1>1. /\ scheduled \in Seq(SendType) /\ scheduled = <<>> /\ working \in Seq(SendType)
      /\ working = <<>> /\ leftover \in Nat
  BY DEF DeskInv, DeskType, HaltInv, Live
<1>2. OnTheWay(scheduled, working)' = 0
  BY <1>1 DEF OnTheWay, Live
<1> QED
  BY <1>1, <1>2 DEF HaltInv

LEMMA ComesKill ==
  ASSUME NEW s \in Symbol, Comes(pf, s, pf') PROVE KillStep /\ pf' \in PfType
BY DEF Comes, KillStep, Heeded

LEMMA PutFeed ==
  ASSUME DeskType, NEW s \in Symbol, NEW f \in FeedType, feed' = [feed EXCEPT ![s] = f]
  PROVE  feed' \in [Symbol -> FeedType]
BY DEF DeskType

LEMMA SamePlaces ==
  ASSUME NEW s \in Symbol, NEW r, Comes(pf, s, r), r.books[s].pos = pf.books[s].pos
  PROVE  \A t \in Symbol : r.books[t].pos = pf.books[t].pos
BY DEF Comes

\* A taker that books its own fills.
LEMMA TakerStep ==
  ASSUME DeskInv, NEW s \in Symbol, path \in {"taker", "demo", "dryrun"}, NEW f \in FeedType,
         NEW before \in PfType, Comes(pf, s, before), before.books[s].pos = pf.books[s].pos,
         before.halted = pf.halted, NEW cool, NEW d,
         cool => d \in OrderType /\ ~pf.halted /\ Within(before, s, d),
         Sent(s, f, before, d, cool), UNCHANGED <<path, scheduled, page, crypto, leftover>>
  PROVE  StepOk
<1>1. DeskType /\ after = 0 /\ after \in Nat /\ path \notin Live
  BY DEF DeskInv, HaltInv, Live, Heeding
<1>2. /\ Comes(pf, s, pf') /\ cash' \in [Symbol -> Int] /\ feed' \in [Symbol -> FeedType]
      /\ \/ NotSent(before)
         \/ cool /\ SentBooked(s, before, d)
         \/ cool /\ SentToIB(s, before, d)
  BY <1>1, SentTyped
<1>3. KillStep /\ pf' \in PfType
  BY <1>2, ComesKill
<1>4. NotSent(before) \/ (cool /\ SentBooked(s, before, d))
  BY <1>2 DEF SentToIB
<1>5. working' = working /\ after' = 0
  BY <1>1, <1>4 DEF NotSent, SentBooked
<1>6. /\ HaltInv' /\ scheduled' \in Seq(SendType) /\ scheduled' = <<>>
      /\ working' \in Seq(SendType) /\ working' = <<>>
  BY <1>1, <1>5, Quiet
<1>7. DeskType'
  BY <1>2, <1>3, <1>6, StepTyped
<1>8. CapStep
  <2>1. CASE NotSent(before)
    <3>1. pf' = before
      BY <2>1 DEF NotSent
    <3>2. \A t \in Symbol : pf'.books[t].pos = pf.books[t].pos
      BY <3>1, SamePlaces
    <3> QED
      BY <1>1, <3>2, CapIdle
  <2>2. CASE cool /\ SentBooked(s, before, d)
    BY <1>1, <2>2, CapBooked
  <2> QED
    BY <1>4, <2>1, <2>2
<1> QED
  BY <1>3, <1>6, <1>7, <1>8 DEF StepOk

LEMMA SimulateStep ==
  ASSUME DeskInv, NEW s \in Symbol, NEW q \in QuoteType, NEW calm, NEW cool,
         Simulate(s, q, calm, cool)
  PROVE  StepOk
<1> DEFINE r == Processed(s, q, calm)
           now == cool /\ r.dec # NoDec
<1>1. DeskType
  BY DEF DeskInv
<1>2. ProcessedTo(r, s)
  BY <1>1, ProcessedTyped
<1>3. /\ path = "taker" /\ Sent(s, r.feed, r.marked, r.dec, now)
      /\ UNCHANGED <<path, scheduled, page, crypto, leftover>>
  BY DEF Simulate
<1> HIDE DEF r
<1>4. /\ r.marked \in PfType /\ Comes(pf, s, r.marked) /\ r.marked.halted = pf.halted
      /\ r.marked.books[s].pos = pf.books[s].pos /\ r.feed \in FeedType
      /\ now => r.dec \in OrderType /\ ~pf.halted /\ Within(r.marked, s, r.dec)
  BY <1>2 DEF ProcessedTo
<1> HIDE DEF now
<1> QED
  BY <1>3, <1>4, TakerStep

LEMMA ObserveTyped ==
  ASSUME NEW mids \in Seq(Int), NEW mid \in Int PROVE G!observe(mids, mid) \in Seq(Int)
<1> DEFINE all == Append(mids, mid)
<1>1. all \in Seq(Int) /\ all # <<>>
  BY AppendProperties
<1> HIDE DEF all
<1>2. Tail(all) \in Seq(Int)
  BY <1>1
<1> QED
  BY <1>1, <1>2 DEF G!observe, all

LEMMA DemoStep ==
  ASSUME DeskInv, NEW s \in Symbol, NEW q \in QuoteType, NEW cool, Demo(s, q, cool)
  PROVE  StepOk
<1> DEFINE mids == IF q.valid THEN G!observe(feed[s].mids, Mid(q)) ELSE feed[s].mids
           r == Processed(s, q, G!calm_enough(mids))
           f == [r.feed EXCEPT !.mids = mids]
           now == cool /\ r.dec # NoDec
<1>1. DeskType
  BY DEF DeskInv
<1>2. ProcessedTo(r, s)
  <2> DEFINE calm == G!calm_enough(mids)
  <2> HIDE DEF calm
  <2>1. ProcessedTo(Processed(s, q, calm), s)
    BY <1>1, ProcessedTyped
  <2> QED
    BY <2>1 DEF calm
<1>3. /\ path = "demo" /\ Sent(s, f, r.marked, r.dec, now)
      /\ UNCHANGED <<path, scheduled, page, crypto, leftover>>
  BY DEF Demo
<1>4. mids \in Seq(Int)
  <2>1. feed[s].mids \in Seq(Int)
    BY <1>1 DEF DeskType, FeedType
  <2>2. Mid(q) \in Int
    BY QuoteTyped
  <2> QED
    BY <2>1, <2>2, ObserveTyped
<1> HIDE DEF r, mids
<1>5. /\ r.marked \in PfType /\ Comes(pf, s, r.marked) /\ r.marked.halted = pf.halted
      /\ r.marked.books[s].pos = pf.books[s].pos /\ r.feed \in FeedType
      /\ now => r.dec \in OrderType /\ ~pf.halted /\ Within(r.marked, s, r.dec)
  BY <1>2 DEF ProcessedTo
<1>6. f \in FeedType
  BY <1>4, <1>5 DEF FeedType
<1> HIDE DEF now, f
<1> QED
  BY <1>3, <1>5, <1>6, TakerStep

\* A smaller order is within the limit too.
LEMMA ClampedTyped ==
  ASSUME NEW p \in PfType, NEW s \in Symbol, NEW d \in OrderType, Within(p, s, d),
         NEW position \in Int
  PROVE  LET e == Clamped(position, d)
         IN  e.size > 0 => e \in OrderType /\ Within(p, s, e)
<1> DEFINE ahead == IF d.action = "buy" THEN position ELSE -position
           room == IF ahead < 0 THEN -ahead ELSE MAX_NET - ahead
           size == IF d.size < room THEN d.size ELSE room
           e == [d EXCEPT !.size = size]
<1>1. d.size \in Nat \ {0} /\ d.price \in Nat \ {0}
  BY DEF OrderType
<1>2. Clamped(position, d) = e
  BY DEF Clamped
<1>3. ahead \in Int
  OBVIOUS
<1> HIDE DEF ahead
<1>4. room \in Int
  BY <1>3, DeskAssumption
<1> HIDE DEF room
<1>5. size \in Int /\ size <= d.size
  BY <1>1, <1>4
<1> HIDE DEF size
<1>6. e.size = size /\ e.action = d.action /\ e.price = d.price /\ (size > 0 => e \in OrderType)
  BY <1>5 DEF OrderType
<1> HIDE DEF e
<1>7. size * d.price <= d.size * d.price /\ size * d.price \in Int /\ d.size * d.price \in Int
  <2> DEFINE gap == d.size - size
  <2>1. gap \in Int /\ gap >= 0 /\ gap * d.price = d.size * d.price - size * d.price
    BY <1>1, <1>5
  <2>2. size * d.price \in Int /\ d.size * d.price \in Int
    BY <1>1, <1>5, TimesInt
  <2> HIDE DEF gap
  <2>3. gap * d.price >= 0
    BY <1>1, <2>1, SignOf
  <2> QED
    BY <2>1, <2>2, <2>3
<1>8. gross_exposure(p) \in Int /\ max_gross_notional \in Int
  BY EquityInt, PortfolioAssumption DEF PfType
<1>9. Within(p, s, e)
  <2> DEFINE a == size * d.price
             b == d.size * d.price
             adding == IF d.action = "buy" THEN p.books[s].pos >= 0 ELSE p.books[s].pos <= 0
  <2>1. adding => gross_exposure(p) + b <= max_gross_notional
    BY DEF Within
  <2>2. a <= b /\ a \in Int /\ b \in Int
    BY <1>7
  <2> HIDE DEF a, b
  <2>3. adding => gross_exposure(p) + a <= max_gross_notional
    BY <1>8, <2>1, <2>2
  <2> QED
    BY <1>6, <2>3 DEF Within, a
<1> QED
  BY <1>2, <1>6, <1>9

LEMMA DryRunStep ==
  ASSUME DeskInv, NEW s \in Symbol, NEW q \in QuoteType, NEW calm, NEW cool,
         DryRun(s, q, calm, cool)
  PROVE  StepOk
<1> DEFINE r == Processed(s, q, calm)
           d == IF r.dec = NoDec THEN NoDec ELSE Clamped(r.feed.guard.position, r.dec)
           now == cool /\ d # NoDec /\ d.size > 0
<1>1. DeskType
  BY DEF DeskInv
<1>2. ProcessedTo(r, s)
  BY <1>1, ProcessedTyped
<1>3. /\ path = "dryrun" /\ Sent(s, r.feed, r.marked, d, now)
      /\ UNCHANGED <<path, scheduled, page, crypto, leftover>>
  BY DEF DryRun
<1> HIDE DEF r
<1>4. /\ r.marked \in PfType /\ Comes(pf, s, r.marked) /\ r.marked.halted = pf.halted
      /\ r.marked.books[s].pos = pf.books[s].pos /\ r.feed \in FeedType
      /\ r.dec # NoDec => r.dec \in OrderType /\ ~pf.halted /\ Within(r.marked, s, r.dec)
  BY <1>2 DEF ProcessedTo
<1>5. now => d \in OrderType /\ ~pf.halted /\ Within(r.marked, s, d)
  <2> SUFFICES ASSUME now PROVE d \in OrderType /\ ~pf.halted /\ Within(r.marked, s, d)
    OBVIOUS
  <2>1. r.dec # NoDec /\ d = Clamped(r.feed.guard.position, r.dec) /\ d.size > 0
    OBVIOUS
  <2>2. r.feed.guard.position \in Int
    BY <1>4 DEF FeedType, GuardType
  <2> HIDE DEF d, now
  <2>3. LET e == Clamped(r.feed.guard.position, r.dec)
        IN  e.size > 0 => e \in OrderType /\ Within(r.marked, s, e)
    BY <1>4, <2>1, <2>2, ClampedTyped
  <2> QED
    BY <1>4, <2>1, <2>3
<1> HIDE DEF d, now
<1> QED
  BY <1>3, <1>4, <1>5, TakerStep

LEMMA WayNext ==
  ASSUME path' = path
  PROVE  OnTheWay(scheduled, working)' =
           IF path = "ibkr" THEN SharesOf(scheduled') + SharesOf(working') ELSE Len(scheduled')
<1>1. OnTheWay(scheduled, working)' =
        (IF path = "ibkr" THEN SharesOf(scheduled) + SharesOf(working) ELSE Len(scheduled))'
  BY DEF OnTheWay, SharesOf
<1> QED
  BY <1>1

\* On a path where orders wait.
LEMMA HaltStep ==
  ASSUME path' = path, after' \in Nat, leftover' \in Nat, ~pf'.halted => after' = 0,
         path \notin Live => after' = 0,
         pf'.halted => after' + (IF path = "ibkr" THEN SharesOf(scheduled') + SharesOf(working')
                                 ELSE Len(scheduled')) <= leftover'
  PROVE  HaltInv'
<1> DEFINE way == IF path = "ibkr" THEN SharesOf(scheduled') + SharesOf(working')
                  ELSE Len(scheduled')
<1>1. OnTheWay(scheduled, working)' = way
  BY WayNext
<1>2. pf'.halted => after' + way <= leftover'
  OBVIOUS
<1> HIDE DEF way
<1> QED
  BY <1>1, <1>2 DEF HaltInv

LEMMA LiveParts ==
  ASSUME DeskInv, path \in Heeding
  PROVE  /\ DeskType /\ scheduled \in Seq(SendType) /\ working \in Seq(SendType)
         /\ SharesOf(scheduled) \in Nat /\ SharesOf(working) \in Nat /\ Len(scheduled) \in Nat
         /\ after \in Nat /\ leftover \in Nat /\ (~pf.halted => after = 0)
         /\ pf.halted => after + (IF path = "ibkr" THEN SharesOf(scheduled) + SharesOf(working)
                                  ELSE Len(scheduled)) <= leftover
<1>1. DeskType /\ scheduled \in Seq(SendType) /\ working \in Seq(SendType)
  BY DEF DeskInv, DeskType
<1>2. SharesOf(scheduled) \in Nat /\ SharesOf(working) \in Nat /\ Len(scheduled) \in Nat
  BY <1>1, SharesAre, LenProperties
<1>3. /\ after \in Nat /\ leftover \in Nat /\ (~pf.halted => after = 0)
      /\ pf.halted => after + OnTheWay(scheduled, working) <= leftover
  BY DEF DeskInv, HaltInv
<1> QED
  BY <1>1, <1>2, <1>3, UnderWay

LEMMA OnTickerStep ==
  ASSUME DeskInv, NEW s \in Symbol, NEW q \in QuoteType, NEW calm, OnTicker(s, q, calm)
  PROVE  StepOk
<1> DEFINE r == Processed(s, q, calm)
<1>10. path \in Heeding
  BY DEF OnTicker, Heeding
<1>1. /\ DeskType /\ scheduled \in Seq(SendType) /\ working \in Seq(SendType)
      /\ after \in Nat /\ leftover \in Nat /\ (~pf.halted => after = 0)
      /\ pf.halted => after + (IF path = "ibkr" THEN SharesOf(scheduled) + SharesOf(working)
                               ELSE Len(scheduled)) <= leftover
  BY <1>10, LiveParts
<1>2. ProcessedTo(r, s)
  BY <1>1, ProcessedTyped
<1>3. /\ path \in Live /\ feed' = [feed EXCEPT ![s] = r.feed] /\ pf' = r.marked
      /\ scheduled' = IF r.dec = NoDec THEN scheduled ELSE Append(scheduled, <<s, r.dec>>)
      /\ UNCHANGED <<path, working, page, crypto, cash, after, leftover>>
  BY DEF OnTicker, Live, history
<1> HIDE DEF r
<1>4. /\ r.marked \in PfType /\ Comes(pf, s, r.marked) /\ r.marked.halted = pf.halted
      /\ r.feed \in FeedType /\ (r.dec = NoDec \/ (r.dec \in OrderType /\ ~pf.halted))
  BY <1>2 DEF ProcessedTo
<1>5. KillStep /\ pf' \in PfType /\ CapStep
  BY <1>3, <1>4, ComesKill, CapElsewhere DEF Live
<1>6. scheduled' \in Seq(SendType)
  <2>1. r.dec # NoDec => <<s, r.dec>> \in SendType
    BY <1>4 DEF SendType
  <2> QED
    BY <1>1, <1>3, <2>1
<1>7. feed' \in [Symbol -> FeedType]
  BY <1>1, <1>3, <1>4, PutFeed
<1>8. DeskType'
  <2>1. /\ path \notin Live => scheduled' = <<>>
        /\ working' \in Seq(SendType) /\ (path # "ibkr" => working' = <<>>)
        /\ path = "panel" => crypto' \in CryptoType
        /\ cash' \in [Symbol -> Int] /\ path # "backofi"
    BY <1>1, <1>3 DEF DeskType, Live
  <2> QED
    BY <1>3, <1>5, <1>6, <1>7, <2>1, StepTyped
<1>9. HaltInv'
  <2>1. pf'.halted = pf.halted /\ (pf.halted => scheduled' = scheduled)
    BY <1>3, <1>4
  <2>2. pf'.halted => after' + (IF path = "ibkr" THEN SharesOf(scheduled') + SharesOf(working')
                                ELSE Len(scheduled')) <= leftover'
    BY <1>1, <1>3, <2>1
  <2> QED
    BY <1>1, <1>3, <2>1, <2>2, HaltStep
<1> QED
  BY <1>5, <1>8, <1>9 DEF StepOk

LEMMA LoopSendStep ==
  ASSUME DeskInv, NEW cool, LoopSend(cool)
  PROVE  StepOk
<1> DEFINE s == Head(scheduled)[1]
           d == Head(scheduled)[2]
           x == SharesOf(scheduled)
           y == SharesOf(working)
           n == Len(scheduled)
<1>30. path \in Heeding
  BY DEF LoopSend, DeskInv, DeskType, Live, Heeding
<1>1. /\ DeskType /\ scheduled \in Seq(SendType) /\ working \in Seq(SendType)
      /\ x \in Nat /\ y \in Nat /\ n \in Nat
      /\ after \in Nat /\ leftover \in Nat /\ (~pf.halted => after = 0)
      /\ pf.halted => after + (IF path = "ibkr" THEN x + y ELSE n) <= leftover
  BY <1>30, LiveParts
<1>2. /\ scheduled # <<>> /\ scheduled' = Tail(scheduled) /\ Sent(s, feed[s], pf, d, cool)
      /\ leftover' = IF pf.halted THEN leftover ELSE OnTheWay(scheduled', working')
      /\ UNCHANGED <<path, page, crypto>>
  BY DEF LoopSend
<1>3. /\ Head(scheduled) \in SendType /\ Tail(scheduled) \in Seq(SendType)
      /\ Len(Tail(scheduled)) = n - 1 /\ x = d.size + SharesOf(Tail(scheduled))
  BY <1>1, <1>2, SharesTail
<1>4. s \in Symbol /\ d \in OrderType /\ Head(scheduled) = <<s, d>>
  BY <1>3 DEF SendType
<1>5. d.size \in Nat
  BY <1>4 DEF OrderType
<1>6. path \in Live /\ pf \in PfType /\ feed[s] \in FeedType
  BY <1>1, <1>2, <1>4 DEF DeskType
<1> HIDE DEF s, d, x, y, n
<1>7. /\ Comes(pf, s, pf') /\ cash' \in [Symbol -> Int] /\ feed' \in [Symbol -> FeedType]
      /\ \/ NotSent(pf)
         \/ cool /\ SentBooked(s, pf, d)
         \/ cool /\ SentToIB(s, pf, d)
  <2>1. Comes(pf, s, pf)
    BY <1>4, <1>6, ComesItself
  <2> QED
    BY <1>1, <1>2, <1>4, <1>6, <2>1, SentTyped
<1>8. KillStep /\ pf' \in PfType /\ CapStep /\ (pf.halted => pf'.halted)
  BY <1>4, <1>6, <1>7, ComesKill, CapElsewhere DEF Live, Comes
<1> DEFINE v == SharesOf(working')
           u == SharesOf(scheduled')
           m == Len(scheduled')
<1>9. u \in Nat /\ m \in Nat /\ m = n - 1 /\ x = d.size + u
  BY <1>2, <1>3, SharesAre, LenProperties
<1>10. /\ working' \in Seq(SendType) /\ v \in Nat /\ (path # "ibkr" => working' = <<>>)
       /\ \/ /\ v = y /\ after' = IF pf.halted THEN after ELSE 0
             /\ pf'.halted = pf.halted
          \/ /\ path # "ibkr" /\ after' = IF pf.halted THEN after + 1 ELSE 0
          \/ /\ path = "ibkr" /\ v = y + d.size /\ after' = IF pf.halted THEN after ELSE 0
             /\ pf'.halted = pf.halted
  <2>1. CASE NotSent(pf)
    <3>1. pf' = pf /\ working' = working /\ after' = IF pf.halted THEN after ELSE 0
      BY <2>1 DEF NotSent
    <3> QED
      BY <1>1, <3>1 DEF y, DeskType
  <2>2. CASE cool /\ SentBooked(s, pf, d)
    <3>1. path # "ibkr" /\ working' = working /\ after' = IF pf.halted THEN after + 1 ELSE 0
      BY <2>2 DEF SentBooked
    <3> QED
      BY <1>1, <3>1 DEF y, DeskType
  <2>3. CASE cool /\ SentToIB(s, pf, d)
    <3>1. /\ path = "ibkr" /\ working' = Append(working, <<s, d>>) /\ pf' = pf
          /\ after' = IF pf.halted THEN after ELSE 0
      BY <2>3 DEF SentToIB
    <3>2. <<s, d>> \in SendType /\ <<s, d>>[2] = d
      BY <1>4 DEF SendType
    <3> DEFINE order == <<s, d>>
    <3> HIDE DEF order
    <3>3. Append(working, order) \in Seq(SendType) /\ SharesOf(Append(working, order)) = y + d.size
      BY <1>1, <3>2, SharesAppend DEF order, y
    <3> QED
      BY <1>1, <1>5, <3>1, <3>3 DEF order
  <2> QED
    BY <1>7, <2>1, <2>2, <2>3
<1> DEFINE way == OnTheWay(scheduled', working')
<1>11. way = IF path = "ibkr" THEN u + v ELSE m
  BY UnderWayNext
<1>12. leftover' = IF pf.halted THEN leftover ELSE way
  BY <1>2
<1> HIDE DEF u, v, m, way
<1>13. /\ after' \in Nat /\ leftover' \in Nat /\ (~pf'.halted => after' = 0)
       /\ pf'.halted => after' + (IF path = "ibkr" THEN u + v ELSE m) <= leftover'
  <2>1. CASE pf.halted
    <3>1. leftover' = leftover /\ leftover \in Nat /\ after \in Nat /\ pf'.halted
      BY <1>1, <1>8, <1>12, <2>1
    <3>2. CASE path = "ibkr"
      <4>1. after + (x + y) <= leftover
        BY <1>1, <2>1, <3>2
      <4>2. after' = after /\ (v = y \/ v = y + d.size)
        BY <1>10, <2>1, <3>2
      <4> DEFINE k == d.size
      <4>3. /\ x \in Nat /\ y \in Nat /\ k \in Nat /\ u \in Nat /\ x = k + u
            /\ v = y \/ v = y + k
        BY <1>1, <1>5, <1>9, <4>2
      <4> HIDE DEF k
      <4>4. u + v <= x + y /\ u + v \in Nat
        BY <4>3
      <4>5. after + (u + v) <= leftover
        BY <3>1, <4>1, <4>3, <4>4
      <4> QED
        BY <3>1, <3>2, <4>2, <4>5
    <3>3. CASE path # "ibkr"
      <4>1. after + n <= leftover
        BY <1>1, <2>1, <3>3
      <4>2. after' = after \/ after' = after + 1
        BY <1>10, <2>1, <3>3
      <4> QED
        BY <1>1, <1>9, <3>1, <3>3, <4>1, <4>2
    <3> QED
      BY <3>2, <3>3
  <2>2. CASE ~pf.halted
    BY <1>9, <1>10, <1>11, <1>12, <2>2
  <2> QED
    BY <2>1, <2>2
<1>14. HaltInv'
  BY <1>2, <1>6, <1>13, HaltStep DEF u, v, m
<1>15. DeskType'
  <2>1. scheduled' \in Seq(SendType) /\ path \in Live /\ path # "backofi" /\ path # "panel"
    BY <1>2, <1>3, <1>6 DEF Live
  <2> QED
    BY <1>2, <1>7, <1>8, <1>10, <2>1, StepTyped
<1> QED
  BY <1>8, <1>14, <1>15 DEF StepOk

LEMMA OnExecStep ==
  ASSUME DeskInv, NEW i \in DOMAIN working, NEW n \in 1 .. MAX_ORDER, OnExec(i, n)
  PROVE  StepOk
<1> DEFINE s == working[i][1]
           d == working[i][2]
           x == SharesOf(scheduled)
           y == SharesOf(working)
           v == SharesOf(working')
           g == [feed[s] EXCEPT !.guard = G!record_fill(@, d.action, n)]
           fills == <<Fill(d.action, n, d.price)>>
<1>1. /\ DeskType /\ scheduled \in Seq(SendType) /\ working \in Seq(SendType)
      /\ x \in Nat /\ y \in Nat
      /\ after \in Nat /\ leftover \in Nat /\ (~pf.halted => after = 0)
      /\ pf.halted => after + (IF path = "ibkr" THEN x + y ELSE Len(scheduled)) <= leftover
  <2>1. working # <<>>
    BY DEF DeskInv, DeskType
  <2>2. path \in Heeding
    BY <2>1 DEF DeskInv, DeskType, Heeding
  <2> QED
    BY <2>2, LiveParts
<1>2. /\ n <= d.size /\ Booked(s, pf, fills)
      /\ feed' = [feed EXCEPT ![s].guard = G!record_fill(@, d.action, n)]
      /\ working' = IF n = d.size THEN RemoveAt(working, i)
                    ELSE [working EXCEPT ![i][2].size = @ - n]
      /\ leftover' = IF pf.halted THEN leftover ELSE OnTheWay(scheduled, working')
      /\ UNCHANGED <<path, scheduled, page, crypto>>
  BY DEF OnExec
<1>3. i \in 1 .. Len(working) /\ working[i] \in SendType /\ working # <<>>
  BY <1>1
<1>4. path = "ibkr"
  BY <1>1, <1>3 DEF DeskType
<1>5. s \in Symbol /\ d \in OrderType
  BY <1>3 DEF SendType
<1>6. d.size \in Nat /\ n \in Nat \ {0} /\ d.action \in {"buy", "sell"} /\ d.price \in Int
  BY <1>5, DeskAssumption DEF OrderType
<1>7. pf \in PfType /\ feed[s] \in FeedType
  BY <1>1, <1>5 DEF DeskType
<1>8. /\ working' \in Seq(SendType) /\ v = y - n /\ v \in Nat
  <2>1. CASE n = d.size
    <3>1. /\ RemoveAt(working, i) \in Seq(SendType)
          /\ SharesOf(RemoveAt(working, i)) = y - working[i][2].size
      BY <1>1, <1>3, SharesDone
    <3>2. working' = RemoveAt(working, i)
      BY <1>2, <2>1
    <3> QED
      BY <2>1, <3>1, <3>2, SharesAre
  <2>2. CASE n # d.size
    <3>1. n < working[i][2].size /\ n \in Nat
      BY <1>2, <1>6, <2>2
    <3> DEFINE r == [working EXCEPT ![i][2].size = @ - n]
    <3>2. r \in Seq(SendType) /\ SharesOf(r) = y - n
      BY <1>1, <1>3, <3>1, SharesFewer
    <3>3. working' = r
      BY <1>2, <2>2
    <3> HIDE DEF r
    <3> QED
      BY <3>2, <3>3, SharesAre
  <2> QED
    BY <2>1, <2>2
<1> HIDE DEF s, d, x, y, v
<1>9. fills \in Seq(FillType) /\ Len(fills) = 1
  <2> DEFINE f == Fill(d.action, n, d.price)
  <2>1. f \in FillType
    BY <1>6 DEF FillType, Fill
  <2> HIDE DEF f
  <2>2. <<f>> \in Seq(FillType) /\ Len(<<f>>) = 1
    BY <2>1
  <2> QED
    BY <2>2 DEF f
<1> HIDE DEF fills
<1>10. Comes(pf, s, pf)
  BY <1>5, <1>7, ComesItself
<1>11. /\ Comes(pf, s, pf') /\ cash' \in [Symbol -> Int]
       /\ after' = IF pf.halted THEN after + Len(fills) ELSE 0
  BY <1>1, <1>2, <1>5, <1>7, <1>9, <1>10, BookedTyped
<1>12. KillStep /\ pf' \in PfType /\ CapStep /\ (pf.halted => pf'.halted)
  BY <1>4, <1>5, <1>11, ComesKill, CapElsewhere DEF Comes
<1>13. g \in FeedType
  BY <1>6, <1>7, RecordTyped
<1>14. feed' \in [Symbol -> FeedType]
  <2>1. feed' = [feed EXCEPT ![s] = g]
    BY <1>2
  <2> HIDE DEF g
  <2> QED
    BY <1>1, <1>5, <1>13, <2>1, PutFeed
<1> HIDE DEF g
<1> DEFINE u == SharesOf(scheduled')
<1>15. u = x /\ u \in Nat
  BY <1>1, <1>2 DEF x
<1>16. OnTheWay(scheduled, working') = x + v
  BY <1>4 DEF OnTheWay, SharesOf, x, v
<1> HIDE DEF u
<1>17. /\ after' \in Nat /\ leftover' \in Nat /\ (~pf'.halted => after' = 0)
       /\ pf'.halted => after' + (u + v) <= leftover'
  <2>1. CASE pf.halted
    <3>1. leftover' = leftover /\ after' = after + 1 /\ pf'.halted
      BY <1>2, <1>9, <1>11, <1>12, <2>1
    <3>2. after + (x + y) <= leftover
      BY <1>1, <1>4, <2>1
    <3>3. after + 1 + (u + v) <= leftover
      BY <1>1, <1>6, <1>8, <1>15, <3>2
    <3> QED
      BY <1>1, <3>1, <3>3
  <2>2. CASE ~pf.halted
    <3>1. leftover' = x + v /\ after' = 0
      BY <1>2, <1>11, <1>16, <2>2
    <3> QED
      BY <1>1, <1>8, <1>15, <3>1
  <2> QED
    BY <2>1, <2>2
<1>18. HaltInv'
  BY <1>2, <1>4, <1>17, HaltStep DEF u, v, Live
<1>19. DeskType'
  <2>1. scheduled' \in Seq(SendType)
    BY <1>1, <1>2
  <2> QED
    BY <1>2, <1>4, <1>8, <1>11, <1>12, <1>14, <2>1, StepTyped DEF Live
<1> QED
  BY <1>12, <1>18, <1>19 DEF StepOk

\* The books stay as they are, and so do the money and the fills since the trip.
LEMMA StillBooks ==
  ASSUME DeskInv, UNCHANGED <<path, pf, crypto, cash, after, leftover>>
  PROVE  /\ KillStep /\ CapStep /\ pf' \in PfType /\ cash' \in [Symbol -> Int]
         /\ path = "panel" => crypto' \in CryptoType
<1>1. DeskType
  BY DEF DeskInv
<1>2. CapStep
  BY <1>1, CapIdle
<1> QED
  BY <1>1, <1>2 DEF DeskType, KillStep, Heeded

LEMMA DisconnectStep ==
  ASSUME DeskInv, Disconnect
  PROVE  StepOk
<1> DEFINE x == SharesOf(scheduled)
           y == SharesOf(working)
           n == Len(scheduled)
<1>1. /\ DeskType /\ scheduled \in Seq(SendType) /\ working \in Seq(SendType)
      /\ x \in Nat /\ y \in Nat /\ n \in Nat
      /\ after \in Nat /\ leftover \in Nat /\ (~pf.halted => after = 0)
      /\ pf.halted => after + (IF path = "ibkr" THEN x + y ELSE n) <= leftover
  <2>1. path \in Heeding
    BY DEF Disconnect, Heeding
  <2> QED
    BY <2>1, LiveParts
<1>2. /\ path \in Live /\ scheduled' = <<>>
      /\ UNCHANGED <<path, pf, feed, working, crypto, cash, after, leftover>>
  BY DEF Disconnect, Live, history
<1>3. scheduled' \in Seq(SendType) /\ Len(scheduled') = 0 /\ SharesOf(scheduled') = 0
  <2> DEFINE none == <<>>
  <2>1. none \in Seq(SendType) /\ Len(none) = 0
    OBVIOUS
  <2> HIDE DEF none
  <2>2. SizesOf(none) \in Seq(Int) /\ Len(SizesOf(none)) = 0
    BY <2>1, SizesTyped
  <2>3. /\ <<>> \in Seq(SendType) /\ Len(<<>>) = 0
        /\ SizesOf(<<>>) \in Seq(Int) /\ Len(SizesOf(<<>>)) = 0
    BY <2>1, <2>2 DEF none
  <2>4. SeqSum(SizesOf(<<>>)) = 0
    BY <2>3, SumNone DEF SeqSum
  <2> QED
    BY <1>2, <2>3, <2>4, SharesAre
<1>4. /\ KillStep /\ CapStep /\ pf' \in PfType /\ cash' \in [Symbol -> Int]
      /\ path = "panel" => crypto' \in CryptoType
  BY <1>2, StillBooks
<1>5. SharesOf(working') = y
  BY <1>2
<1> DEFINE u == SharesOf(scheduled')
           v == SharesOf(working')
           m == Len(scheduled')
<1> HIDE DEF x, y, n, u, v, m
<1>6. u = 0 /\ v = y /\ m = 0
  BY <1>3, <1>5 DEF u, v, m
<1>7. pf'.halted => after' + (IF path = "ibkr" THEN u + v ELSE m) <= leftover'
  <2>1. CASE path = "ibkr"
    BY <1>1, <1>2, <1>6, <2>1
  <2>2. CASE path # "ibkr"
    BY <1>1, <1>2, <1>6, <2>2
  <2> QED
    BY <2>1, <2>2
<1>8. HaltInv'
  BY <1>1, <1>2, <1>7, HaltStep DEF u, v, m
<1>9. DeskType'
  <2>1. /\ path # "backofi" /\ working' \in Seq(SendType) /\ (path # "ibkr" => working' = <<>>)
        /\ feed' \in [Symbol -> FeedType]
    BY <1>1, <1>2 DEF DeskType, Live
  <2> QED
    BY <1>2, <1>3, <1>4, <2>1, StepTyped
<1> QED
  BY <1>4, <1>8, <1>9 DEF StepOk

\* A step of a run that books at once and does not keep to an exposure.
LEMMA BookStep ==
  ASSUME DeskInv, NEW s \in Symbol, path \notin Live, path \notin {"taker", "demo", "dryrun"},
         Comes(pf, s, pf'), cash' \in [Symbol -> Int], feed' \in [Symbol -> FeedType],
         path = "backofi" => \A t \in Symbol : Len(feed'[t].flow.buf) > 0,
         path = "panel" => crypto' \in CryptoType,
         UNCHANGED <<path, scheduled, working, leftover>>, path \in Heeding => after' = 0
  PROVE  StepOk
<1>1. KillStep /\ pf' \in PfType
  BY ComesKill
<1>2. CapStep
  BY CapElsewhere
<1>3. /\ HaltInv' /\ scheduled' \in Seq(SendType) /\ scheduled' = <<>>
      /\ working' \in Seq(SendType) /\ working' = <<>>
  BY Quiet
<1>4. DeskType'
  BY <1>1, <1>3, StepTyped
<1> QED
  BY <1>1, <1>2, <1>3, <1>4 DEF StepOk

LEMMA SimulateMakerStep ==
  ASSUME DeskInv, NEW s \in Symbol, NEW q \in QuoteType, NEW hit, SimulateMaker(s, q, hit)
  PROVE  StepOk
<1> DEFINE marked == mark_price(pf, s, Mid(q))
           fills == Hits(SB!quote(Touch(q), pf.books[s].pos), hit)
<1>1. /\ DeskType /\ pf \in PfType /\ feed \in [Symbol -> FeedType] /\ cash \in [Symbol -> Int]
      /\ path = "maker" /\ path \notin Live /\ after = 0
  BY DEF DeskInv, DeskType, HaltInv, Live, Heeding, SimulateMaker
<1>2. /\ \/ ~pf.halted /\ Booked(s, marked, fills) /\ feed' = feed
         \/ /\ feed' = [feed EXCEPT ![s].running = FALSE]
            /\ UNCHANGED <<pf, cash, after>>
      /\ UNCHANGED <<path, scheduled, working, page, crypto, leftover>>
  BY DEF SimulateMaker, may_quote
<1>3. fills \in Seq(FillType)
  <2>1. pf.books[s].pos \in Int
    BY <1>1 DEF PfType, Books0, BookType
  <2> QED
    BY <2>1, QuoteTyped, MakerTyped, HitsTyped
<1>4. Comes(pf, s, pf) /\ marked \in PfType /\ Comes(pf, s, marked)
  <2>1. Comes(pf, s, pf) /\ Mid(q) \in Nat
    BY <1>1, ComesItself, QuoteTyped
  <2> QED
    BY <1>1, <2>1, ComesMarked
<1> HIDE DEF marked, fills
<1>5. CASE ~pf.halted /\ Booked(s, marked, fills) /\ feed' = feed
  <2>1. Comes(pf, s, pf') /\ cash' \in [Symbol -> Int] /\ after' = 0
    BY <1>1, <1>3, <1>4, <1>5, BookedTyped
  <2> QED
    BY <1>1, <1>2, <1>5, <2>1, BookStep
<1>6. CASE feed' = [feed EXCEPT ![s].running = FALSE] /\ UNCHANGED <<pf, cash, after>>
  <2>1. feed' \in [Symbol -> FeedType]
    <3> DEFINE f == [feed[s] EXCEPT !.running = FALSE]
    <3>1. f \in FeedType
      BY <1>1 DEF FeedType
    <3>2. feed' = [feed EXCEPT ![s] = f]
      BY <1>6
    <3> HIDE DEF f
    <3> QED
      BY <1>1, <3>1, <3>2, PutFeed
  <2>2. Comes(pf, s, pf')
    BY <1>4, <1>6
  <2> QED
    BY <1>1, <1>2, <1>6, <2>1, <2>2, BookStep
<1> QED
  BY <1>2, <1>5, <1>6

\* The commands of the page.
LEMMA PageStep ==
  ASSUME DeskInv, NEW cmd, Command(cmd)
  PROVE  StepOk
<1> DEFINE reset == cmd = "reset_kill"
           r == [pf EXCEPT !.halted = FALSE]
<1>9. path \in Heeding
  BY DEF Command, HasPage
<1>1. /\ DeskType /\ scheduled \in Seq(SendType) /\ working \in Seq(SendType)
      /\ after \in Nat /\ leftover \in Nat /\ (~pf.halted => after = 0)
      /\ pf.halted => after + (IF path = "ibkr" THEN SharesOf(scheduled) + SharesOf(working)
                               ELSE Len(scheduled)) <= leftover
  BY <1>9, LiveParts
<1>2. /\ \/ reset /\ pf' = r /\ after' = 0
         \/ ~reset /\ UNCHANGED <<pf, after>>
      /\ UNCHANGED <<path, feed, scheduled, working, crypto, cash, leftover>>
  BY DEF Command
<1>3. pf \in PfType /\ r \in PfType /\ ~r.halted /\ r.books = pf.books
      /\ r.equity_curve = pf.equity_curve /\ r.peak_equity = pf.peak_equity
  BY <1>1 DEF DeskType, PfType
<1> HIDE DEF r, reset
<1>4. pf' \in PfType /\ pf'.books = pf.books /\ (Calm(pf) => Calm(pf'))
  BY <1>2, <1>3 DEF Calm
<1>5. CapStep /\ KillStep
  <2>1. \A s \in Symbol : pf'.books[s].pos = pf.books[s].pos
    BY <1>4
  <2> QED
    BY <1>1, <1>4, <2>1, CapIdle DEF KillStep, Heeded
<1>6. /\ after' \in Nat /\ (~pf'.halted => after' = 0) /\ (path \notin Live => after' = 0)
      /\ pf'.halted => after' + (IF path = "ibkr" THEN SharesOf(scheduled') + SharesOf(working')
                                 ELSE Len(scheduled')) <= leftover'
  <2>1. path \notin Live => after = 0
    BY <1>9 DEF DeskInv, HaltInv
  <2> QED
    BY <1>1, <1>2, <1>3, <2>1
<1>7. HaltInv'
  BY <1>1, <1>2, <1>6, HaltStep
<1>8. DeskType'
  BY <1>1, <1>2, <1>4, StepTyped DEF DeskType
<1> QED
  BY <1>5, <1>7, <1>8 DEF StepOk

LEMMA WriterStep ==
  ASSUME DeskInv, Writer
  PROVE  StepOk
<1>1. UNCHANGED <<path, pf, feed, scheduled, working, crypto, cash, after, leftover>>
  BY DEF Writer, history
<1>5. path \in Heeding
  BY DEF Writer, HasPage
<1>2. KillStep /\ CapStep
  BY <1>1, StillBooks
<1>3. DeskType'
  BY <1>1 DEF DeskInv, DeskType
<1>4. HaltInv'
  <2>1. /\ scheduled \in Seq(SendType) /\ working \in Seq(SendType)
        /\ after \in Nat /\ leftover \in Nat /\ (~pf.halted => after = 0)
        /\ pf.halted => after + (IF path = "ibkr" THEN SharesOf(scheduled) + SharesOf(working)
                                 ELSE Len(scheduled)) <= leftover
    BY <1>5, LiveParts
  <2>2. path \notin Live => after = 0
    BY <1>5 DEF DeskInv, HaltInv
  <2> QED
    BY <1>1, <2>1, <2>2, HaltStep
<1> QED
  BY <1>2, <1>3, <1>4 DEF StepOk

\* The backtests.
LEMMA BackParts ==
  ASSUME DeskInv, path \in Backtest
  PROVE  /\ DeskType /\ pf \in PfType /\ feed \in [Symbol -> FeedType] /\ cash \in [Symbol -> Int]
         /\ path \notin Live /\ path \notin {"taker", "demo", "dryrun"} /\ path # "panel"
         /\ path \notin Heeding
         /\ path = "backofi" => \A t \in Symbol : Len(feed[t].flow.buf) > 0
BY DEF DeskInv, DeskType, Live, Heeding, Backtest

\* A feed of the backtest, replaced by another.
LEMMA PutFlow ==
  ASSUME DeskInv, path \in Backtest, NEW s \in Symbol, NEW f \in FeedType,
         path = "backofi" => Len(f.flow.buf) > 0, feed' = [feed EXCEPT ![s] = f]
  PROVE  /\ feed' \in [Symbol -> FeedType]
         /\ path = "backofi" => \A t \in Symbol : Len(feed'[t].flow.buf) > 0
<1>1. /\ feed \in [Symbol -> FeedType]
      /\ path = "backofi" => \A t \in Symbol : Len(feed[t].flow.buf) > 0
  BY BackParts
<1>2. feed' \in [Symbol -> FeedType]
  BY <1>1
<1>3. \A t \in Symbol : feed'[t] = IF t = s THEN f ELSE feed[t]
  BY <1>1
<1> QED
  BY <1>1, <1>2, <1>3

LEMMA LoadStreamStep ==
  ASSUME DeskInv, NEW s \in Symbol, NEW q \in QuoteType, LoadStream(s, q)
  PROVE  StepOk
<1> DEFINE f == [feed[s] EXCEPT !.last = q]
<1>1. /\ path \in Backtest /\ feed' = [feed EXCEPT ![s] = f]
      /\ UNCHANGED <<path, pf, scheduled, working, crypto, cash, after, leftover>>
  BY DEF LoadStream, history
<1>2. /\ DeskType /\ pf \in PfType /\ feed \in [Symbol -> FeedType] /\ cash \in [Symbol -> Int]
      /\ path \notin Live /\ path \notin {"taker", "demo", "dryrun"} /\ path # "panel"
      /\ path \notin Heeding
      /\ path = "backofi" => \A t \in Symbol : Len(feed[t].flow.buf) > 0
  BY <1>1, BackParts
<1>3. f \in FeedType /\ f.flow = feed[s].flow
  BY <1>2 DEF FeedType
<1> HIDE DEF f
<1>4. /\ feed' \in [Symbol -> FeedType]
      /\ path = "backofi" => \A t \in Symbol : Len(feed'[t].flow.buf) > 0
  BY <1>1, <1>2, <1>3, PutFlow
<1>5. Comes(pf, s, pf')
  BY <1>1, <1>2, ComesItself
<1> QED
  BY <1>1, <1>2, <1>4, <1>5, BookStep

LEMMA ReplayStep ==
  ASSUME DeskInv, path \in Backtest, NEW s \in Symbol, NEW q \in QuoteType,
         NEW before \in PfType, Comes(pf, s, before), NEW fills \in Seq(FillType),
         NEW f \in FeedType, path = "backofi" => Len(f.flow.buf) > 0,
         Replay(s, q, before, fills, f)
  PROVE  StepOk
<1> DEFINE g == [f EXCEPT !.last = q]
           done == Books(before, s, fills)
           c == cash[s]
           r == FoldLeft(LAMBDA m, d : m - Signed(d.action, d.size) * d.price, c, fills)
<1>1. /\ pf' = mark_price(done, s, Mid(q)) /\ cash' = [cash EXCEPT ![s] = r]
      /\ feed' = [feed EXCEPT ![s] = g]
      /\ UNCHANGED <<path, scheduled, working, crypto, leftover>>
  BY DEF Replay
<1>2. /\ DeskType /\ pf \in PfType /\ feed \in [Symbol -> FeedType] /\ cash \in [Symbol -> Int]
      /\ path \notin Live /\ path \notin {"taker", "demo", "dryrun"} /\ path # "panel"
      /\ path \notin Heeding
  BY BackParts
<1>3. Comes(pf, s, done)
  BY BooksCome
<1>4. Comes(pf, s, pf')
  <2>1. done \in PfType /\ Mid(q) \in Nat
    BY <1>3, QuoteTyped DEF Comes
  <2> HIDE DEF done
  <2>2. Comes(pf, s, mark_price(done, s, Mid(q)))
    BY <1>3, <2>1, ComesMarked
  <2> QED
    BY <1>1, <2>2
<1>5. cash' \in [Symbol -> Int]
  <2>1. c \in Int
    BY <1>2
  <2> HIDE DEF c
  <2>2. r \in Int
    BY <2>1, MoneyAfter
  <2> HIDE DEF r
  <2> QED
    BY <1>1, <1>2, <2>2
<1>6. g \in FeedType /\ g.flow = f.flow
  BY DEF FeedType
<1> HIDE DEF g
<1>7. /\ feed' \in [Symbol -> FeedType]
      /\ path = "backofi" => \A t \in Symbol : Len(feed'[t].flow.buf) > 0
  BY <1>1, <1>6, PutFlow
<1> QED
  BY <1>1, <1>2, <1>4, <1>5, <1>7, BookStep

\* The feed of a turn, and the book that a maker has marked.
LEMMA TurnParts ==
  ASSUME DeskInv, path \in Backtest, NEW s \in Symbol, feed[s].last # NoQuote
  PROVE  /\ feed[s] \in FeedType /\ feed[s].st \in StType /\ feed[s].flow \in FlowType
         /\ Touch(feed[s].last) \in TouchType /\ pf \in PfType /\ pf.books[s].pos \in Int
         /\ Comes(pf, s, pf) /\ Quoted(s) \in PfType /\ Comes(pf, s, Quoted(s))
         /\ path = "backofi" => Len(feed[s].flow.buf) > 0
<1>1. /\ pf \in PfType /\ feed \in [Symbol -> FeedType]
      /\ path = "backofi" => \A t \in Symbol : Len(feed[t].flow.buf) > 0
  BY BackParts
<1>2. feed[s] \in FeedType
  BY <1>1
<1>3. feed[s].st \in StType /\ feed[s].flow \in FlowType /\ feed[s].last \in QuoteType
  BY <1>2 DEF FeedType
<1>4. Touch(feed[s].last) \in TouchType /\ Mid(feed[s].last) \in Nat
  BY <1>3, QuoteTyped
<1>5. Comes(pf, s, pf)
  BY <1>1, ComesItself
<1>6. Quoted(s) \in PfType /\ Comes(pf, s, Quoted(s))
  BY <1>1, <1>4, <1>5, ComesMarked DEF Quoted
<1>7. pf.books[s].pos \in Int
  BY <1>1 DEF PfType, Books0, BookType
<1> QED
  BY <1>1, <1>2, <1>3, <1>4, <1>5, <1>6, <1>7

LEMMA RunTakerStep ==
  ASSUME DeskInv, NEW s \in Symbol, NEW q \in QuoteType, run_taker(s, q)
  PROVE  StepOk
<1> DEFINE f == feed[s]
           signal == SW!evaluate_touch(f.st, TRUE, Touch(f.last))
           fills == Fills(signal.dec)
           g == [f EXCEPT !.st = signal.st]
<1>1. path = "backtest" /\ path \in Backtest /\ Replay(s, q, pf, fills, g) /\ f.last # NoQuote
  BY DEF run_taker, Replay, Backtest
<1>2. /\ f \in FeedType /\ f.st \in StType /\ Touch(f.last) \in TouchType
      /\ pf \in PfType /\ Comes(pf, s, pf)
  BY <1>1, TurnParts
<1>3. (signal.dec = NoDec \/ signal.dec \in OrderType) /\ signal.st \in StType
  <2>1. TRUE \in BOOLEAN
    OBVIOUS
  <2> QED
    BY <1>2, <2>1, TakerTyped
<1> HIDE DEF f, signal
<1>4. fills \in Seq(FillType)
  BY <1>3, FillsTyped
<1>5. g \in FeedType
  BY <1>2, <1>3 DEF FeedType
<1> HIDE DEF fills, g
<1> QED
  BY <1>1, <1>2, <1>4, <1>5, ReplayStep

LEMMA RunOfiStep ==
  ASSUME DeskInv, NEW s \in Symbol, NEW q \in QuoteType, run_ofi(s, q)
  PROVE  StepOk
<1> DEFINE f == feed[s]
           signal == SB!update(f.flow, Touch(f.last), TRUE)
           fills == Fills(signal.dec)
           g == [f EXCEPT !.flow = signal.st]
<1>1. path = "backflow" /\ path \in Backtest /\ Replay(s, q, pf, fills, g) /\ f.last # NoQuote
  BY DEF run_ofi, Replay, Backtest
<1>2. /\ f \in FeedType /\ f.flow \in FlowType /\ Touch(f.last) \in TouchType
      /\ pf \in PfType /\ Comes(pf, s, pf)
  BY <1>1, TurnParts
<1>3. (signal.dec = NoDec \/ signal.dec \in OrderType) /\ signal.st \in FlowType
  BY <1>2, FlowTyped
<1> HIDE DEF f, signal
<1>4. fills \in Seq(FillType)
  BY <1>3, FillsTyped
<1>5. g \in FeedType
  BY <1>2, <1>3 DEF FeedType
<1> HIDE DEF fills, g
<1> QED
  BY <1>1, <1>2, <1>4, <1>5, ReplayStep

LEMMA RunMakerStep ==
  ASSUME DeskInv, NEW s \in Symbol, NEW q \in QuoteType, NEW hit, run_maker(s, q, hit)
  PROVE  StepOk
<1> DEFINE f == feed[s]
           fills == Hits(SB!quote(Touch(f.last), pf.books[s].pos), hit)
           before == Quoted(s)
<1>1. path = "backmaker" /\ path \in Backtest /\ Replay(s, q, before, fills, f) /\ f.last # NoQuote
  BY DEF run_maker, Replay, Backtest
<1>2. /\ f \in FeedType /\ Touch(f.last) \in TouchType /\ pf.books[s].pos \in Int
      /\ before \in PfType /\ Comes(pf, s, before)
  BY <1>1, TurnParts
<1>3. fills \in Seq(FillType)
  <2> HIDE DEF f
  <2> QED
    BY <1>2, MakerTyped, HitsTyped
<1> HIDE DEF fills, before, f
<1> QED
  BY <1>1, <1>2, <1>3, ReplayStep

LEMMA RunOfiMakerStep ==
  ASSUME DeskInv, NEW s \in Symbol, NEW q \in QuoteType, NEW hit, run_ofi_maker(s, q, hit)
  PROVE  StepOk
<1> DEFINE f == feed[s]
           flow == SB!advance(f.flow, Touch(f.last), TRUE)
           fills == Hits(SB!ofi_quote(flow, Touch(f.last), TRUE, pf.books[s].pos), hit)
           before == Quoted(s)
           g == [f EXCEPT !.flow = flow]
<1>1. path = "backofi" /\ path \in Backtest /\ Replay(s, q, before, fills, g) /\ f.last # NoQuote
  BY DEF run_ofi_maker, Replay, Backtest
<1>2. /\ f \in FeedType /\ f.flow \in FlowType /\ Touch(f.last) \in TouchType
      /\ pf.books[s].pos \in Int /\ before \in PfType /\ Comes(pf, s, before)
      /\ Len(f.flow.buf) > 0
  BY <1>1, TurnParts
<1> HIDE DEF f
<1>3. flow \in FlowType /\ Len(flow.buf) > 0
  BY <1>2, AdvanceTyped
<1> HIDE DEF flow
<1>4. fills \in Seq(FillType)
  BY <1>2, <1>3, FlowMakerTyped, HitsTyped
<1>5. g \in FeedType /\ g.flow = flow
  BY <1>2, <1>3 DEF FeedType
<1> HIDE DEF fills, before, g
<1> QED
  BY <1>1, <1>2, <1>3, <1>4, <1>5, ReplayStep

LEMMA RunAsStep ==
  ASSUME DeskInv, NEW s \in Symbol, NEW q \in QuoteType, NEW hit,
         NEW skew \in AS_SKEW, NEW half \in AS_HALF, run_as(s, q, hit, skew, half)
  PROVE  StepOk
<1> DEFINE f == feed[s]
           lean == SB!leaning(pf.books[s].pos, skew)
           fills == Hits(SB!as_quote(Touch(f.last), pf.books[s].pos, lean, half), hit)
           before == Quoted(s)
<1>1. path = "backas" /\ path \in Backtest /\ Replay(s, q, before, fills, f) /\ f.last # NoQuote
  BY DEF run_as, Replay, Backtest
<1>2. /\ f \in FeedType /\ Touch(f.last) \in TouchType /\ pf.books[s].pos \in Int
      /\ before \in PfType /\ Comes(pf, s, before)
  BY <1>1, TurnParts
<1>3. fills \in Seq(FillType)
  <2>1. skew \in Int
    BY DeskAssumption
  <2>2. lean \in Int
    BY <1>2, <2>1, LeaningInt
  <2> HIDE DEF f, lean
  <2> QED
    BY <1>2, <2>2, AvellanedaTyped, HitsTyped
<1> HIDE DEF fills, before, f
<1> QED
  BY <1>1, <1>2, <1>3, ReplayStep

LEMMA BacktestingStep ==
  ASSUME DeskInv, Backtesting
  PROVE  StepOk
<1>1. PICK s \in Symbol, q \in Quotes :
        \/ LoadStream(s, q) \/ run_taker(s, q) \/ run_ofi(s, q)
        \/ \E hit \in SUBSET {"bid", "ask"} :
             \/ run_maker(s, q, hit) \/ run_ofi_maker(s, q, hit)
             \/ \E skew \in AS_SKEW, half \in AS_HALF : run_as(s, q, hit, skew, half)
  BY DEF Backtesting
<1>2. q \in QuoteType
  BY QuotesTyped
<1>3. CASE LoadStream(s, q)
  BY <1>2, <1>3, LoadStreamStep
<1>4. CASE run_taker(s, q)
  BY <1>2, <1>4, RunTakerStep
<1>5. CASE run_ofi(s, q)
  BY <1>2, <1>5, RunOfiStep
<1>6. ASSUME NEW hit, run_maker(s, q, hit) PROVE StepOk
  BY <1>2, <1>6, RunMakerStep
<1>7. ASSUME NEW hit, run_ofi_maker(s, q, hit) PROVE StepOk
  BY <1>2, <1>7, RunOfiMakerStep
<1>8. ASSUME NEW hit, NEW skew \in AS_SKEW, NEW half \in AS_HALF, run_as(s, q, hit, skew, half)
      PROVE  StepOk
  BY <1>2, <1>8, RunAsStep
<1> QED
  BY <1>1, <1>3, <1>4, <1>5, <1>6, <1>7, <1>8

\* The panel.
LEMMA PanelParts ==
  ASSUME DeskInv, path = "panel"
  PROVE  /\ DeskType /\ pf \in PfType /\ feed \in [Symbol -> FeedType] /\ cash \in [Symbol -> Int]
         /\ crypto \in CryptoType /\ path \notin Live /\ path \notin {"taker", "demo", "dryrun"}
         /\ path # "backofi" /\ path \notin Heeding
         /\ \A s \in Symbol : Comes(pf, s, pf) /\ pf.books[s].pos \in Int
<1>1. /\ DeskType /\ pf \in PfType /\ feed \in [Symbol -> FeedType] /\ cash \in [Symbol -> Int]
      /\ crypto \in CryptoType /\ path \notin Live /\ path \notin Heeding
  BY DEF DeskInv, DeskType, Live, Heeding
<1>2. \A s \in Symbol : pf.books[s].pos \in Int
  BY <1>1 DEF PfType, Books0, BookType
<1> QED
  BY <1>1, <1>2, ComesItself

\* A book that the simulator has marked.
LEMMA SimMarked ==
  ASSUME DeskInv, path = "panel", NEW s \in Symbol, NEW q \in QuoteType
  PROVE  LET marked == mark_price(pf, s, Mid(q))
         IN  /\ marked \in PfType /\ Comes(pf, s, marked) /\ Touch(q) \in TouchType
             /\ pf \in PfType /\ feed[s] \in FeedType
<1>1. pf \in PfType /\ feed[s] \in FeedType /\ Comes(pf, s, pf)
  BY PanelParts
<1>2. Touch(q) \in TouchType /\ Mid(q) \in Nat
  BY QuoteTyped
<1> QED
  BY <1>1, <1>2, ComesMarked

LEMMA SimTakerStep ==
  ASSUME DeskInv, NEW s \in Symbol, NEW q \in QuoteType, NEW calm, SimTaker(s, q, calm)
  PROVE  StepOk
<1> DEFINE marked == mark_price(pf, s, Mid(q))
           signal == SW!evaluate_touch(feed[s].st, TRUE, Touch(q))
           room == gross_room(marked, s, signal.dec.action, signal.dec.price)
           passed == G!evaluate(FALSE, calm, signal.dec, q, marked.books[s].pos, room)
           fills == IF signal.dec = NoDec THEN <<>> ELSE Fills(passed.dec)
           f == [feed[s] EXCEPT !.st = signal.st]
<1>1. /\ path = "panel" /\ ~pf.halted /\ Booked(s, marked, fills)
      /\ feed' = [feed EXCEPT ![s].st = signal.st]
      /\ UNCHANGED <<path, scheduled, working, page, crypto, leftover>>
  BY DEF SimTaker, Simulated
<1>2. /\ marked \in PfType /\ Comes(pf, s, marked) /\ Touch(q) \in TouchType
      /\ pf \in PfType /\ feed[s] \in FeedType
  BY <1>1, SimMarked
<1>3. (signal.dec = NoDec \/ signal.dec \in OrderType) /\ signal.st \in StType
  <2>1. feed[s].st \in StType /\ TRUE \in BOOLEAN
    BY <1>2 DEF FeedType
  <2> QED
    BY <1>2, <2>1, TakerTyped
<1> HIDE DEF marked, signal
<1>4. signal.dec # NoDec => passed.dec = NoDec \/ passed.dec \in OrderType
  <2> SUFFICES ASSUME signal.dec # NoDec PROVE passed.dec = NoDec \/ passed.dec \in OrderType
    OBVIOUS
  <2> DEFINE d == signal.dec
  <2>1. d \in OrderType /\ d.price \in Nat \ {0}
    BY <1>3 DEF OrderType
  <2>2. room \in Int
    BY <1>2, <2>1, RoomInt
  <2> HIDE DEF room
  <2> QED
    BY <2>1, <2>2, GauntletTyped
<1> HIDE DEF passed
<1>5. fills \in Seq(FillType)
  BY <1>4, FillsTyped
<1> HIDE DEF fills
<1>6. feed' \in [Symbol -> FeedType]
  <2>1. f \in FeedType /\ feed' = [feed EXCEPT ![s] = f]
    BY <1>1, <1>2, <1>3 DEF FeedType
  <2> HIDE DEF f
  <2> QED
    BY <1>1, <2>1, PutFeed, PanelParts
<1>7. Comes(pf, s, pf') /\ cash' \in [Symbol -> Int]
  BY <1>1, <1>2, <1>5, BookedTyped, PanelParts
<1>8. path \notin Live /\ path \notin Heeding /\ path \notin {"taker", "demo", "dryrun"} /\ path # "backofi"
      /\ crypto' \in CryptoType
  BY <1>1, PanelParts
<1> QED
  BY <1>1, <1>6, <1>7, <1>8, BookStep

LEMMA SimMakerStep ==
  ASSUME DeskInv, NEW s \in Symbol, NEW q \in QuoteType, NEW hit, SimMaker(s, q, hit)
  PROVE  StepOk
<1> DEFINE marked == mark_price(pf, s, Mid(q))
           fills == Hits(SB!quote(Touch(q), pf.books[s].pos), hit)
<1>1. /\ path = "panel" /\ ~pf.halted /\ Booked(s, marked, fills) /\ feed' = feed
      /\ UNCHANGED <<path, scheduled, working, page, crypto, leftover>>
  BY DEF SimMaker, Simulated
<1>2. /\ marked \in PfType /\ Comes(pf, s, marked) /\ Touch(q) \in TouchType
      /\ pf \in PfType /\ feed[s] \in FeedType
  BY <1>1, SimMarked
<1>3. fills \in Seq(FillType)
  <2>1. pf.books[s].pos \in Int
    BY <1>1, PanelParts
  <2> QED
    BY <1>2, <2>1, MakerTyped, HitsTyped
<1> HIDE DEF marked, fills
<1>4. Comes(pf, s, pf') /\ cash' \in [Symbol -> Int]
  BY <1>1, <1>2, <1>3, BookedTyped, PanelParts
<1>5. /\ path \notin Live /\ path \notin Heeding /\ path \notin {"taker", "demo", "dryrun"} /\ path # "backofi"
      /\ crypto' \in CryptoType /\ feed' \in [Symbol -> FeedType]
  BY <1>1, PanelParts
<1> QED
  BY <1>1, <1>4, <1>5, BookStep

LEMMA SimHaltedStep ==
  ASSUME DeskInv, NEW s \in Symbol, NEW q \in QuoteType, SimHalted(s, q)
  PROVE  StepOk
<1>1. /\ path = "panel" /\ pf' = mark_price(pf, s, Mid(q)) /\ UNCHANGED <<feed, cash, after>>
      /\ UNCHANGED <<path, scheduled, working, page, crypto, leftover>>
  BY DEF SimHalted, Simulated
<1>2. Comes(pf, s, pf')
  <2>1. Comes(pf, s, mark_price(pf, s, Mid(q)))
    BY <1>1, SimMarked
  <2> QED
    BY <1>1, <2>1
<1>3. /\ path \notin Live /\ path \notin {"taker", "demo", "dryrun"} /\ path # "backofi"
      /\ crypto' \in CryptoType /\ feed' \in [Symbol -> FeedType] /\ cash' \in [Symbol -> Int]
      /\ path \notin Heeding
  BY <1>1, PanelParts
<1> QED
  BY <1>1, <1>2, <1>3, BookStep

LEMMA OnQuoteIs ==
  ASSUME NEW q, NEW skew, NEW half, NEW late, OnQuote(q, skew, half, late)
  PROVE  LET out == SB!on_book(crypto.ads, Touch(q), skew, half)
             base == [crypto |-> [crypto EXCEPT !.ads = out.ads, !.mark = Mid(q)], pf |-> pf,
                      paid |-> 0]
             end == RouteEnd(base, out.todo, q, late)
         IN  /\ path = "panel" /\ crypto' = end.crypto /\ pf' = end.pf
             /\ cash' = [cash EXCEPT ![crypto.sym] = @ - end.paid]
             /\ UNCHANGED <<path, feed, scheduled, working, page, leftover>>
<1>1. /\ path = "panel" /\ q.valid /\ Room
      /\ \E out \in {SB!on_book(crypto.ads, Touch(q), skew, half)} :
           /\ late \subseteq DOMAIN out.todo
           /\ \E end \in {RouteEnd([crypto |-> [crypto EXCEPT !.ads = out.ads, !.mark = Mid(q)],
                                     pf |-> pf, paid |-> 0], out.todo, q, late)} :
                /\ crypto' = end.crypto /\ pf' = end.pf
                /\ cash' = [cash EXCEPT ![crypto.sym] = @ - end.paid]
      /\ UNCHANGED <<path, feed, scheduled, working, page, leftover, dropped>>
  BY Zenon DEF OnQuote, RouteEnd
<1> QED
  BY <1>1

LEMMA OnQuoteStep ==
  ASSUME DeskInv, NEW q \in QuoteType, NEW skew \in AS_SKEW, NEW half \in AS_HALF, NEW late,
         OnQuote(q, skew, half, late)
  PROVE  StepOk
<1> DEFINE s == crypto.sym
           out == SB!on_book(crypto.ads, Touch(q), skew, half)
           n == Len(crypto.ads)
           mark == Mid(q)
           base == [crypto |-> [crypto EXCEPT !.ads = out.ads, !.mark = mark], pf |-> pf,
                    paid |-> 0]
           end == RouteEnd(base, out.todo, q, late)
<1>1. /\ path = "panel" /\ crypto' = end.crypto /\ pf' = end.pf
      /\ cash' = [cash EXCEPT ![s] = @ - end.paid]
      /\ UNCHANGED <<path, feed, scheduled, working, page, leftover>>
  BY OnQuoteIs
<1>10. mark \in Nat
  BY QuoteTyped
<1>2. /\ pf \in PfType /\ feed \in [Symbol -> FeedType] /\ cash \in [Symbol -> Int]
      /\ crypto \in CryptoType /\ path \notin Live /\ path \notin {"taker", "demo", "dryrun"}
      /\ path # "backofi" /\ path \notin Heeding /\ \A t \in Symbol : Comes(pf, t, pf)
  BY <1>1, PanelParts
<1>3. s \in Symbol /\ crypto.ads \in Seq(AdType) /\ n \in Nat
  BY <1>2, LenProperties DEF CryptoType
<1>4. out.ads \in Seq(AdType) /\ Len(out.ads) = n /\ out.todo \in Seq(TaggedType(n))
  <2>1. BookAnswer(out, n)
    BY <1>3, BookTyped, QuoteTyped
  <2> HIDE DEF out, n
  <2> QED
    BY <2>1 DEF BookAnswer
<1> DEFINE todo == out.todo
           ads == out.ads
<1> HIDE DEF out, n, s, mark
<1>5. base \in Routes(n, pf, s)
  <2> DEFINE c == [crypto EXCEPT !.ads = ads, !.mark = mark]
  <2>1. c \in CryptoType /\ c.sym = s /\ c.ads = ads
    BY <1>2, <1>4, <1>10 DEF CryptoType, s
  <2> HIDE DEF c, ads
  <2>2. base = [crypto |-> c, pf |-> pf, paid |-> 0]
    BY DEF c, ads
  <2>3. Len(ads) = n
    BY <1>4 DEF ads
  <2> HIDE DEF base
  <2> QED
    BY <1>2, <1>3, <2>1, <2>2, <2>3 DEF Routes
<1> HIDE DEF base
<1>6. end \in Routes(n, pf, s)
  <2>1. todo \in Seq(TaggedType(n))
    BY <1>4
  <2> QED
    BY <1>2, <1>3, <1>5, <2>1, RouteAll
<1> HIDE DEF end
<1>7. end.crypto \in CryptoType /\ end.paid \in Int /\ Comes(pf, s, end.pf)
  BY <1>6 DEF Routes
<1>8. cash' \in [Symbol -> Int] /\ crypto' \in CryptoType /\ Comes(pf, s, pf')
  BY <1>1, <1>2, <1>3, <1>7
<1>9. feed' \in [Symbol -> FeedType]
  BY <1>1, <1>2
<1> QED
  BY <1>1, <1>2, <1>3, <1>8, <1>9, BookStep

\* A quote that the crypto thread only marks.
LEMMA WatchedStep ==
  ASSUME DeskInv, NEW q \in QuoteType, Watched(q)
  PROVE  StepOk
<1> DEFINE s == crypto.sym
           mark == Mid(q)
<1>1. /\ path = "panel" /\ crypto' = [crypto EXCEPT !.mark = mark]
      /\ UNCHANGED <<path, pf, feed, scheduled, working, cash, leftover>>
  BY DEF Watched, history
<1>2. /\ pf \in PfType /\ feed \in [Symbol -> FeedType] /\ cash \in [Symbol -> Int]
      /\ crypto \in CryptoType /\ path \notin Live /\ path \notin {"taker", "demo", "dryrun"}
      /\ path # "backofi" /\ path \notin Heeding /\ \A t \in Symbol : Comes(pf, t, pf)
  BY <1>1, PanelParts
<1>3. mark \in Nat
  BY QuoteTyped
<1> HIDE DEF mark
<1>4. crypto' \in CryptoType /\ s \in Symbol
  BY <1>1, <1>2, <1>3 DEF CryptoType
<1> HIDE DEF s
<1>5. Comes(pf, s, pf') /\ feed' \in [Symbol -> FeedType] /\ cash' \in [Symbol -> Int]
  BY <1>1, <1>2, <1>4
<1> QED
  BY <1>1, <1>2, <1>4, <1>5, BookStep

LEMMA PanelResetStep ==
  ASSUME DeskInv, PanelReset
  PROVE  StepOk
<1> DEFINE top == equity(pf)
           r == [pf EXCEPT !.halted = FALSE, !.peak_equity = top]
<1>1. /\ path = "panel" /\ pf' = r /\ after' = 0
      /\ UNCHANGED <<path, feed, scheduled, working, page, crypto, cash, leftover>>
  BY DEF PanelReset
<1>2. /\ pf \in PfType /\ feed \in [Symbol -> FeedType] /\ cash \in [Symbol -> Int]
      /\ crypto \in CryptoType /\ path \notin Live /\ path \notin {"taker", "demo", "dryrun"}
      /\ path # "backofi"
  BY <1>1, PanelParts
<1>3. top \in Int
  BY <1>2, EquityInt DEF PfType
<1> HIDE DEF top
<1>4. r \in PfType /\ r.peak_equity = top /\ r.equity_curve = pf.equity_curve
  BY <1>2, <1>3 DEF PfType
<1>5. pf.peak_equity \in Int /\ pf.equity_curve \in Seq(Int)
  BY <1>2 DEF PfType
<1> HIDE DEF r
<1>6. KillStep
  <2> SUFFICES ASSUME Calm(pf), ~(pf'.peak_equity < pf.peak_equity) PROVE Calm(pf')
    BY <1>1 DEF KillStep, Heeded
  <2>1. pf'.equity_curve = pf.equity_curve /\ pf'.peak_equity = top /\ pf.peak_equity <= top
    BY <1>1, <1>3, <1>4, <1>5
  <2> SUFFICES ASSUME NEW i \in 1 .. Len(pf.equity_curve)
               PROVE  /\ pf.equity_curve[i] <= top
                      /\ \A j \in i .. Len(pf.equity_curve) :
                           pf.equity_curve[i] - pf.equity_curve[j] < daily_loss_limit
    BY <2>1 DEF Calm
  <2>2. /\ pf.equity_curve[i] <= pf.peak_equity /\ pf.equity_curve[i] \in Int
        /\ \A j \in i .. Len(pf.equity_curve) :
             pf.equity_curve[i] - pf.equity_curve[j] < daily_loss_limit
    BY <1>5 DEF Calm
  <2>3. pf.equity_curve[i] <= top
    BY <1>3, <1>5, <2>1, <2>2
  <2> QED
    BY <2>2, <2>3
<1>7. /\ HaltInv' /\ scheduled' \in Seq(SendType) /\ scheduled' = <<>>
      /\ working' \in Seq(SendType) /\ working' = <<>>
  BY <1>1, <1>2, Quiet
<1>8. DeskType'
  BY <1>1, <1>2, <1>4, <1>7, StepTyped
<1>9. CapStep
  BY <1>2, CapElsewhere
<1> QED
  BY <1>6, <1>7, <1>8, <1>9 DEF StepOk

LEMMA ThresholdStep ==
  ASSUME DeskInv, NEW s \in Symbol, Threshold
  PROVE  StepOk
<1>1. /\ path = "panel" /\ feed' = [t \in Symbol |-> [feed[t] EXCEPT !.st = SW!NewStrategy]]
      /\ UNCHANGED <<path, pf, scheduled, working, page, crypto, cash, after, leftover>>
  BY DEF Threshold
<1>2. /\ pf \in PfType /\ feed \in [Symbol -> FeedType] /\ cash \in [Symbol -> Int]
      /\ crypto \in CryptoType /\ path \notin Live /\ path \notin {"taker", "demo", "dryrun"}
      /\ path # "backofi" /\ path \notin Heeding /\ Comes(pf, s, pf)
  BY <1>1, PanelParts
<1>3. SW!NewStrategy \in StType
  BY DEF SW!NewStrategy, StType
<1>4. \A t \in Symbol : [feed[t] EXCEPT !.st = SW!NewStrategy] \in FeedType
  BY <1>2, <1>3 DEF FeedType
<1>5. feed' \in [Symbol -> FeedType]
  BY <1>1, <1>4
<1>6. Comes(pf, s, pf') /\ cash' \in [Symbol -> Int] /\ crypto' \in CryptoType
  BY <1>1, <1>2
<1> QED
  BY <1>1, <1>2, <1>5, <1>6, BookStep

LEMMA StrategyStep ==
  ASSUME DeskInv, NEW names \in Enabled, NEW name \in Range(names), NEW on, Strategy(name, on)
  PROVE  StepOk
<1> DEFINE s == crypto.sym
           ads == IF on THEN SB!enable(crypto.ads, name) ELSE SB!disable(crypto.ads, name)
<1>1. /\ path = "panel" /\ crypto' = [crypto EXCEPT !.ads = ads]
      /\ UNCHANGED <<path, pf, feed, scheduled, working, page, cash, after, leftover>>
  BY DEF Strategy
<1>2. /\ pf \in PfType /\ feed \in [Symbol -> FeedType] /\ cash \in [Symbol -> Int]
      /\ crypto \in CryptoType /\ path \notin Live /\ path \notin {"taker", "demo", "dryrun"}
      /\ path # "backofi" /\ path \notin Heeding /\ \A t \in Symbol : Comes(pf, t, pf)
  BY <1>1, PanelParts
<1>3. name \in StrategyName
  <2>1. names \in Seq(StrategyName)
    BY DeskAssumption
  <2> QED
    BY <2>1 DEF Range
<1>4. s \in Symbol /\ crypto.ads \in Seq(AdType)
  BY <1>2 DEF CryptoType
<1>5. ads \in Seq(AdType)
  BY <1>3, <1>4, EnabledTyped, DisabledTyped
<1> HIDE DEF ads
<1>6. crypto' \in CryptoType
  BY <1>1, <1>2, <1>5 DEF CryptoType
<1> HIDE DEF s
<1>7. Comes(pf, s, pf') /\ feed' \in [Symbol -> FeedType] /\ cash' \in [Symbol -> Int]
  BY <1>1, <1>2, <1>4
<1> QED
  BY <1>1, <1>2, <1>4, <1>6, <1>7, BookStep

LEMMA PanelingStep ==
  ASSUME DeskInv, Paneling
  PROVE  StepOk
<1>1. ASSUME NEW s \in Symbol, NEW q \in Quotes, NEW calm, SimTaker(s, q, calm) PROVE StepOk
  BY <1>1, QuotesTyped, SimTakerStep
<1>2. ASSUME NEW s \in Symbol, NEW q \in Quotes, NEW hit, SimMaker(s, q, hit) PROVE StepOk
  BY <1>2, QuotesTyped, SimMakerStep
<1>3. ASSUME NEW s \in Symbol, NEW q \in Quotes, SimHalted(s, q) PROVE StepOk
  BY <1>3, QuotesTyped, SimHaltedStep
<1>4. ASSUME NEW q \in Quotes, NEW skew \in AS_SKEW, NEW half \in AS_HALF, NEW late,
             OnQuote(q, skew, half, late)
      PROVE  StepOk
  BY <1>4, QuotesTyped, OnQuoteStep
<1>5. ASSUME PanelReset PROVE StepOk
  BY <1>5, PanelResetStep
<1>6. ASSUME Threshold PROVE StepOk
  <2>1. crypto.sym \in Symbol
    BY <1>6, PanelParts DEF Threshold, CryptoType
  <2> QED
    BY <1>6, <2>1, ThresholdStep
<1>7. ASSUME NEW names \in Enabled, NEW on, NEW name \in Range(names), Strategy(name, on)
      PROVE  StepOk
  BY <1>7, StrategyStep
<1>8. ASSUME NEW q \in Quotes, Watched(q) PROVE StepOk
  BY <1>8, QuotesTyped, WatchedStep
<1> QED
  BY <1>1, <1>2, <1>3, <1>4, <1>5, <1>6, <1>7, <1>8 DEF Paneling

LEMMA NextStep ==
  ASSUME DeskInv, Step
  PROVE  StepOk
<1>1. ASSUME NEW s \in Symbol, NEW q \in Quotes, NEW calm, NEW cool, Simulate(s, q, calm, cool)
      PROVE  StepOk
  BY <1>1, QuotesTyped, SimulateStep
<1>2. ASSUME NEW s \in Symbol, NEW q \in Quotes, NEW calm, NEW cool, DryRun(s, q, calm, cool)
      PROVE  StepOk
  BY <1>2, QuotesTyped, DryRunStep
<1>3. ASSUME NEW s \in Symbol, NEW q \in Quotes, NEW cool, Demo(s, q, cool)
      PROVE  StepOk
  BY <1>3, QuotesTyped, DemoStep
<1>4. ASSUME NEW s \in Symbol, NEW q \in Quotes, NEW calm, OnTicker(s, q, calm)
      PROVE  StepOk
  BY <1>4, QuotesTyped, OnTickerStep
<1>5. ASSUME NEW cool, LoopSend(cool) PROVE StepOk
  BY <1>5, LoopSendStep
<1>6. ASSUME NEW i \in DOMAIN working, NEW n \in 1 .. MAX_ORDER, OnExec(i, n) PROVE StepOk
  BY <1>6, OnExecStep
<1>7. ASSUME Disconnect PROVE StepOk
  BY <1>7, DisconnectStep
<1>8. ASSUME NEW s \in Symbol, NEW q \in Quotes, NEW hit, SimulateMaker(s, q, hit)
      PROVE  StepOk
  BY <1>8, QuotesTyped, SimulateMakerStep
<1>9. ASSUME NEW cmd, Command(cmd) PROVE StepOk
  BY <1>9, PageStep
<1>10. ASSUME Writer PROVE StepOk
  BY <1>10, WriterStep
<1>11. ASSUME Backtesting PROVE StepOk
  BY <1>11, BacktestingStep
<1>12. ASSUME Paneling PROVE StepOk
  BY <1>12, PanelingStep
<1> QED
  BY <1>1, <1>2, <1>3, <1>4, <1>5, <1>6, <1>7, <1>8, <1>9, <1>10, <1>11, <1>12, Zenon DEF Step

LEMMA DeskNext ==
  ASSUME DeskInv, [Next]_vars
  PROVE  DeskInv' /\ (Next => CapStep)
<1>1. CASE Next
  <2>1. DeskType' /\ HaltInv' /\ KillStep /\ CapStep
    <3>1. StepOk
      BY <1>1, NextStep DEF Next
    <3> QED
      BY <3>1 DEF StepOk
  <2>2. tripped' = (tripped \/ pf'.halted \/ (path = "panel" /\ pf'.peak_equity < pf.peak_equity))
    BY <1>1 DEF Next
  <2>3. ~tripped => Calm(pf)
    BY DEF DeskInv, KillInv
  <2>4. (pf'.halted => tripped') /\ (~tripped' => Calm(pf)')
    <3>1. Heeded(pf') => pf'.halted \/ Calm(pf')
      BY DEF Heeded
    <3> QED
      BY <2>1, <2>2, <2>3, <3>1 DEF KillStep
  <2> QED
    BY <2>1, <2>4 DEF DeskInv, KillInv
<1>2. CASE UNCHANGED vars /\ ~Next
  <2>1. UNCHANGED <<path, pf, feed, scheduled, working, page, crypto, cash, after, leftover,
                    tripped, dropped>>
    BY <1>2 DEF vars
  <2>2. DeskType'
    BY <2>1 DEF DeskInv, DeskType
  <2>3. KillInv'
    BY <2>1 DEF DeskInv, KillInv
  <2>4. HaltInv'
    <3>1. CASE path \notin Heeding
      BY <2>1, <3>1 DEF DeskInv, HaltInv
    <3>2. CASE path \in Heeding
      <4>1. /\ scheduled \in Seq(SendType) /\ working \in Seq(SendType)
            /\ after \in Nat /\ leftover \in Nat /\ (~pf.halted => after = 0)
            /\ pf.halted => after + (IF path = "ibkr" THEN SharesOf(scheduled) + SharesOf(working)
                                     ELSE Len(scheduled)) <= leftover
        BY <3>2, LiveParts
      <4>2. path \notin Live => after = 0
        BY <3>2 DEF DeskInv, HaltInv
      <4> QED
        BY <2>1, <4>1, <4>2, HaltStep
    <3> QED
      BY <3>1, <3>2
  <2> QED
    BY <1>2, <2>2, <2>3, <2>4 DEF DeskInv
<1> QED
  BY <1>1, <1>2

LEMMA NewFeedTyped == NewFeed \in FeedType /\ (path = "backofi" => Len(NewFeed.flow.buf) > 0)
<1> DEFINE zeros == [i \in 1 .. OFI_WINDOW |-> 0]
           flow == IF path = "backofi" THEN SB!NewMaker ELSE SB!NewSignal
<1>1. zeros \in Seq(Int) /\ Len(zeros) > 0
  BY DeskAssumption
<1>2. SB!NewMaker \in FlowType /\ Len(SB!NewMaker.buf) > 0
  <2>1. SB!NewMaker = [prev |-> NoQuote, buf |-> zeros]
    BY DEF SB!NewMaker
  <2> HIDE DEF zeros
  <2> QED
    BY <1>1, <2>1 DEF FlowType
<1>3. SB!NewSignal \in FlowType
  BY DEF SB!NewSignal, FlowType
<1> HIDE DEF zeros
<1>4. flow \in FlowType /\ (path = "backofi" => Len(flow.buf) > 0)
  BY <1>2, <1>3
<1>5. SW!NewStrategy \in StType
  BY DEF SW!NewStrategy, StType
<1>6. G!NewGuard \in GuardType
  BY DEF G!NewGuard, GuardType
<1>7. NewFeed = [st |-> SW!NewStrategy, guard |-> G!NewGuard, running |-> TRUE, last |-> NoQuote,
                 mids |-> <<>>, flow |-> flow]
  BY DEF NewFeed
<1> HIDE DEF flow
<1>8. <<>> \in Seq(Int)
  OBVIOUS
<1> QED
  BY <1>4, <1>5, <1>6, <1>7, <1>8 DEF FeedType

LEMMA DeskInit ==
  ASSUME Init
  PROVE  DeskInv
<1>1. /\ pf = NewPortfolio /\ feed = [s \in Symbol |-> NewFeed]
      /\ scheduled = <<>> /\ working = <<>>
      /\ IF path = "panel" THEN \E s \in Symbol, names \in Enabled : crypto = NewCrypto(s, names)
         ELSE crypto = NewCrypto("none", <<>>)
      /\ cash = [s \in Symbol |-> 0] /\ after = 0 /\ leftover = 0 /\ tripped = FALSE
  BY DEF Init
<1>2. /\ pf \in PfType /\ ~pf.halted /\ pf.equity_curve = <<>>
  <2>1. NewBook \in BookType
    BY DEF NewBook, BookType
  <2>2. [s \in Symbol |-> NewBook] \in Books0
    BY <2>1 DEF Books0
  <2>3. <<>> \in Seq(Int)
    OBVIOUS
  <2> QED
    BY <1>1, <2>2, <2>3 DEF NewPortfolio, PfType
<1>3. Calm(pf)
  <2>1. Len(pf.equity_curve) = 0
    BY <1>2
  <2> QED
    BY <2>1 DEF Calm
<1>4. /\ feed \in [Symbol -> FeedType]
      /\ path = "backofi" => \A s \in Symbol : Len(feed[s].flow.buf) > 0
  BY <1>1, NewFeedTyped
<1>5. path = "panel" => crypto \in CryptoType
  <2> SUFFICES ASSUME NEW s \in Symbol, NEW names \in Enabled, crypto = NewCrypto(s, names)
               PROVE  crypto \in CryptoType
    BY <1>1
  <2>1. names \in Seq(StrategyName)
    BY DeskAssumption
  <2>2. SB!NewBook(names) \in Seq(AdType)
    BY <2>1, NewBookTyped
  <2> QED
    BY <2>2 DEF NewCrypto, CryptoType
<1>6. scheduled \in Seq(SendType) /\ working \in Seq(SendType) /\ cash \in [Symbol -> Int]
  BY <1>1
<1>7. DeskType
  BY <1>1, <1>2, <1>4, <1>5, <1>6 DEF DeskType
<1>8. KillInv
  BY <1>2, <1>3 DEF KillInv
<1>9. HaltInv
  BY <1>1, <1>2 DEF HaltInv
<1> QED
  BY <1>7, <1>8, <1>9 DEF DeskInv

\* The inductive invariant holds throughout.
LEMMA DeskSafe == Spec => []DeskInv
<1>1. Init => DeskInv
  BY DeskInit
<1>2. DeskInv /\ [Next]_vars => DeskInv'
  BY DeskNext
<1> QED
  BY <1>1, <1>2, PTL DEF Spec

\* What a halted run of live_feed may still trade is bounded by what was under way when the
\* kill switch tripped: the sends and executions that are left account for every fill
\* since, and a run that books at once has none.
THEOREM TradingStops == Spec => []HaltStopsTrading
<1>1. DeskInv => HaltStopsTrading
  <2> SUFFICES ASSUME DeskInv, path \in Heeding PROVE StopsEverywhere
    BY DEF HaltStopsTrading
  <2>1. /\ SharesOf(scheduled) \in Nat /\ SharesOf(working) \in Nat /\ Len(scheduled) \in Nat
        /\ after \in Nat /\ leftover \in Nat /\ (~pf.halted => after = 0)
        /\ pf.halted => after + (IF path = "ibkr" THEN SharesOf(scheduled) + SharesOf(working)
                                 ELSE Len(scheduled)) <= leftover
    BY LiveParts
  <2>2. path \notin Live => after = 0
    BY DEF DeskInv, HaltInv
  <2> DEFINE x == SharesOf(scheduled)
             y == SharesOf(working)
             n == Len(scheduled)
  <2> HIDE DEF x, y, n
  <2>3. after <= leftover
    <3>1. CASE ~pf.halted
      BY <2>1, <3>1
    <3>2. CASE pf.halted
      <4>1. x + y \in Nat /\ n \in Nat
        BY <2>1 DEF x, y, n
      <4>2. after + (IF path = "ibkr" THEN x + y ELSE n) <= leftover
        BY <2>1, <3>2 DEF x, y, n
      <4> QED
        BY <2>1, <4>1, <4>2
    <3> QED
      BY <3>1, <3>2
  <2> QED
    BY <2>2, <2>3, <2>1 DEF StopsEverywhere, Live
<1> QED
  BY <1>1, DeskSafe, PTL

\* An order of a taker that books its own fills stays within the gross exposure allowed
\* over all symbols: every step of every run, from the inductive invariant.
THEOREM CapAlwaysRespected == Spec => CapRespected
<1>1. DeskInv /\ [Next]_vars => [CapStep]_vars
  BY DeskNext
<1>2. [][CapStep]_vars => CapRespected
  BY PTL DEF CapRespected, CapStep
<1> QED
  BY <1>1, <1>2, DeskSafe, PTL DEF Spec
-----------------------------------------------------------------------------
(* The greatest fall of the page and the kill switch.                      *)

\* Finitely many numbers have a greatest.
LEMMA GreatestOf ==
  ASSUME NEW f, NEW n \in Nat, n > 0, \A i \in 1 .. n : f[i] \in Int
  PROVE  Max({f[i] : i \in 1 .. n}) \in {f[i] : i \in 1 .. n}
<1> DEFINE Top(m) == \E k \in 1 .. m : \A i \in 1 .. m : f[i] <= f[k]
           A == {m \in Nat : m + 1 <= n => Top(m + 1)}
<1>1. 0 \in A
  BY DEF Top
<1>2. ASSUME NEW m \in A PROVE m + 1 \in A
  <2> SUFFICES ASSUME m + 2 <= n PROVE Top(m + 2)
    OBVIOUS
  <2>1. PICK k \in 1 .. m + 1 : \A i \in 1 .. m + 1 : f[i] <= f[k]
    OBVIOUS
  <2>2. f[k] \in Int /\ f[m + 2] \in Int /\ k \in 1 .. m + 2 /\ m + 2 \in 1 .. m + 2
    OBVIOUS
  <2>3. CASE f[m + 2] <= f[k]
    <3>1. \A i \in 1 .. m + 2 : f[i] <= f[k]
      <4> SUFFICES ASSUME NEW i \in 1 .. m + 2 PROVE f[i] <= f[k]
        OBVIOUS
      <4>1. i \in 1 .. m + 1 \/ i = m + 2
        OBVIOUS
      <4> QED
        BY <2>1, <2>3, <4>1
    <3> QED
      BY <2>2, <3>1
  <2>4. CASE ~(f[m + 2] <= f[k])
    <3>1. \A i \in 1 .. m + 2 : f[i] <= f[m + 2]
      <4> SUFFICES ASSUME NEW i \in 1 .. m + 2 PROVE f[i] <= f[m + 2]
        OBVIOUS
      <4>1. f[i] \in Int /\ (i \in 1 .. m + 1 \/ i = m + 2)
        OBVIOUS
      <4>2. CASE i = m + 2
        BY <2>2, <4>2
      <4>3. CASE i \in 1 .. m + 1
        <5>1. f[i] <= f[k]
          BY <2>1, <4>3
        <5> QED
          BY <2>2, <2>4, <4>1, <5>1
      <4> QED
        BY <4>1, <4>2, <4>3
    <3> QED
      BY <2>2, <3>1
  <2> QED
    BY <2>3, <2>4
<1>3. A = Nat
  <2>1. A \in SUBSET Nat
    OBVIOUS
  <2> HIDE DEF A
  <2> QED
    BY <1>1, <1>2, <2>1, NatInduct
<1>4. Top(n)
  <2>1. n - 1 \in Nat /\ (n - 1) + 1 = n
    OBVIOUS
  <2>2. n - 1 \in A
    <3> HIDE DEF A
    <3> QED
      BY <1>3, <2>1
  <2>3. Top((n - 1) + 1)
    BY <2>1, <2>2
  <2> HIDE DEF Top
  <2> QED
    BY <2>1, <2>3
<1>5. PICK k \in 1 .. n : \A i \in 1 .. n : f[i] <= f[k]
  BY <1>4
<1> DEFINE S == {f[i] : i \in 1 .. n}
<1>6. f[k] \in S /\ \A y \in S : f[k] >= y
  BY <1>5
<1> HIDE DEF S
<1>7. Max(S) \in S
  BY <1>6 DEF Max
<1> QED
  BY <1>7 DEF S

\* Of a curve that is calm, the greatest fall is below the limit.
LEMMA FallBelow ==
  ASSUME NEW p \in PfType, Calm(p)
  PROVE  ~(trade_stats(p).max_dd >= daily_loss_limit)
<1> DEFINE curve == p.equity_curve
           n == Len(curve)
           high(i) == Max({curve[j] : j \in 1 .. i})
           falls == {high(i) - curve[i] : i \in DOMAIN curve}
           g == [i \in 1 .. n + 1 |-> IF i = n + 1 THEN 0 ELSE high(i) - curve[i]]
           all == {g[i] : i \in 1 .. n + 1}
           max_dd == Max(falls \cup {0})
<1>1. curve \in Seq(Int) /\ n \in Nat /\ DOMAIN curve = 1 .. n /\ \A i \in 1 .. n : curve[i] \in Int
  <2>1. curve \in Seq(Int)
    BY DEF PfType
  <2> HIDE DEF curve
  <2> QED
    BY <2>1
<1>2. \A i \in 1 .. n : \A j \in i .. n : curve[i] - curve[j] < daily_loss_limit
  BY DEF Calm
<1>3. daily_loss_limit \in Nat \ {0}
  BY PortfolioAssumption
<1>4. trade_stats(p).max_dd = max_dd
  BY DEF trade_stats
<1> HIDE DEF curve, n
<1>5. ASSUME NEW i \in 1 .. n PROVE high(i) - curve[i] \in Int /\ high(i) - curve[i] < daily_loss_limit
  <2> DEFINE S == {curve[j] : j \in 1 .. i}
  <2>1. i \in Nat /\ i > 0 /\ \A j \in 1 .. i : curve[j] \in Int
    BY <1>1
  <2>2. Max(S) \in S
    BY <2>1, GreatestOf
  <2> DEFINE top == Max(S)
  <2> HIDE DEF top
  <2>3. PICK k \in 1 .. i : top = curve[k]
    BY <2>2 DEF top
  <2>4. k \in 1 .. n /\ i \in k .. n
    BY <1>1
  <2>5. curve[k] \in Int /\ curve[i] \in Int /\ curve[k] - curve[i] < daily_loss_limit
    BY <1>1, <1>2, <2>4
  <2>6. high(i) = top
    BY DEF top
  <2> HIDE DEF high
  <2> QED
    BY <2>3, <2>5, <2>6
<1> HIDE DEF high
<1>6. \A i \in 1 .. n + 1 : g[i] \in Int /\ g[i] < daily_loss_limit
  <2> SUFFICES ASSUME NEW i \in 1 .. n + 1 PROVE g[i] \in Int /\ g[i] < daily_loss_limit
    OBVIOUS
  <2>1. CASE i = n + 1
    BY <1>3, <2>1
  <2>2. CASE i \in 1 .. n
    <3>1. i # n + 1
      BY <1>1, <2>2
    <3> QED
      BY <1>5, <2>2, <3>1
  <2> QED
    BY <1>1, <2>1, <2>2
<1>7. falls \cup {0} = all
  <2>1. ASSUME NEW i \in 1 .. n PROVE high(i) - curve[i] \in all
    <3>1. i \in 1 .. n + 1 /\ i # n + 1
      BY <1>1
    <3>2. g[i] = high(i) - curve[i]
      BY <3>1
    <3> HIDE DEF g
    <3> QED
      BY <3>1, <3>2
  <2>2. 0 \in all
    <3>1. n + 1 \in 1 .. n + 1
      BY <1>1
    <3>2. g[n + 1] = 0
      BY <3>1
    <3> HIDE DEF g
    <3> QED
      BY <3>1, <3>2
  <2>3. ASSUME NEW i \in 1 .. n + 1 PROVE g[i] \in falls \cup {0}
    <3>1. i = n + 1 \/ i \in 1 .. n
      BY <1>1
    <3> QED
      BY <1>1, <3>1
  <2> HIDE DEF g
  <2>4. falls \cup {0} \subseteq all
    BY <1>1, <2>1, <2>2
  <2>5. all \subseteq falls \cup {0}
    BY <2>3
  <2> QED
    BY <2>4, <2>5
<1> HIDE DEF g, falls
<1>8. Max(all) \in all
  <2>1. n + 1 \in Nat /\ n + 1 > 0 /\ \A i \in 1 .. n + 1 : g[i] \in Int
    BY <1>1, <1>6
  <2> QED
    BY <2>1, GreatestOf
<1>9. max_dd \in all
  BY <1>7, <1>8
<1> HIDE DEF max_dd
<1>10. max_dd \in Int /\ max_dd < daily_loss_limit
  BY <1>6, <1>9
<1> QED
  BY <1>3, <1>4, <1>10

\* Both pages show the statistics of the portfolio and the limit.
LEMMA Shown == shown.stats = trade_stats(pf) /\ shown.daily_loss = daily_loss_limit
<1>1. live_state.stats = trade_stats(pf) /\ live_state.daily_loss = daily_loss_limit
      /\ "stats" \in DOMAIN live_state /\ "daily_loss" \in DOMAIN live_state
  BY DEF live_state
<1>2. state["stats"] = live_state["stats"] /\ state["daily_loss"] = live_state["daily_loss"]
  <2> DEFINE rows == SB!stats(crypto.ads, crypto.mark)
             sums == SB!totals(crypto.ads, crypto.mark)
             both == [strategies |-> rows, totals |-> sums]
             base == live_state
  <2>1. state = [key \in DOMAIN base \cup DOMAIN both |->
                   IF key \in DOMAIN both THEN both[key] ELSE base[key]]
    BY DEF state
  <2> HIDE DEF base, rows, sums
  <2>2. "stats" \in DOMAIN base /\ "daily_loss" \in DOMAIN base
    BY <1>1 DEF base
  <2>3. "stats" \notin DOMAIN both /\ "daily_loss" \notin DOMAIN both
    OBVIOUS
  <2> HIDE DEF both
  <2> QED
    BY <2>1, <2>2, <2>3 DEF base
<1> QED
  BY <1>1, <1>2 DEF shown

\* A fall as deep as the limit is shown only of a run whose kill switch has tripped or whose
\* high-water mark was lowered: as long as neither happened, the curve is calm, because
\* _check_kill compared the equity of each fill with a mark that no point is above.
THEOREM PageAlwaysAgrees == Spec => []PageAgreesWithKill
<1>1. DeskInv => PageAgreesWithKill
  <2> SUFFICES ASSUME DeskInv, ~tripped PROVE ~(shown.stats.max_dd >= shown.daily_loss)
    BY DEF PageAgreesWithKill
  <2>1. pf \in PfType /\ Calm(pf)
    BY DEF DeskInv, DeskType, KillInv
  <2>2. ~(trade_stats(pf).max_dd >= daily_loss_limit)
    BY <2>1, FallBelow
  <2> QED
    BY <2>2, Shown
<1> QED
  BY <1>1, DeskSafe, PTL
-----------------------------------------------------------------------------
(* Proof of GuardedOrders.  What the page's guards leave behind: as long as *)
(* the broker is armed, it has a client and the feed of the page is live,   *)
(* and a client for live money was confirmed.                               *)

Source == {"sim", "alpaca"}

ThreadType == [source : Source, stopped : BOOLEAN,
               pc : {"idle", "quote", "route", "submit", "fill"}, todo : Seq(Intent)]

Busy(t) == t.pc \in {"route", "submit", "fill"}

ThreadsInv ==
  /\ threads \in Seq(ThreadType) /\ Feed > 0
  /\ \A f \in 1 .. Feed : Busy(threads[f]) => Len(threads[f].todo) > 0
  /\ \A f \in 1 .. Feed : f # Feed => threads[f].stopped

\* A thread of the same feed.
Alike(u, t) == u.source = t.source /\ u.stopped = t.stopped

ArmedInv ==
  /\ bridge \in [dry_run : BOOLEAN, paper : BOOLEAN, client : {"none", "paper", "live"},
                 position : Int, max_position : Limit]
  /\ ~bridge.dry_run => creds /\ live /\ bridge.client # "none"
  /\ bridge.client = "live" => confirmed

MonitorInv == ThreadsInv /\ ArmedInv

\* A thread that was moved on keeps the threads in type, and the sources as they are.
LEMMA MovesTyped ==
  ASSUME ThreadsInv, NEW f \in 1 .. Feed, NEW t \in ThreadType, Moves(f, t),
         Alike(t, threads[f]), Busy(t) => Len(t.todo) > 0
  PROVE  /\ ThreadsInv' /\ Feed' = Feed
         /\ \A g \in 1 .. Feed : threads'[g] = IF g = f THEN t ELSE threads[g]
         /\ live' = live
<1>1. threads \in Seq(ThreadType) /\ Feed \in Nat /\ Feed >= 1
  BY DEF ThreadsInv, Feed
<1>2. /\ threads' \in Seq(ThreadType) /\ Len(threads') = Feed
      /\ \A g \in 1 .. Feed : threads'[g] = IF g = f THEN t ELSE threads[g]
  BY <1>1 DEF Moves, Feed
<1> QED
  BY <1>1, <1>2 DEF ThreadsInv, Feed, live, Alike

\* The same for a thread of which only the place in the code changes.
LEMMA GoesMoves ==
  ASSUME ThreadsInv, NEW f \in 1 .. Feed, NEW pc, Goes(f, pc)
  PROVE  Moves(f, [threads[f] EXCEPT !.pc = pc])
BY DEF Goes, Moves, ThreadsInv, Feed

\* A thread with other intents, at another place.
LEMMA EditTyped ==
  ASSUME NEW t \in ThreadType, NEW todo \in Seq(Intent), NEW pc \in {"idle", "route"}
  PROVE  LET u == [t EXCEPT !.todo = todo, !.pc = pc]
         IN  u \in ThreadType /\ Alike(u, t) /\ u.pc = pc /\ u.todo = todo
<1> DEFINE v == [t EXCEPT !.todo = todo]
<1>1. v \in ThreadType /\ Alike(v, t) /\ v.todo = todo
  BY DEF ThreadType, Alike
<1> HIDE DEF v
<1>2. LET u == [v EXCEPT !.pc = pc]
      IN  u \in ThreadType /\ Alike(u, v) /\ u.pc = pc /\ u.todo = v.todo
  BY <1>1 DEF ThreadType, Alike
<1> QED
  BY <1>1, <1>2 DEF v, Alike

\* On to the next intent.
LEMMA Next1Typed ==
  ASSUME NEW t \in ThreadType, Len(t.todo) > 0
  PROVE  /\ Next1(t) \in ThreadType /\ Alike(Next1(t), t)
         /\ Next1(t).pc \in {"idle", "route"}
         /\ Busy(Next1(t)) => Len(Next1(t).todo) > 0
<1> DEFINE rest == Tail(t.todo)
<1>1. t.todo \in Seq(Intent) /\ Len(t.todo) \in Nat /\ t.todo # <<>>
  <2>1. t.todo \in Seq(Intent)
    BY DEF ThreadType
  <2> QED
    BY <2>1
<1>2. rest \in Seq(Intent) /\ Len(rest) \in Nat /\ Len(rest) = Len(t.todo) - 1
  BY <1>1
<1> HIDE DEF rest
<1>3. CASE Len(t.todo) = 1
  <2>1. Next1(t) = [t EXCEPT !.todo = rest, !.pc = "idle"]
    BY <1>3, SMTT(30) DEF Next1, rest
  <2>2. LET u == [t EXCEPT !.todo = rest, !.pc = "idle"]
        IN  u \in ThreadType /\ Alike(u, t) /\ u.pc = "idle" /\ u.todo = rest
    BY <1>2, EditTyped, ZenonT(40)
  <2> QED
    BY <2>1, <2>2 DEF Busy
<1>4. CASE Len(t.todo) # 1
  <2>1. Next1(t) = [t EXCEPT !.todo = rest, !.pc = "route"]
    BY <1>4, SMTT(30) DEF Next1, rest
  <2>2. LET u == [t EXCEPT !.todo = rest, !.pc = "route"]
        IN  u \in ThreadType /\ Alike(u, t) /\ u.pc = "route" /\ u.todo = rest
    BY <1>2, EditTyped, ZenonT(40)
  <2>3. \A m, n \in Nat : m = n - 1 /\ n > 0 /\ n # 1 => m > 0
    OBVIOUS
  <2>4. Len(rest) > 0
    BY <1>1, <1>2, <1>4, <2>3
  <2> QED
    BY <2>1, <2>2, <2>4 DEF Busy
<1> QED
  BY <1>3, <1>4

\* The controller starts with a dry-run broker without a client.
LEMMA MonitorInitInv == MonitorInit => MonitorInv
<1> SUFFICES ASSUME MonitorInit PROVE MonitorInv
  OBVIOUS
<1>1. PICK source \in Source : threads = <<Thread(source)>>
  BY DEF MonitorInit, Available, Source
<1>2. Thread(source) \in ThreadType /\ ~Busy(Thread(source))
  BY DEF Thread, ThreadType, Busy
<1>3. ThreadsInv
  BY <1>1, <1>2 DEF ThreadsInv, Feed
<1>4. ArmedInv
  BY MonitorAssumption DEF MonitorInit, NewBridge, ArmedInv
<1> QED
  BY <1>3, <1>4 DEF MonitorInv

\* A step that leaves threads and broker alone.
LEMMA QuietStep ==
  ASSUME MonitorInv, UNCHANGED <<threads, bridge, creds>>, confirmed => confirmed'
  PROVE  MonitorInv'
BY DEF MonitorInv, ThreadsInv, ArmedInv, Feed, live

\* What a feed's thread does: it goes on, and an order goes out only from an armed broker.
LEMMA ThreadStep ==
  ASSUME MonitorInv, NEW f \in 1 .. Feed, FeedThread(f)
  PROVE  /\ MonitorInv'
         /\ \A g \in 1 .. Feed :
              threads[g].pc = "route" /\ threads'[g].pc = "submit" => ~bridge.dry_run
<1> DEFINE t == threads[f]
           Sends(u) == t.pc = "route" /\ u.pc = "submit"
<1>1. /\ ThreadsInv /\ ArmedInv /\ t \in ThreadType
      /\ Busy(t) => Len(t.todo) > 0
  BY DEF MonitorInv, ThreadsInv, Feed
\* It is enough to look at the thread itself, and at what it does to the broker.
<1>2. ASSUME NEW u \in ThreadType, Moves(f, u), Alike(u, t),
             Busy(u) => Len(u.todo) > 0, Sends(u) => ~bridge.dry_run,
             UNCHANGED <<creds, confirmed>>,
             \/ UNCHANGED bridge
             \/ \E n \in Int : bridge' = [bridge EXCEPT !.position = n]
      PROVE  /\ MonitorInv'
             /\ \A g \in 1 .. Feed :
                  threads[g].pc = "route" /\ threads'[g].pc = "submit" => ~bridge.dry_run
  <2>1. /\ ThreadsInv' /\ Feed' = Feed /\ live' = live
        /\ \A g \in 1 .. Feed : threads'[g] = IF g = f THEN u ELSE threads[g]
    BY <1>1, <1>2, MovesTyped
  <2>2. ArmedInv'
    BY <1>1, <1>2, <2>1 DEF ArmedInv
  <2> QED
    BY <1>2, <2>1, <2>2 DEF MonitorInv
<1>3. ASSUME NEW pc \in {"idle", "quote", "route", "submit", "fill"}, Goes(f, pc),
             pc \in {"route", "submit", "fill"} => Busy(t)
      PROVE  LET u == [t EXCEPT !.pc = pc]
             IN  /\ u \in ThreadType /\ Moves(f, u) /\ Alike(u, t) /\ u.pc = pc
                 /\ Busy(u) => Len(u.todo) > 0
  <2>1. Moves(f, [t EXCEPT !.pc = pc])
    BY <1>1, <1>3, GoesMoves
  <2> QED
    BY <1>1, <1>3, <2>1 DEF ThreadType, Busy, Alike
<1>4. CASE Emit(f)
  BY <1>1, <1>2, <1>3, <1>4 DEF Emit, Busy
<1>5. ASSUME NEW intents \in Intents, OnFeedQuote(f, intents)
      PROVE  \E u \in ThreadType :
               /\ Moves(f, u) /\ Alike(u, t) /\ u.pc # "submit"
               /\ Busy(u) => Len(u.todo) > 0
  <2>1. intents \in Seq(Intent) /\ (intents # <<>> => Len(intents) > 0)
    <3>1. ASSUME NEW s \in AVAILABLE, NEW n \in {1, -1} PROVE [name |-> s, lots |-> n] \in Intent
      BY DEF Intent
    <3>2. CASE intents = <<>>
      BY <3>2
    <3>3. CASE \E i \in Intent : intents = <<i>>
      BY <3>3
    <3>4. CASE \E r \in AVAILABLE, s \in AVAILABLE :
                 intents = <<[name |-> r, lots |-> 1], [name |-> s, lots |-> -1]>>
      <4>1. PICK i \in Intent, j \in Intent : intents = <<i, j>>
        BY <3>1, <3>4
      <4> QED
        BY <4>1
    <3> QED
      BY <3>2, <3>3, <3>4 DEF Intents
  <2>2. CASE Moves(f, [t EXCEPT !.pc = "idle"])
    <3>1. LET u == [t EXCEPT !.pc = "idle"]
          IN  u \in ThreadType /\ Alike(u, t) /\ u.pc = "idle"
      BY <1>1 DEF ThreadType, Alike
    <3> QED
      BY <2>2, <3>1 DEF Busy
  <2>3. CASE intents # <<>> /\ Moves(f, [t EXCEPT !.todo = intents, !.pc = "route"])
    <3>1. LET u == [t EXCEPT !.todo = intents, !.pc = "route"]
          IN  u \in ThreadType /\ Alike(u, t) /\ u.pc = "route" /\ u.todo = intents
      BY <1>1, <2>1, EditTyped, ZenonT(40)
    <3> QED
      BY <2>1, <2>3, <3>1 DEF Busy
  <2> QED
    BY <1>5, <2>2, <2>3 DEF OnFeedQuote
<1>6. ASSUME NEW intents \in Intents, OnFeedQuote(f, intents)
      PROVE  /\ MonitorInv'
             /\ \A g \in 1 .. Feed :
                  threads[g].pc = "route" /\ threads'[g].pc = "submit" => ~bridge.dry_run
  BY <1>2, <1>5, <1>6, Zenon DEF OnFeedQuote
\* Lots are numbers, so that the position stays one.
<1>7. ASSUME Busy(t)
      PROVE  /\ Head(t.todo).lots \in Int /\ bridge.position \in Int
             /\ Next1(t) \in ThreadType /\ Alike(Next1(t), t)
             /\ Next1(t).pc # "submit" /\ (Busy(Next1(t)) => Len(Next1(t).todo) > 0)
  <2>1. Len(t.todo) > 0 /\ t.todo \in Seq(Intent)
    BY <1>1, <1>7 DEF ThreadType
  <2>2. Head(t.todo) \in Intent
    BY <2>1
  <2> QED
    BY <1>1, <2>1, <2>2, Next1Typed DEF Intent, ArmedInv
<1>8. ASSUME NEW b \in BOOLEAN, Route(f, b)
      PROVE  /\ MonitorInv'
             /\ \A g \in 1 .. Feed :
                  threads[g].pc = "route" /\ threads'[g].pc = "submit" => ~bridge.dry_run
  <2>1. Busy(t) /\ UNCHANGED <<creds, confirmed>>
    BY <1>8 DEF Route, Busy
  <2>2. CASE Moves(f, Next1(t)) /\ UNCHANGED bridge
    BY <1>2, <1>7, <2>1, <2>2
  <2>3. CASE /\ Goes(f, IF bridge.dry_run THEN "fill" ELSE "submit")
             /\ bridge' = [bridge EXCEPT !.position = bridge.position + Head(t.todo).lots]
    <3>1. bridge.position + Head(t.todo).lots \in Int
      BY <1>7, <2>1
    <3>2. CASE bridge.dry_run
      BY <1>2, <1>3, <2>1, <2>3, <3>1, <3>2
    <3>3. CASE ~bridge.dry_run
      BY <1>2, <1>3, <2>1, <2>3, <3>1, <3>3
    <3> QED
      BY <3>2, <3>3
  <2> QED
    BY <1>8, <2>2, <2>3 DEF Route
<1>9. ASSUME NEW b \in BOOLEAN, Submitted(f, b)
      PROVE  /\ MonitorInv'
             /\ \A g \in 1 .. Feed :
                  threads[g].pc = "route" /\ threads'[g].pc = "submit" => ~bridge.dry_run
  <2>1. Busy(t) /\ t.pc = "submit" /\ UNCHANGED <<creds, confirmed>>
    BY <1>9 DEF Submitted, Busy
  <2>2. CASE Goes(f, "fill") /\ UNCHANGED bridge
    BY <1>2, <1>3, <2>1, <2>2
  <2>3. CASE /\ Moves(f, Next1(t))
             /\ bridge' = [bridge EXCEPT !.position = bridge.position - Head(t.todo).lots]
    <3>1. bridge.position - Head(t.todo).lots \in Int
      BY <1>7, <2>1
    <3> QED
      BY <1>2, <1>7, <2>1, <2>3, <3>1
  <2> QED
    BY <1>9, <2>2, <2>3 DEF Submitted
<1>10. ASSUME NEW b \in BOOLEAN, BookFill(f, b)
      PROVE  /\ MonitorInv'
             /\ \A g \in 1 .. Feed :
                  threads[g].pc = "route" /\ threads'[g].pc = "submit" => ~bridge.dry_run
  <2>1. Busy(t) /\ Moves(f, Next1(t)) /\ UNCHANGED <<creds, bridge, confirmed>>
    BY <1>10 DEF BookFill, Busy
  <2> QED
    BY <1>2, <1>7, <2>1
<1> QED
  BY <1>4, <1>6, <1>8, <1>9, <1>10 DEF FeedThread

\* What a command does: the broker is armed on a live feed only.
LEMMA CommandStep ==
  ASSUME MonitorInv, PageCommand
  PROVE  /\ MonitorInv'
         /\ \A f \in 1 .. Feed : threads'[f].pc = threads[f].pc
<1>1. ThreadsInv /\ ArmedInv /\ threads \in Seq(ThreadType) /\ Feed \in Nat /\ Feed > 0
  BY DEF MonitorInv, ThreadsInv, Feed
<1>2. ASSUME NEW cmd \in {"start", "stop", "pause", "resume", "stop_trade"}, Flags(cmd)
      PROVE  MonitorInv' /\ UNCHANGED threads
  BY <1>2, QuietStep DEF Flags
<1>3. ASSUME NEW want \in {"sim", "alpaca"}, SwitchFeed(want)
      PROVE  MonitorInv' /\ \A f \in 1 .. Feed : threads'[f].pc = threads[f].pc
  <2> DEFINE old == [threads[Feed] EXCEPT !.stopped = TRUE]
             new == Thread(Available(want))
  <2>1. /\ old \in ThreadType /\ old.pc = threads[Feed].pc /\ old.todo = threads[Feed].todo
        /\ old.stopped
        /\ new \in ThreadType /\ new.source = Available(want) /\ new.pc = "idle"
    <3>1. threads[Feed] \in ThreadType /\ Available(want) \in Source
      <4>1. threads[Feed] \in ThreadType
        BY <1>1 DEF Feed
      <4> QED
        BY <4>1 DEF Available, Source
    <3>2. /\ old \in ThreadType /\ old.pc = threads[Feed].pc /\ old.todo = threads[Feed].todo
          /\ old.stopped
      BY <3>1 DEF ThreadType
    <3>3. new \in ThreadType /\ new.source = Available(want) /\ new.pc = "idle"
      BY <3>1 DEF ThreadType, Thread
    <3> QED
      BY <3>2, <3>3
  <2>2. threads' = Append([threads EXCEPT ![Feed] = old], new)
    BY <1>1, <1>3 DEF SwitchFeed, Feed
  <2> HIDE DEF old, new
  <2>3. /\ threads' \in Seq(ThreadType) /\ Len(threads') = Feed + 1
        /\ \A f \in 1 .. Feed : threads'[f] = IF f = Feed THEN old ELSE threads[f]
        /\ threads'[Feed + 1] = new
    BY <1>1, <2>1, <2>2 DEF Feed
  <2>4. ThreadsInv'
    BY <1>1, <2>1, <2>3 DEF ThreadsInv, Feed, Busy
  <2>5. ArmedInv'
    BY <1>1, <1>3, <2>1, <2>3 DEF ArmedInv, SwitchFeed, Available, live, Feed
  <2> QED
    BY <2>1, <2>3, <2>4, <2>5 DEF MonitorInv
<1>4. CASE BeginTrade
  BY <1>4, QuietStep DEF BeginTrade
<1>5. ASSUME NEW name \in AVAILABLE, Enable(name) \/ Disable(name)
      PROVE  MonitorInv' /\ UNCHANGED threads
  BY <1>5, QuietStep DEF Enable, Disable
<1>6. ASSUME NEW want \in {"dryrun", "paper", "live"}, NEW confirm \in BOOLEAN,
             Broker(want, confirm)
      PROVE  MonitorInv' /\ UNCHANGED threads
  <2>1. ThreadsInv'
    BY <1>1, <1>6 DEF Broker, ThreadsInv, Feed
  <2>2. ArmedInv'
    BY <1>1, <1>6 DEF Broker, ArmedInv, may_arm, arm, live, Feed
  <2> QED
    BY <1>6, <2>1, <2>2 DEF MonitorInv, Broker
<1>7. ASSUME NEW max_position \in Limit, SetLimit(max_position)
      PROVE  MonitorInv' /\ UNCHANGED threads
  BY <1>1, <1>7 DEF SetLimit, MonitorInv, ThreadsInv, ArmedInv, live, Feed
<1> QED
  BY <1>2, <1>3, <1>4, <1>5, <1>6, <1>7 DEF PageCommand, BeginTrade

\* Whatever the page commands and when: a feed's thread sends an order to a broker only
\* when it has a client, only from a live feed, but for a quote that a replaced feed was
\* in the middle of, and to a live-money client only after a confirm.
THEOREM OrdersGuarded == MonitorSpec => GuardedOrders
<1> DEFINE Guarded ==
      \A f \in 1 .. Feed :
        Leaves(f) =>
          /\ threads[f].source = "alpaca" \/ (f # Feed /\ threads[f].stopped)
          /\ bridge.client # "none"
          /\ bridge.client = "live" => confirmed
<1>1. ASSUME MonitorInv, [MonitorNext]_monitor_vars PROVE MonitorInv' /\ [Guarded]_monitor_vars
  <2>1. CASE PageCommand
    BY <1>1, <2>1, CommandStep DEF Leaves
  <2>2. ASSUME NEW f \in 1 .. Feed, FeedThread(f) PROVE MonitorInv' /\ Guarded
    <3>1. ArmedInv /\ \A g \in 1 .. Feed : g # Feed => threads[g].stopped
      BY <1>1 DEF MonitorInv, ThreadsInv
    <3> QED
      BY <1>1, <2>2, <3>1, ThreadStep DEF ArmedInv, live, Leaves
  <2>3. CASE UNCHANGED monitor_vars
    BY <1>1, <2>3, QuietStep DEF monitor_vars
  <2>4. Feed \in Nat
    BY <1>1 DEF MonitorInv, ThreadsInv, Feed
  <2> QED
    BY <1>1, <2>1, <2>2, <2>3, <2>4, MonitorAssumption DEF MonitorNext
<1> QED
  BY <1>1, MonitorInitInv, PTL DEF MonitorSpec, GuardedOrders
-----------------------------------------------------------------------------
(* Proof of LegsAddUp.  The strategies that are switched on are finitely   *)
(* many, so that their legs have a sum; a fill changes one leg and the     *)
(* whole by as much, and a leg that comes or goes without a mark is empty. *)

LegsInv ==
  /\ IsFiniteSet(DOMAIN legs) /\ legs \in [DOMAIN legs -> Int] /\ holding \in Int
  /\ LegsAddUp

LEMMA WholeIsSum ==
  ASSUME NEW held, IsFiniteSet(DOMAIN held)
  PROVE  Whole(held) = Sum(held, DOMAIN held)
<1> DEFINE S == DOMAIN held
           T(g) == [s \in SUBSET S |-> IF s = {} THEN 0
                      ELSE LET x == CHOOSE x \in s : TRUE IN held[x] + g[s \ {x}]]
           f == CHOOSE g : g = T(g)
           h == CHOOSE g : IsSum(g, held, S)
<1>1. Whole(held) = f[S]
  BY DEF Whole, MapThenSumSet, MapThenFoldSet
<1>2. Sum(held, S) = h[S]
  BY DEF Sum
<1>3. IsSum(h, held, S)
  BY SumExists
<1>4. h = T(h)
  BY <1>3 DEF IsSum
<1>5. f = T(f)
  BY <1>4
<1>6. IsSum(f, held, S)
  BY <1>5 DEF IsSum
<1>7. f[S] = h[S]
  <2> HIDE DEF f, h, S
  <2>1. IsFiniteSet(S)
    BY DEF S
  <2> QED
    BY <1>3, <1>6, <2>1, SumUnique
<1> QED
  BY <1>1, <1>2, <1>7

LEMMA WholeFill ==
  ASSUME NEW held, IsFiniteSet(DOMAIN held), held \in [DOMAIN held -> Int],
         NEW name \in DOMAIN held, NEW n \in Int
  PROVE  LET changed == [held EXCEPT ![name] = held[name] + n]
         IN  /\ DOMAIN changed = DOMAIN held /\ changed \in [DOMAIN changed -> Int]
             /\ Whole(held) \in Int /\ Whole(changed) = Whole(held) + n
<1> DEFINE changed == [held EXCEPT ![name] = held[name] + n]
           S == DOMAIN held
<1>1. /\ DOMAIN changed = S /\ changed \in [S -> Int] /\ changed[name] = held[name] + n
      /\ \A x \in S : held[x] \in Int
      /\ \A x \in S \ {name} : changed[x] = held[x]
  OBVIOUS
<1>2. Whole(held) = Sum(held, S) /\ Whole(changed) = Sum(changed, S)
  BY <1>1, WholeIsSum
<1>3. changed[name] \in Int /\ held[name] \in Int
  BY <1>1
<1>4. IsFiniteSet(S) /\ name \in S
  OBVIOUS
<1> HIDE DEF changed, S
<1>5. Sum(held, S) \in Int /\ Sum(changed, S) = Sum(held, S) - held[name] + changed[name]
  BY <1>1, <1>3, <1>4, SumPoint
<1>6. Whole(held) \in Int /\ Whole(changed) = Whole(held) + n
  BY <1>1, <1>2, <1>3, <1>5
<1> QED
  BY <1>1, <1>6 DEF changed, S

LEMMA WholeEnable ==
  ASSUME NEW held, IsFiniteSet(DOMAIN held), held \in [DOMAIN held -> Int],
         NEW name, name \notin DOMAIN held
  PROVE  LET changed == [s \in DOMAIN held \cup {name} |-> IF s = name THEN 0 ELSE held[s]]
         IN  /\ IsFiniteSet(DOMAIN changed) /\ changed \in [DOMAIN changed -> Int]
             /\ Whole(changed) = Whole(held)
<1> DEFINE S == DOMAIN held
           changed == [s \in S \cup {name} |-> IF s = name THEN 0 ELSE held[s]]
<1>1. /\ DOMAIN changed = S \cup {name} /\ changed \in [S \cup {name} -> Int] /\ changed[name] = 0
      /\ \A x \in S \cup {name} : changed[x] \in Int
      /\ \A x \in S : changed[x] = held[x]
  OBVIOUS
<1>2. IsFiniteSet(S) /\ IsFiniteSet(S \cup {name}) /\ name \notin S
  BY FS_AddElement
<1>3. Whole(held) = Sum(held, S) /\ Whole(changed) = Sum(changed, S \cup {name})
  BY <1>1, <1>2, WholeIsSum
<1> HIDE DEF changed, S
<1>4. Sum(changed, S \cup {name}) = Sum(changed, S) + changed[name]
  BY <1>1, <1>2, SumAdd
<1>5. Sum(changed, S) = Sum(held, S)
  BY <1>1, <1>2, SumSame
<1>6. Sum(changed, S) \in Int
  BY <1>1, <1>2, SumType
<1>7. Whole(changed) = Whole(held)
  BY <1>1, <1>3, <1>4, <1>5, <1>6
<1> QED
  BY <1>1, <1>2, <1>7 DEF changed, S

LEMMA WholeDisable ==
  ASSUME NEW held, IsFiniteSet(DOMAIN held), held \in [DOMAIN held -> Int],
         NEW name \in DOMAIN held
  PROVE  LET changed == [s \in DOMAIN held \ {name} |-> held[s]]
         IN  /\ IsFiniteSet(DOMAIN changed) /\ changed \in [DOMAIN changed -> Int]
             /\ held[name] = 0 => Whole(changed) = Whole(held)
<1> DEFINE S == DOMAIN held
           T == S \ {name}
           changed == [s \in T |-> held[s]]
<1>1. /\ DOMAIN changed = T /\ changed \in [T -> Int] /\ name \in S /\ held[name] \in Int
      /\ \A x \in S : held[x] \in Int
      /\ \A x \in T : changed[x] = held[x] /\ changed[x] \in Int
  OBVIOUS
<1>2. IsFiniteSet(S) /\ IsFiniteSet(T)
  BY FS_Subset
<1>3. Whole(held) = Sum(held, S) /\ Whole(changed) = Sum(changed, T)
  BY <1>1, <1>2, WholeIsSum
<1>4. Sum(held, S) = held[name] + Sum(held, T)
  <2> HIDE DEF S
  <2> QED
    BY <1>1, <1>2, SumRemove
<1> HIDE DEF changed, T
<1>5. Sum(changed, T) = Sum(held, T)
  BY <1>1, <1>2, SumSame
<1>6. Sum(changed, T) \in Int
  BY <1>1, <1>2, SumType
<1>7. held[name] = 0 => Whole(changed) = Whole(held)
  BY <1>3, <1>4, <1>5, <1>6
<1> QED
  BY <1>1, <1>2, <1>7 DEF changed, T

LEMMA LegsInit == MonitorInit => LegsInv
<1> SUFFICES ASSUME MonitorInit PROVE LegsInv
  OBVIOUS
<1>1. PICK name \in AVAILABLE : legs = [s \in {name} |-> 0]
  BY DEF MonitorInit
<1> DEFINE S == {name}
<1>2. IsFiniteSet(S) /\ DOMAIN legs = S /\ legs \in [S -> Int] /\ legs[name] = 0
  <2>1. IsFiniteSet({name})
    BY FS_Singleton
  <2>2. DOMAIN legs = {name} /\ legs \in [{name} -> Int] /\ legs[name] = 0
    BY <1>1
  <2> QED
    BY <2>1, <2>2
<1>3. Whole(legs) = Sum(legs, S)
  BY <1>2, WholeIsSum
<1>4. S \ {name} = {} /\ name \in S /\ \A x \in S : legs[x] \in Int
  BY <1>2
<1> HIDE DEF S
<1>5. Sum(legs, S) = legs[name] + Sum(legs, {})
  BY <1>2, <1>4, SumRemove
<1>6. Sum(legs, {}) = 0
  BY FS_EmptySet, SumEquations
<1>7. Whole(legs) = 0 /\ holding = 0
  BY <1>2, <1>3, <1>5, <1>6 DEF MonitorInit
<1> QED
  BY <1>2, <1>7 DEF LegsInv, LegsAddUp

LEMMA LegsStep ==
  ASSUME MonitorInv, LegsInv, [MonitorNext]_monitor_vars
  PROVE  LegsInv'
<1>1. IsFiniteSet(DOMAIN legs) /\ legs \in [DOMAIN legs -> Int] /\ holding \in Int
  BY DEF LegsInv
<1>2. ASSUME UNCHANGED <<legs, holding, legs_lost>> PROVE LegsInv'
  BY <1>2 DEF LegsInv, LegsAddUp
<1>3. ASSUME NEW name \in AVAILABLE, Enable(name) PROVE LegsInv'
  <2>1. /\ name \notin DOMAIN legs /\ UNCHANGED <<holding, legs_lost>>
        /\ legs' = [s \in DOMAIN legs \cup {name} |-> IF s = name THEN 0 ELSE legs[s]]
    BY <1>3 DEF Enable
  <2>2. /\ IsFiniteSet(DOMAIN legs') /\ legs' \in [DOMAIN legs' -> Int]
        /\ Whole(legs') = Whole(legs)
    BY <1>1, <2>1, WholeEnable
  <2> QED
    BY <1>1, <2>1, <2>2 DEF LegsInv, LegsAddUp
<1>4. ASSUME NEW name \in AVAILABLE, Disable(name) PROVE LegsInv'
  <2>1. /\ name \in DOMAIN legs /\ UNCHANGED holding /\ legs_lost' = (legs_lost \/ legs[name] # 0)
        /\ legs' = [s \in DOMAIN legs \ {name} |-> legs[s]]
    BY <1>4 DEF Disable
  <2>2. /\ IsFiniteSet(DOMAIN legs') /\ legs' \in [DOMAIN legs' -> Int]
        /\ legs[name] = 0 => Whole(legs') = Whole(legs)
    BY <1>1, <2>1, WholeDisable
  <2> QED
    BY <1>1, <2>1, <2>2 DEF LegsInv, LegsAddUp
<1>5. ASSUME NEW f \in 1 .. Feed, NEW b \in BOOLEAN, BookFill(f, b) PROVE LegsInv'
  <2> DEFINE intent == Head(threads[f].todo)
  <2>1. intent.lots \in Int
    <3>1. threads[f] \in ThreadType /\ Len(threads[f].todo) > 0
      BY <1>5 DEF MonitorInv, ThreadsInv, Busy, BookFill, Feed
    <3>2. threads[f].todo \in Seq(Intent) /\ threads[f].todo # <<>>
      <4>1. threads[f].todo \in Seq(Intent)
        BY <3>1 DEF ThreadType
      <4> QED
        BY <3>1, <4>1
    <3>3. intent \in Intent
      BY <3>2
    <3> QED
      BY <3>3 DEF Intent
  <2>2. CASE ~b
    <3>1. UNCHANGED <<legs, holding>> /\ legs_lost' = (legs_lost \/ FALSE)
      BY <1>5, <2>2 DEF BookFill, books
    <3> QED
      BY <1>1, <3>1 DEF LegsInv, LegsAddUp
  <2>3. CASE b /\ intent.name \notin DOMAIN legs
    <3>1. UNCHANGED legs /\ holding' = holding + intent.lots /\ legs_lost'
      BY <1>5, <2>3 DEF BookFill, books
    <3> QED
      BY <1>1, <2>1, <3>1 DEF LegsInv, LegsAddUp
  <2>4. CASE b /\ intent.name \in DOMAIN legs
    <3>1. /\ legs' = [legs EXCEPT ![intent.name] = legs[intent.name] + intent.lots]
          /\ holding' = holding + intent.lots /\ (legs_lost => legs_lost')
      BY <1>5, <2>4 DEF BookFill, books
    <3>2. intent.name \in DOMAIN legs
      BY <2>4
    <3> DEFINE name == intent.name
               n == intent.lots
    <3>3. /\ name \in DOMAIN legs /\ n \in Int
          /\ legs' = [legs EXCEPT ![name] = legs[name] + n] /\ holding' = holding + n
      BY <2>1, <3>1, <3>2
    <3> HIDE DEF name, n, intent
    <3>4. /\ DOMAIN legs' = DOMAIN legs /\ legs' \in [DOMAIN legs' -> Int]
          /\ Whole(legs) \in Int /\ Whole(legs') = Whole(legs) + n
      BY <1>1, <3>3, WholeFill
    <3>5. ~legs_lost' => Whole(legs') = holding'
      BY <3>1, <3>3, <3>4 DEF LegsInv, LegsAddUp
    <3> QED
      BY <1>1, <3>3, <3>4, <3>5 DEF LegsInv, LegsAddUp
  <2> QED
    BY <2>2, <2>3, <2>4
<1>6. ASSUME NEW f \in 1 .. Feed, FeedThread(f) PROVE LegsInv'
  BY <1>2, <1>5, <1>6, Zenon DEF FeedThread, Emit, OnFeedQuote, Route, Submitted
<1>7. CASE PageCommand
  BY <1>2, <1>3, <1>4, <1>7 DEF PageCommand, Flags, SwitchFeed, BeginTrade, Broker, SetLimit
<1>8. CASE UNCHANGED monitor_vars
  BY <1>2, <1>8 DEF monitor_vars
<1>9. Feed \in Nat
  BY DEF MonitorInv, ThreadsInv, Feed
<1> QED
  BY <1>6, <1>7, <1>8, <1>9, MonitorAssumption DEF MonitorNext

\* For any number of strategies, over switches of feed and broker, rejections and quotes
\* that were overtaken: what the strategies hold is what the portfolio holds, until one is
\* switched off with shares or under a fill.
THEOREM LegsMatch == MonitorSpec => []LegsAddUp
<1>1. LegsInv => LegsAddUp
  BY DEF LegsInv
<1>2. MonitorInv /\ [MonitorNext]_monitor_vars => MonitorInv'
  <2> SUFFICES ASSUME MonitorInv, [MonitorNext]_monitor_vars PROVE MonitorInv'
    OBVIOUS
  <2>1. Feed \in Nat
    BY DEF MonitorInv, ThreadsInv, Feed
  <2> QED
    BY <2>1, CommandStep, ThreadStep, QuietStep, MonitorAssumption DEF MonitorNext, monitor_vars
<1> QED
  BY <1>1, <1>2, MonitorInitInv, LegsInit, LegsStep, PTL DEF MonitorSpec
=============================================================================
