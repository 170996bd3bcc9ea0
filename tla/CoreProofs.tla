----------------------------- MODULE CoreProofs -----------------------------
(***************************************************************************)
(* Proofs about the two ends of the trading core.  First Strategies: for   *)
(* any quotes, spread, band and cooldown that QuoteAssumption allows, an   *)
(* order, its reference and its symbol belong to one book, and the         *)
(* strategies keep to their guards.  Their invariant says what each stage  *)
(* of the pipelines holds of the books of the last edges; a stage without  *)
(* an order says nothing, as after a reset its registers belong to no book.*)
(*                                                                         *)
(* Then ItchParser and F1Replay, for any messages, depths of FIFO and      *)
(* capture, and number of buckets.  The parser's invariant places it in    *)
(* the frame under way and says how much of each field its register holds; *)
(* that of the card says where master, bridge and latency counter are in   *)
(* the one access the host is at, which bytes are between host and parser, *)
(* and what an answer on its way is still worth when it arrives.           *)
(***************************************************************************)
EXTENDS Strategies, F1Replay, FiniteSums, SequenceTheorems, TLAPS

Tight(q) == q.ask - q.bid <= MAX_SPREAD_TICKS

\* Stage 1, of the last book: what lets an order through to stage 2.
Stage1Inv ==
  /\ prev_valid = book_valid(past[1])
  /\ have_prev = normal_c(past[1])
  /\ imb1.elig => /\ imb1.quote = past[1].quote
                  /\ book_valid(past[1]) /\ book_valid(past[2])
                  /\ normal(past[1]) /\ Tight(past[1].quote)
  /\ s1_valid => /\ ofi1 = past[1].quote
                 /\ normal_c(past[1]) /\ normal_c(past[2])
  /\ book_valid(past[1]) => mid_r1 = MidOf(past[1].quote) /\ sym_d1 = past[1].sym

\* Stage 2, of the book before it: an order, its reference and its symbol.
OfBook(o) == /\ o \in {Lift(past[2].quote), Hit(past[2].quote)}
             /\ book_valid(past[2]) /\ before

Stage2Inv ==
  /\ imb # NoProposal => OfBook(imb) /\ normal(past[2]) /\ Tight(past[2].quote)
  /\ ofi # NoProposal => OfBook(ofi)
  /\ book_valid(past[2]) => mid_r2 = MidOf(past[2].quote) /\ sym_d2 = past[2].sym

\* The cooldown counts down the edges that are still missing.
CooldownInv == gap + cooldown_cnt = COOLDOWN_CYCLES

SInv == TypeOK /\ Stage1Inv /\ Stage2Inv /\ CooldownInv
-----------------------------------------------------------------------------
\* The mid of a quote is a number, whatever its width does to the sum.
LEMMA MidNat == ASSUME NEW q \in [bid : 0 .. NO_ASK, ask : 0 .. NO_ASK]
                PROVE  MidOf(q) \in Nat
BY QuoteAssumption DEF MidOf

\* The mid of a two-sided quote does not wrap.
LEMMA MidExact == ASSUME NEW q \in Quote, q.bid # 0, q.ask # NO_ASK
                  PROVE  MidOf(q) = (q.bid + q.ask) \div 2
<1>1. /\ q.bid \in 0 .. NO_ASK /\ q.ask \in 0 .. NO_ASK
      /\ q.bid + q.ask \in 0 .. NO_ASK
  BY QuoteAssumption
<1>2. ASSUME NEW n \in 0 .. NO_ASK PROVE n % (NO_ASK + 1) = n
  BY <1>2, QuoteAssumption
<1> QED BY <1>1, <1>2 DEF MidOf

\* The book of before the first edge is one of the books, and not a valid one.
LEMMA EmptyIsBook == EmptyBook \in Book /\ ~book_valid(EmptyBook)
BY QuoteAssumption DEF EmptyBook, Book, Lean, book_valid

\* An order at a price of a quote is an order.
LEMMA OrdersTyped == ASSUME NEW q \in [bid : 0 .. NO_ASK, ask : 0 .. NO_ASK]
                     PROVE  Lift(q) \in Proposed /\ Hit(q) \in Proposed
BY DEF Lift, Hit, Proposed

\* Both pipelines, the reference and the symbol start empty and empty they restart.
LEMMA InitInv == Init => SInv
<1> SUFFICES ASSUME Init PROVE SInv
  OBVIOUS
<1> USE QuoteAssumption, EmptyIsBook DEF Init
<1>1. past[1] = EmptyBook /\ past[2] = EmptyBook /\ EmptyBook.sym \in Symbol
  BY DEF Book
<1>2. TypeOK
  <2>1. past \in Book \X Book
    OBVIOUS
  <2>2. /\ imb1 \in [elig : BOOLEAN, quote : [bid : 0 .. NO_ASK, ask : 0 .. NO_ASK], lean : Lean]
        /\ ofi1 \in [bid : 0 .. NO_ASK, ask : 0 .. NO_ASK]
    BY DEF Lean
  <2>3. /\ cooldown_cnt \in 0 .. COOLDOWN_CYCLES /\ gap \in 0 .. COOLDOWN_CYCLES
        /\ strat_sel \in 0 .. 3 /\ mid_r1 \in Nat /\ mid_r2 \in Nat
    OBVIOUS
  <2>4. /\ prev_valid \in BOOLEAN /\ have_prev \in BOOLEAN /\ s1_valid \in BOOLEAN
        /\ before \in BOOLEAN
    OBVIOUS
  <2>5. imb \in Proposed \cup {NoProposal} /\ ofi \in Proposed \cup {NoProposal}
    OBVIOUS
  <2>6. sym_d1 \in Symbol /\ sym_d2 \in Symbol
    BY <1>1
  <2> QED BY <2>1, <2>2, <2>3, <2>4, <2>5, <2>6 DEF TypeOK
<1>3. Stage1Inv /\ Stage2Inv
  BY <1>1 DEF Stage1Inv, Stage2Inv, book_valid, normal_c
<1>4. CooldownInv
  BY DEF CooldownInv
<1> QED BY <1>2, <1>3, <1>4 DEF SInv

LEMMA ResetInv == Reset => SInv'
<1> SUFFICES ASSUME Reset PROVE SInv'
  OBVIOUS
<1> USE QuoteAssumption, EmptyIsBook DEF Reset
<1>1. past'[1] = EmptyBook /\ past'[2] = EmptyBook /\ EmptyBook.sym \in Symbol
  BY DEF Book
<1>2. TypeOK'
  <2>1. past' \in Book \X Book
    OBVIOUS
  <2>2. /\ imb1' \in [elig : BOOLEAN, quote : [bid : 0 .. NO_ASK, ask : 0 .. NO_ASK], lean : Lean]
        /\ ofi1' \in [bid : 0 .. NO_ASK, ask : 0 .. NO_ASK]
    BY DEF Lean
  <2>3. /\ cooldown_cnt' \in 0 .. COOLDOWN_CYCLES /\ gap' \in 0 .. COOLDOWN_CYCLES
        /\ strat_sel' \in 0 .. 3 /\ mid_r1' \in Nat /\ mid_r2' \in Nat
    OBVIOUS
  <2>4. /\ prev_valid' \in BOOLEAN /\ have_prev' \in BOOLEAN /\ s1_valid' \in BOOLEAN
        /\ before' \in BOOLEAN
    OBVIOUS
  <2>5. imb' \in Proposed \cup {NoProposal} /\ ofi' \in Proposed \cup {NoProposal}
    OBVIOUS
  <2>6. sym_d1' \in Symbol /\ sym_d2' \in Symbol
    BY <1>1
  <2> QED BY <2>1, <2>2, <2>3, <2>4, <2>5, <2>6 DEF TypeOK
<1>3. Stage1Inv' /\ Stage2Inv'
  BY <1>1 DEF Stage1Inv, Stage2Inv, book_valid, normal_c
<1>4. CooldownInv'
  BY DEF CooldownInv
<1> QED BY <1>2, <1>3, <1>4 DEF SInv

\* One edge of the clock moves each stage on by one book.
LEMMA EdgeInv ==
  ASSUME SInv, NEW b \in Book, NEW pull \in Lean, Edge(b, pull)
  PROVE  SInv'
<1>1. /\ TypeOK /\ Stage1Inv /\ Stage2Inv /\ CooldownInv
  BY DEF SInv
<1>2. /\ past' = <<b, past[1]>> /\ past'[1] = b /\ past'[2] = past[1]
      /\ past[1] \in Book /\ past[2] \in Book
  BY <1>1 DEF Edge, TypeOK
<1>3. /\ b.sym \in Symbol /\ b.lean \in Lean /\ b.quote \in Quote
      /\ b.quote \in [bid : 0 .. NO_ASK, ask : 0 .. NO_ASK]
  BY QuoteAssumption DEF Book
<1>4. imb_nxt # NoProposal =>
        /\ imb1.elig /\ cooldown_cnt = 0
        /\ imb_nxt \in {Lift(imb1.quote), Hit(imb1.quote)}
  BY DEF imb_nxt, ready
<1>5. imb' = imb_nxt /\ cooldown_cnt' = cooldown_nxt
  BY DEF Edge, Imbalance
<1>6. ofi' # NoProposal => s1_valid /\ ofi' \in {Lift(ofi1), Hit(ofi1)}
  BY DEF Edge, OrderFlow
<1>7. TypeOK'
  <2>1. prev_valid' \in BOOLEAN /\ have_prev' \in BOOLEAN /\ s1_valid' \in BOOLEAN
    BY <1>1 DEF Edge, Imbalance, OrderFlow, book_valid, normal_c, normal, s1_valid_nxt, TypeOK
  <2>2. /\ imb1' \in [elig : BOOLEAN, quote : [bid : 0 .. NO_ASK, ask : 0 .. NO_ASK], lean : Lean]
        /\ ofi1' \in [bid : 0 .. NO_ASK, ask : 0 .. NO_ASK]
    BY <1>1, <1>3 DEF Edge, Imbalance, OrderFlow, elig, TypeOK
  <2>3. cooldown_cnt' \in 0 .. COOLDOWN_CYCLES /\ gap' \in 0 .. COOLDOWN_CYCLES
    BY <1>1, QuoteAssumption DEF Edge, Imbalance, cooldown_nxt, TypeOK
  <2>4. imb' \in Proposed \cup {NoProposal} /\ ofi' \in Proposed \cup {NoProposal}
    BY <1>1, <1>4, <1>5, <1>6, OrdersTyped DEF TypeOK
  <2>5. mid_r1' \in Nat /\ mid_r2' \in Nat
    BY <1>1, <1>3, MidNat DEF Edge, mid_nxt, TypeOK
  <2>6. /\ sym_d1' \in Symbol /\ sym_d2' \in Symbol /\ strat_sel' \in 0 .. 3
        /\ past' \in Book \X Book /\ before' \in BOOLEAN
    BY <1>1, <1>2, <1>3 DEF Edge, book_valid, TypeOK
  <2> QED BY <2>1, <2>2, <2>3, <2>4, <2>5, <2>6 DEF TypeOK
<1>8. Stage1Inv'
  <2>1. prev_valid' = book_valid(past'[1]) /\ have_prev' = normal_c(past'[1])
    BY <1>2 DEF Edge, Imbalance, OrderFlow
  <2>2. imb1'.elig => /\ imb1'.quote = past'[1].quote
                      /\ book_valid(past'[1]) /\ book_valid(past'[2])
                      /\ normal(past'[1]) /\ Tight(past'[1].quote)
    BY <1>1, <1>2 DEF Edge, Imbalance, elig, Tight, Stage1Inv
  <2>3. s1_valid' => /\ ofi1' = past'[1].quote
                     /\ normal_c(past'[1]) /\ normal_c(past'[2])
    BY <1>1, <1>2 DEF Edge, OrderFlow, s1_valid_nxt, Stage1Inv
  <2>4. mid_r1' = MidOf(past'[1].quote) /\ sym_d1' = past'[1].sym
    BY <1>2 DEF Edge
  <2> QED BY <2>1, <2>2, <2>3, <2>4 DEF Stage1Inv, book_valid, normal_c, normal, Tight
<1>9. Stage2Inv'
  <2>1. imb' # NoProposal => OfBook(imb)' /\ normal(past'[2]) /\ Tight(past'[2].quote)
    BY <1>1, <1>2, <1>4, <1>5 DEF Edge, OfBook, Stage1Inv, book_valid
  <2>2. ofi' # NoProposal => OfBook(ofi)'
    BY <1>1, <1>2, <1>6 DEF Edge, OfBook, Stage1Inv, book_valid, normal_c
  <2>3. book_valid(past'[2]) => mid_r2' = MidOf(past'[2].quote) /\ sym_d2' = past'[2].sym
    BY <1>1, <1>2 DEF Edge, mid_nxt, Stage1Inv
  <2> QED BY <2>1, <2>2, <2>3 DEF Stage2Inv, book_valid, normal, Tight
<1>10. CooldownInv'
  <2>1. CASE imb' # NoProposal
    BY <1>5, <2>1, QuoteAssumption DEF Edge, cooldown_nxt, CooldownInv
  <2>2. CASE imb' = NoProposal
    BY <1>1, <1>5, <2>2, QuoteAssumption DEF Edge, cooldown_nxt, CooldownInv, TypeOK
  <2> QED BY <2>1, <2>2
<1> QED BY <1>7, <1>8, <1>9, <1>10 DEF SInv

\* The pipelines always hold what the invariant says of them.
THEOREM Invariance == Spec => []SInv
<1>1. SInv /\ [Next]_vars => SInv'
  <2> SUFFICES ASSUME SInv, [Next]_vars PROVE SInv'
    OBVIOUS
  <2>1. CASE \E b \in Book, pull \in Lean : Edge(b, pull)
    BY <2>1, EdgeInv
  <2>2. CASE Reset
    BY <2>2, ResetInv
  <2>3. CASE UNCHANGED vars
    BY <2>3 DEF vars, SInv, TypeOK, Stage1Inv, Stage2Inv, CooldownInv, OfBook,
                book_valid, normal_c, normal, Tight
  <2> QED BY <2>1, <2>2, <2>3 DEF Next
<1> QED BY <1>1, InitInv, PTL DEF Spec

\* Every register of the pipelines keeps its width.
THEOREM TypeCorrect == Spec => []TypeOK
BY Invariance, PTL DEF SInv

\* The order at the mux, its reference price and its symbol are of one book,
\* whichever strategy is selected and whenever the selection changes.
THEOREM AlignedAlways == Spec => []Aligned
<1>1. SInv => Aligned
  BY DEF SInv, Stage2Inv, Aligned, OfBook, decision
<1> QED BY <1>1, Invariance, PTL

\* No order is proposed unless the book was valid at two edges in a row.
THEOREM NeedsBookAlways == Spec => []NeedsBook
<1>1. SInv => NeedsBook
  BY DEF SInv, Stage2Inv, NeedsBook, OfBook, decision
<1> QED BY <1>1, Invariance, PTL

\* The collar passes every order of the imbalance strategy: half the largest
\* spread the guard lets through, rounded up, is within the band.
THEOREM CollarAlwaysFits == Spec => []CollarFits
<1>1. ASSUME SInv, imb # NoProposal
      PROVE  imb.price - mid_r2 <= MAX_PRICE_BAND /\ mid_r2 - imb.price <= MAX_PRICE_BAND
  <2> DEFINE q == past[2].quote
  <2>1. /\ q \in Quote /\ q.bid # 0 /\ q.ask # NO_ASK /\ Tight(q) /\ q.ask > q.bid
        /\ imb \in {Lift(q), Hit(q)} /\ mid_r2 = MidOf(q)
    BY <1>1 DEF SInv, TypeOK, Stage2Inv, OfBook, Book, book_valid, normal
  <2>2. imb.price \in {q.bid, q.ask}
    BY <2>1 DEF Lift, Hit
  <2>3. mid_r2 = (q.bid + q.ask) \div 2
    BY <2>1, MidExact
  <2>4. q.bid \in Nat /\ q.ask \in Nat
    BY <2>1, QuoteAssumption
  <2> QED BY <2>1, <2>2, <2>3, <2>4, QuoteAssumption DEF Tight
<1> QED BY <1>1, Invariance, PTL DEF CollarFits

\* Two orders of the imbalance strategy are COOLDOWN_CYCLES silent edges apart.
THEOREM CoolsDownAlways == Spec => CoolsDown
<1>1. ASSUME SInv, [Next]_vars PROVE [imb' # NoProposal => gap = COOLDOWN_CYCLES]_vars
  <2> SUFFICES ASSUME Next, imb' # NoProposal PROVE gap = COOLDOWN_CYCLES
    BY <1>1
  <2>1. ~Reset
    BY DEF Reset
  <2>2. imb_nxt # NoProposal
    BY <2>1 DEF Next, Edge, Imbalance
  <2>3. cooldown_cnt = 0
    BY <2>2 DEF imb_nxt, ready
  <2> QED BY <1>1, <2>3 DEF SInv, TypeOK, CooldownInv
<1> QED BY <1>1, Invariance, PTL DEF Spec, CoolsDown
-----------------------------------------------------------------------------
(* The frames of GoldenItch: every field at its place.                     *)

\* FlattenSeq joins its parts one after the other.
IsJoin(g, s, n) == g = [i \in 1 .. n |-> IF i = 1 THEN s[i] ELSE g[i - 1] \o s[i]]

LEMMA JoinExists ==
  ASSUME NEW s, NEW n \in Nat
  PROVE  \E g : IsJoin(g, s, n)
<1> DEFINE A == {m \in Nat : \E g : IsJoin(g, s, m)}
<1>1. 0 \in A
  <2> DEFINE g == [i \in 1 .. 0 |-> s[i]]
  <2>1. IsJoin(g, s, 0)
    BY DEF IsJoin
  <2> QED
    BY <2>1
<1>2. ASSUME NEW m \in A PROVE m + 1 \in A
  <2>1. PICK g : IsJoin(g, s, m)
    OBVIOUS
  <2> DEFINE h == [i \in 1 .. m + 1 |-> IF i <= m THEN g[i]
                                        ELSE IF i = 1 THEN s[i] ELSE g[i - 1] \o s[i]]
  <2>2. IsJoin(h, s, m + 1)
    <3>1. \A i \in 1 .. m : g[i] = IF i = 1 THEN s[i] ELSE g[i - 1] \o s[i]
      BY <2>1 DEF IsJoin
    <3>2. \A i \in 1 .. m + 1 : h[i] = IF i = 1 THEN s[i] ELSE h[i - 1] \o s[i]
      <4>1. SUFFICES ASSUME NEW i \in 1 .. m + 1
                     PROVE  h[i] = IF i = 1 THEN s[i] ELSE h[i - 1] \o s[i]
        OBVIOUS
      <4>2. CASE i = 1
        BY <3>1, <4>2
      <4>3. CASE i # 1
        <5> DEFINE j == i - 1
        <5>1. j \in 1 .. m /\ h[j] = g[j]
          BY <4>3
        <5>2. h[i] = g[j] \o s[i]
          <6>1. CASE i <= m
            <7>1. h[i] = g[i]
              BY <6>1
            <7>2. i \in 1 .. m
              BY <6>1
            <7>3. g[i] = IF i = 1 THEN s[i] ELSE g[j] \o s[i]
              BY <3>1, <7>2
            <7> QED
              BY <4>3, <7>1, <7>3
          <6>2. CASE ~(i <= m)
            BY <4>3, <6>2
          <6> QED
            BY <6>1, <6>2
        <5> QED
          BY <4>3, <5>1, <5>2
      <4> QED
        BY <4>2, <4>3
    <3>3. h = [i \in 1 .. m + 1 |-> h[i]]
      OBVIOUS
    <3> HIDE DEF h
    <3> QED
      BY <3>2, <3>3 DEF IsJoin
  <2> QED
    BY <2>2
<1>3. A = Nat
  <2> HIDE DEF A
  <2>1. A \in SUBSET Nat
    BY DEF A
  <2> QED
    BY <1>1, <1>2, <2>1, NatInduct
<1> QED
  BY <1>3

\* The bytes of two parts, one after the other.
LEMMA TwoParts ==
  ASSUME NEW B, NEW u \in Seq(B), NEW e \in Seq(B)
  PROVE  /\ u \o e \in Seq(B) /\ Len(u \o e) = Len(u) + Len(e)
         /\ \A q \in 1 .. Len(u) : (u \o e)[q] = u[q]
         /\ \A j \in 1 .. Len(e) : (u \o e)[Len(u) + j] = e[j]
OBVIOUS

\* at says how many bytes there are in front of each part, and in all.
Offsets(at, s, n) == at[1] = 0 /\ \A i \in 1 .. n : at[i + 1] = at[i] + Len(s[i])

\* The join f of the parts s: part i lies behind offset at[i].
Joined(f, B, s, at, n) ==
  /\ f \in Seq(B) /\ Len(f) = at[n + 1]
  /\ \A i \in 1 .. n : \A j \in 1 .. Len(s[i]) : f[at[i] + j] = s[i][j]

\* The byte sequence of parts whose i-th starts after at[i] others.
LEMMA Flattened ==
  ASSUME NEW B, NEW n \in Nat \ {0}, NEW s \in [1 .. n -> Seq(B)], NEW at \in [1 .. n + 1 -> Nat],
         Offsets(at, s, n)
  PROVE  Joined(FlattenSeq(s), B, s, at, n)
<1>0. Len(s) = n /\ s \in Seq(Seq(B))
  OBVIOUS
<1> DEFINE G(g) == [i \in 1 .. Len(s) |-> IF i = 1 THEN s[i] ELSE g[i - 1] \o s[i]]
           f == CHOOSE g : g = G(g)
<1>1. FlattenSeq(s) = f[n]
  BY <1>0 DEF FlattenSeq
<1>2. f = G(f)
  <2>1. \E g : IsJoin(g, s, n)
    BY JoinExists, Zenon
  <2>2. \A g : IsJoin(g, s, n) <=> g = G(g)
    BY <1>0, Zenon DEF IsJoin
  <2> HIDE DEF G
  <2> QED
    BY <2>1, <2>2
<1>3. \A i \in 1 .. n : f[i] = IF i = 1 THEN s[i] ELSE f[i - 1] \o s[i]
  BY <1>0, <1>2, Zenon
<1> HIDE DEF f
<1> DEFINE Has(i, m) == \A j \in 1 .. Len(s[i]) : f[m][at[i] + j] = s[i][j]
           Ok(m) == /\ f[m] \in Seq(B) /\ Len(f[m]) = at[m + 1]
                    /\ \A i \in 1 .. m : at[i] + Len(s[i]) <= at[m + 1] /\ Has(i, m)
<1>4. Ok(1)
  <2>1. f[1] = s[1] /\ s[1] \in Seq(B) /\ at[1] = 0 /\ at[2] = Len(s[1])
    <3>1. at[1 + 1] = at[1] + Len(s[1]) /\ at[1] = 0
      BY DEF Offsets
    <3>2. Len(s[1]) \in Nat
      BY LenProperties
    <3> QED
      BY <1>3, <3>1, <3>2
  <2> QED
    BY <2>1
<1>5. ASSUME NEW a \in 1 .. n, NEW b \in 1 .. n, b = a + 1, Ok(a) PROVE Ok(b)
  <2> DEFINE e == s[b]
  <2>2. b = a + 1 /\ b - 1 = a /\ b # 1
    BY <1>5
  <2>3. Ok(a)
    BY <1>5
  <2>4. f[b] = f[a] \o e /\ e \in Seq(B) /\ Len(e) \in Nat
    <3>1. e \in Seq(B)
      BY <2>2
    <3>2. f[b] = f[b - 1] \o e
      <4> QED
        BY <1>3, <2>2
    <3>3. f[b] = f[a] \o e
      BY <2>2, <3>2
    <3> HIDE DEF e
    <3> QED
      BY <3>1, <3>3, LenProperties
  <2>5. at[b + 1] = at[b] + Len(e) /\ at[b] \in Nat /\ at[b + 1] \in Nat
    BY <2>4 DEF Offsets
  <2>6. f[a] \in Seq(B) /\ Len(f[a]) = at[b]
    BY <2>2, <2>3
  <2>7. /\ f[b] \in Seq(B) /\ Len(f[b]) = at[b + 1]
        /\ \A q \in 1 .. at[b] : f[b][q] = f[a][q]
        /\ \A j \in 1 .. Len(e) : f[b][at[b] + j] = e[j]
    <3> DEFINE u == f[a]
    <3> HIDE DEF e, u
    <3>1. u \in Seq(B) /\ e \in Seq(B) /\ Len(u) = at[b] /\ f[b] = u \o e
      BY <2>4, <2>6 DEF u
    <3>2. /\ u \o e \in Seq(B) /\ Len(u \o e) = Len(u) + Len(e)
          /\ \A q \in 1 .. Len(u) : (u \o e)[q] = u[q]
          /\ \A j \in 1 .. Len(e) : (u \o e)[Len(u) + j] = e[j]
      <4>1. u \in Seq(B) /\ e \in Seq(B)
        BY <3>1
      <4> QED
        BY <4>1, TwoParts
    <3>3. /\ f[b] \in Seq(B) /\ Len(f[b]) = at[b] + Len(e)
          /\ \A q \in 1 .. at[b] : f[b][q] = u[q]
          /\ \A j \in 1 .. Len(e) : f[b][at[b] + j] = e[j]
      BY <3>1, <3>2, Zenon
    <3> QED
      BY <2>5, <3>3 DEF u
  <2>8. ASSUME NEW i \in 1 .. b
        PROVE  at[i] + Len(s[i]) <= at[b + 1] /\ Has(i, b)
    <3>1. CASE i = b
      <4>1. at[i] + Len(s[i]) = at[b + 1] /\ at[b + 1] \in Nat
        BY <2>5, <3>1
      <4>2. Has(i, b)
        BY <2>7, <3>1
      <4> HIDE DEF Has
      <4> QED
        BY <4>1, <4>2
    <3>2. CASE i # b
      <4>1. i \in 1 .. a /\ at[i] \in Nat /\ s[i] \in Seq(B) /\ Len(s[i]) \in Nat
        <5>1. i \in 1 .. n /\ i \in 1 .. a
          BY <2>2, <3>2
        <5>2. at[i] \in Nat /\ s[i] \in Seq(B)
          BY <5>1
        <5> QED
          BY <5>1, <5>2, LenProperties
      <4>2. at[i] + Len(s[i]) <= at[b] /\ Has(i, a)
        BY <2>2, <2>3, <4>1
      <4> DEFINE p == at[i]
                 z == Len(s[i])
                 m == at[b]
      <4>3. p \in Nat /\ z \in Nat /\ m \in Nat /\ Len(e) \in Nat /\ at[b + 1] = m + Len(e)
        <5> HIDE DEF e
        <5> QED
          BY <2>4, <2>5, <4>1
      <4>4. p + z <= m
        BY <4>2
      <4>5. Has(i, b)
        <5>1. SUFFICES ASSUME NEW j \in 1 .. z PROVE f[b][p + j] = s[i][j]
          OBVIOUS
        <5> HIDE DEF e, p, z, m
        <5>2. p + j \in 1 .. m
          BY <4>3, <4>4
        <5>3. f[b][p + j] = f[a][p + j]
          BY <2>7, <5>2 DEF m
        <5>4. f[a][p + j] = s[i][j]
          BY <4>2 DEF p, z
        <5> QED
          BY <5>3, <5>4
      <4>6. p + z <= at[b + 1]
        <5> HIDE DEF e, p, z, m
        <5> QED
          BY <4>3, <4>4
      <4> QED
        BY <4>5, <4>6
    <3> QED
      BY <3>1, <3>2
  <2> QED
    BY <2>7, <2>8
<1>6. Ok(n)
  <2> DEFINE A == {m \in Nat : m + 1 \in 1 .. n => Ok(m + 1)}
  <2> HIDE DEF Ok
  <2>a. 0 \in A
    BY <1>4
  <2>b. \A m \in A : m + 1 \in A
    <3>1. SUFFICES ASSUME NEW m \in A, m + 2 \in 1 .. n PROVE Ok(m + 2)
      OBVIOUS
    <3> DEFINE a == m + 1
               b == m + 2
    <3>2. a \in 1 .. n /\ b \in 1 .. n /\ b = a + 1 /\ Ok(a)
      BY <3>1
    <3> HIDE DEF a, b, A
    <3>3. Ok(b)
      BY <1>5, <3>2
    <3> QED
      BY <3>3 DEF b
  <2>1. A = Nat
    <3> HIDE DEF A
    <3>1. A \in SUBSET Nat
      BY DEF A
    <3> QED
      BY <2>a, <2>b, <3>1, NatInduct
  <2>2. n - 1 \in A /\ n - 1 + 1 = n
    <3> HIDE DEF A
    <3> QED
      BY <2>1
  <2> QED
    BY <2>2
<1> QED
  BY <1>0, <1>1, <1>6 DEF Joined

\* The names and the declarations of the fields of a message.
FieldName == {"type", "locate", "tracking", "timestamp", "ref", "new_ref", "side", "shares",
              "stock", "price", "mpid", "match", "printable", "event", "auction"}
FieldSpec == FieldName \X (Nat \ {0})

\* The bytes of field f of message k are in its frame from place at on.
Bytes(k, t, f, at, width) == \A j \in 1 .. width : Frame(k, t)[at + j] = <<k, f, j>>

\* Each field is followed by the next after its width.
Widths(at, fs, n) == \A i \in 1 .. n : at[i + 1] = at[i] + fs[i][2]

\* What every frame begins with, and where the fields after that begin.
LEMMA HeaderIs ==
  /\ Header \in Seq(FieldSpec) /\ Len(Header) = 4
  /\ Header[1] = <<"type", 1>> /\ Header[2] = <<"locate", 2>>
  /\ Header[3] = <<"tracking", 2>> /\ Header[4] = <<"timestamp", 6>>
BY DEF Header, FieldSpec, FieldName

LEMMA AfterHeader ==
  ASSUME NEW x \in Seq(FieldSpec)
  PROVE  /\ Header \o x \in Seq(FieldSpec) /\ Len(Header \o x) = 4 + Len(x)
         /\ \A i \in 1 .. 4 : (Header \o x)[i] = Header[i]
         /\ \A i \in 1 .. Len(x) : (Header \o x)[4 + i] = x[i]
<1> DEFINE h == Header
           c == h \o x
<1>0. h \in Seq(FieldSpec) /\ Len(h) = 4 /\ Len(x) \in Nat
  BY HeaderIs, LenProperties
<1>1. /\ c \in Seq(FieldSpec) /\ Len(c) = Len(h) + Len(x)
      /\ \A i \in 1 .. Len(h) + Len(x) : c[i] = IF i <= Len(h) THEN h[i] ELSE x[i - Len(h)]
  <2> HIDE DEF h
  <2> QED
    BY <1>0, ConcatProperties
<1> HIDE DEF h, c
<1>2. ASSUME NEW i \in 1 .. Len(x) PROVE c[4 + i] = x[i]
  <2> DEFINE q == 4 + i
  <2>1. q \in 1 .. Len(h) + Len(x) /\ ~(q <= Len(h)) /\ q - Len(h) = i
    BY <1>0
  <2> HIDE DEF q
  <2>2. c[q] = x[i]
    BY <1>1, <2>1
  <2> QED
    BY <2>2 DEF q
<1>3. \A i \in 1 .. 4 : c[i] = h[i]
  BY <1>0, <1>1
<1> QED
  BY <1>0, <1>1, <1>2, <1>3 DEF c, h

\* A field is as many numbered bytes as it is wide.
LEMMA FieldFacts ==
  ASSUME NEW k, NEW f \in FieldSpec
  PROVE  /\ f[1] \in FieldName /\ f[2] \in Nat \ {0}
         /\ Field(k, f) \in Seq({k} \X FieldName \X Nat) /\ Len(Field(k, f)) = f[2]
         /\ \A j \in 1 .. f[2] : Field(k, f)[j] = <<k, f[1], j>>
<1>1. f[1] \in FieldName /\ f[2] \in Nat \ {0}
  BY DEF FieldSpec
<1> QED
  BY <1>1 DEF Field

\* A frame whose fields after the header are those of y, which start at the places at.
Laid(k, t, y, at, n) ==
  /\ Frame(k, t) \in Seq({k} \X FieldName \X Nat) /\ Len(Frame(k, t)) = at[n + 1]
  /\ Bytes(k, t, "locate", 1, 2) /\ Bytes(k, t, "timestamp", 5, 6)
  /\ \A i \in 1 .. n : Bytes(k, t, y[i][1], at[i], y[i][2])

LEMMA FrameOf ==
  ASSUME NEW k, NEW t, NEW n \in Nat \ {0}, NEW y \in Seq(FieldSpec), Len(y) = n,
         Layout(t) = Header \o y, NEW at \in [1 .. n + 1 -> Nat], at[1] = 11, Widths(at, y, n)
  PROVE  Laid(k, t, y, at, n)
<1> DEFINE L == Layout(t)
           m == n + 4
           s == [i \in 1 .. m |-> Field(k, L[i])]
           p == [i \in 1 .. m + 1 |->
                   IF i = 1 THEN 0 ELSE IF i = 2 THEN 1 ELSE IF i = 3 THEN 3 ELSE IF i = 4 THEN 5
                   ELSE at[i - 4]]
           B == {k} \X FieldName \X Nat
<1>1. /\ L \in Seq(FieldSpec) /\ Len(L) = m /\ \A i \in 1 .. 4 : L[i] = Header[i]
      /\ \A i \in 1 .. n : L[4 + i] = y[i]
  <2> DEFINE c == Header \o y
  <2>1. /\ c \in Seq(FieldSpec) /\ Len(c) = 4 + n /\ \A i \in 1 .. 4 : c[i] = Header[i]
        /\ \A i \in 1 .. n : c[4 + i] = y[i]
    BY AfterHeader, Zenon
  <2>2. 4 + n = m
    OBVIOUS
  <2> HIDE DEF c, m
  <2> QED
    BY <2>1, <2>2, Zenon DEF c
<1> HIDE DEF L
<1>a. L \in Seq(FieldSpec) /\ Len(L) = m
  BY <1>1, Zenon
<1>b. L[1] = Header[1] /\ L[2] = Header[2] /\ L[3] = Header[3] /\ L[4] = Header[4]
  BY <1>1
<1>c. \A i \in 1 .. n : L[4 + i] = y[i]
  BY <1>1, Zenon
<1>2. \A i \in 1 .. m : L[i] \in FieldSpec
  BY <1>a, ElementOfSeq
<1>3. \A i \in 1 .. m : /\ s[i] \in Seq(B) /\ Len(s[i]) = L[i][2]
                        /\ \A j \in 1 .. L[i][2] : s[i][j] = <<k, L[i][1], j>>
  <2>1. SUFFICES ASSUME NEW i \in 1 .. m
                 PROVE  /\ s[i] \in Seq(B) /\ Len(s[i]) = L[i][2]
                        /\ \A j \in 1 .. L[i][2] : s[i][j] = <<k, L[i][1], j>>
    OBVIOUS
  <2> DEFINE f == L[i]
  <2>2. s[i] = Field(k, f) /\ f \in FieldSpec
    BY <1>2
  <2> HIDE DEF s, f
  <2>3. /\ Field(k, f) \in Seq(B) /\ Len(Field(k, f)) = f[2]
        /\ \A j \in 1 .. f[2] : Field(k, f)[j] = <<k, f[1], j>>
    BY <2>2, FieldFacts
  <2> QED
    BY <2>2, <2>3 DEF f
<1>4. Frame(k, t) = FlattenSeq(s)
  <2>1. DOMAIN L = 1 .. m
    BY <1>1, LenProperties
  <2> QED
    BY <2>1 DEF Frame, L
<1>5. s \in [1 .. m -> Seq(B)] /\ m \in Nat \ {0}
  BY <1>3
<1>6. p \in [1 .. m + 1 -> Nat]
  <2>1. \A i \in 5 .. m + 1 : i - 4 \in 1 .. n + 1
    OBVIOUS
  <2>2. \A i \in 1 .. m + 1 : p[i] \in Nat
    BY <2>1
  <2> QED
    BY <2>2
<1>7. p[1] = 0 /\ p[2] = 1 /\ p[3] = 3 /\ p[4] = 5 /\ p[5] = 11 /\ p[m + 1] = at[n + 1]
  OBVIOUS
<1>e. \A i \in 1 .. n + 1 : p[4 + i] = at[i]
  OBVIOUS
<1> HIDE DEF p, s, B
<1>8. Offsets(p, s, m)
  <2>1. SUFFICES ASSUME NEW i \in 1 .. m PROVE p[i + 1] = p[i] + Len(s[i])
    BY <1>7 DEF Offsets
  <2>2. Len(s[i]) = L[i][2]
    BY <1>3
  <2>3. CASE i \in 1 .. 4
    <3>1. i = 1 \/ i = 2 \/ i = 3 \/ i = 4
      BY <2>3
    <3>2. L[1][2] = 1 /\ L[2][2] = 2 /\ L[3][2] = 2 /\ L[4][2] = 6
      BY <1>b, HeaderIs
    <3>3. CASE i = 1
      BY <1>7, <2>2, <3>2, <3>3, SMTT(30)
    <3>4. CASE i = 2
      BY <1>7, <2>2, <3>2, <3>4, SMTT(30)
    <3>5. CASE i = 3
      BY <1>7, <2>2, <3>2, <3>5, SMTT(30)
    <3>6. CASE i = 4
      BY <1>7, <2>2, <3>2, <3>6, SMTT(30)
    <3> QED
      BY <3>1, <3>3, <3>4, <3>5, <3>6
  <2>4. CASE ~(i \in 1 .. 4)
    <3> DEFINE q == i - 4
    <3>1. q \in 1 .. n /\ i = 4 + q /\ q + 1 \in 1 .. n + 1 /\ i + 1 = 4 + (q + 1)
      BY <2>4
    <3> HIDE DEF q
    <3>2. L[i] = y[q]
      BY <1>c, <3>1
    <3>3. p[i] = at[q] /\ p[i + 1] = at[q + 1]
      <4>1. q \in 1 .. n + 1
        BY <3>1
      <4> QED
        BY ONLY <1>e, <3>1, <4>1, Zenon
    <3>4. at[q + 1] = at[q] + y[q][2]
      BY <3>1 DEF Widths
    <3> QED
      BY <2>2, <3>2, <3>3, <3>4
  <2> QED
    BY <2>3, <2>4
<1> DEFINE fr == FlattenSeq(s)
<1>9. Joined(fr, B, s, p, m)
  <2> HIDE DEF m
  <2> QED
    BY <1>5, <1>6, <1>8, Flattened, Zenon
<1> HIDE DEF fr
<1>10. \A i \in 1 .. m : \A j \in 1 .. L[i][2] : fr[p[i] + j] = <<k, L[i][1], j>>
  <2>1. SUFFICES ASSUME NEW i \in 1 .. m, NEW j \in 1 .. L[i][2] PROVE fr[p[i] + j] = <<k, L[i][1], j>>
    OBVIOUS
  <2>2. L[i][2] \in Nat
    BY <1>2 DEF FieldSpec
  <2>3. j \in 1 .. Len(s[i]) /\ s[i][j] = <<k, L[i][1], j>>
    BY <1>3, Zenon
  <2> QED
    BY <1>9, <2>3 DEF Joined
<1>11. \A j \in 1 .. 2 : fr[1 + j] = <<k, "locate", j>>
  <2>1. L[2][1] = "locate" /\ L[2][2] = 2 /\ p[2] = 1
    BY <1>7, <1>b, HeaderIs
  <2>2. 2 \in 1 .. m
    OBVIOUS
  <2> QED
    BY <1>10, <2>1, <2>2
<1>12. \A j \in 1 .. 6 : fr[5 + j] = <<k, "timestamp", j>>
  <2>1. L[4][1] = "timestamp" /\ L[4][2] = 6 /\ p[4] = 5
    BY <1>7, <1>b, HeaderIs
  <2>2. 4 \in 1 .. m
    OBVIOUS
  <2> QED
    BY <1>10, <2>1, <2>2
<1>13. \A i \in 1 .. n : \A j \in 1 .. y[i][2] : fr[at[i] + j] = <<k, y[i][1], j>>
  <2>1. SUFFICES ASSUME NEW i \in 1 .. n PROVE \A j \in 1 .. y[i][2] : fr[at[i] + j] = <<k, y[i][1], j>>
    OBVIOUS
  <2> DEFINE q == 4 + i
  <2>2. q \in 1 .. m /\ L[q] = y[i] /\ p[q] = at[i]
    BY <1>c, <1>e
  <2> HIDE DEF q
  <2> QED
    BY <1>10, <2>2
<1>14. Frame(k, t) = fr
  BY <1>4 DEF fr
<1> QED
  <2>1. /\ Frame(k, t) \in Seq({k} \X FieldName \X Nat) /\ Len(Frame(k, t)) = at[n + 1]
        /\ Bytes(k, t, "locate", 1, 2) /\ Bytes(k, t, "timestamp", 5, 6)
        /\ \A i \in 1 .. n : Bytes(k, t, y[i][1], at[i], y[i][2])
    BY <1>7, <1>9, <1>11, <1>12, <1>13, <1>14 DEF Bytes, B, Joined
  <2> QED
    BY <2>1 DEF Laid

\* The fields of a message after its header, and where they start.
Rest(t) ==
  CASE t = "A" -> << <<"ref", 8>>, <<"side", 1>>, <<"shares", 4>>, <<"stock", 8>>, <<"price", 4>> >>
    [] t = "F" -> << <<"ref", 8>>, <<"side", 1>>, <<"shares", 4>>, <<"stock", 8>>, <<"price", 4>>,
                     <<"mpid", 4>> >>
    [] t = "P" -> << <<"ref", 8>>, <<"side", 1>>, <<"shares", 4>>, <<"stock", 8>>, <<"price", 4>>,
                     <<"match", 8>> >>
    [] t = "C" -> << <<"ref", 8>>, <<"shares", 4>>, <<"match", 8>>, <<"printable", 1>>,
                     <<"price", 4>> >>
    [] t = "U" -> << <<"ref", 8>>, <<"new_ref", 8>>, <<"shares", 4>>, <<"price", 4>> >>
    [] t = "X" -> << <<"ref", 8>>, <<"shares", 4>> >>
    [] t = "D" -> << <<"ref", 8>> >>
    [] t = "E" -> << <<"ref", 8>>, <<"shares", 4>>, <<"match", 8>> >>
    [] t = "S" -> << <<"event", 1>> >>
    [] t = "I" -> << <<"auction", 39>> >>

\* Where each of them begins, and what has to hold of both.
Starts(t) ==
  CASE t = "A" -> <<11, 19, 20, 24, 32, 36>>
    [] t = "F" -> <<11, 19, 20, 24, 32, 36, 40>>
    [] t = "P" -> <<11, 19, 20, 24, 32, 36, 44>>
    [] t = "C" -> <<11, 19, 23, 31, 32, 36>>
    [] t = "U" -> <<11, 19, 27, 31, 35>>
    [] t = "X" -> <<11, 19, 23>>
    [] t = "D" -> <<11, 19>>
    [] t = "E" -> <<11, 19, 23, 31>>
    [] t = "S" -> <<11, 12>>
    [] t = "I" -> <<11, 50>>

Shape(t, y, at) ==
  /\ Layout(t) = Header \o y /\ y \in Seq(FieldSpec) /\ Len(y) \in Nat \ {0}
  /\ at \in [1 .. Len(y) + 1 -> Nat] /\ at[1] = 11 /\ Widths(at, y, Len(y))

\* A sequence with one element more, by its length and elements.
LEMMA AppendedTo ==
  ASSUME NEW S, NEW s \in Seq(S), NEW e \in S, NEW n \in Nat, Len(s) = n
  PROVE  /\ Append(s, e) \in Seq(S) /\ Len(Append(s, e)) = n + 1 /\ Append(s, e)[n + 1] = e
         /\ \A i \in 1 .. n : Append(s, e)[i] = s[i]
BY AppendProperties

\* A sequence is another one with an element more when its elements say so.
LEMMA IsAppended ==
  ASSUME NEW S, NEW s \in Seq(S), NEW e \in S, NEW n \in Nat, Len(s) = n,
         NEW r \in Seq(S), Len(r) = n + 1, r[n + 1] = e, \A i \in 1 .. n : r[i] = s[i]
  PROVE  s \o <<e>> = r
<1> DEFINE q == Append(s, e)
<1>1. q = s \o <<e>>
  BY AppendIsConcat
<1>2. q \in Seq(S) /\ Len(q) = n + 1 /\ q[n + 1] = e /\ \A i \in 1 .. n : q[i] = s[i]
  BY AppendedTo
<1> HIDE DEF q
<1>3. \A i \in 1 .. Len(r) : q[i] = r[i]
  <2>1. TAKE i \in 1 .. Len(r)
  <2>2. i = n + 1 \/ i \in 1 .. n
    OBVIOUS
  <2> QED
    BY <1>2, <2>2
<1>4. Len(q) = Len(r) /\ q \in Seq(S)
  BY <1>2
<1>5. q = r
  BY <1>3, <1>4, SeqEqual
<1> QED
  BY <1>1, <1>5

\* Five fields and one more.
LEMMA FiveAndOne ==
  ASSUME NEW a, NEW b, NEW c, NEW d, NEW e, NEW f
  PROVE  <<a, b, c, d, e>> \o <<f>> = <<a, b, c, d, e, f>>
<1> DEFINE s == <<a, b, c, d, e>>
           r == <<a, b, c, d, e, f>>
           S == {a, b, c, d, e, f}
<1>1. s \in Seq(S) /\ Len(s) = 5 /\ s[1] = a /\ s[2] = b /\ s[3] = c /\ s[4] = d /\ s[5] = e
  OBVIOUS
<1>2. r \in Seq(S) /\ Len(r) = 6 /\ r[1] = a /\ r[2] = b /\ r[3] = c /\ r[4] = d /\ r[5] = e /\ r[6] = f
  OBVIOUS
<1>3. f \in S
  OBVIOUS
<1> HIDE DEF s, r, S
<1>4. \A i \in 1 .. 5 : r[i] = s[i]
  <2>1. \A i \in 1 .. 5 : i = 1 \/ i = 2 \/ i = 3 \/ i = 4 \/ i = 5
    OBVIOUS
  <2> QED
    BY <1>1, <1>2, <2>1
<1>5. s \in Seq(S) /\ r \in Seq(S) /\ Len(s) = 5 /\ Len(r) = 5 + 1 /\ r[5 + 1] = f /\ 5 \in Nat
  BY <1>1, <1>2
<1>6. s \o <<f>> = r
  BY <1>3, <1>4, <1>5, IsAppended
<1> QED
  BY <1>6 DEF s, r

\* The frame of every type has that shape.
LEMMA Shapes == \A t \in MsgType : Shape(t, Rest(t), Starts(t))
<1>1. SUFFICES ASSUME NEW t \in MsgType PROVE Shape(t, Rest(t), Starts(t))
  OBVIOUS
<1>A. CASE t = "A"
  <2>1. Layout(t) = Header \o Rest(t)
    BY <1>A DEF Layout, Rest, OrderFields
  <2>2. Rest(t) \in Seq(FieldSpec) /\ Len(Rest(t)) = 5
    BY <1>A DEF Rest, FieldSpec, FieldName
  <2>3. Starts(t) \in [1 .. 6 -> Nat] /\ Starts(t)[1] = 11
    BY <1>A DEF Starts
  <2>4. \A i \in 1 .. 5 : Starts(t)[i + 1] = Starts(t)[i] + Rest(t)[i][2]
    BY <1>A DEF Starts, Rest
  <2> QED
    BY <2>1, <2>2, <2>3, <2>4 DEF Shape, Widths
<1>F. CASE t = "F"
  <2>1. Layout(t) = Header \o Rest(t)
    BY <1>F, FiveAndOne DEF Layout, Rest, OrderFields
  <2>2. Rest(t) \in Seq(FieldSpec) /\ Len(Rest(t)) = 6
    BY <1>F DEF Rest, FieldSpec, FieldName
  <2>3. Starts(t) \in [1 .. 7 -> Nat] /\ Starts(t)[1] = 11
    BY <1>F DEF Starts
  <2>4. \A i \in 1 .. 6 : Starts(t)[i + 1] = Starts(t)[i] + Rest(t)[i][2]
    BY <1>F DEF Starts, Rest
  <2> QED
    BY <2>1, <2>2, <2>3, <2>4 DEF Shape, Widths
<1>P. CASE t = "P"
  <2>1. Layout(t) = Header \o Rest(t)
    BY <1>P, FiveAndOne DEF Layout, Rest, OrderFields
  <2>2. Rest(t) \in Seq(FieldSpec) /\ Len(Rest(t)) = 6
    BY <1>P DEF Rest, FieldSpec, FieldName
  <2>3. Starts(t) \in [1 .. 7 -> Nat] /\ Starts(t)[1] = 11
    BY <1>P DEF Starts
  <2>4. \A i \in 1 .. 6 : Starts(t)[i + 1] = Starts(t)[i] + Rest(t)[i][2]
    BY <1>P DEF Starts, Rest
  <2> QED
    BY <2>1, <2>2, <2>3, <2>4 DEF Shape, Widths
<1>C. CASE t = "C"
  <2>1. Layout(t) = Header \o Rest(t)
    BY <1>C DEF Layout, Rest
  <2>2. Rest(t) \in Seq(FieldSpec) /\ Len(Rest(t)) = 5
    BY <1>C DEF Rest, FieldSpec, FieldName
  <2>3. Starts(t) \in [1 .. 6 -> Nat] /\ Starts(t)[1] = 11
    BY <1>C DEF Starts
  <2>4. \A i \in 1 .. 5 : Starts(t)[i + 1] = Starts(t)[i] + Rest(t)[i][2]
    BY <1>C DEF Starts, Rest
  <2> QED
    BY <2>1, <2>2, <2>3, <2>4 DEF Shape, Widths
<1>U. CASE t = "U"
  <2>1. Layout(t) = Header \o Rest(t)
    BY <1>U DEF Layout, Rest
  <2>2. Rest(t) \in Seq(FieldSpec) /\ Len(Rest(t)) = 4
    BY <1>U DEF Rest, FieldSpec, FieldName
  <2>3. Starts(t) \in [1 .. 5 -> Nat] /\ Starts(t)[1] = 11
    BY <1>U DEF Starts
  <2>4. \A i \in 1 .. 4 : Starts(t)[i + 1] = Starts(t)[i] + Rest(t)[i][2]
    BY <1>U DEF Starts, Rest
  <2> QED
    BY <2>1, <2>2, <2>3, <2>4 DEF Shape, Widths
<1>X. CASE t = "X"
  <2>1. Layout(t) = Header \o Rest(t)
    BY <1>X DEF Layout, Rest
  <2>2. Rest(t) \in Seq(FieldSpec) /\ Len(Rest(t)) = 2
    BY <1>X DEF Rest, FieldSpec, FieldName
  <2>3. Starts(t) \in [1 .. 3 -> Nat] /\ Starts(t)[1] = 11
    BY <1>X DEF Starts
  <2>4. \A i \in 1 .. 2 : Starts(t)[i + 1] = Starts(t)[i] + Rest(t)[i][2]
    BY <1>X DEF Starts, Rest
  <2> QED
    BY <2>1, <2>2, <2>3, <2>4 DEF Shape, Widths
<1>D. CASE t = "D"
  <2>1. Layout(t) = Header \o Rest(t)
    BY <1>D DEF Layout, Rest
  <2>2. Rest(t) \in Seq(FieldSpec) /\ Len(Rest(t)) = 1
    BY <1>D DEF Rest, FieldSpec, FieldName
  <2>3. Starts(t) \in [1 .. 2 -> Nat] /\ Starts(t)[1] = 11
    BY <1>D DEF Starts
  <2>4. \A i \in 1 .. 1 : Starts(t)[i + 1] = Starts(t)[i] + Rest(t)[i][2]
    BY <1>D DEF Starts, Rest
  <2> QED
    BY <2>1, <2>2, <2>3, <2>4 DEF Shape, Widths
<1>E. CASE t = "E"
  <2>1. Layout(t) = Header \o Rest(t)
    BY <1>E DEF Layout, Rest
  <2>2. Rest(t) \in Seq(FieldSpec) /\ Len(Rest(t)) = 3
    BY <1>E DEF Rest, FieldSpec, FieldName
  <2>3. Starts(t) \in [1 .. 4 -> Nat] /\ Starts(t)[1] = 11
    BY <1>E DEF Starts
  <2>4. \A i \in 1 .. 3 : Starts(t)[i + 1] = Starts(t)[i] + Rest(t)[i][2]
    BY <1>E DEF Starts, Rest
  <2> QED
    BY <2>1, <2>2, <2>3, <2>4 DEF Shape, Widths
<1>S. CASE t = "S"
  <2>1. Layout(t) = Header \o Rest(t)
    BY <1>S DEF Layout, Rest
  <2>2. Rest(t) \in Seq(FieldSpec) /\ Len(Rest(t)) = 1
    BY <1>S DEF Rest, FieldSpec, FieldName
  <2>3. Starts(t) \in [1 .. 2 -> Nat] /\ Starts(t)[1] = 11
    BY <1>S DEF Starts
  <2>4. \A i \in 1 .. 1 : Starts(t)[i + 1] = Starts(t)[i] + Rest(t)[i][2]
    BY <1>S DEF Starts, Rest
  <2> QED
    BY <2>1, <2>2, <2>3, <2>4 DEF Shape, Widths
<1>I. CASE t = "I"
  <2>1. Layout(t) = Header \o Rest(t)
    BY <1>I DEF Layout, Rest
  <2>2. Rest(t) \in Seq(FieldSpec) /\ Len(Rest(t)) = 1
    BY <1>I DEF Rest, FieldSpec, FieldName
  <2>3. Starts(t) \in [1 .. 2 -> Nat] /\ Starts(t)[1] = 11
    BY <1>I DEF Starts
  <2>4. \A i \in 1 .. 1 : Starts(t)[i + 1] = Starts(t)[i] + Rest(t)[i][2]
    BY <1>I DEF Starts, Rest
  <2> QED
    BY <2>1, <2>2, <2>3, <2>4 DEF Shape, Widths
<1> QED
  BY <1>A, <1>F, <1>P, <1>C, <1>U, <1>X, <1>D, <1>E, <1>S, <1>I DEF MsgType, Supported, AddLike

\* The registers of the parser and their sizes; which of them a message of type t fills,
\* and from which place of its frame on.
Register == {"locate", "timestamp", "ref", "new_ref", "side", "shares", "price"}

\* The width of a field, the fields a type has in its order, and where each begins.
Width(f) ==
  CASE f = "locate" -> 2 [] f = "timestamp" -> 6 [] f = "ref" -> 8 [] f = "new_ref" -> 8
    [] f = "side" -> 1 [] f = "shares" -> 4 [] f = "price" -> 4

Ordered(t) ==
  CASE t \in AddLike -> {"ref", "side", "shares", "price"}
    [] t = "U" -> {"ref", "new_ref", "shares", "price"}
    [] t = "C" -> {"ref", "shares", "price"}
    [] t \in {"X", "E"} -> {"ref", "shares"}
    [] t = "D" -> {"ref"}

Carried(t) == {"locate", "timestamp"} \cup Ordered(t)

Place(t, f) ==
  CASE f = "locate" -> 1 [] f = "timestamp" -> 5 [] f = "ref" -> 11
    [] f = "side" -> 19 [] f = "new_ref" -> 19
    [] f = "shares" -> IF t \in AddLike THEN 20 ELSE IF t = "U" THEN 27 ELSE 19
    [] f = "price" -> IF t = "U" THEN 31 ELSE 32

End(t) == Starts(t)[Len(Rest(t)) + 1]

\* A frame has the length its fields add up to and the bytes of each at its place.
LEMMA FrameIs ==
  ASSUME NEW k, NEW t \in MsgType
  PROVE  /\ Frame(k, t) \in Seq({k} \X FieldName \X Nat) /\ Len(Frame(k, t)) = End(t)
         /\ Bytes(k, t, "locate", 1, 2) /\ Bytes(k, t, "timestamp", 5, 6)
         /\ \A i \in 1 .. Len(Rest(t)) : Bytes(k, t, Rest(t)[i][1], Starts(t)[i], Rest(t)[i][2])
<1> DEFINE y == Rest(t)
           at == Starts(t)
           n == Len(y)
<1>1. Shape(t, y, at)
  BY Shapes
<1> HIDE DEF y, at
<1>2. /\ n \in Nat \ {0} /\ y \in Seq(FieldSpec) /\ Layout(t) = Header \o y
      /\ at \in [1 .. n + 1 -> Nat] /\ at[1] = 11 /\ Widths(at, y, n)
  BY <1>1 DEF Shape
<1> HIDE DEF n
<1>3. Laid(k, t, y, at, n)
  <2>1. Len(y) = n
    BY DEF n
  <2> QED
    BY <1>2, <2>1, FrameOf
<1> QED
  BY <1>3 DEF Laid, y, at, n, End

\* The fields of a type after the header are those that have a register, where the
\* parser takes them, and others.
FieldsFit(t) ==
  /\ \A i \in 1 .. Len(Rest(t)) :
       Rest(t)[i][1] \in Register => /\ Rest(t)[i][1] \in Ordered(t)
                                     /\ Rest(t)[i][2] = Width(Rest(t)[i][1])
  /\ \A f \in Ordered(t) :
       \E i \in 1 .. Len(Rest(t)) : /\ Rest(t)[i][1] = f /\ Rest(t)[i][2] = Width(f)
                                    /\ Starts(t)[i] = Place(t, f)
  /\ \A f \in Carried(t) : Place(t, f) + Width(f) <= End(t)

LEMMA Fits == \A t \in Supported : FieldsFit(t)
<1>1. SUFFICES ASSUME NEW t \in Supported PROVE FieldsFit(t)
  OBVIOUS
<1>A. CASE t = "A"
  <2> DEFINE y == Rest(t)
             at == Starts(t)
  <2>1. Len(y) = 5 /\ at[6] = 36
    BY <1>A DEF Rest, Starts
  <2>2. /\ y[1][1] = "ref" /\ y[1][2] = 8 /\ at[1] = 11
        /\ y[2][1] = "side" /\ y[2][2] = 1 /\ at[2] = 19
        /\ y[3][1] = "shares" /\ y[3][2] = 4 /\ at[3] = 20
        /\ y[4][1] = "stock" /\ y[4][2] = 8 /\ at[4] = 24
        /\ y[5][1] = "price" /\ y[5][2] = 4 /\ at[5] = 32
    BY <1>A DEF Rest, Starts
  <2>3. Ordered(t) = {"ref", "side", "shares", "price"}
    BY <1>A DEF Ordered, AddLike
  <2> HIDE DEF y, at
  <2>4. \A i \in 1 .. 5 : y[i][1] \in Register => y[i][1] \in Ordered(t) /\ y[i][2] = Width(y[i][1])
    <3>1. \A i \in 1 .. 5 : i = 1 \/ i = 2 \/ i = 3 \/ i = 4 \/ i = 5
      OBVIOUS
    <3> QED
      BY <2>2, <2>3, <3>1 DEF Register, Width
  <2>5. \A f \in Ordered(t) : \E i \in 1 .. 5 : y[i][1] = f /\ y[i][2] = Width(f) /\ at[i] = Place(t, f)
    <3>1. 1 \in 1 .. 5 /\ 2 \in 1 .. 5 /\ 3 \in 1 .. 5 /\ 5 \in 1 .. 5
      OBVIOUS
    <3>2. /\ Place(t, "ref") = 11 /\ Width("ref") = 8
          /\ Place(t, "side") = 19 /\ Width("side") = 1
          /\ Place(t, "shares") = 20 /\ Width("shares") = 4
          /\ Place(t, "price") = 32 /\ Width("price") = 4
      BY <1>A DEF Place, Width, AddLike
    <3> QED
      BY <2>2, <2>3, <3>1, <3>2
  <2>6. \A f \in Carried(t) : Place(t, f) + Width(f) <= 36
    BY <1>A, <2>3 DEF Carried, Place, Width, AddLike
  <2> QED
    BY <2>1, <2>4, <2>5, <2>6 DEF FieldsFit, End, y, at
<1>F. CASE t = "F"
  <2> DEFINE y == Rest(t)
             at == Starts(t)
  <2>1. Len(y) = 6 /\ at[7] = 40
    BY <1>F DEF Rest, Starts
  <2>2. /\ y[1][1] = "ref" /\ y[1][2] = 8 /\ at[1] = 11
        /\ y[2][1] = "side" /\ y[2][2] = 1 /\ at[2] = 19
        /\ y[3][1] = "shares" /\ y[3][2] = 4 /\ at[3] = 20
        /\ y[4][1] = "stock" /\ y[4][2] = 8 /\ at[4] = 24
        /\ y[5][1] = "price" /\ y[5][2] = 4 /\ at[5] = 32
        /\ y[6][1] = "mpid" /\ y[6][2] = 4 /\ at[6] = 36
    BY <1>F DEF Rest, Starts
  <2>3. Ordered(t) = {"ref", "side", "shares", "price"}
    BY <1>F DEF Ordered, AddLike
  <2> HIDE DEF y, at
  <2>4. \A i \in 1 .. 6 : y[i][1] \in Register => y[i][1] \in Ordered(t) /\ y[i][2] = Width(y[i][1])
    <3>1. \A i \in 1 .. 6 : i = 1 \/ i = 2 \/ i = 3 \/ i = 4 \/ i = 5 \/ i = 6
      OBVIOUS
    <3> QED
      BY <2>2, <2>3, <3>1 DEF Register, Width
  <2>5. \A f \in Ordered(t) : \E i \in 1 .. 6 : y[i][1] = f /\ y[i][2] = Width(f) /\ at[i] = Place(t, f)
    <3>1. 1 \in 1 .. 6 /\ 2 \in 1 .. 6 /\ 3 \in 1 .. 6 /\ 5 \in 1 .. 6
      OBVIOUS
    <3>2. /\ Place(t, "ref") = 11 /\ Width("ref") = 8
          /\ Place(t, "side") = 19 /\ Width("side") = 1
          /\ Place(t, "shares") = 20 /\ Width("shares") = 4
          /\ Place(t, "price") = 32 /\ Width("price") = 4
      BY <1>F DEF Place, Width, AddLike
    <3> QED
      BY <2>2, <2>3, <3>1, <3>2
  <2>6. \A f \in Carried(t) : Place(t, f) + Width(f) <= 40
    BY <1>F, <2>3 DEF Carried, Place, Width, AddLike
  <2> QED
    BY <2>1, <2>4, <2>5, <2>6 DEF FieldsFit, End, y, at
<1>P. CASE t = "P"
  <2> DEFINE y == Rest(t)
             at == Starts(t)
  <2>1. Len(y) = 6 /\ at[7] = 44
    BY <1>P DEF Rest, Starts
  <2>2. /\ y[1][1] = "ref" /\ y[1][2] = 8 /\ at[1] = 11
        /\ y[2][1] = "side" /\ y[2][2] = 1 /\ at[2] = 19
        /\ y[3][1] = "shares" /\ y[3][2] = 4 /\ at[3] = 20
        /\ y[4][1] = "stock" /\ y[4][2] = 8 /\ at[4] = 24
        /\ y[5][1] = "price" /\ y[5][2] = 4 /\ at[5] = 32
        /\ y[6][1] = "match" /\ y[6][2] = 8 /\ at[6] = 36
    BY <1>P DEF Rest, Starts
  <2>3. Ordered(t) = {"ref", "side", "shares", "price"}
    BY <1>P DEF Ordered, AddLike
  <2> HIDE DEF y, at
  <2>4. \A i \in 1 .. 6 : y[i][1] \in Register => y[i][1] \in Ordered(t) /\ y[i][2] = Width(y[i][1])
    <3>1. \A i \in 1 .. 6 : i = 1 \/ i = 2 \/ i = 3 \/ i = 4 \/ i = 5 \/ i = 6
      OBVIOUS
    <3> QED
      BY <2>2, <2>3, <3>1 DEF Register, Width
  <2>5. \A f \in Ordered(t) : \E i \in 1 .. 6 : y[i][1] = f /\ y[i][2] = Width(f) /\ at[i] = Place(t, f)
    <3>1. 1 \in 1 .. 6 /\ 2 \in 1 .. 6 /\ 3 \in 1 .. 6 /\ 5 \in 1 .. 6
      OBVIOUS
    <3>2. /\ Place(t, "ref") = 11 /\ Width("ref") = 8
          /\ Place(t, "side") = 19 /\ Width("side") = 1
          /\ Place(t, "shares") = 20 /\ Width("shares") = 4
          /\ Place(t, "price") = 32 /\ Width("price") = 4
      BY <1>P DEF Place, Width, AddLike
    <3> QED
      BY <2>2, <2>3, <3>1, <3>2
  <2>6. \A f \in Carried(t) : Place(t, f) + Width(f) <= 44
    BY <1>P, <2>3 DEF Carried, Place, Width, AddLike
  <2> QED
    BY <2>1, <2>4, <2>5, <2>6 DEF FieldsFit, End, y, at
<1>C. CASE t = "C"
  <2> DEFINE y == Rest(t)
             at == Starts(t)
  <2>1. Len(y) = 5 /\ at[6] = 36
    BY <1>C DEF Rest, Starts
  <2>2. /\ y[1][1] = "ref" /\ y[1][2] = 8 /\ at[1] = 11
        /\ y[2][1] = "shares" /\ y[2][2] = 4 /\ at[2] = 19
        /\ y[3][1] = "match" /\ y[3][2] = 8 /\ at[3] = 23
        /\ y[4][1] = "printable" /\ y[4][2] = 1 /\ at[4] = 31
        /\ y[5][1] = "price" /\ y[5][2] = 4 /\ at[5] = 32
    BY <1>C DEF Rest, Starts
  <2>3. Ordered(t) = {"ref", "shares", "price"}
    BY <1>C DEF Ordered, AddLike
  <2> HIDE DEF y, at
  <2>4. \A i \in 1 .. 5 : y[i][1] \in Register => y[i][1] \in Ordered(t) /\ y[i][2] = Width(y[i][1])
    <3>1. \A i \in 1 .. 5 : i = 1 \/ i = 2 \/ i = 3 \/ i = 4 \/ i = 5
      OBVIOUS
    <3> QED
      BY <2>2, <2>3, <3>1 DEF Register, Width
  <2>5. \A f \in Ordered(t) : \E i \in 1 .. 5 : y[i][1] = f /\ y[i][2] = Width(f) /\ at[i] = Place(t, f)
    <3>1. 1 \in 1 .. 5 /\ 2 \in 1 .. 5 /\ 5 \in 1 .. 5
      OBVIOUS
    <3>2. /\ Place(t, "ref") = 11 /\ Width("ref") = 8
          /\ Place(t, "shares") = 19 /\ Width("shares") = 4
          /\ Place(t, "price") = 32 /\ Width("price") = 4
      BY <1>C DEF Place, Width, AddLike
    <3> QED
      BY <2>2, <2>3, <3>1, <3>2
  <2>6. \A f \in Carried(t) : Place(t, f) + Width(f) <= 36
    BY <1>C, <2>3 DEF Carried, Place, Width, AddLike
  <2> QED
    BY <2>1, <2>4, <2>5, <2>6 DEF FieldsFit, End, y, at
<1>U. CASE t = "U"
  <2> DEFINE y == Rest(t)
             at == Starts(t)
  <2>1. Len(y) = 4 /\ at[5] = 35
    BY <1>U DEF Rest, Starts
  <2>2. /\ y[1][1] = "ref" /\ y[1][2] = 8 /\ at[1] = 11
        /\ y[2][1] = "new_ref" /\ y[2][2] = 8 /\ at[2] = 19
        /\ y[3][1] = "shares" /\ y[3][2] = 4 /\ at[3] = 27
        /\ y[4][1] = "price" /\ y[4][2] = 4 /\ at[4] = 31
    BY <1>U DEF Rest, Starts
  <2>3. Ordered(t) = {"ref", "new_ref", "shares", "price"}
    BY <1>U DEF Ordered, AddLike
  <2> HIDE DEF y, at
  <2>4. \A i \in 1 .. 4 : y[i][1] \in Register => y[i][1] \in Ordered(t) /\ y[i][2] = Width(y[i][1])
    <3>1. \A i \in 1 .. 4 : i = 1 \/ i = 2 \/ i = 3 \/ i = 4
      OBVIOUS
    <3> QED
      BY <2>2, <2>3, <3>1 DEF Register, Width
  <2>5. \A f \in Ordered(t) : \E i \in 1 .. 4 : y[i][1] = f /\ y[i][2] = Width(f) /\ at[i] = Place(t, f)
    <3>1. 1 \in 1 .. 4 /\ 2 \in 1 .. 4 /\ 3 \in 1 .. 4 /\ 4 \in 1 .. 4
      OBVIOUS
    <3>2. /\ Place(t, "ref") = 11 /\ Width("ref") = 8
          /\ Place(t, "new_ref") = 19 /\ Width("new_ref") = 8
          /\ Place(t, "shares") = 27 /\ Width("shares") = 4
          /\ Place(t, "price") = 31 /\ Width("price") = 4
      BY <1>U DEF Place, Width, AddLike
    <3> QED
      BY <2>2, <2>3, <3>1, <3>2
  <2>6. \A f \in Carried(t) : Place(t, f) + Width(f) <= 35
    BY <1>U, <2>3 DEF Carried, Place, Width, AddLike
  <2> QED
    BY <2>1, <2>4, <2>5, <2>6 DEF FieldsFit, End, y, at
<1>X. CASE t = "X"
  <2> DEFINE y == Rest(t)
             at == Starts(t)
  <2>1. Len(y) = 2 /\ at[3] = 23
    BY <1>X DEF Rest, Starts
  <2>2. /\ y[1][1] = "ref" /\ y[1][2] = 8 /\ at[1] = 11
        /\ y[2][1] = "shares" /\ y[2][2] = 4 /\ at[2] = 19
    BY <1>X DEF Rest, Starts
  <2>3. Ordered(t) = {"ref", "shares"}
    BY <1>X DEF Ordered, AddLike
  <2> HIDE DEF y, at
  <2>4. \A i \in 1 .. 2 : y[i][1] \in Register => y[i][1] \in Ordered(t) /\ y[i][2] = Width(y[i][1])
    <3>1. \A i \in 1 .. 2 : i = 1 \/ i = 2
      OBVIOUS
    <3> QED
      BY <2>2, <2>3, <3>1 DEF Register, Width
  <2>5. \A f \in Ordered(t) : \E i \in 1 .. 2 : y[i][1] = f /\ y[i][2] = Width(f) /\ at[i] = Place(t, f)
    <3>1. 1 \in 1 .. 2 /\ 2 \in 1 .. 2
      OBVIOUS
    <3>2. /\ Place(t, "ref") = 11 /\ Width("ref") = 8
          /\ Place(t, "shares") = 19 /\ Width("shares") = 4
      BY <1>X DEF Place, Width, AddLike
    <3> QED
      BY <2>2, <2>3, <3>1, <3>2
  <2>6. \A f \in Carried(t) : Place(t, f) + Width(f) <= 23
    BY <1>X, <2>3 DEF Carried, Place, Width, AddLike
  <2> QED
    BY <2>1, <2>4, <2>5, <2>6 DEF FieldsFit, End, y, at
<1>D. CASE t = "D"
  <2> DEFINE y == Rest(t)
             at == Starts(t)
  <2>1. Len(y) = 1 /\ at[2] = 19
    BY <1>D DEF Rest, Starts
  <2>2. /\ y[1][1] = "ref" /\ y[1][2] = 8 /\ at[1] = 11
    BY <1>D DEF Rest, Starts
  <2>3. Ordered(t) = {"ref"}
    BY <1>D DEF Ordered, AddLike
  <2> HIDE DEF y, at
  <2>4. \A i \in 1 .. 1 : y[i][1] \in Register => y[i][1] \in Ordered(t) /\ y[i][2] = Width(y[i][1])
    <3>1. \A i \in 1 .. 1 : i = 1
      OBVIOUS
    <3> QED
      BY <2>2, <2>3, <3>1 DEF Register, Width
  <2>5. \A f \in Ordered(t) : \E i \in 1 .. 1 : y[i][1] = f /\ y[i][2] = Width(f) /\ at[i] = Place(t, f)
    <3>1. 1 \in 1 .. 1
      OBVIOUS
    <3>2. /\ Place(t, "ref") = 11 /\ Width("ref") = 8
      BY <1>D DEF Place, Width, AddLike
    <3> QED
      BY <2>2, <2>3, <3>1, <3>2
  <2>6. \A f \in Carried(t) : Place(t, f) + Width(f) <= 19
    BY <1>D, <2>3 DEF Carried, Place, Width, AddLike
  <2> QED
    BY <2>1, <2>4, <2>5, <2>6 DEF FieldsFit, End, y, at
<1>E. CASE t = "E"
  <2> DEFINE y == Rest(t)
             at == Starts(t)
  <2>1. Len(y) = 3 /\ at[4] = 31
    BY <1>E DEF Rest, Starts
  <2>2. /\ y[1][1] = "ref" /\ y[1][2] = 8 /\ at[1] = 11
        /\ y[2][1] = "shares" /\ y[2][2] = 4 /\ at[2] = 19
        /\ y[3][1] = "match" /\ y[3][2] = 8 /\ at[3] = 23
    BY <1>E DEF Rest, Starts
  <2>3. Ordered(t) = {"ref", "shares"}
    BY <1>E DEF Ordered, AddLike
  <2> HIDE DEF y, at
  <2>4. \A i \in 1 .. 3 : y[i][1] \in Register => y[i][1] \in Ordered(t) /\ y[i][2] = Width(y[i][1])
    <3>1. \A i \in 1 .. 3 : i = 1 \/ i = 2 \/ i = 3
      OBVIOUS
    <3> QED
      BY <2>2, <2>3, <3>1 DEF Register, Width
  <2>5. \A f \in Ordered(t) : \E i \in 1 .. 3 : y[i][1] = f /\ y[i][2] = Width(f) /\ at[i] = Place(t, f)
    <3>1. 1 \in 1 .. 3 /\ 2 \in 1 .. 3
      OBVIOUS
    <3>2. /\ Place(t, "ref") = 11 /\ Width("ref") = 8
          /\ Place(t, "shares") = 19 /\ Width("shares") = 4
      BY <1>E DEF Place, Width, AddLike
    <3> QED
      BY <2>2, <2>3, <3>1, <3>2
  <2>6. \A f \in Carried(t) : Place(t, f) + Width(f) <= 31
    BY <1>E, <2>3 DEF Carried, Place, Width, AddLike
  <2> QED
    BY <2>1, <2>4, <2>5, <2>6 DEF FieldsFit, End, y, at
<1> QED
  BY <1>A, <1>F, <1>P, <1>C, <1>U, <1>X, <1>D, <1>E DEF Supported, AddLike

\* The frame of a message: its length, and where its registers' fields are.
Framed(k, t) ==
  /\ Frame(k, t) \in Seq({k} \X FieldName \X Nat) /\ Len(Frame(k, t)) = Length[t]
  /\ t \in Supported => \A f \in Carried(t) : /\ Bytes(k, t, f, Place(t, f), Width(f))
                                             /\ Place(t, f) + Width(f) <= Length[t]

\* The length of a message is that of its frame, below 64 bytes.
LEMMA Lengths == \A t \in MsgType : Length[t] = End(t) /\ Length[t] \in 12 .. 50
<1>1. SUFFICES ASSUME NEW t \in MsgType PROVE Length[t] = End(t) /\ End(t) \in 12 .. 50
  OBVIOUS
<1>2. Length[t] = End(t)
  <2>1. Len(Frame(1, t)) = End(t)
    BY FrameIs
  <2> QED
    BY <2>1 DEF Length
<1>3. End(t) \in 12 .. 50
  BY DEF End, Rest, Starts, MsgType, Supported, AddLike
<1> QED
  BY <1>2, <1>3

\* ... as bounds.
LEMMA LengthBounds == \A t \in MsgType : Length[t] \in Nat /\ 12 <= Length[t] /\ Length[t] <= 50
<1>1. \A l \in 12 .. 50 : l \in Nat /\ 12 <= l /\ l <= 50
  OBVIOUS
<1> QED
  BY ONLY <1>1, Lengths, Zenon

LEMMA Frames == ASSUME NEW k, NEW t \in MsgType PROVE Framed(k, t)
<1>1. /\ Frame(k, t) \in Seq({k} \X FieldName \X Nat) /\ Len(Frame(k, t)) = End(t)
      /\ Bytes(k, t, "locate", 1, 2) /\ Bytes(k, t, "timestamp", 5, 6)
      /\ \A i \in 1 .. Len(Rest(t)) : Bytes(k, t, Rest(t)[i][1], Starts(t)[i], Rest(t)[i][2])
  BY FrameIs
<1>2. Length[t] = End(t)
  BY Lengths
<1>3. ASSUME t \in Supported, NEW f \in Carried(t)
      PROVE  Bytes(k, t, f, Place(t, f), Width(f)) /\ Place(t, f) + Width(f) <= Length[t]
  <2>1. FieldsFit(t)
    BY <1>3, Fits
  <2>2. Place(t, f) + Width(f) <= Length[t]
    BY <1>2, <2>1 DEF FieldsFit
  <2>3. CASE f \in {"locate", "timestamp"}
    BY <1>1, <2>2, <2>3 DEF Place, Width
  <2>4. CASE f \in Ordered(t)
    <3>1. PICK i \in 1 .. Len(Rest(t)) : /\ Rest(t)[i][1] = f /\ Rest(t)[i][2] = Width(f)
                                         /\ Starts(t)[i] = Place(t, f)
      BY <2>1, <2>4 DEF FieldsFit
    <3> QED
      BY <1>1, <2>2, <3>1
  <2> QED
    BY <2>3, <2>4 DEF Carried
<1> QED
  BY <1>1, <1>2, <1>3 DEF Framed

\* What the generator was given for a field of a supported message.
LEMMA GivenIs ==
  ASSUME NEW k, NEW t \in Supported, NEW f \in Register
  PROVE  Given(k, t, f) = IF f \in Carried(t) THEN Field(k, <<f, Width(f)>>) ELSE Absent
<1> DEFINE y == Rest(t)
           L == Layout(t)
           at == {n \in DOMAIN L : L[n][1] = f}
<1>1. Shape(t, y, Starts(t)) /\ FieldsFit(t)
  BY Shapes, Fits DEF MsgType
<1>2. /\ L \in Seq(FieldSpec) /\ Len(L) = 4 + Len(y) /\ Len(y) \in Nat /\ y \in Seq(FieldSpec)
      /\ \A i \in 1 .. 4 : L[i] = Header[i]
      /\ \A i \in 1 .. Len(y) : L[4 + i] = y[i]
  <2>1. y \in Seq(FieldSpec) /\ L = Header \o y /\ Len(y) \in Nat
    BY <1>1 DEF Shape
  <2> HIDE DEF y, L
  <2>2. /\ Header \o y \in Seq(FieldSpec) /\ Len(Header \o y) = 4 + Len(y)
        /\ \A i \in 1 .. 4 : (Header \o y)[i] = Header[i]
        /\ \A i \in 1 .. Len(y) : (Header \o y)[4 + i] = y[i]
    BY ONLY <2>1, AfterHeader, Zenon
  <2> QED
    BY ONLY <2>1, <2>2, Zenon
<1>3. \A i \in 1 .. Len(y) : y[i][1] \in Register => y[i][1] \in Ordered(t) /\ y[i][2] = Width(y[i][1])
  BY <1>1 DEF FieldsFit
<1>4. \A g \in Ordered(t) : \E i \in 1 .. Len(y) : y[i][1] = g
  BY <1>1 DEF FieldsFit
<1>5. DOMAIN L = 1 .. 4 + Len(y) /\ \A n \in 1 .. 4 + Len(y) : L[n] \in FieldSpec
  BY <1>2
<1> HIDE DEF L, y
<1>6. ASSUME NEW n \in at PROVE f \in Carried(t) /\ L[n] = <<f, Width(f)>>
  <2>1. n \in 1 .. 4 + Len(y) /\ L[n] \in FieldSpec /\ L[n][1] = f
    BY <1>5
  <2>2. L[n] = <<L[n][1], L[n][2]>>
    BY <2>1 DEF FieldSpec
  <2>3. CASE n \in 1 .. 4
    <3>1. L[n] = Header[n] /\ (n = 1 \/ n = 2 \/ n = 3 \/ n = 4)
      BY <1>2, <2>3
    <3> QED
      BY <2>1, <3>1, HeaderIs DEF Register, Carried, Width
  <2>4. CASE n \notin 1 .. 4
    <3> DEFINE i == n - 4
    <3>1. i \in 1 .. Len(y) /\ n = 4 + i
      BY <1>2, <2>1, <2>4
    <3> HIDE DEF i
    <3>2. L[n] = y[i]
      BY <1>2, <3>1
    <3> QED
      BY <1>3, <2>1, <2>2, <3>1, <3>2 DEF Carried
  <2> QED
    BY <2>3, <2>4
<1>7. ASSUME f \in Carried(t) PROVE at # {}
  <2>1. CASE f \in Ordered(t)
    <3>1. PICK i \in 1 .. Len(y) : y[i][1] = f
      BY <1>4, <2>1
    <3> DEFINE n == 4 + i
    <3>2. n \in DOMAIN L /\ L[n] = y[i]
      BY <1>2, <1>5
    <3> QED
      BY <3>1, <3>2
  <2>2. CASE f = "locate"
    <3>1. 2 \in DOMAIN L /\ L[2][1] = f
      BY <1>2, <1>5, <2>2, HeaderIs
    <3> QED
      BY <3>1
  <2>3. CASE f = "timestamp"
    <3>1. 4 \in DOMAIN L /\ L[4][1] = f
      BY <1>2, <1>5, <2>3, HeaderIs
    <3> QED
      BY <3>1
  <2> QED
    BY <1>7, <2>1, <2>2, <2>3 DEF Carried
<1>8. Given(k, t, f) = IF at = {} THEN Absent ELSE Field(k, L[CHOOSE n \in at : TRUE])
  BY DEF Given, L
<1>9. CASE at = {}
  BY <1>7, <1>8, <1>9
<1>10. CASE at # {}
  <2> DEFINE n == CHOOSE n \in at : TRUE
  <2>1. n \in at
    BY <1>10
  <2> HIDE DEF n, at
  <2>2. f \in Carried(t) /\ L[n] = <<f, Width(f)>>
    BY <1>6, <2>1
  <2>3. Given(k, t, f) = Field(k, L[n])
    BY <1>8, <1>10 DEF n
  <2> QED
    BY <2>2, <2>3
<1> QED
  BY <1>9, <1>10

\* The numbers of the supported messages among the first k, for every k up to n.
IsCount(g, ts, n) ==
  g = [k \in 0 .. n |-> IF k = 0 THEN <<>>
                        ELSE IF ts[k] \in Supported THEN Append(g[k - 1], k) ELSE g[k - 1]]

\* The counting function exists; supported is its last value.
LEMMA CountExists ==
  ASSUME NEW ts, NEW n \in Nat
  PROVE  \E g : IsCount(g, ts, n)
<1> DEFINE A == {m \in Nat : \E g : IsCount(g, ts, m)}
<1>1. 0 \in A
  <2> DEFINE g == [k \in 0 .. 0 |-> <<>>]
  <2>1. IsCount(g, ts, 0)
    BY DEF IsCount
  <2> QED
    BY <2>1
<1>2. ASSUME NEW m \in A PROVE m + 1 \in A
  <2>1. PICK g : IsCount(g, ts, m)
    OBVIOUS
  <2> DEFINE new == IF ts[m + 1] \in Supported THEN Append(g[m], m + 1) ELSE g[m]
             h == [k \in 0 .. m + 1 |-> IF k <= m THEN g[k] ELSE new]
  <2>2. \A k \in 0 .. m : g[k] = IF k = 0 THEN <<>>
                                 ELSE IF ts[k] \in Supported THEN Append(g[k - 1], k) ELSE g[k - 1]
    BY <2>1 DEF IsCount
  <2>3. \A k \in 0 .. m + 1 : h[k] = IF k = 0 THEN <<>>
                                     ELSE IF ts[k] \in Supported THEN Append(h[k - 1], k) ELSE h[k - 1]
    <3>1. SUFFICES ASSUME NEW k \in 0 .. m + 1
                   PROVE  h[k] = IF k = 0 THEN <<>>
                                 ELSE IF ts[k] \in Supported THEN Append(h[k - 1], k) ELSE h[k - 1]
      OBVIOUS
    <3> DEFINE j == k - 1
    <3>2. k # 0 => j \in 0 .. m /\ h[j] = g[j]
      OBVIOUS
    <3>3. CASE k <= m
      <4>1. k \in 0 .. m /\ h[k] = g[k]
        BY <3>3
      <4>2. g[k] = IF k = 0 THEN <<>> ELSE IF ts[k] \in Supported THEN Append(g[j], k) ELSE g[j]
        BY <2>2, <4>1
      <4> HIDE DEF h
      <4> QED
        BY <3>2, <4>1, <4>2
    <3>4. CASE ~(k <= m)
      <4>1. k = m + 1 /\ k # 0 /\ j = m /\ h[k] = new
        BY <3>4
      <4> HIDE DEF h, j
      <4> QED
        BY <3>2, <4>1 DEF j
    <3> QED
      BY <3>3, <3>4
  <2>4. h = [k \in 0 .. m + 1 |-> h[k]]
    OBVIOUS
  <2> HIDE DEF h
  <2>5. IsCount(h, ts, m + 1)
    BY <2>3, <2>4 DEF IsCount
  <2> QED
    BY <2>5
<1>3. n \in A
  BY <1>1, <1>2, NatInduct
<1> QED
  BY <1>3

Count(ts) == CHOOSE g : IsCount(g, ts, Len(ts))

Grows(g, ts, n) ==
  /\ g[0] = <<>>
  /\ \A a \in 0 .. n, b \in 1 .. n :
       b = a + 1 => g[b] = IF ts[b] \in Supported THEN Append(g[a], b) ELSE g[a]

\* The count of a longer stream agrees on the shorter one.
LEMMA CountGrows ==
  ASSUME NEW ts, Len(ts) \in Nat
  PROVE  Grows(Count(ts), ts, Len(ts)) /\ supported(ts) = Count(ts)[Len(ts)]
<1> DEFINE n == Len(ts)
           g == Count(ts)
<1>1. IsCount(g, ts, n)
  BY CountExists DEF Count
<1>2. supported(ts) = g[n]
  BY DEF supported, Count, IsCount
<1> HIDE DEF g, n
<1>3. \A k \in 0 .. n : g[k] = IF k = 0 THEN <<>>
                               ELSE IF ts[k] \in Supported THEN Append(g[k - 1], k) ELSE g[k - 1]
  BY <1>1 DEF IsCount
<1>4. g[0] = <<>>
  BY <1>3 DEF n
<1>5. ASSUME NEW a \in 0 .. n, NEW b \in 1 .. n, b = a + 1
      PROVE  g[b] = IF ts[b] \in Supported THEN Append(g[a], b) ELSE g[a]
  <2>1. b \in 0 .. n /\ b # 0 /\ b - 1 = a
    BY <1>5 DEF n
  <2> QED
    BY <1>3, <2>1
<1> QED
  BY <1>2, <1>4, <1>5 DEF Grows, g, n

\* A message more: its number comes to the others if it is supported.
LEMMA OneMore ==
  ASSUME NEW ts \in Seq(MsgType), NEW t \in MsgType
  PROVE  supported(Append(ts, t)) =
           IF t \in Supported THEN Append(supported(ts), Len(ts) + 1) ELSE supported(ts)
<1> DEFINE c == Append(ts, t)
           n == Len(ts)
           m == n + 1
           g == Count(ts)
           h == Count(c)
<1>1. n \in Nat /\ Len(c) = m /\ c[m] = t /\ \A k \in 1 .. n : c[k] = ts[k]
  BY AppendedTo, LenProperties
<1>2. Grows(g, ts, n) /\ supported(ts) = g[n]
  BY <1>1, CountGrows
<1>3. Grows(h, c, m) /\ supported(c) = h[m]
  <2>1. Len(c) \in Nat
    BY <1>1
  <2>2. Grows(h, c, Len(c)) /\ supported(c) = h[Len(c)]
    <3> HIDE DEF c, n, m
    <3> QED
      BY <2>1, CountGrows
  <2> QED
    BY <1>1, <2>2
<1> HIDE DEF c, g, h
<1>4. h[n] = g[n]
  <2> DEFINE A == {k \in Nat : k \in 0 .. n => h[k] = g[k]}
  <2>1. 0 \in A
    BY <1>2, <1>3 DEF Grows
  <2>2. ASSUME NEW a \in A PROVE a + 1 \in A
    <3> DEFINE b == a + 1
    <3>1. b \in Nat
      OBVIOUS
    <3>2. ASSUME b \in 0 .. n PROVE h[b] = g[b]
      <4>1. a \in 0 .. n /\ a \in 0 .. m /\ b \in 1 .. n /\ b \in 1 .. m /\ b = a + 1 /\ h[a] = g[a]
        BY <1>1, <3>2
      <4> HIDE DEF b, m, n
      <4>2. c[b] = ts[b]
        BY <1>1, <4>1
      <4>3. g[b] = IF ts[b] \in Supported THEN Append(g[a], b) ELSE g[a]
        BY <1>2, <4>1 DEF Grows
      <4>4. h[b] = IF c[b] \in Supported THEN Append(h[a], b) ELSE h[a]
        BY <1>3, <4>1 DEF Grows
      <4> QED
        BY <4>1, <4>2, <4>3, <4>4
    <3> QED
      BY <3>1, <3>2
  <2>3. n \in A
    <3> HIDE DEF A
    <3>1. A \in SUBSET Nat
      BY DEF A
    <3>2. A = Nat
      BY <2>1, <2>2, <3>1, NatInduct
    <3> QED
      BY <1>1, <3>2
  <2>4. n \in 0 .. n
    BY <1>1
  <2> QED
    BY <2>3, <2>4
<1>5. h[m] = IF t \in Supported THEN Append(h[n], m) ELSE h[n]
  <2>1. n \in 0 .. m /\ m \in 1 .. m /\ m = n + 1
    BY <1>1
  <2> HIDE DEF m, n
  <2> QED
    BY <1>1, <1>3, <2>1 DEF Grows
<1> QED
  BY <1>2, <1>3, <1>4, <1>5 DEF c

LEMMA NoneYet == supported(<<>>) = <<>>
<1>1. Len(<<>>) = 0
  OBVIOUS
<1> QED
  BY <1>1, CountGrows DEF Grows
-----------------------------------------------------------------------------
(* The parser.  What its registers hold of the message under way, and what was*)
(* handed over, by the stream of bytes it took.                            *)

\* Bytes of a frame, or what a register holds at first.
RegByte == Int \X (FieldName \cup {"reset"}) \X Nat

\* A decoded message, and the types of the registers.
Message ==
  [type : MsgType, locate : Seq(RegByte), timestamp : Seq(RegByte), ref : Seq(RegByte),
   new_ref : Seq(RegByte), side : Seq(RegByte), shares : Seq(RegByte), price : Seq(RegByte)]

ParserType ==
  /\ types \in Seq(MsgType) /\ pos \in Nat /\ m_valid \in BOOLEAN
  /\ sr \in [Register -> Seq(RegByte)] /\ \A f \in Register : Len(sr[f]) = Width(f)
  /\ taken \in Seq(Message) /\ (m_valid => out \in Message)

\* The byte counter and the type register say where in the message the parser is.
Position ==
  /\ IF types = <<>> THEN pos = 0 ELSE pos \in 1 .. Length[Last(types)]
  /\ byte_cnt = IF Between THEN 0 ELSE pos
  /\ ~Between => msg_type_r = Last(types)

\* How many bytes of a field of width z after place a are among the first n of the frame.
Got(n, a, z) == IF n <= a THEN 0 ELSE IF n >= a + z THEN z ELSE n - a

\* The last n bytes in a register of width z are the first of the field of message k.
Holds(reg, z, k, f, n) == \A j \in 1 .. n : reg[z - n + j] = <<k, f, j>>

\* Each field of message k is in its register as far as n bytes of the frame go.
Filled(r, k, t, n) ==
  \A f \in Carried(t) : Holds(r[f], Width(f), k, f, Got(n, Place(t, f), Width(f)))

Filling == ~Between /\ Last(types) \in Supported => Filled(sr, Len(types), Last(types), pos)

\* m is message k, of type t, as it was sent; the shares of a Delete are left open.
Decoded(m, k, t) ==
  /\ m.type = t
  /\ m.locate = Field(k, <<"locate", 2>>) /\ m.timestamp = Field(k, <<"timestamp", 6>>)
  /\ m.ref = Field(k, <<"ref", 8>>)
  /\ m.new_ref = IF t = "U" THEN Field(k, <<"new_ref", 8>>) ELSE m.ref
  /\ m.side = IF t \in AddLike THEN Field(k, <<"side", 1>>) ELSE Absent
  /\ t # "D" => m.shares = Field(k, <<"shares", 4>>)
  /\ m.price = IF t \in AddLike \cup {"C", "U"} THEN Field(k, <<"price", 4>>) ELSE Absent

\* got are the supported ones of the messages ts, numbered from 1.
Delivery(got, ts) ==
  /\ Len(got) = Len(supported(ts))
  /\ supported(ts) \in Seq(1 .. Len(ts))
  /\ \A n \in 1 .. Len(got) : LET k == supported(ts)[n]
                              IN  ts[k] \in Supported /\ Decoded(got[n], k, ts[k])

\* The messages handed over, with the one on hand.
Handed == IF m_valid THEN Append(taken, out) ELSE taken

\* The invariant of the parser.
ParserInv == ParserType /\ Position /\ Filling /\ Delivery(Handed, Complete)

\* The next byte of the stream: byte p of message k, of type t.
NextByte(k, t, p) ==
  /\ t \in MsgType
  /\ IF Between THEN k = Len(types) + 1 /\ p = 1
                ELSE k = Len(types) /\ t = Last(types) /\ p = pos + 1

LEMMA Widths7 == \A f \in Register : Width(f) \in 1 .. 8
BY DEF Register, Width

LEMMA CarriedIn ==
  \A t \in Supported : Carried(t) \subseteq Register /\ \A f \in Carried(t) : Place(t, f) \in 1 .. 32
<1>1. SUFFICES ASSUME NEW t \in Supported, NEW f \in Carried(t)
               PROVE  f \in Register /\ Place(t, f) \in 1 .. 32
  OBVIOUS
<1>2. f \in Register
  BY DEF Carried, Ordered, Supported, Register, AddLike
<1> QED
  BY <1>2 DEF Register, Place

\* The register that takes a byte inside a message.
LEMMA Takes ==
  ASSUME byte_cnt \in Nat \ {0}, msg_type_r \in Supported, NEW f \in Carried(msg_type_r)
  PROVE  target = f <=> byte_cnt \in Place(msg_type_r, f) .. Place(msg_type_r, f) + Width(f) - 1
<1> DEFINE b == byte_cnt
           t == msg_type_r
<1> b \in Nat \ {0}
  OBVIOUS
<1>1. CASE b < 19
  <2>1. target = IF b \in 1 .. 2 THEN "locate" ELSE IF b \in 5 .. 10 THEN "timestamp"
                 ELSE IF b \in 11 .. 18 THEN "ref" ELSE "none"
    BY <1>1 DEF target
  <2>2. f \in Register /\ (f \notin {"locate", "timestamp", "ref"} => Place(t, f) >= 19)
    BY CarriedIn DEF Register, Place
  <2> QED
    BY <1>1, <2>1, <2>2 DEF Place, Width, Register
<1>2. CASE b >= 19 /\ t \in AddLike
  <2>1. target = IF b \in 19 .. 19 THEN "side" ELSE IF b \in 20 .. 23 THEN "shares"
                 ELSE IF b \in 32 .. 35 THEN "price" ELSE "none"
    BY <1>2 DEF target
  <2> QED
    BY <1>2, <2>1 DEF Place, Width, Carried, Ordered, AddLike
<1>3. CASE b >= 19 /\ t = "U"
  <2>1. target = IF b \in 19 .. 26 THEN "new_ref" ELSE IF b \in 27 .. 30 THEN "shares"
                 ELSE IF b \in 31 .. 34 THEN "price" ELSE "none"
    BY <1>3 DEF target, AddLike
  <2> QED
    BY <1>3, <2>1 DEF Place, Width, Carried, Ordered, AddLike
<1>4. CASE b >= 19 /\ t \notin AddLike /\ t # "U"
  <2>1. target = IF b \in 19 .. 22 THEN "shares"
                 ELSE IF t = "C" /\ b \in 32 .. 35 THEN "price" ELSE "none"
    BY <1>4 DEF target
  <2> QED
    BY <1>4, <2>1 DEF Place, Width, Carried, Ordered, AddLike, Supported
<1> QED
  BY <1>1, <1>2, <1>3, <1>4

LEMMA TakesNone == ASSUME byte_cnt = 0 PROVE target = "none"
BY DEF target

\* A byte more in a register that holds the first n of a field.
LEMMA ShiftIn ==
  ASSUME NEW z \in 1 .. 8, NEW r \in Seq(RegByte), Len(r) = z, NEW k, NEW f, NEW n \in 0 .. z - 1,
         NEW e \in RegByte, e = <<k, f, n + 1>>, Holds(r, z, k, f, n)
  PROVE  Holds(Append(Tail(r), e), z, k, f, n + 1)
<1> DEFINE q == Tail(r)
           m == z - 1
<1>1. q \in Seq(RegByte) /\ Len(q) = m /\ m \in Nat /\ \A i \in 1 .. m : q[i] = r[i + 1]
  OBVIOUS
<1> HIDE DEF q
<1>2. /\ Append(q, e)[m + 1] = e
      /\ \A i \in 1 .. m : Append(q, e)[i] = q[i]
  BY <1>1, AppendedTo
<1>3. ASSUME NEW j \in 1 .. n + 1 PROVE Append(q, e)[z - (n + 1) + j] = <<k, f, j>>
  <2> DEFINE i == z - (n + 1) + j
  <2>1. CASE j = n + 1
    <3>1. i = m + 1
      BY <2>1
    <3> HIDE DEF i, m
    <3> QED
      BY <1>2, <2>1, <3>1 DEF i
  <2>2. CASE j # n + 1
    <3>1. j \in 1 .. n /\ i \in 1 .. m /\ i + 1 = z - n + j
      BY <2>2
    <3>2. Append(q, e)[i] = r[i + 1]
      <4> HIDE DEF i, m
      <4> QED
        BY <1>1, <1>2, <3>1
    <3>3. r[z - n + j] = <<k, f, j>>
      BY <3>1 DEF Holds
    <3> HIDE DEF i
    <3> QED
      BY <3>1, <3>2, <3>3 DEF i
  <2> QED
    BY <2>1, <2>2
<1> QED
  BY <1>3 DEF Holds, q

LEMMA TargetIn == target \in Register \cup {"none"}
BY DEF target, Register

\* The registers after a byte.
LEMMA Shifted ==
  ASSUME ParserType, NEW byte \in RegByte
  PROVE  /\ nxt(byte) \in [Register -> Seq(RegByte)]
         /\ \A f \in Register : /\ Len(nxt(byte)[f]) = Width(f)
                                /\ nxt(byte)[f] = IF target = f THEN Append(Tail(sr[f]), byte) ELSE sr[f]
<1>1. \A f \in Register : sr[f] \in Seq(RegByte) /\ Len(sr[f]) = Width(f) /\ Width(f) \in 1 .. 8
  BY Widths7 DEF ParserType
<1>2. ASSUME NEW f \in Register
      PROVE  Append(Tail(sr[f]), byte) \in Seq(RegByte) /\ Len(Append(Tail(sr[f]), byte)) = Width(f)
  <2> DEFINE r == sr[f]
             z == Width(f)
  <2>1. r \in Seq(RegByte) /\ Len(r) = z /\ z \in 1 .. 8
    BY <1>1
  <2> HIDE DEF r, z
  <2>2. Tail(r) \in Seq(RegByte) /\ Len(Tail(r)) = z - 1
    BY <2>1
  <2>3. Append(Tail(r), byte) \in Seq(RegByte) /\ Len(Append(Tail(r), byte)) = z - 1 + 1
    BY <2>1, <2>2, AppendedTo
  <2> QED
    BY <2>1, <2>3 DEF r, z
<1>3. CASE target = "none"
  <2>1. nxt(byte) = sr /\ "none" \notin Register
    BY <1>3 DEF nxt, Register
  <2> QED
    BY <1>1, <1>3, <2>1 DEF ParserType
<1>4. CASE target # "none"
  <2>1. target \in Register
    BY <1>4, TargetIn
  <2>2. nxt(byte) = [sr EXCEPT ![target] = Append(Tail(sr[target]), byte)]
    BY <1>4 DEF nxt
  <2>3. sr \in [Register -> Seq(RegByte)]
    BY DEF ParserType
  <2> QED
    BY <1>1, <1>2, <2>1, <2>2, <2>3
<1> QED
  BY <1>3, <1>4

\* The byte goes where its field is, and the fields fill up byte by byte.
LEMMA FilledStep ==
  ASSUME ParserType, NEW t \in Supported, NEW k \in Nat, NEW p \in Nat, p > 1, p <= Length[t],
         byte_cnt = p - 1, msg_type_r = t, Filled(sr, k, t, p - 1)
  PROVE  Filled(nxt(Frame(k, t)[p]), k, t, p)
<1> DEFINE e == Frame(k, t)[p]
<1>0. t \in MsgType
  BY DEF MsgType
<1>1. Framed(k, t)
  BY <1>0, Frames
<1>2. e \in RegByte
  <2>1. Frame(k, t) \in Seq({k} \X FieldName \X Nat) /\ p \in 1 .. Len(Frame(k, t))
    BY <1>0, <1>1, Lengths DEF Framed
  <2>2. e \in {k} \X FieldName \X Nat
    BY <2>1, ElementOfSeq
  <2> QED
    BY <2>2 DEF RegByte
<1>3. ASSUME NEW f \in Carried(t)
      PROVE  Holds(nxt(e)[f], Width(f), k, f, Got(p, Place(t, f), Width(f)))
  <2> DEFINE a == Place(t, f)
             z == Width(f)
             r == sr[f]
  <2>1. f \in Register /\ a \in 1 .. 32 /\ z \in 1 .. 8
    BY CarriedIn, Widths7
  <2>2. Holds(r, z, k, f, Got(p - 1, a, z))
    BY DEF Filled
  <2>3. r \in Seq(RegByte) /\ Len(r) = z
    BY <2>1 DEF ParserType
  <2>4. target = f <=> p - 1 \in a .. a + z - 1
    BY Takes
  <2>5. nxt(e)[f] = IF target = f THEN Append(Tail(r), e) ELSE r
    BY <1>2, <2>1, Shifted
  <2>6. Bytes(k, t, f, a, z)
    BY <1>1 DEF Framed
  <2> HIDE DEF a, z, r, e
  <2>7. CASE p - 1 \in a .. a + z - 1
    <3> DEFINE n == p - 1 - a
    <3>1. n \in 0 .. z - 1 /\ Got(p - 1, a, z) = n /\ Got(p, a, z) = n + 1 /\ p = a + (n + 1)
      BY <2>1, <2>7 DEF Got
    <3>2. e = <<k, f, n + 1>>
      <4> HIDE DEF n
      <4>1. n + 1 \in 1 .. z
        BY <2>1, <3>1
      <4> QED
        BY <2>6, <3>1, <4>1 DEF Bytes, e
    <3> HIDE DEF n
    <3>3. Holds(r, z, k, f, n)
      BY <2>2, <3>1
    <3>4. Holds(Append(Tail(r), e), z, k, f, n + 1)
      BY <1>2, <2>1, <2>3, <3>1, <3>2, <3>3, ShiftIn
    <3> QED
      BY <2>4, <2>5, <2>7, <3>1, <3>4 DEF a, z, e
  <2>8. CASE p - 1 \notin a .. a + z - 1
    <3>1. Got(p - 1, a, z) = Got(p, a, z)
      BY <2>1, <2>8 DEF Got
    <3> QED
      BY <2>2, <2>4, <2>5, <2>8, <3>1 DEF a, z, e
  <2> QED
    BY <2>7, <2>8
<1> QED
  BY <1>3 DEF Filled

\* Registers that are full give the message as it was sent.
LEMMA CapturedIs ==
  ASSUME NEW t \in Supported, NEW k \in Nat, msg_type_r = t,
         NEW r \in [Register -> Seq(RegByte)], \A f \in Register : Len(r[f]) = Width(f),
         Filled(r, k, t, Length[t])
  PROVE  captured(r) \in Message /\ Decoded(captured(r), k, t)
<1>0. t \in MsgType /\ Framed(k, t)
  BY Frames DEF MsgType
<1>1. ASSUME NEW f \in Carried(t) PROVE r[f] = Field(k, <<f, Width(f)>>)
  <2> DEFINE a == Place(t, f)
             z == Width(f)
             q == r[f]
  <2>1. f \in Register /\ a \in 1 .. 32 /\ z \in 1 .. 8
    BY CarriedIn, Widths7
  <2>2. a + z <= Length[t] /\ Length[t] \in Nat
    BY <1>0, Lengths DEF Framed
  <2>3. Holds(q, z, k, f, Got(Length[t], a, z))
    BY DEF Filled
  <2>4. q \in Seq(RegByte) /\ Len(q) = z
    BY <2>1
  <2> HIDE DEF a, z, q
  <2>5. Got(Length[t], a, z) = z
    BY <2>1, <2>2 DEF Got
  <2>6. \A j \in 1 .. z : q[j] = <<k, f, j>>
    <3>1. \A j \in 1 .. z : z - z + j = j
      BY <2>1
    <3> QED
      BY <2>3, <2>5, <3>1 DEF Holds
  <2>7. q = [j \in 1 .. z |-> <<k, f, j>>]
    <3>1. q = [j \in 1 .. z |-> q[j]]
      BY <2>1, <2>4
    <3> QED
      BY <2>6, <3>1
  <2> QED
    BY <2>7 DEF Field, q, z
<1>2. /\ r["locate"] = Field(k, <<"locate", 2>>) /\ r["timestamp"] = Field(k, <<"timestamp", 6>>)
      /\ r["ref"] = Field(k, <<"ref", 8>>)
  BY <1>1 DEF Carried, Ordered, Width, Supported, AddLike
<1>3. /\ t \in AddLike => r["side"] = Field(k, <<"side", 1>>)
      /\ t = "U" => r["new_ref"] = Field(k, <<"new_ref", 8>>)
      /\ t # "D" => r["shares"] = Field(k, <<"shares", 4>>)
      /\ t \in AddLike \cup {"C", "U"} => r["price"] = Field(k, <<"price", 4>>)
  BY <1>1 DEF Carried, Ordered, Width, Supported, AddLike
<1>4. Decoded(captured(r), k, t)
  BY <1>2, <1>3 DEF captured, Decoded
<1>5. captured(r) \in Message
  <2>1. \A f \in Register : r[f] \in Seq(RegByte)
    OBVIOUS
  <2>2. Absent \in Seq(RegByte)
    BY DEF Absent
  <2> QED
    BY <1>0, <2>1, <2>2 DEF captured, Message, Register
<1> QED
  BY <1>4, <1>5

\* A sequence is its front and its last element.
LEMMA FrontLast ==
  ASSUME NEW S, NEW s \in Seq(S), s # <<>>
  PROVE  /\ Len(s) \in Nat \ {0} /\ Front(s) \in Seq(S) /\ Len(Front(s)) = Len(s) - 1
         /\ Last(s) \in S /\ Append(Front(s), Last(s)) = s
<1> DEFINE n == Len(s)
           q == Front(s)
           e == Last(s)
<1>1. n \in Nat \ {0} /\ e = s[n] /\ e \in S
  BY EmptySeq DEF Last
<1>2. q \in Seq(S) /\ Len(q) = n - 1 /\ \A i \in 1 .. n - 1 : q[i] = s[i]
  <2> DEFINE m == n - 1
  <2>1. m \in Nat /\ (\A i \in 1 .. m : s[i] \in S) /\ q = SubSeq(s, 1, m)
    BY <1>1 DEF Front
  <2> HIDE DEF m, q, n, e
  <2>2. /\ q \in Seq(S) /\ Len(q) = (IF 1 <= m THEN m - 1 + 1 ELSE 0)
        /\ \A i \in 1 .. m - 1 + 1 : q[i] = s[1 + i - 1]
    <3>1. 1 \in Int /\ m \in Int /\ \A i \in 1 .. m : s[i] \in S
      BY ONLY <2>1
    <3>2. /\ SubSeq(s, 1, m) \in Seq(S) /\ Len(SubSeq(s, 1, m)) = (IF 1 <= m THEN m - 1 + 1 ELSE 0)
          /\ \A i \in 1 .. m - 1 + 1 : SubSeq(s, 1, m)[i] = s[1 + i - 1]
      BY ONLY <3>1, SubSeqProperties
    <3> QED
      BY ONLY <2>1, <3>2, Zenon
  <2> QED
    BY <2>1, <2>2 DEF m
<1> HIDE DEF q, e, n
<1> DEFINE m == n - 1
           c == Append(q, e)
<1>3. /\ c \in Seq(S) /\ Len(c) = m + 1 /\ c[m + 1] = e
      /\ \A i \in 1 .. m : c[i] = q[i]
  <2>1. Len(q) = m /\ m \in Nat
    BY <1>1, <1>2
  <2> HIDE DEF m
  <2> QED
    BY <1>1, <1>2, <2>1, AppendedTo
<1>4. c = s
  <2>1. Len(s) = n
    BY DEF n
  <2>2. \A i \in 1 .. n : c[i] = s[i]
    <3> HIDE DEF c
    <3> QED
      BY <1>1, <1>2, <1>3
  <2> HIDE DEF c
  <2> QED
    BY <1>1, <1>3, <2>1, <2>2, SeqEqual
<1> QED
  BY <1>1, <1>2, <1>4 DEF n, q, e

LEMMA FrontOfAppend ==
  ASSUME NEW S, NEW s \in Seq(S), NEW e \in S
  PROVE  /\ Append(s, e) \in Seq(S) /\ Append(s, e) # <<>> /\ Len(Append(s, e)) = Len(s) + 1
         /\ Last(Append(s, e)) = e /\ Front(Append(s, e)) = s
<1> DEFINE n == Len(s)
           c == Append(s, e)
           q == Front(c)
<1>1. n \in Nat
  OBVIOUS
<1>2. c \in Seq(S) /\ Len(c) = n + 1 /\ c[n + 1] = e /\ \A i \in 1 .. n : c[i] = s[i]
  BY <1>1, AppendedTo
<1>3. c # <<>>
  BY <1>1, <1>2
<1> HIDE DEF c, n
<1>4. q \in Seq(S) /\ Len(q) = n /\ \A i \in 1 .. n : q[i] = c[i]
  BY <1>1, <1>2 DEF Front
<1>5. q = s
  <2> HIDE DEF q
  <2> QED
    BY <1>1, <1>2, <1>4, SeqEqual DEF n
<1>6. Last(c) = e
  BY <1>2 DEF Last
<1> QED
  BY <1>2, <1>3, <1>5, <1>6 DEF c, n

\* What the next byte does to the stream.
LEMMA StreamStep ==
  ASSUME types \in Seq(MsgType), pos \in Nat, Position, NEW k, NEW t, NEW p, NextByte(k, t, p),
         pos' = p, types' = IF p = 1 THEN Append(types, t) ELSE types
  PROVE  /\ types' \in Seq(MsgType) /\ types' # <<>> /\ Len(types') = k /\ Last(types') = t
         /\ t \in MsgType /\ k \in Nat /\ p \in 1 .. Length[t] /\ p \in Nat
         /\ Between' <=> p = Length[t]
         /\ Complete \in Seq(MsgType) /\ k = Len(Complete) + 1
         /\ Complete' = IF p = Length[t] THEN Append(Complete, t) ELSE Complete
<1>0. t \in MsgType /\ Length[t] \in Nat /\ Length[t] >= 12
  <2>1. t \in MsgType
    BY DEF NextByte
  <2> DEFINE l == Length[t]
  <2>2. l \in Nat /\ 12 <= l /\ l <= 50
    BY <2>1, LengthBounds
  <2> HIDE DEF l
  <2>3. l \in Nat /\ l >= 12
    BY <2>2
  <2> QED
    BY <2>1, <2>3 DEF l
<1>1. CASE Between
  <2>1. k = Len(types) + 1 /\ p = 1 /\ Complete = types /\ types' = Append(types, t)
    BY <1>1 DEF NextByte, Complete
  <2>2. /\ types' \in Seq(MsgType) /\ types' # <<>> /\ Len(types') = k
        /\ Last(types') = t /\ Front(types') = types
    BY <1>0, <2>1, FrontOfAppend
  <2>3. ~Between' /\ 1 # Length[t] /\ 1 \in 1 .. Length[t]
    <3>1. 1 # Length[t] /\ 1 \in 1 .. Length[t]
      BY <1>0
    <3>2. pos' = 1 /\ types' # <<>> /\ Last(types') = t
      BY <2>1, <2>2
    <3> HIDE DEF Length
    <3> QED
      BY <3>1, <3>2 DEF Between
  <2>4. Complete' = types
    BY <2>2, <2>3 DEF Complete
  <2>5. Len(types) \in Nat
    OBVIOUS
  <2> QED
    BY <1>0, <2>1, <2>2, <2>3, <2>4, <2>5
<1>2. CASE ~Between
  <2>1. k = Len(types) /\ t = Last(types) /\ p = pos + 1 /\ types # <<>> /\ Complete = Front(types)
    BY <1>2 DEF NextByte, Complete, Between
  <2>2. pos \in 1 .. Length[t] /\ pos # Length[t]
    BY <1>2, <2>1 DEF Position, Between
  <2>3. types' = types
    BY <2>1, <2>2
  <2>4. /\ Len(types) \in Nat \ {0} /\ Front(types) \in Seq(MsgType)
        /\ Len(Front(types)) = Len(types) - 1 /\ Append(Front(types), t) = types
    BY <2>1, FrontLast
  <2>5. Between' <=> p = Length[t]
    BY <2>1, <2>3 DEF Between
  <2>6. Complete' = IF p = Length[t] THEN types ELSE Front(types)
    BY <2>1, <2>3, <2>5 DEF Complete
  <2> QED
    BY <1>0, <2>1, <2>2, <2>3, <2>4, <2>5, <2>6
<1> QED
  BY <1>1, <1>2

\* A message more in the stream: what was delivered is of the same messages.
LEMMA DeliverySkip ==
  ASSUME NEW got, NEW ts \in Seq(MsgType), NEW t \in MsgType \ Supported, Delivery(got, ts)
  PROVE  Delivery(got, Append(ts, t))
<1> DEFINE c == Append(ts, t)
           of == supported(ts)
           n == Len(ts)
<1>1. n \in Nat /\ Len(c) = n + 1 /\ \A i \in 1 .. n : c[i] = ts[i]
  BY AppendedTo
<1>2. supported(c) = of
  BY OneMore
<1>3. Len(got) = Len(of) /\ of \in Seq(1 .. n)
  BY DEF Delivery
<1>4. \A i \in 1 .. Len(got) : ts[of[i]] \in Supported /\ Decoded(got[i], of[i], ts[of[i]])
  BY DEF Delivery
<1> HIDE DEF c, of, n
<1>5. of \in Seq(1 .. n + 1)
  <2>1. 1 .. n \subseteq 1 .. n + 1
    BY <1>1
  <2> QED
    BY <1>3, <2>1, SeqMonotonic
<1>6. \A i \in 1 .. Len(got) : of[i] \in 1 .. n
  BY <1>3, ElementOfSeq
<1>7. \A i \in 1 .. Len(got) : c[of[i]] = ts[of[i]]
  BY <1>1, <1>6
<1> QED
  BY <1>1, <1>2, <1>3, <1>4, <1>5, <1>7 DEF Delivery, c

LEMMA DeliveryMore ==
  ASSUME NEW M, NEW got \in Seq(M), NEW ts \in Seq(MsgType), NEW t \in Supported, Delivery(got, ts),
         NEW m \in M, Decoded(m, Len(ts) + 1, t)
  PROVE  Delivery(Append(got, m), Append(ts, t))
<1> DEFINE c == Append(ts, t)
           of == supported(ts)
           n == Len(ts)
           l == Len(got)
           g == Append(got, m)
           q == Append(of, n + 1)
<1>0. t \in MsgType
  BY DEF MsgType
<1>1. n \in Nat /\ Len(c) = n + 1 /\ c[n + 1] = t /\ \A i \in 1 .. n : c[i] = ts[i]
  BY <1>0, AppendedTo
<1>2. supported(c) = q
  BY <1>0, OneMore
<1>3. l = Len(of) /\ of \in Seq(1 .. n)
  BY DEF Delivery
<1>4. \A i \in 1 .. l : ts[of[i]] \in Supported /\ Decoded(got[i], of[i], ts[of[i]])
  BY DEF Delivery
<1>5. l \in Nat /\ Len(g) = l + 1 /\ g[l + 1] = m /\ \A i \in 1 .. l : g[i] = got[i]
  BY AppendedTo
<1>6. Decoded(m, n + 1, t)
  OBVIOUS
<1> HIDE DEF c, of, n, l, g, q
<1>7. of \in Seq(1 .. n + 1) /\ n + 1 \in 1 .. n + 1
  <2>1. 1 .. n \subseteq 1 .. n + 1 /\ n + 1 \in 1 .. n + 1
    BY <1>1
  <2> QED
    BY <1>3, <2>1, SeqMonotonic
<1>8. q \in Seq(1 .. n + 1) /\ Len(q) = l + 1 /\ q[l + 1] = n + 1 /\ \A i \in 1 .. l : q[i] = of[i]
  <2> DEFINE S == 1 .. n + 1
             e == n + 1
  <2>1. of \in Seq(S) /\ e \in S /\ l \in Nat /\ Len(of) = l /\ q = Append(of, e)
    BY <1>3, <1>5, <1>7 DEF q
  <2> HIDE DEF S, e
  <2>2. q \in Seq(S) /\ Len(q) = l + 1 /\ q[l + 1] = e /\ \A i \in 1 .. l : q[i] = of[i]
    BY <2>1, AppendedTo
  <2> QED
    BY <2>2 DEF S, e
<1>9. \A i \in 1 .. l : of[i] \in 1 .. n
  BY <1>3, ElementOfSeq
<1>10. ASSUME NEW i \in 1 .. l + 1 PROVE c[q[i]] \in Supported /\ Decoded(g[i], q[i], c[q[i]])
  <2>1. CASE i = l + 1
    BY <1>1, <1>5, <1>6, <1>8, <2>1
  <2>2. CASE i # l + 1
    <3>1. i \in 1 .. l
      BY <1>5, <2>2
    <3>2. q[i] = of[i] /\ g[i] = got[i] /\ c[q[i]] = ts[of[i]]
      BY <1>1, <1>5, <1>8, <1>9, <3>1
    <3> QED
      BY <1>4, <3>1, <3>2
  <2> QED
    BY <2>1, <2>2
<1>11. Delivery(g, c)
  <2>1. supported(c) = q /\ Len(g) = l + 1 /\ Len(q) = l + 1 /\ Len(c) = n + 1
    BY <1>1, <1>2, <1>5, <1>8
  <2> QED
    BY <1>8, <1>10, <2>1 DEF Delivery
<1> QED
  BY <1>11 DEF g, c

\* The invariant of the parser: at reset, and after any clock edge with the next byte.
LEMMA ParserInitInv == ParserInit => ParserInv
<1>1. SUFFICES ASSUME ParserInit PROVE ParserInv
  OBVIOUS
<1>2. ASSUME NEW n \in Nat PROVE Zeros(n) \in Seq(RegByte) /\ Len(Zeros(n)) = n
  <2>1. <<0, "reset", 0>> \in RegByte
    BY DEF RegByte
  <2> DEFINE e == <<0, "reset", 0>>
  <2> HIDE DEF e
  <2>2. Zeros(n) = [i \in 1 .. n |-> e]
    BY DEF Zeros, e
  <2> QED
    BY <2>1, <2>2 DEF e
<1>3. sr \in [Register -> Seq(RegByte)] /\ \A f \in Register : Len(sr[f]) = Width(f)
  <2>1. sr = [locate |-> Zeros(2), timestamp |-> Zeros(6), ref |-> Zeros(8), new_ref |-> Zeros(8),
              side |-> Zeros(1), shares |-> Zeros(4), price |-> Zeros(4)]
    BY <1>1 DEF ParserInit
  <2>2. \A n \in {1, 2, 4, 6, 8} : Zeros(n) \in Seq(RegByte) /\ Len(Zeros(n)) = n
    BY <1>2
  <2> QED
    BY <2>1, <2>2 DEF Register, Width
<1>4. types = <<>> /\ pos = 0 /\ m_valid = FALSE /\ taken = <<>> /\ byte_cnt = 0
  BY <1>1 DEF ParserInit
<1>5. Between /\ Complete = <<>> /\ Handed = <<>>
  BY <1>4 DEF Between, Complete, Handed
<1>6. Delivery(<<>>, <<>>)
  <2> DEFINE e == <<>>
  <2>1. Len(e) = 0 /\ e \in Seq(1 .. 0) /\ supported(e) = e
    BY NoneYet
  <2> HIDE DEF e
  <2>2. Len(e) = Len(supported(e)) /\ supported(e) \in Seq(1 .. Len(e)) /\ 1 .. Len(e) = {}
    BY <2>1
  <2>3. Delivery(e, e)
    BY <2>2 DEF Delivery
  <2> QED
    BY <2>3 DEF e
<1>7. ParserType
  <2>1. types \in Seq(MsgType) /\ taken \in Seq(Message)
    BY <1>4
  <2> QED
    BY <1>3, <1>4, <2>1 DEF ParserType
<1>8. Position /\ Filling
  BY <1>4, <1>5 DEF Position, Filling
<1> QED
  BY <1>5, <1>6, <1>7, <1>8 DEF ParserInv

LEMMA ParserStep ==
  ASSUME ParserInv, NEW tvalid \in BOOLEAN, NEW k, NEW t, NEW p, NEW m_ready \in BOOLEAN,
         tvalid => NextByte(k, t, p), Clock(tvalid, k, t, p, m_ready)
  PROVE  ParserInv'
<1> DEFINE rx == tvalid /\ s_axis_tready(m_ready)
           tlast == p = Length[t]
           byte == Frame(k, t)[p]
<1>0. ParserType /\ Position /\ Filling /\ Delivery(Handed, Complete)
  BY DEF ParserInv
<1>1. taken' = IF m_valid /\ m_ready THEN Append(taken, out) ELSE taken
  BY DEF Clock
<1>2. m_valid' = ((m_valid /\ ~m_ready) \/ (rx /\ tlast /\ msg_type_r \in Supported))
  BY DEF Clock
<1>3. taken' \in Seq(Message)
  BY <1>0, <1>1 DEF ParserType
<1>4. CASE ~rx
  <2>1. UNCHANGED <<sr, msg_type_r, byte_cnt, out, pos, types>> /\ m_valid' = (m_valid /\ ~m_ready)
    BY <1>2, <1>4 DEF Clock
  <2>2. Between' = Between /\ Complete' = Complete
    BY <2>1 DEF Between, Complete
  <2>3. Handed' = Handed
    BY <1>0, <1>1, <2>1 DEF Handed, ParserType
  <2>4. ParserType' /\ Position' /\ Filling'
    BY <1>0, <1>3, <2>1, <2>2 DEF ParserType, Position, Filling
  <2> QED
    BY <1>0, <2>2, <2>3, <2>4 DEF ParserInv
<1>5. CASE rx
  <2>1. /\ Receive(byte, t, tlast) /\ pos' = p /\ types' = IF p = 1 THEN Append(types, t) ELSE types
        /\ NextByte(k, t, p) /\ ~(m_valid /\ ~m_ready)
    BY <1>5 DEF Clock, s_axis_tready
  <2>2. /\ types' \in Seq(MsgType) /\ types' # <<>> /\ Len(types') = k /\ Last(types') = t
        /\ t \in MsgType /\ k \in Nat /\ p \in 1 .. Length[t] /\ p \in Nat
        /\ Between' <=> p = Length[t]
        /\ Complete \in Seq(MsgType) /\ k = Len(Complete) + 1
        /\ Complete' = IF p = Length[t] THEN Append(Complete, t) ELSE Complete
    BY <1>0, <2>1, StreamStep DEF ParserType
  <2>3. Framed(k, t) /\ Length[t] \in Nat /\ 12 <= Length[t] /\ Length[t] <= 50
    BY <2>2, Frames, LengthBounds
  <2>4. byte \in RegByte
    <3>1. Frame(k, t) \in Seq({k} \X FieldName \X Nat) /\ p \in 1 .. Len(Frame(k, t))
      BY <2>2, <2>3 DEF Framed
    <3>2. byte \in {k} \X FieldName \X Nat
      BY <3>1, ElementOfSeq
    <3> QED
      BY <2>2, <3>2 DEF RegByte
  <2> HIDE DEF byte
  <2>5. sr' = nxt(byte)
    BY <2>1 DEF Receive
  <2>6. byte_cnt = p - 1 /\ (p # 1 => msg_type_r = t /\ ~Between /\ Len(types) = k /\ Last(types) = t)
    <3>1. CASE Between
      BY <1>0, <2>1, <3>1 DEF Position, NextByte
    <3>2. CASE ~Between
      <4>1. pos \in Nat
        BY <1>0 DEF ParserType
      <4> QED
        BY <1>0, <2>1, <3>2, <4>1 DEF Position, NextByte
    <3> QED
      BY <3>1, <3>2
  <2>7. ParserType'
    <3>1. sr' \in [Register -> Seq(RegByte)] /\ \A f \in Register : Len(sr'[f]) = Width(f)
      BY <1>0, <2>4, <2>5, Shifted
    <3>2. m_valid' => out' \in Message
      <4>1. SUFFICES ASSUME m_valid' PROVE out' \in Message
        OBVIOUS
      <4>2. tlast /\ msg_type_r \in Supported /\ out' = captured(nxt(byte))
        BY <1>2, <2>1, <4>1 DEF Receive
      <4>3. nxt(byte) \in [Register -> Seq(RegByte)]
        BY <2>5, <3>1
      <4>4. \A f \in Register : nxt(byte)[f] \in Seq(RegByte)
        BY <4>3
      <4>5. Absent \in Seq(RegByte) /\ msg_type_r \in MsgType
        BY <4>2 DEF Absent, MsgType
      <4> HIDE DEF tlast
      <4> QED
        BY <4>2, <4>4, <4>5 DEF captured, Message, Register
    <3>3. m_valid' \in BOOLEAN
      BY <1>0, <1>2 DEF ParserType
    <3> QED
      BY <1>3, <2>1, <2>2, <3>1, <3>2, <3>3 DEF ParserType
  <2>8. Position'
    <3>1. byte_cnt' = IF tlast THEN 0 ELSE p % 64
      BY <2>1, <2>2, <2>6 DEF Receive
    <3>2. ~tlast => p % 64 = p
      <4> DEFINE l == Length[t]
      <4>1. p \in 1 .. l /\ l \in Nat /\ l <= 50
        BY <2>2, <2>3
      <4> HIDE DEF l
      <4> QED
        BY <4>1
    <3>3. msg_type_r' = t
      BY <2>1, <2>2, <2>6 DEF Receive
    <3> QED
      BY <2>1, <2>2, <3>1, <3>2, <3>3 DEF Position
  <2>9. t \in Supported => Filled(nxt(byte), k, t, p)
    <3>1. SUFFICES ASSUME t \in Supported PROVE Filled(nxt(byte), k, t, p)
      OBVIOUS
    <3>2. CASE p = 1
      <4>1. \A f \in Carried(t) : Got(p, Place(t, f), Width(f)) = 0
        BY <3>1, <3>2, CarriedIn DEF Got
      <4> QED
        BY <4>1 DEF Filled, Holds
    <3>3. CASE p # 1
      <4>1. Filled(sr, k, t, p - 1)
        <5>1. pos = p - 1
          BY <1>0, <2>1, <2>6, <3>3 DEF ParserType, NextByte
        <5> QED
          BY <1>0, <2>6, <3>1, <3>3, <5>1 DEF Filling
      <4>2. p > 1 /\ p <= Length[t]
        BY <2>2, <3>3
      <4> QED
        BY <1>0, <2>2, <2>6, <3>1, <3>3, <4>1, <4>2, FilledStep DEF byte
    <3> QED
      BY <3>2, <3>3
  <2>10. Filling'
    <3>1. Filled(nxt(byte), k, t, p) = Filled(sr', Len(types'), Last(types'), pos')
      BY <2>1, <2>2, <2>5
    <3> QED
      BY <2>1, <2>2, <2>5, <2>9 DEF Filling
  <2>11. Delivery(Handed', Complete')
    <3>1. taken' = Handed
      BY <1>0, <1>1, <2>1 DEF Handed, ParserType
    <3>2. CASE ~tlast
      <4>1. ~m_valid' /\ Complete' = Complete
        BY <1>2, <2>1, <2>2, <3>2
      <4> QED
        BY <1>0, <3>1, <4>1 DEF Handed
    <3>3. CASE tlast
      <4>1. msg_type_r = t /\ Complete' = Append(Complete, t)
        <5>1. p # 1
          BY <2>3, <3>3
        <5> QED
          BY <2>2, <2>6, <3>3, <5>1
      <4>2. CASE t \notin Supported
        <5>1. ~m_valid'
          BY <1>2, <2>1, <4>1, <4>2
        <5>2. Handed' = Handed
          BY <3>1, <5>1 DEF Handed
        <5> QED
          BY <1>0, <2>2, <4>1, <4>2, <5>2, DeliverySkip
      <4>3. CASE t \in Supported
        <5> DEFINE m == captured(nxt(byte))
        <5>1. m_valid' /\ out' = m
          BY <1>2, <1>5, <2>1, <3>3, <4>1, <4>3 DEF Receive
        <5>2. Handed' = Append(Handed, m)
          BY <3>1, <5>1 DEF Handed
        <5>3. m \in Message /\ Decoded(m, k, t)
          <6> DEFINE r == nxt(byte)
          <6>1. r \in [Register -> Seq(RegByte)] /\ \A f \in Register : Len(r[f]) = Width(f)
            BY <1>0, <2>4, Shifted
          <6>2. Filled(r, k, t, Length[t])
            BY <2>9, <3>3, <4>3
          <6> HIDE DEF r
          <6>3. captured(r) \in Message /\ Decoded(captured(r), k, t)
            BY <2>2, <4>1, <4>3, <6>1, <6>2, CapturedIs
          <6> QED
            BY <6>3 DEF r
        <5> HIDE DEF m
        <5>4. Delivery(Append(Handed, m), Append(Complete, t))
          <6>1. Handed \in Seq(Message) /\ Decoded(m, Len(Complete) + 1, t)
            BY <1>3, <2>2, <3>1, <5>3
          <6> QED
            BY <1>0, <2>2, <4>3, <5>3, <6>1, DeliveryMore
        <5> QED
          BY <4>1, <5>2, <5>4
      <4> QED
        BY <4>2, <4>3
    <3> QED
      BY <3>2, <3>3
  <2> QED
    BY <2>7, <2>8, <2>10, <2>11 DEF ParserInv
<1> QED
  BY <1>4, <1>5

\* The reference parser on a message: the fields as they were given.
Parsed(m, k, t) ==
  /\ DOMAIN m = {"type", "timestamp", "ref", "new_ref", "side", "shares", "price"}
  /\ m.type = t /\ m.timestamp = Field(k, <<"timestamp", 6>>) /\ m.ref = Field(k, <<"ref", 8>>)
  /\ m.new_ref = IF t = "U" THEN Field(k, <<"new_ref", 8>>) ELSE Field(k, <<"ref", 8>>)
  /\ m.side = IF t \in AddLike THEN Field(k, <<"side", 1>>) ELSE Absent
  /\ m.shares = IF t # "D" THEN Field(k, <<"shares", 4>>) ELSE Absent
  /\ m.price = IF t \in AddLike \cup {"C", "U"} THEN Field(k, <<"price", 4>>) ELSE Absent

\* A slice of a frame is the field that lies there.
LEMMA SliceOf ==
  ASSUME NEW k, NEW t, NEW f, NEW from \in Nat, NEW z \in Nat, Bytes(k, t, f, from, z),
         NEW B, Frame(k, t) \in Seq(B), from + z <= Len(Frame(k, t))
  PROVE  Slice(Frame(k, t), from, from + z) = Field(k, <<f, z>>)
<1> DEFINE raw == Frame(k, t)
<1>0. raw \in Seq(B) /\ from + z <= Len(raw) /\ \A j \in 1 .. z : raw[from + j] = <<k, f, j>>
  BY DEF Bytes
<1> HIDE DEF raw
<1> DEFINE a == from + 1
           to == from + z
           q == SubSeq(raw, a, to)
<1>1. \A i \in a .. to : raw[i] \in B
  <2>1. \A i \in a .. to : i \in 1 .. Len(raw)
    BY <1>0
  <2> QED
    BY <1>0, <2>1, ElementOfSeq
<1>2. /\ a \in Int /\ to \in Int /\ to - a + 1 = z /\ (a <= to => to - a + 1 = z) /\ (~(a <= to) => z = 0)
      /\ \A i \in 1 .. z : a + i - 1 = from + i
  OBVIOUS
<1> HIDE DEF a, to
<1>3. q \in Seq(B) /\ Len(q) = z /\ \A i \in 1 .. z : q[i] = raw[from + i]
  <2>1. /\ q \in Seq(B) /\ Len(q) = (IF a <= to THEN to - a + 1 ELSE 0)
        /\ \A i \in 1 .. to - a + 1 : q[i] = raw[a + i - 1]
    BY <1>1, <1>2, SubSeqProperties
  <2> HIDE DEF q
  <2> QED
    BY <1>2, <2>1
<1> HIDE DEF q
<1>4. q = [i \in 1 .. z |-> <<k, f, i>>]
  <2>1. q = [i \in 1 .. z |-> q[i]]
    BY <1>3
  <2>2. \A i \in 1 .. z : q[i] = <<k, f, i>>
    BY <1>0, <1>3
  <2> QED
    BY <2>1, <2>2
<1> QED
  BY <1>4 DEF Slice, Field, q, a, to, raw

LEMMA SliceIs ==
  ASSUME NEW k, NEW t \in Supported, NEW f \in Carried(t), NEW from, NEW to,
         from = Place(t, f), to = from + Width(f)
  PROVE  Slice(Frame(k, t), from, to) = Field(k, <<f, Width(f)>>)
<1> DEFINE raw == Frame(k, t)
           B == {k} \X FieldName \X Nat
           a == Place(t, f)
           z == Width(f)
<1>1. t \in MsgType /\ Framed(k, t) /\ f \in Register
  BY Frames, CarriedIn DEF MsgType
<1>2. raw \in Seq(B) /\ Len(raw) = Length[t] /\ a + z <= Length[t] /\ Bytes(k, t, f, a, z)
  BY <1>1 DEF Framed
<1>3. a \in Nat /\ z \in Nat
  <2>1. a \in 1 .. 32 /\ z \in 1 .. 8
    BY <1>1, CarriedIn, Widths7
  <2> HIDE DEF a, z
  <2> QED
    BY <2>1
<1>4. from = a /\ to = a + z
  OBVIOUS
<1>5. a + z <= Len(raw)
  BY <1>2
<1> HIDE DEF B, z, a
<1>6. Slice(raw, a, a + z) = Field(k, <<f, z>>)
  BY <1>2, <1>3, <1>5, SliceOf
<1> QED
  BY <1>4, <1>6 DEF z

\* What the reference parser makes of a frame is what was given for it.
LEMMA ParsedIs ==
  ASSUME NEW k, NEW t \in Supported
  PROVE  Parsed(parse_message(t, Frame(k, t)), k, t)
<1> DEFINE at(from, to) == Slice(Frame(k, t), from, to)
<1>1. at(5, 11) = Field(k, <<"timestamp", 6>>) /\ at(11, 19) = Field(k, <<"ref", 8>>)
  <2>1. "timestamp" \in Carried(t) /\ "ref" \in Carried(t)
    BY DEF Carried, Ordered, Supported, AddLike
  <2>2. /\ Place(t, "timestamp") = 5 /\ Width("timestamp") = 6
        /\ Place(t, "ref") = 11 /\ Width("ref") = 8
    BY DEF Place, Width
  <2> QED
    BY <2>1, <2>2, SliceIs
<1>2. CASE t \in AddLike
  <2>1. "side" \in Carried(t) /\ "shares" \in Carried(t) /\ "price" \in Carried(t)
    BY <1>2 DEF Carried, Ordered, AddLike
  <2>2. /\ Place(t, "side") = 19 /\ Width("side") = 1 /\ Place(t, "shares") = 20
        /\ Width("shares") = 4 /\ Place(t, "price") = 32 /\ Width("price") = 4
    BY <1>2 DEF Place, Width, AddLike
  <2>3. /\ at(19, 20) = Field(k, <<"side", 1>>) /\ at(20, 24) = Field(k, <<"shares", 4>>)
        /\ at(32, 36) = Field(k, <<"price", 4>>)
    BY <2>1, <2>2, SliceIs
  <2> HIDE DEF at
  <2> QED
    BY <1>1, <1>2, <2>3 DEF parse_message, Parsed, at, AddLike
<1>3. CASE t = "U"
  <2>1. "new_ref" \in Carried(t) /\ "shares" \in Carried(t) /\ "price" \in Carried(t)
    BY <1>3 DEF Carried, Ordered, AddLike
  <2>2. /\ Place(t, "new_ref") = 19 /\ Width("new_ref") = 8 /\ Place(t, "shares") = 27
        /\ Width("shares") = 4 /\ Place(t, "price") = 31 /\ Width("price") = 4
    BY <1>3 DEF Place, Width, AddLike
  <2>3. /\ at(19, 27) = Field(k, <<"new_ref", 8>>) /\ at(27, 31) = Field(k, <<"shares", 4>>)
        /\ at(31, 35) = Field(k, <<"price", 4>>)
    BY <2>1, <2>2, SliceIs
  <2> HIDE DEF at
  <2> QED
    BY <1>1, <1>3, <2>3 DEF parse_message, Parsed, at, AddLike
<1>4. CASE t = "C"
  <2>1. "shares" \in Carried(t) /\ "price" \in Carried(t)
    BY <1>4 DEF Carried, Ordered, AddLike
  <2>2. /\ Place(t, "shares") = 19 /\ Width("shares") = 4
        /\ Place(t, "price") = 32 /\ Width("price") = 4
    BY <1>4 DEF Place, Width, AddLike
  <2>3. at(19, 23) = Field(k, <<"shares", 4>>) /\ at(32, 36) = Field(k, <<"price", 4>>)
    BY <2>1, <2>2, SliceIs
  <2> HIDE DEF at
  <2> QED
    BY <1>1, <1>4, <2>3 DEF parse_message, Parsed, at, AddLike
<1>5. CASE t \in {"X", "E"}
  <2>1. "shares" \in Carried(t) /\ Place(t, "shares") = 19 /\ Width("shares") = 4
    BY <1>5 DEF Carried, Ordered, AddLike, Place, Width
  <2>2. at(19, 23) = Field(k, <<"shares", 4>>)
    BY <2>1, SliceIs
  <2> HIDE DEF at
  <2> QED
    BY <1>1, <1>5, <2>2 DEF parse_message, Parsed, at, AddLike
<1>6. CASE t = "D"
  <2> HIDE DEF at
  <2> QED
    BY <1>1, <1>6 DEF parse_message, Parsed, at, AddLike
<1> QED
  BY <1>2, <1>3, <1>4, <1>5, <1>6 DEF Supported

LEMMA GivenFields ==
  ASSUME NEW k, NEW t \in Supported
  PROVE  /\ Given(k, t, "locate") = Field(k, <<"locate", 2>>)
         /\ Given(k, t, "ref") = Field(k, <<"ref", 8>>)
         /\ Given(k, t, "side") = IF t \in AddLike THEN Field(k, <<"side", 1>>) ELSE Absent
         /\ Given(k, t, "price") = IF t \in AddLike \cup {"C", "U"} THEN Field(k, <<"price", 4>>)
                                   ELSE Absent
         /\ Given(k, t, "shares") = IF t # "D" THEN Field(k, <<"shares", 4>>) ELSE Absent
<1>1. \A f \in Register : Given(k, t, f) = IF f \in Carried(t) THEN Field(k, <<f, Width(f)>>) ELSE Absent
  BY GivenIs
<1>2. /\ "locate" \in Register /\ "ref" \in Register /\ "side" \in Register
      /\ "price" \in Register /\ "shares" \in Register
      /\ Width("locate") = 2 /\ Width("ref") = 8 /\ Width("side") = 1
      /\ Width("price") = 4 /\ Width("shares") = 4
  BY DEF Register, Width
<1>3. /\ "locate" \in Carried(t) /\ "ref" \in Carried(t)
      /\ "side" \in Carried(t) <=> t \in AddLike
      /\ "price" \in Carried(t) <=> t \in AddLike \cup {"C", "U"}
      /\ "shares" \in Carried(t) <=> t # "D"
  BY DEF Carried, Ordered, Supported, AddLike
<1> QED
  BY <1>1, <1>2, <1>3

\* The invariant says what DeliveredExact says.
LEMMA ParserDelivers == ParserInv => DeliveredExact
<1>1. SUFFICES ASSUME ParserInv PROVE DeliveredExact
  OBVIOUS
<1> DEFINE got == taken \o (IF m_valid THEN <<out>> ELSE <<>>)
           ref == parse_stream(Complete)
           of == supported(Complete)
           l == Len(of)
<1>2. got = Handed
  <2>1. taken \in Seq(Message) /\ (m_valid => out \in Message)
    BY <1>1 DEF ParserInv, ParserType
  <2>2. taken \o <<>> = taken
    BY <2>1, ConcatEmptySeq
  <2>3. m_valid => Append(taken, out) = taken \o <<out>>
    BY <2>1, AppendIsConcat
  <2> QED
    BY <2>2, <2>3 DEF Handed
<1>3. /\ Len(Handed) = l /\ of \in Seq(1 .. Len(Complete)) /\ DOMAIN of = 1 .. l /\ l \in Nat
      /\ \A n \in 1 .. l : /\ Complete[of[n]] \in Supported
                           /\ Decoded(Handed[n], of[n], Complete[of[n]])
  BY <1>1 DEF ParserInv, Delivery
<1>4. ref = [n \in 1 .. l |-> parse_message(Complete[of[n]], Frame(of[n], Complete[of[n]]))]
  BY <1>3 DEF parse_stream
<1>5. DOMAIN ref = 1 .. l /\ Len(ref) = l
  BY <1>3, <1>4
<1> HIDE DEF got, ref, of, l
<1>6. ASSUME NEW n \in 1 .. l
      PROVE  /\ \A f \in DOMAIN ref[n] \ {"shares"} : got[n][f] = ref[n][f]
             /\ ref[n].type # "D" => got[n].shares = ref[n].shares
             /\ \A f \in {"locate", "ref", "side", "price"} :
                  got[n][f] = Given(of[n], ref[n].type, f)
             /\ ref[n].shares = Given(of[n], ref[n].type, "shares")
  <2> DEFINE k == of[n]
             t == Complete[k]
             m == ref[n]
             g == got[n]
  <2>1. t \in Supported /\ Decoded(g, k, t) /\ m = parse_message(t, Frame(k, t))
    BY <1>2, <1>3, <1>4
  <2> HIDE DEF k, t, m, g
  <2>2. Parsed(m, k, t)
    BY <2>1, ParsedIs
  <2>3. \A f \in DOMAIN m \ {"shares"} : g[f] = m[f]
    BY <2>1, <2>2 DEF Parsed, Decoded
  <2>4. m.type = t /\ (t # "D" => g.shares = m.shares)
    BY <2>1, <2>2 DEF Parsed, Decoded
  <2>5. /\ \A f \in {"locate", "ref", "side", "price"} : g[f] = Given(k, t, f)
        /\ m.shares = Given(k, t, "shares")
    BY <2>1, <2>2, GivenFields DEF Parsed, Decoded
  <2> QED
    BY <2>3, <2>4, <2>5 DEF m, g, k
<1> QED
  BY <1>2, <1>3, <1>5, <1>6 DEF DeliveredExact, got, ref, of
-----------------------------------------------------------------------------
(* The card.  The types of its records, then what each part holds of the others.*)

\* A byte on its way: message, type, place.  The states of the host and of a channel.
Beat == Nat \X MsgType \X Nat
PCs == {"clear", "poll", "push", "count", "decisions", "hist", "last", "done"}
Channel == {"idle", "fwd", "resp"}

\* The types of the five records.
HostType ==
  host \in [pc : PCs, k : Nat, t : MsgType \cup {"none"}, p : Nat, count : Nat,
            decisions : Seq(Int), hist : Seq(Int)]
BusType ==
  /\ bus = [op |-> bus.op, addr |-> bus.addr, data |-> bus.data, ar |-> bus.ar]
  /\ bus.op \in {"none", "write", "read"} /\ bus.ar \in BOOLEAN
ClType ==
  /\ cl.fifo \in Seq(Beat) /\ cl.dec \in Seq(Int) /\ cl.m_axis \in Nat /\ cl.rdata \in Int
  /\ cl.wst \in Channel /\ cl.rst_r \in Channel
  /\ cl.if_push \in BOOLEAN /\ cl.c_awvalid \in BOOLEAN /\ cl.c_wvalid \in BOOLEAN
  /\ cl.c_arvalid \in BOOLEAN /\ cl.dec_overflow \in BOOLEAN
LatType ==
  /\ lat.hist \in [Buckets -> Nat] /\ lat.age \in Nat /\ lat.delta_q \in Nat /\ lat.last \in Nat
  /\ lat.rdata \in Nat
  /\ lat.measuring \in BOOLEAN /\ lat.meas_valid_q \in BOOLEAN
  /\ lat.aw_active \in BOOLEAN /\ lat.bvalid \in BOOLEAN /\ lat.do_clear \in BOOLEAN
  /\ lat.ar_active \in BOOLEAN /\ lat.rvalid \in BOOLEAN
CoreType == core.risk_valid \in BOOLEAN /\ core.emitted \in Nat

\* Where the host is in its script.
HostInv ==
  /\ host.pc = "decisions" => Len(host.decisions) < host.count
  /\ host.pc \in {"hist", "last", "done"} => Len(host.decisions) = host.count
  /\ host.pc \in {"hist", "last", "done"} \/ host.hist = <<>>
  /\ host.pc \in {"decisions", "hist", "last", "done"} \/ host.decisions = <<>>
  /\ host.pc = "hist" => Len(host.hist) < HIST_BUCKETS
  /\ Len(host.hist) <= HIST_BUCKETS
  /\ host.count <= Len(cl.dec)

\* The bytes between the parser and the host: each follows the one before.
Follows(x, y) ==
  IF x[3] = Length[x[2]] THEN y[1] = x[1] + 1 /\ y[3] = 1
  ELSE y[1] = x[1] /\ y[2] = x[2] /\ y[3] = x[3] + 1

\* Where the parser is, the byte the host is at, and a queue of bytes between them.
ParserAt == IF types = <<>> THEN <<0, "S", Length["S"]>> ELSE <<Len(types), Last(types), pos>>
HostByte == <<host.k, host.t, host.p>>

Chain(a, q) ==
  /\ q # <<>> => Follows(a, q[1])
  /\ \A i \in 1 .. Len(q), j \in 1 .. Len(q) : j = i + 1 => Follows(q[i], q[j])

EndOf(a, q) == IF q = <<>> THEN a ELSE q[Len(q)]

\* The bytes between parser and host: the queue continues the parser's message, the host its end.
LineInv ==
  /\ Chain(ParserAt, cl.fifo) /\ Len(cl.fifo) <= IF_DEPTH
  /\ host.pc \in {"poll", "push"} =>
       /\ host.t \in MsgType /\ host.p \in 1 .. Length[host.t]
       /\ Follows(EndOf(ParserAt, cl.fifo), HostByte)
  /\ host.pc = "clear" => types = <<>> /\ cl.fifo = <<>> /\ host.k = 1 /\ host.p = 1
  /\ host.pc = "push" => Len(cl.fifo) < IF_DEPTH

\* Master and bridge: one transaction at a time, of the access the host is at.
AddrOf ==
  CASE host.pc = "clear" -> <<"clear", 0>>
    [] host.pc = "poll" -> <<"status", 0>>
    [] host.pc = "push" -> <<"push", 0>>
    [] host.pc = "count" -> <<"count", 0>>
    [] host.pc = "decisions" -> <<"dec", Len(host.decisions) + 1>>
    [] host.pc = "hist" -> <<"hist", Len(host.hist)>>
    [] host.pc = "last" -> <<"last", 0>>

BusInv ==
  /\ bus.op # "none" => host.pc # "done" /\ bus.addr = AddrOf
  /\ bus.op = "write" => host.pc \in {"clear", "push"}
  /\ bus.op = "read" => host.pc \notin {"clear", "push"}
  /\ bus.op = "write" /\ host.pc = "push" => bus.data = HostByte
  /\ bus.ar => bus.op = "read" /\ cl.rst_r = "idle"
  /\ cl.rst_r # "idle" => bus.op = "read"
  /\ cl.wst # "idle" => bus.op = "write"
  /\ cl.if_push <=> cl.wst = "resp" /\ host.pc = "push"
  /\ cl.wst = "fwd" => host.pc = "clear"
  /\ cl.rst_r = "fwd" => host.pc \in {"hist", "last"}

\* The bridge and the registers of the latency counter.
LatInv ==
  /\ cl.c_awvalid \/ cl.c_wvalid \/ lat.aw_active \/ lat.bvalid => cl.wst = "fwd"
  /\ cl.c_awvalid => cl.c_wvalid /\ ~lat.aw_active /\ ~lat.bvalid
  /\ lat.aw_active => cl.c_wvalid /\ ~lat.bvalid
  /\ lat.bvalid => ~cl.c_wvalid
  /\ lat.do_clear => lat.bvalid
  /\ cl.c_arvalid \/ lat.ar_active \/ lat.rvalid => cl.rst_r = "fwd"
  /\ cl.c_arvalid => ~lat.ar_active /\ ~lat.rvalid
  /\ lat.ar_active => ~lat.rvalid

\* What an answer under way says.
ReadInv ==
  /\ lat.rvalid /\ host.pc = "hist" => lat.rdata <= lat.hist[Len(host.hist)]
  /\ cl.rst_r = "resp" =>
       /\ host.pc = "poll" => cl.rdata = 1 \/ Len(cl.fifo) < IF_DEPTH
       /\ host.pc = "count" => cl.rdata \in 0 .. Len(cl.dec)
       /\ host.pc = "decisions" => cl.rdata = Len(host.decisions) + 1
       /\ host.pc = "hist" => cl.rdata <= lat.hist[Len(host.hist)]
  /\ \A n \in 1 .. Len(host.hist) : host.hist[n] <= lat.hist[n - 1]
  /\ host.decisions = [i \in 1 .. Len(host.decisions) |-> i]

One(b) == IF b THEN 1 ELSE 0

\* The decisions on their way into the capture.
CaptureInv ==
  /\ cl.m_axis # 0 => cl.m_axis = core.emitted - One(core.risk_valid)
  /\ In_flight <= core.emitted
  /\ cl.dec = [i \in 1 .. Len(cl.dec) |-> i]
  /\ Len(cl.dec) = Min({DEC_CAP, core.emitted - In_flight})
  /\ cl.dec_overflow <=> core.emitted - In_flight > DEC_CAP

\* The decision that is being registered counts as measured.
MeasureInv ==
  /\ Total(lat.hist) \in Nat
  /\ Total(lat.hist) + One(lat.meas_valid_q) + One(core.risk_valid) <= core.emitted
  /\ Total(lat.hist) + One(lat.meas_valid_q) + One(lat.measuring) <= Len(types)
  /\ lat.last # 0 => lat.hist[bucket(lat.last)] > 0

\* The invariant of the card.
CardInv ==
  /\ HostType /\ BusType /\ ClType /\ LatType /\ CoreType
  /\ HostInv /\ BusInv /\ LatInv /\ ReadInv /\ CaptureInv /\ MeasureInv

F1Inv == ParserInv /\ CardInv /\ (via = "ocl" => LineInv)
-----------------------------------------------------------------------------
(* What a clock edge does to each part, one fact per register.             *)

LatNext(start) ==
  /\ lat'.measuring = measuring_nxt(start)
  /\ lat'.age = IF start THEN 1 ELSE Min({lat.age + 1, HIST_BUCKETS})
  /\ lat'.meas_valid_q = (core.risk_valid /\ lat.measuring /\ ~lat.do_clear)
  /\ lat'.delta_q = lat.age
  /\ lat'.hist = hist_nxt
  /\ lat'.last = IF lat.do_clear THEN 0 ELSE IF lat.meas_valid_q THEN lat.delta_q ELSE lat.last
  /\ lat'.aw_active = ((lat.aw_active \/ aw) /\ ~w)
  /\ lat'.bvalid = (w \/ (lat.bvalid /\ cl.wst # "fwd"))
  /\ lat'.do_clear = (w /\ bus.addr[1] = "clear")
  /\ lat'.ar_active = ((lat.ar_active \/ (cl.c_arvalid /\ arready)) /\ ~present)
  /\ lat'.rvalid = (present \/ (lat.rvalid /\ cl.rst_r # "fwd"))
  /\ lat'.rdata = IF ~present THEN lat.rdata
                  ELSE IF bus.addr[1] = "hist" THEN lat.hist[bus.addr[2]] ELSE lat.last

LEMMA LatFields == ASSUME NEW start, Latency(start) PROVE LatNext(start)
BY DEF Latency, LatNext

ClNext(pop) ==
  /\ cl'.fifo = ififo(pop)
  /\ cl'.if_push = (write_start /\ bus.addr[1] = "push")
  /\ cl'.wst = wst_nxt
  /\ cl'.c_awvalid = ((cl.c_awvalid /\ ~aw) \/ (write_start /\ is_low(bus.addr)))
  /\ cl'.c_wvalid = ((cl.c_wvalid /\ ~w) \/ (write_start /\ is_low(bus.addr)))
  /\ cl'.rst_r = rst_r_nxt
  /\ cl'.c_arvalid = ((cl.c_arvalid /\ ~arready) \/ (read_start /\ is_low(bus.addr)))
  /\ cl'.rdata = rdata_nxt
  /\ cl'.m_axis = IF core.risk_valid THEN core.emitted ELSE 0
  /\ LET captures == cl.m_axis # 0 /\ Len(cl.dec) < DEC_CAP
     IN  /\ cl'.dec = IF captures THEN Append(cl.dec, cl.m_axis) ELSE cl.dec
         /\ cl'.dec_overflow = (cl.dec_overflow \/ (cl.m_axis # 0 /\ ~captures))

LEMMA ClFields == ASSUME NEW pop, Bridge(pop) PROVE ClNext(pop)
BY DEF Bridge, ClNext

\* The host begins an access, ends one, or waits.
Begins ==
  /\ bus.op = "none" /\ host.pc # "done" /\ host' = host
  /\ bus'.addr = AddrOf
  /\ IF host.pc \in {"clear", "push"}
       THEN bus'.op = "write" /\ bus'.ar = FALSE /\ (host.pc = "push" => bus'.data = HostByte)
       ELSE bus'.op = "read" /\ bus'.ar = TRUE

Answered == \/ bus.op = "write" /\ cl.wst = "resp"
            \/ bus.op = "read" /\ ~bus.ar /\ cl.rst_r = "resp"

Ends(t) == Answered /\ bus'.op = "none" /\ bus'.ar = bus.ar /\ host' = proceed(cl.rdata, t)

Waits ==
  /\ ~Answered /\ host' = host
  /\ bus'.op = bus.op /\ bus'.addr = bus.addr /\ bus'.data = bus.data
  /\ bus'.ar = (bus.ar /\ cl.rst_r # "idle")

\* The host does one of the three.
LEMMA HostMoves ==
  ASSUME HostType, BusType, NEW go \in BOOLEAN, NEW t, Host(go, t)
  PROVE  BusType' /\ (Begins \/ Ends(t) \/ Waits)
<1>1. /\ bus = [op |-> bus.op, addr |-> bus.addr, data |-> bus.data, ar |-> bus.ar]
      /\ bus.op \in {"none", "write", "read"} /\ bus.ar \in BOOLEAN
  BY DEF BusType
<1>2. host.pc \in PCs
  BY DEF HostType
<1>3. CASE bus.op = "none" /\ go /\ host.pc # "done"
  <2>1. bus' = access /\ host' = host
    BY <1>3 DEF Host
  <2>2. CASE host.pc = "clear"
    BY <1>1, <1>3, <2>1, <2>2 DEF access, poke, BusType, Begins, AddrOf
  <2>3. CASE host.pc = "push"
    BY <1>1, <1>3, <2>1, <2>3 DEF access, poke, BusType, Begins, AddrOf, HostByte
  <2>4. ASSUME NEW a, access = peek(a), a = AddrOf, host.pc \notin {"clear", "push"}
        PROVE  BusType' /\ Begins
    <3>1. bus' = [op |-> "read", addr |-> a, data |-> bus.data, ar |-> TRUE]
      BY <1>1, <2>1, <2>4 DEF peek
    <3> QED
      <4>1. bus'.op = "read" /\ bus'.addr = a /\ bus'.data = bus.data /\ bus'.ar = TRUE
        BY <3>1
      <4>2. BusType'
        BY <3>1, <4>1 DEF BusType
      <4>3. Begins
        BY <1>3, <2>1, <2>4, <4>1 DEF Begins
      <4> QED
        BY <4>2, <4>3
  <2>5. CASE host.pc = "poll"
    BY <2>4, <2>5 DEF access, AddrOf
  <2>6. CASE host.pc = "count"
    BY <2>4, <2>6 DEF access, AddrOf
  <2>7. CASE host.pc = "decisions"
    BY <2>4, <2>7 DEF access, AddrOf
  <2>8. CASE host.pc = "hist"
    BY <2>4, <2>8 DEF access, AddrOf
  <2>9. CASE host.pc = "last"
    BY <2>4, <2>9 DEF access, AddrOf
  <2> QED
    BY <1>2, <1>3, <2>2, <2>3, <2>5, <2>6, <2>7, <2>8, <2>9 DEF PCs
<1>4. CASE ~(bus.op = "none" /\ go /\ host.pc # "done") /\ Answered
  <2>1. bus' = [bus EXCEPT !.op = "none"] /\ host' = proceed(cl.rdata, t)
    BY <1>4 DEF Host, Answered
  <2>2. bus' = [op |-> "none", addr |-> bus.addr, data |-> bus.data, ar |-> bus.ar]
    BY <1>1, <2>1
  <2> QED
    BY <1>1, <1>4, <2>1, <2>2 DEF BusType, Ends
<1>5. CASE ~(bus.op = "none" /\ go /\ host.pc # "done") /\ ~Answered
  <2>1. bus' = [bus EXCEPT !.ar = bus.ar /\ cl.rst_r # "idle"] /\ host' = host
    BY <1>5 DEF Host, Answered
  <2>2. bus' = [op |-> bus.op, addr |-> bus.addr, data |-> bus.data, ar |-> bus.ar /\ cl.rst_r # "idle"]
    BY <1>1, <2>1
  <2> QED
    BY <1>1, <1>5, <2>1, <2>2 DEF BusType, Waits
<1> QED
  BY <1>3, <1>4, <1>5

\* What the bridge decodes of the address is the access the host is at.
LEMMA Addresses ==
  ASSUME BusInv, bus.op # "none", host.pc \in PCs
  PROVE  /\ is_low(bus.addr) <=> host.pc \in {"clear", "hist", "last"}
         /\ bus.addr[1] = "push" <=> host.pc = "push"
         /\ bus.addr[1] = "clear" <=> host.pc = "clear"
         /\ bus.addr[1] = "hist" <=> host.pc = "hist"
<1>1. bus.addr = AddrOf /\ host.pc # "done"
  BY DEF BusInv
<1> QED
  BY <1>1 DEF PCs, AddrOf, is_low

\* The two state machines of the bridge, by the access the host is at.
LEMMA Channels ==
  ASSUME ClType, BusType, BusInv, host.pc \in PCs
  PROVE  /\ wst_nxt = IF bus.op # "write" \/ cl.wst = "resp" THEN "idle"
                      ELSE IF cl.wst = "idle" /\ host.pc = "push" THEN "resp"
                      ELSE IF cl.wst = "fwd" /\ lat.bvalid THEN "resp" ELSE "fwd"
         /\ rst_r_nxt = IF cl.rst_r = "resp" \/ (cl.rst_r = "idle" /\ ~bus.ar) THEN "idle"
                        ELSE IF cl.rst_r = "idle" /\ host.pc \notin {"hist", "last"} THEN "resp"
                        ELSE IF cl.rst_r = "fwd" /\ lat.rvalid THEN "resp" ELSE "fwd"
<1>1. /\ cl.wst \in {"idle", "fwd", "resp"} /\ cl.rst_r \in {"idle", "fwd", "resp"}
      /\ bus.op \in {"none", "write", "read"}
  BY DEF ClType, BusType, Channel
<1>2. /\ bus.op # "none" => (is_low(bus.addr) <=> host.pc \in {"clear", "hist", "last"})
      /\ bus.op = "write" => host.pc \in {"clear", "push"}
      /\ bus.op = "read" => host.pc \notin {"clear", "push"}
      /\ bus.ar => bus.op = "read"
      /\ cl.wst # "idle" => bus.op = "write"
  BY Addresses DEF BusInv
<1>3. CASE bus.op = "write"
  BY <1>1, <1>2, <1>3 DEF wst_nxt, rst_r_nxt, write_start, read_start, BusInv
<1>4. CASE bus.op = "read"
  BY <1>1, <1>2, <1>4 DEF wst_nxt, rst_r_nxt, write_start, read_start, BusInv
<1>5. CASE bus.op = "none"
  BY <1>1, <1>2, <1>5 DEF wst_nxt, rst_r_nxt, write_start, read_start, BusInv
<1> QED
  BY <1>1, <1>3, <1>4, <1>5

\* One transaction at a time, of that access.
LEMMA BusStep ==
  ASSUME HostType, BusType, ClType, BusInv, NEW pop, ClNext(pop), NEW t,
         Begins \/ Ends(t) \/ Waits
  PROVE  BusInv'
<1>1. /\ host.pc \in PCs /\ bus.op \in {"none", "write", "read"} /\ bus.ar \in BOOLEAN
      /\ cl.wst \in {"idle", "fwd", "resp"} /\ cl.rst_r \in {"idle", "fwd", "resp"}
      /\ cl.if_push \in BOOLEAN
  BY DEF HostType, BusType, ClType, Channel
<1>2. /\ bus.op # "none" => host.pc # "done" /\ bus.addr = AddrOf
      /\ bus.op = "write" => host.pc \in {"clear", "push"}
      /\ bus.op = "read" => host.pc \notin {"clear", "push"}
      /\ bus.op = "write" /\ host.pc = "push" => bus.data = HostByte
      /\ bus.ar => bus.op = "read" /\ cl.rst_r = "idle"
      /\ cl.rst_r # "idle" => bus.op = "read"
      /\ cl.wst # "idle" => bus.op = "write"
      /\ cl.if_push <=> cl.wst = "resp" /\ host.pc = "push"
      /\ cl.wst = "fwd" => host.pc = "clear"
      /\ cl.rst_r = "fwd" => host.pc \in {"hist", "last"}
  BY DEF BusInv
<1>3. /\ cl'.wst = IF bus.op # "write" \/ cl.wst = "resp" THEN "idle"
                   ELSE IF cl.wst = "idle" /\ host.pc = "push" THEN "resp"
                   ELSE IF cl.wst = "fwd" /\ lat.bvalid THEN "resp" ELSE "fwd"
      /\ cl'.rst_r = IF cl.rst_r = "resp" \/ (cl.rst_r = "idle" /\ ~bus.ar) THEN "idle"
                     ELSE IF cl.rst_r = "idle" /\ host.pc \notin {"hist", "last"} THEN "resp"
                     ELSE IF cl.rst_r = "fwd" /\ lat.rvalid THEN "resp" ELSE "fwd"
  BY <1>1, Channels DEF ClNext
<1>4. cl'.if_push = (cl.wst = "idle" /\ bus.op = "write" /\ host.pc = "push")
  <2>1. bus.op = "write" => (bus.addr[1] = "push" <=> host.pc = "push")
    BY <1>1, Addresses
  <2> QED
    BY <2>1 DEF ClNext, write_start
<1>5. CASE Begins
  <2>1. bus.op = "none" /\ host.pc # "done" /\ host' = host /\ bus'.addr = AddrOf
    BY <1>5 DEF Begins
  <2>2. IF host.pc \in {"clear", "push"}
          THEN bus'.op = "write" /\ bus'.ar = FALSE /\ (host.pc = "push" => bus'.data = HostByte)
          ELSE bus'.op = "read" /\ bus'.ar = TRUE
    BY <1>5 DEF Begins
  <2>3. AddrOf' = AddrOf /\ HostByte' = HostByte
    BY <2>1 DEF AddrOf, HostByte
  <2>4. cl'.wst = "idle" /\ cl'.rst_r = "idle" /\ cl'.if_push = FALSE
    BY <1>1, <1>2, <1>3, <1>4, <2>1
  <2> QED
    BY <2>1, <2>2, <2>3, <2>4 DEF BusInv
<1>6. CASE Ends(t)
  <2>1. cl'.wst = "idle" /\ cl'.rst_r = "idle" /\ cl'.if_push = FALSE
        /\ bus'.op = "none" /\ bus'.ar = FALSE
    BY <1>1, <1>2, <1>3, <1>4, <1>6 DEF Ends, Answered
  <2> QED
    BY <2>1 DEF BusInv
<1>7. CASE Waits
  <2>1. /\ ~Answered /\ host' = host /\ bus'.op = bus.op /\ bus'.addr = bus.addr
        /\ bus'.data = bus.data /\ bus'.ar = (bus.ar /\ cl.rst_r # "idle")
    BY <1>7 DEF Waits
  <2>2. AddrOf' = AddrOf /\ HostByte' = HostByte /\ bus'.ar = FALSE
    BY <1>1, <1>2, <2>1 DEF AddrOf, HostByte
  <2>3. cl.wst # "resp" /\ cl.rst_r # "resp"
    BY <1>1, <1>2, <2>1 DEF Answered
  <2>4. /\ cl'.rst_r # "idle" => bus.op = "read"
        /\ cl'.wst # "idle" => bus.op = "write"
        /\ cl'.if_push <=> cl'.wst = "resp" /\ host.pc = "push"
        /\ cl'.wst = "fwd" => host.pc = "clear"
        /\ cl'.rst_r = "fwd" => host.pc \in {"hist", "last"}
    BY <1>1, <1>2, <1>3, <1>4, <2>3
  <2> QED
    BY <1>2, <2>1, <2>2, <2>4 DEF BusInv
<1> QED
  BY <1>5, <1>6, <1>7

\* The handshakes with the registers of the latency counter.
LEMMA LatStep ==
  ASSUME HostType, BusType, ClType, LatType, BusInv, LatInv, NEW pop, ClNext(pop),
         NEW start, LatNext(start)
  PROVE  LatInv'
<1>1. /\ host.pc \in PCs /\ bus.op \in {"none", "write", "read"} /\ bus.ar \in BOOLEAN
      /\ cl.wst \in {"idle", "fwd", "resp"} /\ cl.rst_r \in {"idle", "fwd", "resp"}
  BY DEF HostType, BusType, ClType, Channel
<1>2. /\ bus.op = "write" => host.pc \in {"clear", "push"}
      /\ bus.ar => bus.op = "read" /\ cl.rst_r = "idle" /\ host.pc \notin {"clear", "push"}
      /\ cl.wst # "idle" => bus.op = "write"
  BY DEF BusInv
<1>3. bus.op # "none" => (is_low(bus.addr) <=> host.pc \in {"clear", "hist", "last"})
  BY <1>1, Addresses
<1>4. /\ cl'.wst = IF bus.op # "write" \/ cl.wst = "resp" THEN "idle"
                   ELSE IF cl.wst = "idle" /\ host.pc = "push" THEN "resp"
                   ELSE IF cl.wst = "fwd" /\ lat.bvalid THEN "resp" ELSE "fwd"
      /\ cl'.rst_r = IF cl.rst_r = "resp" \/ (cl.rst_r = "idle" /\ ~bus.ar) THEN "idle"
                     ELSE IF cl.rst_r = "idle" /\ host.pc \notin {"hist", "last"} THEN "resp"
                     ELSE IF cl.rst_r = "fwd" /\ lat.rvalid THEN "resp" ELSE "fwd"
  BY <1>1, Channels DEF ClNext
<1>5. /\ cl'.c_awvalid = ((cl.c_awvalid /\ ~aw) \/ (write_start /\ is_low(bus.addr)))
      /\ cl'.c_wvalid = ((cl.c_wvalid /\ ~w) \/ (write_start /\ is_low(bus.addr)))
      /\ cl'.c_arvalid = ((cl.c_arvalid /\ ~arready) \/ (read_start /\ is_low(bus.addr)))
  BY DEF ClNext
<1>6. /\ lat'.aw_active = ((lat.aw_active \/ aw) /\ ~w)
      /\ lat'.bvalid = (w \/ (lat.bvalid /\ cl.wst # "fwd"))
      /\ lat'.do_clear = (w /\ bus.addr[1] = "clear")
      /\ lat'.ar_active = ((lat.ar_active \/ (cl.c_arvalid /\ arready)) /\ ~present)
      /\ lat'.rvalid = (present \/ (lat.rvalid /\ cl.rst_r # "fwd"))
  BY DEF LatNext
<1>7. /\ cl.c_awvalid \in BOOLEAN /\ cl.c_wvalid \in BOOLEAN /\ cl.c_arvalid \in BOOLEAN
      /\ lat.aw_active \in BOOLEAN /\ lat.bvalid \in BOOLEAN
      /\ lat.ar_active \in BOOLEAN /\ lat.rvalid \in BOOLEAN
  BY DEF ClType, LatType
<1>8. /\ cl'.c_awvalid \/ cl'.c_wvalid \/ lat'.aw_active \/ lat'.bvalid => cl'.wst = "fwd"
      /\ cl'.c_awvalid => cl'.c_wvalid /\ ~lat'.aw_active /\ ~lat'.bvalid
      /\ lat'.aw_active => cl'.c_wvalid /\ ~lat'.bvalid
      /\ lat'.bvalid => ~cl'.c_wvalid
      /\ lat'.do_clear => lat'.bvalid
  <2>1. CASE cl.wst = "fwd"
    <3>1. ~write_start /\ bus.op = "write"
      BY <1>2, <2>1 DEF write_start
    <3>2. CASE lat.bvalid
      <4>1. ~cl.c_wvalid /\ ~lat.aw_active /\ ~cl.c_awvalid
        BY <1>7, <3>2 DEF LatInv
      <4> QED
        BY <1>5, <1>6, <2>1, <3>1, <3>2, <4>1 DEF aw, w
    <3>3. CASE ~lat.bvalid /\ lat.aw_active
      <4>1. cl.c_wvalid /\ ~cl.c_awvalid
        BY <1>7, <3>3 DEF LatInv
      <4>2. cl'.wst = "fwd"
        BY <1>4, <2>1, <3>1, <3>3
      <4> QED
        BY <1>5, <1>6, <2>1, <3>1, <3>3, <4>1, <4>2 DEF aw, w, wready
    <3>4. CASE ~lat.bvalid /\ ~lat.aw_active
      <4>1. cl.c_awvalid => cl.c_wvalid
        BY <1>7 DEF LatInv
      <4>2. cl'.wst = "fwd"
        BY <1>4, <2>1, <3>1, <3>4
      <4> QED
        BY <1>5, <1>6, <1>7, <2>1, <3>1, <3>4, <4>1, <4>2 DEF aw, w, awready, wready
    <3> QED
      BY <3>2, <3>3, <3>4
  <2>2. CASE cl.wst # "fwd"
    <3>1. ~cl.c_awvalid /\ ~cl.c_wvalid /\ ~lat.aw_active /\ ~lat.bvalid
      BY <1>7, <2>2 DEF LatInv
    <3>2. write_start /\ is_low(bus.addr) => cl'.wst = "fwd"
      BY <1>1, <1>2, <1>3, <1>4 DEF write_start
    <3> QED
      BY <1>5, <1>6, <3>1, <3>2 DEF aw, w, awready, wready
  <2> QED
    BY <2>1, <2>2
<1>9. /\ cl'.c_arvalid \/ lat'.ar_active \/ lat'.rvalid => cl'.rst_r = "fwd"
      /\ cl'.c_arvalid => ~lat'.ar_active /\ ~lat'.rvalid
      /\ lat'.ar_active => ~lat'.rvalid
  <2>1. CASE cl.rst_r = "fwd"
    <3>1. ~read_start
      BY <2>1 DEF read_start
    <3> QED
      BY <1>4, <1>5, <1>6, <1>7, <2>1, <3>1 DEF LatInv, arready, present
  <2>2. CASE cl.rst_r # "fwd"
    <3>1. ~cl.c_arvalid /\ ~lat.ar_active /\ ~lat.rvalid
      BY <1>7, <2>2 DEF LatInv
    <3>2. read_start /\ is_low(bus.addr) => cl'.rst_r = "fwd"
      BY <1>1, <1>2, <1>3, <1>4 DEF read_start
    <3> QED
      BY <1>5, <1>6, <3>1, <3>2 DEF arready, present
  <2> QED
    BY <2>1, <2>2
<1> QED
  BY <1>8, <1>9 DEF LatInv

\* The host after an access, field by field.
Kept == host'.count = host.count /\ host'.decisions = host.decisions /\ host'.hist = host.hist
SamePlace == host'.k = host.k /\ host'.t = host.t /\ host'.p = host.p

Reading(n) == IF Len(host'.decisions) < n THEN "decisions" ELSE "hist"

\* Where each access leads the host.
ProceedsTo(val, t) ==
  /\ host.pc = "clear" => host'.pc = "poll" /\ host'.t = t /\ host'.k = host.k /\ host'.p = host.p /\ Kept
  /\ host.pc = "poll" => host'.pc \in {"poll", "push"} /\ (host'.pc = "push" => val # 1) /\ SamePlace /\ Kept
  /\ host.pc = "push" =>
       /\ Kept
       /\ \/ /\ host.p < Length[host.t]
             /\ host'.pc = "poll" /\ host'.k = host.k /\ host'.t = host.t /\ host'.p = host.p + 1
          \/ /\ host.p = Length[host.t]
             /\ \/ host'.pc = "count" /\ SamePlace
                \/ host'.pc = "poll" /\ host'.k = host.k + 1 /\ host'.t = t /\ host'.p = 1
  /\ host.pc = "count" => /\ SamePlace /\ host'.count = val /\ host'.decisions = host.decisions
                          /\ host'.hist = host.hist /\ host'.pc = Reading(val)
  /\ host.pc = "decisions" => /\ SamePlace /\ host'.count = host.count
                              /\ host'.decisions = Append(host.decisions, val)
                              /\ host'.hist = host.hist /\ host'.pc = Reading(host.count)
  /\ host.pc = "hist" => /\ SamePlace /\ host'.count = host.count /\ host'.decisions = host.decisions
                         /\ host'.hist = Append(host.hist, val)
                         /\ host'.pc = IF Len(host.hist) = HIST_BUCKETS - 1 THEN "last" ELSE "hist"
  /\ host.pc = "last" => host'.pc = "done" /\ SamePlace /\ Kept

LEMMA Proceeds ==
  ASSUME HostType, NEW val \in Int, NEW t \in MsgType, host.pc # "done",
         host.pc = "push" => host.t \in MsgType /\ host.p \in 1 .. Length[host.t],
         host.pc = "count" => val \in Nat, host' = proceed(val, t)
  PROVE  ProceedsTo(val, t) /\ HostType'
<1>1. /\ host.pc \in PCs /\ host.k \in Nat /\ host.t \in MsgType \cup {"none"} /\ host.p \in Nat
      /\ host.count \in Nat /\ host.decisions \in Seq(Int) /\ host.hist \in Seq(Int)
      /\ host = [pc |-> host.pc, k |-> host.k, t |-> host.t, p |-> host.p, count |-> host.count,
                 decisions |-> host.decisions, hist |-> host.hist]
  BY DEF HostType
<1>2. \A h : h = [pc |-> h.pc, k |-> h.k, t |-> h.t, p |-> h.p, count |-> h.count,
                  decisions |-> h.decisions, hist |-> h.hist]
             /\ h.pc \in PCs /\ h.k \in Nat /\ h.t \in MsgType \cup {"none"} /\ h.p \in Nat
             /\ h.count \in Nat /\ h.decisions \in Seq(Int) /\ h.hist \in Seq(Int)
             => h \in [pc : PCs, k : Nat, t : MsgType \cup {"none"}, p : Nat, count : Nat,
                       decisions : Seq(Int), hist : Seq(Int)]
  OBVIOUS
<1>3. CASE host.pc = "clear"
  <2>1. host' = [host EXCEPT !.pc = "poll", !.t = t]
    BY <1>3 DEF proceed
  <2>2. host' = [pc |-> "poll", k |-> host.k, t |-> t, p |-> host.p, count |-> host.count,
                 decisions |-> host.decisions, hist |-> host.hist]
    BY <1>1, <2>1
  <2> QED
    BY <1>1, <1>3, <2>2 DEF ProceedsTo, Kept, HostType, PCs
<1>4. CASE host.pc = "poll"
  <2>1. host' = IF val = 1 THEN host ELSE [host EXCEPT !.pc = "push"]
    BY <1>4 DEF proceed
  <2>2. CASE val = 1
    BY <1>4, <2>1, <2>2 DEF ProceedsTo, Kept, SamePlace, HostType
  <2>3. CASE val # 1
    <3>1. host' = [pc |-> "push", k |-> host.k, t |-> host.t, p |-> host.p, count |-> host.count,
                   decisions |-> host.decisions, hist |-> host.hist]
      BY <1>1, <2>1, <2>3
    <3> QED
      BY <1>1, <1>4, <2>3, <3>1 DEF ProceedsTo, Kept, SamePlace, HostType, PCs
  <2> QED
    BY <2>2, <2>3
<1>5. CASE host.pc = "push" /\ host.p < Length[host.t]
  <2>1. host' = [host EXCEPT !.pc = "poll", !.p = host.p + 1]
    BY <1>5 DEF proceed
  <2>2. host' = [pc |-> "poll", k |-> host.k, t |-> host.t, p |-> host.p + 1, count |-> host.count,
                 decisions |-> host.decisions, hist |-> host.hist]
    BY <1>1, <2>1
  <2> QED
    BY <1>1, <1>5, <2>2 DEF ProceedsTo, Kept, HostType, PCs
<1>6. CASE host.pc = "push" /\ host.p = Length[host.t]
  <2>0. ~(host.p < Length[host.t])
    BY <1>1, <1>6
  <2>1. host' = IF host.k = MaxMsgs THEN [host EXCEPT !.pc = "count"]
                ELSE [host EXCEPT !.pc = "poll", !.k = host.k + 1, !.p = 1, !.t = t]
    BY <1>6, <2>0 DEF proceed
  <2>2. CASE host.k = MaxMsgs
    <3>1. host' = [pc |-> "count", k |-> host.k, t |-> host.t, p |-> host.p, count |-> host.count,
                   decisions |-> host.decisions, hist |-> host.hist]
      BY <1>1, <2>1, <2>2
    <3> QED
      BY <1>1, <1>6, <2>0, <3>1 DEF ProceedsTo, Kept, SamePlace, HostType, PCs
  <2>3. CASE host.k # MaxMsgs
    <3>1. host' = [pc |-> "poll", k |-> host.k + 1, t |-> t, p |-> 1, count |-> host.count,
                   decisions |-> host.decisions, hist |-> host.hist]
      BY <1>1, <2>1, <2>3
    <3> QED
      BY <1>1, <1>6, <2>0, <3>1 DEF ProceedsTo, Kept, HostType, PCs
  <2> QED
    BY <2>2, <2>3
<1>7. CASE host.pc = "count"
  <2>0. PICK h : h = [host EXCEPT !.count = val]
    OBVIOUS
  <2>1. h = [pc |-> host.pc, k |-> host.k, t |-> host.t, p |-> host.p, count |-> val,
             decisions |-> host.decisions, hist |-> host.hist]
    BY <1>1, <2>0
  <2>2. host' = [h EXCEPT !.pc = IF Len(h.decisions) < val THEN "decisions" ELSE "hist"]
    BY <1>7, <2>0 DEF proceed
  <2>3. host' = [pc |-> IF Len(host.decisions) < val THEN "decisions" ELSE "hist", k |-> host.k,
                 t |-> host.t, p |-> host.p, count |-> val,
                 decisions |-> host.decisions, hist |-> host.hist]
    BY <2>1, <2>2
  <2> QED
    BY <1>1, <1>7, <2>3 DEF ProceedsTo, SamePlace, Reading, HostType, PCs
<1>8. CASE host.pc = "decisions"
  <2> DEFINE d == Append(host.decisions, val)
  <2>0. d \in Seq(Int)
    BY <1>1
  <2>a. PICK h : h = [host EXCEPT !.decisions = d]
    OBVIOUS
  <2>1. h = [pc |-> host.pc, k |-> host.k, t |-> host.t, p |-> host.p, count |-> host.count,
             decisions |-> d, hist |-> host.hist]
    BY <1>1, <2>a
  <2>2. host' = [h EXCEPT !.pc = IF Len(h.decisions) < host.count THEN "decisions" ELSE "hist"]
    BY <1>8, <2>a DEF proceed
  <2>3. host' = [pc |-> IF Len(d) < host.count THEN "decisions" ELSE "hist", k |-> host.k,
                 t |-> host.t, p |-> host.p, count |-> host.count,
                 decisions |-> d, hist |-> host.hist]
    BY <2>1, <2>2
  <2> QED
    BY <1>1, <1>8, <2>0, <2>3 DEF ProceedsTo, SamePlace, Reading, HostType, PCs
<1>9. CASE host.pc = "hist"
  <2> DEFINE d == Append(host.hist, val)
             c == IF Len(host.hist) = HIST_BUCKETS - 1 THEN "last" ELSE "hist"
  <2>0. d \in Seq(Int) /\ c \in PCs
    BY <1>1 DEF PCs
  <2>1. host' = [host EXCEPT !.hist = d, !.pc = c]
    BY <1>9 DEF proceed
  <2>2. host' = [pc |-> c, k |-> host.k, t |-> host.t, p |-> host.p, count |-> host.count,
                 decisions |-> host.decisions, hist |-> d]
    BY <1>1, <2>1
  <2> QED
    BY <1>1, <1>9, <2>0, <2>2 DEF ProceedsTo, SamePlace, HostType
<1>10. CASE host.pc = "last"
  <2>1. host' = [host EXCEPT !.pc = "done"]
    BY <1>10 DEF proceed
  <2>2. host' = [pc |-> "done", k |-> host.k, t |-> host.t, p |-> host.p, count |-> host.count,
                 decisions |-> host.decisions, hist |-> host.hist]
    BY <1>1, <2>1
  <2> QED
    BY <1>1, <1>10, <2>2 DEF ProceedsTo, Kept, SamePlace, HostType, PCs
<1> QED
  <2>1. host.pc = "push" => host.p < Length[host.t] \/ host.p = Length[host.t]
    <3>1. SUFFICES ASSUME host.pc = "push" PROVE host.p < Length[host.t] \/ host.p = Length[host.t]
      OBVIOUS
    <3> DEFINE l == Length[host.t]
    <3>2. host.p \in 1 .. l /\ l \in Nat /\ 12 <= l
      BY <3>1, LengthBounds
    <3> HIDE DEF l
    <3>3. host.p < l \/ host.p = l
      BY <3>2
    <3> QED
      BY <3>3 DEF l
  <2> QED
    BY <1>1, <1>3, <1>4, <1>5, <1>6, <1>7, <1>8, <1>9, <1>10, <2>1 DEF PCs

LEMMA HostStep ==
  ASSUME HostType, BusType, ClType, HostInv, BusInv, ReadInv, NEW pop, ClNext(pop), NEW t,
         Begins \/ Waits \/ (Ends(t) /\ ProceedsTo(cl.rdata, t) /\ HostType')
  PROVE  HostInv' /\ HostType'
<1>1. Len(cl.dec) \in Nat /\ Len(cl'.dec) \in Nat /\ Len(cl.dec) <= Len(cl'.dec)
  <2> DEFINE d == cl.dec
             m == cl.m_axis
  <2>1. d \in Seq(Int) /\ m \in Int /\ (cl'.dec = d \/ cl'.dec = Append(d, m))
    BY DEF ClType, ClNext
  <2> HIDE DEF d, m
  <2>2. Len(d) \in Nat /\ Len(Append(d, m)) = Len(d) + 1
    BY <2>1
  <2> QED
    BY <2>1, <2>2 DEF d
<1>2. /\ host.pc \in PCs /\ host.count \in Nat /\ Len(host.hist) \in Nat /\ Len(host.decisions) \in Nat
      /\ host.hist \in Seq(Int) /\ host.decisions \in Seq(Int)
  BY DEF HostType
<1>3. CASE Begins \/ Waits
  <2>1. host' = host
    BY <1>3 DEF Begins, Waits
  <2>2. host.count <= Len(cl'.dec)
    BY <1>1, <1>2 DEF HostInv
  <2> QED
    BY <2>1, <2>2 DEF HostInv, HostType
<1>4. CASE Ends(t) /\ ProceedsTo(cl.rdata, t) /\ HostType'
  <2>1. \/ bus.op = "write" /\ host.pc \in {"clear", "push"}
        \/ bus.op = "read" /\ cl.rst_r = "resp" /\ host.pc \notin {"clear", "push", "done"}
    BY <1>2, <1>4 DEF Ends, Answered, BusInv
  <2>2. CASE host.pc \in {"clear", "poll", "push"}
    <3>1. Kept /\ host'.pc \in {"poll", "push", "count"} /\ host.hist = <<>> /\ host.decisions = <<>>
      BY <1>4, <2>2 DEF ProceedsTo, HostInv
    <3> QED
      BY <1>1, <1>2, <1>4, <2>2, <3>1 DEF HostInv, Kept
  <2>3. CASE host.pc = "count"
    <3>1. /\ host'.count = cl.rdata /\ host'.decisions = host.decisions /\ host'.hist = host.hist
          /\ host'.pc = Reading(cl.rdata)
      BY <1>4, <2>3 DEF ProceedsTo
    <3>2. cl.rdata \in Nat /\ cl.rdata <= Len(cl.dec)
      BY <1>1, <2>1, <2>3 DEF ReadInv
    <3>3. host.hist = <<>> /\ host.decisions = <<>>
      BY <2>3 DEF HostInv
    <3>4. Len(host'.hist) = 0 /\ Len(host'.decisions) = 0
      BY <3>1, <3>3
    <3>5. host'.pc = IF 0 < host'.count THEN "decisions" ELSE "hist"
      BY <3>1, <3>4 DEF Reading
    <3>6. host'.count \in Nat /\ host'.count <= Len(cl'.dec)
      BY <1>1, <3>1, <3>2
    <3>7. host'.hist = <<>> /\ host'.decisions = <<>>
      BY <3>1, <3>3
    <3> QED
      BY <1>4, <3>4, <3>5, <3>6, <3>7, F1Assumption DEF HostInv
  <2>4. CASE host.pc = "decisions"
    <3>1. /\ host'.count = host.count /\ host'.decisions = Append(host.decisions, cl.rdata)
          /\ host'.hist = host.hist /\ host'.pc = Reading(host.count)
      BY <1>4, <2>4 DEF ProceedsTo
    <3>2. cl.rdata \in Int
      BY <1>2, <2>1, <2>4 DEF ReadInv
    <3>3. host.hist = <<>> /\ Len(host.decisions) < host.count /\ host.count <= Len(cl.dec)
      BY <2>4 DEF HostInv
    <3>4. Len(host'.decisions) = Len(host.decisions) + 1
      BY <1>2, <3>1, <3>2
    <3>5. host'.pc = IF Len(host'.decisions) < host'.count THEN "decisions" ELSE "hist"
      BY <3>1 DEF Reading
    <3>6. host'.hist = <<>> /\ Len(host'.hist) = 0
      BY <3>1, <3>3
    <3>7. host'.count \in Nat /\ host'.count <= Len(cl'.dec) /\ Len(host'.decisions) <= host'.count
          /\ Len(host'.decisions) \in Nat
      BY <1>1, <1>2, <3>1, <3>3, <3>4
    <3> QED
      BY <1>4, <3>5, <3>6, <3>7, F1Assumption DEF HostInv
  <2>5. CASE host.pc = "hist"
    <3>1. /\ host'.count = host.count /\ host'.decisions = host.decisions
          /\ host'.hist = Append(host.hist, cl.rdata)
          /\ host'.pc = IF Len(host.hist) = HIST_BUCKETS - 1 THEN "last" ELSE "hist"
      BY <1>4, <2>5 DEF ProceedsTo
    <3>2. /\ Len(host.decisions) = host.count /\ Len(host.hist) < HIST_BUCKETS
          /\ host.count <= Len(cl.dec)
      BY <2>5 DEF HostInv
    <3>3. Len(host'.hist) = Len(host.hist) + 1
      <4>1. cl.rdata \in Int
        BY DEF ClType
      <4> QED
        BY <1>2, <3>1, <4>1
    <3>4. /\ Len(host'.hist) <= HIST_BUCKETS
          /\ host'.pc = "hist" => Len(host'.hist) < HIST_BUCKETS
      BY <1>2, <3>1, <3>2, <3>3, F1Assumption
    <3>5. host'.count <= Len(cl'.dec) /\ Len(host'.decisions) = host'.count
          /\ host'.pc \in {"last", "hist"}
      BY <1>1, <1>2, <3>1, <3>2
    <3> QED
      BY <1>4, <3>4, <3>5 DEF HostInv
  <2>6. CASE host.pc = "last"
    BY <1>1, <1>2, <1>4, <2>1, <2>6 DEF HostInv, ProceedsTo, Kept
  <2> QED
    BY <1>2, <2>1, <2>2, <2>3, <2>4, <2>5, <2>6 DEF PCs
<1> QED
  BY <1>3, <1>4
-----------------------------------------------------------------------------
(* The bytes from the host to the parser.                                  *)

\* A queue of bytes without its first, and with one more.
LEMMA ChainTail ==
  ASSUME NEW a, NEW q \in Seq(Beat), q # <<>>, Chain(a, q)
  PROVE  /\ Tail(q) \in Seq(Beat) /\ Len(Tail(q)) = Len(q) - 1 /\ Len(q) \in Nat \ {0}
         /\ Head(q) = q[1] /\ Head(q) \in Beat /\ Follows(a, Head(q))
         /\ Chain(Head(q), Tail(q)) /\ EndOf(Head(q), Tail(q)) = EndOf(a, q)
<1> DEFINE r == Tail(q)
           n == Len(q)
           m == n - 1
<1>1. n \in Nat \ {0}
  BY EmptySeq
<1>2. /\ r \in Seq(Beat) /\ Len(r) = m /\ m \in Nat /\ \A i \in 1 .. m : r[i] = q[i + 1]
      /\ Head(q) = q[1] /\ q[1] \in Beat
  BY <1>1
<1>3. /\ Follows(a, q[1])
      /\ \A i \in 1 .. n, j \in 1 .. n : j = i + 1 => Follows(q[i], q[j])
  BY DEF Chain
<1> HIDE DEF r
<1>4. r # <<>> => Follows(q[1], r[1])
  <2>1. SUFFICES ASSUME r # <<>> PROVE Follows(q[1], r[1])
    OBVIOUS
  <2>2. 1 \in 1 .. m /\ 1 \in 1 .. n /\ 2 \in 1 .. n
    <3>1. Len(r) # 0
      BY <1>2, <2>1, EmptySeq
    <3> QED
      BY <1>1, <1>2, <3>1
  <2>3. r[1] = q[2]
    BY <1>2, <2>2
  <2> QED
    BY <1>3, <2>2, <2>3
<1>5. ASSUME NEW i \in 1 .. m, NEW j \in 1 .. m, j = i + 1 PROVE Follows(r[i], r[j])
  <2> DEFINE x == i + 1
             y == j + 1
  <2>1. x \in 1 .. n /\ y \in 1 .. n /\ y = x + 1 /\ r[i] = q[x] /\ r[j] = q[y]
    BY <1>1, <1>2, <1>5
  <2> HIDE DEF x, y, n, m
  <2> QED
    BY <1>3, <2>1
<1>6. Chain(q[1], r)
  BY <1>2, <1>4, <1>5 DEF Chain
<1>7. EndOf(q[1], r) = EndOf(a, q)
  <2>1. CASE r = <<>>
    <3>1. n = 1
      BY <1>1, <1>2, <2>1, EmptySeq
    <3> QED
      BY <2>1, <3>1 DEF EndOf
  <2>2. CASE r # <<>>
    <3>1. m \in 1 .. m /\ m + 1 = n
      <4>1. Len(r) # 0
        BY <1>2, <2>2, EmptySeq
      <4> QED
        BY <1>1, <1>2, <4>1
    <3>2. r[m] = q[n]
      <4> HIDE DEF n
      <4> QED
        BY <1>2, <3>1
    <3> QED
      BY <1>2, <2>2, <3>2 DEF EndOf
  <2> QED
    BY <2>1, <2>2
<1> QED
  BY <1>1, <1>2, <1>3, <1>6, <1>7 DEF r

LEMMA ChainMore ==
  ASSUME NEW a, NEW q \in Seq(Beat), NEW e \in Beat, Chain(a, q), Follows(EndOf(a, q), e)
  PROVE  /\ Append(q, e) \in Seq(Beat) /\ Len(Append(q, e)) = Len(q) + 1
         /\ Chain(a, Append(q, e)) /\ EndOf(a, Append(q, e)) = e
<1> DEFINE c == Append(q, e)
           n == Len(q)
           m == n + 1
<1>1. n \in Nat
  OBVIOUS
<1>2. c \in Seq(Beat) /\ Len(c) = m /\ c[m] = e /\ \A i \in 1 .. n : c[i] = q[i]
  BY <1>1, AppendedTo
<1>3. q = <<>> <=> n = 0
  BY EmptySeq
<1>4. c # <<>>
  BY <1>1, <1>2
<1> HIDE DEF c
<1>5. /\ q # <<>> => Follows(a, q[1])
      /\ \A i \in 1 .. n, j \in 1 .. n : j = i + 1 => Follows(q[i], q[j])
      /\ Follows(IF n = 0 THEN a ELSE q[n], e)
  BY <1>3 DEF Chain, EndOf
<1> HIDE DEF n
<1>6. Follows(a, c[1])
  <2>1. CASE n = 0
    BY <1>2, <1>5, <2>1
  <2>2. CASE n # 0
    <3>1. 1 \in 1 .. n
      BY <1>1, <2>2
    <3> QED
      BY <1>2, <1>3, <1>5, <2>2, <3>1
  <2> QED
    BY <2>1, <2>2
<1>7. ASSUME NEW i \in 1 .. m, NEW j \in 1 .. m, j = i + 1 PROVE Follows(c[i], c[j])
  <2>1. i \in 1 .. n /\ c[i] = q[i]
    BY <1>1, <1>2, <1>7
  <2>2. CASE j = m
    <3>1. i = n /\ n # 0 /\ c[j] = e
      BY <1>1, <1>2, <1>7, <2>1, <2>2
    <3> QED
      BY <1>5, <2>1, <3>1
  <2>3. CASE j # m
    <3>1. j \in 1 .. n /\ c[j] = q[j]
      BY <1>1, <1>2, <1>7, <2>3
    <3> QED
      BY <1>5, <1>7, <2>1, <3>1
  <2> QED
    BY <2>2, <2>3
<1>8. Chain(a, c) /\ EndOf(a, c) = e
  BY <1>2, <1>4, <1>6, <1>7 DEF Chain, EndOf
<1> QED
  BY <1>2, <1>8 DEF c, n

\* The byte that follows is the next of the stream.
LEMMA FollowsNext ==
  ASSUME ParserType, Position, NEW x \in Beat, Follows(ParserAt, x)
  PROVE  NextByte(x[1], x[2], x[3])
<1>1. x[1] \in Nat /\ x[2] \in MsgType /\ x[3] \in Nat
  BY DEF Beat
<1>2. CASE types = <<>>
  <2>1. ParserAt = <<0, "S", Length["S"]>> /\ Between /\ Len(types) = 0
    BY <1>2 DEF ParserAt, Between
  <2>2. x[1] = 0 + 1 /\ x[3] = 1
    BY <2>1 DEF Follows
  <2> QED
    BY <1>1, <2>1, <2>2 DEF NextByte
<1>3. CASE types # <<>>
  <2>1. ParserAt = <<Len(types), Last(types), pos>> /\ (Between <=> pos = Length[Last(types)])
    BY <1>3 DEF ParserAt, Between
  <2>2. /\ ParserAt[1] = Len(types) /\ ParserAt[2] = Last(types) /\ ParserAt[3] = pos
    BY <2>1
  <2> QED
    BY <1>1, <2>1, <2>2 DEF Follows, NextByte
<1> QED
  BY <1>2, <1>3

\* What the parser took in a cycle, of the head x of the FIFO.
Took(pop, x) ==
  IF pop THEN pos' = x[3] /\ types' = IF x[3] = 1 THEN Append(types, x[2]) ELSE types
         ELSE types' = types /\ pos' = pos

\* The bytes that are left in the FIFO follow what the parser has then.
LEMMA LineLeft ==
  ASSUME ParserType, Position, cl.fifo \in Seq(Beat), Chain(ParserAt, cl.fifo),
         NEW pop, pop => cl.fifo # <<>>, Took(pop, Head(cl.fifo)), NEW rest,
         rest = IF pop THEN Tail(cl.fifo) ELSE cl.fifo
  PROVE  /\ rest \in Seq(Beat) /\ Len(rest) <= Len(cl.fifo)
         /\ Chain(ParserAt', rest) /\ EndOf(ParserAt', rest) = EndOf(ParserAt, cl.fifo)
<1>1. CASE ~pop
  <2>1. ParserAt' = ParserAt
    BY <1>1 DEF Took, ParserAt
  <2> QED
    BY <1>1, <2>1
<1>2. CASE pop
  <2> DEFINE q == cl.fifo
             x == Head(q)
  <2>1. /\ rest \in Seq(Beat) /\ Len(rest) = Len(q) - 1 /\ Len(q) \in Nat \ {0}
        /\ x \in Beat /\ Follows(ParserAt, x)
        /\ Chain(x, rest) /\ EndOf(x, rest) = EndOf(ParserAt, q)
    BY <1>2, ChainTail
  <2>2. pos' = x[3] /\ types' = IF x[3] = 1 THEN Append(types, x[2]) ELSE types
    BY <1>2 DEF Took
  <2> HIDE DEF x, q
  <2>3. NextByte(x[1], x[2], x[3])
    BY <2>1, FollowsNext
  <2>4. types' # <<>> /\ Len(types') = x[1] /\ Last(types') = x[2]
    BY <2>2, <2>3, StreamStep DEF ParserType
  <2>5. x = <<x[1], x[2], x[3]>>
    BY <2>1 DEF Beat
  <2>6. ParserAt' = x
    BY <2>2, <2>4, <2>5 DEF ParserAt
  <2> QED
    BY <2>1, <2>6 DEF q
<1> QED
  BY <1>1, <1>2

\* The queue after a cycle: the host pushes only what follows it, and only with room.
LEMMA LineStep ==
  ASSUME ParserType, Position, HostType, BusType, ClType, HostInv, BusInv, ReadInv, LineInv,
         NEW pop \in BOOLEAN, pop => cl.fifo # <<>>, Took(pop, Head(cl.fifo)), ClNext(pop),
         NEW t \in MsgType,
         Begins \/ Waits \/ (Ends(t) /\ ProceedsTo(cl.rdata, t) /\ HostType')
  PROVE  LineInv' /\ cl'.fifo \in Seq(Beat)
<1> DEFINE rest == IF pop THEN Tail(cl.fifo) ELSE cl.fifo
<1>0. /\ host.pc \in PCs /\ cl.wst \in {"idle", "fwd", "resp"} /\ cl.if_push \in BOOLEAN
      /\ bus.op \in {"none", "write", "read"} /\ bus.ar \in BOOLEAN
      /\ host.k \in Nat /\ host.p \in Nat /\ cl.fifo \in Seq(Beat) /\ IF_DEPTH \in Nat
  BY F1Assumption DEF HostType, BusType, ClType, Channel
<1>1. /\ rest \in Seq(Beat) /\ Len(rest) <= Len(cl.fifo)
      /\ Chain(ParserAt', rest) /\ EndOf(ParserAt', rest) = EndOf(ParserAt, cl.fifo)
  BY <1>0, LineLeft DEF LineInv
<1>2. cl'.fifo = IF cl.if_push /\ Len(cl.fifo) # IF_DEPTH THEN Append(rest, bus.data) ELSE rest
  BY DEF ClNext, ififo, if_full
<1>3. Len(rest) \in Nat /\ Len(cl.fifo) \in Nat
  BY <1>0, <1>1
<1>4. host.pc = "clear" => rest = <<>> /\ types' = <<>> /\ ParserAt' = <<0, "S", Length["S"]>>
  <2>1. host.pc = "clear" => types = <<>> /\ cl.fifo = <<>> /\ ~pop
    BY DEF LineInv
  <2> QED
    BY <2>1 DEF Took, ParserAt
<1> HIDE DEF rest
<1>5. /\ Len(cl.fifo) <= IF_DEPTH
      /\ host.pc \in {"poll", "push"} =>
           /\ host.t \in MsgType /\ host.p \in 1 .. Length[host.t]
           /\ Follows(EndOf(ParserAt', rest), HostByte)
      /\ host.pc = "clear" => host.k = 1 /\ host.p = 1
      /\ host.pc = "push" => Len(cl.fifo) < IF_DEPTH
  BY <1>1 DEF LineInv
<1>6. CASE Begins \/ Waits
  <2>1. host' = host /\ ~cl.if_push
    BY <1>0, <1>6 DEF Begins, Waits, Answered, BusInv
  <2>2. cl'.fifo = rest
    BY <1>2, <2>1
  <2>3. HostByte' = HostByte
    BY <2>1 DEF HostByte
  <2>4. cl'.fifo \in Seq(Beat) /\ Chain(ParserAt', cl'.fifo) /\ Len(cl'.fifo) <= IF_DEPTH
    BY <1>0, <1>1, <1>3, <1>5, <2>2
  <2>5. /\ host.pc \in {"poll", "push"} => Follows(EndOf(ParserAt', cl'.fifo), HostByte')
        /\ host.pc = "clear" => types' = <<>> /\ cl'.fifo = <<>>
        /\ host.pc = "push" => Len(cl'.fifo) < IF_DEPTH
    BY <1>0, <1>1, <1>3, <1>4, <1>5, <2>2, <2>3
  <2> QED
    BY <1>5, <2>1, <2>4, <2>5 DEF LineInv
<1>7. CASE Ends(t) /\ ProceedsTo(cl.rdata, t)
  <2>1. \/ bus.op = "write" /\ cl.wst = "resp" /\ host.pc \in {"clear", "push"}
        \/ bus.op = "read" /\ cl.rst_r = "resp" /\ host.pc \notin {"clear", "push", "done"}
    BY <1>0, <1>7 DEF Ends, Answered, BusInv
  <2>2. cl.if_push <=> host.pc = "push"
    BY <1>0, <2>1 DEF BusInv
  <2>3. CASE host.pc = "clear"
    <3>1. cl'.fifo = rest /\ rest = <<>> /\ host'.pc = "poll" /\ HostByte' = <<1, t, 1>>
          /\ host'.t = t /\ host'.p = 1
      BY <1>2, <1>4, <1>5, <1>7, <2>2, <2>3 DEF ProceedsTo, HostByte
    <3>2. EndOf(ParserAt', rest) = <<0, "S", Length["S"]>>
      BY <1>4, <2>3, <3>1 DEF EndOf
    <3>3. Follows(<<0, "S", Length["S"]>>, <<1, t, 1>>)
      BY DEF Follows
    <3>4. 1 \in 1 .. Length[t]
      <4> DEFINE l == Length[t]
      <4>1. l \in Nat /\ 12 <= l
        BY LengthBounds
      <4> HIDE DEF l
      <4>2. 1 \in 1 .. l
        BY <4>1
      <4> QED
        BY <4>2 DEF l
    <3>5. cl'.fifo \in Seq(Beat) /\ Chain(ParserAt', cl'.fifo) /\ Len(cl'.fifo) <= IF_DEPTH
      BY <1>0, <1>1, <1>3, <1>5, <3>1
    <3>6. host'.t \in MsgType /\ host'.p \in 1 .. Length[host'.t]
          /\ Follows(EndOf(ParserAt', cl'.fifo), HostByte')
      BY <3>1, <3>2, <3>3, <3>4
    <3> QED
      BY <3>1, <3>5, <3>6 DEF LineInv
  <2>4. CASE host.pc = "poll"
    <3>1. cl'.fifo = rest /\ host'.pc \in {"poll", "push"} /\ HostByte' = HostByte
          /\ host'.t = host.t /\ host'.p = host.p
      BY <1>2, <1>7, <2>2, <2>4 DEF ProceedsTo, SamePlace, HostByte
    <3>2. host'.pc = "push" => Len(cl.fifo) < IF_DEPTH
      BY <1>7, <2>1, <2>4 DEF ProceedsTo, ReadInv
    <3>3. cl'.fifo \in Seq(Beat) /\ Chain(ParserAt', cl'.fifo) /\ Len(cl'.fifo) <= IF_DEPTH
      BY <1>0, <1>1, <1>3, <1>5, <3>1
    <3>4. host'.t \in MsgType /\ host'.p \in 1 .. Length[host'.t]
          /\ Follows(EndOf(ParserAt', cl'.fifo), HostByte')
      BY <1>5, <2>4, <3>1
    <3>5. host'.pc = "push" => Len(cl'.fifo) < IF_DEPTH
      BY <1>0, <1>1, <1>3, <3>1, <3>2
    <3> QED
      BY <3>1, <3>3, <3>4, <3>5 DEF LineInv
  <2>5. CASE host.pc = "push"
    <3> DEFINE e == HostByte
    <3>1. cl'.fifo = Append(rest, e) /\ host.t \in MsgType /\ host.p \in 1 .. Length[host.t]
      <4>1. bus.data = HostByte
        BY <2>1, <2>5 DEF BusInv
      <4> QED
        BY <1>2, <1>3, <1>5, <2>2, <2>5, <4>1
    <3>2. e \in Beat /\ e[1] = host.k /\ e[2] = host.t /\ e[3] = host.p
      BY <1>0, <3>1 DEF HostByte, Beat
    <3> HIDE DEF e
    <3>3. /\ cl'.fifo \in Seq(Beat) /\ Len(cl'.fifo) = Len(rest) + 1
          /\ Chain(ParserAt', cl'.fifo) /\ EndOf(ParserAt', cl'.fifo) = e
      <4>1. Follows(EndOf(ParserAt', rest), e)
        BY <1>5, <2>5 DEF e
      <4> QED
        BY <1>1, <3>1, <3>2, <4>1, ChainMore
    <3>4. Len(cl'.fifo) <= IF_DEPTH
      BY <1>0, <1>1, <1>3, <1>5, <2>5, <3>3
    <3>5. host'.pc = "poll" \/ host'.pc = "count"
      BY <1>7, <2>5 DEF ProceedsTo
    <3>6. ASSUME host'.pc = "poll"
          PROVE  host'.t \in MsgType /\ host'.p \in 1 .. Length[host'.t] /\ Follows(e, HostByte')
      <4>1. CASE /\ host.p < Length[host.t]
                 /\ host'.k = host.k /\ host'.t = host.t /\ host'.p = host.p + 1
        <5>1. HostByte' = <<host.k, host.t, host.p + 1>>
          BY <4>1 DEF HostByte
        <5>2. host.p # Length[host.t]
          BY <1>0, <4>1
        <5> DEFINE l == Length[host.t]
        <5>3. l \in Nat /\ 12 <= l /\ host.p < l
          BY <3>1, <4>1, LengthBounds
        <5> HIDE DEF l
        <5>4. host.p + 1 \in 1 .. l
          BY <1>0, <5>3
        <5> QED
          BY <3>1, <3>2, <4>1, <5>1, <5>2, <5>4 DEF Follows, l
      <4>2. CASE /\ host.p = Length[host.t]
                 /\ host'.k = host.k + 1 /\ host'.t = t /\ host'.p = 1
        <5>1. HostByte' = <<host.k + 1, t, 1>>
          BY <4>2 DEF HostByte
        <5> DEFINE l == Length[t]
        <5>2. l \in Nat /\ 12 <= l
          BY LengthBounds
        <5> HIDE DEF l
        <5>3. 1 \in 1 .. l
          BY <5>2
        <5> QED
          BY <3>2, <4>2, <5>1, <5>3 DEF Follows, l
      <4> QED
        BY <1>7, <2>5, <3>6, <4>1, <4>2 DEF ProceedsTo
    <3> QED
      BY <3>3, <3>4, <3>5, <3>6 DEF LineInv
  <2>6. CASE host.pc \notin {"clear", "poll", "push"}
    <3>1. cl'.fifo = rest
      BY <1>2, <2>2, <2>6
    <3>2. host'.pc \notin {"clear", "poll", "push"}
      BY <1>0, <1>7, <2>1, <2>6 DEF ProceedsTo, Reading, PCs
    <3> QED
      BY <1>0, <1>1, <1>3, <1>5, <3>1, <3>2 DEF LineInv
  <2> QED
    BY <2>3, <2>4, <2>5, <2>6
<1> QED
  BY <1>6, <1>7
-----------------------------------------------------------------------------
(* The answers, the capture and the measurements.                          *)

LEMMA MinOfTwo ==
  ASSUME NEW a \in Nat, NEW b \in Nat
  PROVE  Min({a, b}) \in Nat /\ Min({a, b}) = IF a <= b THEN a ELSE b
<1> DEFINE m == Min({a, b})
<1>1. m \in {a, b} /\ \A y \in {a, b} : m <= y
  BY MinLeast
<1> HIDE DEF m
<1>2. m \in Nat /\ m = IF a <= b THEN a ELSE b
  BY <1>1
<1> QED
  BY <1>2 DEF m

LEMMA BucketIn == ASSUME NEW d \in Nat PROVE bucket(d) \in Buckets /\ bucket(d) \in Nat
BY F1Assumption DEF bucket, Buckets

\* What the bridge and the latency counter answer to the access the host is at.
LEMMA Answers ==
  ASSUME HostType, BusType, ClType, LatType, HostInv, BusInv, LatInv, NEW pop, ClNext(pop),
         NEW start, LatNext(start)
  PROVE  /\ cl'.rdata =
              IF bus.ar /\ host.pc \notin {"hist", "last"}
                THEN IF host.pc = "poll" THEN IF if_full THEN 1 ELSE 0
                     ELSE IF host.pc = "count" THEN Len(cl.dec)
                     ELSE cl.dec[Len(host.decisions) + 1]
              ELSE IF cl.rst_r = "fwd" /\ lat.rvalid THEN lat.rdata ELSE cl.rdata
         /\ bus.ar => host.pc \in {"poll", "count", "decisions", "hist", "last"}
         /\ lat'.rdata = IF ~present THEN lat.rdata
                         ELSE IF host.pc = "hist" THEN lat.hist[Len(host.hist)] ELSE lat.last
         /\ present => cl.rst_r = "fwd" /\ bus.op = "read" /\ host.pc \in {"hist", "last"}
<1>1. /\ host.pc \in PCs /\ bus.op \in {"none", "write", "read"} /\ bus.ar \in BOOLEAN
      /\ lat.ar_active \in BOOLEAN
  BY DEF HostType, BusType, LatType
<1>2. /\ bus.ar => bus.op = "read" /\ cl.rst_r = "idle"
      /\ bus.op = "read" => host.pc \in {"poll", "count", "decisions", "hist", "last"}
      /\ bus.op # "none" => bus.addr = AddrOf
  BY <1>1 DEF BusInv, PCs
<1>3. bus.op # "none" => (is_low(bus.addr) <=> host.pc \in {"clear", "hist", "last"})
  BY <1>1, Addresses
<1>4. cl'.rdata = IF read_start /\ ~is_low(bus.addr) THEN local_read(bus.addr)
                  ELSE IF cl.rst_r = "fwd" /\ lat.rvalid THEN lat.rdata ELSE cl.rdata
  BY DEF ClNext, rdata_nxt
<1>5. ASSUME bus.ar, host.pc \notin {"hist", "last"}
      PROVE  local_read(bus.addr) = IF host.pc = "poll" THEN IF if_full THEN 1 ELSE 0
                                    ELSE IF host.pc = "count" THEN Len(cl.dec)
                                    ELSE cl.dec[Len(host.decisions) + 1]
  <2>1. CASE host.pc = "poll"
    <3>1. bus.addr = <<"status", 0>>
      BY <1>2, <1>5, <2>1 DEF AddrOf
    <3> QED
      BY <2>1, <3>1 DEF local_read
  <2>2. CASE host.pc = "count"
    <3>1. bus.addr = <<"count", 0>>
      BY <1>2, <1>5, <2>2 DEF AddrOf
    <3> QED
      BY <2>2, <3>1 DEF local_read
  <2>3. CASE host.pc = "decisions"
    <3>1. bus.addr = <<"dec", Len(host.decisions) + 1>>
      BY <1>2, <1>5, <2>3 DEF AddrOf
    <3> QED
      BY <2>3, <3>1 DEF local_read
  <2> QED
    BY <1>2, <1>5, <2>1, <2>2, <2>3
<1>6. read_start /\ ~is_low(bus.addr) <=> bus.ar /\ host.pc \notin {"hist", "last"}
  BY <1>1, <1>2, <1>3 DEF read_start
<1>7. present => cl.rst_r = "fwd" /\ bus.op = "read" /\ host.pc \in {"hist", "last"}
  BY <1>1 DEF present, LatInv, BusInv
<1>8. ASSUME present
      PROVE  lat'.rdata = IF host.pc = "hist" THEN lat.hist[Len(host.hist)] ELSE lat.last
  <2>1. lat'.rdata = IF bus.addr[1] = "hist" THEN lat.hist[bus.addr[2]] ELSE lat.last
    BY <1>8 DEF LatNext
  <2>2. CASE host.pc = "hist"
    <3>1. bus.addr = <<"hist", Len(host.hist)>>
      BY <1>2, <1>7, <1>8, <2>2 DEF AddrOf
    <3> QED
      BY <2>1, <2>2, <3>1
  <2>3. CASE host.pc = "last"
    <3>1. bus.addr = <<"last", 0>>
      BY <1>2, <1>7, <1>8, <2>3 DEF AddrOf
    <3> QED
      BY <2>1, <2>3, <3>1
  <2> QED
    BY <1>7, <1>8, <2>2, <2>3
<1>9. ~present => lat'.rdata = lat.rdata
  BY DEF LatNext
<1> QED
  BY <1>2, <1>4, <1>5, <1>6, <1>7, <1>8, <1>9

\* The types of the records of the bridge and of the latency counter after a cycle.
LEMMA ClTypeStep ==
  ASSUME HostType, BusType, ClType, LatType, HostInv, BusInv, LatInv, CoreType,
         NEW pop, ClNext(pop), cl'.fifo \in Seq(Beat), NEW start, LatNext(start)
  PROVE  ClType'
<1>1. cl'.dec \in Seq(Int)
  BY DEF ClNext, ClType
<1>2. cl'.m_axis \in Nat
  BY DEF ClNext, CoreType
<1>3. cl'.wst \in Channel /\ cl'.rst_r \in Channel
  <2>1. host.pc \in PCs
    BY DEF HostType
  <2> QED
    BY <2>1, Channels DEF ClNext, Channel
<1>4. cl'.rdata \in Int
  <2>1. CASE bus.ar /\ host.pc \notin {"hist", "last", "poll", "count"}
    <3>1. host.pc = "decisions" /\ cl'.rdata = cl.dec[Len(host.decisions) + 1]
      BY <2>1, Answers
    <3>2. Len(host.decisions) + 1 \in 1 .. Len(cl.dec)
      <4>1. Len(host.decisions) \in Nat /\ host.count \in Nat /\ Len(cl.dec) \in Nat
        BY DEF HostType, ClType
      <4> QED
        BY <3>1, <4>1 DEF HostInv
    <3> QED
      BY <3>1, <3>2, ElementOfSeq DEF ClType
  <2>2. CASE ~(bus.ar /\ host.pc \notin {"hist", "last", "poll", "count"})
    <3>1. cl'.rdata \in {0, 1, Len(cl.dec), lat.rdata, cl.rdata}
      BY <2>2, Answers
    <3>2. Len(cl.dec) \in Int /\ lat.rdata \in Int /\ cl.rdata \in Int
      BY DEF ClType, LatType
    <3> QED
      BY <3>1, <3>2
  <2> QED
    BY <2>1, <2>2
<1>5. /\ cl'.if_push \in BOOLEAN /\ cl'.c_awvalid \in BOOLEAN /\ cl'.c_wvalid \in BOOLEAN
      /\ cl'.c_arvalid \in BOOLEAN /\ cl'.dec_overflow \in BOOLEAN
  BY DEF ClNext
<1> QED
  BY <1>1, <1>2, <1>3, <1>4, <1>5 DEF ClType

LEMMA LatTypeStep ==
  ASSUME HostType, BusType, ClType, LatType, HostInv, BusInv, LatInv,
         NEW pop, ClNext(pop), NEW start, LatNext(start)
  PROVE  LatType'
<1>1. lat'.hist \in [Buckets -> Nat]
  <2> DEFINE b == bucket(lat.delta_q)
  <2>1. lat'.hist = IF lat.do_clear THEN NoHist
                    ELSE IF lat.meas_valid_q THEN [lat.hist EXCEPT ![b] = @ + 1]
                    ELSE lat.hist
    BY DEF LatNext, hist_nxt
  <2>2. b \in Buckets /\ lat.hist \in [Buckets -> Nat] /\ NoHist \in [Buckets -> Nat]
    BY BucketIn DEF LatType, NoHist
  <2> HIDE DEF b
  <2> QED
    BY <2>1, <2>2
<1>2. lat'.age \in Nat /\ lat'.delta_q \in Nat /\ lat'.last \in Nat
  <2>1. lat'.age = (IF start THEN 1 ELSE Min({lat.age + 1, HIST_BUCKETS})) /\ lat'.delta_q = lat.age
        /\ lat'.last = IF lat.do_clear THEN 0 ELSE IF lat.meas_valid_q THEN lat.delta_q ELSE lat.last
    BY DEF LatNext
  <2>2. lat.age \in Nat /\ lat.last \in Nat /\ lat.delta_q \in Nat
    BY DEF LatType
  <2>3. lat.age + 1 \in Nat /\ HIST_BUCKETS \in Nat
    BY <2>2, F1Assumption
  <2>4. Min({lat.age + 1, HIST_BUCKETS}) \in Nat
    BY <2>3, MinOfTwo
  <2> QED
    BY <2>1, <2>2, <2>4
<1>3. lat'.rdata \in Nat
  <2>1. CASE present /\ host.pc = "hist"
    <3>1. Len(host.hist) \in Buckets
      <4>1. Len(host.hist) \in Nat
        BY DEF HostType
      <4> QED
        BY <2>1, <4>1, F1Assumption DEF HostInv, Buckets
    <3>2. lat'.rdata = lat.hist[Len(host.hist)]
      BY <2>1, Answers
    <3> QED
      BY <3>1, <3>2 DEF LatType
  <2>2. CASE ~(present /\ host.pc = "hist")
    <3>1. lat'.rdata \in {lat.rdata, lat.last}
      BY <2>2, Answers
    <3> QED
      BY <3>1 DEF LatType
  <2> QED
    BY <2>1, <2>2
<1>4. /\ lat'.measuring \in BOOLEAN /\ lat'.meas_valid_q \in BOOLEAN
      /\ lat'.aw_active \in BOOLEAN /\ lat'.bvalid \in BOOLEAN /\ lat'.do_clear \in BOOLEAN
      /\ lat'.ar_active \in BOOLEAN /\ lat'.rvalid \in BOOLEAN
  BY DEF LatNext, measuring_nxt
<1> QED
  BY <1>1, <1>2, <1>3, <1>4 DEF LatType

\* No bucket shrinks unless the histogram is cleared.
LEMMA HistGrows ==
  ASSUME LatType, NEW start, LatNext(start), ~lat.do_clear
  PROVE  \A b \in Buckets : lat.hist[b] \in Nat /\ lat'.hist[b] \in Nat /\ lat.hist[b] <= lat'.hist[b]
<1> DEFINE c == bucket(lat.delta_q)
<1>1. lat'.hist = IF lat.meas_valid_q THEN [lat.hist EXCEPT ![c] = @ + 1] ELSE lat.hist
  BY DEF LatNext, hist_nxt
<1>2. c \in Buckets /\ lat.hist \in [Buckets -> Nat]
  BY BucketIn DEF LatType
<1> HIDE DEF c
<1> QED
  BY <1>1, <1>2

\* A sequence of its own positions, and one more.
LEMMA PositionsMore ==
  ASSUME NEW s \in Seq(Int), s = [i \in 1 .. Len(s) |-> i]
  PROVE  LET c == Append(s, Len(s) + 1) IN c = [i \in 1 .. Len(c) |-> i]
<1> DEFINE n == Len(s)
           e == n + 1
           c == Append(s, e)
<1>1. n \in Nat /\ e \in Int
  OBVIOUS
<1>2. c \in Seq(Int) /\ Len(c) = e /\ c[e] = e /\ \A i \in 1 .. n : c[i] = s[i]
  BY <1>1, AppendedTo
<1>3. \A i \in 1 .. n : s[i] = i
  OBVIOUS
<1> HIDE DEF c, n
<1>4. \A i \in 1 .. e : c[i] = i
  BY <1>1, <1>2, <1>3
<1> HIDE DEF e
<1>5. c = [i \in 1 .. e |-> i]
  BY <1>2, <1>4
<1> QED
  BY <1>2, <1>5 DEF c, e, n

LEMMA DecGrows ==
  ASSUME ClType, NEW pop, ClNext(pop)
  PROVE  Len(cl.dec) \in Nat /\ Len(cl'.dec) \in Nat /\ Len(cl.dec) <= Len(cl'.dec)
<1> DEFINE d == cl.dec
           m == cl.m_axis
<1>1. d \in Seq(Int) /\ m \in Int /\ (cl'.dec = d \/ cl'.dec = Append(d, m))
  BY DEF ClType, ClNext
<1> HIDE DEF d, m
<1>2. Len(d) \in Nat /\ Len(Append(d, m)) = Len(d) + 1
  BY <1>1
<1> QED
  BY <1>1, <1>2 DEF d

\* An answer still holds when it arrives: only the clear, before any read, takes counts back.
LEMMA ReadStep ==
  ASSUME HostType, BusType, ClType, LatType, CoreType, HostInv, BusInv, LatInv, ReadInv, CaptureInv,
         Len(cl.fifo) <= IF_DEPTH, NEW pop \in BOOLEAN, pop => cl.fifo # <<>>, ClNext(pop),
         NEW start, LatNext(start), NEW t,
         Begins \/ Waits \/ (Ends(t) /\ ProceedsTo(cl.rdata, t) /\ HostType')
  PROVE  ReadInv'
<1>0. /\ host.pc \in PCs /\ bus.op \in {"none", "write", "read"} /\ bus.ar \in BOOLEAN
      /\ cl.wst \in {"idle", "fwd", "resp"} /\ cl.rst_r \in {"idle", "fwd", "resp"}
      /\ lat.rvalid \in BOOLEAN /\ lat.do_clear \in BOOLEAN /\ cl.if_push \in BOOLEAN
      /\ lat.bvalid \in BOOLEAN
  BY DEF HostType, BusType, ClType, LatType, Channel
<1>1. /\ host.hist \in Seq(Int) /\ host.decisions \in Seq(Int) /\ cl.rdata \in Int
      /\ Len(host.hist) \in Nat /\ Len(host.decisions) \in Nat /\ Len(host.hist) <= HIST_BUCKETS
      /\ host.count \in Nat
  <2>1. host.hist \in Seq(Int) /\ host.decisions \in Seq(Int) /\ cl.rdata \in Int /\ host.count \in Nat
    BY DEF HostType, ClType
  <2>2. Len(host.hist) <= HIST_BUCKETS
    BY DEF HostInv
  <2> QED
    BY <2>1, <2>2
<1>2. lat.do_clear => host.pc = "clear" /\ bus.op = "write" /\ cl.wst = "fwd" /\ cl.rst_r = "idle"
                      /\ ~bus.ar /\ host.hist = <<>>
  BY <1>0 DEF LatInv, BusInv, HostInv
<1>3. /\ bus.op = "read" => host.pc \in {"poll", "count", "decisions", "hist", "last"}
      /\ bus.op = "write" => host.pc \in {"clear", "push"}
      /\ bus.ar => bus.op = "read" /\ cl.rst_r = "idle"
      /\ cl.rst_r # "idle" => bus.op = "read"
      /\ cl.wst # "idle" => bus.op = "write"
      /\ cl.rst_r = "fwd" => host.pc \in {"hist", "last"}
  BY <1>0 DEF BusInv, PCs
<1>4. cl'.rst_r = IF cl.rst_r = "resp" \/ (cl.rst_r = "idle" /\ ~bus.ar) THEN "idle"
                  ELSE IF cl.rst_r = "idle" /\ host.pc \notin {"hist", "last"} THEN "resp"
                  ELSE IF cl.rst_r = "fwd" /\ lat.rvalid THEN "resp" ELSE "fwd"
  BY <1>0, Channels DEF ClNext
<1>5. lat'.rvalid <=> present
  BY <1>0 DEF LatNext, LatInv
<1>6. /\ present => ~Answered /\ bus.op # "none"
      /\ cl'.rst_r = "resp" => ~Answered /\ bus.op # "none"
      /\ lat.do_clear => ~Answered /\ bus.op # "none" /\ ~present /\ cl'.rst_r # "resp"
  BY <1>0, <1>2, <1>3, <1>4, Answers DEF Answered
<1>7. /\ present => host' = host
      /\ cl'.rst_r = "resp" => host' = host
      /\ lat.do_clear => host' = host
  BY <1>6 DEF Begins, Waits, Ends
<1>8. host.pc = "hist" => Len(host.hist) \in Buckets
  BY <1>1, F1Assumption DEF HostInv, Buckets
<1>9. lat'.rvalid /\ host'.pc = "hist" => lat'.rdata <= lat'.hist[Len(host'.hist)]
  <2>1. SUFFICES ASSUME present, host.pc = "hist" PROVE lat'.rdata <= lat'.hist[Len(host.hist)]
    BY <1>5, <1>7
  <2>2. lat'.rdata = lat.hist[Len(host.hist)]
    BY <2>1, Answers
  <2> DEFINE b == Len(host.hist)
  <2>3. b \in Buckets /\ ~lat.do_clear
    BY <1>6, <1>8, <2>1
  <2> HIDE DEF b
  <2>4. lat.hist[b] <= lat'.hist[b]
    BY <2>3, HistGrows
  <2> QED
    BY <2>2, <2>4 DEF b
<1>10. cl'.rst_r = "resp" =>
         /\ host'.pc = "poll" => cl'.rdata = 1 \/ Len(cl'.fifo) < IF_DEPTH
         /\ host'.pc = "count" => cl'.rdata \in 0 .. Len(cl'.dec)
         /\ host'.pc = "decisions" => cl'.rdata = Len(host'.decisions) + 1
         /\ host'.pc = "hist" => cl'.rdata <= lat'.hist[Len(host'.hist)]
  <2>1. SUFFICES ASSUME cl'.rst_r = "resp"
                 PROVE  /\ host.pc = "poll" => cl'.rdata = 1 \/ Len(cl'.fifo) < IF_DEPTH
                        /\ host.pc = "count" => cl'.rdata \in 0 .. Len(cl'.dec)
                        /\ host.pc = "decisions" => cl'.rdata = Len(host.decisions) + 1
                        /\ host.pc = "hist" => cl'.rdata <= lat'.hist[Len(host.hist)]
    BY <1>7
  <2>2. CASE cl.rst_r = "idle" /\ bus.ar /\ host.pc \notin {"hist", "last"}
    <3>1. cl'.rdata = IF host.pc = "poll" THEN IF if_full THEN 1 ELSE 0
                      ELSE IF host.pc = "count" THEN Len(cl.dec)
                      ELSE cl.dec[Len(host.decisions) + 1]
      BY <2>2, Answers
    <3>2. CASE host.pc = "poll"
      <4>1. SUFFICES ASSUME ~if_full PROVE Len(cl'.fifo) < IF_DEPTH
        BY <3>1, <3>2
      <4>2. ~cl.if_push
        BY <1>0, <3>2 DEF BusInv
      <4>3. cl'.fifo = IF pop THEN Tail(cl.fifo) ELSE cl.fifo
        BY <4>2 DEF ClNext, ififo
      <4>4. Len(cl.fifo) \in Nat /\ Len(cl.fifo) < IF_DEPTH
        BY <4>1, F1Assumption DEF if_full, ClType
      <4>5. pop => Len(Tail(cl.fifo)) = Len(cl.fifo) - 1
        <5> DEFINE q == cl.fifo
        <5>1. pop => q \in Seq(Beat) /\ q # <<>>
          BY DEF ClType
        <5> HIDE DEF q
        <5>2. pop => Len(Tail(q)) = Len(q) - 1
          BY <5>1, EmptySeq
        <5> QED
          BY <5>2 DEF q
      <4> QED
        BY <4>3, <4>4, <4>5, F1Assumption
    <3>3. CASE host.pc = "count"
      BY <3>1, <3>3, DecGrows
    <3>4. CASE host.pc = "decisions"
      <4> DEFINE x == Len(host.decisions) + 1
      <4>1. x \in 1 .. Len(cl.dec)
        BY <1>1, <3>4, DecGrows DEF HostInv
      <4>2. cl.dec[x] = x
        <5>1. cl.dec = [i \in 1 .. Len(cl.dec) |-> i]
          BY DEF CaptureInv
        <5> HIDE DEF x
        <5> QED
          BY <4>1, <5>1
      <4> QED
        BY <3>1, <3>4, <4>2
    <3> QED
      BY <2>2, <3>2, <3>3, <3>4
  <2>3. CASE cl.rst_r = "fwd" /\ lat.rvalid
    <3>1. ~bus.ar /\ host.pc \in {"hist", "last"} /\ cl'.rdata = lat.rdata
      BY <1>0, <1>3, <2>3, Answers
    <3>2. CASE host.pc = "hist"
      <4> DEFINE b == Len(host.hist)
      <4>1. b \in Buckets /\ ~lat.do_clear /\ lat.rdata <= lat.hist[b] /\ lat.rdata \in Nat
        BY <1>6, <1>8, <2>1, <2>3, <3>2 DEF ReadInv, LatType
      <4> HIDE DEF b
      <4>2. lat.hist[b] \in Nat /\ lat'.hist[b] \in Nat /\ lat.hist[b] <= lat'.hist[b]
        BY <4>1, HistGrows
      <4>3. cl'.rdata <= lat'.hist[b]
        BY <3>1, <4>1, <4>2
      <4> QED
        BY <3>2, <4>3 DEF b
    <3> QED
      BY <3>1, <3>2
  <2> QED
    BY <1>0, <1>4, <2>1, <2>2, <2>3
<1>11. \A n \in 1 .. Len(host'.hist) : host'.hist[n] <= lat'.hist[n - 1]
  <2>1. ASSUME ~lat.do_clear, NEW n \in 1 .. Len(host.hist) PROVE host.hist[n] <= lat'.hist[n - 1]
    <3> DEFINE b == n - 1
    <3>a. host.hist[n] <= lat.hist[b]
      BY DEF ReadInv
    <3>b. host.hist[n] \in Int
      <4>1. host.hist \in Seq(Int)
        BY <1>1
      <4> QED
        BY ONLY <4>1, ElementOfSeq
    <3>c. b \in Buckets
      BY <1>1, F1Assumption DEF Buckets
    <3>1. b \in Buckets /\ host.hist[n] <= lat.hist[b] /\ host.hist[n] \in Int
      BY <3>a, <3>b, <3>c
    <3> HIDE DEF b
    <3>2. lat.hist[b] \in Nat /\ lat'.hist[b] \in Nat /\ lat.hist[b] <= lat'.hist[b]
      BY <2>1, <3>1, HistGrows
    <3>3. host.hist[n] <= lat'.hist[b]
      BY <3>1, <3>2
    <3> QED
      BY <3>3 DEF b
  <2>2. CASE host' = host
    <3>1. CASE lat.do_clear
      <4>1. Len(host'.hist) = 0
        BY <1>2, <2>2, <3>1
      <4> QED
        BY <4>1
    <3> QED
      BY <2>1, <2>2, <3>1
  <2>3. CASE host' # host /\ host.pc # "hist"
    <3>a. Ends(t) /\ ProceedsTo(cl.rdata, t)
      BY <2>3 DEF Begins, Waits
    <3>b. host.pc \in {"clear", "push", "poll", "count", "decisions", "last"}
      <4>1. bus.op = "read" \/ bus.op = "write"
        BY ONLY <3>a DEF Ends, Answered
      <4>2. host.pc # "hist"
        BY <2>3
      <4> QED
        BY ONLY <1>3, <4>1, <4>2
    <3>c. host'.hist = host.hist
      BY <3>a, <3>b DEF ProceedsTo, Kept
    <3>1. host'.hist = host.hist /\ ~lat.do_clear
      BY <1>7, <2>3, <3>c
    <3> QED
      BY <2>1, <3>1
  <2>4. CASE host' # host /\ host.pc = "hist"
    <3> DEFINE h == host.hist
               n == Len(h)
               v == cl.rdata
    <3>1. host'.hist = Append(h, v) /\ ~lat.do_clear /\ Answered
      BY <1>7, <2>4 DEF Begins, Waits, ProceedsTo, Ends
    <3>2. cl.rst_r = "resp"
      BY <1>3, <2>4, <3>1 DEF Answered
    <3>3. v <= lat.hist[n] /\ n \in Buckets /\ v \in Int /\ h \in Seq(Int) /\ n \in Nat
      BY <1>1, <1>8, <2>4, <3>2 DEF ReadInv
    <3>4. \A i \in 1 .. n : h[i] <= lat'.hist[i - 1]
      BY <2>1, <3>1
    <3> HIDE DEF h, v
    <3>5. Len(host'.hist) = n + 1 /\ host'.hist[n + 1] = v /\ \A i \in 1 .. n : host'.hist[i] = h[i]
      BY <3>1, <3>3, AppendedTo
    <3> HIDE DEF n
    <3>6. lat.hist[n] \in Nat /\ lat'.hist[n] \in Nat /\ lat.hist[n] <= lat'.hist[n]
      BY <3>1, <3>3, HistGrows
    <3>7. ASSUME NEW i \in 1 .. n + 1 PROVE host'.hist[i] <= lat'.hist[i - 1]
      <4>1. CASE i = n + 1
        <5>1. i - 1 = n /\ host'.hist[i] = v /\ v <= lat'.hist[n]
          BY <3>3, <3>5, <3>6, <4>1, SMTT(30)
        <5> QED
          BY <5>1
      <4>2. CASE i # n + 1
        <5>1. i \in 1 .. n
          BY <3>3, <4>2
        <5> QED
          BY <3>4, <3>5, <5>1
      <4> QED
        BY <4>1, <4>2
    <3> QED
      BY <3>5, <3>7
  <2> QED
    BY <2>2, <2>3, <2>4
<1>12. host'.decisions = [i \in 1 .. Len(host'.decisions) |-> i]
  <2>1. CASE host' = host \/ host.pc # "decisions"
    <3>1. host'.decisions = host.decisions
      BY <1>0, <2>1 DEF Begins, Waits, ProceedsTo, Kept, PCs, Ends, Answered, BusInv
    <3> QED
      BY <3>1 DEF ReadInv
  <2>2. CASE host' # host /\ host.pc = "decisions"
    <3> DEFINE s == host.decisions
    <3>1. host'.decisions = Append(s, cl.rdata) /\ Answered
      BY <2>2 DEF Begins, Waits, ProceedsTo, Ends
    <3>2. cl.rst_r = "resp"
      BY <1>3, <2>2, <3>1 DEF Answered
    <3>3. cl.rdata = Len(s) + 1 /\ s = [i \in 1 .. Len(s) |-> i] /\ s \in Seq(Int)
      BY <1>1, <2>2, <3>2 DEF ReadInv
    <3> HIDE DEF s
    <3>4. LET c == Append(s, Len(s) + 1) IN c = [i \in 1 .. Len(c) |-> i]
      BY <3>3, PositionsMore
    <3> QED
      BY <3>1, <3>3, <3>4
  <2> QED
    BY <2>1, <2>2
<1> QED
  BY <1>9, <1>10, <1>11, <1>12 DEF ReadInv

Decides(d) == core'.risk_valid = d /\ core'.emitted = core.emitted + One(d)

\* A decision moves from the core to m_axis to the capture, or sets the overflow bit.
LEMMA CaptureStep ==
  ASSUME ClType, CoreType, CaptureInv, NEW pop, ClNext(pop), NEW d \in BOOLEAN, Decides(d)
  PROVE  CaptureInv' /\ CoreType'
<1> DEFINE e == core.emitted
           r == core.risk_valid
           m == cl.m_axis
           n == Len(cl.dec)
           a == e - In_flight
           x == One(m # 0)
<1>1. e \in Nat /\ r \in BOOLEAN /\ m \in Nat /\ n \in Nat /\ DEC_CAP \in Nat
  BY F1Assumption DEF CoreType, ClType
<1>2. x \in {0, 1} /\ (x = 1 <=> m # 0) /\ One(r) \in {0, 1} /\ (One(r) = 1 <=> r) /\ One(d) \in {0, 1}
      /\ (One(d) = 1 <=> d)
  BY <1>1 DEF One
<1>3. In_flight = One(r) + x
  BY DEF In_flight, One
<1>4. In_flight <= e /\ a \in Nat /\ a = e - One(r) - x
  <2>1. In_flight <= e
    BY DEF CaptureInv
  <2> DEFINE o == One(r)
             i == In_flight
  <2>2. o \in {0, 1} /\ i = o + x /\ i <= e
    BY <1>2, <1>3, <2>1
  <2> HIDE DEF o, i, x
  <2>3. e - i \in Nat /\ e - i = e - o - x
    BY <1>1, <1>2, <2>2
  <2> QED
    BY <2>1, <2>3 DEF o, i
<1>5. cl'.m_axis = IF r THEN e ELSE 0
  BY DEF ClNext
<1>6. cl'.m_axis # 0 <=> r
  <2>1. CASE r
    <3>1. One(r) = 1
      BY <2>1 DEF One
    <3>2. e # 0
      BY <1>1, <1>2, <1>3, <1>4, <3>1
    <3> QED
      BY <1>5, <2>1, <3>2
  <2>2. CASE ~r
    BY <1>5, <2>2
  <2> QED
    BY <2>1, <2>2
<1>7. core'.risk_valid = d /\ core'.emitted = e + One(d)
  BY DEF Decides
<1>8. In_flight' = One(d) + One(r)
  BY <1>6, <1>7 DEF In_flight, One
<1>9. m # 0 => m = a + 1
  BY <1>1, <1>2, <1>4 DEF CaptureInv
<1>10. n = (IF DEC_CAP <= a THEN DEC_CAP ELSE a) /\ (cl.dec_overflow <=> a > DEC_CAP)
  BY <1>1, <1>4, MinOfTwo DEF CaptureInv
<1>11. /\ cl'.dec = IF m # 0 /\ n < DEC_CAP THEN Append(cl.dec, m) ELSE cl.dec
       /\ cl'.dec_overflow = (cl.dec_overflow \/ (m # 0 /\ ~(m # 0 /\ n < DEC_CAP)))
  BY DEF ClNext
<1>12. core'.emitted - In_flight' = a + x /\ In_flight' <= core'.emitted /\ core'.emitted - One(d) = e
  BY <1>1, <1>2, <1>4, <1>7, <1>8, SMTT(30)
<1>13. cl.dec = [i \in 1 .. n |-> i] /\ cl.dec \in Seq(Int)
  BY DEF CaptureInv, ClType
<1> HIDE DEF a, x, e, r, m
<1>14. cl'.dec = [i \in 1 .. Len(cl'.dec) |-> i] /\ Len(cl'.dec) = IF m # 0 /\ n < DEC_CAP THEN n + 1 ELSE n
  <2> DEFINE s == cl.dec
  <2>1. CASE m # 0 /\ n < DEC_CAP
    <3>1. cl'.dec = Append(s, Len(s) + 1) /\ s \in Seq(Int) /\ s = [i \in 1 .. Len(s) |-> i]
      BY <1>1, <1>4, <1>9, <1>10, <1>11, <1>13, <2>1
    <3> HIDE DEF s
    <3>2. LET c == Append(s, Len(s) + 1) IN c = [i \in 1 .. Len(c) |-> i]
      BY <3>1, PositionsMore
    <3>3. Len(Append(s, Len(s) + 1)) = Len(s) + 1
      BY <3>1
    <3> QED
      BY <2>1, <3>1, <3>2, <3>3 DEF s
  <2>2. CASE ~(m # 0 /\ n < DEC_CAP)
    BY <1>11, <1>13, <2>2
  <2> QED
    BY <2>1, <2>2
<1> HIDE DEF n
<1>15. Len(cl'.dec) = Min({DEC_CAP, core'.emitted - In_flight'})
  <2>1. a + x \in Nat
    BY <1>2, <1>4
  <2>2. Len(cl'.dec) = IF DEC_CAP <= a + x THEN DEC_CAP ELSE a + x
    BY <1>1, <1>2, <1>4, <1>10, <1>14
  <2> QED
    BY <1>1, <1>12, <2>1, <2>2, MinOfTwo
<1>16. cl'.dec_overflow <=> core'.emitted - In_flight' > DEC_CAP
  <2>1. cl'.dec_overflow <=> a + x > DEC_CAP
    <3>1. CASE cl.dec_overflow
      <4>1. cl'.dec_overflow
        BY <1>11, <3>1
      <4>2. a + x > DEC_CAP
        BY <1>1, <1>2, <1>4, <1>10, <3>1
      <4> QED
        BY <4>1, <4>2
    <3>2. CASE ~cl.dec_overflow
      <4>1. cl'.dec_overflow <=> m # 0 /\ ~(n < DEC_CAP)
        BY <1>11, <3>2
      <4>2. m # 0 /\ ~(n < DEC_CAP) <=> a + x > DEC_CAP
        <5>1. a <= DEC_CAP /\ n = a
          BY <1>1, <1>4, <1>10, <3>2
        <5>2. CASE m # 0
          <6>1. x = 1
            BY <1>2, <5>2
          <6> QED
            BY <1>1, <1>4, <5>1, <5>2, <6>1
        <5>3. CASE m = 0
          <6>1. x = 0
            BY <1>2, <5>3
          <6> QED
            BY <1>1, <1>4, <5>1, <5>3, <6>1
        <5> QED
          BY <5>2, <5>3
      <4> QED
        BY <4>1, <4>2
    <3> QED
      BY <3>1, <3>2
  <2> QED
    BY <1>12, <2>1
<1>17. cl'.m_axis # 0 => cl'.m_axis = core'.emitted - One(core'.risk_valid)
  BY <1>5, <1>7, <1>12
<1>18. CoreType'
  BY <1>1, <1>2, <1>7 DEF CoreType
<1> QED
  BY <1>12, <1>14, <1>15, <1>16, <1>17, <1>18 DEF CaptureInv

LEMMA BucketsFinite == IsFiniteSet(Buckets)
BY F1Assumption, FS_Interval DEF Buckets

\* The total of a histogram is the sum of its buckets.
LEMMA TotalIsSum == ASSUME NEW h PROVE Total(h) = Sum(h, Buckets)
<1> DEFINE S == Buckets
           G(g) == [s \in SUBSET S |-> IF s = {} THEN 0
                      ELSE LET x == CHOOSE x \in s : TRUE IN h[x] + g[s \ {x}]]
           f == CHOOSE g : g = G(g)
           k == CHOOSE g : IsSum(g, h, S)
<1>1. Total(h) = f[S]
  BY DEF Total, MapThenSumSet, MapThenFoldSet
<1>2. Sum(h, S) = k[S]
  BY DEF Sum
<1>0. IsFiniteSet(S)
  BY BucketsFinite
<1> HIDE DEF S
<1>3. IsSum(k, h, S)
  BY <1>0, SumExists
<1>5. k = G(k)
  BY <1>3 DEF IsSum
<1>6. f = G(f)
  BY <1>5
<1>7. IsSum(f, h, S)
  BY <1>6 DEF IsSum
<1> HIDE DEF f, k
<1>8. f[S] = k[S]
  BY <1>0, <1>3, <1>7, SumUnique
<1> QED
  BY <1>1, <1>2, <1>8 DEF S

LEMMA TotalNone == Total(NoHist) = 0
<1> DEFINE A == {s \in SUBSET Buckets : Sum(NoHist, s) = 0}
<1>1. \A x \in Buckets : NoHist[x] = 0
  BY DEF NoHist
<1>2. ASSUME NEW n \in Nat, \A s \in SUBSET Buckets : Cardinality(s) = n => Sum(NoHist, s) = 0
      PROVE  \A s \in SUBSET Buckets : Cardinality(s) = n + 1 => Sum(NoHist, s) = 0
  <2>1. SUFFICES ASSUME NEW s \in SUBSET Buckets, Cardinality(s) = n + 1 PROVE Sum(NoHist, s) = 0
    OBVIOUS
  <2>2. IsFiniteSet(s) /\ s # {}
    BY <2>1, BucketsFinite, FS_Subset, FS_EmptySet
  <2> DEFINE x == CHOOSE x \in s : TRUE
             r == s \ {x}
  <2>3. x \in s /\ Cardinality(r) = n
    BY <2>1, <2>2, OneLess
  <2>4. Sum(NoHist, s) = NoHist[x] + Sum(NoHist, r)
    BY <2>2, SumEquations
  <2>5. r \in SUBSET Buckets
    OBVIOUS
  <2> HIDE DEF r, x
  <2>6. Sum(NoHist, r) = 0
    BY <1>2, <2>3, <2>5
  <2> QED
    BY <1>1, <2>3, <2>4, <2>6
<1> DEFINE B == {n \in Nat : \A s \in SUBSET Buckets : Cardinality(s) = n => Sum(NoHist, s) = 0}
<1>3. 0 \in B
  <2>1. ASSUME NEW s \in SUBSET Buckets, Cardinality(s) = 0 PROVE Sum(NoHist, s) = 0
    <3>1. IsFiniteSet(s) /\ s = {}
      BY <2>1, BucketsFinite, FS_Subset, FS_EmptySet
    <3> QED
      BY <3>1, SumEquations
  <2> QED
    BY <2>1
<1>4. B = Nat
  <2>1. \A n \in B : n + 1 \in B
    BY <1>2
  <2>2. B \in SUBSET Nat
    OBVIOUS
  <2> HIDE DEF B
  <2> QED
    BY <1>3, <2>1, <2>2, NatInduct
<1>5. Cardinality(Buckets) \in B
  BY <1>4, BucketsFinite, FS_CardinalityType
<1> QED
  BY <1>5, TotalIsSum

LEMMA SumMoved ==
  ASSUME NEW S, IsFiniteSet(S), NEW h, NEW g, NEW b \in S, \A x \in S : h[x] \in Int,
         g[b] \in Int, \A x \in S \ {b} : g[x] = h[x]
  PROVE  Sum(g, S) = Sum(h, S) - h[b] + g[b]
BY SumPoint

LEMMA TotalOneMore ==
  ASSUME NEW h \in [Buckets -> Nat], NEW b \in Buckets
  PROVE  Total([h EXCEPT ![b] = @ + 1]) = Total(h) + 1
<1> DEFINE g == [h EXCEPT ![b] = @ + 1]
           S == Buckets
<1>1. \A x \in S : h[x] \in Int
  OBVIOUS
<1>2. g[b] = h[b] + 1 /\ h[b] \in Int
  OBVIOUS
<1>8. g[b] \in Int
  BY <1>2
<1>3. \A x \in S \ {b} : g[x] = h[x]
  OBVIOUS
<1>4. IsFiniteSet(S) /\ b \in S
  BY BucketsFinite
<1>5. Total(g) = Sum(g, S) /\ Total(h) = Sum(h, S)
  BY TotalIsSum
<1> HIDE DEF g, S
<1>6. Sum(g, S) = Sum(h, S) - h[b] + g[b]
  BY <1>1, <1>3, <1>4, <1>8, SumMoved
<1>7. Sum(h, S) \in Int
  BY <1>1, <1>4, SumType
<1> QED
  BY <1>1, <1>2, <1>4, <1>5, <1>6, <1>7 DEF g

\* What the latency counter does to its histogram.
LEMMA TotalStep ==
  ASSUME LatType, Total(lat.hist) \in Nat, NEW start, LatNext(start)
  PROVE  Total(lat'.hist) = IF lat.do_clear THEN 0
                            ELSE Total(lat.hist) + One(lat.meas_valid_q)
<1> DEFINE h == lat.hist
           g == lat'.hist
           b == bucket(lat.delta_q)
<1>1. g = IF lat.do_clear THEN NoHist
          ELSE IF lat.meas_valid_q THEN [h EXCEPT ![b] = @ + 1] ELSE h
  BY DEF LatNext, hist_nxt
<1>2. b \in Buckets /\ h \in [Buckets -> Nat]
  BY BucketIn DEF LatType
<1> HIDE DEF h, g, b
<1>3. CASE lat.do_clear
  BY <1>1, <1>3, TotalNone DEF g
<1>4. CASE ~lat.do_clear /\ lat.meas_valid_q
  <2>1. g = [h EXCEPT ![b] = @ + 1]
    BY <1>1, <1>4
  <2>2. Total(g) = Total(h) + 1
    BY <1>2, <2>1, TotalOneMore
  <2> QED
    BY <1>4, <2>2 DEF One, h, g
<1>5. CASE ~lat.do_clear /\ ~lat.meas_valid_q
  <2>1. g = h
    BY <1>1, <1>5
  <2> QED
    BY <1>5, <2>1 DEF One, h, g
<1> QED
  BY <1>3, <1>4, <1>5

\* A decision takes the measurement under way with it, and a message starts at most one.
LEMMA MeasureStep ==
  ASSUME LatType, CoreType, MeasureInv, NEW start \in BOOLEAN, LatNext(start),
         NEW d \in BOOLEAN, Decides(d), Len(types) \in Nat, Len(types') = Len(types) + One(start)
  PROVE  MeasureInv'
<1> DEFINE T == Total(lat.hist)
           U == Total(lat'.hist)
           e == core.emitted
           l == Len(types)
<1>1. /\ core.risk_valid \in BOOLEAN /\ e \in Nat
      /\ lat.measuring \in BOOLEAN /\ lat.meas_valid_q \in BOOLEAN /\ lat.do_clear \in BOOLEAN
  BY DEF CoreType, LatType
<1>2. T \in Nat /\ U = IF lat.do_clear THEN 0 ELSE T + One(lat.meas_valid_q)
  BY TotalStep DEF MeasureInv
<1>3. /\ lat'.measuring = ((lat.measuring \/ start) /\ ~core.risk_valid)
      /\ lat'.meas_valid_q = (core.risk_valid /\ lat.measuring /\ ~lat.do_clear)
  BY DEF LatNext, measuring_nxt
<1>4. \A b \in BOOLEAN : One(b) \in {0, 1} /\ (One(b) = 1 <=> b)
  BY DEF One
<1> DEFINE mv == One(lat.meas_valid_q)
           ms == One(lat.measuring)
           r == One(core.risk_valid)
           s == One(start)
           mv2 == One(lat'.meas_valid_q)
           ms2 == One(lat'.measuring)
<1>5. /\ mv \in {0, 1} /\ ms \in {0, 1} /\ r \in {0, 1} /\ s \in {0, 1} /\ mv2 \in {0, 1} /\ ms2 \in {0, 1}
      /\ mv2 <= r /\ mv2 + ms2 <= ms + s /\ (lat.do_clear => mv2 = 0)
  <2>1. CASE core.risk_valid
    <3>1. ~lat'.measuring /\ lat'.meas_valid_q = (lat.measuring /\ ~lat.do_clear)
      BY <1>1, <1>3, <2>1
    <3>2. r = 1 /\ ms2 = 0 /\ ms \in {0, 1} /\ mv \in {0, 1} /\ s \in {0, 1}
      BY <2>1, <3>1 DEF One
    <3>3. mv2 = IF lat.measuring /\ ~lat.do_clear THEN 1 ELSE 0
      BY <3>1 DEF One
    <3>4. mv2 <= ms /\ mv2 \in {0, 1} /\ (lat.do_clear => mv2 = 0)
      BY <1>1, <3>3 DEF One
    <3> HIDE DEF mv, ms, r, s, mv2, ms2
    <3> QED
      BY <3>2, <3>4
  <2>2. CASE ~core.risk_valid
    <3>1. lat'.measuring = (lat.measuring \/ start) /\ ~lat'.meas_valid_q
      BY <1>1, <1>3, <2>2
    <3> QED
      BY <1>1, <1>4, <2>2, <3>1 DEF One
  <2> QED
    BY <1>1, <2>1, <2>2
<1>6. T + mv + r <= e /\ T + mv + ms <= l
  BY DEF MeasureInv
<1>7. core'.risk_valid = d /\ core'.emitted = e + One(d) /\ One(d) \in {0, 1} /\ Len(types') = l + s
  BY <1>4 DEF Decides
<1>8. lat'.last # 0 => lat'.hist[bucket(lat'.last)] > 0
  <2> DEFINE b == bucket(lat.delta_q)
             c == bucket(lat.last)
  <2>1. /\ lat'.last = IF lat.do_clear THEN 0 ELSE IF lat.meas_valid_q THEN lat.delta_q ELSE lat.last
        /\ lat'.hist = IF lat.do_clear THEN NoHist
                       ELSE IF lat.meas_valid_q THEN [lat.hist EXCEPT ![b] = @ + 1] ELSE lat.hist
    BY DEF LatNext, hist_nxt
  <2>2. b \in Buckets /\ c \in Buckets /\ lat.hist \in [Buckets -> Nat]
    BY BucketIn DEF LatType
  <2>3. CASE lat.do_clear
    BY <2>1, <2>3
  <2>4. CASE ~lat.do_clear /\ lat.meas_valid_q
    <3>1. bucket(lat'.last) = b
      BY <2>1, <2>4
    <3>2. lat'.hist[b] = lat.hist[b] + 1 /\ lat.hist[b] \in Nat
      <4> HIDE DEF b
      <4> QED
        BY <2>1, <2>2, <2>4
    <3> HIDE DEF b
    <3> QED
      BY <3>1, <3>2
  <2>5. CASE ~lat.do_clear /\ ~lat.meas_valid_q
    <3>1. lat'.last = lat.last /\ lat'.hist = lat.hist
      BY <2>1, <2>5
    <3> QED
      BY <3>1 DEF MeasureInv
  <2> QED
    BY <2>3, <2>4, <2>5
<1> HIDE DEF T, U, e, l, mv, ms, r, s, mv2, ms2
<1>9. U \in Nat /\ U <= T + mv
  BY <1>2, <1>5 DEF mv
<1>10. U + mv2 + One(d) <= e + One(d)
  BY <1>1, <1>2, <1>5, <1>6, <1>7, <1>9, SMTT(30)
<1>11. U + mv2 + ms2 <= l + s
  <2>1. l \in Nat
    BY DEF l
  <2> QED
    BY <1>2, <1>5, <1>6, <1>9, <2>1, SMTT(30)
<1> QED
  BY <1>7, <1>8, <1>9, <1>10, <1>11 DEF MeasureInv, U, mv2, ms2, e, l, s
-----------------------------------------------------------------------------
(* All of it together.                                                     *)

\* A clock edge with the host keeps all of it.
LEMMA CycleStep ==
  ASSUME ParserInv, CardInv, LineInv, NEW go \in BOOLEAN, NEW t \in OclTypes, NEW m_ready \in BOOLEAN,
         NEW decides \in BOOLEAN, Cycle(go, t, m_ready, decides)
  PROVE  ParserInv' /\ CardInv' /\ LineInv' /\ via' = via
<1> DEFINE tvalid == cl.fifo # <<>>
           beat == IF tvalid THEN Head(cl.fifo) ELSE <<0, "S", 0>>
           pop == tvalid /\ s_axis_tready(m_ready)
           start == pop /\ beat[3] = 1
<1>1. /\ via' = via /\ Clock(tvalid, beat[1], beat[2], beat[3], m_ready)
      /\ Latency(start) /\ Bridge(pop) /\ Host(go, t)
      /\ core' = [risk_valid |-> decides, emitted |-> core.emitted + IF decides THEN 1 ELSE 0]
  BY DEF Cycle
<1>2. /\ HostType /\ BusType /\ ClType /\ LatType /\ CoreType
      /\ HostInv /\ BusInv /\ LatInv /\ ReadInv /\ CaptureInv /\ MeasureInv
      /\ ParserType /\ Position
  BY DEF CardInv, ParserInv
<1>3. Decides(decides)
  BY <1>1 DEF Decides, One
<1>4. tvalid \in BOOLEAN /\ pop \in BOOLEAN /\ start \in BOOLEAN /\ (pop => tvalid)
  BY DEF s_axis_tready
<1>5. tvalid => NextByte(beat[1], beat[2], beat[3]) /\ beat = Head(cl.fifo)
  <2>1. SUFFICES ASSUME tvalid
                 PROVE  NextByte(Head(cl.fifo)[1], Head(cl.fifo)[2], Head(cl.fifo)[3])
    OBVIOUS
  <2>2. Head(cl.fifo) \in Beat /\ Follows(ParserAt, Head(cl.fifo))
    BY <1>2, <2>1, ChainTail DEF ClType, LineInv
  <2> QED
    BY <1>2, <2>2, FollowsNext
<1>6. Took(pop, Head(cl.fifo)) /\ Len(types) \in Nat /\ Len(types') = Len(types) + One(start)
  <2>0. types \in Seq(MsgType) /\ Len(types) \in Nat
    BY <1>2 DEF ParserType
  <2>1. CASE pop
    <3> DEFINE x == Head(cl.fifo)
    <3>1. pos' = beat[3] /\ types' = IF beat[3] = 1 THEN Append(types, beat[2]) ELSE types
      BY <1>1, <2>1 DEF Clock
    <3>2. beat = x
      BY <1>4, <1>5, <2>1
    <3> HIDE DEF x, beat
    <3>3. Took(pop, x)
      BY <2>1, <3>1, <3>2 DEF Took
    <3>4. beat[2] \in MsgType
      BY <1>4, <1>5, <2>1 DEF NextByte
    <3>5. Len(Append(types, beat[2])) = Len(types) + 1
      BY <2>0, <3>4
    <3>6. Len(types') = Len(types) + One(start)
      BY <2>0, <2>1, <3>1, <3>5 DEF One
    <3> QED
      BY <2>0, <3>3, <3>6 DEF x
  <2>2. CASE ~pop
    <3>1. types' = types /\ pos' = pos
      BY <1>1, <2>2 DEF Clock
    <3>2. One(start) = 0
      BY <2>2 DEF One
    <3> QED
      BY <2>0, <2>2, <3>1, <3>2 DEF Took
  <2> QED
    BY <2>1, <2>2
<1>7. ParserInv'
  <2> DEFINE k == beat[1]
             s == beat[2]
             p == beat[3]
  <2>1. Clock(tvalid, k, s, p, m_ready) /\ (tvalid => NextByte(k, s, p))
    BY <1>1, <1>5
  <2> HIDE DEF k, s, p, tvalid
  <2> QED
    BY <1>4, <2>1, ParserStep
<1> HIDE DEF start, pop, beat
<1>8. LatNext(start) /\ ClNext(pop)
  BY <1>1, LatFields, ClFields
<1>9. BusType' /\ (Begins \/ Ends(t) \/ Waits)
  BY <1>1, <1>2, HostMoves
<1>10. t \in MsgType
  BY F1Assumption
<1>11. Ends(t) => ProceedsTo(cl.rdata, t) /\ HostType'
  <2>1. SUFFICES ASSUME Ends(t) PROVE ProceedsTo(cl.rdata, t) /\ HostType'
    OBVIOUS
  <2>2. host' = proceed(cl.rdata, t) /\ Answered /\ bus.op # "none"
    BY <2>1 DEF Ends, Answered
  <2>3. host.pc # "done" /\ cl.rdata \in Int
    BY <1>2, <2>2 DEF BusInv, ClType
  <2>4. host.pc = "push" => host.t \in MsgType /\ host.p \in 1 .. Length[host.t]
    BY DEF LineInv
  <2>5. host.pc = "count" => cl.rdata \in Nat
    <3>1. SUFFICES ASSUME host.pc = "count" PROVE cl.rdata \in Nat
      OBVIOUS
    <3>2. cl.rst_r = "resp"
      BY <1>2, <2>2, <3>1 DEF Answered, BusInv
    <3>3. cl.rdata \in 0 .. Len(cl.dec) /\ Len(cl.dec) \in Nat
      BY <1>2, <3>1, <3>2 DEF ReadInv, ClType
    <3> QED
      BY <3>3
  <2> QED
    BY <1>2, <1>10, <2>2, <2>3, <2>4, <2>5, Proceeds
<1>12. Begins \/ Waits \/ (Ends(t) /\ ProceedsTo(cl.rdata, t) /\ HostType')
  BY <1>9, <1>11
<1>13. pop => cl.fifo # <<>>
  BY <1>4
<1>14. LineInv' /\ cl'.fifo \in Seq(Beat)
  BY <1>2, <1>4, <1>6, <1>8, <1>10, <1>12, <1>13, LineStep
<1>15. HostInv' /\ HostType'
  BY <1>2, <1>8, <1>12, HostStep
<1>16. BusInv' /\ LatInv'
  BY <1>2, <1>8, <1>9, BusStep, LatStep
<1>17. ClType' /\ LatType'
  BY <1>2, <1>8, <1>14, ClTypeStep, LatTypeStep
<1>18. ReadInv'
  <2>1. Len(cl.fifo) <= IF_DEPTH
    BY DEF LineInv
  <2> QED
    BY <1>2, <1>4, <1>8, <1>12, <1>13, <2>1, ReadStep
<1>19. CaptureInv' /\ CoreType'
  BY <1>2, <1>3, <1>8, CaptureStep
<1>20. MeasureInv'
  BY <1>2, <1>3, <1>4, <1>6, <1>8, MeasureStep
<1> QED
  BY <1>1, <1>7, <1>9, <1>14, <1>15, <1>16, <1>17, <1>18, <1>19, <1>20 DEF CardInv

\* The parser alone, with its source.
LEMMA SourceStep ==
  ASSUME ParserInv, ParserNext
  PROVE  ParserInv' /\ (types' = types \/ \E t \in MsgType : types' = Append(types, t))
<1>0. ParserType /\ Position
  BY DEF ParserInv
<1>1. ASSUME NEW tvalid \in BOOLEAN, NEW m_ready \in BOOLEAN, NEW t \in MsgType, Drive(tvalid, t, m_ready)
      PROVE  ParserInv' /\ (types' = types \/ types' = Append(types, t))
  <2>1. PICK k, p : NextByte(k, t, p) /\ Clock(tvalid, k, t, p, m_ready)
    <3>1. CASE Between
      BY <1>1, <3>1 DEF Drive, NextByte
    <3>2. CASE ~Between
      BY <1>1, <3>2 DEF Drive, NextByte
    <3> QED
      BY <3>1, <3>2
  <2>2. types' = types \/ types' = Append(types, t)
    BY <2>1 DEF Clock
  <2>3. ParserInv'
    BY <2>1, ParserStep
  <2> QED
    BY <2>2, <2>3
<1>2. ASSUME NEW m_ready \in BOOLEAN, Drain(m_ready) PROVE ParserInv' /\ types' = types
  <2>1. PICK k, s, p : Clock(FALSE, k, s, p, m_ready)
    BY <1>2 DEF Drain
  <2>2. types' = types
    BY <2>1 DEF Clock
  <2>3. ParserInv'
    BY <2>1, ParserStep
  <2> QED
    BY <2>2, <2>3
<1> QED
  BY <1>1, <1>2 DEF ParserNext

LEMMA ParserStutter == ASSUME ParserInv, UNCHANGED parser_vars PROVE ParserInv'
<1>1. /\ byte_cnt' = byte_cnt /\ msg_type_r' = msg_type_r /\ sr' = sr /\ m_valid' = m_valid
      /\ out' = out /\ types' = types /\ pos' = pos /\ taken' = taken
  BY DEF parser_vars
<1>2. Between' = Between /\ Handed' = Handed
  BY <1>1 DEF Between, Handed
<1>3. Complete' = Complete
  BY <1>1, <1>2 DEF Complete
<1>4. ParserType' /\ Position' /\ Filling'
  BY <1>1, <1>2 DEF ParserInv, ParserType, Position, Filling
<1>5. Delivery(Handed, Complete)' <=> Delivery(Handed, Complete)
  BY <1>2, <1>3
<1> QED
  BY <1>4, <1>5 DEF ParserInv

\* The parser always is where the bytes it took say, each field as full as they make it.
THEOREM ParserHolds == ParserSpec => []ParserInv
<1>1. ParserInv /\ [ParserNext]_parser_vars => ParserInv'
  BY SourceStep, ParserStutter
<1> QED
  BY <1>1, ParserInitInv, PTL DEF ParserSpec

\* The parser alone hands over what the reference parser makes of the bytes, exactly and in
\* order, for a stream of any messages of any length and any stall of the downstream.
THEOREM DeliversExact == ParserSpec => []DeliveredExact
BY ParserHolds, ParserDelivers, PTL

LEMMA CardInit == F1Init => F1Inv
<1>1. SUFFICES ASSUME F1Init PROVE F1Inv
  OBVIOUS
<1>2. ParserInv /\ types = <<>> /\ Len(types) = 0
  BY <1>1, ParserInitInv DEF F1Init, ParserInit
<1>3. /\ host = [pc |-> "clear", k |-> 1, t |-> "none", p |-> 1, count |-> 0,
                 decisions |-> <<>>, hist |-> <<>>]
      /\ bus = [op |-> "none", addr |-> <<"none", 0>>, data |-> <<>>, ar |-> FALSE]
      /\ cl = [fifo |-> <<>>, if_push |-> FALSE, wst |-> "idle", c_awvalid |-> FALSE,
               c_wvalid |-> FALSE, rst_r |-> "idle", c_arvalid |-> FALSE, rdata |-> 0,
               m_axis |-> 0, dec |-> <<>>, dec_overflow |-> FALSE]
      /\ lat = [measuring |-> FALSE, age |-> 0, meas_valid_q |-> FALSE, delta_q |-> 0,
                hist |-> NoHist, last |-> 0, aw_active |-> FALSE, bvalid |-> FALSE,
                do_clear |-> FALSE, ar_active |-> FALSE, rvalid |-> FALSE, rdata |-> 0]
      /\ core = [risk_valid |-> FALSE, emitted |-> 0]
  BY <1>1 DEF F1Init
<1>4. HostType
  <2>1. <<>> \in Seq(Int) /\ "clear" \in PCs
    BY DEF PCs
  <2> QED
    BY <1>3, <2>1 DEF HostType
<1>5. BusType
  BY <1>3 DEF BusType
<1>6. ClType
  <2>1. cl.fifo \in Seq(Beat) /\ cl.dec \in Seq(Int)
    BY <1>3
  <2> QED
    BY <1>3, <2>1 DEF ClType, Channel
<1>7. LatType
  <2>1. NoHist \in [Buckets -> Nat]
    BY DEF NoHist
  <2> QED
    BY <1>3, <2>1 DEF LatType
<1>8. CoreType
  BY <1>3 DEF CoreType
<1>9. HostInv
  BY <1>3, F1Assumption DEF HostInv
<1>10. BusInv
  BY <1>3 DEF BusInv
<1>11. LatInv
  BY <1>3 DEF LatInv
<1>12. host.decisions = [i \in 1 .. Len(host.decisions) |-> i] /\ cl.dec = [i \in 1 .. Len(cl.dec) |-> i]
  <2> DEFINE e == <<>>
  <2>1. e = [i \in 1 .. Len(e) |-> i]
    OBVIOUS
  <2> HIDE DEF e
  <2>2. host.decisions = e /\ cl.dec = e
    BY <1>3 DEF e
  <2> QED
    BY <2>1, <2>2
<1>13. ReadInv
  <2>1. Len(host.hist) = 0 /\ ~lat.rvalid /\ cl.rst_r # "resp"
    BY <1>3
  <2>2. \A n \in 1 .. Len(host.hist) : host.hist[n] <= lat.hist[n - 1]
    BY <2>1
  <2> QED
    BY <1>12, <2>1, <2>2 DEF ReadInv
<1>14. CaptureInv
  <2>1. In_flight = 0 /\ core.emitted = 0 /\ cl.m_axis = 0 /\ Len(cl.dec) = 0 /\ ~cl.dec_overflow
    BY <1>3 DEF In_flight
  <2>2. Min({DEC_CAP, 0}) = 0
    BY F1Assumption, MinOfTwo
  <2>3. Len(cl.dec) = Min({DEC_CAP, core.emitted - In_flight})
    <3>1. core.emitted - In_flight = 0
      BY <2>1
    <3> QED
      BY <2>1, <2>2, <3>1
  <2> QED
    BY <1>12, <2>1, <2>3, F1Assumption DEF CaptureInv
<1>15. MeasureInv
  <2>1. Total(lat.hist) = 0 /\ One(lat.meas_valid_q) = 0 /\ One(core.risk_valid) = 0
        /\ One(lat.measuring) = 0 /\ lat.last = 0 /\ core.emitted = 0
    BY <1>3, TotalNone DEF One
  <2> QED
    BY <1>2, <2>1 DEF MeasureInv
<1>16. LineInv
  <2>1. cl.fifo = <<>> /\ Len(cl.fifo) = 0 /\ host.pc = "clear" /\ host.k = 1 /\ host.p = 1
    BY <1>3
  <2>2. Chain(ParserAt, cl.fifo)
    <3>1. 1 .. Len(cl.fifo) = {}
      BY <2>1
    <3> QED
      BY <2>1, <3>1 DEF Chain
  <2> QED
    BY <1>2, <2>1, <2>2, F1Assumption DEF LineInv
<1> QED
  BY <1>2, <1>4, <1>5, <1>6, <1>7, <1>8, <1>9, <1>10, <1>11, <1>13, <1>14, <1>15, <1>16
     DEF F1Inv, CardInv

\* Nothing of the card changes while the source drives the parser alone.
LEMMA CardRests ==
  ASSUME CardInv, UNCHANGED f1_vars, types \in Seq(MsgType),
         types' = types \/ \E t \in MsgType : types' = Append(types, t)
  PROVE  CardInv'
<1>1. via' = via /\ host' = host /\ bus' = bus /\ cl' = cl /\ lat' = lat /\ core' = core
  BY DEF f1_vars
<1>2. Len(types) \in Nat /\ Len(types') \in Nat /\ Len(types) <= Len(types')
  BY SMTT(30)
<1>3. HostType' /\ BusType' /\ ClType' /\ LatType' /\ CoreType'
  BY <1>1 DEF CardInv, HostType, BusType, ClType, LatType, CoreType
<1>4. HostInv'
  BY <1>1 DEF CardInv, HostInv
<1>5. BusInv'
  <2>1. AddrOf' = AddrOf /\ HostByte' = HostByte
    BY <1>1 DEF AddrOf, HostByte
  <2> QED
    BY <1>1, <2>1 DEF CardInv, BusInv
<1>6. LatInv' /\ ReadInv'
  BY <1>1 DEF CardInv, LatInv, ReadInv
<1>7. CaptureInv'
  <2>1. In_flight' = In_flight
    BY <1>1 DEF In_flight
  <2> QED
    BY <1>1, <2>1 DEF CardInv, CaptureInv
<1>8. MeasureInv'
  <2> DEFINE T == Total(lat.hist)
             a == One(lat.meas_valid_q)
             c == One(lat.measuring)
  <2>1. MeasureInv /\ T \in Nat /\ a \in Nat /\ c \in Nat /\ T + a + c <= Len(types)
    BY DEF CardInv, MeasureInv, One
  <2>2. Total(lat'.hist) = T /\ One(lat'.meas_valid_q) = a /\ One(lat'.measuring) = c
    BY <1>1
  <2> HIDE DEF T, a, c
  <2>3. Total(lat'.hist) + One(lat'.meas_valid_q) + One(lat'.measuring) <= Len(types')
    BY <1>2, <2>1, <2>2
  <2> QED
    BY <1>1, <2>1, <2>3 DEF MeasureInv
<1> QED
  BY <1>3, <1>4, <1>5, <1>6, <1>7, <1>8 DEF CardInv

\* The invariant of the card holds of every behaviour, over the bus or with the parser alone.
THEOREM CardHolds == F1Spec => []F1Inv
<1>1. ASSUME F1Inv, [F1Next]_<<parser_vars, f1_vars>> PROVE F1Inv'
  <2>0. ParserInv /\ CardInv /\ types \in Seq(MsgType)
    BY <1>1 DEF F1Inv, ParserInv, ParserType
  <2>1. CASE via = "axis" /\ ParserNext /\ UNCHANGED f1_vars
    <3>1. ParserInv' /\ CardInv'
      BY <2>0, <2>1, SourceStep, CardRests
    <3>2. via' = "axis"
      BY <2>1 DEF f1_vars
    <3> QED
      BY <3>1, <3>2 DEF F1Inv
  <2>2. ASSUME NEW go \in BOOLEAN, NEW m_ready \in BOOLEAN, NEW decides \in BOOLEAN,
               NEW t \in OclTypes, Cycle(go, t, m_ready, decides)
        PROVE  F1Inv'
    <3>1. via = "ocl"
      BY <2>2 DEF Cycle
    <3>2. LineInv
      BY <1>1, <3>1 DEF F1Inv
    <3> QED
      BY <2>0, <2>2, <3>2, CycleStep DEF F1Inv
  <2>3. CASE UNCHANGED <<parser_vars, f1_vars>>
    <3>1. UNCHANGED parser_vars /\ UNCHANGED f1_vars
      BY <2>3
    <3>2. types' = types /\ pos' = pos /\ via' = via /\ cl' = cl /\ host' = host
      BY <3>1 DEF parser_vars, f1_vars
    <3>3. ParserInv' /\ CardInv'
      BY <2>0, <3>1, <3>2, ParserStutter, CardRests
    <3>4. LineInv => LineInv'
      <4>1. ParserAt' = ParserAt /\ HostByte' = HostByte
        BY <3>2 DEF ParserAt, HostByte
      <4> QED
        BY <3>2, <4>1 DEF LineInv
    <3> QED
      BY <1>1, <3>2, <3>3, <3>4 DEF F1Inv
  <2> QED
    BY <1>1, <2>1, <2>2, <2>3 DEF F1Next
<1> QED
  BY <1>1, CardInit, PTL DEF F1Spec

\* Bytes that come from the host over the bus and the FIFO are decoded just as exactly.
THEOREM CardDelivers == F1Spec => []DeliveredExact
<1>1. F1Inv => DeliveredExact
  BY ParserDelivers DEF F1Inv
<1> QED
  BY <1>1, CardHolds, PTL

\* The host reads the first decisions in order and without a gap, and a decision missing from
\* the capture is told: for every depth of FIFO and capture.
THEOREM ReadsBack == F1Spec => []ReadBackExact
<1>1. F1Inv => ReadBackExact
  BY DEF F1Inv, CardInv, HostInv, ReadInv, CaptureInv, ReadBackExact
<1> QED
  BY <1>1, CardHolds, PTL

\* No message is measured twice and no decision counts twice, for every number of buckets.
THEOREM Measured == F1Spec => []MeasuredOnce
<1>1. ASSUME F1Inv PROVE MeasuredOnce
  <2>1. HostType /\ LatType /\ CoreType /\ MeasureInv /\ ReadInv
    BY <1>1 DEF F1Inv, CardInv
  <2>2. DOMAIN host.hist = 1 .. Len(host.hist)
    BY <2>1 DEF HostType
  <2> DEFINE T == Total(lat.hist)
             m == One(lat.meas_valid_q)
             s == One(lat.measuring)
             r == One(core.risk_valid)
             e == core.emitted
  <2>3. T \in Nat /\ m \in Nat /\ s \in Nat /\ r \in Nat /\ e \in Nat /\ T + m + r <= e /\ T + m + s <= Len(types)
    BY <2>1 DEF MeasureInv, One, CoreType
  <2>4. m = (IF lat.meas_valid_q THEN 1 ELSE 0) /\ s = IF lat.measuring THEN 1 ELSE 0
    BY DEF One
  <2> HIDE DEF T, m, s, r, e
  <2>5. T + m <= e
    BY <2>3
  <2>6. /\ lat.last # 0 => lat.hist[bucket(lat.last)] > 0
        /\ \A n \in DOMAIN host.hist : host.hist[n] <= lat.hist[n - 1]
    BY <2>1, <2>2 DEF MeasureInv, ReadInv
  <2> QED
    BY <2>3, <2>4, <2>5, <2>6 DEF MeasuredOnce, T, e
<1> QED
  BY <1>1, CardHolds, PTL
=============================================================================
