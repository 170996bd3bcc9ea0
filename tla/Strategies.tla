----------------------------- MODULE Strategies -----------------------------
(***************************************************************************)
(* From the book to the proposed order: the two-stage pipelines of         *)
(* strategy_imbalance.sv and strategy_ofi.sv side by side, the mux of      *)
(* strategy_select.sv, the two-deep pipeline of the collar reference       *)
(* (tick_to_trade_top.sv) and that of the symbol tag (multi_symbol_top.sv).*)
(* Edge is one edge of clk with the book as it is before the edge.         *)
(*                                                                         *)
(* What the weighted volumes and the order-flow window come to is data:    *)
(* each book comes with the side its depth leans to, and an order-flow     *)
(* update that stage 1 let through pulls to any side (StrategyOfi has the  *)
(* window itself).  Lot sizes are left out.                                *)
(***************************************************************************)
EXTENDS Integers

CONSTANTS
  Symbol,             \* the symbols whose books share the pipelines
  Quote,              \* the best bid and ask a book can show: [bid, ask]
  NO_ASK,             \* the ask of an empty side, all ones; the bid is 0
  MAX_SPREAD_TICKS, COOLDOWN_CYCLES, MAX_PRICE_BAND,
  NoProposal

Lean == {"buy", "sell", "none"}
Book == [sym : Symbol, quote : Quote, lean : Lean]

book_valid(b) == b.quote.bid # 0 /\ b.quote.ask # NO_ASK
normal(b)     == b.quote.ask > b.quote.bid

\* The sum has the width of a price; its halves are what the collar compares with.
MidOf(q) == ((q.bid + q.ask) % (NO_ASK + 1)) \div 2

\* Prices leave the top bit free, so that the mid of two of them does not wrap, and
\* half the largest spread is within the collar's band.
ASSUME QuoteAssumption ==
  /\ NO_ASK \in Nat \ {0} /\ MAX_SPREAD_TICKS \in Nat /\ COOLDOWN_CYCLES \in Nat
  /\ MAX_PRICE_BAND \in Nat /\ MAX_SPREAD_TICKS + 1 <= 2 * MAX_PRICE_BAND
  /\ Symbol # {}
  /\ Quote \subseteq [bid : 0 .. NO_ASK, ask : 0 .. NO_ASK]
  /\ \A q \in Quote : q.bid # 0 /\ q.ask # NO_ASK => q.bid + q.ask <= NO_ASK
  /\ [bid |-> 0, ask |-> NO_ASK] \in Quote

Proposed == [action : {"buy", "sell"}, price : 0 .. NO_ASK]
ASSUME NoProposalAssumption == NoProposal \notin Proposed

VARIABLES
  prev_valid, imb1, cooldown_cnt, imb,   \* strategy_imbalance: stage 1, stage 2
  have_prev, s1_valid, ofi1, ofi,        \* strategy_ofi: stage 1, stage 2
  strat_sel,                             \* the selected strategy
  mid_r1, mid_r2, sym_d1, sym_d2,        \* aligned with stages 1 and 2
  past, before, gap                      \* history: see below

vars == <<prev_valid, imb1, cooldown_cnt, imb, have_prev, s1_valid, ofi1, ofi,
          strat_sel, mid_r1, mid_r2, sym_d1, sym_d2, past, before, gap>>

\* (mutant) no spread guard
elig_Wide(b) == book_valid(b) /\ prev_valid /\ normal(b)
elig(b) ==
  /\ book_valid(b) /\ prev_valid /\ normal(b)
  /\ b.quote.ask - b.quote.bid <= MAX_SPREAD_TICKS

ready     == imb1.elig /\ cooldown_cnt = 0
buy_cond  == imb1.lean = "buy" /\ imb1.quote.ask > 0
sell_cond == imb1.lean = "sell" /\ imb1.quote.bid > 0

\* An order to buy lifts the ask, one to sell hits the bid.
Lift(q) == [action |-> "buy", price |-> q.ask]
Hit(q)  == [action |-> "sell", price |-> q.bid]

imb_nxt ==
  IF ready /\ buy_cond THEN Lift(imb1.quote)
  ELSE IF ready /\ sell_cond THEN Hit(imb1.quote)
  ELSE NoProposal

\* (mutant) the counter starts one short
cooldown_nxt_Short ==
  IF imb_nxt # NoProposal THEN COOLDOWN_CYCLES - 1
                       ELSE IF cooldown_cnt > 0 THEN cooldown_cnt - 1 ELSE 0
cooldown_nxt ==
  IF imb_nxt # NoProposal THEN COOLDOWN_CYCLES
                       ELSE IF cooldown_cnt > 0 THEN cooldown_cnt - 1 ELSE 0

normal_c(b) == book_valid(b) /\ normal(b) /\ b.quote.bid # 0

\* (mutant) a quote after a bad book still counts as an update
s1_valid_nxt_Any(b) == normal_c(b)
s1_valid_nxt(b) == normal_c(b) /\ have_prev

\* (mutant) the reference is one stage deep
mid_nxt_Short(b) == MidOf(b.quote)
\* What the second stage of the reference takes over.
mid_nxt(b) == mid_r1

decision == IF strat_sel = 1 THEN ofi ELSE imb
-----------------------------------------------------------------------------
EmptyBook == [sym |-> CHOOSE s \in Symbol : TRUE,
              quote |-> [bid |-> 0, ask |-> NO_ASK], lean |-> "none"]

Init ==
  /\ prev_valid = FALSE /\ cooldown_cnt = 0 /\ imb = NoProposal
  /\ imb1 = [elig |-> FALSE, quote |-> [bid |-> 0, ask |-> 0], lean |-> "none"]
  /\ have_prev = FALSE /\ s1_valid = FALSE /\ ofi1 = [bid |-> 0, ask |-> 0]
  /\ ofi = NoProposal
  /\ strat_sel = 0
  /\ mid_r1 = 0 /\ mid_r2 = 0
  /\ sym_d1 = EmptyBook.sym /\ sym_d2 = EmptyBook.sym
  /\ past = <<EmptyBook, EmptyBook>> /\ before = FALSE /\ gap = COOLDOWN_CYCLES

Imbalance(b) ==
  /\ prev_valid' = book_valid(b)
  /\ imb1' = [elig |-> elig(b), quote |-> b.quote, lean |-> b.lean]
  /\ imb' = imb_nxt
  /\ cooldown_cnt' = cooldown_nxt

OrderFlow(b, pull) ==
  /\ have_prev' = normal_c(b)
  /\ s1_valid' = s1_valid_nxt(b)
  /\ ofi1' = IF normal_c(b) THEN b.quote ELSE ofi1
  /\ ofi' = IF s1_valid /\ pull = "buy" THEN Lift(ofi1)
            ELSE IF s1_valid /\ pull = "sell" THEN Hit(ofi1)
            ELSE NoProposal

Edge(b, pull) ==
  /\ Imbalance(b) /\ OrderFlow(b, pull)
  /\ mid_r1' = MidOf(b.quote) /\ mid_r2' = mid_nxt(b)
  /\ sym_d1' = b.sym /\ sym_d2' = sym_d1
  /\ past' = <<b, past[1]>> /\ before' = book_valid(past[2])
  /\ gap' = IF imb' # NoProposal THEN 0 ELSE IF gap < COOLDOWN_CYCLES THEN gap + 1 ELSE gap
  /\ strat_sel' \in 0 .. 3     \* a configuration word may arrive in any cycle

Reset ==
  /\ prev_valid' = FALSE /\ cooldown_cnt' = 0 /\ imb' = NoProposal
  /\ imb1' = [elig |-> FALSE, quote |-> [bid |-> 0, ask |-> 0], lean |-> "none"]
  /\ have_prev' = FALSE /\ s1_valid' = FALSE /\ ofi1' = [bid |-> 0, ask |-> 0]
  /\ ofi' = NoProposal
  /\ strat_sel' = 0
  /\ mid_r1' = 0 /\ mid_r2' = 0
  /\ sym_d1' = EmptyBook.sym /\ sym_d2' = EmptyBook.sym
  /\ past' = <<EmptyBook, EmptyBook>> /\ before' = FALSE /\ gap' = COOLDOWN_CYCLES

Next ==
  \/ \E b \in Book, pull \in Lean : Edge(b, pull)
  \/ Reset

Spec == Init /\ [][Next]_vars
-----------------------------------------------------------------------------
(* History: past has the books of the last two edges, the last one first;  *)
(* before says whether the one before them was valid; gap counts the edges *)
(* since the imbalance strategy last fired, up to COOLDOWN_CYCLES.         *)

\* Types.
TypeOK ==
  /\ prev_valid \in BOOLEAN /\ have_prev \in BOOLEAN /\ s1_valid \in BOOLEAN
  /\ imb1 \in [elig : BOOLEAN, quote : [bid : 0 .. NO_ASK, ask : 0 .. NO_ASK], lean : Lean]
  /\ ofi1 \in [bid : 0 .. NO_ASK, ask : 0 .. NO_ASK]
  /\ cooldown_cnt \in 0 .. COOLDOWN_CYCLES
  /\ imb \in Proposed \cup {NoProposal} /\ ofi \in Proposed \cup {NoProposal}
  /\ strat_sel \in 0 .. 3
  /\ mid_r1 \in Nat /\ mid_r2 \in Nat
  /\ sym_d1 \in Symbol /\ sym_d2 \in Symbol
  /\ past \in Book \X Book /\ before \in BOOLEAN
  /\ gap \in 0 .. COOLDOWN_CYCLES

\* Whatever is selected, also when the selection changes while orders are in the
\* pipelines: the order, the reference its price is compared with, and the symbol
\* it is attributed to come from one and the same book, the one of two edges ago.
Aligned ==
  decision # NoProposal =>
    /\ decision \in {Lift(past[2].quote), Hit(past[2].quote)}
    /\ mid_r2 = MidOf(past[2].quote)
    /\ sym_d2 = past[2].sym

\* An order is only ever proposed on a book that was valid twice in a row.
NeedsBook == decision # NoProposal => book_valid(past[2]) /\ before

\* The collar never rejects an order of the imbalance strategy: its spread guard is
\* tighter, and the reference is that of the same book.
CollarFits ==
  imb # NoProposal =>
    /\ imb.price - mid_r2 <= MAX_PRICE_BAND
    /\ mid_r2 - imb.price <= MAX_PRICE_BAND

\* After the imbalance strategy fires it stays quiet for COOLDOWN_CYCLES cycles.
CoolsDown == [][imb' # NoProposal => gap = COOLDOWN_CYCLES]_vars
=============================================================================
