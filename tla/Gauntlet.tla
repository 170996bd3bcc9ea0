------------------------------- MODULE Gauntlet -------------------------------
(***************************************************************************)
(* host/hft_logic.py, the gates between a raw signal and an order, and     *)
(* host/risk_guard.py, the checks of an order.  Prices in ticks; ratios are*)
(* compared by multiplying out, so that nothing is rounded.                *)
(***************************************************************************)
EXTENDS Integers, SequencesExt

CONSTANTS
  MIN_EDGE,              \* min_edge_ticks; min_profit_ticks is 0
  FEE_DEN,               \* the fee is mid / FEE_DEN (fee_bps)
  MIN_BOOK,              \* min_book_size
  SOFT_POSITION,         \* inventory_soft_frac * position_cap
  MAX_ORDER, MAX_NET,    \* max_order_shares, max_position_shares
  BAND_PCT,              \* fat_finger_pct
  MAX_RATE,              \* max_orders_per_sec
  VOL_WINDOW, MAX_VOL_BPS,
  NoDec

Away(n) == IF n < 0 THEN -n ELSE n

\* observe: the last mids of a symbol.
observe(mids, mid) ==
  LET all == Append(mids, mid)
  IN  IF Len(all) > VOL_WINDOW THEN Tail(all) ELSE all

\* Whether the standard deviation of the returns between them is within the limit; both
\* sides are squared, and multiplied by the square of the number of returns.
calm_enough(mids) ==
  LET n == Len(mids) - 1
      ret(i) == ((mids[i + 1] - mids[i]) * 10000) \div mids[i]
      sum(f(_)) == FoldLeftDomain(LAMBDA acc, i : acc + f(i), 0, Tail(mids))
  IN  \/ Len(mids) < 3
      \/ n * sum(LAMBDA i : ret(i) * ret(i)) - sum(ret) * sum(ret) <= MAX_VOL_BPS * MAX_VOL_BPS * n * n

\* The decision that may go on, or NoDec, and why.  calm: the short-term volatility is
\* within its limit.  The age of the quote is not a gate: the feed has just observed it.
evaluate(halted, calm, dec, q, position, room) ==
  LET mid == (q.bid + q.ask) \div 2
      denom == q.bid_size + q.ask_size
      edge == q.bid * q.ask_size + q.ask * q.bid_size - mid * denom   \* times denom
      towards == IF dec.action = "buy" THEN edge ELSE -edge
      adding == IF dec.action = "buy" THEN position >= 0 ELSE position <= 0
      out(d, why) == [dec |-> d, reason |-> why]
  IN  IF halted THEN out(NoDec, "kill_switch")
      ELSE IF denom <= 0 THEN out(NoDec, "liquidity")
      ELSE IF towards < MIN_EDGE * denom THEN out(NoDec, "fair_value")
      ELSE IF Away(edge) * FEE_DEN <= mid * denom THEN out(NoDec, "edge_vs_cost")
      ELSE IF ~calm THEN out(NoDec, "volatility")
      ELSE IF q.bid_size < MIN_BOOK \/ q.ask_size < MIN_BOOK THEN out(NoDec, "liquidity")
      ELSE IF adding /\ Away(position) >= SOFT_POSITION THEN out(NoDec, "inventory_skew")
      ELSE IF room <= 0 THEN out(NoDec, "gross_exposure")
      ELSE out([dec EXCEPT !.size = IF @ > room THEN room ELSE @], "passed")
-----------------------------------------------------------------------------
NewGuard == [killed |-> FALSE, position |-> 0, reference_price |-> 0]

\* recent: the orders recorded within the last second.
guard_check(g, dec, recent) ==
  LET delta == IF dec.action = "buy" THEN dec.size ELSE -dec.size
  IN  /\ ~g.killed
      /\ dec.size <= MAX_ORDER
      /\ g.reference_price > 0 =>
           Away(dec.price - g.reference_price) <= (g.reference_price * BAND_PCT) \div 100
      /\ recent < MAX_RATE
      /\ Away(g.position + delta) <= MAX_NET

record_fill(g, action, shares) ==
  [g EXCEPT !.position = @ + IF action = "buy" THEN shares ELSE -shares]
=============================================================================
