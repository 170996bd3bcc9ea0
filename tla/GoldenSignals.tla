---------------------------- MODULE GoldenSignals ----------------------------
(***************************************************************************)
(* The references of the strategies under sim/golden: strategy_imbalance,  *)
(* ofi, mm_rtl and ofi_maker; and the risk check of sim/phase2_golden.py.  *)
(* Quotes, decisions and parameters are those of the host's modules.       *)
(***************************************************************************)
EXTENDS Integers, SequencesExt

CONSTANTS
  NLEVELS_G, THRESH_G, SPREAD_G, BASE_G, MAX_G,       \* imbalance
  WINDOW_G, OFI_THRESH_G, OFI_BASE_G, OFI_MAX_G,      \* order flow
  HALF_G, SKEW_G, QUOTE_G, POSITION_G,                \* market maker
  ASHIFT, TILT_G,                                     \* tilt = ofi >> ASHIFT
  ORDER_G, BAND_G,                                    \* risk check
  NoQuoteG, NoOrderG

Least(a, b) == IF a < b THEN a ELSE b
Total(n, f) == FoldLeft(LAMBDA acc, x : acc + x, 0, [i \in 1 .. n |-> f[i]])
Dist(a, b)  == IF a < b THEN b - a ELSE a - b

\* s is a snapshot of the book, prev_valid whether the last one was valid.
imbalance(prev_valid, s) ==
  LET elig == /\ s.valid /\ prev_valid /\ s.ask > s.bid
              /\ s.ask - s.bid <= SPREAD_G
      w(sizes) == Total(NLEVELS_G, [i \in 1 .. NLEVELS_G |-> (NLEVELS_G + 1 - i) * sizes[i]])
      bids == w(s.bid_level_size)
      asks == w(s.ask_level_size)
      lots(dom, oth) ==
        Least(MAX_G, BASE_G * (IF dom * 10 > 3 * THRESH_G * oth THEN 3
                               ELSE IF dom * 10 > 2 * THRESH_G * oth THEN 2 ELSE 1))
  IN  IF elig /\ bids * 10 > THRESH_G * asks /\ s.ask > 0
        THEN [action |-> "buy", price |-> s.ask, size |-> lots(bids, asks)]
      ELSE IF elig /\ asks * 10 > THRESH_G * bids /\ s.bid > 0
        THEN [action |-> "sell", price |-> s.bid, size |-> lots(asks, bids)]
      ELSE NoOrderG
-----------------------------------------------------------------------------
NewFlow == [prev |-> NoQuoteG, taps |-> [i \in 1 .. WINDOW_G |-> 0]]

increment(prev, cur) ==
  LET bids == (IF cur.bid >= prev.bid THEN cur.bid_size ELSE 0)
                - (IF cur.bid <= prev.bid THEN prev.bid_size ELSE 0)
      asks == (IF cur.ask <= prev.ask THEN cur.ask_size ELSE 0)
                - (IF cur.ask >= prev.ask THEN prev.ask_size ELSE 0)
  IN  bids - asks

Windowed(f) == Total(WINDOW_G, f.taps)

\* The shift register takes the increment if there is a quote to compare with; a bad
\* book is forgotten.
step(f, normal, q) ==
  IF ~normal THEN [f EXCEPT !.prev = NoQuoteG]
  ELSE IF f.prev = NoQuoteG THEN [f EXCEPT !.prev = q]
  ELSE [prev |-> q, taps |-> Append(Tail(f.taps), increment(f.prev, q))]

flow_normal(s) == s.valid /\ s.bid > 0 /\ s.ask > s.bid

\* The decision that comes with the step from f on the snapshot s.
flow_decision(f, s) ==
  LET ofi == Windowed(step(f, TRUE, s))
      lots(n) == Least(OFI_MAX_G, OFI_BASE_G * (IF n >= 3 * OFI_THRESH_G THEN 3
                                                ELSE IF n >= 2 * OFI_THRESH_G THEN 2 ELSE 1))
  IN  IF ~flow_normal(s) \/ f.prev = NoQuoteG THEN NoOrderG
      ELSE IF ofi >= OFI_THRESH_G THEN [action |-> "buy", price |-> s.ask, size |-> lots(ofi)]
      ELSE IF ofi <= -OFI_THRESH_G THEN [action |-> "sell", price |-> s.bid, size |-> lots(-ofi)]
      ELSE NoOrderG
-----------------------------------------------------------------------------
maker_normal(s) == s.valid /\ s.ask > s.bid /\ s.bid_size + s.ask_size # 0

\* The quotes around the microprice plus lean.
Posted(s, lean, inv) ==
  LET num == s.bid * s.ask_size + s.ask * s.bid_size
      mid == num \div (s.bid_size + s.ask_size) - inv * SKEW_G + lean
      bid == mid - HALF_G
      ask == IF mid + HALF_G > bid THEN mid + HALF_G ELSE bid + 1
      bidq == IF inv + QUOTE_G > POSITION_G THEN 0 ELSE QUOTE_G
      askq == IF inv - QUOTE_G < -POSITION_G THEN 0 ELSE QUOTE_G
  IN  [bid |-> IF bid < 0 \/ bidq = 0 THEN 0 ELSE bid, bid_size |-> bidq,
       ask |-> IF ask < 0 \/ askq = 0 THEN 0 ELSE ask, ask_size |-> askq]

None == [bid |-> 0, bid_size |-> 0, ask |-> 0, ask_size |-> 0]

mm_quote(s, inv) == IF maker_normal(s) THEN Posted(s, 0, inv) ELSE None

\* f is the flow after its step on s; >> rounds down, also below zero.
ofi_maker_quote(f, s, inv) ==
  LET t == Windowed(f) \div 2 ^ ASHIFT
      clamped == IF t > TILT_G THEN TILT_G ELSE IF t < -TILT_G THEN -TILT_G ELSE t
  IN  IF maker_normal(s) THEN Posted(s, clamped, inv) ELSE None
-----------------------------------------------------------------------------
position_ok(position, qty) == Dist(position + qty, 0) <= POSITION_G

\* Does the risk check let the order through, and at which position is it then?
check(position, dec, mid, halt) ==
  LET qty == IF dec.action = "sell" THEN -dec.size ELSE dec.size
      ok == /\ ~halt /\ dec.size <= ORDER_G
            /\ Dist(dec.price, mid) <= BAND_G /\ position_ok(position, qty)
  IN  [ok |-> ok, position |-> IF ok THEN position + qty ELSE position]
=============================================================================
