-------------------------------- MODULE OfiSw --------------------------------
(***************************************************************************)
(* host/ofi_signal.py and host/ofi_maker.py: the order-flow signal and the *)
(* maker that tilts its quotes with it.  The state of either is the quote  *)
(* before, or NoQuote, and the window of increments, newest last.          *)
(***************************************************************************)
EXTENDS MarketMaker, SequencesExt

CONSTANTS
  OFI_WINDOW, OFI_THRESHOLD, OFI_BASE_LOT, OFI_MAX_LOT,
  ALPHA_DEN, MAX_TILT,     \* tilt = ofi // ALPHA_DEN (alpha_num is 1)
  NoQuote, NoDecision

SumOf(seq) == FoldSeq(LAMBDA x, acc : x + acc, 0, seq)
Gated(b, n) == IF b THEN n ELSE 0

ofi_increment(prev, cur) ==
  (Gated(cur.bid >= prev.bid, cur.bid_size) - Gated(cur.bid <= prev.bid, prev.bid_size))
    - (Gated(cur.ask <= prev.ask, cur.ask_size) - Gated(cur.ask >= prev.ask, prev.ask_size))

\* (mutant) the window keeps one increment too many
Pushed_Long(buf, x) == IF Len(buf) <= OFI_WINDOW THEN Append(buf, x) ELSE Append(Tail(buf), x)

\* A deque with a greatest length.
Pushed(buf, x) == IF Len(buf) < OFI_WINDOW THEN Append(buf, x) ELSE Append(Tail(buf), x)

ofi_lot(strength) ==
  LET sz == IF strength >= 3 * OFI_THRESHOLD THEN 3 * OFI_BASE_LOT
            ELSE IF strength >= 2 * OFI_THRESHOLD THEN 2 * OFI_BASE_LOT ELSE OFI_BASE_LOT
  IN  IF sz < OFI_MAX_LOT THEN sz ELSE OFI_MAX_LOT

Signal(ofi, q) ==
  IF ofi >= OFI_THRESHOLD THEN [action |-> "buy", price |-> q.ask, size |-> ofi_lot(ofi)]
  ELSE IF ofi <= -OFI_THRESHOLD THEN [action |-> "sell", price |-> q.bid, size |-> ofi_lot(-ofi)]
  ELSE NoDecision

NewSignal == [prev |-> NoQuote, buf |-> <<>>]

\* A quote that is crossed or locked is no signal, but the next one is still compared
\* with it.
update(s, q, valid) ==
  IF ~valid \/ q.bid <= 0 \/ q.ask <= 0 \/ q.ask <= q.bid
    THEN [st |-> [s EXCEPT !.prev = IF valid THEN q ELSE NoQuote], dec |-> NoDecision]
  ELSE IF s.prev = NoQuote THEN [st |-> [s EXCEPT !.prev = q], dec |-> NoDecision]
  ELSE LET buf == Pushed(s.buf, ofi_increment(s.prev, q))
       IN  [st |-> [prev |-> q, buf |-> buf], dec |-> Signal(SumOf(buf), q)]
-----------------------------------------------------------------------------
NewMaker == [prev |-> NoQuote, buf |-> [i \in 1 .. OFI_WINDOW |-> 0]]

tilt(ofi) ==
  LET t == ofi \div ALPHA_DEN
  IN  IF t > MAX_TILT THEN MAX_TILT ELSE IF t < -MAX_TILT THEN -MAX_TILT ELSE t

normal_quote(q, valid) == valid /\ q.ask > q.bid /\ q.bid_size + q.ask_size # 0

advance(s, q, valid) ==
  IF ~normal_quote(q, valid) THEN [s EXCEPT !.prev = NoQuote]
  ELSE IF s.prev = NoQuote THEN [s EXCEPT !.prev = q]
  ELSE [prev |-> q, buf |-> Append(Tail(s.buf), ofi_increment(s.prev, q))]

\* The quotes after the state has been advanced with q.  A negative price is not posted.
ofi_quote(s, q, valid, inv) ==
  IF ~normal_quote(q, valid) THEN NoQuotes
  ELSE LET mid == centre(q, inv) + tilt(SumOf(s.buf))
           bid == mid - HALF_SPREAD
           ask == IF mid + HALF_SPREAD <= bid THEN bid + 1 ELSE mid + HALF_SPREAD
           side == Sided(bid, ask, inv)
       IN  [side EXCEPT !.bid = IF @ < 0 THEN 0 ELSE @, !.ask = IF @ < 0 THEN 0 ELSE @]
=============================================================================
