----------------------------- MODULE MarketMaker -----------------------------
(***************************************************************************)
(* host/market_maker.py with rtl_exact, its default: a two-sided quote from*)
(* the microprice, leaned against the inventory.  A side that is not quoted*)
(* has price and size 0.  And the other maker of the host,                 *)
(* host/avellaneda_stoikov.py.                                             *)
(***************************************************************************)
EXTENDS Integers

CONSTANTS
  HALF_SPREAD, SKEW, QUOTE_SIZE, MAX_INVENTORY,
  MIN_BOOK_SIZE

NoQuotes == [bid |-> 0, bid_size |-> 0, ask |-> 0, ask_size |-> 0]

\* The truncating divide of the size-weighted price.
micro(q) == (q.bid * q.ask_size + q.ask * q.bid_size) \div (q.bid_size + q.ask_size)

can_buy(inv)  == inv + QUOTE_SIZE <= MAX_INVENTORY
can_sell(inv) == inv - QUOTE_SIZE >= -MAX_INVENTORY

\* (mutant) the skew leans the wrong way
centre_Wrong(q, inv) == micro(q) + inv * SKEW
centre(q, inv) == micro(q) - inv * SKEW

\* Quotes at bid and at ask, apart from a side that could break the inventory limit.
Sided(bid, ask, inv) ==
  [bid |-> IF can_buy(inv) THEN bid ELSE 0, bid_size |-> IF can_buy(inv) THEN QUOTE_SIZE ELSE 0,
   ask |-> IF can_sell(inv) THEN ask ELSE 0, ask_size |-> IF can_sell(inv) THEN QUOTE_SIZE ELSE 0]

quote(q, inv) ==
  IF q.bid_size < MIN_BOOK_SIZE \/ q.ask_size < MIN_BOOK_SIZE \/ q.ask <= q.bid THEN NoQuotes
  ELSE LET bid == centre(q, inv) - HALF_SPREAD
           ask == centre(q, inv) + HALF_SPREAD
       IN  Sided(bid, IF ask <= bid THEN bid + 1 ELSE ask, inv)
-----------------------------------------------------------------------------
\* Avellaneda-Stoikov: the same quote around a reservation price.  How far it leans
\* (skew, against the inventory) and how wide it is (half) depend on a volatility that
\* is left out; the code bounds both, and the caller picks them within the bounds.
leaning(inv, skew) == IF inv > 0 THEN skew ELSE IF inv < 0 THEN -skew ELSE 0
as_fair(q) == IF q.bid_size + q.ask_size = 0 THEN (q.bid + q.ask) \div 2 ELSE micro(q)

as_quote(q, inv, lean, half) ==
  IF q.bid <= 0 \/ q.ask <= q.bid THEN NoQuotes
  ELSE LET bid == as_fair(q) - lean - half
           ask == as_fair(q) - lean + half
       IN  Sided(bid, IF ask <= bid THEN bid + 1 ELSE ask, inv)
=============================================================================
