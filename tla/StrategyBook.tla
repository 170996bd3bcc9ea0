---------------------------- MODULE StrategyBook ----------------------------
(***************************************************************************)
(* host/strategy_registry.py: takers and makers behind one interface, each *)
(* with a book of its own, a leg.  Every enabled strategy sees every quote *)
(* and answers with intents; which of them are filled is the caller's      *)
(* business.  A strategy book is a sequence of adapters, in the order they *)
(* were enabled.  A leg holds a base asset, of which BTC units are one: the*)
(* inventory counts the units, the money is price times units, and the page*)
(* and the strategies see both per base asset.  Counters and fees are left *)
(* out.                                                                    *)
(***************************************************************************)
EXTENDS OfiSw

CONSTANTS THRESH, SPREAD, BTC

TakerStrategy == INSTANCE StrategySw WITH
  NLEVELS_SW <- 1, SPREAD_SW <- SPREAD, COOLDOWN_SW <- 0, BASE_LOT <- OFI_BASE_LOT,
  MAX_LOT <- OFI_MAX_LOT, NoOrder <- NoDecision

Size(n) == IF n < 0 THEN -n ELSE n
NewLeg == [inventory |-> 0, avg_cost |-> 0, realized |-> 0]

\* A leg after signed shares at a price: closing against an opposite position realises,
\* the rest re-averages.
leg_fill(leg, signed, px) ==
  LET inv == leg.inventory + signed
      closed == IF Size(signed) < Size(leg.inventory) THEN Size(signed) ELSE Size(leg.inventory)
      closing == leg.inventory # 0 /\ (leg.inventory > 0) # (signed > 0)
  IN  IF closing
        THEN [inventory |-> inv,
              realized |-> leg.realized + closed * IF leg.inventory > 0 THEN px - leg.avg_cost
                                                   ELSE leg.avg_cost - px,
              avg_cost |-> IF Size(signed) > closed THEN px
                           ELSE IF inv = 0 THEN 0 ELSE leg.avg_cost]
        ELSE [leg EXCEPT !.inventory = inv,
                !.avg_cost = (@ * Size(leg.inventory) + px * Size(signed)) \div Size(inv)]

leg_unrealized(leg, mark) ==
  IF leg.inventory = 0 \/ mark = 0 THEN 0
  ELSE IF leg.inventory > 0 THEN (mark - leg.avg_cost) * leg.inventory
       ELSE (leg.avg_cost - mark) * Size(leg.inventory)
-----------------------------------------------------------------------------
\* enable: a strategy starts flat; its state is that of the strategy it wraps.
Adapter(name) ==
  [name |-> name, leg |-> NewLeg,
   st |-> IF name = "ofi" THEN NewSignal ELSE TakerStrategy!NewStrategy]

NewBook(names) == [i \in DOMAIN names |-> Adapter(names[i])]
Names(ads) == {ads[i].name : i \in DOMAIN ads}

enable(ads, name) == IF name \in Names(ads) THEN ads ELSE Append(ads, Adapter(name))

\* The leg is dropped with the strategy.
disable(ads, name) ==
  IF name \in Names(ads) THEN RemoveAt(ads, CHOOSE i \in DOMAIN ads : ads[i].name = name) ELSE ads

taker_intents(dec) ==
  IF dec = NoDecision THEN <<>>
  ELSE <<[action |-> dec.action, price |-> dec.price, size |-> dec.size, passive |-> FALSE]>>

\* A price or a size of 0 means that the side is not quoted.
maker_intents(k) ==
  LET side(action, price, size) ==
        IF price # 0 /\ size # 0
          THEN <<[action |-> action, price |-> price, size |-> size, passive |-> TRUE]>> ELSE <<>>
  IN  side("buy", k.bid, k.bid_size) \o side("sell", k.ask, k.ask_size)

\* The base asset held; the part of one, which leans a quote by less than a tick, is
\* left out.
held(leg) == IF leg.inventory < 0 THEN -(Size(leg.inventory) \div BTC) ELSE leg.inventory \div BTC

\* What a strategy makes of the quote q: its adapter and its intents.  skew and half are
\* those of Avellaneda-Stoikov.
asked(ad, q, skew, half) ==
  LET inv == held(ad.leg)
      imb == TakerStrategy!evaluate_touch(ad.st, TRUE, q)
      ofi == update(ad.st, q, TRUE)
  IN  CASE ad.name = "imbalance" -> [ad |-> [ad EXCEPT !.st = imb.st], todo |-> taker_intents(imb.dec)]
        [] ad.name = "ofi" -> [ad |-> [ad EXCEPT !.st = ofi.st], todo |-> taker_intents(ofi.dec)]
        [] ad.name = "market_maker" -> [ad |-> ad, todo |-> maker_intents(quote(q, inv))]
        [] ad.name = "avellaneda" -> [ad |-> ad, todo |-> maker_intents(as_quote(q, inv, leaning(ad.leg.inventory, skew), half))]

\* on_book: all see the quote before any of the intents is filled; intents are tagged
\* with the place of their strategy.
on_book(ads, q, skew, half) ==
  LET out == [i \in DOMAIN ads |-> asked(ads[i], q, skew, half)]
      tagged(i) == [n \in DOMAIN out[i].todo |-> [of |-> i, intent |-> out[i].todo[n]]]
  IN  [ads |-> [i \in DOMAIN ads |-> out[i].ad],
       todo |-> FlattenSeq([i \in DOMAIN ads |-> tagged(i)])]

on_fill(ads, i, signed, px) == [ads EXCEPT ![i].leg = leg_fill(@, signed, px)]

\* Leg.stats: what a strategy made, realized and not.
leg_stats(ad, mark) ==
  [name |-> ad.name, inventory |-> ad.leg.inventory, avg_cost |-> ad.leg.avg_cost,
   realized |-> ad.leg.realized \div BTC, unrealized |-> leg_unrealized(ad.leg, mark) \div BTC,
   net |-> (ad.leg.realized + leg_unrealized(ad.leg, mark)) \div BTC]

stats(ads, mark) == [i \in DOMAIN ads |-> leg_stats(ads[i], mark)]

totals(ads, mark) ==
  LET rows == stats(ads, mark)
  IN  [realized |-> SumOf([i \in DOMAIN rows |-> rows[i].realized]),
       unrealized |-> SumOf([i \in DOMAIN rows |-> rows[i].unrealized]),
       net |-> SumOf([i \in DOMAIN rows |-> rows[i].net])]
=============================================================================
