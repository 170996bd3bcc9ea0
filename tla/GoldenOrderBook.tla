--------------------------- MODULE GoldenOrderBook ---------------------------
(***************************************************************************)
(* sim/golden/order_book_m2.py, the reference the hardware book is compared*)
(* with, and sim/golden/order_book.py, the older one that tracks the touch *)
(* only.  Both take a whole message at a time.                             *)
(*                                                                         *)
(* A side of the cache is a record of the arrays price and size, of which  *)
(* the first cnt places count.  A slot that is not valid is NoEntry.       *)
(***************************************************************************)
EXTENDS Integers, FiniteSetsExt, SequencesExt

CONSTANTS
  DEPTH,      \* slots of the order table (order_depth)
  N,          \* levels per side (nlevels)
  NO_ASK,     \* the ask of an empty side
  NoEntry

Slot == 0 .. DEPTH - 1

EmptySide == [price |-> [i \in 1 .. N |-> 0], size |-> [i \in 1 .. N |-> 0], cnt |-> 0]

better(is_bid, p, q) == IF is_bid THEN p > q ELSE p < q

insert(side, is_bid, p, s) ==
  LET same == {i \in 1 .. side.cnt : side.price[i] = p}
      ins  == Min({i \in 1 .. side.cnt : better(is_bid, p, side.price[i])} \cup {side.cnt + 1})
      opened(row, new) == [i \in 1 .. N |-> IF i < ins THEN row[i]
                                            ELSE IF i = ins THEN new ELSE row[i - 1]]
  IN  IF same # {} THEN [side EXCEPT !.size[Min(same)] = @ + s]
      ELSE IF ins > N THEN side
      ELSE [price |-> opened(side.price, p), size |-> opened(side.size, s),
            cnt |-> Min({side.cnt + 1, N})]

worst_price(side) == side.price[IF side.cnt = 0 THEN 1 ELSE side.cnt]

NewBook == [entries |-> [i \in Slot |-> NoEntry], bid |-> EmptySide, ask |-> EmptySide]

Entered(b, e) ==
  IF e.side = "bid" THEN [b EXCEPT !.bid = insert(@, TRUE, e.price, e.shares)]
                    ELSE [b EXCEPT !.ask = insert(@, FALSE, e.price, e.shares)]

\* Both caches rebuilt from every valid slot, in the order of the slots.
rescan(b) ==
  FoldLeft(LAMBDA acc, e : IF e = NoEntry THEN acc ELSE Entered(acc, e),
           [b EXCEPT !.bid = EmptySide, !.ask = EmptySide],
           [i \in 1 .. DEPTH |-> b.entries[i - 1]])

affects_displayed(b, e) ==
  IF e.side = "ask" THEN b.ask.cnt # N \/ e.price <= worst_price(b.ask)
                    ELSE b.bid.cnt # N \/ e.price >= worst_price(b.bid)

\* The table after m, which names the order orig.
Reworked(entries, m, orig) ==
  LET i == m.ref % DEPTH
  IN  CASE m.type = "Reduce" ->
             [entries EXCEPT ![i] = IF orig.shares > m.shares
                                      THEN [orig EXCEPT !.shares = @ - m.shares] ELSE NoEntry]
        [] m.type = "Delete" -> [entries EXCEPT ![i] = NoEntry]
        [] m.type = "Replace" ->
             [entries EXCEPT ![i] = NoEntry,
                             ![m.nref % DEPTH] = [ref |-> m.nref, side |-> orig.side,
                                                  price |-> m.price, shares |-> m.shares]]

\* A later order takes over the slot of an earlier one with the same low bits, whose
\* shares stay in the cache until the next rescan.
apply(b, m) ==
  IF m.type = "Add"
    THEN LET e == [ref |-> m.ref, side |-> m.side, price |-> m.price, shares |-> m.shares]
         IN  Entered([b EXCEPT !.entries[m.ref % DEPTH] = e], e)
  ELSE IF m.type = "Trade" THEN b
  ELSE LET orig == b.entries[m.ref % DEPTH]
           after == [b EXCEPT !.entries = Reworked(@, m, orig)]
       IN  IF orig = NoEntry \/ orig.ref # m.ref THEN b
           ELSE IF m.type = "Replace" \/ affects_displayed(b, orig) THEN rescan(after)
           ELSE after

\* What the strategies are given.
snapshot(b) ==
  [valid |-> b.bid.cnt > 0 /\ b.ask.cnt > 0,
   bid |-> IF b.bid.cnt > 0 THEN b.bid.price[1] ELSE 0,
   bid_size |-> IF b.bid.cnt > 0 THEN b.bid.size[1] ELSE 0,
   ask |-> IF b.ask.cnt > 0 THEN b.ask.price[1] ELSE NO_ASK,
   ask_size |-> IF b.ask.cnt > 0 THEN b.ask.size[1] ELSE 0,
   bid_level_size |-> [i \in 1 .. N |-> IF i <= b.bid.cnt THEN b.bid.size[i] ELSE 0],
   ask_level_size |-> [i \in 1 .. N |-> IF i <= b.ask.cnt THEN b.ask.size[i] ELSE 0]]
-----------------------------------------------------------------------------
(* The older reference: a touch that only ever improves.                   *)

NewTop == [bid |-> 0, bid_size |-> 0, ask |-> NO_ASK, ask_size |-> 0,
           bid_seen |-> FALSE, ask_seen |-> FALSE]

\* The orders it keeps are never looked at again: cancels, deletes and executions
\* leave the touch as it is.  An order that names its participant (ADD_MPID) is no ADD
\* for this book, though the other reference and the hardware enter it.
top_apply(t, m, attributed) ==
  IF m.type # "Add" \/ attributed THEN t
  ELSE IF m.side = "bid"
    THEN [t EXCEPT !.bid_seen = TRUE,
                   !.bid = IF m.price > t.bid THEN m.price ELSE @,
                   !.bid_size = IF m.price > t.bid THEN m.shares
                                ELSE IF m.price = t.bid THEN @ + m.shares ELSE @]
    ELSE [t EXCEPT !.ask_seen = TRUE,
                   !.ask = IF m.price < t.ask THEN m.price ELSE @,
                   !.ask_size = IF m.price < t.ask THEN m.shares
                                ELSE IF m.price = t.ask THEN @ + m.shares ELSE @]
=============================================================================
