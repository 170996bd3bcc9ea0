----------------------------- MODULE OrderBookM2 -----------------------------
(***************************************************************************)
(* rtl/order_book_m2.sv: one order book as a function of the clock edge.   *)
(* A book is a record of the module's registers; BookEdge(b, msg) is the   *)
(* book after an edge of clk at which msg is presented (NoMsg when         *)
(* msg_valid is low).  OrderBook runs one book, MultiSymbolBook several.   *)
(*                                                                         *)
(* The order table is indexed by the low bits of the order reference       *)
(* (Index).  An entry that entry_valid does not mark is NoOrder: the code  *)
(* never looks into it.  A side of the level cache is a sequence, best     *)
(* price first, and its length is the code's cnt.  The latched message and *)
(* the half-built cache are cleared when the state that reads them is left.*)
(***************************************************************************)
EXTENDS Integers, FiniteSets, FiniteSetsExt, SequencesExt

CONSTANTS
  Ref,           \* order references
  Price, Shares, \* prices, and share counts of one message
  ORDER_DEPTH,   \* entries of the order table
  NLEVELS,       \* levels shown per side
  NoOrder, NoMsg

Entry       == 0 .. ORDER_DEPTH - 1
Side        == {"bid", "ask"}
Index(ref)  == ref % ORDER_DEPTH
Order       == [ref : Ref, side : Side, price : Price, shares : Nat \ {0}]

\* The messages the parser hands over, with the fields the book reads: Add (A, F),
\* Reduce (X, E, C), Delete (D), Replace (U); Trade (P) is ignored by the book.
Message ==
  [type : {"Add"}, ref : Ref, side : Side, price : Price, shares : Shares]
    \cup [type : {"Reduce"}, ref : Ref, shares : Shares]
    \cup [type : {"Delete"}, ref : Ref]
    \cup [type : {"Replace"}, ref : Ref, nref : Ref, price : Price, shares : Shares]
    \cup [type : {"Trade"}]

ASSUME BookAssumption ==
  /\ ORDER_DEPTH \in Nat \ {0} /\ NLEVELS \in Nat \ {0}
  /\ Ref \subseteq Nat /\ Price \subseteq Nat /\ Shares \subseteq Nat \ {0}
  /\ NoOrder \notin Order /\ NoMsg \notin Message

Better(side, p, q) == IF side = "bid" THEN p > q ELSE p < q
-----------------------------------------------------------------------------
(* The level cache.                                                        *)

\* Add s shares at price p: to the level of that price if it is shown, else as a
\* level of its own in front of the first worse one; the last level falls off.
side_insert(levels, side, p, s) ==
  IF \E i \in DOMAIN levels : levels[i].price = p
    THEN [i \in DOMAIN levels |->
            IF levels[i].price = p THEN [levels[i] EXCEPT !.size = @ + s] ELSE levels[i]]
    ELSE LET ins == Min({i \in DOMAIN levels : Better(side, p, levels[i].price)}
                          \cup {Len(levels) + 1})
             all == InsertAt(levels, ins, [price |-> p, size |-> s])
         IN  SubSeq(all, 1, Min({Len(all), NLEVELS}))

insert_order(levels, o) ==
  [levels EXCEPT ![o.side] = side_insert(@, o.side, o.price, o.shares)]

no_levels == [side \in Side |-> <<>>]

\* (mutant) an order at the worst shown price counts as not shown
aff_displayed_Strict(levels, o) ==
  LET lv == levels[o.side]
  IN  Len(lv) # NLEVELS \/ Better(o.side, o.price, lv[NLEVELS].price)

\* Could a change of order o change what is shown?
aff_displayed(levels, o) ==
  LET lv == levels[o.side]
  IN  Len(lv) # NLEVELS \/ ~Better(o.side, lv[NLEVELS].price, o.price)

msg_ready(b)  == b.state = "IDLE"
-----------------------------------------------------------------------------
InitBook ==
  [entries |-> [i \in Entry |-> NoOrder], levels |-> no_levels, state |-> "IDLE",
   m |-> NoMsg, scan_addr |-> 0, scan |-> no_levels]

\* IDLE: an Add is applied at once, to the table and to the cache; the messages that
\* name an order are latched while the table is read; anything else is ignored.
IdleEdge(b, msg) ==
  CASE msg # NoMsg /\ msg.type = "Add" ->
         LET o == [ref |-> msg.ref, side |-> msg.side, price |-> msg.price,
                   shares |-> msg.shares]
         IN  [b EXCEPT !.entries[Index(msg.ref)] = o, !.levels = insert_order(@, o)]
    [] msg # NoMsg /\ msg.type \in {"Reduce", "Delete", "Replace"} ->
         [b EXCEPT !.state = "LOOKUP", !.m = msg]
    [] OTHER -> b

\* The order the latched message names, as read from the table, and whether the
\* table still holds that order.
target(b)   == b.entries[Index(b.m.ref)]
lk_match(b) == target(b) # NoOrder /\ target(b).ref = b.m.ref

\* (mutant) a reduction to nothing leaves an order of no shares
edited_Empty(b) ==
  LET i == Index(b.m.ref)  o == target(b)
  IN  CASE b.m.type = "Reduce" ->
             [b.entries EXCEPT ![i] =
                IF o.shares >= b.m.shares THEN [o EXCEPT !.shares = @ - b.m.shares]
                                          ELSE NoOrder]
        [] b.m.type = "Delete" -> [b.entries EXCEPT ![i] = NoOrder]
        [] b.m.type = "Replace" ->
             [b.entries EXCEPT ![i] = NoOrder,
                               ![Index(b.m.nref)] =
                [ref |-> b.m.nref, side |-> o.side, price |-> b.m.price,
                 shares |-> b.m.shares]]

\* The table after the latched message is applied to its order.
edited(b) ==
  LET i == Index(b.m.ref)  o == target(b)
  IN  CASE b.m.type = "Reduce" ->
             [b.entries EXCEPT ![i] =
                IF o.shares > b.m.shares THEN [o EXCEPT !.shares = @ - b.m.shares]
                                         ELSE NoOrder]
        [] b.m.type = "Delete" -> [b.entries EXCEPT ![i] = NoOrder]
        [] b.m.type = "Replace" ->
             [b.entries EXCEPT ![i] = NoOrder,
                               ![Index(b.m.nref)] =
                [ref |-> b.m.nref, side |-> o.side, price |-> b.m.price,
                 shares |-> b.m.shares]]

\* LOOKUP: apply the message if the order is there, and rebuild the cache if a
\* shown level could have changed.
LookupEdge(b) ==
  LET rescan == lk_match(b) /\ (b.m.type = "Replace" \/ aff_displayed(b.levels, target(b)))
  IN  [b EXCEPT !.entries = IF lk_match(b) THEN edited(b) ELSE @,
                !.state = IF rescan THEN "RESCAN" ELSE "IDLE",
                !.m = NoMsg]

last_scan == ORDER_DEPTH + 1

\* (mutant) the scan starts over instead of going idle
after_scan_Again == "RESCAN"
after_scan == "IDLE"

\* RESCAN: one entry per edge; the entry read at address a is processed at a + 1,
\* and after the last one the rebuilt cache is shown.
RescanEdge(b) ==
  IF b.scan_addr < last_scan
    THEN [b EXCEPT
            !.scan = IF b.scan_addr > 0 /\ b.entries[b.scan_addr - 1] # NoOrder
                       THEN insert_order(@, b.entries[b.scan_addr - 1]) ELSE @,
            !.scan_addr = @ + 1]
    ELSE [b EXCEPT !.levels = b.scan, !.state = after_scan, !.scan_addr = 0,
                   !.scan = no_levels]

BookEdge(b, msg) ==
  CASE b.state = "IDLE"   -> IdleEdge(b, msg)
    [] b.state = "LOOKUP" -> LookupEdge(b)
    [] b.state = "RESCAN" -> RescanEdge(b)
-----------------------------------------------------------------------------
(* What the cache should show: the best NLEVELS prices of the live orders, *)
(* each with the shares of all orders at that price.                       *)

AtPrice(orders, side, p) == {o \in orders : o.side = side /\ o.price = p}
SharesOf(orders)         == MapThenSumSet(LAMBDA o : o.shares, orders)

\* The levels run from the best to the worst, each is the price of an order with the
\* shares of all orders at it, and a price that has no level is worse than the last
\* level of a full side.
ShowsSide(levels, orders, side) ==
  /\ Len(levels) <= NLEVELS
  /\ \A i, j \in DOMAIN levels : i < j => Better(side, levels[i].price, levels[j].price)
  /\ \A i \in DOMAIN levels :
       LET there == AtPrice(orders, side, levels[i].price)
       IN  there # {} /\ levels[i].size = SharesOf(there)
  /\ \A o \in orders : o.side = side =>
       \/ \E i \in DOMAIN levels : levels[i].price = o.price
       \/ Len(levels) = NLEVELS /\ Better(side, levels[NLEVELS].price, o.price)

Shows(levels, orders) == \A side \in Side : ShowsSide(levels[side], orders, side)
=============================================================================
