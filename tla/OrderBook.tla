------------------------------ MODULE OrderBook ------------------------------
(***************************************************************************)
(* One order book (rtl/order_book_m2.sv) fed by the market.  The feed is a *)
(* legal one (sim/replay_gen.py): it adds an order, or replaces one by     *)
(* another, under a reference whose slot no other live order holds; it may *)
(* name an order that is gone, and whose slot another order has taken.     *)
(***************************************************************************)
EXTENDS OrderBookM2

VARIABLE book

live(b)      == {b.entries[i] : i \in Entry} \ {NoOrder}
Free(b, ref) == b.entries[Index(ref)] = NoOrder

Legal(b, msg) ==
  /\ msg.type = "Add" => Free(b, msg.ref)
  /\ msg.type = "Replace" =>
       msg.nref # msg.ref /\ (Free(b, msg.nref) \/ Index(msg.nref) = Index(msg.ref))

Init == book = InitBook

\* The book is ready and takes a message.
Accept(msg) == msg_ready(book) /\ Legal(book, msg) /\ book' = BookEdge(book, msg)

\* The book is at work; the message the parser holds, if any, has to wait.
Work == ~msg_ready(book) /\ book' = BookEdge(book, NoMsg)

Reset == book' = InitBook

Next == Work \/ Reset \/ \E msg \in Message : Accept(msg)

Spec == Init /\ [][Next]_book

\* The clock runs.
FairSpec == Spec /\ WF_book(Work)
-----------------------------------------------------------------------------
\* A book that is ready shows exactly the best levels of its live orders, although
\* it adds to the cache order by order, forgets levels that fall off it, and skips
\* the rebuild when it judges that nothing shown has changed.
BookExact == msg_ready(book) => Shows(book.levels, live(book))

\* The book is the abstract one: messages apply in one step each, and a stale depth
\* is shown only while the book does not take messages.  While a looked-up message
\* waits to be applied, the live orders are those after it.
orders_of(b) == live(IF b.state = "LOOKUP" /\ lk_match(b)
                       THEN [b EXCEPT !.entries = edited(b)] ELSE b)

\* What a message does to the live orders, whatever table they are kept in.
ApplyMsg(orders, m) ==
  LET named == IF m.type = "Trade" THEN {} ELSE {o \in orders : o.ref = m.ref}
  IN  CASE m.type = "Add" ->
             orders \cup {[ref |-> m.ref, side |-> m.side, price |-> m.price,
                           shares |-> m.shares]}
        [] m.type = "Reduce" ->
             (orders \ named) \cup {[o EXCEPT !.shares = @ - m.shares] :
                                      o \in {x \in named : x.shares > m.shares}}
        [] m.type = "Delete" -> orders \ named
        [] m.type = "Replace" ->
             (orders \ named) \cup {[ref |-> m.nref, side |-> o.side, price |-> m.price,
                                     shares |-> m.shares] : o \in named}
        [] OTHER -> orders

Abstract == INSTANCE OrderBookSpec
  WITH NoOrders <- {}, Apply <- ApplyMsg, Shows <- Shows,
       orders <- orders_of(book), shown <- book.levels, busy <- ~msg_ready(book)

ImplementsBook == Abstract!Spec

\* Whatever message it takes, the book is ready again: a rebuild ends.
ReadyAgain == ~msg_ready(book) ~> msg_ready(book)
=============================================================================
