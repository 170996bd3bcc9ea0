---------------------------- MODULE OrderBookSpec ----------------------------
(***************************************************************************)
(* What an order book promises: each message changes the set of live       *)
(* orders in one step, the book shows a depth that is exactly that of the  *)
(* live orders whenever it is ready for a message, and while it is not, it *)
(* shows the depth it had before and no half-built one.                    *)
(***************************************************************************)
CONSTANTS
  Message,            \* what the feed sends
  NoOrders,           \* no live order
  Apply(_, _),        \* Apply(orders, m): the live orders after m
  Shows(_, _)         \* Shows(levels, orders): levels is the depth of those orders

VARIABLES
  orders,    \* the live orders
  shown,     \* the depth the book shows
  busy       \* the book does not take a message

vars == <<orders, shown, busy>>

Init == orders = NoOrders /\ Shows(shown, NoOrders) /\ busy = FALSE

\* Take a message and show its effect at once.
Fast(m) ==
  /\ ~busy /\ UNCHANGED busy
  /\ orders' = Apply(orders, m) /\ Shows(shown', Apply(orders, m))

\* Take a message and work on it ...
Take(m) ==
  /\ ~busy /\ busy' = TRUE
  /\ orders' = Apply(orders, m) /\ UNCHANGED shown

\* ... until its effect shows.
Show == busy /\ busy' = FALSE /\ Shows(shown', orders) /\ UNCHANGED orders

Reset == orders' = NoOrders /\ Shows(shown', NoOrders) /\ busy' = FALSE

Next == Show \/ Reset \/ \E m \in Message : Fast(m) \/ Take(m)

Spec == Init /\ [][Next]_vars
=============================================================================
