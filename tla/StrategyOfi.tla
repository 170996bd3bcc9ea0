---------------------------- MODULE StrategyOfi ----------------------------
(***************************************************************************)
(* strategy_ofi.sv: the order-flow strategy with its window.  Edge is one  *)
(* edge of clk with the top of the book as it is before the edge; the book *)
(* keeps its top for as many edges as it takes the next message to arrive. *)
(***************************************************************************)
EXTENDS Integers, Sequences

CONSTANTS
  Bid, Ask,     \* prices of the touch
  Size,         \* and what it shows
  NoQuote,      \* a book that is not valid, or not normal (ask > bid > 0)
  WINDOW, THRESHOLD   \* both at least 1

VARIABLES
  prev, have_prev,       \* the last quote (pbp, pbs, pap, pas; bidp_r, askp_r)
  inc_r, s1_valid,       \* stage 1
  taps, ofi_sum,         \* the window and its running sum
  decision,              \* stage 2: "buy", "sell" or "none"
  updated                \* history: the quote in stage 1 changed the top of the book

vars == <<prev, have_prev, inc_r, s1_valid, taps, ofi_sum, decision, updated>>

\* Tops of a valid and normal book.
Quote == {q \in [bid : Bid, bid_size : Size, ask : Ask, ask_size : Size] : q.ask > q.bid}

If(b, n) == IF b THEN n ELSE 0

inc_c(q) ==
  LET e_b == If(q.bid >= prev.bid, q.bid_size) - If(q.bid <= prev.bid, prev.bid_size)
      e_a == If(q.ask <= prev.ask, q.ask_size) - If(q.ask >= prev.ask, prev.ask_size)
  IN  e_b - e_a

ofi_next == ofi_sum - Head(taps) + inc_r

\* The top of the book is another one than at the last edge.
Update(q) == have_prev /\ q # prev

Init ==
  /\ prev = [bid |-> 0, bid_size |-> 0, ask |-> 0, ask_size |-> 0] /\ have_prev = FALSE
  /\ inc_r = 0 /\ s1_valid = FALSE
  /\ taps = [i \in 1 .. WINDOW |-> 0] /\ ofi_sum = 0
  /\ decision = "none" /\ updated = FALSE

Capture(q) ==
  /\ have_prev' = (q # NoQuote)
  /\ s1_valid' = (q # NoQuote /\ have_prev)
  /\ IF q = NoQuote
       THEN UNCHANGED <<prev, inc_r>> /\ updated' = FALSE
       ELSE prev' = q /\ inc_r' = inc_c(q) /\ updated' = Update(q)

Decide ==
  IF s1_valid
    THEN /\ ofi_sum' = ofi_next
         /\ taps' = Append(Tail(taps), inc_r)
         /\ decision' = CASE ofi_next >= THRESHOLD -> "buy"
                          [] ofi_next <= -THRESHOLD -> "sell"
                          [] OTHER -> "none"
    ELSE UNCHANGED <<ofi_sum, taps>> /\ decision' = "none"

Edge(q) == Capture(q) /\ Decide

Reset ==
  /\ prev' = [bid |-> 0, bid_size |-> 0, ask |-> 0, ask_size |-> 0] /\ have_prev' = FALSE
  /\ inc_r' = 0 /\ s1_valid' = FALSE
  /\ taps' = [i \in 1 .. WINDOW |-> 0] /\ ofi_sum' = 0
  /\ decision' = "none" /\ updated' = FALSE

Next == Reset \/ \E q \in Quote \cup {NoQuote} : Edge(q)

Spec == Init /\ [][Next]_vars
-----------------------------------------------------------------------------
\* The header of strategy_ofi.sv: the increments are "Per L1 update", and the sum
\* of the last WINDOW of them decides.  So an order answers an update of the top
\* of the book, and a book that does not change proposes nothing.
OrderPerUpdate == [][decision' # "none" => updated]_vars
=============================================================================
