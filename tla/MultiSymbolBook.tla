--------------------------- MODULE MultiSymbolBook ---------------------------
(***************************************************************************)
(* rtl/multi_symbol_book.sv: one order_book_m2 per symbol behind one       *)
(* parser.  A message goes to the book of its symbol; the parser holds it  *)
(* until msg_ready, which is high when every book is ready.  One action is *)
(* one edge of clk for the parser, the books and active_sym together.      *)
(***************************************************************************)
EXTENDS OrderBookM2

CONSTANT Symbol

VARIABLES
  books,        \* the book of each symbol
  held,         \* the message the parser holds (m_valid), or NoMsg
  active_sym    \* the symbol of the last accepted message

vars == <<books, held, active_sym>>

live_refs == {o.ref : o \in UNION {{books[s].entries[i] : i \in Entry} :
                                   s \in Symbol} \ {NoOrder}}

\* What the parser may decode next: a message of some symbol, with a fresh
\* reference where it introduces an order.
Decoded ==
  {[sym |-> s, msg |-> m] : s \in Symbol, m \in
     {m \in Message : /\ m.type = "Add" => m.ref \notin live_refs
                      /\ m.type = "Replace" => m.nref \notin live_refs \cup {m.ref}}}

mr       == \A s \in Symbol : msg_ready(books[s])
\* What the book of symbol s sees: msg_valid for it does not depend on mr.
presented(s) == IF held # NoMsg /\ held.sym = s THEN held.msg ELSE NoMsg

Init ==
  /\ books = [s \in Symbol |-> InitBook]
  /\ held = NoMsg
  /\ active_sym \in Symbol

Edge ==
  /\ books' = [s \in Symbol |-> BookEdge(books[s], presented(s))]
  /\ active_sym' = IF held # NoMsg /\ mr THEN held.sym ELSE active_sym
  /\ IF held = NoMsg THEN held' \in Decoded \cup {NoMsg}
                     ELSE held' = IF mr THEN NoMsg ELSE held

Next == Edge

Spec == Init /\ [][Next]_vars
-----------------------------------------------------------------------------
\* The header of multi_symbol_book.sv: "the engine accepts a new message only when
\* EVERY book is idle".  A book that leaves its idle state, or changes in it, has
\* accepted a message.
AcceptOnlyAllIdle ==
  [][\A s \in Symbol : msg_ready(books[s]) /\ books'[s] # books[s] => mr]_vars
=============================================================================
