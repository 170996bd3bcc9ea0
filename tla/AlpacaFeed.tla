----------------------------- MODULE AlpacaFeed -----------------------------
(***************************************************************************)
(* host/live_feed.py with --alpaca --execute: one feed, its broker, the    *)
(* page; and of another feed of the session, for another symbol, what      *)
(* reaches this one: its stream of the fills of the whole account, its     *)
(* reconciles, and the account-wide cancel of a maker.                     *)
(* All tasks share one event loop, so what matters is what happens         *)
(* at an await: every call of the broker is made in one step, answered in  *)
(* a later one, and fills, updates, commands and the other tasks come in   *)
(* between.  A call whose answer carries nothing is one step.              *)
(*   quote      on_quote: a taker's, a momentum taker's or a maker's       *)
(*   requote    _requote_loop, for a maker                                 *)
(*   reconcile  _periodic_reconcile                                        *)
(*   writer     _live_state_writer: flattening, stops                      *)
(* Only positions are kept: no prices, so the kill switch and the stops    *)
(* may trip at any fill and at any turn.  The guard's position is left out:*)
(* each submit overwrites it with the broker's before it is used.          *)
(***************************************************************************)
EXTENDS Integers, FiniteSetsExt, SequencesExt

CONSTANTS
  Mode,                 \* the modes run, of "taker", "momentum", "maker"
  Lot,                  \* sizes the strategy orders
  MAX_POSITION,         \* max_position_shares
  QUOTE_SIZE, MAX_INVENTORY,
  NoAnswer,
  MaxOrders,            \* bound: orders the broker accepts
  MaxMishaps,           \* bound: mishaps: commands, trips, stops and failed calls
  Spent, SpentBoth,     \* bound: how many of both together do not come, with one feed
  SpentMakers           \* and with two, or two makers

ASSUME CapAssumption ==
  /\ MAX_POSITION \in Nat \ {0} /\ QUOTE_SIZE \in Nat \ {0} /\ MAX_INVENTORY \in Nat
  /\ Lot \subseteq Nat \ {0} /\ MaxOrders \in Nat /\ MaxMishaps \in Nat

VARIABLES
  mode,
  position,             \* the broker's position
  orders,               \* the broker's working orders [id, action, left, day]
  accepted,             \* how many orders the broker has accepted
  events,               \* fills on their way to the feed [id, action, qty, last]
  echo,                 \* and on their way to the other feed, as signed shares
  booked,               \* portfolio.books[symbol].pos
  halted,               \* portfolio.halted
  open_orders,          \* _open_orders: [id, action]
  task,                 \* the quote and the requote task
  snapshot,             \* _reconcile_portfolio of each feed: the answer on its way, or NoAnswer
  writer,               \* where the writer's loop goes on: 1 to 3, its checks
  risk_closing,         \* _risk_closing
  paused, flatten_req, flattened,   \* LiveControl
  mishaps,              \* how many there have been
  session,              \* "runs", "ending", then "flat", or "left" if the last flatten failed
  stray,                \* history: shares threads had yet to hand to the broker at that flatten
  another,              \* is there another feed
  off,                  \* history: by how much the books are wrong, as far as updates and
                        \* reconciles have made them
  crossing,             \* history: of each reconcile on its way, the updates it met
  blind,                \* history: a taker read its position wrongly, or too early
  owed                  \* history: orders each task may still send during this pause

vars == <<mode, position, orders, accepted, events, echo, booked, halted, open_orders, task,
          snapshot, writer, risk_closing, paused, flatten_req, flattened, session, stray,
          another, off, crossing, blind, owed, mishaps>>
brokerVars == <<position, orders, accepted, events, echo>>
controlVars == <<paused, flatten_req, flattened>>
sessionVars == <<session, stray>>
audit == <<another, off, crossing>>

Task == {"quote", "requote"}
Feed == {"own", "other"}
Idle == [pc |-> "idle", posts |-> <<>>, inv |-> 0, victims |-> {}, id |-> 0]
Order(action, size) == [action |-> action, size |-> size]
Signed(action, n) == IF action = "buy" THEN n ELSE -n
Lesser(a, b) == IF a < b THEN a ELSE b
Away(n) == IF n < 0 THEN -n ELSE n
Running == session = "runs"
Total(es) == MapThenSumSet(LAMBDA i : Signed(es[i].action, es[i].qty), DOMAIN es)
Undelivered == Total(events)
Feeds == IF another THEN Feed ELSE {"own"}

\* While an answer is on its way: how many updates of before it was asked for are yet to
\* come, their net shares, and those of the later ones that have come already.
NotCrossed == [old |-> 0, before |-> 0, later |-> 0]

\* The session starts with a share held from an earlier one, which the first reconcile
\* has seeded, or has failed to; some orders and mishaps may lie behind.
Init ==
  /\ mode \in Mode
  /\ position = 1 /\ booked \in {0, position} /\ off = booked - position
  /\ orders = {} /\ events = <<>> /\ echo = <<>> /\ halted = FALSE
  /\ open_orders = {} /\ task = [t \in Task |-> Idle]
  /\ snapshot = [f \in Feed |-> NoAnswer] /\ crossing = [f \in Feed |-> NotCrossed]
  /\ writer = 1 /\ risk_closing = FALSE /\ another \in BOOLEAN
  /\ paused = FALSE /\ flatten_req = FALSE /\ flattened = FALSE
  /\ accepted \in 0 .. MaxOrders /\ mishaps \in 0 .. MaxMishaps
  /\ accepted + mishaps = IF ~another THEN Spent ELSE IF mode = "maker" THEN SpentMakers
                          ELSE SpentBoth
  /\ session = "runs" /\ stray = 0 /\ blind = FALSE /\ owed = [t \in Task |-> 0]

Accepts == accepted < MaxOrders
\* What goes wrong, or comes from the page, is counted.
Costs(n) == mishaps + n <= MaxMishaps /\ mishaps' = mishaps + n
Faults(ok) == Costs(IF ok THEN 0 ELSE 1)

\* A pause finds orders under way: one of a taker that is before its call, both sides of a
\* quote that is not out yet, or what is left of it.
UnderWay(q) ==
  CASE q.pc = "idle" -> 0 [] q.pc = "clear" -> 2 [] q.pc \in {"submit", "ack"} -> Len(q.posts) - 1
    [] OTHER -> 1
Owing ==
  owed' = IF ~paused' THEN [t \in Task |-> 0]
          ELSE IF paused THEN owed ELSE [t \in Task |-> UnderWay(task[t])]

\* Task t hands an order to the broker.
Sending(t, to) ==
  /\ task' = [task EXCEPT ![t] = to]
  /\ owed' = IF to.pc = "submit" /\ paused THEN [owed EXCEPT ![t] = @ - 1] ELSE owed
-----------------------------------------------------------------------------
\* A taker: _alpaca_submit.

\* on_quote: the strategy or the momentum rule wants an order.  The gauntlet vetoes
\* a taker's when the kill switch has tripped; a momentum taker only buys.
OnQuote(dec) ==
  /\ mode \in {"taker", "momentum"} /\ Running /\ task["quote"].pc = "idle" /\ ~paused
  /\ Accepts
  /\ mode = "taker" => ~halted
  /\ mode = "momentum" => dec.action = "buy"
  /\ task' = [task EXCEPT !["quote"] = [Idle EXCEPT !.pc = "sync", !.posts = <<dec>>]]
  /\ UNCHANGED <<mode, brokerVars, booked, halted, open_orders, snapshot, writer,
                 risk_closing, controlVars, sessionVars, audit, blind, owed, mishaps>>

\* _sync_position: what the broker answers.  A failed call counts as no position.
ReadPosition(ok) ==
  /\ Running /\ task["quote"].pc = "sync" /\ Faults(ok)
  /\ task' = [task EXCEPT !["quote"].pc = "synced", !["quote"].inv = IF ok THEN position ELSE 0]
  /\ blind' = (blind \/ ~ok \/ orders # {})
  /\ UNCHANGED <<mode, brokerVars, booked, halted, open_orders, snapshot, writer,
                 risk_closing, controlVars, sessionVars, audit, owed>>

\* (mutant) an order against the position may be as large as the cap
room_Crossing(action, pos) ==
  IF action = "buy" THEN MAX_POSITION - pos ELSE IF pos > 0 THEN pos ELSE MAX_POSITION - pos

\* Against a position down to flat, with it up to the cap.
room(action, pos) ==
  IF action = "buy" THEN IF pos < 0 THEN -pos ELSE MAX_POSITION - pos
                    ELSE IF pos > 0 THEN pos ELSE MAX_POSITION + pos

\* The answer is in: clamp, check, and cancel what works on the other side first.
\* allowed: the guard passes its price, its size and the rate.
Submit(allowed) ==
  LET q == task["quote"]
      dec == Head(q.posts)
      size == Lesser(dec.size, room(dec.action, q.inv))
      victims == {o.id : o \in {p \in open_orders : p.action # dec.action}}
  IN  /\ Running /\ q.pc = "synced"
      /\ Sending("quote",
           IF size <= 0 \/ ~allowed THEN Idle
           ELSE [q EXCEPT !.posts = <<Order(dec.action, size)>>, !.victims = victims, !.inv = 0,
                          !.pc = IF victims = {} THEN "submit" ELSE "cancel"])
      /\ UNCHANGED <<mode, brokerVars, booked, halted, open_orders, snapshot, writer,
                     risk_closing, controlVars, sessionVars, audit, blind, mishaps>>

\* _cancel_opposite: one order, the oldest first; a failed call changes nothing.
CancelOpposite(ok) ==
  LET q == task["quote"]
      id == Min(q.victims)
      rest == q.victims \ {id}
  IN  /\ Running /\ q.pc = "cancel" /\ Faults(ok)
      /\ orders' = IF ok THEN {o \in orders : o.id # id} ELSE orders
      /\ open_orders' = {o \in open_orders : o.id # id}
      /\ Sending("quote", [q EXCEPT !.victims = rest, !.pc = IF rest = {} THEN "submit" ELSE @])
      /\ UNCHANGED <<mode, position, accepted, events, echo, booked, halted, snapshot, writer,
                     risk_closing, controlVars, sessionVars, audit, blind>>
-----------------------------------------------------------------------------
\* A maker: _post_capture_quotes and _post_quotes.

can_buy(inv) == inv + QUOTE_SIZE <= MAX_INVENTORY
can_sell(inv) == inv - QUOTE_SIZE >= -MAX_INVENTORY

\* The side that reduces the inventory comes first and does not cross zero.
TwoSided(inv) ==
  LET buy(n) == IF can_buy(inv) THEN <<Order("buy", n)>> ELSE <<>>
      sell(n) == IF can_sell(inv) THEN <<Order("sell", n)>> ELSE <<>>
  IN  IF inv > 0 THEN sell(Lesser(QUOTE_SIZE, inv)) \o buy(QUOTE_SIZE)
                 ELSE buy(Lesser(QUOTE_SIZE, -inv)) \o sell(QUOTE_SIZE)

\* A flat maker posts one side; that the sides take turns is left out.
Posts(inv, side) == IF inv # 0 THEN TwoSided(inv) ELSE <<Order(side, QUOTE_SIZE)>>

\* (mutant) the requote loop goes on during a pause
may_requote_Always == TRUE
may_requote == ~paused

Post(t) ==
  /\ mode = "maker" /\ Running /\ task[t].pc = "idle" /\ Accepts
  /\ task' = [task EXCEPT ![t] = [Idle EXCEPT !.pc = "clear", !.inv = booked]]
  /\ UNCHANGED <<mode, brokerVars, booked, halted, open_orders, snapshot, writer,
                 risk_closing, controlVars, sessionVars, audit, blind, owed, mishaps>>

OnWideQuote == ~paused /\ Post("quote")
Requote == may_requote /\ Post("requote")

\* cancel_orders, for the whole account, and the first of the new quotes; quoted: the
\* market maker quotes this book.
Clear(t, ok, quoted, side) ==
  LET posts == IF t = "requote" /\ ~quoted THEN <<>> ELSE Posts(task[t].inv, side)
  IN  /\ Running /\ task[t].pc = "clear" /\ Faults(ok)
      /\ orders' = IF ok THEN {} ELSE orders
      /\ open_orders' = {}
      /\ Sending(t, IF posts = <<>> THEN Idle
                    ELSE [Idle EXCEPT !.pc = "submit", !.posts = posts])
      /\ UNCHANGED <<mode, position, accepted, events, echo, booked, halted, snapshot, writer,
                     risk_closing, controlVars, sessionVars, audit, blind>>

\* The other maker refreshes its quotes: cancel_orders, for the whole account.
OthersClear ==
  /\ mode = "maker" /\ another /\ Running /\ orders # {} /\ orders' = {}
  /\ UNCHANGED <<mode, position, accepted, events, echo, booked, halted, open_orders, task,
                 snapshot, writer, risk_closing, controlVars, sessionVars, audit, blind, owed,
                 mishaps>>
-----------------------------------------------------------------------------
\* The broker gets an order: it takes it, and the answer may be lost, or it refuses.
\* A thread makes the call, which the end of the session does not stop.
Answered(q, id) == IF Running THEN [q EXCEPT !.pc = "ack", !.id = id] ELSE Idle

Accept(t, answered) ==
  LET post == Head(task[t].posts)
      order == [id |-> accepted + 1, action |-> post.action, left |-> post.size,
                day |-> mode = "maker"]
  IN  /\ task[t].pc = "submit" /\ Accepts /\ Faults(answered)
      /\ accepted' = accepted + 1 /\ orders' = orders \cup {order}
      /\ task' = [task EXCEPT ![t] = Answered(@, IF answered THEN order.id ELSE 0)]
      /\ UNCHANGED <<mode, position, events, echo, booked, halted, open_orders, snapshot, writer,
                     risk_closing, controlVars, sessionVars, audit, blind, owed>>

Refuse(t) ==
  /\ task[t].pc = "submit" /\ Faults(~Accepts) /\ task' = [task EXCEPT ![t] = Answered(@, 0)]
  /\ UNCHANGED <<mode, brokerVars, booked, halted, open_orders, snapshot, writer,
                 risk_closing, controlVars, sessionVars, audit, blind, owed>>

\* The answer: the order is tracked (a maker's are never looked up, so they are left
\* out), and a maker goes on to its next quote.
Ack(t) ==
  LET rest == Tail(task[t].posts)
  IN  /\ Running /\ task[t].pc = "ack"
      /\ open_orders' = IF task[t].id = 0 \/ mode = "maker" THEN open_orders
           ELSE open_orders \cup {[id |-> task[t].id, action |-> Head(task[t].posts).action]}
      /\ Sending(t, IF rest = <<>> THEN Idle ELSE [Idle EXCEPT !.pc = "submit", !.posts = rest])
      /\ UNCHANGED <<mode, brokerVars, booked, halted, snapshot, writer, risk_closing,
                     controlVars, sessionVars, audit, blind, mishaps>>

Sent(e) == IF Running THEN Append(events, e) ELSE <<>>
Echoed(n) == IF Running /\ another /\ n # 0 THEN Append(echo, n) ELSE echo

\* A working order is filled, wholly or in part.
Fill(o, n) ==
  /\ o \in orders /\ n \in 1 .. o.left
  /\ position' = position + Signed(o.action, n)
  /\ orders' = (orders \ {o}) \cup IF n = o.left THEN {} ELSE {[o EXCEPT !.left = @ - n]}
  /\ events' = Sent([id |-> o.id, action |-> o.action, qty |-> n, last |-> n = o.left])
  /\ echo' = Echoed(Signed(o.action, n))
  /\ UNCHANGED <<mode, accepted, booked, halted, open_orders, task, snapshot, writer,
                 risk_closing, controlVars, sessionVars, audit, blind, owed, mishaps>>

\* What an immediate order could not fill is cancelled.
Expire(o) ==
  /\ o \in orders /\ ~o.day /\ orders' = orders \ {o}
  /\ UNCHANGED <<mode, position, accepted, events, echo, booked, halted, open_orders, task,
                 snapshot, writer, risk_closing, controlVars, sessionVars, audit, blind, owed, mishaps>>

\* close_position: sold or bought at the market, at once.
Closed(keep) ==
  /\ position' = 0 /\ orders' = keep /\ echo' = Echoed(-position)
  /\ events' = IF position = 0 THEN events
               ELSE Sent([id |-> 0, action |-> IF position > 0 THEN "sell" ELSE "buy",
                          qty |-> Away(position), last |-> TRUE])

\* (mutant) close_all_positions without cancel_orders
FlattenAll_KeepOrders == Closed(orders)

\* _flatten_all: close_all_positions(cancel_orders=True).
FlattenAll == Closed({})
-----------------------------------------------------------------------------
\* (mutant) a partial fill is not booked
Bookable_Last(e) == e.last
Bookable(e) == e.qty > 0

\* An update of n shares is booked while answers may be on their way.
Crossed(n) ==
  [f \in Feed |->
     IF snapshot[f] = NoAnswer THEN crossing[f]
     ELSE IF crossing[f].old > 0 THEN [crossing[f] EXCEPT !.old = @ - 1, !.before = @ - n]
     ELSE [crossing[f] EXCEPT !.later = @ + n]]

\* _on_trade_update.  trips: the kill switch finds the equity too low.
OnTradeUpdate(trips) ==
  LET e == Head(events)
  IN  /\ Running /\ events # <<>> /\ events' = Tail(events) /\ Faults(~trips)
      /\ booked' = IF Bookable(e) THEN booked + Signed(e.action, e.qty) ELSE booked
      /\ halted' = (halted \/ trips)
      /\ open_orders' = IF e.last THEN {o \in open_orders : o.id # e.id} ELSE open_orders
      /\ crossing' = Crossed(Signed(e.action, e.qty))
      /\ UNCHANGED <<mode, position, orders, accepted, echo, task, snapshot, writer,
                     risk_closing, controlVars, sessionVars, another, off, blind, owed>>

\* _on_trade_update of the other feed books the same fill in the same portfolio, by the
\* order's own symbol; the order is none of its own.
OnOtherUpdate(trips) ==
  /\ Running /\ echo # <<>> /\ echo' = Tail(echo) /\ Faults(~trips)
  /\ booked' = booked + Head(echo) /\ off' = off + Head(echo)
  /\ halted' = (halted \/ trips)
  /\ UNCHANGED <<mode, position, orders, accepted, events, open_orders, task, snapshot, writer,
                 risk_closing, controlVars, sessionVars, another, crossing, blind, owed>>

\* The stream breaks and comes back: what it carried is lost.
LoseUpdates ==
  /\ Running /\ events # <<>> /\ events' = <<>> /\ Costs(1)
  /\ off' = off - Undelivered
  /\ crossing' = [f \in Feed |->
       IF snapshot[f] = NoAnswer THEN crossing[f]
       ELSE [NotCrossed EXCEPT !.later = crossing[f].later + Undelivered - crossing[f].before]]
  /\ UNCHANGED <<mode, position, orders, accepted, echo, booked, halted, open_orders, task,
                 snapshot, writer, risk_closing, controlVars, sessionVars, another, blind, owed>>

LoseOthers ==
  /\ Running /\ echo # <<>> /\ echo' = <<>> /\ Costs(1)
  /\ UNCHANGED <<mode, position, orders, accepted, events, booked, halted, open_orders, task,
                 snapshot, writer, risk_closing, controlVars, sessionVars, audit, blind, owed>>

\* _reconcile_portfolio of feed f asks; a failed call is no step.
Reconcile(f) ==
  /\ Running /\ snapshot[f] = NoAnswer /\ snapshot' = [snapshot EXCEPT ![f] = position]
  /\ crossing' = [crossing EXCEPT ![f] =
                    [old |-> Len(events), before |-> Undelivered, later |-> 0]]
  /\ UNCHANGED <<mode, brokerVars, booked, halted, open_orders, task, writer, risk_closing,
                 controlVars, sessionVars, another, off, blind, owed, mishaps>>

\* (mutant) a position the broker no longer has is left as it was
Reconciled_HeldOnly(held) == IF held = 0 THEN booked ELSE held
\* set_position for what the broker holds, and flat what it does not.
Reconciled(held) == held

\* What the answer knows already and is still to be booked counts twice, what was booked
\* meanwhile is forgotten.
ReconcileAnswer(f) ==
  /\ Running /\ snapshot[f] # NoAnswer /\ snapshot' = [snapshot EXCEPT ![f] = NoAnswer]
  /\ booked' = Reconciled(snapshot[f])
  /\ off' = crossing[f].before - crossing[f].later
  /\ crossing' = [crossing EXCEPT ![f] = NotCrossed]
  /\ UNCHANGED <<mode, brokerVars, halted, open_orders, task, writer, risk_closing,
                 controlVars, sessionVars, another, blind, owed, mishaps>>
-----------------------------------------------------------------------------
\* One turn of _live_state_writer, up to its next call and with it (ok: the call
\* works).  hit: the position has run into its stop, its target or its time.  A stop that
\* failed is not tried again before the position was flat.
Writer(hit, ok) ==
  LET wants_flat == writer = 1 /\ flatten_req
      trip == ~wants_flat /\ writer <= 2 /\ halted /\ ~flattened
      risk == ~wants_flat /\ ~trip
      close == risk /\ booked # 0 /\ ~risk_closing /\ hit
  IN  /\ session \in {"runs", "ending"} /\ Costs((IF hit THEN 1 ELSE 0) + IF ok THEN 0 ELSE 1)
      /\ writer' = IF wants_flat THEN 2 ELSE IF trip THEN 3 ELSE 1
      /\ flatten_req' = (flatten_req /\ ~wants_flat)
      /\ flattened' = (flattened \/ trip) /\ paused' = (paused \/ trip) /\ Owing
      /\ risk_closing' = IF risk /\ booked = 0 THEN FALSE ELSE risk_closing \/ close
      /\ IF ok /\ close THEN Closed(orders)
         ELSE IF ok /\ ~risk THEN FlattenAll ELSE UNCHANGED <<position, orders, events, echo>>
      /\ UNCHANGED <<mode, accepted, booked, halted, open_orders, task, snapshot, sessionVars,
                     audit, blind>>

\* The page: do_POST, in a thread of its own.
Command(cmd) ==
  /\ session \in {"runs", "ending"} /\ Costs(1)
  /\ paused' = IF cmd \in {"pause", "stop"} THEN TRUE ELSE IF cmd = "resume" THEN FALSE ELSE paused
  /\ flatten_req' = (flatten_req \/ cmd \in {"flatten", "stop"})
  /\ IF cmd = "reset_kill" THEN halted' = FALSE /\ flattened' = FALSE
     ELSE UNCHANGED <<halted, flattened>>
  /\ Owing
  /\ UNCHANGED <<mode, brokerVars, booked, open_orders, task, snapshot, writer,
                 risk_closing, sessionVars, audit, blind>>

\* The duration is over: the streams and the tasks are cancelled, but for the call of a
\* thread, and nobody reads the updates any more; then all is flattened.
End ==
  /\ Running /\ session' = "ending" /\ snapshot' = [f \in Feed |-> NoAnswer]
  /\ crossing' = [f \in Feed |-> NotCrossed] /\ off' = 0
  /\ task' = [t \in Task |-> IF task[t].pc = "submit" THEN task[t] ELSE Idle]
  /\ events' = <<>> /\ echo' = <<>> /\ open_orders' = {}
  /\ UNCHANGED <<mode, position, orders, accepted, booked, halted, writer, risk_closing,
                 controlVars, stray, another, blind, owed, mishaps>>

\* Shares a thread has still to hand to the broker.
InThread(q) == IF q.pc = "submit" THEN Head(q.posts).size ELSE 0
InThreads == InThread(task["quote"]) + InThread(task["requote"])
\* Shares that orders may still trade.
Open(working) == MapThenSumSet(LAMBDA o : o.left, working)

LastFlatten(ok) ==
  /\ session = "ending" /\ Faults(ok)
  /\ session' = IF ok THEN "flat" ELSE "left"
  /\ stray' = InThreads
  /\ IF ok THEN FlattenAll ELSE UNCHANGED <<position, orders, events, echo>>
  /\ UNCHANGED <<mode, accepted, booked, halted, open_orders, task, snapshot, writer,
                 risk_closing, controlVars, audit, blind, owed>>
-----------------------------------------------------------------------------
Taker ==
  \/ \E action \in {"buy", "sell"}, n \in Lot : OnQuote(Order(action, n))
  \/ \E b \in BOOLEAN : ReadPosition(b) \/ Submit(b) \/ CancelOpposite(b)
Maker ==
  \/ OnWideQuote \/ Requote \/ OthersClear
  \/ \E t \in Task, ok, quoted \in BOOLEAN : 
       \E side \in {"buy", "sell"} : Clear(t, ok, quoted, side)
Broker ==
  \/ \E t \in Task : (\E b \in BOOLEAN : Accept(t, b)) \/ Refuse(t) \/ Ack(t)
  \/ \E o \in orders : (\E n \in 1 .. o.left : Fill(o, n)) \/ Expire(o)
Updates ==
  \/ \E b \in BOOLEAN : OnTradeUpdate(b) \/ OnOtherUpdate(b)
  \/ LoseUpdates \/ LoseOthers
  \/ \E f \in Feeds : Reconcile(f) \/ ReconcileAnswer(f)
Page ==
  \/ \E b \in BOOLEAN : LastFlatten(b) \/ \E ok \in BOOLEAN : Writer(b, ok)
  \/ \E cmd \in {"pause", "resume", "flatten", "stop", "reset_kill"} : Command(cmd)
  \/ End

Next == Taker \/ Maker \/ Broker \/ Updates \/ Page

\* The event loop gets round to every task, the streams deliver or break, and the
\* broker answers a call; a call that always fails is not excluded, except for the
\* reconciling ones.
Fairness ==
  /\ \A f \in Feed : WF_vars(f \in Feeds /\ (Reconcile(f) \/ ReconcileAnswer(f)))
  /\ WF_vars(LoseUpdates \/ \E b \in BOOLEAN : OnTradeUpdate(b))
  /\ WF_vars(LoseOthers \/ \E b \in BOOLEAN : OnOtherUpdate(b))

Spec == Init /\ [][Next]_vars /\ Fairness
-----------------------------------------------------------------------------
\* Every fill of the broker is booked in full, however it is split and whenever it comes
\* relative to the answer to its order: with the updates on their way the books are the
\* broker's position, and what they are off is exactly this: lost updates; the updates that
\* crossed the last reconcile, in either order; and since then every fill once more that
\* the stream of another feed brought.
BooksAccounted == Running => booked + Undelivered = position + off

\* Lost updates, crossed reconciles and fills booked by two feeds do not last: once the
\* trading is over the portfolio comes to the broker's position and stays there.
BooksConverge == <>[](~Running \/ booked = position)

\* A pause stops the orders: a task sends what it had under way at that time, one order of
\* a taker or the rest of one quote, and starts nothing new before the resume.
PauseStopsOrders == \A t \in Task : owed[t] >= 0

\* The clamp keeps a taker's position within the cap through partial fills, stops and
\* flattens, as long as every read of the position succeeded and met no order of its
\* own still working.
PositionWithinCap ==
  mode # "maker" /\ ~blind => Away(position) <= MAX_POSITION

\* A session that was flattened ends flat but for the orders its threads were handing to the
\* broker at that moment: what is held then or later, works, or is still to be handed
\* over is never more than these.
EndsFlatButStrays == session = "flat" => Away(position) + Open(orders) + InThreads <= stray
=============================================================================
