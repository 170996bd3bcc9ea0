-------------------------------- MODULE Panel --------------------------------
(***************************************************************************)
(* host/monitor_server.py with its money: the equity simulator and the     *)
(* crypto feed are two threads on one portfolio.  The simulator stands down*)
(* while live quotes are traded, and stops with the kill switch; the crypto*)
(* thread runs the strategies of the strategy book in dry-run and looks at *)
(* the page's switches only.  Which broker and which feed is Monitor's     *)
(* subject, and so are the switches: commands set them between any two     *)
(* steps, so that here a step of either thread, in either mode of the      *)
(* simulator, may come at any time.  path is "panel".                      *)
(***************************************************************************)
EXTENDS DeskBase

\* _step_symbol of the equity simulator, for one symbol and one quote of its walk, in
\* either mode.
Simulated(s, q) ==
  /\ path = "panel" /\ s # crypto.sym /\ q.valid /\ Room
  /\ UNCHANGED <<path, scheduled, working, page, crypto, leftover>>

SimTaker(s, q, calm) ==
  LET marked == mark_price(pf, s, Mid(q))
      signal == SW!evaluate_touch(feed[s].st, TRUE, Touch(q))
      passed == G!evaluate(FALSE, calm, signal.dec, q, marked.books[s].pos,
                           gross_room(marked, s, signal.dec.action, signal.dec.price))
  IN  /\ Simulated(s, q) /\ ~pf.halted
      /\ Booked(s, marked, IF signal.dec = NoDec THEN <<>> ELSE Fills(passed.dec))
      /\ feed' = [feed EXCEPT ![s].st = signal.st]

SimMaker(s, q, hit) ==
  /\ Simulated(s, q) /\ ~pf.halted /\ UNCHANGED feed
  /\ Booked(s, mark_price(pf, s, Mid(q)), Hits(SB!quote(Touch(q), pf.books[s].pos), hit))

SimHalted(s, q) ==
  /\ Simulated(s, q) /\ pf.halted /\ pf' = mark_price(pf, s, Mid(q))
  /\ UNCHANGED <<feed, cash, after, dropped>>
-----------------------------------------------------------------------------
\* The quantity of an intent; the leg books it as it is, the portfolio in whole units and
\* at least one.
qty(size) == size * QTY_PER_SHARE
micro(size) == Greater(1, qty(size))

\* The bridge's _check.  The exposure it limits is that of all it let through, filled
\* or not; late: the strategy's orders of the last second are as many as may be.
may_route(c, intent, late) ==
  /\ qty(intent.size) >= MIN_QTY
  /\ qty(intent.size) * intent.price <= MAX_NOTIONAL * BTC
  /\ Magnitude((c.position + Signed(intent.action, qty(intent.size))) * intent.price)
       <= MAX_EXPOSURE * BTC
  /\ c.last > 0 => Magnitude(intent.price - c.last) * 100 <= DRIFT_PCT * c.last
  /\ ~late

\* The fill model: a taker crosses, a maker is filled when the touch comes to its price.
reached(intent, q) ==
  ~intent.passive \/ IF intent.action = "buy" THEN q.bid <= intent.price ELSE q.ask >= intent.price

\* The intent of strategy i, of acc = [crypto, pf, paid], on quote q.
Routed(acc, i, intent, q, late) ==
  LET signed == Signed(intent.action, qty(intent.size))
      booked == micro(intent.size)
      sym == acc.crypto.sym
      sent == [acc EXCEPT !.crypto.position = @ + signed, !.crypto.last = intent.price]
  IN  IF ~may_route(acc.crypto, intent, late) THEN acc
      ELSE IF ~reached(intent, q) THEN sent
      ELSE [crypto |-> [sent.crypto EXCEPT !.ads = SB!on_fill(@, i, signed, intent.price)],
            pf |-> on_fill(mark_price(acc.pf, sym, Mid(q)), sym, intent.action, booked,
                           intent.price),
            paid |-> acc.paid + Signed(intent.action, booked) * intent.price]

\* _on_quote while trading is off or paused: the quote is the mark of the page.
Watched(q) ==
  /\ path = "panel" /\ q.valid /\ crypto' = [crypto EXCEPT !.mark = Mid(q)]
  /\ UNCHANGED <<path, pf, feed, scheduled, working, page, history>>

\* _on_quote: late are the intents that meet the rate limit of their strategy.
OnQuote(q, skew, half, late) ==
  /\ path = "panel" /\ q.valid /\ Room
  /\ \E out \in {SB!on_book(crypto.ads, Touch(q), skew, half)} :
       LET one(acc, n) == Routed(acc, out.todo[n].of, out.todo[n].intent, q, n \in late)
       IN  /\ late \subseteq DOMAIN out.todo
           /\ \E end \in {FoldLeftDomain(one, [crypto |-> [crypto EXCEPT !.ads = out.ads, !.mark = Mid(q)],
                                              pf |-> pf, paid |-> 0], out.todo)} :
                /\ crypto' = end.crypto /\ pf' = end.pf
                /\ cash' = [cash EXCEPT ![crypto.sym] = @ - end.paid]
  /\ Counted
  /\ UNCHANGED <<path, feed, scheduled, working, page, leftover, dropped>>
-----------------------------------------------------------------------------
\* The page's reset takes the high-water mark down to where the equity is.
PanelReset ==
  /\ path = "panel" /\ pf' = [pf EXCEPT !.halted = FALSE, !.peak_equity = equity(pf)] /\ after' = 0
  /\ UNCHANGED <<path, feed, scheduled, working, page, crypto, cash, leftover, dropped>>

\* A new threshold makes the simulator's strategies anew.  (The number itself stays.)
Threshold ==
  /\ path = "panel" /\ feed' = [s \in Symbol |-> [feed[s] EXCEPT !.st = SW!NewStrategy]]
  /\ UNCHANGED <<path, pf, scheduled, working, page, crypto, cash, after, leftover, dropped>>

\* A strategy is switched on, with an empty leg, or off, with its leg dropped.
Strategy(name, on) ==
  LET legs == {i \in DOMAIN crypto.ads : crypto.ads[i].name = name}
      money(leg) == leg.realized - leg.inventory * leg.avg_cost
  IN  /\ path = "panel" /\ on = (legs = {})
      /\ crypto' = [crypto EXCEPT !.ads = IF on THEN SB!enable(@, name) ELSE SB!disable(@, name)]
      /\ dropped' = IF on THEN dropped
                    ELSE [shares |-> dropped.shares + SumSet({crypto.ads[i].leg.inventory : i \in legs}),
                          money |-> dropped.money + SumSet({money(crypto.ads[i].leg) : i \in legs})]
      /\ UNCHANGED <<path, pf, feed, scheduled, working, page, cash, after, leftover>>

\* state: the page of the panel shows the same, and the legs of the strategies, valued at
\* the last quote.  (It is put together partly outside the lock; here at one moment.)
state ==
  LET legs == [strategies |-> SB!stats(crypto.ads, crypto.mark),
               totals |-> SB!totals(crypto.ads, crypto.mark)]
  IN  [key \in DOMAIN live_state \cup DOMAIN legs |->
         IF key \in DOMAIN legs THEN legs[key] ELSE live_state[key]]

Paneling ==
  \/ \E s \in Symbol, q \in Quotes :
       \/ \E calm \in BOOLEAN : SimTaker(s, q, calm)
       \/ \E hit \in SUBSET {"bid", "ask"} : SimMaker(s, q, hit)
       \/ SimHalted(s, q)
  \/ \E q \in Quotes : Watched(q)
  \/ \E q \in Quotes, skew \in AS_SKEW, half \in AS_HALF, late \in {{}, {1}, {2}} :
       OnQuote(q, skew, half, late)
  \/ PanelReset \/ Threshold
  \/ \E names \in Enabled, on \in BOOLEAN : \E name \in Range(names) :
       SB!Names(crypto.ads) \subseteq Range(names) /\ Strategy(name, on)
=============================================================================
