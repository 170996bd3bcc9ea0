-------------------------------- MODULE Desk --------------------------------
(***************************************************************************)
(* The runs of the host that book their own money: one feed per symbol, all*)
(* with one portfolio and one gauntlet, each with a strategy, a maker and a*)
(* risk guard of its own.  path says which run it is:                      *)
(*   taker     live_feed --simulate: a quote is processed and sent at once *)
(*   demo      --demo: one symbol, as the taker                            *)
(*   dryrun    --alpaca without --execute                                  *)
(*   stream    the IBKR feed in dry-run: sends are scheduled on the loop   *)
(*   ibkr      the IBKR feed of one symbol with --execute: booked as IB    *)
(*             executes                                                    *)
(*   maker     --simulate --maker: quotes filled by noise                  *)
(*   panel     monitor_server (Panel);   back...  backtests (Backtests)    *)
(* The page's thread pauses, resumes and resets the kill switch at any time*)
(***************************************************************************)
EXTENDS Backtests, Panel

vars == <<path, pf, feed, scheduled, working, page, crypto, cash, after, leftover, tripped, dropped>>

\* _process: what the strategy and the gauntlet make of a quote.
Processed(s, q, calm) ==
  LET f == feed[s]
      signal == SW!evaluate_touch(f.st, q.valid, Touch(q))
      marked == IF q.valid THEN mark_price(pf, s, Mid(q)) ELSE pf
      passed == G!evaluate(pf.halted, calm, signal.dec, q, f.guard.position,
                           gross_room(marked, s, signal.dec.action, signal.dec.price))
  IN  [marked |-> marked,
       dec |-> IF signal.dec = NoDec THEN NoDec ELSE passed.dec,
       feed |-> [f EXCEPT !.st = signal.st,
                          !.guard.reference_price = IF q.valid /\ @ = 0 THEN Mid(q) ELSE @]]

\* _send and the bridge's send_decision: nothing in them waits.  cool: the cooldown
\* since the last order is over.  With --execute the order goes to IB.
Sent(s, f, before, dec, cool) ==
  LET placed == ~page.paused /\ cool /\ G!guard_check(f.guard, dec, 0)
  IN  /\ Booked(s, before, IF placed /\ path # "ibkr" THEN Fills(dec) ELSE <<>>)
      /\ working' = IF placed /\ path = "ibkr" THEN Append(working, <<s, dec>>) ELSE working
      /\ feed' = [feed EXCEPT ![s] = IF placed
                    THEN [f EXCEPT !.guard = G!record_fill(@, dec.action, dec.size)] ELSE f]

\* simulate: one quote of the stream.
Simulate(s, q, calm, cool) ==
  LET r == Processed(s, q, calm)
  IN  /\ path = "taker" /\ Room
      /\ Sent(s, r.feed, r.marked, r.dec, cool /\ r.dec # NoDec)
      /\ UNCHANGED <<path, scheduled, page, crypto, leftover>>

\* A run with one symbol only.
Alone(s) == \A t \in Symbol \ {s} : feed[t] = NewFeed

\* demo: the same for one symbol.  Here the volatility is that of its mids; elsewhere it
\* may be within its limit or not at any quote.
Demo(s, q, cool) ==
  LET mids == IF q.valid THEN G!observe(feed[s].mids, Mid(q)) ELSE feed[s].mids
      r == Processed(s, q, G!calm_enough(mids))
  IN  /\ path = "demo" /\ Room /\ Alone(s)
      /\ Sent(s, [r.feed EXCEPT !.mids = mids], r.marked, r.dec, cool /\ r.dec # NoDec)
      /\ UNCHANGED <<path, scheduled, page, crypto, leftover>>

\* _alpaca_submit without a broker: clamped to flat or to the cap, checked and booked.
Clamped(position, dec) ==
  LET ahead == IF dec.action = "buy" THEN position ELSE -position
      room == IF ahead < 0 THEN -ahead ELSE MAX_NET - ahead
  IN  [dec EXCEPT !.size = IF @ < room THEN @ ELSE room]

DryRun(s, q, calm, cool) ==
  /\ path = "dryrun" /\ Room
  /\ \E r \in {Processed(s, q, calm)} :
       LET dec == IF r.dec = NoDec THEN NoDec ELSE Clamped(r.feed.guard.position, r.dec)
       IN  Sent(s, r.feed, r.marked, dec, cool /\ dec # NoDec /\ dec.size > 0)
  /\ UNCHANGED <<path, scheduled, page, crypto, leftover>>

\* _on_tickers: the send is scheduled, and the loop comes to it later.
OnTicker(s, q, calm) ==
  LET r == Processed(s, q, calm)
  IN  /\ path \in {"stream", "ibkr"} /\ page.running /\ Room
      /\ path = "ibkr" => Alone(s)
      /\ Len(scheduled) + Len(working) < MaxScheduled
      /\ scheduled' = IF r.dec = NoDec THEN scheduled ELSE Append(scheduled, <<s, r.dec>>)
      /\ feed' = [feed EXCEPT ![s] = r.feed] /\ pf' = r.marked
      /\ UNCHANGED <<path, working, page, crypto, history>>

\* What may still trade without a further decision: sends, or the shares at IB.
OnTheWay(sends, orders) ==
  LET shares(seq) == FoldLeft(LAMBDA n, order : n + order[2].size, 0, seq)
  IN  IF path = "ibkr" THEN shares(sends) + shares(orders) ELSE Len(sends)

LoopSend(cool) ==
  /\ scheduled # <<>> /\ page.running /\ Room /\ scheduled' = Tail(scheduled)
  /\ LET s == Head(scheduled)[1]
     IN  Sent(s, feed[s], pf, Head(scheduled)[2], cool)
  /\ leftover' = IF pf.halted THEN leftover ELSE OnTheWay(scheduled', working')
  /\ UNCHANGED <<path, page, crypto>>

\* _on_exec: n shares of order i were executed.  The guard records them once more.
OnExec(i, n) ==
  LET s == working[i][1]  dec == working[i][2]
  IN  /\ page.running /\ Room /\ n <= dec.size
      /\ Booked(s, pf, <<Fill(dec.action, n, dec.price)>>)
      /\ feed' = [feed EXCEPT ![s].guard = G!record_fill(@, dec.action, n)]
      /\ working' = IF n = dec.size THEN RemoveAt(working, i)
                    ELSE [working EXCEPT ![i][2].size = @ - n]
      /\ leftover' = IF pf.halted THEN leftover ELSE OnTheWay(scheduled, working')
      /\ UNCHANGED <<path, scheduled, page, crypto>>

\* run, at the end of its time: no more quotes, sends or executions.  What is still at
\* IB stays there.
Disconnect ==
  /\ path \in {"stream", "ibkr"} /\ page.running /\ page' = [page EXCEPT !.running = FALSE]
  /\ scheduled' = <<>>
  /\ UNCHANGED <<path, pf, feed, working, crypto, history>>

\* (mutant) the maker does not look at the kill switch
may_quote_Always == TRUE
may_quote == ~pf.halted

\* _simulate_maker: one quote; a halted portfolio ends the feed for good.
SimulateMaker(s, q, hit) ==
  LET marked == mark_price(pf, s, Mid(q))
      quotes == SB!quote(Touch(q), pf.books[s].pos)
  IN  /\ path = "maker" /\ Room /\ q.valid /\ feed[s].running
      /\ IF may_quote THEN Booked(s, marked, Hits(quotes, hit)) /\ UNCHANGED feed
         ELSE feed' = [feed EXCEPT ![s].running = FALSE] /\ UNCHANGED <<pf, cash, after, dropped>>
      /\ UNCHANGED <<path, scheduled, working, page, crypto, leftover>>

\* The runs of live_feed: they look at the kill switch and have a control page
\* (flattening needs Alpaca).
Heeding == {"taker", "demo", "dryrun", "stream", "ibkr", "maker"}
HasPage == path \in Heeding /\ page.running

Command(cmd) ==
  /\ HasPage
  /\ page' = [page EXCEPT !.paused = IF cmd \in {"pause", "stop"} THEN TRUE
                                     ELSE IF cmd = "resume" THEN FALSE ELSE @,
                          !.flattened = @ /\ cmd # "reset_kill"]
  /\ IF cmd = "reset_kill" THEN pf' = [pf EXCEPT !.halted = FALSE] /\ after' = 0
     ELSE UNCHANGED <<pf, after>>
  /\ UNCHANGED <<path, feed, scheduled, working, crypto, cash, leftover, dropped>>

\* The monitor's loop: a trip of the kill switch pauses trading, once.
Writer ==
  /\ HasPage /\ pf.halted /\ ~page.flattened
  /\ page' = [page EXCEPT !.flattened = TRUE, !.paused = TRUE]
  /\ UNCHANGED <<path, pf, feed, scheduled, working, crypto, history>>

Step ==
  \/ \E s \in Symbol, q \in Quotes, calm, cool \in BOOLEAN :
       Simulate(s, q, calm, cool) \/ DryRun(s, q, calm, cool)
  \/ \E s \in Symbol, q \in Quotes, cool \in BOOLEAN : Demo(s, q, cool)
  \/ \E s \in Symbol, q \in Quotes, calm \in BOOLEAN : OnTicker(s, q, calm)
  \/ \E cool \in BOOLEAN : LoopSend(cool)
  \/ \E i \in DOMAIN working, n \in 1 .. MAX_ORDER : OnExec(i, n)
  \/ Disconnect
  \/ \E s \in Symbol, q \in Quotes, hit \in SUBSET {"bid", "ask"} : SimulateMaker(s, q, hit)
  \/ \E cmd \in {"pause", "stop", "resume", "reset_kill"} : Command(cmd)
  \/ Writer
  \/ Backtesting
  \/ Paneling

Next ==
  /\ Step
  /\ tripped' = \/ tripped
                \/ pf'.halted
                \/ path = "panel" /\ pf'.peak_equity < pf.peak_equity

Spec == Init /\ [][Next]_vars
-----------------------------------------------------------------------------
\* Equal up to a cent, for the averages are rounded.
Near(x, y) == Magnitude(x - y) < 100

\* The shares of a symbol that are at IB and not executed.
Executing(s) ==
  FoldLeft(LAMBDA n, order : n + IF order[1] = s THEN Signed(order[2].action, order[2].size) ELSE 0,
           0, working)

shown == IF path = "panel" THEN state ELSE live_state

\* The books balance through every blend, partial close and flip: what was booked and
\* the cost of what is held is the money that changed hands; the guard that checks an
\* order knows the position of the book, but at IB, where it counts an order when it is
\* sent and again as it is executed; the equity that the page shows is the money and the
\* shares at their marks; and the legs of the strategies it shows, with those that were
\* dropped, hold what the account holds, and their money is that of the account but for
\* two differences that the code makes: the account counts it in units (BTC of them make
\* what a leg calls one), and values what is held at the last fill's mark and not at the
\* last quote's.
BooksExact ==
  LET view == shown
  IN  /\ \A s \in Symbol :
           /\ Near(pf.books[s].realized, cash[s] + pf.books[s].pos * pf.books[s].avg_cost)
           /\ path \in {"taker", "demo", "dryrun", "stream"} =>
                feed[s].guard.position = pf.books[s].pos
           /\ path = "ibkr" => feed[s].guard.position = 2 * pf.books[s].pos + Executing(s)
      /\ Near(view.equity, MapThenSumSet(LAMBDA s : cash[s] + pf.books[s].pos * pf.books[s].mark, Symbol))
      /\ path = "panel" =>
           LET book == pf.books[crypto.sym]
               rows == view.strategies
               legs == SB!SumOf([i \in DOMAIN rows |-> rows[i].inventory])
           IN  /\ book.pos = dropped.shares + legs
               /\ Near(book.realized + unrealized(book),
                       BTC * view.totals.net + legs * (book.mark - crypto.mark)
                         + dropped.money + dropped.shares * book.mark)

\* portfolio.py calls the tripped kill switch "stop trading everywhere": no fill after the
\* quote that tripped it (which may still fill on its other side), but for the sends that
\* the stream had scheduled and the shares of the orders under way at IB.
StopsEverywhere == after <= IF path \in {"stream", "ibkr"} THEN leftover ELSE 0

\* The six runs of live_feed look at the switch, and it stops them: a simulated taker or
\* maker trades no more, the stream sends at most what was already scheduled, for the
\* sends look at the pause and not at the switch, and at IB at most the shares of the
\* orders under way are traded.  The crypto panel and the backtests do not look at it, and
\* of them StopsEverywhere is false.
HaltStopsTrading == path \in Heeding => StopsEverywhere

\* A fall of the equity as deep as the limit on the page (max_dd, with a high-water
\* mark of its own) is never shown of a run whose kill switch has neither tripped nor
\* been given a lower mark to start from.
PageAgreesWithKill ==
  LET view == shown IN view.stats.max_dd >= view.daily_loss => tripped

\* A simulated taker that adds to a position stays within the gross exposure that is
\* allowed over all symbols, counting the new shares at the price of the order (at the
\* mark they may be worth a little more).  An order that turns a position around is not
\* limited, and on the stream the sends on the loop do not know of each other.
CapRespected ==
  [][\A s \in Symbol :
       LET was == pf.books[s].pos  now == pf'.books[s].pos
           adds == (was >= 0 /\ now > was) \/ (was <= 0 /\ now < was)
           others == gross_exposure(pf') - Magnitude(now - was) * pf'.books[s].mark
       IN  path \in {"taker", "demo", "dryrun"} /\ adds => others + Magnitude(cash'[s] - cash[s]) <= max_gross_notional]_vars
=============================================================================
