----------------------------- MODULE Backtests -----------------------------
(***************************************************************************)
(* host/backtest.py: a recorded stream of quotes of one symbol, run through*)
(* each strategy with the same fill model.  They look at the kill switch   *)
(* nowhere, and fees are left out.  path is one of                         *)
(*   backtest   run_taker       backflow  run_ofi                          *)
(*   backmaker  run_maker       backofi   run_ofi_maker     backas  run_as *)
(***************************************************************************)
EXTENDS DeskBase

Backtest == {"backtest", "backflow", "backmaker", "backofi", "backas"}

\* The first quote of the stream.
LoadStream(s, q) ==
  /\ path \in Backtest /\ \A t \in Symbol : feed[t].last = NoQuote
  /\ feed' = [feed EXCEPT ![s].last = q]
  /\ UNCHANGED <<path, pf, scheduled, working, page, crypto, history>>

\* One turn of the loop: the last quote is decided on and filled, and the next one, q,
\* marks the book.  The first fill of a taker finds no mark.
Replay(s, q, before, fills, f) ==
  LET done == Books(before, s, fills)
  IN  /\ Room /\ feed[s].last # NoQuote
      /\ pf' = mark_price(done, s, Mid(q))
      /\ cash' = [cash EXCEPT ![s] = FoldLeft(LAMBDA c, d : c - Signed(d.action, d.size) * d.price,
                                              @, fills)]
      /\ feed' = [feed EXCEPT ![s] = [f EXCEPT !.last = q]]
      /\ Counted
      /\ UNCHANGED <<path, scheduled, working, page, crypto, leftover, dropped>>

run_taker(s, q) ==
  LET f == feed[s]
      signal == SW!evaluate_touch(f.st, TRUE, Touch(f.last))
  IN  path = "backtest" /\ Replay(s, q, pf, Fills(signal.dec), [f EXCEPT !.st = signal.st])

run_ofi(s, q) ==
  LET f == feed[s]
      signal == SB!update(f.flow, Touch(f.last), TRUE)
  IN  path = "backflow" /\ Replay(s, q, pf, Fills(signal.dec), [f EXCEPT !.flow = signal.st])

\* The makers mark the book before they quote.
Quoted(s) == mark_price(pf, s, Mid(feed[s].last))

run_maker(s, q, hit) ==
  /\ path = "backmaker"
  /\ Replay(s, q, Quoted(s), Hits(SB!quote(Touch(feed[s].last), pf.books[s].pos), hit), feed[s])

run_ofi_maker(s, q, hit) ==
  LET flow == SB!advance(feed[s].flow, Touch(feed[s].last), TRUE)
      quotes == SB!ofi_quote(flow, Touch(feed[s].last), TRUE, pf.books[s].pos)
  IN  path = "backofi" /\ Replay(s, q, Quoted(s), Hits(quotes, hit), [feed[s] EXCEPT !.flow = flow])

run_as(s, q, hit, skew, half) ==
  LET quotes == SB!as_quote(Touch(feed[s].last), pf.books[s].pos, SB!leaning(pf.books[s].pos, skew), half)
  IN  path = "backas" /\ Replay(s, q, Quoted(s), Hits(quotes, hit), feed[s])

Backtesting ==
  \E s \in Symbol, q \in Quotes :
    /\ q.valid /\ path \in Backtest
    /\ \/ LoadStream(s, q)
       \/ feed[s].last # NoQuote /\
            \/ run_taker(s, q) \/ run_ofi(s, q)
            \/ \E hit \in SUBSET {"bid", "ask"} :
                 \/ run_maker(s, q, hit) \/ run_ofi_maker(s, q, hit)
                 \/ \E skew \in AS_SKEW, half \in AS_HALF : run_as(s, q, hit, skew, half)
=============================================================================
