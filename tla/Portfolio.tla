------------------------------ MODULE Portfolio ------------------------------
(***************************************************************************)
(* host/portfolio.py: positions, profit and loss, exposure and the kill    *)
(* switch of the whole desk.  Money is in ticks, as integers: an instance  *)
(* takes prices whose averages are whole.  A portfolio is a record of its  *)
(* books, the kill switch, the high-water mark, the equity after each fill *)
(* and the profit booked by each fill.  Fees are left out: equity does not *)
(* contain them.                                                           *)
(***************************************************************************)
EXTENDS Integers, FiniteSetsExt, SequencesExt

CONSTANTS
  Symbol,
  max_gross_notional,
  daily_loss_limit

\* The page takes no limit on the losses below 1000 dollars.
ASSUME PortfolioAssumption ==
  IsFiniteSet(Symbol) /\ max_gross_notional \in Nat /\ daily_loss_limit \in Nat \ {0}

Magnitude(n) == IF n < 0 THEN -n ELSE n
Greater(a, b) == IF a > b THEN a ELSE b

NewBook == [pos |-> 0, avg_cost |-> 0, realized |-> 0, mark |-> 0]
NewPortfolio ==
  [books |-> [s \in Symbol |-> NewBook], halted |-> FALSE, peak_equity |-> 0,
   equity_curve |-> <<>>, pnl |-> <<>>]

\* The mark of a flat book is also its cost, so that it shows no profit.
mark_price(pf, s, mid) ==
  LET b == pf.books[s]
  IN  [pf EXCEPT !.books[s] = [b EXCEPT !.mark = mid,
                                        !.avg_cost = IF b.pos = 0 /\ @ = 0 THEN mid ELSE @]]

unrealized(b) == b.pos * (b.mark - b.avg_cost)
realized(pf) == MapThenSumSet(LAMBDA s : pf.books[s].realized, Symbol)
equity(pf) == realized(pf) + MapThenSumSet(LAMBDA s : unrealized(pf.books[s]), Symbol)
net_exposure(pf) == MapThenSumSet(LAMBDA s : pf.books[s].pos * pf.books[s].mark, Symbol)
gross_exposure(pf) == MapThenSumSet(LAMBDA s : Magnitude(pf.books[s].pos * pf.books[s].mark), Symbol)

\* Shares that may still be bought or sold.  An order against the position is not
\* limited, not even in what it leaves on the other side of zero.
Unlimited == 1000000000
\* (mutant) the exposure of one symbol is counted, not of all
gross_room_OneSymbol(pf, s, action, price) ==
  LET pos == pf.books[s].pos
      adding == IF action = "buy" THEN pos >= 0 ELSE pos <= 0
      headroom == max_gross_notional - Magnitude(pos * pf.books[s].mark)
  IN  IF ~adding THEN Unlimited
      ELSE IF headroom <= 0 THEN 0 ELSE headroom \div price

gross_room(pf, s, action, price) ==
  LET pos == pf.books[s].pos
      adding == IF action = "buy" THEN pos >= 0 ELSE pos <= 0
      headroom == max_gross_notional - gross_exposure(pf)
  IN  IF ~adding THEN Unlimited
      ELSE IF headroom <= 0 THEN 0 ELSE headroom \div price

\* (mutant) the high-water mark starts over with every fill
check_kill_NoPeak(pf) ==
  LET eq == equity(pf)
  IN  [pf EXCEPT !.peak_equity = Greater(0, eq), !.halted = @ \/ eq <= -daily_loss_limit]

\* Runs with every fill, and never when only the marks move.
check_kill(pf) ==
  LET eq == equity(pf)
      peak == Greater(pf.peak_equity, eq)
  IN  [pf EXCEPT !.peak_equity = peak,
                 !.halted = @ \/ eq <= -daily_loss_limit \/ peak - eq >= daily_loss_limit]

\* The book after qty shares (negative: sold) at a price.
\* (mutant) a position flipped through zero keeps its cost
Traded_KeepCost(b, qty, price) ==
  LET pos == b.pos + qty
      closing == Min({Magnitude(qty), Magnitude(b.pos)})
      sign == IF b.pos > 0 THEN 1 ELSE -1
  IN  IF b.pos = 0 \/ (b.pos > 0) = (qty > 0)
        THEN [b EXCEPT !.pos = pos,
                       !.avg_cost = (@ * Magnitude(b.pos) + price * Magnitude(qty)) \div Magnitude(pos)]
        ELSE [b EXCEPT !.pos = pos, !.realized = @ + (price - b.avg_cost) * closing * sign,
                       !.avg_cost = IF pos = 0 THEN 0 ELSE @]

Traded(b, qty, price) ==
  LET pos == b.pos + qty
      closing == Min({Magnitude(qty), Magnitude(b.pos)})
      sign == IF b.pos > 0 THEN 1 ELSE -1
  IN  IF b.pos = 0 \/ (b.pos > 0) = (qty > 0)
        THEN [b EXCEPT !.pos = pos,
                       !.avg_cost = (@ * Magnitude(b.pos) + price * Magnitude(qty)) \div Magnitude(pos)]
        ELSE [b EXCEPT !.pos = pos, !.realized = @ + (price - b.avg_cost) * closing * sign,
                       !.avg_cost = IF pos = 0 THEN 0
                                    ELSE IF (pos > 0) # (sign > 0) THEN price ELSE @]

Signed(action, size) == IF action = "buy" THEN size ELSE -size

on_fill(pf, s, action, size, price) ==
  LET b == Traded(pf.books[s], Signed(action, size), price)
      booked == check_kill([pf EXCEPT !.books[s] = b])
  IN  [booked EXCEPT !.equity_curve = Append(@, equity(booked)),
                     !.pnl = Append(@, b.realized - pf.books[s].realized)]
-----------------------------------------------------------------------------
\* The metrics of the page: winning and losing fills, the current streak (negative:
\* of losses), the greatest fall of the equity below an earlier high, and the fills
\* since the last high.
trade_stats(pf) ==
  LET closes == SelectSeq(pf.pnl, LAMBDA p : p # 0)
      run(acc, p) == IF p > 0 THEN (IF acc > 0 THEN acc + 1 ELSE 1)
                     ELSE (IF acc < 0 THEN acc - 1 ELSE -1)
      curve == pf.equity_curve
      high(i) == Max({curve[j] : j \in 1 .. i})
      falls == {high(i) - curve[i] : i \in DOMAIN curve}
      highs == {i \in DOMAIN curve : curve[i] = high(i)}
  IN  [wins |-> Len(SelectSeq(closes, LAMBDA p : p > 0)),
       losses |-> Len(SelectSeq(closes, LAMBDA p : p < 0)),
       streak |-> FoldLeft(run, 0, closes),
       max_dd |-> Max(falls \cup {0}),
       dd_dur |-> Len(curve) - Max(highs \cup {0})]
=============================================================================
