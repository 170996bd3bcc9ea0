------------------------------ MODULE DeskBase ------------------------------
(***************************************************************************)
(* What the runs of the host have in common: a portfolio, a gauntlet, and  *)
(* per symbol a feed with a strategy and a risk guard of its own.  path    *)
(* says which run it is; Desk lists them.                                  *)
(***************************************************************************)
EXTENDS Portfolio

CONSTANTS
  Quote,          \* the quotes that arrive; [valid, bid, bid_size, ask, ask_size]
  FewQuotes,     \*   and those of the paths with the most states
  Path,           \* the paths run
  THRESH, SPREAD, BASE_LOT, MAX_LOT,
  OFI_WINDOW, OFI_THRESHOLD, ALPHA_DEN, MAX_TILT,
  HALF_SPREAD, SKEW, QUOTE_SIZE, MAX_INVENTORY,
  AS_SKEW, AS_HALF,   \* the leans and half-spreads of Avellaneda-Stoikov
  MIN_EDGE, FEE_DEN, MIN_BOOK, SOFT_POSITION, MAX_ORDER, MAX_NET, BAND_PCT,
  VOL_WINDOW, MAX_VOL_BPS,
  BTC,            \* the base asset of the crypto panel, in the units of its positions (in
                  \*   the code millionths)
  QTY_PER_SHARE,  \* units that one share of an intent stands for
  MIN_QTY, MAX_NOTIONAL, MAX_EXPOSURE, DRIFT_PCT,   \* the crypto broker's limits
  Enabled,        \* the strategies of the crypto panel: sequences of names, and a run keeps
                  \*   to those of one
  NoDec, NoQuote,
  MaxFills,       \* bound: the fills of a run, MaxPanelFills on the panel
  MaxPanelFills,
  MaxScheduled    \* bound: sends on the loop and orders at the broker at a time

\* A quote, and a decision.
QuoteType == [valid : BOOLEAN, bid : Nat, bid_size : Nat, ask : Nat, ask_size : Nat]
Decision == [action : {"buy", "sell"}, price : Nat, size : Int]
StrategyName == {"imbalance", "ofi", "market_maker", "avellaneda"}

\* Lots are not empty, and a maker that divides by the sizes at the touch asks for some.
ASSUME DeskAssumption ==
  /\ Quote \subseteq QuoteType /\ FewQuotes \subseteq QuoteType /\ NoDec \notin Decision
  /\ BASE_LOT \in Nat \ {0} /\ MAX_LOT \in Nat \ {0} /\ MIN_BOOK \in Nat \ {0}
  /\ OFI_WINDOW \in Nat \ {0} /\ ALPHA_DEN \in Nat \ {0} /\ MAX_TILT \in Nat
  /\ HALF_SPREAD \in Nat /\ SKEW \in Nat /\ QUOTE_SIZE \in Nat
  /\ AS_SKEW \subseteq Int /\ AS_HALF \subseteq Int
  /\ BTC \in Nat \ {0} /\ QTY_PER_SHARE \in Nat /\ MIN_QTY \in Nat \ {0}
  /\ MAX_ORDER \in Nat /\ MAX_NET \in Nat
  /\ Enabled \subseteq Seq(StrategyName)

SB == INSTANCE StrategyBook WITH
  OFI_BASE_LOT <- BASE_LOT, OFI_MAX_LOT <- MAX_LOT, MIN_BOOK_SIZE <- MIN_BOOK, NoDecision <- NoDec
SW == INSTANCE StrategySw WITH NLEVELS_SW <- 1, SPREAD_SW <- SPREAD, COOLDOWN_SW <- 0,
                               NoOrder <- NoDec
G  == INSTANCE Gauntlet WITH MAX_RATE <- 1

VARIABLES
  path,
  pf,          \* the portfolio
  feed,        \* per symbol: [st, flow, guard, running, last, mids]
  scheduled,   \* sends on the event loop: <<symbol, decision>>
  working,     \* orders at IB: <<symbol, decision>>, of the shares not yet executed
  page,        \* what the page's commands set, and if the run goes on
  crypto,      \* the crypto panel: [sym, ads, position, last, mark]
  cash,        \* history: money paid and got, per symbol
  after,       \* history: fills in the steps since the kill switch tripped, and how many
  leftover,    \*   sends and shares were on their way at that time
  tripped,     \* history: the kill switch has tripped, or its high-water mark was lowered
  dropped      \* history: the shares and the money of the legs that were dropped

history == <<cash, after, leftover, dropped>>

\* LiveFeed.__init__.  The maker of the order flow starts with a window of zeros.
NewFeed ==
  [st |-> SW!NewStrategy, guard |-> G!NewGuard, running |-> TRUE, last |-> NoQuote,
   mids |-> <<>>,
   flow |-> IF path = "backofi" THEN SB!NewMaker ELSE SB!NewSignal]

NewPage == [paused |-> FALSE, flattened |-> FALSE, running |-> TRUE]

\* sym is the symbol of the crypto panel, on the page that has one.
NewCrypto(sym, names) ==
  [sym |-> sym, ads |-> SB!NewBook(names), position |-> 0, last |-> 0, mark |-> 0]

Init ==
  /\ path \in Path /\ pf = NewPortfolio
  /\ feed = [s \in Symbol |-> NewFeed]
  /\ scheduled = <<>> /\ working = <<>> /\ page = NewPage
  /\ IF path = "panel" THEN \E s \in Symbol, names \in Enabled : crypto = NewCrypto(s, names)
     ELSE crypto = NewCrypto("none", <<>>)
  /\ cash = [s \in Symbol |-> 0] /\ after = 0 /\ leftover = 0
  /\ tripped = FALSE /\ dropped = [shares |-> 0, money |-> 0]

Mid(q) == (q.bid + q.ask) \div 2
Touch(q) == [bid |-> q.bid, bid_size |-> q.bid_size, ask |-> q.ask, ask_size |-> q.ask_size]
Fill(action, size, price) == [action |-> action, size |-> size, price |-> price]
Fills(dec) == IF dec = NoDec THEN <<>> ELSE <<Fill(dec.action, dec.size, dec.price)>>
\* The quotes of the panel's simulator, of the generator that the simulated feeds share,
\* and of a broker: random walks of which only what the strategies make of them matters.
PanelQuotes == FewQuotes
gen_quotes == Quote
Quotes ==
  IF path = "panel" THEN PanelQuotes
  ELSE IF path \in {"stream", "ibkr"} THEN FewQuotes ELSE gen_quotes
Room == Len(pf.pnl) < IF path = "panel" THEN MaxPanelFills ELSE MaxFills

\* A portfolio after fills of symbol s.
Books(before, s, fills) ==
  FoldLeft(LAMBDA p, f : on_fill(p, s, f.action, f.size, f.price), before, fills)

\* The fills of a step since the kill switch tripped.
Counted == after' = IF pf.halted THEN after + Len(pf'.pnl) - Len(pf.pnl) ELSE 0

\* The portfolio after marks and fills of symbol s, and the history that goes with them.
Booked(s, before, fills) ==
  /\ pf' = Books(before, s, fills)
  /\ cash' = [cash EXCEPT ![s] = FoldLeft(LAMBDA c, f : c - Signed(f.action, f.size) * f.price,
                                          @, fills)]
  /\ after' = IF pf.halted THEN after + Len(fills) ELSE 0
  /\ UNCHANGED dropped

\* The fills of a maker's quotes: noise hits either side, or both, the bid first.
Hits(q, hit) ==
  (IF "bid" \in hit /\ q.bid_size # 0 /\ q.bid # 0 THEN <<Fill("buy", q.bid_size, q.bid)>> ELSE <<>>)
    \o (IF "ask" \in hit /\ q.ask_size # 0 /\ q.ask # 0 THEN <<Fill("sell", q.ask_size, q.ask)>> ELSE <<>>)

\* _write_live_state: what the page is shown.  Latencies, logs and events are left out.
live_state ==
  [halted |-> pf.halted, paused |-> page.paused,
   gross_cap |-> max_gross_notional, daily_loss |-> daily_loss_limit,
   realized |-> realized(pf), unrealized |-> equity(pf) - realized(pf), equity |-> equity(pf),
   net_exposure |-> net_exposure(pf), gross_exposure |-> gross_exposure(pf),
   books |-> pf.books, stats |-> trade_stats(pf), n_trades |-> Len(pf.pnl),
   equity_curve |-> pf.equity_curve]
=============================================================================
