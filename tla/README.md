# Verification of fpga-tick-to-trade

TLA+ models of the tick-to-trade system: an ITCH feed enters an FPGA, an order
book and a strategy turn it into proposed orders, a risk gate lets some of them
through, and the host receives them; around it, a Python host runs the same
strategies in software, trades on simulated and real feeds and keeps the books.
The models are written from the SystemVerilog under `src/rtl/` and `src/f1/`, the
host programs under `src/host/` and `src/f1/`, and the reference models under
`src/sim/golden/`. TLC checks them on small instances, and TLAPS proves for every
value of the parameters: the clock-domain crossings, the order book and its skip
rule, the strategy pipelines, the way to the host with the host's own exposure,
the order management of the live feed, the limits and the kill switch of the
software runs, and the arming and the legs of the controller. Where the code does
less than its documents say, the property they state is checked and refuted, or
the exact difference stands in a property that holds: see *Disagreements*.

## The system

| Component | State | Operations | Talks to | What is hard | What makes it correct |
|---|---|---|---|---|---|
| `cdc/async_fifo`, `axis_async_fifo` | memory, binary and Gray pointers, registered flags, pointer synchronizers | an edge of the write clock, of the read clock | carries the feed, the decisions and AXI-Lite between clocks | two clocks without a common phase, torn samples, stale pointers, resets | a bounded buffer: nothing lost, doubled or reordered |
| `cdc/reset_sync`, `cdc/sync_2ff` | a shift chain | shift, asynchronous clear | every domain | asynchronous assert, domains leave reset edges apart | covered by the modules that use them |
| `cdc/handshake_mcp` | request and acknowledge toggles, held bus | load, capture, acknowledge | configuration, risk events | a new load must not overtake an acknowledgement | a one-place mailbox |
| `cdc/pulse_sync` | the same toggle loop without data | pulse | its testbench only | a pulse while busy | one pulse out per accepted pulse |
| `tick_to_trade_mc_top`, `mc_glue` | configuration re-send machine, sticky overflow flags | compare and send, flag | host and core | compare and load happen in different cycles; losses must be told | the core gets the last request; no silent loss |
| `itch_parser` | shift registers, byte counter, held message | take a byte, hold, release | order books | back-pressure while the book is busy, registers reused from message to message | each supported message once, with its own fields |
| `order_book_m2` | order table in block RAM, level cache, three-state machine | add, reduce, delete, replace, rescan | parser, strategies | table and cache updated in different cycles; a rescan is skipped when "not displayed"; slots shared by two references | the cache is the depth of the table, and equals the reference's |
| `multi_symbol_book`, `multi_symbol_top` | one book per symbol, the active symbol | route, latch the symbol | parser, one strategy | a rescan of one book while a message for another is held | one message, one update; orders attributed to their symbol |
| `strategy_imbalance`, `strategy_ofi`, `strategy_select` | two-stage pipelines, cooldown, window | capture, decide, mux | book, risk check | pipelines of one depth, a switch in mid-flight | order, reference and symbol of one book |
| `strategy_market_maker`, `strategy_ofi_maker`, `pipe_divu` | divider pipeline | quote | CSR top | the payload must stay with its quotient | quotes within the inventory limit |
| `risk_check`, `tick_to_trade_top` | net position, output registers | accept or reject | strategy, egress | a limit on the position *after* the order; kill switch | the limit holds for the host's books too |
| `latency_counter`, `f1/cl_tick_to_trade_core`, `f1/host_replay.py` | measurement, histogram, AXI-Lite slaves, ingress FIFO, captured decisions | push, poll, read back, clear | host program over one bus | handshakes of two channels, a measurement overtaken by the next message, buffers that fill | the host reads the decisions in order; no message is measured twice |
| `market_maker_top`, `order_book_top`, `f2/` | an AXI-Lite front | read, write, clear | testbenches, vendor shell | a strobe of one cycle | each request answered once |
| `host/strategy_sw.py`, `ofi_signal.py`, `ofi_maker.py`, `market_maker.py`, `avellaneda_stoikov.py` | window, previous quote, cooldown | a quote in, a decision or two quotes out | every run of the host | must decide what their references decide | equality over a feed |
| `host/portfolio.py`, `hft_logic.py`, `risk_guard.py` | positions, P&L, kill switch, statistics | fill, mark, veto, check | live feed, panel, backtests | several symbols share one limit; blends, partial closes and flips | books balance; exposure and loss limits |
| `host/live_feed.py` | guards, open and pending orders, portfolio | decide, submit, fill, reconcile, stop-loss, flatten | broker, page | coroutines interleave at each `await`; updates late, doubled by a reconcile or lost | the limit holds; the books are the broker's; a session ends flat |
| `host/monitor_server.py`, `crypto_feed.py`, `alpaca_bridge.py`, `strategy_registry.py` | feed, trading, broker mode, strategies with a book each | page commands, quotes | feed threads, broker | commands and quotes on different threads, a replaced feed still in a quote | never a real order on simulated prices; the legs sum to the account |
| `host/ibkr_bridge.py`, `backtest.py`, `dashboard.py`, launchers, analysis | positions of a run | order, execute, replay | IBKR, the portfolio | executions in parts | as the portfolio |
| `sim/golden/`, `sim/phase2_golden.py`, `sim/synth_itch.py` | reference book, parser and strategies | a message in | the benches | they are what the benches compare with | equal to the hardware and to the host |
| `ip/`, `vivado/`, `gatesim/` | none | - | - | - | - |

## Modules

Hardware:

| Module | Models | State and actions in the code |
|---|---|---|
| `FifoSpec` | what a FIFO promises; the benches' reference `golden/async_fifo.py` | a bounded sequence of words: put, get, both, clear |
| `AsyncFifo` | `async_fifo`, `axis_async_fifo`, `reset_sync` | one variable per register; `WrEdge`, `RdEdge`, `BothEdges` are clock edges, `AssertReset` and `ReleaseReset` the shared reset |
| `MailboxSpec` | what a handshake promises | one slot, the word delivered last, a strobe |
| `HandshakeMcp` | `handshake_mcp` | `SrcEdge`, `DstEdge`, `BothEdges`; `McpSpec` is the handshake with any source |
| `HostConfig` | configuration path of the multi-clock top (`mc_glue` is the same code packaged) | extends `HandshakeMcp` with the re-send machine; `Select` is the host |
| `OrderBookM2` | one book as a function of the clock edge | `IdleEdge`, `LookupEdge`, `RescanEdge` are the states of the machine |
| `OrderBookSpec` | what a book promises | the set of live orders and the shown depth |
| `OrderBook` | a book fed by the market | `Accept`, `Work`, `Reset` |
| `MultiSymbolBook` | several books behind one parser | `Edge` is one clock edge of parser and books |
| `Strategies` | both strategies, the select, the collar and symbol pipelines | `Edge` is one clock edge of all pipelines |
| `StrategyOfi` | the order-flow strategy with its window | `Edge`, split in `Capture` (stage 1) and `Decide` (stage 2) |
| `GateSpec` | what the way to the host promises | queues of orders and rejections, each with a loss flag |
| `RiskPath` | `risk_check`, output registers, egress, events, kill switch | `CoreEdge` and `HostEdge` are edges of the two clocks |
| `ItchParser` | `itch_parser` | `Drive` and `Drain`: an edge with and without a byte on offer |
| `F1Replay` | `cl_tick_to_trade_core`, `latency_counter`, `host_replay.run_device` | extends `ItchParser`; `Cycle` is one edge of card, bus and host program |

References and software:

| Module | Models | State and actions in the code |
|---|---|---|
| `GoldenItch` | `synth_itch.py`, the reference parser | operators on a stream of messages |
| `GoldenOrderBook` | the reference book, and the older one of the touch | operators on a book and a message |
| `GoldenSignals` | the reference strategies and makers, `phase2_golden`'s risk check | operators on quotes and windows |
| `StrategySw`, `OfiSw`, `MarketMaker` | the host's strategies and makers | operators on a strategy's state and a quote |
| `GoldenChain` | the equivalence benches | one stream of messages through the hardware book (`OrderBookM2`), both reference books (the older one of the touch knows no attributed Adds), the host's strategies and their references |
| `Portfolio`, `Gauntlet` | `portfolio.py`; `hft_logic.py` and `risk_guard.py` | a portfolio is a record, its methods are operators |
| `StrategyBook` | `strategy_registry.py` | a sequence of adapters with a leg each |
| `DeskBase` | what all runs of the host share | portfolio, gauntlet, feed, guard |
| `Backtests` | `backtest.py` | one step per quote for each of the five runs |
| `Panel` | `monitor_server.py` with its money | one step per simulated symbol, one per crypto quote (traded or only watched), page commands |
| `Desk` | `--simulate`, `--demo`, dry-run, IBKR, the simulated maker; composes the two above | one step per quote, send, execution or command |
| `AlpacaFeed` | `live_feed.py --alpaca --execute` | one action per stretch of a coroutine between two `await`s, and one per event of the broker; of another feed, what reaches this one (`OthersClear`, `OnOtherUpdate`, its `Reconcile`) |
| `Monitor` | page commands, feed threads, legs and broker of the crypto side | one action per command, and one per stretch of a feed's thread |
| `MCAsyncFifo`, `MCHostConfig`, `MCOrderBook` | instances for TLC; where no value needs a definition, the configuration names the module itself | |
| `MCStrategies` | the same, of two modules side by side | a behaviour is one of `Strategies` or one of `GoldenChain` (`part`) |
| `MCHost` | the same | a behaviour is one of a path of `Desk`, or one of `Monitor` (`path = "switches"`) |
| `*Proofs` | the theorems about the module of that name, with their proofs; those about `Monitor` are with the ones about `Desk` | |
| `FiniteSums` | lemmas on sums over finite sets, for the proofs | |

How they compose. `RiskPath` takes the crossings by their abstract
specifications: its decision FIFO and its event mailbox are `FifoSpec` and
`MailboxSpec`, which `AsyncFifo` and `HandshakeMcp` are proved to implement.
`HostConfig` composes with `HandshakeMcp` in full, `F1Replay` with `ItchParser`.
`MultiSymbolBook`, `OrderBook` and `GoldenChain` run the same book function.
`Desk` runs its strategies from `StrategySw`, `OfiSw` and `MarketMaker`, the
modules that `GoldenChain` compares with the references, on one `Portfolio`.

### How clocks and threads are modelled

All registers of a domain change together at its edge, from their values before
it. Two clocks have no common phase, so any interleaving of edges is possible,
and both may tick at once. A register that samples another domain while the
sampled value changes may catch each bit before or after the change (`Torn` in
`AsyncFifo`); a word of the handshake that changes under the capture may be
caught as any word at all. `RiskPath` samples only single bits across clocks:
there, interleaving the edges gives the same outcomes.

Coroutines of one event loop change hands only at an `await`: in `AlpacaFeed` a
call of the broker is made in one step and answered in a later one, and
everything else may come in between. Threads are cut where one reads what
another writes: in `Monitor` commands hold a lock, the feed's thread does not.

### Abstractions

* Words, messages and orders are model values or small records. Prices and
  sizes are small integers; only their order and sums matter. A byte of a frame
  is the name of its place in its field.
* In `OrderBookM2` an entry that is not marked valid is `NoOrder`: the code never
  looks at one. The latched message and the half-built cache are cleared when
  the state that reads them is left.
* In `Strategies` the side to which the weighted depth leans comes with the book,
  the side to which the order-flow window pulls is free (`StrategyOfi` has the
  window itself), and lot sizes are left out; `GoldenChain` has both strategies'
  arithmetic.
* In `RiskPath` an order is its signed quantity and a proposal carries its
  distance from the reference price. The two ready signals are free as long as
  they are never high without room, because the crossings report room late.
* In `F1Replay` book, strategy and risk check are environment: they take a
  message at any edge, and may register a decision at any edge after the first
  message. The three words of a decision are read as one; the age of a
  measurement is kept up to the last bucket only.
* In the runs of `Desk` a dollar is 3600 ticks, so that the averages of the few fills are
  whole. Fees are left out. The skew and half-spread of the Avellaneda-Stoikov
  maker are chosen within bounds, for its volatility estimate and logarithms are
  arithmetic without control; the volatility gate is computed on the demo path
  and free elsewhere.
* The panel has two units, as the code: a leg holds the base asset, the portfolio
  whole units of which `BTC` make one. A share of an intent is `QTY_PER_SHARE` units
  (`qty`), booked in the portfolio as at least one (`micro`); what a broker's step is
  too large for is refused (`MIN_QTY`). The legs are valued at the last quote
  (`crypto.mark`), the account at the mark of its last fill. A leg's fraction of a
  whole coin leans a maker's quote by less than a tick, and is left out there (`held`).
* In `AlpacaFeed` only positions are kept, no prices: the kill switch and the
  stops may trip at any fill and at any turn of the writer. Of a second feed of the
  session, for another symbol, there is what reaches the first: its own stream of the
  whole account's fills, its reconciles of the shared portfolio, and, of a maker, its
  cancel of all orders. A third feed would do the same once more.
* `past`, `before`, `gap`, `halted`, `told`, `updated`, `taken`, `only_adds`,
  `cash`, `after`, `leftover`, `tripped`, `owed`, `blind`, `off`, `crossing`, `stray`,
  `confirmed`, `dropped`, `settled` and `legs_lost` are history: no action reads them to decide what the code does.

### Assumptions about the surroundings

* The domains are reset together, by one board reset, as `reset_sync.sv` asks
  for; it asserts at any moment and the domains leave it in any order.
* In `OrderBook` the feed is legal: an order is added, or replaces another, under
  a reference whose slot no other live order holds; so does `replay_gen.py` make
  its feeds. Messages may name orders that are gone, and whose slot another order
  has taken. `GoldenChain` drops all of this.
* In `Strategies` prices leave the top bit free, so that the mid of two does not
  wrap.
* In `F1Replay` host, bridge and registers share one clock, as in the card's shell
  (`clk_main_a0`), and one program uses the bus at a time.
* The broker of `AlpacaFeed` fills in parts, at once or later, refuses orders,
  cancels them, fails calls, and may lose updates while the stream is down; it
  does not fill more than was ordered or invent fills.

## Runs

| Run | What it checks | Bounds, and why they are enough |
|---|---|---|
| `async_fifo` | `TypeOK`, `NoOverrun`, `FlagsSafe`, `AlmostFlagsSafe`, `ImplementsFifo`, `CrossingCompletes` | depth 4, that of the AXI-Lite channels (and the smallest at which the two top bits are not all the bits of a pointer), 2-stage synchronizers as in the code, two words; the pointers wrap. The thresholds are 3 and 1. The proofs cover every depth |
| `host_config` | `TypeOK`, `OneEdge`, `ConfigInSync`, `ImplementsMailbox`, `ConfigDelivered` | the four values of the two-bit select, of which 0 is the reset value; 2-stage synchronizers, 3-stage reset synchronizers as in the code |
| `order_book` | `BookExact`, `ImplementsBook`, `ReadyAgain` | 4 slots, of which one is used by two references in turn, 2 levels, 3 prices and 2 sizes: one price more than levels, so that a level falls off and comes back only through a rescan, and partial as well as full reductions. The proofs cover every table, depth, price and size |
| `multi_symbol` | `AcceptOnlyAllIdle`, a violation: see below | two symbols |
| `risk_path` | `HostExposure`, `HaltStops`, `ImplementsGate`, `LossIsTold` | orders of one and of two shares against a size limit of one, prices on both sides of the collar, a position limit that one order reaches and two turn round, a FIFO of two that overflows. The proofs cover every limit and depth |
| `strategies` | `Aligned`, `NeedsBook`, `CollarFits`, `CoolsDown` of the hardware; `BookMatchesGolden`, `DecisionsAgree`, `MakersAgree` against the references | Hardware: two symbols; quotes that are empty, one-sided, locked, two tight ones far apart (one of them at the spread limit) and one too wide; a cooldown of 2 cycles. References: streams of up to 4 messages on three references of which two share a slot, Adds with and without a participant, prices of 1 to 3 ticks with a half-spread of 1, so that books are normal, locked and crossed and quotes fall below zero; 2 levels, a window of one increment, so that one that came of a crossed quote also leaves it again |
| `ofi_window` | `OrderPerUpdate`, a violation: see below | a window of 3; one pair of prices with two sizes on either side |
| `itch_parser` | `DeliveredExact`, `EveryMessageHandedOver`, `ReadBackExact`, `MeasuredOnce` | up to 3 messages of any type the generator writes, straight; over the bus a Delete and a System event, so that a supported and an ignored type follow each other in either order; an ingress FIFO of 2 bytes that fills, room for 2 captured decisions of up to 3, 3 buckets |
| `host` | `BooksExact`, `HaltStopsTrading`, `PageAgreesWithKill`, `CapRespected` of `Desk`; `LegsAddUp`, `GuardedOrders` of `Monitor` | Desk: all twelve runs of the host, two symbols (`ibkr` and `demo` run one, the panel one of the two by its crypto thread); four quotes that make the strategy buy or sell, on the runs with more state two; limits that two fills reach; up to 3 fills, 2 on the panel. Monitor: one strategy, one replaced feed, two routed orders, a limit of one lot or two. The proofs cover every number of strategies, feeds and orders |
| `panel_halt` | `StopsEverywhere`, a violation: see below | the panel alone, with room for 4 fills |
| `live_quotes` | `LiveQuotesOnly`, a violation: see below | one strategy, one switch of the feed, one routed order |
| `alpaca_feed` | `BooksAccounted`, `PauseStopsOrders`, `PositionWithinCap`, `EndsFlatButStrays`, `BooksConverge` | taker, momentum and maker; lots of 2, filled in parts, against a cap of 2, quotes of 1. At most two orders and two mishaps (a page command, a trip, a stop, a failed call, lost updates): with one feed three of the four, with a second feed two, with two makers one; a session may have spent the rest before, so that one order is replaced or stopped while another works, or one order meets a pause and its end |

What the passing runs show beyond types:

* *FIFO.* However old the pointers each side sees are, their copies stay in
  order between the true ones, so a writer that sees room has it and a reader that
  sees a word has it; the FIFO is a bounded buffer.
* *Configuration.* The machine compares in one cycle and the handshake loads in
  the next, when the host may have changed its mind; still, what the machine
  remembers is what was loaded, and the last request is delivered.
* *Order book.* When a book is ready, it shows exactly the best levels of its live
  orders, whether or not the rescan was skipped; while it rescans it shows the
  depth of before.
* *Risk path.* While no loss is flagged, the orders the host took and those under
  way add up to the core's position, and no prefix of them exceeds the limit;
  after the kill switch is thrown the output is silent in four core cycles, also
  across a reset; a lost order or rejection is flagged in the same step.
* *Strategies.* The order, its reference and its symbol tag come from one and
  the same book, valid for two cycles, also when the selection changes while
  orders of both strategies are in flight.
* *Equivalence.* On any stream, also one on which two orders share a slot, the
  hardware book is the reference book whenever it is ready, and the older
  reference has its touch as long as only unattributed Adds come. The host's
  imbalance strategy decides what its reference decides. So do order flow and makers,
  but for what a locked or crossed book leaves in the window, which is gone a
  window of increments later, and for prices below zero.
* *Parser and card.* Whatever the gaps of the source and the stalls of the book,
  every supported message is handed over once, in order and with its own fields,
  both straight and behind the host's byte-by-byte pushes; the host reads back
  the decisions in order, as many as the card counted and can hold; no first byte
  is used for two measurements.
* *Desk.* What was booked plus the cost of what is held is the money that changed
  hands, through blends, partial closes and flips, in all twelve runs; the legs of the
  panel, with those that were dropped, hold what the account holds, and their money is
  the account's but for the unit and the mark; after the kill switch the six runs of
  `live_feed.py` trade no more than the sends and the executions that were under way;
  a taker that adds respects the exposure cap over both symbols.
* *Alpaca.* However a fill is split and whether it comes before or after the
  answer to its order, the books and the updates to come are the broker's position,
  off by exactly what was lost, what crossed the last reconcile and what another
  feed booked once more; and this is repaired by the reconciling tasks. A pause stops
  what is not yet sent. A session ends flat but for what its threads were sending.
* *Monitor.* The feed the page shows sends no order on a simulated quote, in any
  order of commands; live money needs a confirm; the legs add up to the portfolio.

### Disagreements with the documentation

* `multi_symbol`: the header of `multi_symbol_book.sv` says that a message is
  accepted only when every book is idle. The books see `msg_valid` without
  `msg_ready`, so an idle book takes the message while another one rescans. The
  parser goes on holding it, and the book takes it again in every cycle: the
  shares of an Add are added once per cycle of the other book's rescan. The
  model lets the next message follow at once; the real parser takes tens of
  cycles to decode one, and a rescan takes hundreds.
* `ofi_window`: the header of `strategy_ofi.sv` describes a window over updates of
  the book. The code takes an increment in every clock cycle, an increment of 0
  in most of them. So one strong update proposes an order in each of up to
  `WINDOW` consecutive cycles, and updates further apart than that never add up.
* `panel_halt`: `portfolio.py` (line 57) says of the tripped kill switch "stop trading
  everywhere", and its header that it holds across the whole book. The crypto
  thread of the panel looks at the page's switches only and goes on booking
  fills; the backtests do not look at it either. `HaltStopsTrading` therefore speaks of
  the six runs of `live_feed.py`, and `StopsEverywhere` is refuted on the panel.
* `live_quotes`: the comment on `begin_trade` in `monitor_server.py` (lines 289-292)
  rules out real orders priced off simulated data. A feed that is replaced is not
  waited for; in the middle of a simulated quote it goes on to route, and by then the
  page may have switched the feed and armed the broker. `GuardedOrders` says what
  holds: only such a feed, stopped and replaced, may.

In the following ones the sentence of the document is refuted as well, and a
property that holds says exactly by how much the code falls short of it.

* *A kept client.* `alpaca_bridge.py` (lines 21-22): nothing reaches a real venue unless
  `dry_run` and `paper` are both turned off. `arm` makes the client once, so after a
  change from live to paper the page shows paper and the orders go to the live account
  (`RealVenueOnlyLive`). `GuardedOrders`: no live client without a confirm.
* *Order flow.* `tb_strategy_equiv_all.py` (line 5) has `OFISignal` equal to
  `golden/ofi.py`. The one keeps a locked or crossed quote as the one to compare the
  next with, the other forgets it (`FlowEqualsGolden`). `DecisionsAgree`: a
  window of increments later they agree again.
* *Prices below zero.* `market_maker.py` (lines 84-85) claims to match the reference bit
  for bit; near zero it returns, and an adapter routes, a negative price where the
  reference posts nothing. `MakersAgree`: but for this they are equal.
* *Legs and account.* `strategy_registry.py` (lines 18-20): the legs sum to the whole. In
  shares they do (`LegsAddUp`). Their money does not: the leg counts the base asset, the
  portfolio millionths of it at the same price, so that a dollar of the leg is a
  million of the account; and the page values the legs at the last quote, the account
  at the mark of its last fill. `BooksExact` has both in its equation.
* *A session's end.* `live_feed.py` (line 792): never leave a position open when the
  session ends. An order that a thread is sending when the tasks are cancelled
  reaches the broker after the flatten. `EndsFlatButStrays`: no more than these remain.
* *Several feeds.* `live_feed.py` (lines 403-405) drives the portfolio from the actual
  executions. Each feed listens to the whole account and books each fill it hears of,
  so with two symbols it is booked twice until a reconcile overwrites it.
  `BooksAccounted` has the second booking in what the books are off by.
* *IBKR.* `_on_exec` (`live_feed.py`, lines 443-447) is to book the execution instead of an
  assumed fill at submit; the guard has recorded the order at submit already, and counts
  every share twice. `BooksExact` says so for that run.

### Behaviour the models show, and the properties allow for

The modules model what the code does. Where that is less than one might expect,
the property says so; a reader should know of these places.

*F1 card.* The captured decisions and the book are not cleared by the host
program, so a second run without a reload of the image reads the decisions of the
first. The host does not look at the overflow bit of the egress buffer: it reads
128 decisions at most. The header of `cl_tick_to_trade_core.sv` (line 14) puts the
decisions at 0x300, the code at 0x400. A write to any address from 0x200 on
whose low nine bits are zero pushes a byte. When a message starts in the same
cycle as a decision is measured, the new measurement is not begun.

*Parser.* The shares of a Delete are those of an older message in the hardware and
zero in the reference. `carve_itch_slice.py` keeps Add, Delete, Execute and
Cancel only, so a carved feed has no Replace.

*References.* `golden/order_book.py` only ever improves the touch, and ignores an Add
with a participant.

*Desk.* The kill switch is tested at fills only, not at marks. An order that
turns a position around passes the exposure cap whole. A reset of the kill switch
in `live_feed.py` keeps the high-water mark, that of the panel does not. The first fill
of `run_taker` sees a mark of 0. The maker of `--simulate` ignores a pause. The
panel's bridge counts the exposure of orders, filled or not; a strategy that is
switched off takes its leg out of what is shown.

*Alpaca.* A close that failed at the stop-loss is not tried again until the symbol
was flat. A position read that fails counts as flat, and one that meets an own
working order does not see it: `PositionWithinCap` excludes both. The answer to an
order that filled at once leaves its entry in the list of open orders, as does an
order that the broker cancels. The books are reconciled by overwriting, so that a
fill between the read and the answer is forgotten, and one that was on its way at the
read counts twice, until the next turn: `BooksAccounted` counts both.

*Monitor.* Fills of an armed broker are booked as modelled, not as executed. The
position a dry-run built up counts in the exposure check of the armed broker. The page
may set the limit below what is held.

### Fairness

Safety is checked without fairness. For liveness, the clocks run for ever and
the reset is released (`WF` on the clock edges and on `ReleaseReset`, `Release`,
`HostUp`); a user is never assumed to write or to read. In `AsyncFifo` the
fair part of an edge leaves out the steps that raise a flag, which need such a
user. `OrderBook` assumes that the clock runs while the book is at work.

`ItchParser` and `F1Replay` assume that the source goes on and that the book is
ready again and again, each on its own: the book's `msg_ready` comes back after
each rescan (`ReadyAgain`), but never necessarily at an edge at which a byte is
on offer. `AlpacaFeed` assumes that the reconciling task runs and is answered
again and again, for each feed, and that the streams deliver or break: the task is a loop with
a sleep on one event loop, and a call that fails is retried by the next turn.
No order is assumed to be filled, and no command to come.

## Proofs

| Theorem | Says |
|---|---|
| `AsyncFifoProofs`: `Invariance`, `TypeCorrect`, `NeverOverrun`, `FlagsCorrect`, `AlmostFlagsCorrect` | `Spec => []IInv`, `[]TypeOK`, `[]NoOverrun`, `[]FlagsSafe`, `[]AlmostFlagsSafe` |
| `AsyncFifoProofs`: `Refinement` | `Spec => ImplementsFifo` |
| `HostConfigProofs`: `McpInvariance`, `OneEdgeAlways`, `MailboxRefinement` | the handshake with any source has one toggle edge in its loop and implements `MailboxSpec` |
| `HostConfigProofs`: `TypeCorrect`, `ConfigStaysInSync`, `UsesHandshake`, `ConfigIsMailbox` | the configuration path is such a source; what it remembers is what was loaded |
| `OrderBookProofs`: `DepthIsExact`, `BookImplements` | `Spec => []BookExact`, `Spec => ImplementsBook` |
| `RiskPathProofs`: `KillSwitch`, `GateRefinement`, `HostBooks` | `Spec => []HaltStops`, `Spec => ImplementsGate`, `Spec => []HostExposure` |
| `CoreProofs`: `Invariance`, `AlignedAlways`, `NeedsBookAlways`, `CollarAlwaysFits`, `CoolsDownAlways` | `Spec => []SInv`, `[]Aligned`, `[]NeedsBook`, `[]CollarFits`, `CoolsDown` |
| `CoreProofs`: `ParserHolds`, `DeliversExact` | `ParserSpec => []ParserInv`, `ParserSpec => []DeliveredExact` |
| `CoreProofs`: `CardHolds`, `CardDelivers`, `ReadsBack`, `Measured` | `F1Spec => []F1Inv`, `[]DeliveredExact`, `[]ReadBackExact`, `[]MeasuredOnce` |
| `AlpacaFeedProofs`: `PauseStops`, `OnlyStraysLeft`, `BooksAddUp`, `CapHolds` | `Spec => []PauseStopsOrders`, `[]EndsFlatButStrays`, `[]BooksAccounted`, `[]PositionWithinCap` |
| `DeskProofs`: `TradingStops`, `PageAlwaysAgrees`, `CapAlwaysRespected` | `Spec => []HaltStopsTrading`, `[]PageAgreesWithKill`, `CapRespected` |
| `DeskProofs`: `OrdersGuarded`, `LegsMatch` | `MonitorSpec => GuardedOrders`, `[]LegsAddUp` |

### Assumptions

`ParamsAssumption`, `McpAssumption`, `BookAssumption`, `RiskAssumption`,
`NoEventAssumption`, `NoProposalAssumption`, `QuoteAssumption`, `CapAssumption`,
`FeedAssumption`, `MonitorAssumption`, `PortfolioAssumption`, `DeskAssumption` and
`F1Assumption` say which values the
parameters may have. `GrayAssumption` states the three facts about
the Gray code that the FIFO rests on: the conversions are inverse, neighbours
differ in one bit, and two codes differ in exactly the top two bits if and only if
the pointers are `DEPTH` apart. They are true for every width; the general proof is
an induction over the bits of a recursively defined function, which is out of reach
of the provers at hand, so TLC evaluates them at the depth of the run. Nothing else
is assumed.

### Arguments

*FIFO.* `NoOverrun` alone is not inductive: a step that writes because `full` is
low needs to know what the *registered* flag promised when it was computed. All
copies of both pointers are put on one line, by their distance from the oldest
copy of the read pointer in the write domain:

    rq[STAGES] <= ... <= rq[1] <= rbin <= ... the copies of wbin in the read
    domain, oldest first ... <= wbin <= rq[STAGES] + DEPTH

`IInv` is `TypeOK`, this order (`NoOverrun`), what `full` says of it
(`WrFlagInv`: if it is low, `wbin` is not yet at the end of the line), the same for
`empty` (`RdFlagInv`), and what holds in reset (`ResetInv`). A torn sample is by
`GrayAssumption` one of two neighbours on the line, so the order is kept. The
refinement maps the memory between `rbin` and `wbin` to the abstract queue; the
copies in the synchronizers do not occur in the mapping, only in the invariant
that shows a write never lands on an unread slot.

*Handshake.* `McpInv` is the types, `OneEdge` (along the loop request, its
synchronizer, acknowledge, its synchronizer there is at most one place where
neighbours differ), what holds in reset (`ResetLow`), and `HeldIsShown` (once a
word is acknowledged, the destination shows the word the source holds). One edge
is what makes `busy` a permission to load. `MailboxRefinement` is stated for
`McpSpec`, a handshake with *any* source; `UsesHandshake` shows that the
configuration path is one, so its refinement is obtained by one implication.

*Configuration.* `IInv` adds to `McpInv` the types of the machine and `SentIsHeld`:
except in the cycle of a load, what the machine remembers is what the handshake
holds. `HeldIsShown` then carries it over to the core.

*Sums.* Five invariants are about sums: the shares at a price, the orders under
way, the undelivered updates, the legs, the buckets of the histogram. The models write those over sets with
`MapThenSumSet`, a fold in an order that `CHOOSE` picks. `FiniteSums` shows that the
sum of a finite set does not depend on it, and how it changes when an element comes,
goes or changes its weight. The induction of the library is over an operator, which
the provers cannot instantiate; `NatInduct` puts a set in its place, and the least
element outside that set in place of the induction step.

*Order book.* `BookExact` says nothing of a book at work, so it is not inductive.
`BookInv` follows the machine: in every state the table holds each order in the slot
of its reference (`Table`); a latched Replace has its new slot free or its own
(`WaitInv`); the cache is the depth of the table also while a message waits
(`DepthInv`); and during a rebuild the new cache is the depth of the orders in the
slots passed so far (`ScanInv`), one behind the read address. Three facts about the
depth carry it. `InsertShows`: `side_insert` keeps a cache exact when an order is
added, through a level that falls off. `HiddenUnseen`: an order worse than the last
level of a full side may shrink or go without the depth changing, which is what the
skip rule relies on. `DepthOfOrders`: the orders determine the depth, so the
rebuilt cache is the one the abstract book shows. A feed in which two live orders share
a slot is outside `Legal`; there the code drops an order from its table but not from
the cache, and `BookExact` fails.

*Risk path.* `HaltStops` speaks of the last two registers only. `HaltInv` adds that
`n` edges after the switch was thrown the first `n` stages of its synchronizer are
high; a reset sets them all, which is what makes it survive one. `KillSwitch` holds
for any depth. `GateRefinement` needs little more than the types (`TypeInv`): an
edge of `clk_core` first takes the beat at the output into the FIFO or loses it
(`OrdersKept`, and `RejectionsKept` for the event), which is removing one element
from the middle of the queue of orders under way (`RemoveMiddle`) with the flag up,
and then appends the order or the rejection of this edge. `HostExposure` is a
statement on every prefix of what is under way. It is inductive with the types
(`ExposureInv`): an order appended is one that the risk check let through at the
core's position, which is the last prefix (`CoveredAppend`); a beat that the host takes
moves from the queue to what it was told; and a lost one breaks the sum, but raises
the flag in the same edge.

*Strategies.* The invariant states, stage by stage, which book a register is of
(`Stage1Inv`, `Stage2Inv`): only if it takes part in an order, because after a reset
the registers belong to no book. `gap + cooldown_cnt = COOLDOWN_CYCLES` is what turns
the counter into a statement about time. `CollarAlwaysFits` needs that half the
largest spread, rounded up, is within the band, and that the mid of a two-sided
quote does not wrap; both are in `QuoteAssumption`. The widths and limits of the
top satisfy it for prices below 214,748 dollars.

*Parser.* `DeliveredExact` compares what was handed over with what the reference
parser makes of the stream. `ParserInv` says it byte by byte. `Position`: byte
counter and type register give the place in the frame. `Filling`: after so many bytes
of a supported frame, the register of each field holds, at its low end, as many of the
field's bytes as have passed. So at the last byte all registers are full, and the
message handed over is the one sent (`Decoded`); `Delivery` is that for the whole
stream. Most of the work is the two descriptions of a frame: the case of the RTL
that sends a byte to a register, and the reference's list of fields with their widths.
`Shapes` lays the list of each type out as places, `FrameOf` and `FrameIs` show the
flattened frame to be just those bytes, and `Fits` that the RTL's offsets are the same
places. `CountExists` and `CountGrows` number the supported messages of the stream.

*F1 card.* Host, bridge and counter move in one cycle, and what each of them may hold
depends on the one access the host is at. `HostInv` and `BusInv` say which access that
is, `LatInv` where its address and data phases are in the counter, `LineInv` that the
bytes from the parser's position through the FIFO to the host's next byte each
follow the one before; when a source drives the parser directly, the host stands still
and `LineInv` is not claimed. `ReadInv` is about answers under way: one is formed some
cycles before the host takes it, and is still worth that much when it arrives because
decisions and buckets only grow; a clear would take them back, but it is acknowledged before the first byte
is pushed, and reads come after. `CaptureInv` numbers the decision on its way
from the core through the output register into the capture, which stops when full and
says so. `MeasureInv` makes `MeasuredOnce` inductive by counting, besides the buckets,
the difference being registered and the decision that will end the measurement.

*Alpaca.* Every invariant needs the types of the coroutines (`TypeInv`), above all that
a task that is about to send has something to send. `PauseInv` compares, for each task, what it
may still send after the pause with what it has under way; a send takes one off both.
`FlatInv`: from the last flatten on, position, working orders and what the threads still
hand over only pass shares from one to the other, or drop them, so their sum stays within
what it was then (`StraysOnly`). `BooksInv` adds to `BooksAccounted`, for each feed
whose reconcile is on its way, that the position has moved since the read by the
updates still to come and those the answer has met, less those that were on their way
before; so the answer makes the books off by just what `crossing` counted. The
undelivered updates are a sum over a sequence (`TotalAppend`, `TotalTail`). `PositionWithinCap` is the
one that needs most. `TakerInv`: a taker has one order in hand and its maker tasks
are idle. `CapInv`: from the read of the position until the answer to the send, no
other order works; what was read is the position, or a close came in between and the
position is zero; and the order in hand or at work is within reach (`Reach`), so that
neither the position nor the position with all of the order goes beyond the cap, and
hence no part of a fill does.

*Desk.* One invariant, `DeskInv`, serves all twelve runs. `DeskType` is the types:
the books, each feed with its strategy and guard, the sends on the loop, the orders
at the broker, the adapters of the panel. Most of its work is in the strategies: a
decision has a positive size and price, whatever the quotes, because lots and
books that are divided by are not empty. `KillInv` says what the kill switch has seen:
a halted portfolio has tripped, and as long as nothing has tripped the equity curve is
`Calm`: no point of it lies above the high-water mark, and between no two points did
it fall by the limit. The code tests at each fill the equity that it then appends to the
curve, so a fill keeps `Calm` or trips (a mark moves the equity, but neither the curve
nor the high-water mark). The page takes the greatest fall anew from the whole curve;
a running maximum of the curve is one of its points, so `FallBelow` bounds that fall
by the limit: `PageAlwaysAgrees`. `HaltInv` is a balance: after the
trip, what has traded and what is on its way together are at most what was on its way
then, since a send, an execution or a cancel moves from the second to the first, or
goes, and nothing new is scheduled; runs that have nothing on the loop trade nothing:
`TradingStops`. It is claimed of the runs that look at the switch (`Heeding`): `after`
counts the fills of the others as well, and theirs go on. `CapAlwaysRespected` looks at one step of the three takers: the veto of the
portfolio compares the exposure over all symbols and the order at its price with the
cap (`Within`), and what is booked afterwards is that order, for that money
(`SentBooked`); the others' exposure is a sum over the symbols of which one term
changes (`FiniteSums`).

Folds over a sequence (a maker's orders, the intents of the strategies, the legs of the
panel) are taken apart by a function of the value so far and the place: if each step
stays within a set, so does the fold (`FoldExists`, `FoldRuns`).

*Monitor.* `GuardedOrders` looks at the moment an order is sent; what makes it hold
is what earlier commands left behind. `ArmedInv`: while the broker is armed it has a
client, the keys are there, and the feed of the page is live (arming asks for it,
and the feed cannot be switched to the simulator while armed, nor fall back to it
for want of keys); and a client for live money was confirmed. `ThreadsInv` types
the threads, and has every feed but the last one stopped, which is why only a replaced
feed can still send on a simulated quote. A feed's thread changes neither but for the position (`ThreadStep`), a
command never moves a thread (`CommandStep`). `LegsInv` adds to `LegsAddUp` that the
strategies switched on are finitely many, so that their legs have a sum: a fill
changes one leg and the portfolio by as much, whatever was switched in between, and
a strategy that goes with shares is the one that sets `legs_lost`.

### Only model-checked

* Liveness (`CrossingCompletes`, `ConfigDelivered`, `ReadyAgain`, `LossIsTold`,
  `EveryMessageHandedOver`, `BooksConverge`): the provers do not reason about
  fairness.
* `BookMatchesGolden`, `DecisionsAgree`, `MakersAgree`: they compare two programs
  along a stream, one of which folds over its table or window anew at every message.
* `BooksExact`: on the instance a dollar is a number of ticks that every average
  divides; in general an average is rounded at every blend, the error grows with the
  number of fills, and the equation holds only up to that.

## Not modelled

* *Data.* Weighted volumes in the pipelines, packing of words, cents and rounding:
  arithmetic without control, and nothing the properties depend on.
* *Metastability* beyond a bit caught late: a synchronizer stage settles in a cycle.
* *`pulse_sync`*: the loop of `handshake_mcp` without data; only its testbench has one.
* *`strategy_market_maker`, `strategy_ofi_maker`, `pipe_divu`*: the quotes they should
  make are in `GoldenChain` by their references; the divider pipeline is not modelled.
* *`market_maker_top`*: its clear strobe lasts one cycle and drives address and data
  together, while the counter takes data only after the address, so that the first
  clear only latches the address and every other one is lost; its bench does not
  wait for an effect. The counter itself is in `F1Replay`, behind the other bridge.
  A clear that races a measurement is not modelled: the F1 host clears before it
  pushes.
* *`order_book_top`, the F1 and F2 shell wrappers*: no state of their own. The discovery
  of the card and the abort after a million polls are left out of `F1Replay`.
* *The AXI-Lite crossings of the multi-clock top*: instances of `AsyncFifo`, not composed.
* *Host*: fees, charts, news, logs, the page's HTML, latencies; the momentum signal and its
  dry-run, which ignores the kill switch; the staleness gate, which never refuses on these
  runs; the flat-side toggle and the cooldown of the Alpaca feed; the `mode`, `config`
  and symbol commands of the page, of which the runs start in every outcome or take either
  branch at any time; the stand-alone IBKR script. Races of the two panel threads
  inside one quote, a page read in the middle of an update, and lost updates of the
  bridge's counters are not modelled: steps of `Panel` are whole quotes.
* *Example sequences of the testbenches*: they are some of the behaviours of the runs; the
  drivers are the environments of the hardware modules.
* *`ip/`, `vivado/`, `gatesim/`, offline analysis, dashboards, launchers*: no behaviour of the
  running system, or no state that outlives a call.

## What could be added

| Modules | Models | Properties |
|---|---|---|
| `MarketMakerPipe` | `strategy_market_maker.sv`, `strategy_ofi_maker.sv`, `pipe_divu.sv` | the payload stays with its quotient; quotes within the inventory limit; proof of the alignment as in `CoreProofs` |
| `CsrTop` over `F1Replay`'s counter | `market_maker_top.sv` | each request is answered once with its own data; a clear clears |
| `CoreTop` | parser, book, strategies and risk path in one core | one message, at most one order, of the book it made |
