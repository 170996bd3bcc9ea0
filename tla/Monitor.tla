------------------------------- MODULE Monitor -------------------------------
(***************************************************************************)
(* The crypto side of host/monitor_server.py, with its feed                *)
(* (crypto_feed.py), its strategies (strategy_registry.py) and its broker  *)
(* (alpaca_bridge.py).  Commands hold the controller's lock, one at a time;*)
(* the feed's thread takes no lock at all, and a feed that is replaced is  *)
(* stopped but not waited for, so that its thread may still be in the      *)
(* middle of a quote when the next commands come.  A step of a thread is   *)
(* what lies between two reads of what a command writes.                   *)
(* Every order is for one lot.  The equity simulator is in Desk.           *)
(***************************************************************************)
EXTENDS Integers, FiniteSetsExt, SequencesExt

CONSTANTS
  AVAILABLE,    \* the strategies' names
  Limit,        \* what the page may set max_position_usd to, in lots
  MaxFeeds,     \* bound: feeds started
  MaxRouted     \* bound: orders routed

ASSUME MonitorAssumption == Limit \subseteq Nat /\ Limit # {} /\ MaxFeeds \in Nat \ {0}

VARIABLES
  creds,        \* the keys are in the environment
  threads,      \* a thread per feed ever started, the last one the feed's:
                \*   [source, stopped, pc, todo]
  trading, running, paused,
  legs,         \* StrategyBook.adapters: the inventory of each enabled strategy
  holding,      \* the portfolio's position in the crypto symbol
  bridge,       \* [dry_run, paper, client, position, max_position]
  routed,       \* how many orders were routed
  confirmed,    \* history: live money was asked for, with a confirm
  legs_lost     \* history: a strategy was switched off with shares, or under a fill

monitor_vars ==
  <<creds, threads, trading, running, paused, legs, holding, bridge, routed, confirmed, legs_lost>>

Intent == [name : AVAILABLE, lots : {1, -1}]
Thread(source) == [source |-> source, stopped |-> FALSE, pc |-> "idle", todo |-> <<>>]
Feed == Len(threads)

\* status: live means the source of the feed, whether quotes arrive or not.
live == threads[Feed].source = "alpaca"
Available(want) == IF want = "alpaca" /\ ~creds THEN "sim" ELSE want

NewBridge(max_position) ==
  [dry_run |-> TRUE, paper |-> TRUE, client |-> "none", position |-> 0,
   max_position |-> max_position]

\* The server starts with the best feed there is.  The page may have gone to the simulated
\* one since: the thread of the first feed, stopped and done, is then left out.
MonitorInit ==
  /\ creds \in BOOLEAN
  /\ \E source \in {Available("alpaca"), "sim"} : threads = <<Thread(source)>>
  /\ trading = FALSE /\ running = TRUE /\ paused = FALSE
  /\ \E name \in AVAILABLE : legs = [s \in {name} |-> 0]
  /\ holding = 0 /\ routed = 0 /\ confirmed = FALSE /\ legs_lost = FALSE
  /\ \E max_position \in Limit : bridge = NewBridge(max_position)
-----------------------------------------------------------------------------
\* The thread of feed f.
Goes(f, pc) == threads' = [threads EXCEPT ![f].pc = pc]
Moves(f, t) == threads' = [threads EXCEPT ![f] = t]

\* Done with the first intent: on to the next one, or to the next quote.
Next1(t) == [t EXCEPT !.todo = Tail(@), !.pc = IF Len(t.todo) = 1 THEN "idle" ELSE "route"]

\* _run_sim, the stream's handler: a feed that is not stopped takes up a quote.
Emit(f) ==
  /\ threads[f].pc = "idle" /\ ~threads[f].stopped /\ routed < MaxRouted
  /\ Goes(f, "quote")
  /\ UNCHANGED <<creds, trading, running, paused, legs, holding, bridge, routed, confirmed,
                 legs_lost>>

\* _on_quote: trading or not; then every enabled strategy sees the quote.  A switch of
\* strategies under it makes the rest of its intents get lost.
OnFeedQuote(f, intents) ==
  LET t == threads[f]
  IN  /\ t.pc = "quote" /\ \A n \in DOMAIN intents : intents[n].name \in DOMAIN legs
      /\ Moves(f, IF ~trading \/ paused \/ ~running \/ intents = <<>> THEN [t EXCEPT !.pc = "idle"]
                  ELSE [t EXCEPT !.todo = intents, !.pc = "route"])
      /\ UNCHANGED <<creds, trading, running, paused, legs, holding, bridge, routed, confirmed,
                     legs_lost>>

Away(n) == IF n < 0 THEN -n ELSE n

\* send_decision_sync.  allowed: the size, the price band and the rate pass.  The
\* position is taken before the order is sent.
Route(f, allowed) ==
  LET t == threads[f]
      position == bridge.position + Head(t.todo).lots
      accepted == allowed /\ Away(position) <= bridge.max_position
  IN  /\ t.pc = "route" /\ routed < MaxRouted
      /\ IF accepted
           THEN /\ bridge' = [bridge EXCEPT !.position = position]
                /\ Goes(f, IF bridge.dry_run THEN "fill" ELSE "submit") /\ routed' = routed + 1
           ELSE Moves(f, Next1(t)) /\ UNCHANGED <<bridge, routed>>
      /\ UNCHANGED <<creds, trading, running, paused, legs, holding, confirmed, legs_lost>>

\* The broker answers; a rejected order gives its position back.
Submitted(f, ok) ==
  LET t == threads[f]
  IN  /\ t.pc = "submit"
      /\ IF ok THEN Goes(f, "fill") /\ UNCHANGED bridge
         ELSE Moves(f, Next1(t)) /\ bridge' = [bridge EXCEPT !.position = @ - Head(t.todo).lots]
      /\ UNCHANGED <<creds, trading, running, paused, legs, holding, routed, confirmed, legs_lost>>

\* (mutant) the portfolio books a quote that was not reached
books_Unfilled(filled) == TRUE
books(filled) == filled

\* The modelled fill, dry-run or not: the leg and the portfolio.  filled: a taker's
\* order, or a maker's that the touch has reached.
BookFill(f, filled) ==
  LET t == threads[f]
      intent == Head(t.todo)
      known == intent.name \in DOMAIN legs
  IN  /\ t.pc = "fill" /\ Moves(f, Next1(t))
      /\ legs' = IF filled /\ known THEN [legs EXCEPT ![intent.name] = @ + intent.lots] ELSE legs
      /\ holding' = IF books(filled) THEN holding + intent.lots ELSE holding
      /\ legs_lost' = (legs_lost \/ (filled /\ ~known))
      /\ UNCHANGED <<creds, trading, running, paused, bridge, routed, confirmed>>
-----------------------------------------------------------------------------
\* Commands that only set flags.
Flags(cmd) ==
  /\ running' = IF cmd \in {"start", "stop"} THEN cmd = "start" ELSE running
  /\ paused' = IF cmd \in {"pause", "resume", "start"} THEN cmd = "pause" ELSE paused
  /\ trading' = (trading /\ cmd # "stop_trade")
  /\ UNCHANGED <<creds, threads, legs, holding, bridge, routed, confirmed, legs_lost>>

\* feed: not to the simulator while armed; trading is off after it.
SwitchFeed(want) ==
  /\ ~(want = "sim" /\ ~bridge.dry_run) /\ Feed < MaxFeeds
  /\ trading' = FALSE
  /\ threads' = Append([threads EXCEPT ![Feed].stopped = TRUE], Thread(Available(want)))
  /\ UNCHANGED <<creds, running, paused, legs, holding, bridge, routed, confirmed, legs_lost>>

BeginTrade ==
  /\ bridge.dry_run \/ live
  /\ trading' = TRUE /\ running' = TRUE /\ paused' = FALSE
  /\ UNCHANGED <<creds, threads, legs, holding, bridge, routed, confirmed, legs_lost>>

Enable(name) ==
  /\ name \notin DOMAIN legs
  /\ legs' = [s \in DOMAIN legs \cup {name} |-> IF s = name THEN 0 ELSE legs[s]]
  /\ UNCHANGED <<creds, threads, trading, running, paused, holding, bridge, routed, confirmed,
                 legs_lost>>

\* The leg goes with the strategy.
Disable(name) ==
  /\ name \in DOMAIN legs
  /\ legs' = [s \in DOMAIN legs \ {name} |-> legs[s]] /\ legs_lost' = (legs_lost \/ legs[name] # 0)
  /\ UNCHANGED <<creds, threads, trading, running, paused, holding, bridge, routed, confirmed>>

\* (mutant) the broker is armed whatever the feed is
may_arm_Always(want) == TRUE
may_arm(want) == want = "dryrun" \/ live

\* arm: dry-run, or an account, of which the client is made once and kept, whichever is
\* asked for later.
arm(b, paper, on) ==
  LET dry_run == ~on \/ ~creds
  IN  [b EXCEPT !.dry_run = dry_run, !.paper = paper,
                !.client = IF ~dry_run /\ @ = "none" THEN IF paper THEN "paper" ELSE "live" ELSE @]

\* broker: live money needs a confirm, and an armed broker a live feed.
Broker(want, confirm) ==
  /\ want = "live" => confirm
  /\ may_arm(want)
  /\ bridge' = arm(bridge, want # "live", want # "dryrun")
  /\ confirmed' = (confirmed \/ (want = "live" /\ confirm))
  /\ UNCHANGED <<creds, threads, trading, running, paused, legs, holding, routed, legs_lost>>

\* max_position: the limit may fall below what is held; then only what brings the
\* position within it passes.
SetLimit(max_position) ==
  /\ bridge' = [bridge EXCEPT !.max_position = max_position]
  /\ UNCHANGED <<creds, threads, trading, running, paused, legs, holding, routed, confirmed,
                 legs_lost>>
-----------------------------------------------------------------------------
\* What the strategies make of a quote: nothing, an order, both sides of a maker's quote,
\* or an order of each of two.
Intents ==
  {<<>>} \cup {<<i>> : i \in Intent}
    \cup {<<[name |-> s, lots |-> 1], [name |-> t, lots |-> -1]>> :
            s \in AVAILABLE, t \in AVAILABLE}

FeedThread(f) ==
  \/ Emit(f)
  \/ \E intents \in Intents : OnFeedQuote(f, intents)
  \/ \E b \in BOOLEAN : Route(f, b) \/ Submitted(f, b) \/ BookFill(f, b)

PageCommand ==
  \/ \E cmd \in {"start", "stop", "pause", "resume", "stop_trade"} : Flags(cmd)
  \/ \E want \in {"sim", "alpaca"} : SwitchFeed(want)
  \/ BeginTrade
  \/ \E name \in AVAILABLE : Enable(name) \/ Disable(name)
  \/ \E want \in {"dryrun", "paper", "live"}, confirm \in BOOLEAN : Broker(want, confirm)
  \/ \E max_position \in Limit : SetLimit(max_position)

MonitorNext == PageCommand \/ \E f \in 1 .. MaxFeeds : f <= Feed /\ FeedThread(f)

MonitorSpec == MonitorInit /\ [][MonitorNext]_monitor_vars
-----------------------------------------------------------------------------
\* Thread f hands an order to a broker.
Leaves(f) == threads[f].pc = "route" /\ threads'[f].pc = "submit"

\* The HARD GUARD of begin_trade, "never send real orders priced off simulated data": an
\* order leaves for a broker on a quote of the live feed only.  A thread that is in the
\* middle of a simulated quote while its feed is replaced and the broker armed does not
\* look again, and breaks it.
LiveQuotesOnly ==
  [][\A f \in 1 .. Feed : Leaves(f) => threads[f].source = "alpaca"]_monitor_vars

\* alpaca_bridge.py: "Nothing reaches a real venue unless BOTH are turned off
\* deliberately", dry_run and paper.  The client that was made for the live account is
\* kept when the page goes back to paper, and breaks it.
RealVenueOnlyLive ==
  [][\A f \in 1 .. Feed :
       Leaves(f) /\ bridge.client = "live" => ~bridge.dry_run /\ ~bridge.paper]_monitor_vars

\* What is left of the two: the feed that the page shows sends no order on a simulated
\* quote, in any order of the commands, only a replaced one may, in what is left of its
\* last quote; and no live-money account gets an order, now or after a change back to
\* paper, unless the page has asked for one with a confirm.
GuardedOrders ==
  [][\A f \in 1 .. Feed :
       Leaves(f) =>
         /\ threads[f].source = "alpaca" \/ (f # Feed /\ threads[f].stopped)
         /\ bridge.client # "none"
         /\ bridge.client = "live" => confirmed]_monitor_vars

Whole(held) == MapThenSumSet(LAMBDA s : held[s], DOMAIN held)

\* The legs sum to the whole: what the strategies hold is what the portfolio holds, over
\* switches of feed and broker, rejections and quotes that were overtaken, until a
\* strategy is switched off with shares, or while an order of it is on its way.
LegsAddUp == ~legs_lost => Whole(legs) = holding
=============================================================================
