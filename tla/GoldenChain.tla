----------------------------- MODULE GoldenChain -----------------------------
(***************************************************************************)
(* The equivalence regressions of sim/: one stream of messages is taken by *)
(* the hardware's order book (rtl/order_book_m2.sv, edge by edge) and, a   *)
(* message at a time, by its reference; the reference book's snapshot feeds*)
(* the strategies of the host and their references with matched parameters,*)
(* and the reference's decision its risk check (phase2_golden.run).        *)
(*                                                                         *)
(* The stream is any stream: references may be used again, share a slot,   *)
(* or name nothing, and the book may be crossed, as on a carved real feed. *)
(***************************************************************************)
EXTENDS OrderBookM2

CONSTANTS
  EMPTY_ASK, THRESH, MAX_SPREAD, BASE_LOT, MAX_LOT,
  OFI_WINDOW, OFI_THRESHOLD, OFI_BASE_LOT, OFI_MAX_LOT, ALPHA_SHIFT, MAX_TILT,
  HALF_SPREAD, SKEW, QUOTE_SIZE, MAX_POSITION, MAX_ORDER_SIZE, PRICE_BAND,
  Feed,          \* the messages a stream is made of
  Mpid,          \* those of them that may also come with their participant (ADD_MPID)
  Nothing,       \* no quote, no decision
  MaxMsgs        \* bound: the messages of a stream

ASSUME FeedAssumption == /\ Feed \subseteq Message
                         /\ \A m \in Mpid : m \in Feed /\ m.type = "Add"

Gold == INSTANCE GoldenOrderBook WITH DEPTH <- ORDER_DEPTH, N <- NLEVELS, NoEntry <- NoOrder,
                                       NO_ASK <- EMPTY_ASK

GS == INSTANCE GoldenSignals WITH
  NLEVELS_G <- NLEVELS, THRESH_G <- THRESH, SPREAD_G <- MAX_SPREAD, BASE_G <- BASE_LOT,
  MAX_G <- MAX_LOT, WINDOW_G <- OFI_WINDOW, OFI_THRESH_G <- OFI_THRESHOLD,
  OFI_BASE_G <- OFI_BASE_LOT, OFI_MAX_G <- OFI_MAX_LOT, HALF_G <- HALF_SPREAD,
  SKEW_G <- SKEW, QUOTE_G <- QUOTE_SIZE, POSITION_G <- MAX_POSITION, ASHIFT <- ALPHA_SHIFT,
  TILT_G <- MAX_TILT, ORDER_G <- MAX_ORDER_SIZE, BAND_G <- PRICE_BAND,
  NoQuoteG <- Nothing, NoOrderG <- Nothing

SW == INSTANCE StrategySw WITH
  NLEVELS_SW <- NLEVELS, SPREAD_SW <- MAX_SPREAD, COOLDOWN_SW <- 0, NoOrder <- Nothing

OFI == INSTANCE OfiSw WITH
  ALPHA_DEN <- 2 ^ ALPHA_SHIFT, MAX_INVENTORY <- MAX_POSITION, MIN_BOOK_SIZE <- 1,
  NoQuote <- Nothing, NoDecision <- Nothing

VARIABLES
  book,        \* the hardware's book
  gold, top,   \* its reference, and the older one
  gold_valid,  \* the reference strategy's _prev_valid
  position,    \* of the reference's risk check
  flow,        \* the order-flow reference (the maker's reference moves alike)
  soft,        \* the host's strategies: [imb, ofi, maker]
  dec,         \* what was decided on the last message: [gold, flow, touch, depth, ofi]
  sent,        \* messages so far
  settled,     \* history: how many increments, up to a window of them, the reference
               \* took since a valid book was locked or crossed
  only_adds    \* history: the stream was of orders without participant only

golden_vars == <<book, gold, top, gold_valid, position, flow, soft, dec, sent, settled, only_adds>>

NoDecisions == [gold |-> Nothing, flow |-> Nothing, touch |-> Nothing, depth |-> Nothing,
                ofi |-> Nothing]

GoldenInit ==
  /\ book = InitBook /\ gold = Gold!NewBook /\ top = Gold!NewTop
  /\ gold_valid = FALSE /\ position = 0 /\ flow = GS!NewFlow
  /\ soft = [imb |-> SW!NewStrategy, ofi |-> OFI!NewSignal, maker |-> OFI!NewMaker]
  /\ dec = NoDecisions /\ sent = 0
  /\ settled = OFI_WINDOW /\ only_adds = TRUE

Touch(s) == [bid |-> s.bid, bid_size |-> s.bid_size, ask |-> s.ask, ask_size |-> s.ask_size]

\* What phase2_golden.run does with the snapshot s after a message.
run(s) ==
  LET proposed == GS!imbalance(gold_valid, s)
      ref_price == (s.bid + s.ask) \div 2
  IN  [proposed |-> proposed, valid |-> s.valid,
       position |-> IF proposed = Nothing THEN position
                    ELSE GS!check(position, proposed, ref_price, FALSE).position]

\* tb_strategy_sw_equiv.run_one: the software mirror, with the levels.
run_one(s) == SW!evaluate(soft.imb, s.valid, Touch(s), s.bid_level_size, s.ask_level_size)

\* tb_strategy_equiv_all.run_ofi: the order flow, the host's and the reference's.
run_ofi(s) == [host |-> OFI!update(soft.ofi, Touch(s), s.valid),
               gold |-> GS!flow_decision(flow, s),
               flow |-> GS!step(flow, GS!flow_normal(s), Touch(s))]

\* run_mm and run_ofi_maker: the quotes of both at one inventory.
run_mm(s, inv) == [host |-> OFI!quote(Touch(s), inv), gold |-> GS!mm_quote(s, inv)]

run_ofi_maker(s, inv) == [host |-> OFI!ofi_quote(soft.maker, Touch(s), s.valid, inv),
                          gold |-> GS!ofi_maker_quote(flow, s, inv)]

\* All of them see the message.
Evaluate(s) ==
  /\ gold_valid' = run(s).valid /\ position' = run(s).position
  /\ flow' = run_ofi(s).flow
  /\ soft' = [imb |-> run_one(s).st, ofi |-> run_ofi(s).host.st,
              maker |-> OFI!advance(soft.maker, Touch(s), s.valid)]
  /\ dec' = [gold |-> run(s).proposed, depth |-> run_one(s).dec,
             touch |-> SW!evaluate_touch(soft.imb, s.valid, Touch(s)).dec,
             flow |-> run_ofi(s).gold, ofi |-> run_ofi(s).host.dec]
  /\ settled' = IF s.valid /\ ~GS!flow_normal(s) THEN 0
                ELSE IF GS!flow_normal(s) /\ flow.prev # Nothing
                  THEN Min({settled + 1, OFI_WINDOW})
                ELSE settled

\* A message, attributed to a participant or not: the hardware's book has to be ready.
Take(m, attributed) ==
  /\ msg_ready(book) /\ sent < MaxMsgs /\ sent' = sent + 1
  /\ book' = BookEdge(book, m)
  /\ gold' = Gold!apply(gold, m) /\ top' = Gold!top_apply(top, m, attributed)
  /\ only_adds' = (only_adds /\ m.type = "Add" /\ ~attributed)
  /\ Evaluate(Gold!snapshot(gold'))

\* The hardware looks up and rescans.
Work ==
  /\ ~msg_ready(book) /\ book' = BookEdge(book, NoMsg)
  /\ UNCHANGED <<gold, top, gold_valid, position, flow, soft, dec, sent, settled, only_adds>>

GoldenNext == Work \/ (\E m \in Feed : Take(m, FALSE)) \/ (\E m \in Mpid : Take(m, TRUE))

GoldenSpec == GoldenInit /\ [][GoldenNext]_golden_vars
-----------------------------------------------------------------------------
SameLevels(levels, g) ==
  /\ Len(levels) = g.cnt
  /\ \A i \in 1 .. g.cnt : levels[i] = [price |-> g.price[i], size |-> g.size[i]]

\* Whenever the hardware's book is ready again its order table and its levels are
\* those of the reference, which is what every regression compares: also after orders
\* that share a slot, for which neither shows the orders the exchange has.  While the
\* stream adds orders only, none of them attributed, the older reference has the
\* same touch.
BookMatchesGolden ==
  /\ msg_ready(book) => /\ book.entries = gold.entries
                        /\ SameLevels(book.levels["bid"], gold.bid)
                        /\ SameLevels(book.levels["ask"], gold.ask)
  /\ only_adds => Touch(top) = Touch(Gold!snapshot(gold))

\* The order flow of the host is that of its reference, as the regression says: they
\* decide alike on every message (tb_strategy_equiv_all.py).  They do not: OFISignal
\* still compares the next quote with a crossed one, which its reference has forgotten.
FlowEqualsGolden == dec.ofi = dec.flow

\* The host's strategies decide on every message what their references decide, the
\* imbalance also from the touch alone while there is one level per side.  What the
\* order flow takes from a locked or crossed book is gone again, however the stream
\* goes on, after a window of increments.
DecisionsAgree ==
  /\ dec.depth = dec.gold
  /\ (gold.bid.cnt <= 1 /\ gold.ask.cnt <= 1) => dec.touch = dec.gold
  /\ settled = OFI_WINDOW => FlowEqualsGolden

\* At every inventory the maker with the tilt quotes what its reference quotes; the
\* plain maker does but for a price below zero, which it posts and its reference, like
\* the hardware, does not.  Two posted prices are never crossed; and a fill at the
\* inventory of the replay would pass its position check.
MakersAgree ==
  LET s == Gold!snapshot(gold)
      posted(p) == IF p < 0 THEN 0 ELSE p
      floored(k) == [k EXCEPT !.bid = posted(@), !.ask = posted(@)]
      ordered(k) == k.bid > 0 /\ k.ask > 0 => k.bid < k.ask
      plain == run_mm(s, position).host
  IN  /\ \A inv \in -MAX_POSITION .. MAX_POSITION :
           LET mm == run_mm(s, inv)
               tilted == run_ofi_maker(s, inv)
           IN  /\ floored(mm.host) = mm.gold /\ ordered(mm.host) /\ ordered(mm.gold)
               /\ tilted.host = tilted.gold /\ ordered(tilted.gold)
      /\ GS!position_ok(position, plain.bid_size) /\ GS!position_ok(position, -plain.ask_size)
=============================================================================
