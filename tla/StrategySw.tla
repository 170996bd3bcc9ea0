----------------------------- MODULE StrategySw -----------------------------
(***************************************************************************)
(* host/strategy_sw.py: the software mirror of the imbalance strategy.     *)
(* The strategy's state is [prev_valid, cooldown]; a decision is a record  *)
(* [action, price, size], or NoOrder.                                      *)
(***************************************************************************)
EXTENDS Integers, FiniteSetsExt

CONSTANTS
  NLEVELS_SW,              \* levels the weights are made for
  THRESH,                  \* BID_THRESH and ASK_THRESH, ten times the ratio
  SPREAD_SW,               \* MAX_SPREAD_TICKS
  BASE_LOT, MAX_LOT,
  COOLDOWN_SW,             \* in evaluations; 0 on the live path
  NoOrder

NewStrategy == [prev_valid |-> FALSE, cooldown |-> 0]

\* The touch weighs most; levels that are not given count as empty.
weighted(sizes) ==
  MapThenSumSet(LAMBDA i : (NLEVELS_SW - i + 1) * sizes[i], DOMAIN sizes \cap 1 .. NLEVELS_SW)

lot(dom, oth) ==
  LET size == IF dom * 10 > 3 * THRESH * oth THEN 3 * BASE_LOT
              ELSE IF dom * 10 > 2 * THRESH * oth THEN 2 * BASE_LOT ELSE BASE_LOT
  IN  IF size < MAX_LOT THEN size ELSE MAX_LOT

\* One evaluation of the touch q = [bid, bid_size, ask, ask_size] and the sizes of
\* the levels below it: the strategy's next state and its decision.
evaluate(st, valid, q, bid_sizes, ask_sizes) ==
  LET elig == valid /\ st.prev_valid /\ q.ask > q.bid /\ q.ask - q.bid <= SPREAD_SW
      w_bid == weighted(bid_sizes)
      w_ask == weighted(ask_sizes)
      dec == IF st.cooldown > 0 \/ ~elig THEN NoOrder
             ELSE IF w_bid * 10 > THRESH * w_ask /\ q.ask > 0
               THEN [action |-> "buy", price |-> q.ask, size |-> lot(w_bid, w_ask)]
             ELSE IF w_ask * 10 > THRESH * w_bid /\ q.bid > 0
               THEN [action |-> "sell", price |-> q.bid, size |-> lot(w_ask, w_bid)]
             ELSE NoOrder
  IN  [dec |-> dec,
       st |-> [prev_valid |-> valid,
               cooldown |-> IF st.cooldown > 0 THEN st.cooldown - 1
                            ELSE IF dec # NoOrder THEN COOLDOWN_SW ELSE 0]]

\* The live path has the touch only.
evaluate_touch(st, valid, q) == evaluate(st, valid, q, <<q.bid_size>>, <<q.ask_size>>)
=============================================================================
