-------------------------------- MODULE MCHost --------------------------------
(***************************************************************************)
(* The host, on one of the paths by which it books its own money (Desk) or *)
(* at the switches of the controller (Monitor): of the two a behaviour     *)
(* runs one, path says which.                                              *)
(*   Desk: two symbols.  A dollar is 3600 ticks, so that the averages of   *)
(*   the few fills are whole.  Quotes that make the strategy buy or sell   *)
(*   two shares, sell two after a rise, and buy one.  All are valid: an    *)
(*   invalid quote only makes the strategy wait, which MCStrategies covers.*)
(*   Monitor: one switch of the feed, two routed orders, and a limit of    *)
(*   one lot or two.                                                       *)
(***************************************************************************)
EXTENDS Desk, Monitor

Book(bid, bid_size, ask, ask_size) ==
  [valid |-> bid > 0, bid |-> 3600 * bid, bid_size |-> bid_size, ask |-> 3600 * ask,
   ask_size |-> ask_size]

MCQuote == {Book(16, 4, 24, 1), Book(16, 1, 24, 4), Book(24, 1, 32, 4), Book(16, 2, 24, 1)}

MCFewQuotes == {Book(20, 2, 28, 1), Book(16, 1, 24, 4)}
MCEnabled == {<<"imbalance", "market_maker">>, <<"ofi">>, <<"avellaneda">>}

Alike == Permutations(Symbol)

\* What the controller is like while a path of Desk runs.
Untouched ==
  /\ creds /\ threads = <<Thread("alpaca")>> /\ bridge.max_position = 1
  /\ DOMAIN legs = {CHOOSE n \in AVAILABLE : TRUE}

MCInit == Init /\ MonitorInit /\ (path # "switches" => Untouched)

MCNext ==
  \/ path # "switches" /\ Next /\ UNCHANGED monitor_vars
  \/ path = "switches" /\ MonitorNext /\ UNCHANGED vars

MCSpec == MCInit /\ [][MCNext]_<<vars, monitor_vars>>
=============================================================================
