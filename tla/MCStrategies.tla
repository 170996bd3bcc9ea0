---------------------------- MODULE MCStrategies ----------------------------
(***************************************************************************)
(* The strategies, of the hardware or against their references (part).     *)
(*   Strategies: two symbols, with an empty and a one-sided book, a locked *)
(*   one, two tight ones far apart and one too wide for the imbalance      *)
(*   strategy.                                                             *)
(*   GoldenChain: two slots for three references, so that the references 0 *)
(*   and 2 share one; prices at which books are normal, locked and crossed,*)
(*   and so low that a quote falls below zero.  New orders are of one or   *)
(*   two shares, changes of one; a replacement takes the reference 2, which*)
(*   attributed orders have as well.                                       *)
(***************************************************************************)
EXTENDS Strategies, GoldenChain

VARIABLE part

Quotes ==
  {[bid |-> 0, ask |-> 31], [bid |-> 5, ask |-> 31], [bid |-> 3, ask |-> 3],
   [bid |-> 1, ask |-> 2], [bid |-> 10, ask |-> 13], [bid |-> 1, ask |-> 12]}

MCFeed == {m \in Message : /\ m.type \in {"Reduce", "Replace"} => m.shares = 1
                           /\ m.type = "Replace" => m.ref # 2 /\ m.nref = 2
                           /\ m.type # "Trade"}

MCMpid == {m \in MCFeed : m.type = "Add" /\ m.ref = 2 /\ m.price = 2}

MCInit == part \in {"hardware", "golden"} /\ Init /\ GoldenInit

MCNext ==
  \/ part = "hardware" /\ Next /\ UNCHANGED <<golden_vars, part>>
  \/ part = "golden" /\ GoldenNext /\ UNCHANGED <<vars, part>>

MCSpec == MCInit /\ [][MCNext]_<<vars, golden_vars, part>>
=============================================================================
