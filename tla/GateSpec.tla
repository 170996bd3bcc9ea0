------------------------------ MODULE GateSpec ------------------------------
(***************************************************************************)
(* What the way from the strategy to the host promises: a proposal becomes *)
(* an order within the position limit, or a rejection; orders and          *)
(* rejections reach the host once each and in order; and one that does not *)
(* is reported lost for ever after.  RiskPath implements this              *)
(* specification.                                                          *)
(***************************************************************************)
EXTENDS Integers, SequencesExt

CONSTANTS
  Quantity,       \* signed order quantities: a buy is positive
  Reason,         \* why a proposal is rejected
  MAX_POSITION    \* the largest position, long or short

VARIABLES
  position,       \* the net quantity of all orders let through
  orders,         \* the orders on their way to the host, oldest first
  order_lost,     \* an order was lost on its way
  rejections,     \* the rejections on their way to the host, oldest first
  rejection_lost  \* a rejection was lost on its way

vars == <<position, orders, order_lost, rejections, rejection_lost>>

Init ==
  /\ position = 0
  /\ orders = <<>> /\ order_lost = FALSE
  /\ rejections = <<>> /\ rejection_lost = FALSE

\* What is left of a queue after a step that may lose one of its elements.
Kept(queue, lost) ==
  {[queue |-> queue, lost |-> lost]}
    \cup {[queue |-> RemoveAt(queue, i), lost |-> TRUE] : i \in DOMAIN queue}

Order(o) ==
  /\ position' = position + o
  /\ position' \in -MAX_POSITION .. MAX_POSITION
  /\ \E k \in Kept(orders, order_lost) :
       orders' = Append(k.queue, o) /\ order_lost' = k.lost
  /\ \E k \in Kept(rejections, rejection_lost) :
       rejections' = k.queue /\ rejection_lost' = k.lost

Reject(r) ==
  /\ \E k \in Kept(orders, order_lost) : orders' = k.queue /\ order_lost' = k.lost
  /\ \E k \in Kept(rejections, rejection_lost) :
       rejections' = Append(k.queue, r) /\ rejection_lost' = k.lost
  /\ UNCHANGED position

Lose ==
  /\ \E k \in Kept(orders, order_lost) : orders' = k.queue /\ order_lost' = k.lost
  /\ \E k \in Kept(rejections, rejection_lost) :
       rejections' = k.queue /\ rejection_lost' = k.lost
  /\ UNCHANGED position

\* The host takes an order, is told of a rejection, or both.
Deliver ==
  /\ \/ orders # <<>> /\ orders' = Tail(orders)
     \/ UNCHANGED orders
  /\ \/ rejections # <<>> /\ rejections' = Tail(rejections)
     \/ UNCHANGED rejections
  /\ UNCHANGED <<position, order_lost, rejection_lost>>

Reset ==
  /\ position' = 0
  /\ orders' = <<>> /\ order_lost' = FALSE
  /\ rejections' = <<>> /\ rejection_lost' = FALSE

Next ==
  \/ \E o \in Quantity : Order(o)
  \/ \E r \in Reason : Reject(r)
  \/ Lose \/ Deliver \/ Reset

Spec == Init /\ [][Next]_vars
=============================================================================
