--------------------------- MODULE RiskPathProofs ---------------------------
(***************************************************************************)
(* Proofs about RiskPath: for every depth of the synchronizers and of the  *)
(* decision FIFO, every limit and every set of orders, the kill switch     *)
(* silences the core's output in time, and the path implements GateSpec.   *)
(***************************************************************************)
EXTENDS RiskPath, FiniteSums, SequenceTheorems

(* Proof of HaltStops.  By itself it is not inductive: that the risk check *)
(* lets no order through after STAGES edges needs the synchronizer to hold *)
(* the switch in as many stages as edges have passed, over a reset too.    *)

HaltInv ==
  /\ halt \in BOOLEAN /\ halt_q \in [1 .. STAGES -> BOOLEAN] /\ halted \in Nat
  /\ halted > 0 => halt
  /\ \A i \in 1 .. STAGES : halted >= i => halt_q[i]
  /\ HaltStops

\* The risk check lets nothing through while its copy of the kill switch is high.
LEMMA HaltBlocks == ASSUME NEW o, halt_core PROVE ~out_valid(o)
BY DEF out_valid, blocked

\* The synchronizer comes out of reset halted.
LEMMA HaltInit == Init => HaltInv
BY RiskAssumption DEF Init, HaltInv, HaltStops, All, HALT_INIT

\* One edge moves the switch, and what it blocked, one register on.
LEMMA HaltStep == HaltInv /\ [Next]_vars => HaltInv'
<1> SUFFICES ASSUME HaltInv, [Next]_vars PROVE HaltInv'
  OBVIOUS
<1> USE RiskAssumption
<1>1. ASSUME NEW o \in Proposal \cup {NoOrder}, NEW tready \in BOOLEAN, NEW eready \in BOOLEAN,
             CoreEdge(o, tready, eready)
      PROVE HaltInv'
  <2>1. /\ halt' = halt /\ halt_q' = Shift(halt_q, halt) /\ core_m' = risk_order
        /\ risk_order' = (IF out_valid(o) THEN o.qty ELSE NoOrder)
        /\ halted' = (IF halt /\ halted < HaltDelay THEN halted + 1 ELSE halted)
    BY <1>1 DEF CoreEdge
  <2>2. halt_q' \in [1 .. STAGES -> BOOLEAN]
    BY <2>1 DEF Shift, HaltInv
  <2>3. halted' \in Nat /\ (halted' > 0 => halt')
    BY <2>1 DEF HaltInv, HaltDelay
  <2>4. \A i \in 1 .. STAGES : halted' >= i => halt_q'[i]
    BY <2>1 DEF HaltInv, Shift, HaltDelay
  <2>5. halted' >= STAGES + 1 => risk_order' = NoOrder
    BY <2>1, HaltBlocks DEF HaltInv, HaltDelay, halt_core
  <2>6. halted' >= STAGES + 2 => core_m' = NoOrder
    BY <2>1 DEF HaltInv, HaltStops, HaltDelay
  <2> QED
    BY <2>1, <2>2, <2>3, <2>4, <2>5, <2>6 DEF HaltInv, HaltStops
<1>2. ASSUME NEW pop \in BOOLEAN, NEW see \in BOOLEAN, HostEdge(pop, see) PROVE HaltInv'
  BY <1>2 DEF HostEdge, coreVars, HaltInv, HaltStops
<1>3. CASE Halt
  BY <1>3 DEF Halt, HaltInv, HaltStops
<1>4. CASE Reset
  BY <1>4 DEF Reset, All, HALT_INIT, HaltInv, HaltStops
<1>5. CASE CoreUp \/ HostUp
  BY <1>5 DEF CoreUp, HostUp, coreVars, HaltInv, HaltStops
<1>6. CASE UNCHANGED vars
  BY <1>6 DEF vars, coreVars, HaltInv, HaltStops
<1> QED
  BY <1>1, <1>2, <1>3, <1>4, <1>5, <1>6 DEF Next

\* Whatever the depth of the synchronizers and the limits, the core's output is silent
\* HaltDelay edges of clk_core after the kill switch is thrown.
THEOREM KillSwitch == Spec => []HaltStops
<1>1. HaltInv => HaltStops
  BY DEF HaltInv
<1> QED
  BY <1>1, HaltInit, HaltStep, PTL DEF Spec
-----------------------------------------------------------------------------
(* Proof of ImplementsGate.  An edge of clk_core moves the beats along and *)
(* may lose one of them, then adds an order or a rejection at the end: that *)
(* is what Kept and Append are in GateSpec.                                *)

TypeInv ==
  /\ position \in -MAX_POSITION .. MAX_POSITION
  /\ risk_order \in Quantity \cup {NoOrder} /\ core_m \in Quantity \cup {NoOrder}
  /\ egress \in Seq(Quantity)
  /\ risk_reject_core \in Reason \cup {NoEvent} /\ evt \in Reason \cup {NoEvent}
  /\ decision_overflow_core \in BOOLEAN /\ risk_evt_overflow_core \in BOOLEAN

\* The rejections under way, oldest first.
SomeEvent(e) == IF e = NoEvent THEN <<>> ELSE <<e>>
Rejections == SomeEvent(evt) \o SomeEvent(risk_reject_core)

\* NoOrder is not mistaken for a quantity.
LEMMA QuantityIsInt == Quantity \subseteq Int /\ NoOrder \notin Quantity
<1>1. ASSUME NEW q \in Quantity PROVE q \in Int
  <2>1. CASE q \in Size
    BY <2>1, RiskAssumption
  <2>2. CASE \E n \in Size : q = -n
    BY <2>2, RiskAssumption
  <2> QED
    BY <2>1, <2>2 DEF Quantity
<1> QED
  BY <1>1, RiskAssumption

\* An order that passes keeps the position within the limit.
LEMMA PassedFits ==
  ASSUME NEW o \in Proposal, position \in -MAX_POSITION .. MAX_POSITION, out_valid(o)
  PROVE  o.qty \in Quantity /\ position + o.qty \in -MAX_POSITION .. MAX_POSITION
<1>1. o.qty \in Quantity /\ o.qty \in Int /\ position + o.qty \in Int
  <2>1. o.qty \in Quantity
    BY DEF Proposal
  <2>2. o.qty \in Int
    BY <2>1, QuantityIsInt
  <2>3. position \in Int
    BY RiskAssumption
  <2> QED
    BY <2>1, <2>2, <2>3
<1>2. ok_position(o)
  BY DEF out_valid, blocked
<1> QED
  BY <1>1, <1>2, RiskAssumption DEF ok_position, AbsOf

\* An edge of clk_core keeps the types.
LEMMA TypeStep ==
  ASSUME TypeInv, NEW o \in Proposal \cup {NoOrder}, NEW tready \in BOOLEAN,
         NEW eready \in BOOLEAN, CoreEdge(o, tready, eready)
  PROVE  TypeInv'
<1>1. position' \in -MAX_POSITION .. MAX_POSITION /\ risk_order' \in Quantity \cup {NoOrder}
  <2>1. CASE out_valid(o)
    BY <2>1, PassedFits DEF CoreEdge, TypeInv, out_valid
  <2>2. CASE ~out_valid(o)
    BY <2>2 DEF CoreEdge, TypeInv
  <2> QED
    BY <2>1, <2>2
<1>2. core_m' \in Quantity \cup {NoOrder} /\ egress' \in Seq(Quantity)
  BY DEF CoreEdge, TypeInv
<1>3. risk_reject_core' \in Reason \cup {NoEvent} /\ evt' \in Reason \cup {NoEvent}
  BY DEF CoreEdge, TypeInv, reject_reason, Reason, posted
<1>4. decision_overflow_core' \in BOOLEAN /\ risk_evt_overflow_core' \in BOOLEAN
  BY DEF CoreEdge, TypeInv, lost
<1> QED
  BY <1>1, <1>2, <1>3, <1>4 DEF TypeInv
-----------------------------------------------------------------------------
(* Two facts about sequences.                                              *)

LEMMA RemoveAtDef ==
  \A s, i : Gate!RemoveAt(s, i) = SubSeq(s, 1, i - 1) \o SubSeq(s, i + 1, Len(s))
BY DEF Gate!RemoveAt

\* Taking out the element between two sequences leaves the two.
LEMMA RemoveMiddle ==
  ASSUME NEW S, NEW s \in Seq(S), NEW t \in Seq(S), NEW e \in S
  PROVE  /\ Len(s) + 1 \in DOMAIN ((s \o <<e>>) \o t)
         /\ Gate!RemoveAt((s \o <<e>>) \o t, Len(s) + 1) = s \o t
<1> DEFINE u == (s \o <<e>>) \o t
           n == Len(s)
<1>0. PICK k \in Nat : k = n + 1
  OBVIOUS
<1> DEFINE front == SubSeq(u, 1, k - 1)
           rest == SubSeq(u, k + 1, Len(u))
<1>1. u \in Seq(S) /\ Len(u) = n + 1 + Len(t) /\ n \in Nat /\ Len(t) \in Nat
  OBVIOUS
<1>2. /\ \A i \in 1 .. n : u[i] = s[i]
      /\ \A i \in 1 .. Len(t) : u[n + 1 + i] = t[i]
  OBVIOUS
<1>3. \A i \in 1 .. Len(u) : u[i] \in S
  BY <1>1, ElementOfSeq
<1> HIDE DEF u
<1>4. front = s
  <2>1. /\ front \in Seq(S) /\ Len(front) = n
        /\ \A i \in 1 .. n : front[i] = u[i]
    BY <1>0, <1>1, <1>3
  <2> QED
    BY <1>2, <2>1, SeqEqual
<1>5. rest = t
  <2>1. /\ rest \in Seq(S) /\ Len(rest) = Len(t)
        /\ \A i \in 1 .. Len(t) : rest[i] = u[n + 1 + i]
    BY <1>0, <1>1, <1>3
  <2> QED
    BY <1>2, <2>1, SeqEqual
<1>6. n + 1 \in DOMAIN u
  BY <1>1
<1>7. Gate!RemoveAt(u, k) = front \o rest
  BY RemoveAtDef
<1>8. Gate!RemoveAt(u, n + 1) = s \o t
  BY <1>0, <1>4, <1>5, <1>7
<1> QED
  BY <1>6, <1>8 DEF u

\* A queue that stays, and one that loses its middle.
LEMMA KeptAll == \A q, l : [queue |-> q, lost |-> l] \in Gate!Kept(q, l)
BY DEF Gate!Kept

LEMMA KeptBut ==
  \A q, l : \A i \in DOMAIN q : [queue |-> Gate!RemoveAt(q, i), lost |-> TRUE] \in Gate!Kept(q, l)
BY DEF Gate!Kept
-----------------------------------------------------------------------------
\* Nothing is lost: the orders under way but for the new one are those of before.
LEMMA NothingLost ==
  ASSUME TypeInv, NEW o \in Proposal \cup {NoOrder}, NEW tready \in BOOLEAN,
         NEW eready \in BOOLEAN, CoreEdge(o, tready, eready), ~lost(tready)
  PROVE  UnderWay = egress' \o Some(risk_order)
<1>1. egress \in Seq(Quantity) /\ Some(risk_order) \in Seq(Quantity)
  BY DEF TypeInv, Some
<1>2. CASE core_m = NoOrder
  <2>1. egress' = egress /\ Some(core_m) = <<>>
    BY <1>2 DEF CoreEdge, Some
  <2> QED
    BY <1>1, <2>1, ConcatEmptySeq DEF UnderWay
<1>3. CASE core_m # NoOrder
  <2>1. core_m \in Quantity /\ Some(core_m) = <<core_m>> /\ egress' = Append(egress, core_m)
    BY <1>3 DEF TypeInv, Some, CoreEdge, lost
  <2>2. egress' = egress \o <<core_m>>
    BY <1>1, <2>1, AppendIsConcat
  <2> QED
    BY <2>1, <2>2 DEF UnderWay
<1> QED
  BY <1>2, <1>3

\* The order at the core's output goes into the decision FIFO or is lost: what is under
\* way but for the new order.
LEMMA OrdersKept ==
  ASSUME TypeInv, NEW o \in Proposal \cup {NoOrder}, NEW tready \in BOOLEAN,
         NEW eready \in BOOLEAN, CoreEdge(o, tready, eready)
  PROVE  [queue |-> egress' \o Some(risk_order), lost |-> decision_overflow_core']
           \in Gate!Kept(UnderWay, decision_overflow_core)
<1> DEFINE t == Some(risk_order)
<1>1. /\ egress \in Seq(Quantity) /\ t \in Seq(Quantity)
      /\ decision_overflow_core \in BOOLEAN
  BY DEF TypeInv, Some
<1>2. CASE ~lost(tready)
  <2>1. decision_overflow_core' = decision_overflow_core
    BY <1>1, <1>2 DEF CoreEdge
  <2>2. UnderWay = egress' \o t
    BY <1>2, NothingLost
  <2> QED
    BY <2>1, <2>2, KeptAll
<1>3. CASE lost(tready)
  <2>1. core_m \in Quantity /\ Some(core_m) = <<core_m>>
    BY <1>3 DEF TypeInv, Some, lost
  <2>2. egress' = egress /\ decision_overflow_core' = TRUE
    BY <1>3 DEF CoreEdge, lost
  <2>3. UnderWay = (egress \o <<core_m>>) \o t
    BY <2>1 DEF UnderWay
  <2>4. /\ Len(egress) + 1 \in DOMAIN ((egress \o <<core_m>>) \o t)
        /\ Gate!RemoveAt((egress \o <<core_m>>) \o t, Len(egress) + 1) = egress \o t
    <3>1. egress \in Seq(Quantity) /\ t \in Seq(Quantity) /\ core_m \in Quantity
      BY <1>1, <2>1
    <3> HIDE DEF t
    <3> QED
      BY <3>1, RemoveMiddle, ZenonT(60)
  <2>5. /\ Len(egress) + 1 \in DOMAIN UnderWay
        /\ Gate!RemoveAt(UnderWay, Len(egress) + 1) = egress \o t
    BY <2>3, <2>4, Zenon
  <2> QED
    BY <2>2, <2>5, KeptBut
<1> QED
  BY <1>2, <1>3

\* The same for the rejections: the registered one is posted, or lost.
LEMMA RejectionsKept ==
  ASSUME TypeInv, NEW o \in Proposal \cup {NoOrder}, NEW tready \in BOOLEAN,
         NEW eready \in BOOLEAN, CoreEdge(o, tready, eready)
  PROVE  [queue |-> SomeEvent(evt'), lost |-> risk_evt_overflow_core']
           \in Gate!Kept(Rejections, risk_evt_overflow_core)
<1> DEFINE s == SomeEvent(evt)
<1>1. s \in Seq(Reason) /\ <<>> \in Seq(Reason) /\ risk_evt_overflow_core \in BOOLEAN
  BY DEF TypeInv, SomeEvent
<1>2. CASE risk_reject_core = NoEvent
  <2>1. evt' = evt /\ risk_evt_overflow_core' = risk_evt_overflow_core
    BY <1>1, <1>2 DEF CoreEdge, posted
  <2>2. Rejections = SomeEvent(evt')
    BY <1>1, <1>2, <2>1, ConcatEmptySeq DEF Rejections, SomeEvent
  <2> QED
    BY <2>1, <2>2, KeptAll
<1>3. CASE risk_reject_core # NoEvent /\ eready
  <2>1. /\ evt = NoEvent /\ evt' = risk_reject_core
        /\ risk_evt_overflow_core' = risk_evt_overflow_core
    BY <1>1, <1>3 DEF CoreEdge, posted
  <2>2. risk_reject_core \in Reason /\ <<risk_reject_core>> \in Seq(Reason)
    BY <1>3 DEF TypeInv
  <2>3. Rejections = SomeEvent(evt')
    BY <1>3, <2>1, <2>2, ConcatEmptySeq DEF Rejections, SomeEvent
  <2> QED
    BY <2>1, <2>3, KeptAll
<1>4. CASE risk_reject_core # NoEvent /\ ~eready
  <2>1. evt' = evt /\ risk_evt_overflow_core' = TRUE
    BY <1>4 DEF CoreEdge, posted
  <2>2. risk_reject_core \in Reason
    BY <1>4 DEF TypeInv
  <2>3. Rejections = (s \o <<risk_reject_core>>) \o <<>>
    BY <1>1, <1>4, <2>2, ConcatEmptySeq, ConcatProperties DEF Rejections, SomeEvent
  <2>4. /\ Len(s) + 1 \in DOMAIN ((s \o <<risk_reject_core>>) \o <<>>)
        /\ Gate!RemoveAt((s \o <<risk_reject_core>>) \o <<>>, Len(s) + 1) = s \o <<>>
    <3>1. s \in Seq(Reason) /\ <<>> \in Seq(Reason) /\ risk_reject_core \in Reason
      BY <1>1, <2>2
    <3> HIDE DEF s
    <3> QED
      BY <3>1, RemoveMiddle, ZenonT(60)
  <2>5. s \o <<>> = SomeEvent(evt')
    BY <1>1, <2>1, ConcatEmptySeq
  <2> QED
    BY <2>1, <2>3, <2>4, <2>5, KeptBut, Zenon
<1> QED
  BY <1>2, <1>3, <1>4
-----------------------------------------------------------------------------
\* An edge of clk_core is an order, a rejection, or neither.
LEMMA CoreEdgeMaps ==
  ASSUME TypeInv, NEW o \in Proposal \cup {NoOrder}, NEW tready \in BOOLEAN,
         NEW eready \in BOOLEAN, CoreEdge(o, tready, eready)
  PROVE  Gate!Next
<1> DEFINE kept == [queue |-> egress' \o Some(risk_order), lost |-> decision_overflow_core']
           left == [queue |-> SomeEvent(evt'), lost |-> risk_evt_overflow_core']
<1>1. /\ kept \in Gate!Kept(UnderWay, decision_overflow_core)
      /\ kept.queue = egress' \o Some(risk_order) /\ kept.lost = decision_overflow_core'
      /\ left \in Gate!Kept(Rejections, risk_evt_overflow_core)
      /\ left.queue = SomeEvent(evt') /\ left.lost = risk_evt_overflow_core'
  BY OrdersKept, RejectionsKept
<1> HIDE DEF kept, left
<1>2. TypeInv'
  BY TypeStep
<1>3. /\ UnderWay' = kept.queue \o Some(risk_order')
      /\ Rejections' = left.queue \o SomeEvent(risk_reject_core')
  BY <1>1 DEF UnderWay, Rejections, CoreEdge
<1>4. kept.queue \in Seq(Quantity) /\ left.queue \in Seq(Reason)
  BY <1>1, <1>2 DEF TypeInv, Some, SomeEvent
<1>5. CASE out_valid(o)
  <2>1. /\ o \in Proposal /\ o.qty \in Quantity /\ position' = position + o.qty
        /\ risk_order' = o.qty /\ risk_reject_core' = NoEvent
    BY <1>5, PassedFits DEF CoreEdge, out_valid, reject_valid, TypeInv
  <2>2. UnderWay' = Append(kept.queue, o.qty)
    BY <1>3, <1>4, <2>1, QuantityIsInt, AppendIsConcat DEF Some
  <2>3. Rejections' = left.queue
    BY <1>3, <1>4, <2>1, ConcatEmptySeq DEF SomeEvent
  <2>4. Gate!Order(o.qty)
    BY <1>1, <1>2, <2>1, <2>2, <2>3 DEF Gate!Order, TypeInv, Rejections, SomeEvent
  <2> QED
    BY <2>1, <2>4 DEF Gate!Next
<1>6. CASE reject_valid(o)
  <2>1. /\ risk_reject_core' = reject_reason(o) /\ reject_reason(o) \in Reason
        /\ risk_order' = NoOrder /\ position' = position
    BY <1>6 DEF CoreEdge, out_valid, reject_valid, reject_reason, Reason
  <2>2. Rejections' = Append(left.queue, reject_reason(o))
    BY <1>3, <1>4, <2>1, NoEventAssumption, AppendIsConcat DEF SomeEvent
  <2>3. UnderWay' = kept.queue
    BY <1>3, <1>4, <2>1, ConcatEmptySeq DEF Some
  <2>4. Gate!Reject(reject_reason(o))
    BY <1>1, <2>1, <2>2, <2>3 DEF Gate!Reject, Rejections, SomeEvent
  <2> QED
    BY <2>1, <2>4 DEF Gate!Next
<1>7. CASE ~out_valid(o) /\ ~reject_valid(o)
  <2>1. risk_reject_core' = NoEvent /\ risk_order' = NoOrder /\ position' = position
    BY <1>7 DEF CoreEdge
  <2>2. Rejections' = left.queue /\ UnderWay' = kept.queue
    BY <1>3, <1>4, <2>1, ConcatEmptySeq DEF Some, SomeEvent
  <2>3. Gate!Lose
    BY <1>1, <2>1, <2>2 DEF Gate!Lose, Rejections, SomeEvent
  <2> QED
    BY <2>3 DEF Gate!Next
<1> QED
  BY <1>5, <1>6, <1>7

\* The order that the host takes is the first of those under way.
LEMMA HostTakes ==
  ASSUME TypeInv, NEW see \in BOOLEAN, NEW pop \in BOOLEAN, pop, HostEdge(pop, see)
  PROVE  UnderWay # <<>> /\ UnderWay' = Tail(UnderWay) /\ Head(UnderWay) = Head(egress)
<1> DEFINE t == Some(core_m) \o Some(risk_order)
<1>1. /\ egress \in Seq(Quantity) /\ t \in Seq(Quantity)
      /\ Some(core_m) \in Seq(Quantity) /\ Some(risk_order) \in Seq(Quantity)
  BY DEF TypeInv, Some
<1>2. UnderWay = egress \o t
  BY <1>1, ConcatAssociative DEF UnderWay
<1>3. egress # <<>> /\ egress' = Tail(egress)
  BY DEF HostEdge
<1>4. UnderWay' = Tail(egress) \o t
  <2>1. UnderWay' = (Tail(egress) \o Some(core_m)) \o Some(risk_order)
    BY <1>3 DEF UnderWay, HostEdge, coreVars
  <2>2. Tail(egress) \in Seq(Quantity)
    BY <1>1, <1>3
  <2> QED
    BY <1>1, <2>1, <2>2, ConcatAssociative, SMTT(60)
<1>5. egress \o t # <<>> /\ Tail(egress \o t) = Tail(egress) \o t /\ Head(egress \o t) = Head(egress)
  BY <1>1, <1>3, SMTT(60)
<1> QED
  BY <1>2, <1>4, <1>5

\* An edge of clk_host delivers.
LEMMA HostEdgeMaps ==
  ASSUME TypeInv, NEW pop \in BOOLEAN, NEW see \in BOOLEAN, HostEdge(pop, see)
  PROVE  Gate!Deliver
<1>3. (UnderWay # <<>> /\ UnderWay' = Tail(UnderWay)) \/ UnderWay' = UnderWay
  <2>1. CASE pop
    BY <2>1, HostTakes
  <2>2. CASE ~pop
    BY <2>2 DEF UnderWay, HostEdge, coreVars
  <2> QED
    BY <2>1, <2>2
<1>4. (Rejections # <<>> /\ Rejections' = Tail(Rejections)) \/ Rejections' = Rejections
  <2>1. CASE see
    <3>1. evt \in Reason /\ evt # NoEvent /\ evt' = NoEvent /\ risk_reject_core' = risk_reject_core
      BY <2>1 DEF HostEdge, coreVars, TypeInv
    <3>2. SomeEvent(risk_reject_core) \in Seq(Reason)
      BY DEF TypeInv, SomeEvent
    <3>3. /\ Rejections = <<evt>> \o SomeEvent(risk_reject_core)
          /\ Rejections' = <<>> \o SomeEvent(risk_reject_core)
      BY <3>1 DEF Rejections, SomeEvent
    <3>4. Rejections' = SomeEvent(risk_reject_core)
      BY <3>2, <3>3, ConcatEmptySeq
    <3>5. Rejections # <<>> /\ Tail(Rejections) = SomeEvent(risk_reject_core)
      BY <3>1, <3>2, <3>3
    <3> QED
      BY <3>4, <3>5
  <2>2. CASE ~see
    BY <2>2 DEF Rejections, HostEdge, coreVars
  <2> QED
    BY <2>1, <2>2
<1> QED
  BY <1>3, <1>4 DEF Gate!Deliver, Rejections, SomeEvent, HostEdge, coreVars

\* The way from the strategy to the host implements GateSpec: no order beyond the limit,
\* and nothing lost in silence, doubled or overtaken.
THEOREM GateRefinement == Spec => ImplementsGate
<1>0. 0 \in -MAX_POSITION .. MAX_POSITION /\ <<>> \o <<>> = <<>> /\ <<>> \in Seq(Quantity)
  <2>1. MAX_POSITION \in Nat
    BY RiskAssumption
  <2> QED
    BY <2>1, ConcatEmptySeq
<1>1. Init => TypeInv /\ Gate!Init
  <2> SUFFICES ASSUME Init PROVE TypeInv /\ Gate!Init
    OBVIOUS
  <2>1. TypeInv
    BY <1>0 DEF Init, TypeInv
  <2>2. Gate!Init
    BY <1>0 DEF Init, Gate!Init, UnderWay, Some
  <2> QED
    BY <2>1, <2>2
<1>2. TypeInv /\ [Next]_vars => TypeInv' /\ [Gate!Next]_Gate!vars
  <2> SUFFICES ASSUME TypeInv, [Next]_vars PROVE TypeInv' /\ [Gate!Next]_Gate!vars
    OBVIOUS
  <2>1. ASSUME NEW o \in Proposal \cup {NoOrder}, NEW tready \in BOOLEAN,
               NEW eready \in BOOLEAN, CoreEdge(o, tready, eready)
        PROVE  TypeInv' /\ Gate!Next
    BY <2>1, TypeStep, CoreEdgeMaps
  <2>2. ASSUME NEW pop \in BOOLEAN, NEW see \in BOOLEAN, HostEdge(pop, see)
        PROVE  TypeInv' /\ Gate!Next
    <3>1. TypeInv'
      BY <2>2 DEF HostEdge, coreVars, TypeInv
    <3> QED
      BY <2>2, <3>1, HostEdgeMaps DEF Gate!Next
  <2>3. CASE Reset
    <3>1. TypeInv'
      BY <1>0, <2>3 DEF Reset, TypeInv
    <3>2. Gate!Reset
      BY <1>0, <2>3 DEF Reset, Gate!Reset, UnderWay, Some
    <3> QED
      BY <3>1, <3>2 DEF Gate!Next
  <2>4. CASE Halt \/ CoreUp \/ HostUp \/ UNCHANGED vars
    <3>1. UNCHANGED <<position, egress, core_m, risk_order, decision_overflow_core, evt,
                      risk_reject_core, risk_evt_overflow_core>>
      BY <2>4 DEF Halt, CoreUp, HostUp, vars, coreVars
    <3>2. TypeInv'
      BY <3>1 DEF TypeInv
    <3>3. UNCHANGED Gate!vars
      BY <3>1 DEF Gate!vars, UnderWay
    <3> QED
      BY <3>2, <3>3
  <2> QED
    BY <2>1, <2>2, <2>3, <2>4 DEF Next
<1> QED
  BY <1>1, <1>2, PTL DEF Spec, ImplementsGate, Gate!Spec
-----------------------------------------------------------------------------
(* Proof of HostExposure.  SumUpTo is a recursive function, so that its    *)
(* equations need induction (NatInduct of FiniteSums).                     *)

IsPrefixSum(f, s, n) == f = [i \in 0 .. n |-> IF i = 0 THEN 0 ELSE f[i - 1] + s[i]]

\* The recursive definition defines a function ...
LEMMA PrefixSumExists == \A n \in Nat : \A s : \E f : IsPrefixSum(f, s, n)
<1> DEFINE S == {n \in Nat : \A s : \E f : IsPrefixSum(f, s, n)}
<1>1. 0 \in S
  <2> SUFFICES ASSUME NEW s PROVE \E f : IsPrefixSum(f, s, 0)
    OBVIOUS
  <2> WITNESS [i \in 0 .. 0 |-> 0]
  <2> QED
    BY DEF IsPrefixSum
<1>2. ASSUME NEW n \in S PROVE n + 1 \in S
  <2> SUFFICES ASSUME NEW s PROVE \E f : IsPrefixSum(f, s, n + 1)
    OBVIOUS
  <2>1. PICK f : IsPrefixSum(f, s, n)
    OBVIOUS
  <2> WITNESS [i \in 0 .. n + 1 |-> IF i = n + 1 THEN f[n] + s[n + 1] ELSE f[i]]
  <2> QED
    BY <2>1 DEF IsPrefixSum
<1> QED
  BY <1>1, <1>2, NatInduct

\* ... the same one for every bound.
LEMMA PrefixSumUnique ==
  ASSUME NEW s, NEW k \in Nat, NEW f, NEW g, IsPrefixSum(f, s, k), IsPrefixSum(g, s, k + 1)
  PROVE  f[k] = g[k]
<1> DEFINE A == {i \in Nat : i <= k => f[i] = g[i]}
<1>1. A \in SUBSET Nat /\ 0 \in A
  BY DEF IsPrefixSum
<1>2. \A i \in A : i + 1 \in A
  BY DEF IsPrefixSum
<1>3. A = Nat
  <2> HIDE DEF A
  <2> QED
    BY <1>1, <1>2, NatInduct
<1> QED
  BY <1>3

\* A sum is the sum up to the element before and that element.
LEMMA PrefixSumEquations ==
  ASSUME NEW s
  PROVE  /\ SumUpTo(s, 0) = 0
         /\ \A n \in Nat : SumUpTo(s, n + 1) = SumUpTo(s, n) + s[n + 1]
<1> DEFINE F(k) == CHOOSE f : IsPrefixSum(f, s, k)
<1>1. \A k : SumUpTo(s, k) = F(k)[k]
  BY DEF SumUpTo, IsPrefixSum
<1>2. \A k \in Nat : IsPrefixSum(F(k), s, k)
  BY PrefixSumExists
<1> HIDE DEF F
<1>3. SumUpTo(s, 0) = 0
  BY <1>1, <1>2 DEF IsPrefixSum
<1>4. ASSUME NEW n \in Nat PROVE SumUpTo(s, n + 1) = SumUpTo(s, n) + s[n + 1]
  <2>1. IsPrefixSum(F(n + 1), s, n + 1) /\ IsPrefixSum(F(n), s, n)
    BY <1>2
  <2>2. F(n + 1)[n + 1] = F(n + 1)[n] + s[n + 1]
    BY <2>1 DEF IsPrefixSum
  <2>3. F(n)[n] = F(n + 1)[n]
    BY <2>1, PrefixSumUnique
  <2> QED
    BY <1>1, <2>2, <2>3
<1> QED
  BY <1>3, <1>4

LEMMA PrefixSumInt ==
  ASSUME NEW s \in Seq(Int), NEW n \in 0 .. Len(s)
  PROVE  SumUpTo(s, n) \in Int
<1> DEFINE A == {i \in Nat : i <= Len(s) => SumUpTo(s, i) \in Int}
<1>1. A \in SUBSET Nat /\ 0 \in A
  <2>1. SumUpTo(s, 0) = 0
    BY PrefixSumEquations, Zenon
  <2> QED
    BY <2>1
<1>2. ASSUME NEW i \in A PROVE i + 1 \in A
  <2> SUFFICES ASSUME i + 1 <= Len(s) PROVE SumUpTo(s, i + 1) \in Int
    OBVIOUS
  <2>1. s[i + 1] \in Int /\ SumUpTo(s, i) \in Int
    BY ElementOfSeq
  <2>2. SumUpTo(s, i + 1) = SumUpTo(s, i) + s[i + 1]
    BY PrefixSumEquations
  <2> QED
    BY <2>1, <2>2
<1>3. A = Nat
  <2> HIDE DEF A
  <2> QED
    BY <1>1, <1>2, NatInduct
<1> QED
  BY <1>3

\* Sums of the same elements are the same.
LEMMA PrefixSumSame ==
  ASSUME NEW s, NEW t, NEW n \in Nat, \A i \in 1 .. n : s[i] = t[i]
  PROVE  SumUpTo(s, n) = SumUpTo(t, n)
<1> DEFINE A == {i \in Nat : i <= n => SumUpTo(s, i) = SumUpTo(t, i)}
<1>1. A \in SUBSET Nat /\ 0 \in A
  BY PrefixSumEquations
<1>2. ASSUME NEW i \in A PROVE i + 1 \in A
  BY PrefixSumEquations
<1>3. A = Nat
  <2> HIDE DEF A
  <2> QED
    BY <1>1, <1>2, NatInduct
<1> QED
  BY <1>3

\* A sum without the first element.
LEMMA PrefixSumTail ==
  ASSUME NEW s \in Seq(Int), s # <<>>, NEW n \in 0 .. Len(s) - 1
  PROVE  SumUpTo(Tail(s), n) = SumUpTo(s, n + 1) - Head(s)
<1> DEFINE A == {i \in Nat : i < Len(s) => SumUpTo(Tail(s), i) = SumUpTo(s, i + 1) - Head(s)}
<1>0. Head(s) = s[1] /\ Head(s) \in Int
  OBVIOUS
<1>1. A \in SUBSET Nat /\ 0 \in A
  <2>1. SumUpTo(s, 0 + 1) = 0 + s[0 + 1] /\ SumUpTo(Tail(s), 0) = 0
    BY PrefixSumEquations
  <2> QED
    BY <1>0, <2>1
<1>2. ASSUME NEW i \in A PROVE i + 1 \in A
  <2> SUFFICES ASSUME i + 1 < Len(s)
               PROVE  SumUpTo(Tail(s), i + 1) = SumUpTo(s, (i + 1) + 1) - Head(s)
    OBVIOUS
  <2>1. Tail(s)[i + 1] = s[(i + 1) + 1] /\ s[(i + 1) + 1] \in Int
    BY ElementOfSeq
  <2>2. SumUpTo(s, i + 1) \in Int /\ SumUpTo(Tail(s), i) = SumUpTo(s, i + 1) - Head(s)
    BY PrefixSumInt
  <2>3. SumUpTo(Tail(s), i + 1) = SumUpTo(Tail(s), i) + Tail(s)[i + 1]
    BY PrefixSumEquations
  <2> DEFINE j == i + 1
  <2>4. j \in Nat
    OBVIOUS
  <2> HIDE DEF j
  <2>5. SumUpTo(s, j + 1) = SumUpTo(s, j) + s[j + 1]
    BY <2>4, PrefixSumEquations
  <2>6. ASSUME NEW a \in Int, NEW b \in Int, NEW h \in Int, NEW x, NEW y, NEW z, NEW u,
               u = a - h, x = u + y, y = b, z = a + b
        PROVE  x = z - h
    BY <2>6
  <2> QED
    BY <1>0, <2>1, <2>2, <2>3, <2>5, <2>6, SMTT(60) DEF j
<1>3. A = Nat
  <2> HIDE DEF A
  <2> QED
    BY <1>1, <1>2, NatInduct
<1> QED
  BY <1>3
-----------------------------------------------------------------------------
\* What HostExposure says of the orders q under way, when the host has taken t and the
\* core is at position p.
Covered(q, t, p) ==
  /\ t + SumUpTo(q, Len(q)) = p
  /\ \A n \in 0 .. Len(q) : AbsOf(t + SumUpTo(q, n)) <= MAX_POSITION

\* A new order that keeps the core within the limit keeps the host within it.
LEMMA CoveredAppend ==
  ASSUME NEW q \in Seq(Int), NEW t \in Int, NEW p \in Int, NEW qty \in Int,
         Covered(q, t, p), AbsOf(p + qty) <= MAX_POSITION
  PROVE  Covered(Append(q, qty), t, p + qty)
<1> DEFINE r == Append(q, qty)
<1>1. /\ Len(r) = Len(q) + 1 /\ r[Len(q) + 1] = qty
      /\ \A i \in 1 .. Len(q) : r[i] = q[i]
  OBVIOUS
<1> HIDE DEF r
<1>2. ASSUME NEW n \in 0 .. Len(q) PROVE SumUpTo(r, n) = SumUpTo(q, n)
  <2>1. n \in Nat /\ \A i \in 1 .. n : r[i] = q[i]
    BY <1>1
  <2> QED
    BY <2>1, PrefixSumSame, Zenon
<1>3. SumUpTo(q, Len(q)) \in Int
  BY PrefixSumInt
<1>4. SumUpTo(r, Len(r)) = SumUpTo(q, Len(q)) + qty
  <2>1. SumUpTo(r, Len(q) + 1) = SumUpTo(r, Len(q)) + r[Len(q) + 1]
    BY PrefixSumEquations
  <2> QED
    BY <1>1, <1>2, <2>1
<1>5. t + SumUpTo(r, Len(r)) = p + qty
  <2>1. t + SumUpTo(q, Len(q)) = p
    BY DEF Covered
  <2> DEFINE a == SumUpTo(q, Len(q))
             b == SumUpTo(r, Len(r))
  <2> HIDE DEF a, b
  <2>2. a \in Int /\ b = a + qty /\ t + a = p
    BY <1>3, <1>4, <2>1 DEF a, b
  <2>3. t + b = p + qty
    BY <2>2
  <2> QED
    BY <2>3 DEF b
<1>6. ASSUME NEW n \in 0 .. Len(r) PROVE AbsOf(t + SumUpTo(r, n)) <= MAX_POSITION
  <2>1. CASE n = Len(r)
    BY <1>5, <2>1
  <2>2. CASE n # Len(r)
    <3>1. n \in 0 .. Len(q)
      BY <1>1, <2>2
    <3>2. AbsOf(t + SumUpTo(q, n)) <= MAX_POSITION
      BY <3>1 DEF Covered
    <3> QED
      BY <1>2, <3>1, <3>2
  <2> QED
    BY <2>1, <2>2
<1> QED
  BY <1>5, <1>6 DEF Covered, r

\* An order that the host takes moves from the sum of those under way to its books.
LEMMA CoveredTail ==
  ASSUME NEW q \in Seq(Int), q # <<>>, NEW t \in Int, NEW p \in Int, Covered(q, t, p)
  PROVE  Covered(Tail(q), t + Head(q), p)
<1>1. Head(q) \in Int /\ Len(Tail(q)) = Len(q) - 1 /\ Len(q) \in Nat \ {0}
  OBVIOUS
<1>2. ASSUME NEW n \in 0 .. Len(q) - 1
      PROVE  (t + Head(q)) + SumUpTo(Tail(q), n) = t + SumUpTo(q, n + 1)
  <2>1. SumUpTo(Tail(q), n) = SumUpTo(q, n + 1) - Head(q)
    BY PrefixSumTail
  <2>2. n + 1 \in 0 .. Len(q)
    BY <1>1
  <2>3. SumUpTo(q, n + 1) \in Int
    BY <2>2, PrefixSumInt
  <2> QED
    BY <1>1, <2>1, <2>3, SMTT(60)
<1>3. (t + Head(q)) + SumUpTo(Tail(q), Len(Tail(q))) = p
  BY <1>1, <1>2 DEF Covered
<1>4. ASSUME NEW n \in 0 .. Len(Tail(q))
      PROVE  AbsOf((t + Head(q)) + SumUpTo(Tail(q), n)) <= MAX_POSITION
  <2>1. n \in 0 .. Len(q) - 1 /\ n + 1 \in 0 .. Len(q)
    BY <1>1
  <2>2. AbsOf(t + SumUpTo(q, n + 1)) <= MAX_POSITION
    BY <2>1 DEF Covered
  <2> QED
    BY <1>2, <2>1, <2>2
<1> QED
  BY <1>3, <1>4 DEF Covered

\* The orders under way are quantities.
LEMMA UnderWayInt == ASSUME TypeInv PROVE UnderWay \in Seq(Int) /\ UnderWay \in Seq(Quantity)
<1>1. egress \in Seq(Quantity) /\ Some(core_m) \in Seq(Quantity) /\ Some(risk_order) \in Seq(Quantity)
  BY DEF TypeInv, Some
<1>2. UnderWay \in Seq(Quantity)
  BY <1>1 DEF UnderWay
<1> QED
  BY <1>2, QuantityIsInt, SeqMonotonic

ExposureInv == TypeInv /\ told \in Int /\ HostExposure

LEMMA ExposureInit == Init => ExposureInv
<1> SUFFICES ASSUME Init PROVE ExposureInv
  OBVIOUS
<1>1. 0 \in -MAX_POSITION .. MAX_POSITION /\ <<>> \in Seq(Quantity)
  <2>1. MAX_POSITION \in Nat
    BY RiskAssumption
  <2> QED
    BY <2>1
<1>2. UnderWay = <<>>
  BY ConcatEmptySeq DEF Init, UnderWay, Some
<1>3. HostExposure
  BY <1>2, PrefixSumEquations, RiskAssumption DEF Init, HostExposure, AbsOf
<1> QED
  <2>1. TypeInv
    BY <1>1 DEF Init, TypeInv
  <2>2. told \in Int
    BY DEF Init
  <2> QED
    BY <1>3, <2>1, <2>2 DEF ExposureInv

LEMMA ExposureStep == ExposureInv /\ [Next]_vars => ExposureInv'
<1> SUFFICES ASSUME ExposureInv, [Next]_vars PROVE ExposureInv'
  OBVIOUS
<1>0. /\ UnderWay \in Seq(Int) /\ UnderWay \in Seq(Quantity) /\ told \in Int /\ TypeInv
      /\ position \in Int /\ decision_overflow_core \in BOOLEAN
      /\ ~decision_overflow_core => Covered(UnderWay, told, position)
  BY UnderWayInt, RiskAssumption DEF ExposureInv, HostExposure, Covered, TypeInv
<1>1. ASSUME NEW o \in Proposal \cup {NoOrder}, NEW tready \in BOOLEAN, NEW eready \in BOOLEAN,
             CoreEdge(o, tready, eready)
      PROVE  ExposureInv'
  <2>1. TypeInv' /\ told' = told
    BY <1>0, <1>1, TypeStep DEF CoreEdge, hostVars
  <2>2. SUFFICES ASSUME ~decision_overflow_core' PROVE Covered(UnderWay', told', position')
    BY <1>0, <2>1 DEF ExposureInv, HostExposure, Covered
  <2>3. ~decision_overflow_core /\ ~lost(tready)
    BY <1>0, <1>1, <2>2 DEF CoreEdge, lost
  <2>4. UnderWay = egress' \o Some(risk_order)
    BY <1>0, <1>1, <2>3, NothingLost
  <2>5. UnderWay' = UnderWay \o Some(risk_order')
    BY <1>1, <2>4 DEF UnderWay, CoreEdge
  <2>6. CASE out_valid(o)
    <3>1. /\ o \in Proposal /\ o.qty \in Quantity /\ position' = position + o.qty
          /\ risk_order' = o.qty
      BY <1>0, <1>1, <2>6, PassedFits DEF CoreEdge, out_valid, TypeInv
    <3>2. o.qty \in Int /\ AbsOf(position + o.qty) <= MAX_POSITION
      BY <2>6, <3>1, QuantityIsInt DEF out_valid, blocked, ok_position
    <3>3. UnderWay' = Append(UnderWay, o.qty)
      BY <1>0, <2>5, <3>1, QuantityIsInt, AppendIsConcat DEF Some
    <3> QED
      BY <1>0, <2>1, <2>3, <3>1, <3>2, <3>3, CoveredAppend
  <2>7. CASE ~out_valid(o)
    <3>1. position' = position /\ risk_order' = NoOrder
      BY <1>1, <2>7 DEF CoreEdge
    <3>2. UnderWay' = UnderWay
      BY <1>0, <2>5, <3>1, ConcatEmptySeq DEF Some
    <3> QED
      BY <1>0, <2>1, <2>3, <3>1, <3>2
  <2> QED
    BY <2>6, <2>7
<1>2. ASSUME NEW pop \in BOOLEAN, NEW see \in BOOLEAN, HostEdge(pop, see) PROVE ExposureInv'
  <2>1. TypeInv' /\ position' = position /\ decision_overflow_core' = decision_overflow_core
    BY <1>0, <1>2 DEF HostEdge, coreVars, TypeInv
  <2>2. CASE decision_overflow_core
    BY <1>2, <2>1, <2>2 DEF HostEdge, ExposureInv, HostExposure
  <2>3. CASE ~decision_overflow_core /\ pop
    <3>1. UnderWay # <<>> /\ UnderWay' = Tail(UnderWay) /\ Head(UnderWay) = Head(egress)
      BY <1>0, <1>2, <2>3, HostTakes
    <3>2. told' = told + Head(UnderWay) /\ told' \in Int
      BY <1>0, <1>2, <2>3, <3>1 DEF HostEdge
    <3>3. Covered(UnderWay', told', position')
      BY <1>0, <2>1, <2>3, <3>1, <3>2, CoveredTail
    <3> QED
      BY <2>1, <3>2, <3>3 DEF ExposureInv, HostExposure, Covered
  <2>4. CASE ~decision_overflow_core /\ ~pop
    <3>1. UnderWay' = UnderWay /\ told' = told
      BY <1>2, <2>4 DEF HostEdge, coreVars, UnderWay
    <3> QED
      BY <1>0, <2>1, <3>1 DEF ExposureInv, HostExposure, Covered
  <2> QED
    BY <2>2, <2>3, <2>4
<1>3. CASE Reset
  <2>1. 0 \in -MAX_POSITION .. MAX_POSITION /\ <<>> \in Seq(Quantity)
    <3>1. MAX_POSITION \in Nat
      BY RiskAssumption
    <3> QED
      BY <3>1
  <2>2. TypeInv' /\ told' = 0 /\ position' = 0
    BY <1>3, <2>1 DEF Reset, TypeInv
  <2>3. UnderWay' = <<>>
    BY <1>3, ConcatEmptySeq DEF Reset, UnderWay, Some
  <2>4. HostExposure'
    BY <2>2, <2>3, PrefixSumEquations, RiskAssumption DEF HostExposure, AbsOf
  <2> QED
    BY <2>2, <2>4 DEF ExposureInv
<1>4. CASE Halt \/ CoreUp \/ HostUp \/ UNCHANGED vars
  <2>1. UNCHANGED <<position, egress, core_m, risk_order, decision_overflow_core, evt, told,
                    risk_reject_core, risk_evt_overflow_core>>
    BY <1>4 DEF Halt, CoreUp, HostUp, vars, coreVars, hostVars
  <2> QED
    BY <2>1 DEF ExposureInv, TypeInv, HostExposure, UnderWay
<1> QED
  BY <1>1, <1>2, <1>3, <1>4 DEF Next

\* The host's own books never go beyond the limit of the core, whatever the depth of the
\* FIFO and whichever orders are under way.
THEOREM HostBooks == Spec => []HostExposure
<1>1. ExposureInv => HostExposure
  BY DEF ExposureInv
<1> QED
  BY <1>1, ExposureInit, ExposureStep, PTL DEF Spec
=============================================================================
