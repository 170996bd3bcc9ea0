------------------------------ MODULE RiskPath ------------------------------
(***************************************************************************)
(* The way from a strategy's decision to the host: risk_check.sv, the two  *)
(* output registers of tick_to_trade_top.sv, and the egress half of        *)
(* tick_to_trade_mc_top.sv (decision FIFO, risk-event handshake, halt      *)
(* synchronizer, sticky overflow flags).                                   *)
(*                                                                         *)
(* The two crossings are what AsyncFifo and HandshakeMcp were shown to     *)
(* implement, FifoSpec and MailboxSpec: a FIFO may say it is full, and a   *)
(* mailbox that it is not ready, long after the other side made room, so   *)
(* the two ready signals are free as long as they are never high without   *)
(* room.  A single bit sampled across clocks is caught before or after its *)
(* change, so edges of the two clocks interleave.                          *)
(*                                                                         *)
(* An order is its signed quantity: BUY adds, SELL subtracts.              *)
(***************************************************************************)
EXTENDS Integers, Sequences

CONSTANTS
  Size,              \* the sizes of proposed orders
  Dev,               \* the distances of their prices from the reference price
  MAX_ORDER_SIZE, MAX_POSITION, MAX_PRICE_BAND,
  OUT_DEPTH,         \* capacity of the decision FIFO
  STAGES,            \* depth of the bit synchronizers
  NoOrder, NoEvent

ASSUME RiskAssumption ==
  /\ Size \subseteq Nat \ {0} /\ Dev \subseteq Nat
  /\ MAX_ORDER_SIZE \in Nat /\ MAX_POSITION \in Nat /\ MAX_PRICE_BAND \in Nat
  /\ OUT_DEPTH \in Nat \ {0} /\ STAGES \in Nat \ {0}
  /\ NoOrder \notin Int

Quantity == Size \cup {-s : s \in Size}
Proposal == [qty : Quantity, dev : Dev]
Reason   == {"HALT", "SIZE", "PRICE", "POSITION"}

ASSUME NoEventAssumption == NoEvent \notin Reason

VARIABLES
  halt,                            \* the host's kill switch
  halt_q,                          \* its synchronizer in the core
  position,                        \* the core's running net position
  risk_order, risk_reject_core,    \* registered outputs of the risk check
  core_m,                          \* the beat at the core's output
  egress,                          \* the decision FIFO
  decision_overflow_core, risk_evt_overflow_core,   \* sticky
  evt,                             \* the risk-event mailbox
  dec_ovf_q, evt_ovf_q,            \* the flags' synchronizers in the host
  core_up, host_up,                \* the domain has left reset
  halted, told                     \* history: see below

coreVars == <<halt_q, position, risk_order, risk_reject_core, core_m,
              decision_overflow_core, risk_evt_overflow_core, halted>>
hostVars == <<dec_ovf_q, evt_ovf_q, told>>
vars     == <<halt, coreVars, hostVars, egress, evt, core_up, host_up>>

All(b) == [i \in 1 .. STAGES |-> b]
\* (mutant) the later stages are not connected
Shift_Stuck(chain, b) == [chain EXCEPT ![1] = b]
Shift(chain, b) == [i \in 1 .. STAGES |-> IF i = 1 THEN b ELSE chain[i - 1]]

halt_core         == halt_q[STAGES]
decision_overflow == dec_ovf_q[STAGES]
risk_evt_overflow == evt_ovf_q[STAGES]

\* (mutant) the synchronizer of the kill switch resets to "not halted"
HALT_INIT_Low == FALSE
HALT_INIT == TRUE
-----------------------------------------------------------------------------
(* risk_check.                                                             *)

AbsOf(n) == IF n < 0 THEN -n ELSE n

ok_position(o) == AbsOf(position + o.qty) <= MAX_POSITION

blocked(o) ==
  (IF halt_core THEN {"HALT"} ELSE {})
    \cup (IF AbsOf(o.qty) > MAX_ORDER_SIZE THEN {"SIZE"} ELSE {})
    \cup (IF o.dev > MAX_PRICE_BAND THEN {"PRICE"} ELSE {})
    \cup (IF ok_position(o) THEN {} ELSE {"POSITION"})

\* The first reason that applies.
reject_reason(o) ==
  CASE "HALT"  \in blocked(o) -> "HALT"
    [] "SIZE"  \in blocked(o) -> "SIZE"
    [] "PRICE" \in blocked(o) -> "PRICE"
    [] OTHER -> "POSITION"

out_valid(o)    == o # NoOrder /\ blocked(o) = {}
reject_valid(o) == o # NoOrder /\ blocked(o) # {}
-----------------------------------------------------------------------------
Init ==
  /\ halt \in BOOLEAN /\ halt_q = All(HALT_INIT) /\ position = 0
  /\ risk_order = NoOrder /\ risk_reject_core = NoEvent /\ core_m = NoOrder
  /\ egress = <<>> /\ decision_overflow_core = FALSE
  /\ evt = NoEvent /\ risk_evt_overflow_core = FALSE
  /\ dec_ovf_q = All(FALSE) /\ evt_ovf_q = All(FALSE)
  /\ core_up = FALSE /\ host_up = FALSE
  /\ halted = 0 /\ told = 0

\* How long the kill switch takes to stop the beats at the core's output: the
\* synchronizer and the two output registers.
HaltDelay == STAGES + 2

\* (mutant) the flag looks at the register before the output
lost_Early(ready) == risk_order # NoOrder /\ ~ready
\* The beat at the output meets a FIFO that is not ready: the core does not wait.
lost(ready) == core_m # NoOrder /\ ~ready

\* (mutant) the mailbox is overwritten although it is not ready
posted_Always(ready) == risk_reject_core # NoEvent
\* A rejection is posted if the mailbox is ready, else dropped.
posted(ready) == risk_reject_core # NoEvent /\ ready

\* An edge of clk_core with the proposal o (or NoOrder), and the ready signals of
\* the decision FIFO and of the event mailbox.
CoreEdge(o, core_m_tready, risk_evt_ready) ==
  /\ core_up
  /\ core_m_tready => Len(egress) < OUT_DEPTH
  /\ risk_evt_ready => evt = NoEvent
  /\ halt_q' = Shift(halt_q, halt)
  /\ position' = IF out_valid(o) THEN position + o.qty ELSE position
  /\ risk_order' = IF out_valid(o) THEN o.qty ELSE NoOrder
  /\ risk_reject_core' = IF reject_valid(o) THEN reject_reason(o) ELSE NoEvent
  /\ core_m' = risk_order
  /\ egress' = IF core_m # NoOrder /\ core_m_tready THEN Append(egress, core_m) ELSE egress
  /\ decision_overflow_core' = (decision_overflow_core \/ lost(core_m_tready))
  /\ evt' = IF posted(risk_evt_ready) THEN risk_reject_core ELSE evt
  /\ risk_evt_overflow_core' =
       (risk_evt_overflow_core \/ (risk_reject_core # NoEvent /\ ~risk_evt_ready))
  /\ halted' = IF halt /\ halted < HaltDelay THEN halted + 1 ELSE halted
  /\ UNCHANGED <<halt, hostVars, core_up, host_up>>

\* An edge of clk_host that may take an order and may see the event.
HostEdge(pop, see) ==
  /\ host_up
  /\ pop => egress # <<>>
  /\ see => evt # NoEvent
  /\ egress' = IF pop THEN Tail(egress) ELSE egress
  /\ told' = IF decision_overflow_core THEN 0
             ELSE IF pop THEN told + Head(egress) ELSE told
  /\ evt' = IF see THEN NoEvent ELSE evt
  /\ dec_ovf_q' = Shift(dec_ovf_q, decision_overflow_core)
  /\ evt_ovf_q' = Shift(evt_ovf_q, risk_evt_overflow_core)
  /\ UNCHANGED <<halt, coreVars, core_up, host_up>>

\* The host throws the kill switch, or takes it back.
Halt ==
  /\ halt' = ~halt /\ halted' = 0
  /\ UNCHANGED <<halt_q, position, risk_order, risk_reject_core, core_m,
                 decision_overflow_core, risk_evt_overflow_core,
                 hostVars, egress, evt, core_up, host_up>>

\* Both domains are reset together and leave reset one by one.
Reset ==
  /\ halt_q' = All(HALT_INIT) /\ position' = 0
  /\ risk_order' = NoOrder /\ risk_reject_core' = NoEvent /\ core_m' = NoOrder
  /\ egress' = <<>> /\ decision_overflow_core' = FALSE
  /\ evt' = NoEvent /\ risk_evt_overflow_core' = FALSE
  /\ dec_ovf_q' = All(FALSE) /\ evt_ovf_q' = All(FALSE)
  /\ core_up' = FALSE /\ host_up' = FALSE
  /\ told' = 0
  /\ UNCHANGED <<halt, halted>>

CoreUp == ~core_up /\ core_up' = TRUE /\ UNCHANGED <<halt, coreVars, hostVars, egress, evt, host_up>>
HostUp == ~host_up /\ host_up' = TRUE /\ UNCHANGED <<halt, coreVars, hostVars, egress, evt, core_up>>

Next ==
  \/ \E o \in Proposal \cup {NoOrder}, tready, eready \in BOOLEAN : CoreEdge(o, tready, eready)
  \/ \E pop, see \in BOOLEAN : HostEdge(pop, see)
  \/ Halt \/ Reset \/ CoreUp \/ HostUp

Spec == Init /\ [][Next]_vars

\* The clock of the host runs and its reset is released.
Fairness ==
  /\ WF_host_up(HostUp)
  /\ WF_<<dec_ovf_q, evt_ovf_q>>(\E pop, see \in BOOLEAN : HostEdge(pop, see))

FairSpec == Spec /\ Fairness
-----------------------------------------------------------------------------
(* History: halted counts the edges of clk_core since the kill switch was  *)
(* thrown, up to HaltDelay; told is the sum of the orders the host took    *)
(* since reset, and is forgotten once an order is lost.                    *)

\* The orders under way to the host, oldest first.
Some(o) == IF o = NoOrder THEN <<>> ELSE <<o>>
UnderWay == egress \o Some(core_m) \o Some(risk_order)

SumUpTo(s, n) == LET sum[i \in 0 .. n] == IF i = 0 THEN 0 ELSE sum[i - 1] + s[i] IN sum[n]

\* Types.
TypeOK ==
  /\ halt \in BOOLEAN /\ halt_q \in [1 .. STAGES -> BOOLEAN]
  /\ position \in -MAX_POSITION .. MAX_POSITION
  /\ risk_order \in Quantity \cup {NoOrder} /\ core_m \in Quantity \cup {NoOrder}
  /\ egress \in Seq(Quantity) /\ Len(egress) <= OUT_DEPTH
  /\ risk_reject_core \in Reason \cup {NoEvent} /\ evt \in Reason \cup {NoEvent}
  /\ decision_overflow_core \in BOOLEAN /\ risk_evt_overflow_core \in BOOLEAN
  /\ dec_ovf_q \in [1 .. STAGES -> BOOLEAN] /\ evt_ovf_q \in [1 .. STAGES -> BOOLEAN]
  /\ core_up \in BOOLEAN /\ host_up \in BOOLEAN
  /\ halted \in 0 .. HaltDelay /\ told \in Int

\* The host's own books: as long as the core has not flagged a lost order, the
\* orders the host took and those still under way add up to the core's position,
\* and taking them one by one never carries the host beyond the limit.
HostExposure ==
  ~decision_overflow_core =>
    /\ told + SumUpTo(UnderWay, Len(UnderWay)) = position
    /\ \A n \in 0 .. Len(UnderWay) : AbsOf(told + SumUpTo(UnderWay, n)) <= MAX_POSITION

\* The kill switch: HaltDelay core cycles after the host throws it, no order is
\* left between the risk check and the decision FIFO, also when a reset comes
\* in between.
HaltStops ==
  /\ halted >= STAGES + 1 => risk_order = NoOrder
  /\ halted >= STAGES + 2 => core_m = NoOrder

\* Nothing is lost in silence: orders and rejections reach the host once each and
\* in order, or the sticky flag of their path is up from that moment on.
Gate == INSTANCE GateSpec
  WITH orders <- UnderWay, order_lost <- decision_overflow_core,
       rejections <- (IF evt = NoEvent THEN <<>> ELSE <<evt>>)
                       \o (IF risk_reject_core = NoEvent THEN <<>> ELSE <<risk_reject_core>>),
       rejection_lost <- risk_evt_overflow_core

ImplementsGate == Gate!Spec

\* The host sees either flag go up, unless a reset takes it back.
LossIsTold ==
  /\ decision_overflow_core ~> (decision_overflow \/ ~decision_overflow_core)
  /\ risk_evt_overflow_core ~> (risk_evt_overflow \/ ~risk_evt_overflow_core)
=============================================================================
