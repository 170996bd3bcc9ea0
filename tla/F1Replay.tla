------------------------------- MODULE F1Replay -------------------------------
(***************************************************************************)
(* The pipeline on the F1 card: the host (f1/host_replay.py, run_device)   *)
(* pushes the bytes and reads everything back over one AXI-Lite bus,       *)
(* f1/cl_tick_to_trade_core.sv has the ingress FIFO, the capture of the    *)
(* decisions and the bridge to the registers of rtl/latency_counter.sv.    *)
(* The parser is ItchParser's; book, strategy and risk check are           *)
(* environment: they accept a message at any edge, and any edge after the  *)
(* first message may register a decision.                                  *)
(*                                                                         *)
(* via says how a behaviour drives the parser: "axis" straight, "ocl" over *)
(* the bus.  The address of a transaction is <<register, index>>; master   *)
(* and bridge hold it until the response, so bus.addr also stands for the  *)
(* registers that latch it.                                                *)
(***************************************************************************)
EXTENDS ItchParser

CONSTANTS
  OclTypes,       \* bound: the types of the messages the host sends
  IF_DEPTH, DEC_CAP, HIST_BUCKETS,
  MaxDecisions    \* bound: the decisions of the core

ASSUME F1Assumption ==
  /\ OclTypes \subseteq MsgType
  /\ IF_DEPTH \in Nat /\ DEC_CAP \in Nat /\ HIST_BUCKETS \in Nat \ {0}

VARIABLES
  via,
  host,  \* run_device: pc, message k of type t with the next byte p, the count it read,
         \* the decisions and the buckets it has read
  bus,   \* the master's side: op, addr, data; ar: the read address is still offered
  cl,    \* the registers of cl_tick_to_trade_core
  lat,   \* the registers of latency_counter; age stands for free_cnt - t0
  core   \* risk_valid of the core, and how many decisions there were

f1_vars == <<via, host, bus, cl, lat, core>>

Buckets == 0 .. HIST_BUCKETS - 1
NoHist == [b \in Buckets |-> 0]

F1Init ==
  /\ ParserInit
  /\ via \in {"axis", "ocl"}
  /\ host = [pc |-> "clear", k |-> 1, t |-> "none", p |-> 1, count |-> 0,
             decisions |-> <<>>, hist |-> <<>>]
  /\ bus = [op |-> "none", addr |-> <<"none", 0>>, data |-> <<>>, ar |-> FALSE]
  /\ cl = [fifo |-> <<>>, if_push |-> FALSE, wst |-> "idle", c_awvalid |-> FALSE,
           c_wvalid |-> FALSE, rst_r |-> "idle", c_arvalid |-> FALSE, rdata |-> 0,
           m_axis |-> 0, dec |-> <<>>, dec_overflow |-> FALSE]
  /\ lat = [measuring |-> FALSE, age |-> 0, meas_valid_q |-> FALSE, delta_q |-> 0,
            hist |-> NoHist, last |-> 0, aw_active |-> FALSE, bvalid |-> FALSE,
            do_clear |-> FALSE, ar_active |-> FALSE, rvalid |-> FALSE, rdata |-> 0]
  /\ core = [risk_valid |-> FALSE, emitted |-> 0]
-----------------------------------------------------------------------------
(* The latency counter.                                                    *)

\* delta of more cycles than there are buckets counts in the last one; age is not
\* kept beyond that.
bucket(delta) == IF delta >= HIST_BUCKETS THEN HIST_BUCKETS - 1 ELSE delta

\* (mutant) the decision does not end the measurement
measuring_nxt_Kept(msg_start) == lat.measuring \/ msg_start

\* A decision ends the measurement, also when a message starts in the same cycle.
measuring_nxt(msg_start) == (lat.measuring \/ msg_start) /\ ~core.risk_valid

awready == ~lat.aw_active /\ ~lat.bvalid
wready  == lat.aw_active /\ ~lat.bvalid
aw == cl.c_awvalid /\ awready
w  == cl.c_wvalid /\ wready
arready == ~lat.ar_active /\ ~lat.rvalid
present == lat.ar_active /\ ~lat.rvalid

hist_nxt ==
  IF lat.do_clear THEN NoHist
  ELSE IF lat.meas_valid_q THEN [lat.hist EXCEPT ![bucket(lat.delta_q)] = @ + 1]
  ELSE lat.hist

Latency(msg_start) ==
  lat' =
    [measuring    |-> measuring_nxt(msg_start),
     age          |-> IF msg_start THEN 1 ELSE Min({lat.age + 1, HIST_BUCKETS}),
     meas_valid_q |-> core.risk_valid /\ lat.measuring /\ ~lat.do_clear,
     delta_q      |-> lat.age,
     hist         |-> hist_nxt,
     last         |-> IF lat.do_clear THEN 0 ELSE IF lat.meas_valid_q THEN lat.delta_q ELSE lat.last,
     \* write channel: address first, then data; only the clear register is written
     aw_active    |-> (lat.aw_active \/ aw) /\ ~w,
     bvalid       |-> w \/ (lat.bvalid /\ cl.wst # "fwd"),
     do_clear     |-> w /\ bus.addr[1] = "clear",
     \* read channel: the data one cycle after the address
     ar_active    |-> (lat.ar_active \/ (cl.c_arvalid /\ arready)) /\ ~present,
     rvalid       |-> present \/ (lat.rvalid /\ cl.rst_r # "fwd"),
     rdata        |-> IF ~present THEN lat.rdata
                      ELSE IF bus.addr[1] = "hist" THEN lat.hist[bus.addr[2]] ELSE lat.last]
-----------------------------------------------------------------------------
(* The bridge.                                                             *)

is_low(addr) == addr[1] \in {"hist", "last", "clear"}

if_full == Len(cl.fifo) = IF_DEPTH

\* ififo: the byte of the last push goes in if there is room, the parser's goes out.
ififo(pop) ==
  LET rest == IF pop THEN Tail(cl.fifo) ELSE cl.fifo
  IN  IF cl.if_push /\ ~if_full THEN Append(rest, bus.data) ELSE rest

\* (mutant) the decisions are not at the address where the host reads them, but where
\* the header comment says (0x300): the bridge answers 0xDEAD_BEEF
local_read_Base300(addr) ==
  CASE addr[1] = "status" -> IF if_full THEN 1 ELSE 0
    [] addr[1] = "count"  -> Len(cl.dec)
    [] addr[1] = "dec"    -> -1

\* The registers of the bridge itself.
local_read(addr) ==
  CASE addr[1] = "status" -> IF if_full THEN 1 ELSE 0
    [] addr[1] = "count"  -> Len(cl.dec)
    [] addr[1] = "dec"    -> cl.dec[addr[2]]

write_start == cl.wst = "idle" /\ bus.op = "write"
read_start  == cl.rst_r = "idle" /\ bus.ar

wst_nxt ==
  CASE cl.wst = "idle" -> IF ~write_start THEN "idle" ELSE IF is_low(bus.addr) THEN "fwd" ELSE "resp"
    [] cl.wst = "fwd"  -> IF lat.bvalid THEN "resp" ELSE "fwd"
    [] cl.wst = "resp" -> "idle"

rst_r_nxt ==
  CASE cl.rst_r = "idle" -> IF ~read_start THEN "idle" ELSE IF is_low(bus.addr) THEN "fwd" ELSE "resp"
    [] cl.rst_r = "fwd"  -> IF lat.rvalid THEN "resp" ELSE "fwd"
    [] cl.rst_r = "resp" -> "idle"

rdata_nxt ==
  IF read_start /\ ~is_low(bus.addr) THEN local_read(bus.addr)
  ELSE IF cl.rst_r = "fwd" /\ lat.rvalid THEN lat.rdata ELSE cl.rdata

\* m_axis is the decision one cycle later; it is captured if there is room.
Bridge(pop) ==
  LET captures == cl.m_axis # 0 /\ Len(cl.dec) < DEC_CAP
  IN  cl' =
        [fifo      |-> ififo(pop),
         if_push   |-> write_start /\ bus.addr[1] = "push",
         wst       |-> wst_nxt,
         c_awvalid |-> (cl.c_awvalid /\ ~aw) \/ (write_start /\ is_low(bus.addr)),
         c_wvalid  |-> (cl.c_wvalid /\ ~w) \/ (write_start /\ is_low(bus.addr)),
         rst_r     |-> rst_r_nxt,
         c_arvalid |-> (cl.c_arvalid /\ ~arready) \/ (read_start /\ is_low(bus.addr)),
         rdata     |-> rdata_nxt,
         m_axis    |-> IF core.risk_valid THEN core.emitted ELSE 0,
         dec       |-> IF captures THEN Append(cl.dec, cl.m_axis) ELSE cl.dec,
         dec_overflow |-> cl.dec_overflow \/ (cl.m_axis # 0 /\ ~captures)]
-----------------------------------------------------------------------------
(* The host.                                                               *)

poke(addr, data) == [op |-> "write", addr |-> addr, data |-> data, ar |-> FALSE]
peek(addr) == [bus EXCEPT !.op = "read", !.addr = addr, !.ar = TRUE]

\* The access the host makes next.
access ==
  CASE host.pc = "clear"     -> poke(<<"clear", 0>>, <<>>)
    [] host.pc = "poll"      -> peek(<<"status", 0>>)
    [] host.pc = "push"      -> poke(<<"push", 0>>, <<host.k, host.t, host.p>>)
    [] host.pc = "count"     -> peek(<<"count", 0>>)
    [] host.pc = "decisions" -> peek(<<"dec", Len(host.decisions) + 1>>)
    [] host.pc = "hist"      -> peek(<<"hist", Len(host.hist)>>)
    [] host.pc = "last"      -> peek(<<"last", 0>>)

\* The loop after an access that returned val: t is the type of the next message.
proceed(val, t) ==
  LET reading(n, h) == [h EXCEPT !.pc = IF Len(h.decisions) < n THEN "decisions" ELSE "hist"]
  IN  CASE host.pc = "clear" -> [host EXCEPT !.pc = "poll", !.t = t]
        [] host.pc = "poll"  -> IF val = 1 THEN host ELSE [host EXCEPT !.pc = "push"]
        [] host.pc = "push" /\ host.p < Length[host.t] -> [host EXCEPT !.pc = "poll", !.p = @ + 1]
        [] host.pc = "push" /\ host.p = Length[host.t] ->
             IF host.k = MaxMsgs THEN [host EXCEPT !.pc = "count"]
             ELSE [host EXCEPT !.pc = "poll", !.k = @ + 1, !.p = 1, !.t = t]
        [] host.pc = "count" -> reading(val, [host EXCEPT !.count = val])
        [] host.pc = "decisions" -> reading(host.count, [host EXCEPT !.decisions = Append(@, val)])
        [] host.pc = "hist" ->
             [host EXCEPT !.hist = Append(@, val),
                          !.pc = IF Len(host.hist) = HIST_BUCKETS - 1 THEN "last" ELSE "hist"]
        [] host.pc = "last" -> [host EXCEPT !.pc = "done"]

\* ocl_write holds both valids until the response, ocl_read drops the address when it
\* was taken; between two accesses the host may take any time.
Host(go, t) ==
  LET done == \/ bus.op = "write" /\ cl.wst = "resp"
              \/ bus.op = "read" /\ ~bus.ar /\ cl.rst_r = "resp"
  IN  IF bus.op = "none" /\ go /\ host.pc # "done"
        THEN bus' = access /\ UNCHANGED host
      ELSE IF done
        THEN bus' = [bus EXCEPT !.op = "none"] /\ host' = proceed(cl.rdata, t)
      ELSE bus' = [bus EXCEPT !.ar = @ /\ cl.rst_r # "idle"] /\ UNCHANGED host

\* A clock edge with the host: it goes on or waits, the next message it sends has type
\* t, the core takes a message or not, and registers a decision or not.
Cycle(go, t, m_ready, decides) ==
  LET tvalid == cl.fifo # <<>>
      beat == IF tvalid THEN Head(cl.fifo) ELSE <<0, "S", 0>>
      pop == tvalid /\ s_axis_tready(m_ready)
  IN  /\ via = "ocl" /\ UNCHANGED via
      /\ Clock(tvalid, beat[1], beat[2], beat[3], m_ready)
      /\ Latency(pop /\ beat[3] = 1)
      /\ Bridge(pop)
      /\ Host(go, t)
      /\ decides => taken # <<>> /\ core.emitted < MaxDecisions
      /\ core' = [risk_valid |-> decides, emitted |-> core.emitted + IF decides THEN 1 ELSE 0]

F1Next ==
  \/ via = "axis" /\ ParserNext /\ UNCHANGED f1_vars
  \/ \E go, m_ready, decides \in BOOLEAN, t \in OclTypes : Cycle(go, t, m_ready, decides)

\* The host goes on in the end, and the core is ready again and again, but not
\* necessarily at the same edges.
F1Fairness ==
  /\ WF_<<parser_vars, f1_vars>>(\E t \in OclTypes : Cycle(TRUE, t, FALSE, FALSE))
  /\ WF_<<parser_vars, f1_vars>>(\E t \in OclTypes : Cycle(FALSE, t, TRUE, FALSE))
  /\ WF_<<parser_vars, f1_vars>>(via = "axis" /\ UNCHANGED f1_vars
                          /\ \E t \in MsgType : Drive(TRUE, t, FALSE))
  /\ WF_<<parser_vars, f1_vars>>(via = "axis" /\ UNCHANGED f1_vars
                          /\ ((\E t \in MsgType : Drive(FALSE, t, TRUE)) \/ Drain(TRUE)))

F1Spec == F1Init /\ [][F1Next]_<<parser_vars, f1_vars>> /\ F1Fairness
-----------------------------------------------------------------------------
In_flight == (IF core.risk_valid THEN 1 ELSE 0) + (IF cl.m_axis # 0 THEN 1 ELSE 0)

\* What the host reads back over the bus are the first decisions the core made, in
\* order and without a gap, whatever answers are under way on the other channels; and
\* a decision that is missing from the capture is told by the overflow bit.
ReadBackExact ==
  /\ host.decisions = [i \in 1 .. Len(host.decisions) |-> i]
  /\ host.pc \in {"hist", "last", "done"} => Len(host.decisions) = host.count
  /\ Len(cl.dec) = Min({DEC_CAP, core.emitted - In_flight})
  /\ cl.dec_overflow <=> core.emitted - In_flight > DEC_CAP

\* The measurements in a histogram.
Total(hist) == MapThenSumSet(LAMBDA b : hist[b], Buckets)

\* No message is measured twice and no decision counts twice, also when the next
\* message starts before the decision of the last one; the latency shown last is one of
\* the histogram's, and no bucket that the host read was ever higher than it is.
MeasuredOnce ==
  LET measured == Total(lat.hist) + (IF lat.meas_valid_q THEN 1 ELSE 0)
  IN  /\ measured <= core.emitted
      /\ measured + (IF lat.measuring THEN 1 ELSE 0) <= Len(types)
      /\ lat.last # 0 => lat.hist[bucket(lat.last)] > 0
      /\ \A n \in DOMAIN host.hist : host.hist[n] <= lat.hist[n - 1]
=============================================================================
