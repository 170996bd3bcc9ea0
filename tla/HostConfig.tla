----------------------------- MODULE HostConfig -----------------------------
(***************************************************************************)
(* The configuration path of the multi-clock top, from the host's strategy *)
(* select to the core: the re-send state machine (tick_to_trade_mc_top.sv  *)
(* section 2, repeated in mc_glue.sv) in front of a handshake_mcp.  The    *)
(* machine remembers what it sent (cfg_sent), raises cfg_valid one cycle   *)
(* after it compared, and the handshake loads strat_sel as it is in that   *)
(* later cycle.                                                            *)
(***************************************************************************)
EXTENDS HandshakeMcp

VARIABLES
  strat_sel,           \* the host's request, zero-extended to the config word
  cfg_valid,           \* the machine asks the handshake to load
  cfg_sent,            \* what the machine believes the core was told
  cfg_load_pending     \* nothing was sent since reset

fsmVars  == <<cfg_valid, cfg_sent, cfg_load_pending>>
hostVars == <<srcVars, fsmVars>>
vars     == <<mcpVars, strat_sel, fsmVars>>

strat_sel_core == dst_data

\* (mutant) a change of the request is not noticed
needs_send_Once == src_ready /\ cfg_load_pending
needs_send == src_ready /\ (cfg_load_pending \/ strat_sel # cfg_sent)

Init ==
  /\ McpInit
  /\ strat_sel \in Word
  /\ cfg_valid = FALSE /\ cfg_sent = Zero /\ cfg_load_pending = TRUE

\* (mutant) the machine records what it sends only while it is idle
CfgTick_Late ==
  IF src_rst_n
    THEN /\ cfg_valid' = needs_send
         /\ cfg_sent' = IF needs_send /\ ~cfg_valid THEN strat_sel ELSE cfg_sent
         /\ cfg_load_pending' = (cfg_load_pending /\ ~needs_send)
    ELSE UNCHANGED fsmVars

\* The machine at an edge of clk_host.
CfgTick ==
  IF src_rst_n
    THEN /\ cfg_valid' = needs_send
         /\ cfg_sent' = IF needs_send THEN strat_sel ELSE cfg_sent
         /\ cfg_load_pending' = (cfg_load_pending /\ ~needs_send)
    ELSE UNCHANGED fsmVars

HostEdge == SrcEdge(cfg_valid, strat_sel) /\ CfgTick /\ UNCHANGED strat_sel

CoreEdge == DstEdge /\ UNCHANGED <<strat_sel, fsmVars>>

HostAndCoreEdge == BothEdges(cfg_valid, strat_sel) /\ CfgTick /\ UNCHANGED strat_sel

\* The host asks for another strategy, in any cycle.
Select ==
  /\ \E s \in Word \ {strat_sel} : strat_sel' = s
  /\ UNCHANGED <<mcpVars, fsmVars>>

Reset ==
  /\ AssertReset
  /\ cfg_valid' = FALSE /\ cfg_sent' = Zero /\ cfg_load_pending' = TRUE
  /\ UNCHANGED strat_sel

Release == ReleaseReset /\ UNCHANGED <<strat_sel, fsmVars>>

Next == HostEdge \/ CoreEdge \/ HostAndCoreEdge \/ Select \/ Reset \/ Release

Spec == Init /\ [][Next]_vars

\* Both clocks run for ever and the reset is released.
Fairness ==
  /\ WF_arst_n(Release)
  /\ WF_hostVars(HostEdge \/ HostAndCoreEdge)
  /\ WF_dstVars(CoreEdge \/ HostAndCoreEdge)

FairSpec == Spec /\ Fairness
-----------------------------------------------------------------------------
\* Types, and the handshake's own.
TypeOK ==
  /\ McpTypeOK
  /\ strat_sel \in Word /\ cfg_sent \in Word
  /\ cfg_valid \in BOOLEAN /\ cfg_load_pending \in BOOLEAN

\* The machine's memory is right although it compares in one cycle and the word
\* is loaded in the next, when the request may be another: unless a load is about
\* to happen, cfg_sent is the word the crossing holds, and once the handshake is
\* idle that is the word the core shows.
ConfigInSync ==
  ~(cfg_valid /\ src_ready) =>
    /\ cfg_sent = data_hold
    /\ src_ready => strat_sel_core = cfg_sent

\* A request that the host leaves alone reaches the core and stays there, however
\* it was changed before, unless a reset comes first.
ConfigDelivered ==
  \A s \in Word : <>[](strat_sel = s /\ arst_n) => <>[](strat_sel_core = s)
=============================================================================
