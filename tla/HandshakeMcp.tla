---------------------------- MODULE HandshakeMcp ----------------------------
(***************************************************************************)
(* rtl/cdc/handshake_mcp.sv: one word across two clocks without a FIFO.    *)
(* The source holds the word and flips a request toggle; only the toggle   *)
(* is synchronized; the destination captures the held word at the toggle's *)
(* edge and mirrors the toggle back as the acknowledgement.                *)
(*                                                                         *)
(* One action is one edge of one clock, or of both at once.  A bit sampled *)
(* while it changes is caught before or after the change; a word sampled   *)
(* while it changes may be caught as any word.                             *)
(***************************************************************************)
EXTENDS Integers

CONSTANTS
  Word,      \* the words that can be sent
  Zero,      \* the word of all zeros: the reset value
  NoWord,    \* no word under way
  STAGES,    \* depth of the two toggle synchronizers
  RSTAGES    \* depth of the reset synchronizers

ASSUME McpAssumption ==
  /\ Zero \in Word /\ NoWord \notin Word
  /\ STAGES \in Nat \ {0} /\ RSTAGES \in Nat \ {0}

VARIABLES
  req_tog, data_hold, ack_q,             \* source; ack_q synchronizes ack_tog
  req_q, req_d_q, ack_tog,               \* destination; req_q synchronizes req_tog
  dst_valid, dst_data,
  arst_n, src_sync, dst_sync             \* the reset and its two synchronizers

srcVars == <<req_tog, data_hold, ack_q, src_sync>>
dstVars == <<req_q, req_d_q, ack_tog, dst_valid, dst_data, dst_sync>>
mcpVars == <<srcVars, dstVars, arst_n>>

Bit == {0, 1}
Low == [i \in 1 .. STAGES |-> 0]
Shift(chain, b) == [i \in 1 .. STAGES |-> IF i = 1 THEN b ELSE chain[i - 1]]

src_rst_n == src_sync = RSTAGES
dst_rst_n == dst_sync = RSTAGES

src_ready == req_tog = ack_q[STAGES]
req_d     == req_q[STAGES]

\* (mutant) a request is accepted although the last one is not acknowledged
load_NoReady(valid) == src_rst_n /\ valid
load(valid) == src_rst_n /\ valid /\ src_ready
\* (mutant) detects rising edges of the toggle only
capture_Rising == dst_rst_n /\ req_d = 1 /\ req_d_q = 0
capture     == dst_rst_n /\ req_d # req_d_q

\* (mutant) the toggle flips while the bus waits for the acknowledgement
req_tog_nxt_Free(valid) == IF src_rst_n /\ valid THEN 1 - req_tog ELSE req_tog
req_tog_nxt(valid) == IF load(valid) THEN 1 - req_tog ELSE req_tog
ack_tog_nxt == IF capture THEN req_d ELSE ack_tog
-----------------------------------------------------------------------------
McpInit ==
  /\ req_tog = 0 /\ data_hold = Zero /\ ack_q = Low
  /\ req_q = Low /\ req_d_q = 0 /\ ack_tog = 0
  /\ dst_valid = FALSE /\ dst_data = Zero
  /\ arst_n = FALSE /\ src_sync = 0 /\ dst_sync = 0

\* The source at its clock edge: src_valid, src_data, and the sampled ack toggle.
SrcTick(valid, w, a) ==
  /\ src_sync' = IF arst_n /\ ~src_rst_n THEN src_sync + 1 ELSE src_sync
  /\ data_hold' = IF load(valid) THEN w ELSE data_hold
  /\ req_tog' = req_tog_nxt(valid)
  /\ ack_q' = IF src_rst_n THEN Shift(ack_q, a) ELSE ack_q

\* The destination at its clock edge: the sampled request toggle and bus.
DstTick(r, d) ==
  /\ dst_sync' = IF arst_n /\ ~dst_rst_n THEN dst_sync + 1 ELSE dst_sync
  /\ req_q' = IF dst_rst_n THEN Shift(req_q, r) ELSE req_q
  /\ req_d_q' = IF dst_rst_n THEN req_d ELSE req_d_q
  /\ dst_valid' = capture
  /\ dst_data' = IF capture THEN d ELSE dst_data
  /\ ack_tog' = ack_tog_nxt

SrcEdge(valid, w) == SrcTick(valid, w, ack_tog) /\ UNCHANGED <<dstVars, arst_n>>

DstEdge == DstTick(req_tog, data_hold) /\ UNCHANGED <<srcVars, arst_n>>

\* Both clocks at once: what one side samples may be changing under it.
BothEdges(valid, w) ==
  /\ \E a \in {ack_tog, ack_tog_nxt}, r \in {req_tog, req_tog_nxt(valid)} :
       \E d \in IF load(valid) THEN Word ELSE {data_hold} :
         SrcTick(valid, w, a) /\ DstTick(r, d)
  /\ UNCHANGED arst_n

\* The shared reset clears both sides without waiting for a clock ...
AssertReset ==
  /\ arst_n' = FALSE /\ src_sync' = 0 /\ dst_sync' = 0
  /\ req_tog' = 0 /\ data_hold' = Zero /\ ack_q' = Low
  /\ req_q' = Low /\ req_d_q' = 0 /\ ack_tog' = 0
  /\ dst_valid' = FALSE /\ dst_data' = Zero

\* ... and is released by each side at its own pace.
ReleaseReset == ~arst_n /\ arst_n' = TRUE /\ UNCHANGED <<srcVars, dstVars>>

\* Driven by any source at all.
McpNext ==
  \/ \E valid \in BOOLEAN, w \in Word : SrcEdge(valid, w) \/ BothEdges(valid, w)
  \/ DstEdge \/ AssertReset \/ ReleaseReset

McpSpec == McpInit /\ [][McpNext]_mcpVars
-----------------------------------------------------------------------------
\* Types; and the acknowledgement is the request the destination saw last.
McpTypeOK ==
  /\ req_tog \in Bit /\ data_hold \in Word /\ ack_q \in [1 .. STAGES -> Bit]
  /\ req_q \in [1 .. STAGES -> Bit] /\ req_d_q \in Bit /\ ack_tog \in Bit
  /\ ack_tog = req_d_q
  /\ dst_valid \in BOOLEAN /\ dst_data \in Word
  /\ arst_n \in BOOLEAN /\ src_sync \in 0 .. RSTAGES /\ dst_sync \in 0 .. RSTAGES

\* One toggle edge at most travels round the loop of request and acknowledgement:
\* request, its synchronizer, the destination, the acknowledgement's synchronizer.
\* So a returned acknowledgement is always the one of the last request, and the
\* next request cannot start while any trace of the last is still on its way.
OneEdge ==
  /\ \A i, j \in 1 .. STAGES : i <= j /\ req_q[j] = req_tog => req_q[i] = req_tog
  /\ ack_tog = req_tog => \A i \in 1 .. STAGES : req_q[i] = req_tog
  /\ \A i \in 1 .. STAGES : ack_q[i] = req_tog => ack_tog = req_tog
  /\ \A i, j \in 1 .. STAGES : i <= j /\ ack_q[j] = req_tog => ack_q[i] = req_tog

\* Every accepted word is delivered whole, once and in order, with one strobe.
Mailbox == INSTANCE MailboxSpec
  WITH slot <- IF req_tog # ack_tog THEN data_hold ELSE NoWord,
       delivered <- dst_data, strobe <- dst_valid

ImplementsMailbox == Mailbox!Spec
=============================================================================
