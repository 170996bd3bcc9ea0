-------------------------- MODULE HostConfigProofs --------------------------
(***************************************************************************)
(* Proofs about HandshakeMcp, for every word set and every synchronizer    *)
(* depth, whatever the source does: the loop of request and                *)
(* acknowledgement never carries two edges, and so every accepted word is  *)
(* delivered whole and once.  Then about HostConfig: the re-send machine   *)
(* drives the handshake as a source, so all of that holds of it, and what  *)
(* it remembers to have sent is what the crossing holds.                   *)
(***************************************************************************)
EXTENDS HostConfig, TLAPS

\* A side in reset shows a low toggle, so the other side sees no edge.
ResetLow ==
  /\ ~src_rst_n => req_tog = 0 /\ \A i \in 1 .. STAGES : ack_q[i] = 0
  /\ ~dst_rst_n => req_d_q = 0 /\ \A i \in 1 .. STAGES : req_q[i] = 0

\* Once a word is acknowledged, the destination shows the word the source holds.
HeldIsShown == ack_tog = req_tog => dst_data = data_hold

McpInv == McpTypeOK /\ OneEdge /\ ResetLow /\ HeldIsShown
-----------------------------------------------------------------------------
LEMMA ShiftAt ==
  ASSUME NEW c \in [1 .. STAGES -> Bit], NEW b \in Bit
  PROVE  /\ Shift(c, b) \in [1 .. STAGES -> Bit]
         /\ \A i \in 1 .. STAGES : Shift(c, b)[i] = IF i = 1 THEN b ELSE c[i - 1]
BY McpAssumption DEF Shift

LEMMA StageType == /\ STAGES \in 1 .. STAGES /\ 1 \in 1 .. STAGES
                   /\ \A i \in 1 .. STAGES : i <= STAGES /\ (i # 1 => i - 1 \in 1 .. STAGES)
BY McpAssumption

\* The source loads only when the whole loop is at rest.
LEMMA LoadAtRest ==
  ASSUME McpInv, NEW valid, load(valid)
  PROVE  /\ ack_tog = req_tog /\ req_d_q = req_tog /\ ~capture
         /\ \A i \in 1 .. STAGES : req_q[i] = req_tog /\ ack_q[i] = req_tog
<1>1. ack_q[STAGES] = req_tog
  BY DEF load, src_ready
<1>2. ack_tog = req_tog /\ \A i \in 1 .. STAGES : ack_q[i] = req_tog
  BY <1>1, StageType DEF McpInv, OneEdge
<1>3. \A i \in 1 .. STAGES : req_q[i] = req_tog
  BY <1>2 DEF McpInv, OneEdge
<1>4. req_d_q = req_tog
  BY <1>2 DEF McpInv, McpTypeOK
<1> QED BY <1>2, <1>3, <1>4, StageType DEF capture, req_d

\* The destination captures only a request that was not acknowledged.
LEMMA CaptureIsNew ==
  ASSUME McpInv, capture
  PROVE  /\ ack_tog # req_tog /\ req_d = req_tog
         /\ \A i \in 1 .. STAGES : req_q[i] = req_tog /\ ack_q[i] # req_tog
<1>1. req_d # ack_tog /\ req_d \in Bit /\ ack_tog \in Bit /\ req_tog \in Bit
  BY StageType DEF McpInv, McpTypeOK, capture, req_d
<1>2. ack_tog # req_tog
  <2>1. ack_tog = req_tog => req_d = req_tog
    BY StageType DEF McpInv, OneEdge, req_d
  <2> QED BY <1>1, <2>1
<1>3. req_d = req_tog
  BY <1>1, <1>2 DEF Bit
<1>4. \A i \in 1 .. STAGES : req_q[i] = req_tog
  BY <1>3, StageType DEF McpInv, OneEdge, req_d
<1>5. \A i \in 1 .. STAGES : ack_q[i] # req_tog
  BY <1>2 DEF McpInv, OneEdge
<1> QED BY <1>2, <1>3, <1>4, <1>5
-----------------------------------------------------------------------------
(* An edge of the source, of the destination, or of both, in one form: a   *)
(* side that does not tick keeps its registers.                            *)

SrcPart(valid, w, a) ==
  \/ SrcTick(valid, w, a)
  \/ UNCHANGED srcVars /\ valid = FALSE

DstPart(a, r, d) ==
  \/ DstTick(r, d) /\ a \in {ack_tog, ack_tog_nxt}
  \/ UNCHANGED dstVars /\ a = ack_tog

Edge(valid, w, a, r, d) ==
  /\ SrcPart(valid, w, a) /\ DstPart(a, r, d)
  /\ r \in {req_tog, req_tog_nxt(valid)}
  /\ ~load(valid) => d = data_hold
  /\ UNCHANGED arst_n

LEMMA NextEdge ==
  ASSUME McpInv, [McpNext]_mcpVars
  PROVE  \/ \E valid \in BOOLEAN, w, d \in Word, a, r \in Bit : Edge(valid, w, a, r, d)
         \/ AssertReset
         \/ ReleaseReset
<1>1. /\ ack_tog \in Bit /\ req_tog \in Bit /\ data_hold \in Word /\ Zero \in Word
      /\ ack_tog_nxt \in Bit /\ \A valid : req_tog_nxt(valid) \in Bit
  BY StageType, McpAssumption
  DEF McpInv, McpTypeOK, ack_tog_nxt, req_tog_nxt, req_d, Bit
<1>2. ~load(FALSE)
  BY DEF load
<1>3. CASE \E valid \in BOOLEAN, w \in Word : SrcEdge(valid, w)
  <2>1. PICK valid \in BOOLEAN, w \in Word : SrcEdge(valid, w)
    BY <1>3
  <2>2. Edge(valid, w, ack_tog, req_tog, data_hold)
    BY <2>1 DEF SrcEdge, Edge, SrcPart, DstPart, dstVars
  <2> QED BY <1>1, <2>2
<1>4. CASE \E valid \in BOOLEAN, w \in Word : BothEdges(valid, w)
  <2>1. PICK valid \in BOOLEAN, w \in Word : BothEdges(valid, w)
    BY <1>4
  <2>2. PICK a \in {ack_tog, ack_tog_nxt}, r \in {req_tog, req_tog_nxt(valid)},
             d \in IF load(valid) THEN Word ELSE {data_hold} :
               SrcTick(valid, w, a) /\ DstTick(r, d) /\ UNCHANGED arst_n
    BY <2>1 DEF BothEdges
  <2>3. a \in Bit /\ r \in Bit /\ d \in Word
    BY <1>1, <2>2
  <2>4. Edge(valid, w, a, r, d)
    BY <2>2 DEF Edge, SrcPart, DstPart
  <2> QED BY <2>3, <2>4
<1>5. CASE DstEdge
  <2>1. Edge(FALSE, Zero, ack_tog, req_tog, data_hold)
    BY <1>5 DEF DstEdge, Edge, SrcPart, DstPart, srcVars
  <2> QED BY <1>1, <2>1
<1>6. CASE UNCHANGED mcpVars
  <2>1. Edge(FALSE, Zero, ack_tog, req_tog, data_hold)
    BY <1>6 DEF mcpVars, srcVars, dstVars, Edge, SrcPart, DstPart
  <2> QED BY <1>1, <2>1
<1> QED BY <1>3, <1>4, <1>5, <1>6 DEF McpNext

\* What an edge leaves in the two chains and in the reset counters.
LEMMA EdgeChains ==
  ASSUME McpInv, NEW valid \in BOOLEAN, NEW w \in Word, NEW d \in Word,
         NEW a \in Bit, NEW r \in Bit, Edge(valid, w, a, r, d)
  PROVE  /\ req_q' \in [1 .. STAGES -> Bit] /\ ack_q' \in [1 .. STAGES -> Bit]
         /\ \/ req_q' = req_q
            \/ \A i \in 1 .. STAGES : req_q'[i] = IF i = 1 THEN r ELSE req_q[i - 1]
         /\ \/ ack_q' = ack_q
            \/ \A i \in 1 .. STAGES : ack_q'[i] = IF i = 1 THEN a ELSE ack_q[i - 1]
         /\ src_sync' \in 0 .. RSTAGES /\ dst_sync' \in 0 .. RSTAGES
         /\ src_rst_n => src_rst_n'
         /\ dst_rst_n => dst_rst_n'
         /\ ~src_rst_n' => UNCHANGED <<req_tog, ack_q>>
         /\ ~dst_rst_n' => UNCHANGED <<req_q, req_d_q>>
<1>1. /\ req_q \in [1 .. STAGES -> Bit] /\ ack_q \in [1 .. STAGES -> Bit]
      /\ src_sync \in 0 .. RSTAGES /\ dst_sync \in 0 .. RSTAGES /\ RSTAGES \in Nat
  BY McpAssumption DEF McpInv, McpTypeOK
<1>2. /\ src_sync' = src_sync \/ (~src_rst_n /\ src_sync' = src_sync + 1)
      /\ ack_q' = ack_q \/ (src_rst_n /\ ack_q' = Shift(ack_q, a))
      /\ req_tog' = req_tog \/ src_rst_n
  BY DEF Edge, SrcPart, SrcTick, srcVars, req_tog_nxt, load
<1>3. /\ dst_sync' = dst_sync \/ (~dst_rst_n /\ dst_sync' = dst_sync + 1)
      /\ req_q' = req_q \/ (dst_rst_n /\ req_q' = Shift(req_q, r))
      /\ req_d_q' = req_d_q \/ dst_rst_n
  BY DEF Edge, DstPart, DstTick, dstVars
<1>4. /\ src_sync' \in 0 .. RSTAGES /\ (src_rst_n => src_rst_n')
  BY <1>1, <1>2 DEF src_rst_n
<1>5. /\ dst_sync' \in 0 .. RSTAGES /\ (dst_rst_n => dst_rst_n')
  BY <1>1, <1>3 DEF dst_rst_n
<1>6. /\ ack_q' \in [1 .. STAGES -> Bit]
      /\ \/ ack_q' = ack_q
         \/ \A i \in 1 .. STAGES : ack_q'[i] = IF i = 1 THEN a ELSE ack_q[i - 1]
  <2>1. CASE ack_q' = ack_q
    BY <1>1, <2>1
  <2>2. CASE ack_q' = Shift(ack_q, a)
    <3>1. /\ Shift(ack_q, a) \in [1 .. STAGES -> Bit]
          /\ \A i \in 1 .. STAGES : Shift(ack_q, a)[i] = IF i = 1 THEN a ELSE ack_q[i - 1]
      BY <1>1, ShiftAt
    <3> QED BY <2>2, <3>1
  <2> QED BY <1>2, <2>1, <2>2
<1>7. /\ req_q' \in [1 .. STAGES -> Bit]
      /\ \/ req_q' = req_q
         \/ \A i \in 1 .. STAGES : req_q'[i] = IF i = 1 THEN r ELSE req_q[i - 1]
  <2>1. CASE req_q' = req_q
    BY <1>1, <2>1
  <2>2. CASE req_q' = Shift(req_q, r)
    <3>1. /\ Shift(req_q, r) \in [1 .. STAGES -> Bit]
          /\ \A i \in 1 .. STAGES : Shift(req_q, r)[i] = IF i = 1 THEN r ELSE req_q[i - 1]
      BY <1>1, ShiftAt
    <3> QED BY <2>2, <3>1
  <2> QED BY <1>3, <2>1, <2>2
<1>8. ~src_rst_n' => UNCHANGED <<req_tog, ack_q>>
  BY <1>2, <1>4
<1>9. ~dst_rst_n' => UNCHANGED <<req_q, req_d_q>>
  BY <1>3, <1>5
<1> QED BY <1>4, <1>5, <1>6, <1>7, <1>8, <1>9

LEMMA DstIdle ==
  ASSUME NEW r, NEW d, (~capture /\ DstTick(r, d)) \/ UNCHANGED dstVars
  PROVE  /\ UNCHANGED <<req_d_q, ack_tog, dst_data>>
         /\ dst_valid' \in {FALSE, dst_valid}
<1>1. CASE ~capture /\ DstTick(r, d)
  <2>1. dst_data' = dst_data /\ ack_tog' = ack_tog
    BY <1>1 DEF DstTick, ack_tog_nxt
  <2>2. dst_valid' = FALSE
    BY <1>1 DEF DstTick
  <2>3. req_d_q' = req_d_q
    BY <1>1 DEF DstTick, capture
  <2> QED BY <2>1, <2>2, <2>3
<1>2. CASE UNCHANGED dstVars
  BY <1>2 DEF dstVars
<1> QED BY <1>1, <1>2

\* What an edge does to the toggles and the two buses: the source loads, the
\* destination captures, or neither; never both.
LEMMA EdgeCases ==
  ASSUME McpInv, NEW valid \in BOOLEAN, NEW w \in Word, NEW d \in Word,
         NEW a \in Bit, NEW r \in Bit, Edge(valid, w, a, r, d)
  PROVE  \/ /\ load(valid) /\ a = ack_tog
            /\ req_tog' = 1 - req_tog /\ data_hold' = w
            /\ UNCHANGED <<req_d_q, ack_tog, dst_data>>
            /\ dst_valid' \in {FALSE, dst_valid}
         \/ /\ ~load(valid) /\ r = req_tog
            /\ capture /\ req_d_q' = req_d /\ ack_tog' = req_d
            /\ dst_data' = data_hold /\ dst_valid' = TRUE
            /\ UNCHANGED <<req_tog, data_hold>>
         \/ /\ ~load(valid) /\ r = req_tog /\ a = ack_tog
            /\ UNCHANGED <<req_tog, data_hold, req_d_q, ack_tog, dst_data>>
            /\ dst_valid' \in {FALSE, dst_valid}
<1>1. CASE load(valid)
  <2>1. ~capture /\ req_d = req_d_q
    BY <1>1, LoadAtRest, StageType DEF req_d
  <2>2. SrcTick(valid, w, a)
    BY <1>1 DEF Edge, SrcPart, load
  <2>3. a = ack_tog
    BY <2>1 DEF Edge, DstPart, ack_tog_nxt
  <2>4. (~capture /\ DstTick(r, d)) \/ UNCHANGED dstVars
    BY <2>1 DEF Edge, DstPart
  <2>5. /\ UNCHANGED <<req_d_q, ack_tog, dst_data>>
        /\ dst_valid' \in {FALSE, dst_valid}
    BY <2>4, DstIdle
  <2> QED BY <1>1, <2>2, <2>3, <2>5 DEF SrcTick, req_tog_nxt
<1>2. CASE ~load(valid)
  <2>1. r = req_tog /\ d = data_hold
    BY <1>2 DEF Edge, req_tog_nxt
  <2>2. UNCHANGED <<req_tog, data_hold>>
    BY <1>2 DEF Edge, SrcPart, SrcTick, srcVars, req_tog_nxt
  <2>3. CASE capture /\ DstTick(r, d)
    BY <1>2, <2>1, <2>2, <2>3 DEF DstTick, ack_tog_nxt, capture
  <2>4. CASE ~(capture /\ DstTick(r, d))
    <3>1. /\ (~capture /\ DstTick(r, d)) \/ UNCHANGED dstVars
          /\ a = ack_tog
      BY <2>4 DEF Edge, DstPart, ack_tog_nxt
    <3>2. /\ UNCHANGED <<req_d_q, ack_tog, dst_data>>
          /\ dst_valid' \in {FALSE, dst_valid}
      BY <3>1, DstIdle
    <3> QED BY <1>2, <2>1, <2>2, <3>1, <3>2
  <2> QED BY <2>3, <2>4
<1> QED BY <1>1, <1>2
-----------------------------------------------------------------------------
LEMMA EdgeInv ==
  ASSUME McpInv, NEW valid \in BOOLEAN, NEW w \in Word, NEW d \in Word,
         NEW a \in Bit, NEW r \in Bit, Edge(valid, w, a, r, d)
  PROVE  McpInv'
<1> USE DEF Bit
<1>1. /\ req_tog \in Bit /\ ack_tog \in Bit /\ req_d_q \in Bit /\ ack_tog = req_d_q
      /\ data_hold \in Word /\ dst_data \in Word /\ dst_valid \in BOOLEAN
      /\ \A i \in 1 .. STAGES : req_q[i] \in Bit /\ ack_q[i] \in Bit
  BY DEF McpInv, McpTypeOK
<1>2. /\ \/ req_q' = req_q
         \/ \A i \in 1 .. STAGES : req_q'[i] = IF i = 1 THEN r ELSE req_q[i - 1]
      /\ \/ ack_q' = ack_q
         \/ \A i \in 1 .. STAGES : ack_q'[i] = IF i = 1 THEN a ELSE ack_q[i - 1]
  BY EdgeChains
<1>3. req_d \in Bit
  BY <1>1, StageType DEF req_d
<1>4. /\ req_tog' \in Bit /\ ack_tog' \in Bit /\ req_d_q' \in Bit /\ ack_tog' = req_d_q'
      /\ data_hold' \in Word /\ dst_data' \in Word
  <2>1. req_tog' \in {req_tog, 1 - req_tog} /\ data_hold' \in {data_hold, w}
    BY EdgeCases, ZenonT(40)
  <2>2. dst_data' \in {dst_data, data_hold}
    BY EdgeCases
  <2>3. \/ ack_tog' = ack_tog /\ req_d_q' = req_d_q
        \/ ack_tog' = req_d /\ req_d_q' = req_d
    BY EdgeCases, ZenonT(40)
  <2> QED BY <1>1, <1>3, <2>1, <2>2, <2>3
<1>5. dst_valid' \in BOOLEAN
  BY <1>1, EdgeCases, ZenonT(60)
<1>6. McpTypeOK'
  BY <1>4, <1>5, EdgeChains DEF McpInv, McpTypeOK, Edge
<1>7. OneEdge'
  <2>1. CASE load(valid)
    <3>1. /\ a = req_tog /\ req_tog' = 1 - req_tog /\ ack_tog' = req_tog
          /\ \A i \in 1 .. STAGES : req_q[i] = req_tog /\ ack_q[i] = req_tog
      BY <2>1, LoadAtRest, EdgeCases, ZenonT(40)
    <3>2. req_tog' # req_tog
      BY <1>1, <3>1
    <3>3. \A i \in 1 .. STAGES : ack_q'[i] # req_tog'
      BY <1>2, <3>1, <3>2, StageType
    <3>4. \A i \in 1 .. STAGES : i # 1 => req_q'[i] # req_tog'
      BY <1>2, <3>1, <3>2, StageType
    <3>5. \A i, j \in 1 .. STAGES :
            i <= j /\ req_q'[j] = req_tog' => req_q'[i] = req_tog'
      BY <3>4, StageType
    <3> QED BY <3>1, <3>2, <3>3, <3>5 DEF OneEdge
  <2>2. CASE ~load(valid) /\ capture /\ ack_tog' = req_d
    <3>1. req_tog' = req_tog /\ r = req_tog /\ ack_tog' = req_tog
      <4>1. req_tog' = req_tog /\ r = req_tog
        BY <2>2, EdgeCases
      <4>2. req_d = req_tog
        BY <2>2, CaptureIsNew
      <4> QED BY <2>2, <4>1, <4>2
    <3>2. \A i \in 1 .. STAGES : req_q'[i] = req_tog
      BY <1>2, <3>1, <2>2, CaptureIsNew, StageType
    <3>3. \A i \in 1 .. STAGES : i # 1 => ack_q'[i] # req_tog \/ ack_q' = ack_q
      BY <1>2, <2>2, CaptureIsNew, StageType
    <3>4. \A i, j \in 1 .. STAGES :
            i <= j /\ ack_q'[j] = req_tog => ack_q'[i] = req_tog
      BY <2>2, <3>3, CaptureIsNew, StageType
    <3> QED BY <3>1, <3>2, <3>4 DEF OneEdge
  <2>3. CASE ~load(valid) /\ UNCHANGED ack_tog
    <3>1. req_tog' = req_tog /\ r = req_tog /\ ack_tog' = ack_tog /\ a = ack_tog
      <4>1. ~(capture /\ ack_tog' = req_d /\ req_d_q' = req_d)
        BY <1>1, <2>3 DEF capture
      <4> QED BY <2>3, <4>1, EdgeCases, ZenonT(60)
    <3>2. /\ \A i, j \in 1 .. STAGES : i <= j /\ req_q[j] = req_tog => req_q[i] = req_tog
          /\ ack_tog = req_tog => \A i \in 1 .. STAGES : req_q[i] = req_tog
          /\ \A i \in 1 .. STAGES : ack_q[i] = req_tog => ack_tog = req_tog
          /\ \A i, j \in 1 .. STAGES : i <= j /\ ack_q[j] = req_tog => ack_q[i] = req_tog
      BY DEF McpInv, OneEdge
    <3>3. /\ \A i, j \in 1 .. STAGES :
               i <= j /\ req_q'[j] = req_tog => req_q'[i] = req_tog
          /\ ack_tog = req_tog => \A i \in 1 .. STAGES : req_q'[i] = req_tog
      <4>1. CASE req_q' = req_q
        BY <3>2, <4>1
      <4>2. CASE \A i \in 1 .. STAGES : req_q'[i] = IF i = 1 THEN req_tog ELSE req_q[i - 1]
        BY <3>2, <4>2, StageType
      <4> QED BY <1>2, <3>1, <4>1, <4>2
    <3>4. \A i \in 1 .. STAGES : ack_q'[i] = req_tog => ack_tog = req_tog
      BY <1>2, <3>1, <3>2, StageType
    <3>5. \A i, j \in 1 .. STAGES :
            i <= j /\ ack_q'[j] = req_tog => ack_q'[i] = req_tog
      <4>1. CASE ack_q' = ack_q
        BY <3>2, <4>1
      <4>2. CASE \A i \in 1 .. STAGES : ack_q'[i] = IF i = 1 THEN ack_tog ELSE ack_q[i - 1]
        BY <3>2, <4>2, StageType
      <4> QED BY <1>2, <3>1, <4>1, <4>2
    <3> QED BY <3>1, <3>3, <3>4, <3>5 DEF OneEdge
  <2> QED BY <2>1, <2>2, <2>3, EdgeCases
<1>8. ResetLow'
  <2>1. ~src_rst_n' => ~src_rst_n /\ UNCHANGED <<req_tog, ack_q>>
    BY EdgeChains
  <2>2. ~dst_rst_n' => ~dst_rst_n /\ UNCHANGED <<req_q, req_d_q>>
    BY EdgeChains
  <2> QED BY <2>1, <2>2 DEF ResetLow, McpInv
<1>9. HeldIsShown'
  <2>1. CASE load(valid)
    <3>1. req_tog' = 1 - req_tog /\ ack_tog' = req_tog
      BY <2>1, LoadAtRest, EdgeCases
    <3> QED BY <1>1, <3>1 DEF HeldIsShown
  <2>2. CASE ~load(valid)
    <3>1. \/ dst_data' = data_hold /\ UNCHANGED data_hold
          \/ UNCHANGED <<req_tog, data_hold, ack_tog, dst_data>>
      BY <2>2, EdgeCases
    <3> QED BY <3>1 DEF HeldIsShown, McpInv
  <2> QED BY <2>1, <2>2
<1> QED BY <1>6, <1>7, <1>8, <1>9 DEF McpInv

LEMMA LowType == Low \in [1 .. STAGES -> Bit] /\ \A i \in 1 .. STAGES : Low[i] = 0
BY DEF Low, Bit

\* Both at reset and initially, everything is cleared.
Cleared ==
  /\ req_tog = 0 /\ data_hold = Zero /\ ack_q = Low
  /\ req_q = Low /\ req_d_q = 0 /\ ack_tog = 0
  /\ dst_valid = FALSE /\ dst_data = Zero
  /\ arst_n = FALSE /\ src_sync = 0 /\ dst_sync = 0

LEMMA ClearedInv == Cleared => McpInv
<1> SUFFICES ASSUME Cleared PROVE McpInv
  OBVIOUS
<1>1. /\ \A i \in 1 .. STAGES : req_q[i] = 0 /\ ack_q[i] = 0
      /\ req_tog = 0 /\ req_d_q = 0 /\ ack_tog = 0
  BY LowType DEF Cleared
<1>2. McpTypeOK
  <2>1. dst_valid \in BOOLEAN /\ arst_n \in BOOLEAN
    BY DEF Cleared
  <2>2. src_sync \in 0 .. RSTAGES /\ dst_sync \in 0 .. RSTAGES
    BY McpAssumption DEF Cleared
  <2>3. ack_q \in [1 .. STAGES -> Bit] /\ req_q \in [1 .. STAGES -> Bit]
    BY LowType DEF Cleared
  <2>4. data_hold \in Word /\ dst_data \in Word
    BY McpAssumption DEF Cleared
  <2> QED BY <1>1, <2>1, <2>2, <2>3, <2>4 DEF McpTypeOK, Bit
<1>3. OneEdge /\ ResetLow /\ HeldIsShown
  BY <1>1 DEF OneEdge, ResetLow, HeldIsShown, Cleared
<1> QED BY <1>2, <1>3 DEF McpInv

LEMMA McpStep == McpInv /\ [McpNext]_mcpVars => McpInv'
<1> SUFFICES ASSUME McpInv, [McpNext]_mcpVars PROVE McpInv'
  OBVIOUS
<1>1. CASE \E valid \in BOOLEAN, w, d \in Word, a, r \in Bit : Edge(valid, w, a, r, d)
  BY <1>1, EdgeInv
<1>2. CASE AssertReset
  <2>1. Cleared'
    BY <1>2 DEF AssertReset, Cleared
  <2>2. Cleared' => McpInv'
    BY ClearedInv, PTL
  <2> QED BY <2>1, <2>2
<1>3. CASE ReleaseReset
  BY <1>3 DEF ReleaseReset, srcVars, dstVars, McpInv, McpTypeOK, OneEdge, ResetLow,
              HeldIsShown, src_rst_n, dst_rst_n
<1> QED BY <1>1, <1>2, <1>3, NextEdge

\* The handshake's invariant: whatever the source does, types are kept and the
\* loop of request and acknowledgement carries one edge at most.
THEOREM McpInvariance == McpSpec => []McpInv
<1>1. McpInit => McpInv
  BY ClearedInv DEF McpInit, Cleared
<1>2. McpInv /\ [McpNext]_mcpVars => McpInv'
  BY McpStep
<1> QED BY <1>1, <1>2, PTL DEF McpSpec

\* At most one edge is under way in the loop.
THEOREM OneEdgeAlways == McpSpec => []OneEdge
<1>1. McpInv => OneEdge
  BY DEF McpInv
<1> QED BY <1>1, McpInvariance, PTL
-----------------------------------------------------------------------------
\* Every edge posts a word, delivers one, or does neither.
LEMMA EdgeRefines ==
  ASSUME McpInv, NEW valid \in BOOLEAN, NEW w \in Word, NEW d \in Word,
         NEW a \in Bit, NEW r \in Bit, Edge(valid, w, a, r, d)
  PROVE  Mailbox!Next \/ UNCHANGED Mailbox!vars
<1>1. /\ req_tog \in Bit /\ ack_tog \in Bit /\ data_hold \in Word
      /\ NoWord \notin Word
  BY McpAssumption DEF McpInv, McpTypeOK
<1>2. CASE load(valid)
  <2>1. /\ ack_tog = req_tog /\ req_tog' = 1 - req_tog /\ data_hold' = w
        /\ UNCHANGED <<ack_tog, dst_data>> /\ dst_valid' \in {FALSE, dst_valid}
    BY <1>2, LoadAtRest, EdgeCases
  <2>2. req_tog' # ack_tog'
    BY <1>1, <2>1 DEF Bit
  <2>3. Mailbox!Post(w)
    BY <1>1, <2>1, <2>2 DEF Mailbox!Post
  <2> QED BY <2>3 DEF Mailbox!Next
<1>3. CASE /\ capture /\ ack_tog' = req_d /\ dst_data' = data_hold /\ dst_valid' = TRUE
           /\ UNCHANGED <<req_tog, data_hold>>
  <2>1. ack_tog # req_tog /\ ack_tog' = req_tog
    BY <1>3, CaptureIsNew
  <2>2. Mailbox!Take
    BY <1>1, <1>3, <2>1 DEF Mailbox!Take
  <2> QED BY <2>2 DEF Mailbox!Next
<1>4. CASE /\ UNCHANGED <<req_tog, data_hold, ack_tog, dst_data>>
           /\ dst_valid' \in {FALSE, dst_valid}
  <2>1. Mailbox!Quiet \/ UNCHANGED Mailbox!vars
    BY <1>4 DEF Mailbox!Quiet, Mailbox!vars
  <2> QED BY <2>1 DEF Mailbox!Next
<1> QED BY <1>2, <1>3, <1>4, EdgeCases

\* Every accepted word is delivered whole, once and in order, with one strobe, for
\* every word width and synchronizer depth and whatever the source does.
THEOREM MailboxRefinement == McpSpec => ImplementsMailbox
<1>1. McpInit => Mailbox!Init
  BY DEF McpInit, Mailbox!Init
<1>2. McpInv /\ [McpNext]_mcpVars => [Mailbox!Next]_(Mailbox!vars)
  <2> SUFFICES ASSUME McpInv, [McpNext]_mcpVars
               PROVE  Mailbox!Next \/ UNCHANGED Mailbox!vars
    OBVIOUS
  <2>1. CASE \E valid \in BOOLEAN, w, d \in Word, a, r \in Bit : Edge(valid, w, a, r, d)
    BY <2>1, EdgeRefines
  <2>2. CASE AssertReset
    BY <2>2 DEF AssertReset, Mailbox!Next, Mailbox!Clear
  <2>3. CASE ReleaseReset
    BY <2>3 DEF ReleaseReset, srcVars, dstVars, Mailbox!vars
  <2> QED BY <2>1, <2>2, <2>3, NextEdge
<1> QED BY <1>1, <1>2, McpInvariance, PTL DEF McpSpec, Mailbox!Spec, ImplementsMailbox
-----------------------------------------------------------------------------
(* The re-send machine.                                                    *)

\* Unless a load is about to happen, the machine's memory is the held word.
SentIsHeld == (cfg_valid /\ src_ready) \/ cfg_sent = data_hold

FsmTypeOK ==
  /\ strat_sel \in Word /\ cfg_sent \in Word
  /\ cfg_valid \in BOOLEAN /\ cfg_load_pending \in BOOLEAN

IInv == McpInv /\ FsmTypeOK /\ SentIsHeld
-----------------------------------------------------------------------------
LEMMA NextIsMcp == FsmTypeOK /\ [Next]_vars => [McpNext]_mcpVars
BY DEF FsmTypeOK, Next, HostEdge, CoreEdge, HostAndCoreEdge, Select, Reset, Release,
       McpNext, vars, McpNext

\* An idle handshake stays idle until it is loaded.
LEMMA IdleStays ==
  ASSUME McpInv, src_ready, ~load(cfg_valid), NEW a,
         a \in {ack_tog, ack_tog_nxt}, SrcTick(cfg_valid, strat_sel, a)
  PROVE  src_ready'
<1>1. /\ ack_tog = req_tog
      /\ \A i \in 1 .. STAGES : ack_q[i] = req_tog
  BY StageType DEF src_ready, McpInv, OneEdge
<1>2. ~capture
  BY <1>1, CaptureIsNew
<1>3. a = req_tog
  BY <1>1, <1>2 DEF ack_tog_nxt
<1>4. req_tog' = req_tog /\ ack_q' \in {ack_q, Shift(ack_q, a)}
  BY DEF SrcTick, req_tog_nxt
<1>5. /\ ack_q \in [1 .. STAGES -> Bit] /\ a \in Bit
  BY <1>3 DEF McpInv, McpTypeOK
<1>6. \A i \in 1 .. STAGES : Shift(ack_q, a)[i] = IF i = 1 THEN a ELSE ack_q[i - 1]
  BY <1>5, ShiftAt
<1>7. Shift(ack_q, a)[STAGES] = req_tog
  BY <1>1, <1>3, <1>6, StageType
<1> QED BY <1>1, <1>4, <1>7, StageType DEF src_ready

\* An edge of the host's clock keeps the machine's memory right: it compares and
\* loads in different cycles, but a load and a new comparison see the same request.
LEMMA HostTickInv ==
  ASSUME McpInv, FsmTypeOK, SentIsHeld, NEW a \in {ack_tog, ack_tog_nxt},
         SrcTick(cfg_valid, strat_sel, a), CfgTick
  PROVE  SentIsHeld' /\ cfg_sent' \in {cfg_sent, strat_sel}
         /\ cfg_valid' \in BOOLEAN /\ cfg_load_pending' \in BOOLEAN
<1>1. CASE ~src_rst_n
  <2>1. UNCHANGED fsmVars /\ UNCHANGED <<req_tog, data_hold, ack_q>>
    BY <1>1 DEF CfgTick, SrcTick, load, req_tog_nxt
  <2> QED BY <2>1 DEF fsmVars, FsmTypeOK, SentIsHeld, src_ready
<1>2. CASE src_rst_n /\ load(cfg_valid)
  <2>1. data_hold' = strat_sel
    BY <1>2 DEF SrcTick
  <2>2. cfg_sent' = strat_sel
    BY <1>2 DEF CfgTick, needs_send, load
  <2>3. cfg_valid' \in BOOLEAN /\ cfg_load_pending' \in BOOLEAN
    BY <1>2 DEF CfgTick, needs_send, FsmTypeOK
  <2> QED BY <2>1, <2>2, <2>3 DEF SentIsHeld
<1>3. CASE src_rst_n /\ ~load(cfg_valid)
  <2>1. ~(cfg_valid /\ src_ready) /\ cfg_sent = data_hold /\ data_hold' = data_hold
    BY <1>3 DEF load, SentIsHeld, SrcTick
  <2>2. cfg_valid' \in BOOLEAN /\ cfg_load_pending' \in BOOLEAN
    BY <1>3 DEF CfgTick, needs_send, FsmTypeOK
  <2>3. CASE needs_send
    <3>1. cfg_valid' = TRUE /\ cfg_sent' = strat_sel
      BY <1>3, <2>3 DEF CfgTick
    <3>2. src_ready'
      BY <1>3, <2>3, IdleStays DEF needs_send
    <3> QED BY <2>2, <3>1, <3>2 DEF SentIsHeld
  <2>4. CASE ~needs_send
    <3>1. cfg_sent' = cfg_sent
      BY <1>3, <2>4 DEF CfgTick
    <3> QED BY <2>1, <2>2, <3>1 DEF SentIsHeld
  <2> QED BY <2>3, <2>4
<1> QED BY <1>1, <1>2, <1>3

LEMMA Step == IInv /\ [Next]_vars => IInv'
<1> SUFFICES ASSUME IInv, [Next]_vars PROVE IInv'
  OBVIOUS
<1>1. McpInv'
  BY NextIsMcp, McpStep DEF IInv
<1>2. CASE HostEdge
  <2>1. strat_sel' = strat_sel /\ CfgTick /\ SrcTick(cfg_valid, strat_sel, ack_tog)
    BY <1>2 DEF HostEdge, SrcEdge
  <2> QED BY <1>1, <2>1, HostTickInv DEF IInv, FsmTypeOK
<1>3. CASE HostAndCoreEdge
  <2>1. PICK a \in {ack_tog, ack_tog_nxt} : SrcTick(cfg_valid, strat_sel, a)
    BY <1>3 DEF HostAndCoreEdge, BothEdges
  <2>2. strat_sel' = strat_sel /\ CfgTick
    BY <1>3 DEF HostAndCoreEdge
  <2> QED BY <1>1, <2>1, <2>2, HostTickInv DEF IInv, FsmTypeOK
<1>4. CASE CoreEdge
  BY <1>1, <1>4 DEF CoreEdge, DstEdge, srcVars, fsmVars, IInv, FsmTypeOK, SentIsHeld,
                    src_ready
<1>5. CASE Select
  <2>1. strat_sel' \in Word
    BY <1>5 DEF Select
  <2> QED BY <1>1, <1>5, <2>1 DEF Select, mcpVars, srcVars, fsmVars, IInv, FsmTypeOK,
                                  SentIsHeld, src_ready
<1>6. CASE Reset
  <2>1. cfg_sent' = Zero /\ data_hold' = Zero /\ cfg_valid' = FALSE
        /\ cfg_load_pending' = TRUE /\ strat_sel' = strat_sel
    BY <1>6 DEF Reset, AssertReset
  <2> QED BY <1>1, <2>1, McpAssumption DEF IInv, FsmTypeOK, SentIsHeld
<1>7. CASE Release
  BY <1>1, <1>7 DEF Release, ReleaseReset, srcVars, fsmVars, IInv, FsmTypeOK,
                    SentIsHeld, src_ready
<1>8. CASE UNCHANGED vars
  BY <1>1, <1>8 DEF vars, mcpVars, srcVars, fsmVars, IInv, FsmTypeOK, SentIsHeld,
                    src_ready
<1> QED BY <1>2, <1>3, <1>4, <1>5, <1>6, <1>7, <1>8 DEF Next

\* The invariant of the configuration path.
THEOREM Invariance == Spec => []IInv
<1>1. Init => IInv
  <2> SUFFICES ASSUME Init PROVE IInv
    OBVIOUS
  <2>1. McpInv
    BY ClearedInv DEF Init, McpInit, Cleared
  <2> QED BY <2>1, McpAssumption DEF Init, McpInit, IInv, FsmTypeOK, SentIsHeld
<1> QED BY <1>1, Step, PTL DEF Spec

\* Types are kept, for every word set and synchronizer depth.
THEOREM TypeCorrect == Spec => []TypeOK
<1>1. IInv => TypeOK
  BY DEF IInv, McpInv, FsmTypeOK, TypeOK
<1> QED BY <1>1, Invariance, PTL

\* What the re-send machine believes to have sent is what the crossing holds, and
\* when the handshake is idle it is what the core shows: no change of the request,
\* at whatever cycle it comes, makes the machine think the core has it already.
THEOREM ConfigStaysInSync == Spec => []ConfigInSync
<1>1. IInv => ConfigInSync
  <2> SUFFICES ASSUME IInv, ~(cfg_valid /\ src_ready)
               PROVE  cfg_sent = data_hold /\ (src_ready => strat_sel_core = cfg_sent)
    BY DEF ConfigInSync
  <2>1. cfg_sent = data_hold
    BY DEF IInv, SentIsHeld
  <2>2. src_ready => ack_tog = req_tog
    BY StageType DEF src_ready, IInv, McpInv, OneEdge
  <2> QED BY <2>1, <2>2 DEF IInv, McpInv, HeldIsShown, strat_sel_core
<1> QED BY <1>1, Invariance, PTL

\* The machine uses the handshake as its source may.
THEOREM UsesHandshake == Spec => McpSpec
<1>1. Init => McpInit
  BY DEF Init
<1>2. IInv /\ [Next]_vars => [McpNext]_mcpVars
  BY NextIsMcp DEF IInv
<1> QED BY <1>1, <1>2, Invariance, PTL DEF Spec, McpSpec

\* So every configuration word is delivered whole, once and in order.
THEOREM ConfigIsMailbox == Spec => ImplementsMailbox
BY UsesHandshake, MailboxRefinement, PTL
=============================================================================
