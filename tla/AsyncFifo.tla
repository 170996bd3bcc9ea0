----------------------------- MODULE AsyncFifo -----------------------------
(***************************************************************************)
(* rtl/cdc/async_fifo.sv: the dual-clock FIFO with Gray-coded pointers     *)
(* that carries every stream of the multi-clock top across a clock         *)
(* boundary, inside axis_async_fifo.sv (ready = ~full, valid = ~empty) and *)
(* behind one reset_sync.sv per clock domain.                              *)
(*                                                                         *)
(* One action is one rising edge of one clock, or of both at once.  All    *)
(* registers of a clock domain change together at its edge, from their     *)
(* values before it.  A register that samples the other domain's Gray word *)
(* while that word changes may catch each bit either before or after the   *)
(* change (Torn).  A Gray word is the set of its bits that are 1.          *)
(***************************************************************************)
EXTENDS Integers, FiniteSets, FiniteSetsExt

CONSTANTS
  Word,       \* what the FIFO carries: the packed {tlast, tdata} vectors
  NoWord,     \* no word offered, or a memory slot never written
  AW,         \* DEPTH = 2^AW
  STAGES,     \* depth of the pointer synchronizers
  RSTAGES,    \* depth of the reset synchronizers
  AF_LEVEL,   \* almost_full asserts at this occupancy or above
  AE_LEVEL    \* almost_empty asserts at this occupancy or below

DEPTH == 2 ^ AW
Ptr   == 0 .. 2 * DEPTH - 1      \* the pointers have AW+1 bits
Slot  == 0 .. DEPTH - 1
Bits  == 0 .. AW

bit(n, i) == (n \div 2 ^ i) % 2
bin2gray[b \in Ptr] == { i \in Bits : bit(b, i) # bit(b, i + 1) }
gray2bin[g \in SUBSET Bits] ==
  MapThenSumSet(LAMBDA i : 2 ^ i * (Cardinality({j \in g : j >= i}) % 2), Bits)

\* b + 1 and a - b in AW+1 bits, and the low AW bits of a pointer.
Inc(b)    == IF b = 2 * DEPTH - 1 THEN 0 ELSE b + 1
Sub(a, b) == IF a >= b THEN a - b ELSE a - b + 2 * DEPTH
index(b)  == IF b < DEPTH THEN b ELSE b - DEPTH

\* The Gray word with its top two bits inverted.
FlipTop(g) == (g \ {AW, AW - 1}) \cup ({AW, AW - 1} \ g)

\* What a register may hold after sampling a word that goes from old to new
\* in the same instant: each bit is caught before or after its change.
Torn(old, new) ==
  { g \in SUBSET Bits : \A i \in Bits : (i \in g <=> i \in old) \/ (i \in g <=> i \in new) }

ASSUME ParamsAssumption ==
  /\ AW \in Nat /\ DEPTH \in Nat /\ DEPTH >= 2
  /\ STAGES \in Nat \ {0} /\ RSTAGES \in Nat \ {0}
  /\ AF_LEVEL \in Nat /\ AE_LEVEL \in Nat
  /\ NoWord \notin Word

\* The three facts about the code's Gray encoding the design rests on: the two
\* conversions are inverse, consecutive codes differ in one bit (so a torn sample
\* is the old code or the new one), and two codes differ in exactly the top two
\* bits if and only if the pointers are DEPTH apart.
GrayCode ==
  \A p \in Ptr :
    /\ gray2bin[bin2gray[p]] = p
    /\ Torn(bin2gray[p], bin2gray[Inc(p)]) = {bin2gray[p], bin2gray[Inc(p)]}
    /\ Torn(bin2gray[p], bin2gray[p]) = {bin2gray[p]}
    /\ \A q \in Ptr : bin2gray[q] = FlipTop(bin2gray[p]) <=> Sub(q, p) = DEPTH

ASSUME GrayAssumption == GrayCode

VARIABLES
  mem,                        \* the storage array
  wbin, wgray, full, rq,      \* write domain; rq synchronizes rgray
  rbin, rgray, empty, wq,     \* read domain; wq synchronizes wgray
  arst_n,                     \* the shared asynchronous reset, active low
  wsync, rsync,               \* ones shifted into each domain's reset_sync chain
  taken                       \* the last word the read side's user accepted

wrVars  == <<wbin, wgray, full, rq, wsync, mem>>
rdVars  == <<rbin, rgray, empty, wq, rsync, taken>>
vars    == <<wrVars, rdVars, arst_n>>

wr_rst_n == wsync = RSTAGES
rd_rst_n == rsync = RSTAGES

Zeros == [i \in 1 .. STAGES |-> bin2gray[0]]
\* (mutant) the later stages are not connected
Shift_Stuck(chain, g) == [chain EXCEPT ![1] = g]
Shift(chain, g) == [i \in 1 .. STAGES |-> IF i = 1 THEN g ELSE chain[i - 1]]

rgray_s == rq[STAGES]
wgray_s == wq[STAGES]
-----------------------------------------------------------------------------
(* The combinational next values.  w is the word offered at this edge      *)
(* (NoWord when wr_en is low), ren is rd_en.                               *)

do_wr(w)     == w # NoWord /\ ~full
wbin_nxt(w)  == IF wr_rst_n /\ do_wr(w) THEN Inc(wbin) ELSE wbin
\* (mutant) the Gray register is loaded from the pointer before its increment
wgray_nxt_Old(w) == bin2gray[wbin]
wgray_nxt(w) == bin2gray[wbin_nxt(w)]
\* (mutant) compares the pointer before its increment: one write too many
full_nxt_Old(w) == bin2gray[wbin] = FlipTop(rgray_s)
full_nxt(w)  == wgray_nxt(w) = FlipTop(rgray_s)

do_rd(ren)     == ren /\ ~empty
rbin_nxt(ren)  == IF rd_rst_n /\ do_rd(ren) THEN Inc(rbin) ELSE rbin
rgray_nxt(ren) == bin2gray[rbin_nxt(ren)]
\* (mutant) compares the pointer before its increment: one read too many
empty_nxt_Old(ren) == bin2gray[rbin] = wgray_s
empty_nxt(ren) == rgray_nxt(ren) = wgray_s

wr_used == Sub(wbin, gray2bin[rgray_s])
rd_used == Sub(gray2bin[wgray_s], rbin)
\* (mutant) off by one at the threshold
almost_full_Late == wr_used > AF_LEVEL
almost_full  == wr_used >= AF_LEVEL
almost_empty == rd_used <= AE_LEVEL

\* (mutant) the head is looked up with the pointer after the pop
rd_data_Next == mem[index(Inc(rbin))]
rd_data == mem[index(rbin)]        \* first-word fall-through
-----------------------------------------------------------------------------
Init ==
  /\ mem = [i \in Slot |-> NoWord]
  /\ wbin = 0 /\ wgray = bin2gray[0] /\ full = FALSE /\ rq = Zeros
  /\ rbin = 0 /\ rgray = bin2gray[0] /\ empty = TRUE /\ wq = Zeros
  /\ arst_n = FALSE /\ wsync = 0 /\ rsync = 0
  /\ taken = NoWord

\* The registers of the write domain at an edge of wr_clk that samples g from
\* the read domain.  While the domain is in reset only the reset synchronizer
\* moves; the array has no reset, so an offered word still lands in slot 0.
WrTick(w, g) ==
  /\ mem' = IF do_wr(w) THEN [mem EXCEPT ![index(wbin)] = w] ELSE mem
  /\ wsync' = IF arst_n /\ ~wr_rst_n THEN wsync + 1 ELSE wsync
  /\ wbin' = wbin_nxt(w)
  /\ wgray' = wgray_nxt(w)
  /\ full' = (wr_rst_n /\ full_nxt(w))
  /\ rq' = IF wr_rst_n THEN Shift(rq, g) ELSE rq

\* The registers of the read domain at an edge of rd_clk that samples g from the
\* write domain.  rd_data is the head of the memory (first-word fall-through):
\* the user that pops it takes it at this edge.
RdTick(ren, g) ==
  /\ rsync' = IF arst_n /\ ~rd_rst_n THEN rsync + 1 ELSE rsync
  /\ rbin' = rbin_nxt(ren)
  /\ rgray' = rgray_nxt(ren)
  /\ empty' = (rd_rst_n => empty_nxt(ren))
  /\ wq' = IF rd_rst_n THEN Shift(wq, g) ELSE wq
  /\ taken' = IF rd_rst_n /\ do_rd(ren) THEN rd_data ELSE taken

WrEdge ==
  /\ \E w \in Word \cup {NoWord} : WrTick(w, rgray)
  /\ UNCHANGED <<rdVars, arst_n>>

RdEdge ==
  /\ \E ren \in BOOLEAN : RdTick(ren, wgray)
  /\ UNCHANGED <<wrVars, arst_n>>

BothEdges ==
  /\ \E w \in Word \cup {NoWord}, ren \in BOOLEAN :
       \E gr \in Torn(rgray, rgray_nxt(ren)), gw \in Torn(wgray, wgray_nxt(w)) :
         WrTick(w, gr) /\ RdTick(ren, gw)
  /\ UNCHANGED arst_n

\* The shared reset asserts at any moment and clears both domains at once,
\* without waiting for a clock; only the array keeps its contents.
AssertReset ==
  /\ arst_n' = FALSE /\ wsync' = 0 /\ rsync' = 0
  /\ wbin' = 0 /\ wgray' = bin2gray[0] /\ full' = FALSE /\ rq' = Zeros
  /\ rbin' = 0 /\ rgray' = bin2gray[0] /\ empty' = TRUE /\ wq' = Zeros
  /\ taken' = NoWord
  /\ mem' = mem

\* It is released at any moment; each domain leaves reset at its own pace.
ReleaseReset ==
  /\ ~arst_n /\ arst_n' = TRUE
  /\ UNCHANGED <<wrVars, rdVars>>

Next == WrEdge \/ RdEdge \/ BothEdges \/ AssertReset \/ ReleaseReset

Spec == Init /\ [][Next]_vars
-----------------------------------------------------------------------------
(* Fairness: both clocks run for ever, so an edge that moves a             *)
(* synchronizer or drops a stale flag comes eventually.  An edge that      *)
(* raises a flag is left out: it takes a user who writes, or who reads,    *)
(* and nobody is forced to.                                                *)

WrClock == (WrEdge \/ BothEdges) /\ (full' => full)
RdClock == (RdEdge \/ BothEdges) /\ (empty' => empty)

Fairness ==
  /\ WF_arst_n(ReleaseReset)
  /\ WF_<<rq, wsync, full>>(WrClock)
  /\ WF_<<wq, rsync, empty>>(RdClock)

FairSpec == Spec /\ Fairness
-----------------------------------------------------------------------------
Occupancy == Sub(wbin, rbin)

\* Types, and the two facts that make a crossing glitch-free: each Gray register
\* is the code of its own binary pointer, and every synchronizer stage holds the
\* code of some pointer, never a word that no pointer ever had.
TypeOK ==
  /\ mem \in [Slot -> Word \cup {NoWord}] /\ taken \in Word \cup {NoWord}
  /\ wbin \in Ptr /\ wgray = bin2gray[wbin] /\ full \in BOOLEAN
  /\ rbin \in Ptr /\ rgray = bin2gray[rbin] /\ empty \in BOOLEAN
  /\ rq \in [1 .. STAGES -> {bin2gray[p] : p \in Ptr}]
  /\ wq \in [1 .. STAGES -> {bin2gray[p] : p \in Ptr}]
  /\ arst_n \in BOOLEAN /\ wsync \in 0 .. RSTAGES /\ rsync \in 0 .. RSTAGES

\* No overrun and no underrun, with pointers that are out of date on both sides:
\* counted from the oldest read pointer the write side still believes in, the
\* copies of the read pointer, the read pointer, the copies of the write pointer
\* and the write pointer come in this order and within DEPTH of each other.
Ahead(p) == Sub(p, gray2bin[rgray_s])
RqAt(i)  == Ahead(gray2bin[rq[i]])
WqAt(i)  == Ahead(gray2bin[wq[i]])

NoOverrun ==
  /\ \A i, j \in 1 .. STAGES : i <= j => RqAt(j) <= RqAt(i) /\ WqAt(j) <= WqAt(i)
  /\ RqAt(1) <= Ahead(rbin)
  /\ Ahead(rbin) <= WqAt(STAGES)
  /\ WqAt(1) <= Ahead(wbin)
  /\ Ahead(wbin) <= DEPTH

\* The registered flags, computed one edge ago from out-of-date pointers, err on
\* the safe side: a writer that sees ~full has room, a reader that sees ~empty
\* has a word.
FlagsSafe ==
  /\ ~full => Occupancy < DEPTH
  /\ ~empty => Occupancy > 0

\* So do the threshold flags: they may assert early, never late.
AlmostFlagsSafe ==
  /\ Occupancy >= AF_LEVEL => almost_full
  /\ Occupancy <= AE_LEVEL => almost_empty

\* The FIFO is an abstract bounded buffer: every accepted word is handed over
\* exactly once, in order, whatever the two clocks do.  The buffer is what the
\* memory holds from the read pointer up to the write pointer.
Nth(k) == IF rbin + k - 1 >= 2 * DEPTH THEN rbin + k - 1 - 2 * DEPTH ELSE rbin + k - 1
Stored == [k \in 1 .. Occupancy |-> mem[index(Nth(k))]]

Fifo == INSTANCE FifoSpec WITH Capacity <- DEPTH, buffer <- Stored

ImplementsFifo == Fifo!Spec

\* A stored word shows at the read side and a freed slot shows at the write side,
\* unless a reset comes first: no pointer is ever stuck in a crossing.
CrossingCompletes ==
  /\ (Occupancy > 0) ~> (~empty \/ ~arst_n)
  /\ (full /\ Occupancy < DEPTH) ~> (~full \/ ~arst_n)
=============================================================================
