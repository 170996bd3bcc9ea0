-------------------------- MODULE AsyncFifoProofs --------------------------
(***************************************************************************)
(* Proofs about AsyncFifo for every depth, synchronizer depth and word     *)
(* set.  The inductive invariant places all pointers, and all copies of    *)
(* them in flight, on one line by their distance from the oldest copy of   *)
(* the read pointer; a clock edge moves points of that line forward, and   *)
(* shifting the synchronizer moves its origin.                             *)
(***************************************************************************)
EXTENDS AsyncFifo, Sequences, TLAPS

Codes == {bin2gray[p] : p \in Ptr}

\* The invariant: the order of the pointers, and what the registered flags
\* promise about the pointers of their own clock domain.
WrFlagInv == ~full => Ahead(wbin) < DEPTH
RdFlagInv == ~empty => Ahead(rbin) < WqAt(STAGES)
ResetInv  == ~wr_rst_n => ~full /\ Ahead(wbin) = 0
IInv == TypeOK /\ NoOverrun /\ WrFlagInv /\ RdFlagInv /\ ResetInv
-----------------------------------------------------------------------------
(* Arithmetic modulo 2 * DEPTH.                                            *)

LEMMA PtrInt == DEPTH \in Int /\ \A p \in Ptr : p \in Int /\ 0 <= p /\ p < 2 * DEPTH
BY ParamsAssumption DEF Ptr

\* A difference of pointers is a pointer, and it is 0 only for equal pointers.
LEMMA SubType ==
  ASSUME NEW a \in Ptr, NEW b \in Ptr
  PROVE  /\ Sub(a, b) \in Ptr
         /\ Sub(a, a) = 0
         /\ Sub(a, b) = 0 => a = b
BY ParamsAssumption DEF Sub, Ptr

\* Distances from b are distances from a, less the distance from a to b.
LEMMA Rebase ==
  ASSUME NEW a \in Ptr, NEW b \in Ptr, NEW c \in Ptr, Sub(b, a) <= Sub(c, a)
  PROVE  Sub(c, b) = Sub(c, a) - Sub(b, a)
BY ParamsAssumption DEF Sub, Ptr

\* The increment is a pointer, and one further on unless it comes full circle.
LEMMA IncStep ==
  ASSUME NEW a \in Ptr, NEW p \in Ptr
  PROVE  /\ Inc(p) \in Ptr
         /\ Sub(p, a) < 2 * DEPTH - 1 => Sub(Inc(p), a) = Sub(p, a) + 1
BY ParamsAssumption DEF Sub, Ptr, Inc

\* Low bits of a pointer address the memory.
LEMMA IndexType == ASSUME NEW p \in Ptr PROVE index(p) \in Slot
BY ParamsAssumption DEF index, Ptr, Slot

\* Decoding a code gives the pointer back.
LEMMA Decode ==
  /\ \A p \in Ptr : bin2gray[p] \in Codes /\ gray2bin[bin2gray[p]] = p
  /\ \A g \in Codes : gray2bin[g] \in Ptr /\ bin2gray[gray2bin[g]] = g
BY GrayAssumption DEF GrayCode, Codes

\* A sample of a pointer that stands still or steps once is its code before or after.
LEMMA TornSample ==
  ASSUME NEW p \in Ptr, NEW q \in {p, Inc(p)}, NEW g \in Torn(bin2gray[p], bin2gray[q])
  PROVE  g \in {bin2gray[p], bin2gray[q]}
<1>1. CASE q = p
  BY <1>1, GrayAssumption DEF GrayCode
<1>2. CASE q = Inc(p)
  BY <1>2, GrayAssumption DEF GrayCode
<1> QED BY <1>1, <1>2
-----------------------------------------------------------------------------
LEMMA InitInv == Init => IInv
<1> SUFFICES ASSUME Init PROVE IInv
  OBVIOUS
<1>1. 0 \in Ptr /\ 1 \in 1 .. STAGES /\ STAGES \in 1 .. STAGES
  BY ParamsAssumption DEF Ptr
<1>2. /\ \A i \in 1 .. STAGES : rq[i] = bin2gray[0] /\ wq[i] = bin2gray[0]
      /\ rq \in [1 .. STAGES -> Codes] /\ wq \in [1 .. STAGES -> Codes]
  BY <1>1 DEF Init, Zeros, Codes
<1>3. TypeOK
  <2>1. mem \in [Slot -> Word \cup {NoWord}]
    BY DEF Init
  <2>2. 0 \in 0 .. RSTAGES
    BY ParamsAssumption
  <2> QED
    BY <1>1, <1>2, <2>1, <2>2 DEF Init, TypeOK, Codes
<1>4. /\ Ahead(wbin) = 0 /\ Ahead(rbin) = 0
      /\ \A i \in 1 .. STAGES : RqAt(i) = 0 /\ WqAt(i) = 0
  BY <1>1, <1>2, SubType, Decode DEF Init, Ahead, RqAt, WqAt, rgray_s
<1>5. NoOverrun
  BY <1>1, <1>4, ParamsAssumption DEF NoOverrun
<1> QED
  BY <1>3, <1>4, <1>5, ParamsAssumption
     DEF Init, IInv, WrFlagInv, RdFlagInv, ResetInv
-----------------------------------------------------------------------------
(* One clock edge.  Ahead(p) with p primed is the place of the new pointer *)
(* on the old line; the move of the line's origin comes last.              *)

\* What an edge of the write clock leaves behind (or its absence), r being the
\* read pointer after the step.
WrPost(r) ==
  /\ mem' \in [Slot -> Word \cup {NoWord}] /\ full' \in BOOLEAN /\ wsync' \in 0 .. RSTAGES
  /\ wbin' \in Ptr /\ wgray' = bin2gray[wbin']
  /\ rq' \in [1 .. STAGES -> Codes]
  /\ wbin' \in {wbin, Inc(wbin)}
  /\ Ahead(wbin) <= Ahead(wbin') /\ Ahead(wbin') <= DEPTH
  /\ ~full' => Ahead(wbin') < DEPTH
  /\ ResetInv'
  /\ \A i, j \in 1 .. STAGES :
       i <= j => Ahead(gray2bin[rq'[j]]) <= Ahead(gray2bin[rq'[i]])
  /\ Ahead(gray2bin[rq'[1]]) <= Ahead(r)

\* The same for the read clock, wp being the write pointer after the step.
RdPost(wp) ==
  /\ taken' \in Word \cup {NoWord} /\ empty' \in BOOLEAN /\ rsync' \in 0 .. RSTAGES
  /\ rbin' \in Ptr /\ rgray' = bin2gray[rbin']
  /\ wq' \in [1 .. STAGES -> Codes]
  /\ rbin' \in {rbin, Inc(rbin)}
  /\ Ahead(rbin) <= Ahead(rbin') /\ Ahead(rbin') <= WqAt(STAGES)
  /\ ~empty' => Ahead(rbin') < WqAt(STAGES)
  /\ \A i, j \in 1 .. STAGES :
       i <= j => Ahead(gray2bin[wq'[j]]) <= Ahead(gray2bin[wq'[i]])
  /\ WqAt(STAGES) <= Ahead(gray2bin[wq'[STAGES]])
  /\ Ahead(gray2bin[wq'[1]]) <= Ahead(wp)

\* The facts about the current state that every edge starts from.
LEMMA Places ==
  ASSUME IInv
  PROVE  /\ 1 \in 1 .. STAGES /\ STAGES \in 1 .. STAGES
         /\ rq \in [1 .. STAGES -> Codes] /\ wq \in [1 .. STAGES -> Codes]
         /\ gray2bin[rgray_s] \in Ptr
         /\ \A i \in 1 .. STAGES : gray2bin[rq[i]] \in Ptr /\ gray2bin[wq[i]] \in Ptr
         /\ \A p \in Ptr : Ahead(p) \in Ptr
         /\ \A i \in 1 .. STAGES : RqAt(i) \in Ptr /\ WqAt(i) \in Ptr
         /\ Ahead(rbin) <= DEPTH /\ WqAt(STAGES) <= DEPTH
<1>1. /\ 1 \in 1 .. STAGES /\ STAGES \in 1 .. STAGES
      /\ rq \in [1 .. STAGES -> Codes] /\ wq \in [1 .. STAGES -> Codes]
  BY ParamsAssumption DEF IInv, TypeOK, Codes
<1>2. \A i \in 1 .. STAGES : gray2bin[rq[i]] \in Ptr /\ gray2bin[wq[i]] \in Ptr
  BY <1>1, Decode
<1>3. gray2bin[rgray_s] \in Ptr
  BY <1>1, <1>2 DEF rgray_s
<1>4. \A p \in Ptr : Ahead(p) \in Ptr
  BY <1>3, SubType DEF Ahead
<1>5. \A i \in 1 .. STAGES : RqAt(i) \in Ptr /\ WqAt(i) \in Ptr
  BY <1>2, <1>4 DEF RqAt, WqAt
<1>6. WqAt(STAGES) <= WqAt(1) /\ WqAt(1) <= Ahead(wbin) /\ Ahead(wbin) <= DEPTH
      /\ Ahead(rbin) <= WqAt(STAGES)
  BY <1>1, ParamsAssumption DEF IInv, NoOverrun
<1>7. wbin \in Ptr /\ rbin \in Ptr
  BY DEF IInv, TypeOK
<1>8. Ahead(rbin) <= DEPTH /\ WqAt(STAGES) <= DEPTH
  <2>1. /\ Ahead(rbin) \in Int /\ Ahead(wbin) \in Int
        /\ WqAt(1) \in Int /\ WqAt(STAGES) \in Int /\ DEPTH \in Int
    BY <1>1, <1>4, <1>5, <1>7, PtrInt
  <2> QED BY <1>6, <2>1
<1> QED BY <1>1, <1>2, <1>3, <1>4, <1>5, <1>8

\* Shifting a synchronizer keeps its stages in order if the sample is the newest.
LEMMA ShiftOrder ==
  ASSUME IInv, NEW chain \in [1 .. STAGES -> Codes], NEW g \in Codes,
         \A i, j \in 1 .. STAGES :
           i <= j => Ahead(gray2bin[chain[j]]) <= Ahead(gray2bin[chain[i]]),
         Ahead(gray2bin[chain[1]]) <= Ahead(gray2bin[g])
  PROVE  /\ Shift(chain, g) \in [1 .. STAGES -> Codes]
         /\ Shift(chain, g)[1] = g
         /\ \A i, j \in 1 .. STAGES :
              i <= j => Ahead(gray2bin[Shift(chain, g)[j]]) <= Ahead(gray2bin[Shift(chain, g)[i]])
         /\ Ahead(gray2bin[chain[STAGES]]) <= Ahead(gray2bin[Shift(chain, g)[STAGES]])
<1> DEFINE new == Shift(chain, g)
           at(c, i) == Ahead(gray2bin[c[i]])
<1>1. \A i \in 1 .. STAGES : new[i] = IF i = 1 THEN g ELSE chain[i - 1]
  BY DEF Shift
<1>2. new \in [1 .. STAGES -> Codes]
  <2>1. \A i \in 1 .. STAGES : (IF i = 1 THEN g ELSE chain[i - 1]) \in Codes
    BY ParamsAssumption
  <2> QED BY <2>1 DEF Shift
<1>3. /\ \A i \in 1 .. STAGES : at(chain, i) \in Int /\ at(new, i) \in Int
      /\ Ahead(gray2bin[g]) \in Int
  <2>1. \A c \in Codes : Ahead(gray2bin[c]) \in Int
    BY Places, Decode, PtrInt
  <2> QED BY <1>2, <2>1
<1>4. 1 \in 1 .. STAGES /\ STAGES \in 1 .. STAGES
  BY Places
<1>5. \A i \in 1 .. STAGES : at(chain, i) <= Ahead(gray2bin[g])
  BY <1>3, <1>4
<1>6. ASSUME NEW i \in 1 .. STAGES, NEW j \in 1 .. STAGES, i <= j
      PROVE  at(new, j) <= at(new, i)
  <2>1. CASE i = 1 /\ j = 1
    BY <2>1, <1>3
  <2>2. CASE i = 1 /\ j # 1
    <3>1. j - 1 \in 1 .. STAGES
      BY <2>2, ParamsAssumption
    <3> QED BY <3>1, <2>2, <1>1, <1>5
  <2>3. CASE i # 1
    <3>1. i - 1 \in 1 .. STAGES /\ j - 1 \in 1 .. STAGES /\ i - 1 <= j - 1 /\ j # 1
      BY <2>3, <1>6, ParamsAssumption
    <3> QED BY <3>1, <2>3, <1>1
  <2> QED BY <2>1, <2>2, <2>3
<1>7. at(chain, STAGES) <= at(new, STAGES)
  <2>1. CASE STAGES = 1
    BY <2>1, <1>1, <1>4, <1>5
  <2>2. CASE STAGES # 1
    <3>1. STAGES - 1 \in 1 .. STAGES /\ STAGES - 1 <= STAGES
      BY <2>2, ParamsAssumption
    <3> QED BY <3>1, <2>2, <1>1, <1>4
  <2> QED BY <2>1, <2>2
<1> QED BY <1>1, <1>2, <1>4, <1>6, <1>7
-----------------------------------------------------------------------------
\* A write-clock edge that samples the read pointer as it is or as it becomes.
LEMMA WrTickPost ==
  ASSUME IInv, NEW r \in Ptr, Ahead(rbin) <= Ahead(r),
         NEW w \in Word \cup {NoWord}, NEW g \in {bin2gray[rbin], bin2gray[r]}, WrTick(w, g)
  PROVE  WrPost(r)
<1>1. /\ wbin \in Ptr /\ rbin \in Ptr /\ gray2bin[rgray_s] \in Ptr
      /\ Ahead(wbin) \in Int /\ Ahead(rbin) \in Int /\ Ahead(r) \in Int
      /\ Ahead(wbin) <= DEPTH /\ RqAt(1) \in Int /\ RqAt(1) <= Ahead(rbin)
      /\ DEPTH \in Int /\ DEPTH >= 2
  BY Places, PtrInt, ParamsAssumption DEF IInv, TypeOK, NoOverrun
<1>2. mem' \in [Slot -> Word \cup {NoWord}]
  BY <1>1, IndexType DEF IInv, TypeOK, WrTick
<1>3. wsync' \in 0 .. RSTAGES
  BY ParamsAssumption DEF IInv, TypeOK, WrTick, wr_rst_n
<1>4. wbin' \in Ptr /\ wgray' = bin2gray[wbin'] /\ full' \in BOOLEAN
  BY <1>1, IncStep DEF WrTick, wbin_nxt, wgray_nxt
<1>5. wbin' \in {wbin, Inc(wbin)}
  BY DEF WrTick, wbin_nxt
<1>6. Ahead(wbin) <= Ahead(wbin') /\ Ahead(wbin') <= DEPTH
  <2>1. CASE wbin' = wbin
    BY <2>1, <1>1
  <2>2. CASE wbin' # wbin
    <3>1. wbin' = Inc(wbin) /\ ~full
      BY <2>2 DEF WrTick, wbin_nxt, do_wr
    <3>2. Ahead(wbin) < DEPTH
      BY <3>1 DEF IInv, WrFlagInv
    <3>3. Ahead(wbin') = Ahead(wbin) + 1
      BY <1>1, <3>1, <3>2, IncStep DEF Ahead
    <3> QED BY <1>1, <3>2, <3>3
  <2> QED BY <2>1, <2>2
<1>7. ~full' => Ahead(wbin') < DEPTH
  <2> SUFFICES ASSUME ~full' PROVE Ahead(wbin') < DEPTH
    OBVIOUS
  <2>1. CASE wr_rst_n
    <3>1. bin2gray[wbin'] # FlipTop(rgray_s)
      BY <2>1 DEF WrTick, full_nxt, wgray_nxt
    <3>2. rgray_s = bin2gray[gray2bin[rgray_s]]
      BY Places, Decode DEF rgray_s
    <3>3. Ahead(wbin') # DEPTH
      BY <1>1, <1>4, <3>1, <3>2, GrayAssumption DEF GrayCode, Ahead
    <3>4. Ahead(wbin') \in Int
      BY <1>4, Places, PtrInt
    <3> QED BY <1>1, <1>6, <3>3, <3>4
  <2>2. CASE ~wr_rst_n
    BY <2>2, <1>1 DEF IInv, ResetInv, WrTick, wbin_nxt
  <2> QED BY <2>1, <2>2
<1>8. ResetInv'
  <2> SUFFICES ASSUME ~wr_rst_n' PROVE ~full' /\ Ahead(wbin)' = 0
    BY DEF ResetInv
  <2>1. ~wr_rst_n
    BY DEF WrTick, wr_rst_n
  <2>2. wbin' = wbin /\ rq' = rq /\ full' = FALSE
    BY <2>1 DEF WrTick, wbin_nxt
  <2> QED BY <2>1, <2>2 DEF IInv, ResetInv, Ahead, rgray_s
<1>9. /\ rq' \in [1 .. STAGES -> Codes]
      /\ \A i, j \in 1 .. STAGES :
           i <= j => Ahead(gray2bin[rq'[j]]) <= Ahead(gray2bin[rq'[i]])
      /\ Ahead(gray2bin[rq'[1]]) <= Ahead(r)
  <2>1. CASE rq' = rq
    BY <2>1, <1>1, Places DEF IInv, NoOverrun, RqAt
  <2>2. CASE rq' = Shift(rq, g)
    <3>1. g \in Codes /\ gray2bin[g] \in {rbin, r}
      BY <1>1, Decode
    <3>2. Ahead(gray2bin[rq[1]]) <= Ahead(gray2bin[g])
      BY <1>1, <3>1 DEF RqAt
    <3>3. Ahead(gray2bin[g]) <= Ahead(r)
      BY <1>1, <3>1
    <3>4. rq \in [1 .. STAGES -> Codes]
          /\ \A i, j \in 1 .. STAGES :
               i <= j => Ahead(gray2bin[rq[j]]) <= Ahead(gray2bin[rq[i]])
      BY Places DEF IInv, NoOverrun, RqAt
    <3> QED BY <2>2, <3>1, <3>2, <3>3, <3>4, ShiftOrder
  <2> QED BY <2>1, <2>2 DEF WrTick
<1> QED BY <1>2, <1>3, <1>4, <1>5, <1>6, <1>7, <1>8, <1>9 DEF WrPost

\* No write-clock edge.
LEMMA WrStillPost ==
  ASSUME IInv, NEW r \in Ptr, Ahead(rbin) <= Ahead(r), UNCHANGED wrVars
  PROVE  WrPost(r)
<1>1. /\ wbin \in Ptr /\ rbin \in Ptr /\ Ahead(wbin) \in Int /\ Ahead(rbin) \in Int
      /\ Ahead(r) \in Int /\ RqAt(1) \in Int /\ RqAt(1) <= Ahead(rbin)
      /\ Ahead(wbin) <= DEPTH
  BY Places, PtrInt DEF IInv, TypeOK, NoOverrun
<1>2. ResetInv'
  BY DEF IInv, ResetInv, wrVars, wr_rst_n, Ahead, rgray_s
<1>3. /\ rq' \in [1 .. STAGES -> Codes]
      /\ \A i, j \in 1 .. STAGES :
           i <= j => Ahead(gray2bin[rq'[j]]) <= Ahead(gray2bin[rq'[i]])
      /\ Ahead(gray2bin[rq'[1]]) <= Ahead(r)
  BY <1>1, Places DEF IInv, NoOverrun, RqAt, wrVars
<1>4. /\ Ahead(wbin) <= Ahead(wbin') /\ Ahead(wbin') <= DEPTH
      /\ ~full' => Ahead(wbin') < DEPTH
  BY <1>1 DEF IInv, WrFlagInv, wrVars
<1>5. /\ mem' \in [Slot -> Word \cup {NoWord}] /\ full' \in BOOLEAN
      /\ wsync' \in 0 .. RSTAGES /\ wbin' \in Ptr /\ wgray' = bin2gray[wbin']
      /\ wbin' \in {wbin, Inc(wbin)}
  BY DEF IInv, TypeOK, wrVars
<1> QED BY <1>2, <1>3, <1>4, <1>5 DEF WrPost

\* A read-clock edge that samples the write pointer as it is or as it becomes.
LEMMA RdTickPost ==
  ASSUME IInv, NEW wp \in Ptr, Ahead(wbin) <= Ahead(wp),
         NEW ren \in BOOLEAN, NEW g \in {bin2gray[wbin], bin2gray[wp]}, RdTick(ren, g)
  PROVE  RdPost(wp)
<1>1. /\ wbin \in Ptr /\ rbin \in Ptr /\ gray2bin[rgray_s] \in Ptr
      /\ gray2bin[wgray_s] \in Ptr
      /\ Ahead(wbin) \in Int /\ Ahead(rbin) \in Int /\ Ahead(wp) \in Int
      /\ WqAt(1) \in Int /\ WqAt(1) <= Ahead(wbin)
      /\ WqAt(STAGES) \in Int /\ WqAt(STAGES) <= DEPTH /\ Ahead(rbin) <= WqAt(STAGES)
      /\ DEPTH \in Int /\ DEPTH >= 2
  BY Places, PtrInt, ParamsAssumption DEF IInv, TypeOK, NoOverrun, wgray_s
<1>2. taken' \in Word \cup {NoWord}
  BY <1>1, IndexType DEF IInv, TypeOK, RdTick, rd_data
<1>3. rsync' \in 0 .. RSTAGES
  BY ParamsAssumption DEF IInv, TypeOK, RdTick, rd_rst_n
<1>4. rbin' \in Ptr /\ rgray' = bin2gray[rbin'] /\ empty' \in BOOLEAN
  BY <1>1, IncStep DEF RdTick, rbin_nxt, rgray_nxt
<1>5. rbin' \in {rbin, Inc(rbin)}
  BY DEF RdTick, rbin_nxt
<1>6. Ahead(rbin) <= Ahead(rbin') /\ Ahead(rbin') <= WqAt(STAGES)
  <2>1. CASE rbin' = rbin
    BY <2>1, <1>1
  <2>2. CASE rbin' # rbin
    <3>1. rbin' = Inc(rbin) /\ ~empty
      BY <2>2 DEF RdTick, rbin_nxt, do_rd
    <3>2. Ahead(rbin) < WqAt(STAGES)
      BY <3>1 DEF IInv, RdFlagInv
    <3>3. Ahead(rbin') = Ahead(rbin) + 1
      BY <1>1, <3>1, <3>2, IncStep DEF Ahead
    <3> QED BY <1>1, <3>2, <3>3
  <2> QED BY <2>1, <2>2
<1>7. ~empty' => Ahead(rbin') < WqAt(STAGES)
  <2> SUFFICES ASSUME ~empty' PROVE Ahead(rbin') < WqAt(STAGES)
    OBVIOUS
  <2>1. bin2gray[rbin'] # wgray_s
    BY DEF RdTick, empty_nxt, rgray_nxt
  <2>2. wgray_s = bin2gray[gray2bin[wgray_s]]
    BY Places, Decode DEF wgray_s
  <2>3. rbin' # gray2bin[wgray_s]
    BY <2>1, <2>2
  <2>4. Ahead(rbin') # WqAt(STAGES)
    BY <1>1, <1>4, <2>3, PtrInt DEF Ahead, WqAt, wgray_s, Sub
  <2>5. Ahead(rbin') \in Int
    BY <1>4, Places, PtrInt
  <2> QED BY <1>1, <1>6, <2>4, <2>5
<1>8. /\ wq' \in [1 .. STAGES -> Codes]
      /\ \A i, j \in 1 .. STAGES :
           i <= j => Ahead(gray2bin[wq'[j]]) <= Ahead(gray2bin[wq'[i]])
      /\ WqAt(STAGES) <= Ahead(gray2bin[wq'[STAGES]])
      /\ Ahead(gray2bin[wq'[1]]) <= Ahead(wp)
  <2>1. CASE wq' = wq
    BY <2>1, <1>1, Places DEF IInv, NoOverrun, WqAt
  <2>2. CASE wq' = Shift(wq, g)
    <3>1. g \in Codes /\ gray2bin[g] \in {wbin, wp}
      BY <1>1, Decode
    <3>2. Ahead(gray2bin[wq[1]]) <= Ahead(gray2bin[g])
      BY <1>1, <3>1 DEF WqAt
    <3>3. Ahead(gray2bin[g]) <= Ahead(wp)
      BY <1>1, <3>1
    <3>4. wq \in [1 .. STAGES -> Codes]
          /\ \A i, j \in 1 .. STAGES :
               i <= j => Ahead(gray2bin[wq[j]]) <= Ahead(gray2bin[wq[i]])
      BY Places DEF IInv, NoOverrun, WqAt
    <3> QED BY <2>2, <3>1, <3>2, <3>3, <3>4, ShiftOrder DEF WqAt
  <2> QED BY <2>1, <2>2 DEF RdTick
<1> QED BY <1>2, <1>3, <1>4, <1>5, <1>6, <1>7, <1>8 DEF RdPost

\* No read-clock edge.
LEMMA RdStillPost ==
  ASSUME IInv, NEW wp \in Ptr, Ahead(wbin) <= Ahead(wp), UNCHANGED rdVars
  PROVE  RdPost(wp)
<1>1. /\ wbin \in Ptr /\ rbin \in Ptr /\ Ahead(wbin) \in Int /\ Ahead(rbin) \in Int
      /\ Ahead(wp) \in Int /\ WqAt(1) \in Int /\ WqAt(1) <= Ahead(wbin)
      /\ WqAt(STAGES) \in Int
  BY Places, PtrInt DEF IInv, TypeOK, NoOverrun
<1>2. /\ wq' \in [1 .. STAGES -> Codes]
      /\ \A i, j \in 1 .. STAGES :
           i <= j => Ahead(gray2bin[wq'[j]]) <= Ahead(gray2bin[wq'[i]])
      /\ WqAt(STAGES) <= Ahead(gray2bin[wq'[STAGES]])
      /\ Ahead(gray2bin[wq'[1]]) <= Ahead(wp)
  BY <1>1, Places DEF IInv, NoOverrun, WqAt, rdVars
<1>3. /\ Ahead(rbin) <= Ahead(rbin') /\ Ahead(rbin') <= WqAt(STAGES)
      /\ ~empty' => Ahead(rbin') < WqAt(STAGES)
  BY <1>1 DEF IInv, NoOverrun, RdFlagInv, rdVars
<1>4. /\ taken' \in Word \cup {NoWord} /\ empty' \in BOOLEAN
      /\ rsync' \in 0 .. RSTAGES /\ rbin' \in Ptr /\ rgray' = bin2gray[rbin']
      /\ rbin' \in {rbin, Inc(rbin)}
  BY DEF IInv, TypeOK, rdVars
<1> QED BY <1>2, <1>3, <1>4 DEF RdPost
-----------------------------------------------------------------------------
\* The two domains' halves of a step, put together: the points have moved along
\* the old line, and the origin now moves to the new oldest copy.
LEMMA Reorigin ==
  ASSUME IInv, WrPost(rbin'), RdPost(wbin'), arst_n' \in BOOLEAN
  PROVE  IInv'
<1> DEFINE b == gray2bin[rq'[STAGES]]
           New(p) == Sub(p, b)
<1>1. TypeOK'
  BY DEF WrPost, RdPost, TypeOK, Codes
<1>2. 1 \in 1 .. STAGES /\ STAGES \in 1 .. STAGES
  BY Places
<1>3. /\ wbin' \in Ptr /\ rbin' \in Ptr /\ b \in Ptr
      /\ \A i \in 1 .. STAGES : gray2bin[rq'[i]] \in Ptr /\ gray2bin[wq'[i]] \in Ptr
  BY <1>2, Decode DEF WrPost, RdPost
<1>4. /\ \A p \in Ptr : Ahead(p) \in Int
      /\ WqAt(STAGES) \in Int /\ DEPTH \in Int
  BY <1>2, Places, PtrInt
<1>5. /\ \A i \in 1 .. STAGES : Ahead(b) <= Ahead(gray2bin[rq'[i]])
      /\ \A i \in 1 .. STAGES : Ahead(gray2bin[rq'[i]]) <= Ahead(rbin')
  <2>1. ASSUME NEW i \in 1 .. STAGES
        PROVE  Ahead(b) <= Ahead(gray2bin[rq'[i]]) /\ Ahead(gray2bin[rq'[i]]) <= Ahead(gray2bin[rq'[1]])
    <3>1. 1 <= i /\ i <= STAGES
      OBVIOUS
    <3> QED BY <1>2, <3>1 DEF WrPost
  <2>2. Ahead(gray2bin[rq'[1]]) <= Ahead(rbin')
    BY DEF WrPost
  <2> QED BY <1>2, <1>3, <1>4, <2>1, <2>2
<1>6. /\ Ahead(b) <= Ahead(rbin')
      /\ Ahead(rbin') <= WqAt(STAGES) /\ WqAt(STAGES) <= Ahead(gray2bin[wq'[STAGES]])
      /\ \A i \in 1 .. STAGES : Ahead(gray2bin[wq'[STAGES]]) <= Ahead(gray2bin[wq'[i]])
      /\ Ahead(gray2bin[wq'[1]]) <= Ahead(wbin')
      /\ Ahead(wbin') <= DEPTH
  <2>1. ASSUME NEW i \in 1 .. STAGES
        PROVE  Ahead(gray2bin[wq'[STAGES]]) <= Ahead(gray2bin[wq'[i]])
    <3>1. i <= STAGES
      OBVIOUS
    <3> QED BY <1>2, <3>1 DEF RdPost
  <2> QED BY <1>2, <1>5, <2>1 DEF WrPost, RdPost
<1>7. \A p \in Ptr : Ahead(b) <= Ahead(p) => New(p) = Ahead(p) - Ahead(b)
  BY <1>3, Rebase, Places DEF Ahead
<1>8. /\ New(rbin') = Ahead(rbin') - Ahead(b) /\ New(wbin') = Ahead(wbin') - Ahead(b)
      /\ \A i \in 1 .. STAGES :
           /\ New(gray2bin[rq'[i]]) = Ahead(gray2bin[rq'[i]]) - Ahead(b)
           /\ New(gray2bin[wq'[i]]) = Ahead(gray2bin[wq'[i]]) - Ahead(b)
  <2>1. ASSUME NEW i \in 1 .. STAGES
        PROVE  Ahead(b) <= Ahead(gray2bin[wq'[i]])
    BY <1>2, <1>3, <1>4, <1>6
  <2>2. Ahead(b) <= Ahead(wbin')
    BY <1>2, <1>3, <1>4, <1>6, <2>1
  <2> QED BY <1>3, <1>5, <1>6, <1>7, <2>1, <2>2
<1>9. 0 <= Ahead(b)
  BY <1>3, Places, PtrInt
<1>10. /\ Ahead(wbin)' = New(wbin') /\ Ahead(rbin)' = New(rbin')
       /\ \A i \in 1 .. STAGES :
            RqAt(i)' = New(gray2bin[rq'[i]]) /\ WqAt(i)' = New(gray2bin[wq'[i]])
  BY DEF Ahead, RqAt, WqAt, rgray_s
<1>11. NoOverrun'
  <2>1. ASSUME NEW i \in 1 .. STAGES, NEW j \in 1 .. STAGES, i <= j
        PROVE  RqAt(j)' <= RqAt(i)' /\ WqAt(j)' <= WqAt(i)'
    <3>1. Ahead(gray2bin[rq'[j]]) <= Ahead(gray2bin[rq'[i]])
          /\ Ahead(gray2bin[wq'[j]]) <= Ahead(gray2bin[wq'[i]])
      BY <2>1 DEF WrPost, RdPost
    <3> QED BY <1>3, <1>4, <1>8, <1>10, <3>1
  <2>2. RqAt(1)' <= Ahead(rbin)'
    BY <1>2, <1>3, <1>4, <1>5, <1>8, <1>10
  <2>3. Ahead(rbin)' <= WqAt(STAGES)'
    BY <1>2, <1>3, <1>4, <1>6, <1>8, <1>10
  <2>4. WqAt(1)' <= Ahead(wbin)' /\ Ahead(wbin)' <= DEPTH
    BY <1>2, <1>3, <1>4, <1>6, <1>8, <1>9, <1>10
  <2> QED BY <2>1, <2>2, <2>3, <2>4 DEF NoOverrun
<1>12. WrFlagInv'
  <2>1. ~full' => Ahead(wbin') < DEPTH
    BY DEF WrPost
  <2> QED BY <1>3, <1>4, <1>8, <1>9, <1>10, <2>1 DEF WrFlagInv
<1>13. RdFlagInv'
  <2>1. ~empty' => Ahead(rbin') < WqAt(STAGES)
    BY DEF RdPost
  <2> QED BY <1>2, <1>3, <1>4, <1>6, <1>8, <1>10, <2>1 DEF RdFlagInv
<1>14. ResetInv'
  BY DEF WrPost
<1> QED BY <1>1, <1>11, <1>12, <1>13, <1>14 DEF IInv

\* Every step keeps the invariant.
LEMMA StepInv == IInv /\ [Next]_vars => IInv'
<1> SUFFICES ASSUME IInv, [Next]_vars PROVE IInv'
  OBVIOUS
<1>0. /\ wbin \in Ptr /\ rbin \in Ptr /\ wgray = bin2gray[wbin] /\ rgray = bin2gray[rbin]
      /\ Ahead(wbin) \in Int /\ Ahead(rbin) \in Int /\ arst_n \in BOOLEAN
  BY Places, PtrInt DEF IInv, TypeOK
<1>1. CASE WrEdge
  <2>1. UNCHANGED <<rdVars, arst_n>> /\ rbin' = rbin
    BY <1>1 DEF WrEdge, rdVars
  <2>2. WrPost(rbin')
    BY <1>0, <1>1, <2>1, WrTickPost DEF WrEdge
  <2>3. RdPost(wbin')
    BY <1>0, <2>1, <2>2, RdStillPost DEF WrPost
  <2> QED BY <1>0, <2>1, <2>2, <2>3, Reorigin
<1>2. CASE RdEdge
  <2>1. UNCHANGED <<wrVars, arst_n>> /\ wbin' = wbin
    BY <1>2 DEF RdEdge, wrVars
  <2>2. RdPost(wbin')
    BY <1>0, <1>2, <2>1, RdTickPost DEF RdEdge
  <2>3. WrPost(rbin')
    BY <1>0, <2>1, <2>2, WrStillPost DEF RdPost
  <2> QED BY <1>0, <2>1, <2>2, <2>3, Reorigin
<1>3. CASE BothEdges
  <2>1. PICK w \in Word \cup {NoWord}, ren \in BOOLEAN :
          \E gr \in Torn(rgray, rgray_nxt(ren)), gw \in Torn(wgray, wgray_nxt(w)) :
            WrTick(w, gr) /\ RdTick(ren, gw)
    BY <1>3 DEF BothEdges
  <2>2. PICK gr \in Torn(rgray, rgray_nxt(ren)), gw \in Torn(wgray, wgray_nxt(w)) :
          WrTick(w, gr) /\ RdTick(ren, gw)
    BY <2>1
  <2>3. /\ rbin' \in {rbin, Inc(rbin)} /\ wbin' \in {wbin, Inc(wbin)}
        /\ rgray_nxt(ren) = bin2gray[rbin'] /\ wgray_nxt(w) = bin2gray[wbin']
    BY <2>2 DEF WrTick, RdTick, wbin_nxt, rbin_nxt, wgray_nxt, rgray_nxt
  <2>4. gr \in {bin2gray[rbin], bin2gray[rbin']} /\ gw \in {bin2gray[wbin], bin2gray[wbin']}
    BY <1>0, <2>2, <2>3, TornSample
  <2>5. rbin' \in Ptr /\ wbin' \in Ptr
    BY <1>0, <2>3, IncStep
  <2>6. Ahead(rbin) <= Ahead(rbin')
    <3>1. RdTick(ren, gw) /\ gw \in {bin2gray[wbin], bin2gray[wbin']}
      BY <2>2, <2>4
    <3>2. CASE rbin' = rbin
      BY <3>2, <1>0
    <3>3. CASE rbin' # rbin
      <4>1. rbin' = Inc(rbin) /\ ~empty
        BY <3>1, <3>3 DEF RdTick, rbin_nxt, do_rd
      <4>2. /\ Ahead(rbin) < WqAt(STAGES) /\ WqAt(STAGES) <= DEPTH
            /\ WqAt(STAGES) \in Int /\ DEPTH \in Int /\ DEPTH >= 2
            /\ gray2bin[rgray_s] \in Ptr
        BY <4>1, Places, PtrInt, ParamsAssumption DEF IInv, RdFlagInv
      <4>3. Ahead(rbin') = Ahead(rbin) + 1
        BY <1>0, <4>1, <4>2, IncStep DEF Ahead
      <4> QED BY <1>0, <4>3
    <3> QED BY <3>2, <3>3
  <2>7. WrPost(rbin')
    BY <2>2, <2>4, <2>5, <2>6, WrTickPost
  <2>8. RdPost(wbin')
    BY <2>2, <2>4, <2>5, <2>7, RdTickPost DEF WrPost
  <2> QED BY <1>0, <1>3, <2>7, <2>8, Reorigin DEF BothEdges
<1>4. CASE AssertReset
  <2>1. /\ wbin' = 0 /\ wgray' = bin2gray[0] /\ full' = FALSE /\ rq' = Zeros
        /\ rbin' = 0 /\ rgray' = bin2gray[0] /\ empty' = TRUE /\ wq' = Zeros
        /\ arst_n' = FALSE /\ wsync' = 0 /\ rsync' = 0 /\ taken' = NoWord /\ mem' = mem
    BY <1>4 DEF AssertReset
  <2>2. 0 \in Ptr /\ 1 \in 1 .. STAGES /\ STAGES \in 1 .. STAGES /\ 0 \in 0 .. RSTAGES
    BY ParamsAssumption DEF Ptr
  <2>3. /\ \A i \in 1 .. STAGES : rq'[i] = bin2gray[0] /\ wq'[i] = bin2gray[0]
        /\ rq' \in [1 .. STAGES -> Codes] /\ wq' \in [1 .. STAGES -> Codes]
    BY <2>1, <2>2 DEF Zeros, Codes
  <2>4. TypeOK'
    BY <2>1, <2>2, <2>3 DEF IInv, TypeOK, Codes
  <2>5. /\ Ahead(wbin)' = 0 /\ Ahead(rbin)' = 0
        /\ \A i \in 1 .. STAGES : RqAt(i)' = 0 /\ WqAt(i)' = 0
    BY <2>1, <2>2, <2>3, SubType, Decode DEF Ahead, RqAt, WqAt, rgray_s
  <2>6. NoOverrun'
    BY <2>2, <2>5, ParamsAssumption DEF NoOverrun
  <2> QED
    BY <2>1, <2>4, <2>5, <2>6, ParamsAssumption DEF IInv, WrFlagInv, RdFlagInv, ResetInv
<1>5. CASE ReleaseReset
  <2>1. UNCHANGED <<wrVars, rdVars>> /\ arst_n' = TRUE /\ rbin' = rbin /\ wbin' = wbin
    BY <1>5 DEF ReleaseReset, wrVars, rdVars
  <2> QED BY <1>0, <2>1, WrStillPost, RdStillPost, Reorigin
<1>6. CASE UNCHANGED vars
  <2>1. UNCHANGED <<wrVars, rdVars>> /\ arst_n' = arst_n /\ rbin' = rbin /\ wbin' = wbin
    BY <1>6 DEF vars, wrVars, rdVars
  <2> QED BY <1>0, <2>1, WrStillPost, RdStillPost, Reorigin
<1> QED BY <1>1, <1>2, <1>3, <1>4, <1>5, <1>6 DEF Next

THEOREM Invariance == Spec => []IInv
BY InitInv, StepInv, PTL DEF Spec

\* Types, and no Gray register or synchronizer stage ever holds a word that is not
\* the code of a pointer.
THEOREM TypeCorrect == Spec => []TypeOK
<1>1. IInv => TypeOK
  BY DEF IInv
<1> QED BY <1>1, Invariance, PTL

\* No overrun and no underrun, for every depth and synchronizer length.
THEOREM NeverOverrun == Spec => []NoOverrun
<1>1. IInv => NoOverrun
  BY DEF IInv
<1> QED BY <1>1, Invariance, PTL

-----------------------------------------------------------------------------
\* The number of stored words, and how it compares with what either side believes.
LEMMA Occupied ==
  ASSUME IInv
  PROVE  /\ Occupancy \in Nat /\ Occupancy = Ahead(wbin) - Ahead(rbin)
         /\ Occupancy <= wr_used /\ rd_used <= Occupancy
         /\ wr_used \in Nat /\ rd_used \in Nat
         /\ ~full => Occupancy < DEPTH
         /\ ~empty => Occupancy > 0
<1>1. /\ wbin \in Ptr /\ rbin \in Ptr /\ gray2bin[rgray_s] \in Ptr
      /\ gray2bin[wgray_s] \in Ptr /\ 1 \in 1 .. STAGES /\ STAGES \in 1 .. STAGES
      /\ Ahead(wbin) \in Int /\ Ahead(rbin) \in Int /\ 0 <= Ahead(rbin)
      /\ WqAt(1) \in Int /\ WqAt(STAGES) \in Int /\ DEPTH \in Int
  BY Places, PtrInt DEF IInv, TypeOK, wgray_s
<1>2. /\ Ahead(rbin) <= WqAt(STAGES) /\ WqAt(STAGES) <= WqAt(1)
      /\ WqAt(1) <= Ahead(wbin) /\ Ahead(wbin) <= DEPTH
  BY <1>1 DEF IInv, NoOverrun
<1>3. Occupancy = Ahead(wbin) - Ahead(rbin)
  BY <1>1, <1>2, Rebase DEF Occupancy, Ahead
<1>4. rd_used = WqAt(STAGES) - Ahead(rbin)
  BY <1>1, <1>2, Rebase DEF rd_used, Ahead, WqAt, wgray_s
<1>5. wr_used = Ahead(wbin)
  BY DEF wr_used, Ahead
<1>6. /\ ~full => Ahead(wbin) < DEPTH
      /\ ~empty => Ahead(rbin) < WqAt(STAGES)
  BY DEF IInv, WrFlagInv, RdFlagInv
<1> QED BY <1>1, <1>2, <1>3, <1>4, <1>5, <1>6

\* The registered flags err on the safe side.
THEOREM FlagsCorrect == Spec => []FlagsSafe
<1>1. IInv => FlagsSafe
  BY Occupied DEF FlagsSafe
<1> QED BY <1>1, Invariance, PTL

\* The threshold flags err on the safe side.
THEOREM AlmostFlagsCorrect == Spec => []AlmostFlagsSafe
<1>1. IInv => AlmostFlagsSafe
  <2> SUFFICES ASSUME IInv PROVE AlmostFlagsSafe
    OBVIOUS
  <2>1. AF_LEVEL \in Nat /\ AE_LEVEL \in Nat
    BY ParamsAssumption
  <2> QED BY <2>1, Occupied DEF AlmostFlagsSafe, almost_full, almost_empty
<1> QED BY <1>1, Invariance, PTL
-----------------------------------------------------------------------------
(* AsyncFifo implements FifoSpec: every step of the two clocks and of the *)
(* reset is a step of the abstract buffer or leaves it unchanged.          *)

Content == Word \cup {NoWord}

\* The content of a buffer of n words, addressed from a read pointer.
Window(m, r, n) ==
  [k \in 1 .. n |-> m[index(IF r + k - 1 >= 2 * DEPTH THEN r + k - 1 - 2 * DEPTH
                            ELSE r + k - 1)]]
-----------------------------------------------------------------------------
(* Three facts about sequences given by their elements.                    *)

LEMMA SeqIsFunction == \A s \in Seq(Content) : s \in [1 .. Len(s) -> Content]
OBVIOUS

LEMMA EmptySeq == ASSUME NEW s, s = [k \in 1 .. 0 |-> s[k]] PROVE s = <<>>
OBVIOUS

LEMMA AppendSeq ==
  ASSUME NEW n \in Nat, NEW f \in [1 .. n -> Content], NEW e \in Content,
         NEW g \in [1 .. n + 1 -> Content],
         \A k \in 1 .. n : g[k] = f[k], g[n + 1] = e
  PROVE  g = Append(f, e)
<1>1. f \in Seq(Content) /\ Len(f) = n
  OBVIOUS
<1>2. Append(f, e) \in [1 .. n + 1 -> Content]
  <2>1. Append(f, e) \in Seq(Content) /\ Len(Append(f, e)) = n + 1
    BY <1>1
  <2> QED BY <2>1, SeqIsFunction
<1>3. \A k \in 1 .. n + 1 : Append(f, e)[k] = g[k]
  BY <1>1
<1> QED BY <1>2, <1>3

LEMMA TailSeq ==
  ASSUME NEW n \in Nat, NEW f \in [1 .. n + 1 -> Content],
         NEW g \in [1 .. n -> Content], \A k \in 1 .. n : g[k] = f[k + 1]
  PROVE  f # <<>> /\ Head(f) = f[1] /\ g = Tail(f)
<1>1. f \in Seq(Content) /\ Len(f) = n + 1
  OBVIOUS
<1>2. f # <<>> /\ Head(f) = f[1]
  BY <1>1
<1>3. Tail(f) \in [1 .. n -> Content]
  <2>1. Tail(f) \in Seq(Content) /\ Len(Tail(f)) = n
    BY <1>1, <1>2
  <2> QED BY <2>1, SeqIsFunction
<1>4. \A k \in 1 .. n : Tail(f)[k] = g[k]
  BY <1>1
<1> QED BY <1>2, <1>3, <1>4
-----------------------------------------------------------------------------
(* The window of the memory between two pointers, as writes and reads move *)
(* its ends.                                                               *)

At(r, k) == IF r + k - 1 >= 2 * DEPTH THEN r + k - 1 - 2 * DEPTH ELSE r + k - 1

LEMMA AtType ==
  ASSUME NEW r \in Ptr, NEW k \in 1 .. DEPTH
  PROVE  At(r, k) \in Ptr /\ index(At(r, k)) \in Slot
<1>1. At(r, k) \in Ptr
  BY ParamsAssumption DEF At, Ptr
<1> QED BY <1>1, IndexType

LEMMA WindowType ==
  ASSUME NEW m \in [Slot -> Content], NEW r \in Ptr, NEW n \in Nat, n <= DEPTH
  PROVE  /\ Window(m, r, n) \in [1 .. n -> Content]
         /\ \A k \in 1 .. n : Window(m, r, n)[k] = m[index(At(r, k))]
         /\ n = 0 => Window(m, r, n) = <<>>
<1>1. Window(m, r, n) = [k \in 1 .. n |-> m[index(At(r, k))]]
  BY DEF Window, At
<1>2. \A k \in 1 .. n : k \in 1 .. DEPTH
  BY ParamsAssumption
<1>3. \A k \in 1 .. n : m[index(At(r, k))] \in Content
  BY <1>2, AtType
<1>4. n = 0 => Window(m, r, n) = <<>>
  BY <1>1, EmptySeq
<1> QED BY <1>1, <1>3, <1>4

LEMMA WindowAt ==
  ASSUME NEW m, NEW r, NEW n, NEW k \in 1 .. n
  PROVE  Window(m, r, n)[k] = m[index(At(r, k))]
BY DEF Window, At

\* A write at the end of the window does not overwrite it: fewer than DEPTH words
\* stand between the pointers, so their slots differ.
LEMMA WindowPut ==
  ASSUME NEW m \in [Slot -> Content], NEW r \in Ptr, NEW q \in Ptr, NEW n \in Nat,
         Sub(q, r) = n, n < DEPTH, NEW w \in Content
  PROVE  Window([m EXCEPT ![index(q)] = w], r, n + 1) = Append(Window(m, r, n), w)
<1> DEFINE m2 == [m EXCEPT ![index(q)] = w]
<1>1. /\ index(q) \in Slot /\ m2 \in [Slot -> Content]
      /\ m2[index(q)] = w
      /\ \A i \in Slot : i # index(q) => m2[i] = m[i]
  BY IndexType
<1> HIDE DEF m2
<1>2. /\ n + 1 \in Nat /\ n + 1 <= DEPTH /\ n <= DEPTH
      /\ \A k \in 1 .. n : k \in 1 .. DEPTH /\ k \in 1 .. n + 1
      /\ n + 1 \in 1 .. n + 1
  BY ParamsAssumption
<1>3. Window(m2, r, n + 1)[n + 1] = w
  <2>1. At(r, n + 1) = q
    BY ParamsAssumption DEF At, Sub, Ptr
  <2>2. Window(m2, r, n + 1)[n + 1] = m2[index(q)]
    BY <1>2, <2>1, WindowAt
  <2> QED BY <1>1, <2>2
<1>4. ASSUME NEW k \in 1 .. n
      PROVE  Window(m2, r, n + 1)[k] = Window(m, r, n)[k]
  <2>1. index(At(r, k)) # index(q)
    BY ParamsAssumption DEF At, Sub, Ptr, index
  <2>2. m2[index(At(r, k))] = m[index(At(r, k))]
    BY <1>1, <1>2, <2>1, AtType
  <2>3. Window(m2, r, n + 1)[k] = m2[index(At(r, k))]
    BY <1>2, WindowAt
  <2>4. Window(m, r, n)[k] = m[index(At(r, k))]
    BY WindowAt
  <2> QED BY <2>2, <2>3, <2>4
<1>5. /\ Window(m, r, n) \in [1 .. n -> Content]
      /\ Window(m2, r, n + 1) \in [1 .. n + 1 -> Content]
  BY <1>1, <1>2, WindowType
<1>6. Window(m2, r, n + 1) = Append(Window(m, r, n), w)
  BY <1>3, <1>4, <1>5, AppendSeq
<1> QED BY <1>6 DEF m2

\* A read takes the first word of the window and leaves the rest.
LEMMA WindowGet ==
  ASSUME NEW m \in [Slot -> Content], NEW r \in Ptr, NEW n \in Nat, n < DEPTH
  PROVE  /\ Window(m, r, n + 1) # <<>>
         /\ Head(Window(m, r, n + 1)) = m[index(r)]
         /\ Window(m, Inc(r), n) = Tail(Window(m, r, n + 1))
<1>1. Inc(r) \in Ptr
  BY IncStep
<1>2. /\ n + 1 \in Nat /\ n + 1 <= DEPTH /\ n <= DEPTH /\ 1 \in 1 .. n + 1
      /\ \A k \in 1 .. n : k \in 1 .. DEPTH /\ k + 1 \in 1 .. n + 1
  BY ParamsAssumption
<1>3. At(r, 1) = r
  BY ParamsAssumption DEF At, Ptr
<1>4. Window(m, r, n + 1)[1] = m[index(r)]
  BY <1>2, <1>3, WindowType
<1>5. ASSUME NEW k \in 1 .. n
      PROVE  Window(m, Inc(r), n)[k] = Window(m, r, n + 1)[k + 1]
  <2>1. At(Inc(r), k) = At(r, k + 1)
    BY ParamsAssumption DEF At, Inc, Ptr
  <2>2. Window(m, r, n + 1)[k + 1] = m[index(At(r, k + 1))]
    BY <1>2, WindowAt
  <2>3. Window(m, Inc(r), n)[k] = m[index(At(Inc(r), k))]
    BY WindowAt
  <2> QED BY <2>1, <2>2, <2>3
<1>6. /\ Window(m, Inc(r), n) \in [1 .. n -> Content]
      /\ Window(m, r, n + 1) \in [1 .. n + 1 -> Content]
  BY <1>1, <1>2, WindowType
<1> QED BY <1>4, <1>5, <1>6, TailSeq

\* Moving the read pointer up shortens the distance by one.
LEMMA IncBack ==
  ASSUME NEW p \in Ptr, NEW r \in Ptr, Sub(p, r) > 0
  PROVE  Sub(p, Inc(r)) = Sub(p, r) - 1
BY ParamsAssumption DEF Sub, Ptr, Inc
-----------------------------------------------------------------------------
LEMMA StoredWindow ==
  ASSUME IInv
  PROVE  /\ Stored = Window(mem, rbin, Occupancy)
         /\ mem \in [Slot -> Content] /\ rbin \in Ptr /\ wbin \in Ptr
         /\ Occupancy \in Nat /\ Occupancy <= DEPTH
         /\ Stored \in [1 .. Occupancy -> Content]
         /\ Len(Stored) = Occupancy
<1>1. Stored = Window(mem, rbin, Occupancy)
  BY DEF Stored, Nth, Window
<1>2. mem \in [Slot -> Content] /\ rbin \in Ptr /\ wbin \in Ptr
  BY DEF IInv, TypeOK, Content
<1>3. Occupancy \in Nat /\ Occupancy <= DEPTH
  <2>1. /\ Ahead(wbin) \in Int /\ Ahead(rbin) \in Int /\ 0 <= Ahead(rbin)
        /\ Ahead(wbin) <= DEPTH /\ DEPTH \in Int
    BY <1>2, Places, PtrInt DEF IInv, NoOverrun
  <2> QED BY <2>1, Occupied
<1>4. Stored \in [1 .. Occupancy -> Content]
  BY <1>1, <1>2, <1>3, WindowType
<1>5. Len(Stored) = Occupancy
  BY <1>3, <1>4
<1> QED BY <1>1, <1>2, <1>3, <1>4, <1>5

\* A write-clock edge accepts a word or leaves the stored words alone.
WrCase(w) ==
  \/ /\ w \in Word /\ Occupancy < DEPTH
     /\ wbin' = Inc(wbin) /\ mem' = [mem EXCEPT ![index(wbin)] = w]
  \/ /\ wbin' = wbin
     /\ mem' = mem \/ Occupancy = 0

LEMMA WrTickCase ==
  ASSUME IInv, NEW w \in Content, NEW g, WrTick(w, g)
  PROVE  WrCase(w)
<1>1. CASE wr_rst_n /\ do_wr(w)
  BY <1>1, Occupied DEF WrCase, WrTick, wbin_nxt, do_wr, Content
<1>2. CASE wr_rst_n /\ ~do_wr(w)
  BY <1>2 DEF WrCase, WrTick, wbin_nxt
<1>3. CASE ~wr_rst_n
  <2>1. wbin \in Ptr /\ rbin \in Ptr /\ Ahead(rbin) \in Int /\ 0 <= Ahead(rbin)
    BY Places, PtrInt DEF IInv, TypeOK
  <2>2. Occupancy = 0
    BY <1>3, <2>1, Occupied DEF IInv, ResetInv
  <2> QED BY <1>3, <2>2 DEF WrCase, WrTick, wbin_nxt
<1> QED BY <1>1, <1>2, <1>3

\* A read-clock edge hands over the oldest word or none.
RdCase ==
  \/ /\ Occupancy > 0
     /\ rbin' = Inc(rbin) /\ taken' = mem[index(rbin)]
  \/ rbin' = rbin /\ taken' = taken

LEMMA RdTickCase ==
  ASSUME IInv, NEW ren \in BOOLEAN, NEW g, RdTick(ren, g)
  PROVE  RdCase
BY Occupied DEF RdCase, RdTick, rbin_nxt, do_rd, rd_data

\* The two halves of an edge together are a step of the abstract buffer.
LEMMA EdgeRefines ==
  ASSUME IInv, IInv', NEW w \in Content, WrCase(w), RdCase
  PROVE  Fifo!Next \/ UNCHANGED Fifo!vars
<1> DEFINE n == Occupancy
<1>1. /\ Stored = Window(mem, rbin, n) /\ Len(Stored) = n
      /\ mem \in [Slot -> Content] /\ rbin \in Ptr /\ wbin \in Ptr
      /\ n \in Nat /\ n <= DEPTH /\ n = Sub(wbin, rbin)
      /\ DEPTH \in Nat /\ DEPTH >= 2
  BY StoredWindow, ParamsAssumption DEF Occupancy
<1>2. /\ Stored' = Window(mem', rbin', Occupancy') /\ Occupancy' = Sub(wbin', rbin')
      /\ rbin' \in Ptr /\ mem' \in [Slot -> Content]
  <2>1. Stored' = Window(mem', rbin', Occupancy') /\ Occupancy' = Sub(wbin', rbin')
    BY DEF Stored, Nth, Window, Occupancy
  <2>2. rbin' \in Ptr /\ mem' \in [Slot -> Content]
    BY DEF IInv, TypeOK, Content
  <2> QED BY <2>1, <2>2
<1> HIDE DEF n
<1> DEFINE put == w \in Word /\ n < DEPTH /\ wbin' = Inc(wbin)
                    /\ mem' = [mem EXCEPT ![index(wbin)] = w]
           still == wbin' = wbin /\ (mem' = mem \/ n = 0)
           get == n > 0 /\ rbin' = Inc(rbin) /\ taken' = mem[index(rbin)]
           keep == rbin' = rbin /\ taken' = taken
<1>3. CASE put /\ keep
  <2>1. Occupancy' = n + 1
    BY <1>1, <1>2, <1>3, IncStep
  <2>2. Window([mem EXCEPT ![index(wbin)] = w], rbin, n + 1)
          = Append(Window(mem, rbin, n), w)
    <3>1. /\ mem \in [Slot -> Content] /\ rbin \in Ptr /\ wbin \in Ptr /\ n \in Nat
          /\ Sub(wbin, rbin) = n /\ n < DEPTH
      BY <1>1, <1>3
    <3> QED BY <3>1, WindowPut, ZenonT(40)
  <2>3. Stored' = Append(Stored, w)
    BY <1>1, <1>2, <1>3, <2>1, <2>2
  <2>4. w \in Word /\ Len(Stored) < DEPTH /\ taken' = taken
    BY <1>1, <1>3
  <2>5. Fifo!Put(w)
    BY <2>3, <2>4 DEF Fifo!Put
  <2> QED BY <2>4, <2>5 DEF Fifo!Next
<1>4. CASE still /\ get
  <2>1. mem' = mem /\ Occupancy' = n - 1 /\ n - 1 \in Nat /\ n - 1 < DEPTH /\ (n - 1) + 1 = n
    BY <1>1, <1>2, <1>4, IncBack
  <2>2. /\ Stored # <<>> /\ Head(Stored) = mem[index(rbin)]
        /\ Window(mem, Inc(rbin), n - 1) = Tail(Stored)
    <3> DEFINE k == n - 1
    <3>1. /\ mem \in [Slot -> Content] /\ rbin \in Ptr /\ k \in Nat /\ k < DEPTH
          /\ k + 1 = n /\ Stored = Window(mem, rbin, n)
      BY <1>1, <2>1
    <3> HIDE DEF k
    <3>2. /\ Window(mem, rbin, k + 1) # <<>> /\ Head(Window(mem, rbin, k + 1)) = mem[index(rbin)]
          /\ Window(mem, Inc(rbin), k) = Tail(Window(mem, rbin, k + 1))
      BY <3>1, WindowGet
    <3> QED BY <3>1, <3>2 DEF k
  <2>3. Stored' = Tail(Stored)
    BY <1>2, <1>4, <2>1, <2>2
  <2>4. taken' = Head(Stored)
    BY <1>4, <2>2
  <2>5. Fifo!Get
    BY <2>2, <2>3, <2>4 DEF Fifo!Get
  <2> QED BY <2>5 DEF Fifo!Next
<1>5. CASE put /\ get
  <2>1. n - 1 \in Nat /\ n - 1 < DEPTH /\ (n - 1) + 1 = n
    BY <1>1, <1>5
  <2>2. /\ Stored # <<>> /\ Head(Stored) = mem[index(rbin)]
        /\ Window(mem, Inc(rbin), n - 1) = Tail(Stored)
    <3> DEFINE k == n - 1
    <3>1. /\ mem \in [Slot -> Content] /\ rbin \in Ptr /\ k \in Nat /\ k < DEPTH
          /\ k + 1 = n /\ Stored = Window(mem, rbin, n)
      BY <1>1, <2>1
    <3> HIDE DEF k
    <3>2. /\ Window(mem, rbin, k + 1) # <<>> /\ Head(Window(mem, rbin, k + 1)) = mem[index(rbin)]
          /\ Window(mem, Inc(rbin), k) = Tail(Window(mem, rbin, k + 1))
      BY <3>1, WindowGet
    <3> QED BY <3>1, <3>2 DEF k
  <2>3. Sub(wbin, Inc(rbin)) = n - 1 /\ Inc(rbin) \in Ptr
    BY <1>1, <1>5, IncBack, IncStep
  <2>4. Occupancy' = n
    BY <1>1, <1>2, <1>5, <2>1, <2>3, IncStep
  <2>5. Window(mem', Inc(rbin), (n - 1) + 1) = Append(Window(mem, Inc(rbin), n - 1), w)
    <3> DEFINE k == n - 1
               r == Inc(rbin)
    <3>1. /\ mem \in [Slot -> Content] /\ r \in Ptr /\ wbin \in Ptr /\ k \in Nat
          /\ Sub(wbin, r) = k /\ k < DEPTH
      BY <1>1, <2>1, <2>3
    <3>2. mem' = [mem EXCEPT ![index(wbin)] = w]
      BY <1>5
    <3> HIDE DEF k, r
    <3>3. Window([mem EXCEPT ![index(wbin)] = w], r, k + 1) = Append(Window(mem, r, k), w)
      BY <3>1, WindowPut, ZenonT(40)
    <3> QED BY <3>2, <3>3 DEF k, r
  <2>6. Stored' = Append(Tail(Stored), w)
    BY <1>2, <1>5, <2>1, <2>2, <2>4, <2>5
  <2>7. w \in Word /\ Len(Stored) < DEPTH /\ taken' = Head(Stored)
    BY <1>1, <1>5, <2>2
  <2>8. Fifo!PutGet(w)
    BY <2>2, <2>6, <2>7 DEF Fifo!PutGet
  <2> QED BY <2>7, <2>8 DEF Fifo!Next
<1>6. CASE still /\ keep
  <2>1. Occupancy' = n
    BY <1>1, <1>2, <1>6
  <2>2. Stored' = Stored
    <3>1. CASE mem' = mem
      BY <1>1, <1>2, <1>6, <2>1, <3>1
    <3>2. CASE n = 0
      BY <1>1, <1>2, <2>1, <3>2, WindowType
    <3> QED BY <1>6, <3>1, <3>2
  <2> QED BY <1>6, <2>2 DEF Fifo!vars
<1> QED BY <1>3, <1>4, <1>5, <1>6 DEF WrCase, RdCase, n

LEMMA InitRefines == Init => Fifo!Init
<1> SUFFICES ASSUME Init PROVE Fifo!Init
  OBVIOUS
<1>1. IInv
  BY InitInv
<1>2. Occupancy = 0
  BY ParamsAssumption DEF Init, Occupancy, Sub
<1>3. Stored = <<>>
  BY <1>1, <1>2, StoredWindow, WindowType
<1> QED BY <1>3 DEF Init, Fifo!Init

LEMMA StepRefines == IInv /\ IInv' /\ [Next]_vars => [Fifo!Next]_(Fifo!vars)
<1> SUFFICES ASSUME IInv, IInv', [Next]_vars PROVE Fifo!Next \/ UNCHANGED Fifo!vars
  OBVIOUS
<1>1. CASE WrEdge
  <2>1. PICK w \in Content : WrTick(w, rgray)
    BY <1>1 DEF WrEdge, Content
  <2>2. RdCase
    BY <1>1 DEF WrEdge, RdCase, rdVars
  <2> QED BY <2>1, <2>2, WrTickCase, EdgeRefines
<1>2. CASE RdEdge
  <2>1. RdCase
    BY <1>2, RdTickCase DEF RdEdge
  <2>2. WrCase(NoWord)
    BY <1>2 DEF RdEdge, WrCase, wrVars
  <2> QED BY <2>1, <2>2, EdgeRefines DEF Content
<1>3. CASE BothEdges
  <2>1. PICK w \in Content, ren \in BOOLEAN :
               \E gr \in Torn(rgray, rgray_nxt(ren)), gw \in Torn(wgray, wgray_nxt(w)) :
                 WrTick(w, gr) /\ RdTick(ren, gw)
    BY <1>3 DEF BothEdges, Content
  <2> QED BY <2>1, WrTickCase, RdTickCase, EdgeRefines
<1>4. CASE AssertReset
  <2>1. wbin' = 0 /\ rbin' = 0 /\ taken' = NoWord
    BY <1>4 DEF AssertReset
  <2>2. Occupancy' = 0
    BY <2>1, ParamsAssumption DEF Occupancy, Sub
  <2>3. Stored' = Window(mem', rbin', 0) /\ mem' \in [Slot -> Content] /\ rbin' \in Ptr
    BY <2>2 DEF Stored, Nth, Window, IInv, TypeOK, Content
  <2>4. Stored' = <<>>
    BY <2>3, WindowType, ParamsAssumption
  <2> QED BY <2>1, <2>4 DEF Fifo!Next, Fifo!Clear
<1>5. CASE ReleaseReset
  <2>1. RdCase /\ WrCase(NoWord)
    BY <1>5 DEF ReleaseReset, RdCase, WrCase, wrVars, rdVars
  <2> QED BY <2>1, EdgeRefines DEF Content
<1>6. CASE UNCHANGED vars
  <2>1. RdCase /\ WrCase(NoWord)
    BY <1>6 DEF RdCase, WrCase, vars, wrVars, rdVars
  <2> QED BY <2>1, EdgeRefines DEF Content
<1> QED BY <1>1, <1>2, <1>3, <1>4, <1>5, <1>6 DEF Next

\* The FIFO is the abstract bounded buffer, for every depth.
THEOREM Refinement == Spec => ImplementsFifo
<1>1. Spec => []IInv
  BY Invariance
<1> QED BY <1>1, InitRefines, StepRefines, PTL DEF Spec, Fifo!Spec, ImplementsFifo
=============================================================================
