------------------------------ MODULE FifoSpec ------------------------------
(***************************************************************************)
(* What a clock-crossing FIFO promises its users: a bounded first-in       *)
(* first-out buffer.  A word is either still in the buffer or has been     *)
(* handed to the consumer exactly once and in order; only a reset discards *)
(* words.  AsyncFifo implements this specification.                        *)
(***************************************************************************)
EXTENDS Naturals, Sequences

CONSTANTS
  Word,      \* what the FIFO carries (the packed {tlast, tdata} vectors)
  NoWord,    \* "no word"
  Capacity   \* how many words fit

VARIABLES
  buffer,    \* the words accepted and not yet handed over, oldest first
  taken      \* the last word handed to the consumer

vars == <<buffer, taken>>

Init == buffer = <<>> /\ taken = NoWord

\* Accept a word at the back.
Put(w) ==
  /\ Len(buffer) < Capacity
  /\ buffer' = Append(buffer, w)
  /\ taken' = taken

\* Hand over the oldest word.
Get ==
  /\ buffer # <<>>
  /\ buffer' = Tail(buffer)
  /\ taken' = Head(buffer)

\* Both at once: the two clocks may tick at the same instant.
PutGet(w) ==
  /\ buffer # <<>> /\ Len(buffer) < Capacity
  /\ buffer' = Append(Tail(buffer), w)
  /\ taken' = Head(buffer)

\* A reset empties the buffer.
Clear == buffer' = <<>> /\ taken' = NoWord

Next == Get \/ Clear \/ \E w \in Word : Put(w) \/ PutGet(w)

Spec == Init /\ [][Next]_vars
=============================================================================
