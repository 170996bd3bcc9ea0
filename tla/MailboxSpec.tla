----------------------------- MODULE MailboxSpec -----------------------------
(***************************************************************************)
(* What a handshake crossing promises: a mailbox of one word.  A posted    *)
(* word is delivered whole, once, with one strobe, and before the next one *)
(* can be posted.  HandshakeMcp implements this specification.             *)
(***************************************************************************)
CONSTANTS
  Word,      \* the words that can be sent
  NoWord,    \* an empty slot
  Zero       \* what the receiver shows after reset

VARIABLES
  slot,        \* the word posted and not yet delivered, or NoWord
  delivered,   \* the word the receiver shows
  strobe       \* the receiver's one-cycle "new word" pulse

vars == <<slot, delivered, strobe>>

Init == slot = NoWord /\ delivered = Zero /\ strobe = FALSE

Post(w) ==
  /\ slot = NoWord /\ slot' = w
  /\ delivered' = delivered
  /\ strobe' \in {strobe, FALSE}

Take ==
  /\ slot # NoWord /\ slot' = NoWord
  /\ delivered' = slot
  /\ strobe' = TRUE

\* The pulse ends with the receiver's next clock.
Quiet == strobe' = FALSE /\ UNCHANGED <<slot, delivered>>

Clear == slot' = NoWord /\ delivered' = Zero /\ strobe' = FALSE

Next == Take \/ Quiet \/ Clear \/ \E w \in Word : Post(w)

Spec == Init /\ [][Next]_vars
=============================================================================
