------------------------------ MODULE ItchParser ------------------------------
(***************************************************************************)
(* rtl/itch_parser.sv: bytes in, decoded messages out.  The fields are     *)
(* shift registers that take the byte at its offset; the message is handed *)
(* over by m_valid and m_ready and holds the bytes back until it is taken. *)
(* The source here drives the bytes of framed messages itself, each with   *)
(* its tlast (tb_itch_parser.drive_message); in F1Replay they come from    *)
(* the host through a FIFO.                                                *)
(***************************************************************************)
EXTENDS GoldenItch

CONSTANT MaxMsgs       \* bound: the messages of the stream

VARIABLES
  byte_cnt, msg_type_r,
  sr,            \* the shift registers loc_sr, ts_sr, ref_sr, new_ref_sr, sh_sr, pr_sr, side_r
  m_valid, out,  \* the decoded message
  msg_unsupported,
  types,         \* history: the types of the messages whose first byte was accepted
  pos,           \* and the last byte of theirs that was
  taken          \* history: what the downstream accepted

parser_vars == <<byte_cnt, msg_type_r, sr, m_valid, out, msg_unsupported, types, pos, taken>>

Zeros(n) == [i \in 1 .. n |-> <<0, "reset", 0>>]

ParserInit ==
  /\ byte_cnt = 0 /\ msg_type_r = "none" /\ m_valid = FALSE /\ msg_unsupported = FALSE
  /\ sr = [locate |-> Zeros(2), timestamp |-> Zeros(6), ref |-> Zeros(8), new_ref |-> Zeros(8),
           side |-> Zeros(1), shares |-> Zeros(4), price |-> Zeros(4)]
  /\ out = [type |-> "none"]
  /\ types = <<>> /\ pos = 0 /\ taken = <<>>

\* The byte on the wire: the next of the message under way, or the first of a new one.
Between == IF types = <<>> THEN TRUE ELSE pos = Length[Last(types)]

\* Which register takes the byte at the current offset, "none" if it is skipped.
target ==
  LET in(from, to) == byte_cnt \in from .. to
  IN  IF in(1, 2) THEN "locate" ELSE IF in(5, 10) THEN "timestamp"
      ELSE IF in(11, 18) THEN "ref"
      ELSE IF msg_type_r \in AddLike
        THEN IF in(19, 19) THEN "side" ELSE IF in(20, 23) THEN "shares"
             ELSE IF in(32, 35) THEN "price" ELSE "none"
      ELSE IF msg_type_r = "U"
        THEN IF in(19, 26) THEN "new_ref" ELSE IF in(27, 30) THEN "shares"
             ELSE IF in(31, 34) THEN "price" ELSE "none"
      ELSE IF in(19, 22) THEN "shares"
      ELSE IF msg_type_r = "C" /\ in(32, 35) THEN "price" ELSE "none"

\* The registers with the byte in them.
nxt(byte) ==
  IF target = "none" THEN sr ELSE [sr EXCEPT ![target] = Append(Tail(@), byte)]

\* The output register after the last byte.  shares is not gated: what a Delete has
\* there is left over from earlier messages.
captured(r) ==
  [type |-> msg_type_r, locate |-> r.locate, timestamp |-> r.timestamp, ref |-> r.ref,
   new_ref |-> IF msg_type_r = "U" THEN r.new_ref ELSE r.ref,
   side |-> IF msg_type_r \in AddLike THEN r.side ELSE Absent,
   shares |-> r.shares,
   price |-> IF msg_type_r \in AddLike \cup {"C", "U"} THEN r.price ELSE Absent]

\* (mutant) always ready, as the parser was before the book could be busy
s_axis_tready_Always(m_ready) == TRUE
\* (mutant) a byte is accepted only when the downstream could take a message
s_axis_tready_Joint(m_ready) == ~m_valid /\ m_ready

s_axis_tready(m_ready) == ~(m_valid /\ ~m_ready)

\* rx: byte b is accepted, of a message of type t.
Receive(byte, t, tlast) ==
  /\ sr' = nxt(byte)
  /\ msg_type_r' = IF byte_cnt = 0 THEN t ELSE msg_type_r
  /\ byte_cnt' = IF tlast THEN 0 ELSE (byte_cnt + 1) % 64
  /\ out' = IF tlast /\ msg_type_r \in Supported THEN captured(nxt(byte)) ELSE out
  /\ msg_unsupported' = (tlast /\ msg_type_r \notin Supported)

\* A clock edge of the parser: tvalid offers it byte p of message k, of type t.
Clock(tvalid, k, t, p, m_ready) ==
  LET tlast == p = Length[t]
      rx == tvalid /\ s_axis_tready(m_ready)
  IN  /\ taken' = IF m_valid /\ m_ready THEN Append(taken, out) ELSE taken
      /\ m_valid' = ((m_valid /\ ~m_ready) \/ (rx /\ tlast /\ msg_type_r \in Supported))
      /\ IF rx
           THEN /\ Receive(Frame(k, t)[p], t, tlast)
                /\ pos' = p /\ types' = IF p = 1 THEN Append(types, t) ELSE types
           ELSE /\ msg_unsupported' = FALSE
                /\ UNCHANGED <<sr, msg_type_r, byte_cnt, out, pos, types>>

\* The source drives the stream itself: it offers the next byte, or not (t is the type
\* of the message it belongs to).
Drive(tvalid, t, m_ready) ==
  /\ IF Between THEN Len(types) < MaxMsgs ELSE t = Last(types)
  /\ IF Between THEN Clock(tvalid, Len(types) + 1, t, 1, m_ready)
                ELSE Clock(tvalid, Len(types), t, pos + 1, m_ready)

\* After the last byte of the stream the edges only hand over.
Drain(m_ready) ==
  Between /\ Len(types) = MaxMsgs /\ Clock(FALSE, MaxMsgs, Last(types), pos, m_ready)

ParserNext ==
  \/ \E tvalid, m_ready \in BOOLEAN, t \in MsgType : Drive(tvalid, t, m_ready)
  \/ \E m_ready \in BOOLEAN : Drain(m_ready)

\* The source does not stop offering bytes, and the downstream is ready again and
\* again, but it need not ever be so at the same edge.
Fairness ==
  /\ WF_parser_vars(\E t \in MsgType : Drive(TRUE, t, FALSE))
  /\ WF_parser_vars((\E t \in MsgType : Drive(FALSE, t, TRUE)) \/ Drain(TRUE))

ParserSpec == ParserInit /\ [][ParserNext]_parser_vars /\ Fairness
-----------------------------------------------------------------------------
Complete == IF types # <<>> /\ ~Between THEN Front(types) ELSE types

\* Everything handed over so far with the message on hand: what the reference parser
\* makes of the complete messages, and each field the bytes the source gave for it.
\* Nothing is lost, repeated, reordered or mixed when the downstream stalls at any
\* byte.  The shares of a Delete are left out: the register still holds older ones.
DeliveredExact ==
  LET got == taken \o (IF m_valid THEN <<out>> ELSE <<>>)
      ref == parse_stream(Complete)
      of == supported(Complete)
  IN  /\ Len(got) = Len(ref)
      /\ \A n \in DOMAIN ref :
           /\ \A f \in DOMAIN ref[n] \ {"shares"} : got[n][f] = ref[n][f]
           /\ ref[n].type # "D" => got[n].shares = ref[n].shares
           /\ \A f \in {"locate", "ref", "side", "price"} :
                got[n][f] = Given(of[n], ref[n].type, f)
           /\ ref[n].shares = Given(of[n], ref[n].type, "shares")

\* No stall is for ever: every message of the stream is handed over in the end.
EveryMessageHandedOver ==
  <>[](Between /\ Len(types) = MaxMsgs /\ Len(taken) = Len(parse_stream(types)))
=============================================================================
