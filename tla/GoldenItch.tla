------------------------------ MODULE GoldenItch ------------------------------
(***************************************************************************)
(* sim/synth_itch.py, which writes ITCH messages, and the reference parser *)
(* sim/golden/itch_parser.py.  What a byte holds does not matter, only     *)
(* which byte of which field of which message it is: a byte is             *)
(* <<message, field, place>>, a field the sequence of its bytes, and a     *)
(* value that a message does not carry (0 in the code) is Absent.          *)
(***************************************************************************)
EXTENDS Integers, SequencesExt

Absent == <<>>

\* The message types by letter: Add, Add with attribution, Trade, Execute with price,
\* Replace, Cancel, Delete, Execute; and two that are not supported, a short one and
\* the longest one.
AddLike   == {"A", "F", "P"}
Supported == AddLike \cup {"C", "U", "X", "D", "E"}
MsgType   == Supported \cup {"S", "I"}

Header == << <<"type", 1>>, <<"locate", 2>>, <<"tracking", 2>>, <<"timestamp", 6>> >>
OrderFields == << <<"ref", 8>>, <<"side", 1>>, <<"shares", 4>>, <<"stock", 8>>, <<"price", 4>> >>

\* What the generator packs for a message of type t, field by field with their widths.
Layout(t) ==
  Header \o
    CASE t = "A" -> OrderFields
      [] t = "F" -> OrderFields \o << <<"mpid", 4>> >>
      [] t = "P" -> OrderFields \o << <<"match", 8>> >>
      [] t = "C" -> << <<"ref", 8>>, <<"shares", 4>>, <<"match", 8>>, <<"printable", 1>>,
                       <<"price", 4>> >>
      [] t = "U" -> << <<"ref", 8>>, <<"new_ref", 8>>, <<"shares", 4>>, <<"price", 4>> >>
      [] t = "X" -> << <<"ref", 8>>, <<"shares", 4>> >>
      [] t = "D" -> << <<"ref", 8>> >>
      [] t = "E" -> << <<"ref", 8>>, <<"shares", 4>>, <<"match", 8>> >>
      [] t = "S" -> << <<"event", 1>> >>
      [] t = "I" -> << <<"auction", 39>> >>

Field(k, f) == [i \in 1 .. f[2] |-> <<k, f[1], i>>]

\* The bytes of message k of type t, and how many they are.
Frame(k, t) == FlattenSeq([n \in DOMAIN Layout(t) |-> Field(k, Layout(t)[n])])
Length == [t \in MsgType |-> Len(Frame(1, t))]

\* The value of a field of message k as it was given to the generator.
Given(k, t, name) ==
  LET at == {n \in DOMAIN Layout(t) : Layout(t)[n][1] = name}
  IN  IF at = {} THEN Absent ELSE Field(k, Layout(t)[CHOOSE n \in at : TRUE])
-----------------------------------------------------------------------------
\* raw[from:to]
Slice(raw, from, to) == SubSeq(raw, from + 1, to)

\* The reference parser on one message of type t.
parse_message(t, raw) ==
  LET at(from, to) == Slice(raw, from, to)
      parsed(nref, side, shares, price) ==
        [type |-> t, timestamp |-> at(5, 11), ref |-> at(11, 19), new_ref |-> nref,
         side |-> side, shares |-> shares, price |-> price]
  IN  CASE t \in AddLike -> parsed(at(11, 19), at(19, 20), at(20, 24), at(32, 36))
        [] t = "C" -> parsed(at(11, 19), Absent, at(19, 23), at(32, 36))
        [] t = "U" -> parsed(at(19, 27), Absent, at(27, 31), at(31, 35))
        [] t \in {"X", "E"} -> parsed(at(11, 19), Absent, at(19, 23), Absent)
        [] t = "D" -> parsed(at(11, 19), Absent, Absent, Absent)

\* The numbers of the supported messages of a stream.
supported(types) ==
  LET upto[k \in 0 .. Len(types)] ==
        IF k = 0 THEN <<>>
        ELSE IF types[k] \in Supported THEN Append(upto[k - 1], k) ELSE upto[k - 1]
  IN  upto[Len(types)]

\* ... and on a stream of framed messages of these types, numbered from 1.
parse_stream(types) ==
  LET ks == supported(types)
  IN  [n \in DOMAIN ks |-> parse_message(types[ks[n]], Frame(ks[n], types[ks[n]]))]
=============================================================================
