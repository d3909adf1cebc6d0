------------------------------ MODULE RtspText ------------------------------
(***************************************************************************)
(* What the RTSP side makes of the text it receives: base64 (core/Util),   *)
(* RtspMessage::parse and Sdp::deserialize.                                *)
(*                                                                         *)
(* Bytes and characters are numbers.  A text is a sequence of lines; a     *)
(* line has a kind, a key and a value: "request" (the key is the method),  *)
(* "header", "words" (three words that are no request, as SDP's o= line),  *)
(* "media" (m=) and "attribute" (a=).                                      *)
(***************************************************************************)
EXTENDS Integers, Sequences, SequencesExt, FiniteSetsExt

Pad == 61    \* '='
-----------------------------------------------------------------------------
(* base64                                                                  *)

base64Chars ==
  [i \in 0 .. 63 |-> CASE i < 26 -> i + 65
                       [] i \in 26 .. 51 -> i - 26 + 97
                       [] i \in 52 .. 61 -> i - 52 + 48
                       [] i = 62 -> 43
                       [] i = 63 -> 47]

pos_of_char(chr) ==
  CASE chr \in 65 .. 90 -> chr - 65
    [] chr \in 97 .. 122 -> chr - 97 + 26
    [] chr \in 48 .. 57 -> chr - 48 + 52
    [] chr = 43 -> 62
    [] chr = 47 -> 63
    [] OTHER -> 0

\* One turn of base64Decode's loop, for the four characters after pos.  A text
\* that is not padded is read past its end: the terminating zero is a
\* character like any other, and what follows it is undefined.
Quad(in, pos, junk) ==
  LET chr(i) == IF pos + i <= Len(in) THEN in[pos + i]
                ELSE IF pos + i = Len(in) + 1 THEN 0 ELSE junk
      val(i) == pos_of_char(chr(i))
  IN <<val(1) * 4 + (val(2) \div 16)>>
     \o (IF chr(3) = Pad THEN <<>>
         ELSE <<(val(2) % 16) * 16 + (val(3) \div 4)>>
              \o (IF chr(4) \in {Pad, 46} THEN <<>>
                  ELSE <<(val(3) % 4) * 64 + val(4)>>))

base64Decode(in, junk) ==
  FlattenSeq([g \in 1 .. (Len(in) + 3) \div 4 |-> Quad(in, 4 * (g - 1), junk)])

\* One turn of base64Encode's loop.
Triple(data, pos, padding) ==
  LET d(i) == IF pos + i <= Len(data) THEN data[pos + i] ELSE 0
      left == Min({3, Len(data) - pos})
      vals == <<d(1) \div 4, (d(1) % 4) * 16 + (d(2) \div 16),
                (d(2) % 16) * 4 + (d(3) \div 64), d(3) % 64>>
  IN [i \in 1 .. left + 1 |-> base64Chars[vals[i]]]
     \o [i \in 1 .. IF padding THEN 3 - left ELSE 0 |-> Pad]

base64Encode(data, padding) ==
  FlattenSeq([g \in 1 .. (Len(data) + 2) \div 3
                |-> Triple(data, 3 * (g - 1), padding)])
-----------------------------------------------------------------------------
(* base64 as the clients have it: the bits of the one are those of the     *)
(* other, in groups of eight and of six.                                   *)

Bits(n, width) == [i \in 1 .. width |-> (n \div 2 ^ (width - i)) % 2]

Number(bits) == FoldLeft(LAMBDA n, bit : 2 * n + bit, 0, bits)

\* Full groups of bits, as numbers.
Regroup(bits, width) ==
  [g \in 1 .. Len(bits) \div width
     |-> Number(SubSeq(bits, width * (g - 1) + 1, width * g))]

BytesOf(text) ==
  LET codes == SelectSeq(text, LAMBDA c : c # Pad)
      digit(c) == CHOOSE i \in 0 .. 63 : base64Chars[i] = c
  IN Regroup(FlattenSeq([i \in DOMAIN codes |-> Bits(digit(codes[i]), 6)]), 8)

TextOf(bytes, padded) ==
  LET bits == FlattenSeq([i \in DOMAIN bytes |-> Bits(bytes[i], 8)])
      fill == [i \in 1 .. (6 - (Len(bits) % 6)) % 6 |-> 0]
      codes == Regroup(bits \o fill, 6)
  IN [i \in DOMAIN codes |-> base64Chars[codes[i]]]
     \o [i \in 1 .. IF padded THEN (4 - (Len(codes) % 4)) % 4 ELSE 0 |-> Pad]
-----------------------------------------------------------------------------
(* RtspMessage::parse and Sdp::deserialize                                 *)

Line(kind, key, val) == [kind |-> kind, key |-> key, val |-> val]

\* The method is the first word of the first three in a row, wherever in the
\* text they are.
method(text) ==
  LET lines == {i \in DOMAIN text : text[i].kind \in {"request", "words"}}
  IN IF lines = {} THEN "" ELSE text[Min(lines)].key

\* The last value of each key in the lines given.
ByKey(text, lines) ==
  [key \in {text[i].key : i \in lines}
     |-> text[Max({i \in lines : text[i].key = key})].val]

\* Mutant: a match takes the line break after the header with it.
HeadersEverySecond(text) ==
  ByKey(text, {i \in 2 .. Len(text) : text[i].kind = "header" /\ i % 2 = 0})

\* A header has a line break before it.
headers(text) ==
  ByKey(text, {i \in 2 .. Len(text) : text[i].kind = "header"})

\* The numbers of the m= lines.
media(text) == {i \in DOMAIN text : text[i].kind = "media"}

\* The attributes of the first medium.
attributes(text) ==
  LET first == Min(media(text))
      after == media(text) \ {first}
      last == IF after = {} THEN Len(text) ELSE Min(after)
  IN ByKey(text, {i \in first .. last : text[i].kind = "attribute"})

\* A text as a message: a request is parsed twice, for its headers and, from
\* its first line on, as SDP.
deserializeRequest(text) ==
  [method |-> method(text), headers |-> headers(text),
   sdp |-> IF media(text) = {} THEN <<>> ELSE <<attributes(text)>>]

header(message, key) ==
  IF key \in DOMAIN message.headers THEN message.headers[key] ELSE <<>>
=============================================================================
