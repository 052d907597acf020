------------------------------- MODULE Codecs -------------------------------
(***************************************************************************)
(* The codecs between the shop and LiqPay: base64 (LiqPayHelper) carries   *)
(* what is signed, and the report comes back in a form (FormParser).       *)
(* Everything is a sequence of bytes, 0..255.                              *)
(***************************************************************************)
EXTENDS Integers, Sequences, FiniteSetsExt, SequencesExt

Percent == 37
Ampersand == 38
Plus == 43
Equals == 61
Space == 32

\* The alphabet of base64, A to Z, a to z, 0 to 9, + and /.
Digit(d) == CASE d < 26 -> 65 + d
              [] d \in 26..51 -> 71 + d
              [] d \in 52..61 -> d - 4
              [] d = 62 -> Plus
              [] d = 63 -> 47
DigitOf == [c \in {Digit(d) : d \in 0..63} |-> CHOOSE d \in 0..63 : Digit(d) = c]

\* val << k for an int of 32 bits: the high bits are lost, and the sign may
\* change.
ShiftLeft(val, k) ==
  LET kept == val % 2^(32 - k)
  IN  (IF kept < 2^(31 - k) THEN kept ELSE kept - 2^(32 - k)) * 2^k
Bits(val, from, width) == (val \div 2^from) % 2^width

\* A faulty variant of EncodeByte: val has 8 bits.
EncodeByteNarrow(state, byte) ==
  LET val == byte
      bits == state.valb + 8
      second == bits >= 6
  IN  [val |-> val,
       valb |-> bits - (IF second THEN 12 ELSE 6),
       out |-> state.out \o <<Digit(Bits(val, bits, 6))>>
                         \o IF second THEN <<Digit(Bits(val, bits - 6, 6))>> ELSE <<>>]

\* The loop of base64_encode: a byte yields one digit, or two.
EncodeByte(state, byte) ==
  LET val == ShiftLeft(state.val, 8) + byte
      bits == state.valb + 8
      second == bits >= 6
  IN  [val |-> val,
       valb |-> bits - (IF second THEN 12 ELSE 6),
       out |-> state.out \o <<Digit(Bits(val, bits, 6))>>
                         \o IF second THEN <<Digit(Bits(val, bits - 6, 6))>> ELSE <<>>]

Encode(bytes) ==
  LET all == FoldLeft(EncodeByte, [val |-> 0, valb |-> -6, out |-> <<>>], bytes)
      rest == IF all.valb = -6 THEN <<>>
              ELSE <<Digit(Bits(ShiftLeft(all.val, 8), all.valb + 8, 6))>>
      digits == all.out \o rest
  IN  digits \o [i \in 1..((-Len(digits)) % 4) |-> Equals]

\* The loop of base64_decode up to the first '='; a byte that is no digit is
\* passed over.
DecodeDigit(state, byte) ==
  IF byte \notin DOMAIN DigitOf THEN state
  ELSE LET val == ShiftLeft(state.val, 6) + DigitOf[byte]
           bits == state.valb + 6
       IN  [val |-> val,
            valb |-> IF bits >= 0 THEN bits - 8 ELSE bits,
            out |-> state.out \o IF bits >= 0 THEN <<Bits(val, bits, 8)>> ELSE <<>>]

FirstIn(bytes, byte) == Min({i \in DOMAIN bytes : bytes[i] = byte} \cup {Len(bytes) + 1})
Decode(bytes) ==
  LET digits == SubSeq(bytes, 1, FirstIn(bytes, Equals) - 1)
  IN  FoldLeft(DecodeDigit, [val |-> 0, valb |-> -8, out |-> <<>>], digits).out

\* url_decode.  An escape is two digits in hexadecimal, of either case; over
\* other bytes stoi may throw, which ends the callback before it has done
\* anything, and what it else makes of them is left out.
HexOf(c) == IF c >= 97 THEN c - 87 ELSE IF c >= 65 THEN c - 55 ELSE c - 48
UrlDecode(value) ==
  LET from[i \in 1..(Len(value) + 3)] ==
        IF i > Len(value) THEN <<>>
        ELSE IF value[i] = Percent /\ i + 2 <= Len(value)
             THEN <<16 * HexOf(value[i + 1]) + HexOf(value[i + 2])>> \o from[i + 3]
        ELSE <<IF value[i] = Plus THEN Space ELSE value[i]>> \o from[i + 1]
  IN  from[1]

\* parse_form_urlencoded: the fields between the ampersands that have a '=',
\* by the key before it; of two with one key the later counts.
ParseForm(body) ==
  LET FieldAt(i) == LET rest == SubSeq(body, i, Len(body))
                    IN  SubSeq(rest, 1, FirstIn(rest, Ampersand) - 1)
      Key(field) == SubSeq(field, 1, FirstIn(field, Equals) - 1)
      Value(field) == SubSeq(field, FirstIn(field, Equals) + 1, Len(field))
      starts == {i \in DOMAIN body : /\ i = 1 \/ body[i - 1] = Ampersand
                                     /\ Equals \in ToSet(FieldAt(i))}
  IN  [key \in {Key(FieldAt(i)) : i \in starts} |->
         UrlDecode(Value(FieldAt(Max({i \in starts : Key(FieldAt(i)) = key}))))]
-----------------------------------------------------------------------------
\* What the sender of a form does: it escapes the bytes of a set, with digits
\* above 9 that begin with its ten, 'A' or 'a'.
HexDigit(d, ten) == IF d < 10 THEN 48 + d ELSE ten + (d - 10)
Escape(bytes, sender) ==
  FlattenSeq([i \in DOMAIN bytes |->
    IF bytes[i] \in sender.escaped
    THEN <<Percent, HexDigit(bytes[i] \div 16, sender.ten), HexDigit(bytes[i] % 16, sender.ten)>>
    ELSE <<bytes[i]>>])

TheData == <<100, 97, 116, 97>>
TheSignature == <<115, 105, 103>>
FormOf(data, signature, sender) ==
  TheData \o <<Equals>> \o Escape(data, sender) \o <<Ampersand>>
    \o TheSignature \o <<Equals>> \o Escape(signature, sender)

\* A payload that was encoded, put in a form with a signature and sent comes
\* out as it was, and so does the signature, as long as the sender escapes the
\* '+', which a form reads as a space: for every length, and so every padding
\* and every number of bytes that have left the 32 bits of val.
SurvivesTheForm(payloads, senders) ==
  \A payload \in payloads, sender \in senders :
    LET data == Encode(payload)
        fields == ParseForm(FormOf(data, data, sender))
    IN  /\ DOMAIN fields = {TheData, TheSignature}
        /\ fields[TheData] = data /\ fields[TheSignature] = data
        /\ Decode(fields[TheData]) = payload
        /\ Len(data) % 4 = 0
=============================================================================
