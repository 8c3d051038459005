------------------------------ MODULE XDRBytes ------------------------------
(***************************************************************************)
(* The primitives of the encoder and the decoder on bytes: what the        *)
(* encoder writes (internal/coder/encoder.go), and what the decoder makes  *)
(* of the bytes that are left of its input (decoder.go).  Everything XDR   *)
(* writes is a multiple of four bytes long.                                *)
(*                                                                         *)
(* A byte has Base values (256 in the program, fewer when it is checked),  *)
(* a word four bytes, a hyper eight.                                       *)
(***************************************************************************)
EXTENDS Integers, SequencesExt

CONSTANTS
  Base,      \* the number of values of a byte
  Limit,     \* the maxLen that users give to DecodeOpaque and DecodeString
  input      \* the bytes that are still to be read

-----------------------------------------------------------------------------
(* How many numbers n bytes can hold, and a shift by that many bytes.       *)
Power[n \in 0..8] == IF n = 0 THEN 1 ELSE Base * Power[n - 1]

(* The encoder.  Numbers are written most significant byte first.           *)
Bytes(n, u) == [i \in 1..n |-> (u \div Power[n - i]) % Base]

EncodeUnsignedInt(u) == Bytes(4, u)
EncodeInt(i) == EncodeUnsignedInt(i % Power[4])
EncodeBool(b) == EncodeInt(IF b THEN 1 ELSE 0)
EncodeUnsignedHyper(u) == Bytes(8, u)
EncodeHyper(i) == EncodeUnsignedHyper(i % Power[8])

pad == <<0, 0, 0, 0>>
PaddingAfter(len) == (4 - (len % 4)) % 4

EncodeFixedOpaque(buf) == buf \o SubSeq(pad, 1, PaddingAfter(Len(buf)))
EncodeOpaque(buf) == EncodeUnsignedInt(Len(buf)) \o EncodeFixedOpaque(buf)
EncodeFixedString(s) == s \o SubSeq(pad, 1, PaddingAfter(Len(s)))
EncodeString(s) == EncodeUnsignedInt(Len(s)) \o EncodeFixedString(s)

Encode(item) ==
  CASE item.kind = "unsigned int" -> EncodeUnsignedInt(item.value)
    [] item.kind = "int" -> EncodeInt(item.value)
    [] item.kind = "bool" -> EncodeBool(item.value)
    [] item.kind = "enum" -> EncodeUnsignedInt(item.value)
    [] item.kind = "unsigned hyper" -> EncodeUnsignedHyper(item.value)
    [] item.kind = "hyper" -> EncodeHyper(item.value)
    [] item.kind = "opaque" -> EncodeOpaque(item.value)
    [] item.kind = "fixed opaque" -> EncodeFixedOpaque(item.value)
    [] item.kind = "string" -> EncodeString(item.value)
    [] item.kind = "fixed string" -> EncodeFixedString(item.value)

EncodeAll(message) == FlattenSeq([i \in DOMAIN message |-> Encode(message[i])])

-----------------------------------------------------------------------------
(* The decoder.  io.ReadFull takes n bytes, or what there is and fails; the *)
(* buffer it fills was zero before.                                         *)
Smaller(m, n) == IF m < n THEN m ELSE n
Enough(n) == n \leq Len(input)
ReadFull(n) ==
  [i \in 1..n |-> IF i \leq Len(input) THEN input[i] ELSE 0]
After(n) == SubSeq(input, n + 1, Len(input))

Number(bytes) ==
  LET upTo[i \in 0..Len(bytes)] == IF i = 0 THEN 0 ELSE upTo[i - 1] * Base + bytes[i]
  IN  upTo[Len(bytes)]
Unsigned(u, n) == u                    \* a mutant of Signed
Signed(u, n) == IF u < Power[n] \div 2 THEN u ELSE u - Power[n]

Result(value, ok) == [value |-> value, ok |-> ok]

(* Each returns what the caller gets and how many bytes are consumed.       *)
DecodeUnsignedInt == [value |-> Number(ReadFull(4)), ok |-> Enough(4), used |-> 4]
DecodeInt == [DecodeUnsignedInt EXCEPT !.value = Signed(@, 4)]
DecodeUnsignedHyper == [value |-> Number(ReadFull(8)), ok |-> Enough(8), used |-> 8]
DecodeHyper == [DecodeUnsignedHyper EXCEPT !.value = Signed(@, 8)]
DecodeFalse ==                          \* a mutant of DecodeBool
  LET u == DecodeUnsignedInt
  IN  [u EXCEPT !.value = (@ = 1), !.ok = @ /\ u.value < 1]
DecodeBool ==
  LET u == DecodeUnsignedInt
  IN  [u EXCEPT !.value = (@ = 1), !.ok = @ /\ u.value \in {0, 1}]

RoundToNext(len) == (len \div 4 + 1) * 4  \* a mutant of RoundUp
RoundUp(len) == ((len + 3) \div 4) * 4

(* The error of the ReadFull for the body is not returned.                  *)
DecodeOpaque(maxLen) ==
  LET u == DecodeUnsignedInt
      body == SubSeq(ReadFull(4 + RoundUp(u.value)), 5, 4 + u.value)
  IN  IF ~u.ok \/ u.value > maxLen
      THEN [value |-> <<>>, ok |-> FALSE, used |-> 4]
      ELSE [value |-> body, ok |-> TRUE, used |-> 4 + RoundUp(u.value)]
DecodeString(maxLen) == DecodeOpaque(maxLen)

DecodeFixedOpaque(len) ==
  [value |-> ReadFull(len), ok |-> Enough(RoundUp(len)), used |-> RoundUp(len)]
DecodeFixedString(len) == DecodeFixedOpaque(len)

(* What the receiver, who knows the kinds of the items, calls for one.      *)
Decode(item) ==
  CASE item.kind = "unsigned int" -> DecodeUnsignedInt
    [] item.kind = "int" -> DecodeInt
    [] item.kind = "bool" -> DecodeBool
    [] item.kind = "enum" -> DecodeBool
    [] item.kind = "unsigned hyper" -> DecodeUnsignedHyper
    [] item.kind = "hyper" -> DecodeHyper
    [] item.kind = "opaque" -> DecodeOpaque(Limit)
    [] item.kind = "fixed opaque" -> DecodeFixedOpaque(Len(item.value))
    [] item.kind = "string" -> DecodeString(Limit)
    [] item.kind = "fixed string" -> DecodeFixedString(Len(item.value))
=============================================================================
