----------------------------- MODULE XDRStream -----------------------------
(***************************************************************************)
(* The bytes on the wire, written and read with the primitives of XDRBytes:*)
(* a decoder and its opaqueReaders (decoder.go, opaquereader.go) take them *)
(* from a stream that may end before its time.  Nothing on the wire says   *)
(* where an item begins, so the decoder gets every item wrong after the    *)
(* first one it takes too much or too little for.                          *)
(***************************************************************************)
EXTENDS Integers, SequencesExt

CONSTANTS
  Base,      \* the number of values of a byte
  Message,   \* the sequences of items a sender may send
  Limit,     \* the maxLen users give to DecodeOpaque, DecodeString and OpaqueReader
  Streamed,  \* whether users read opaques through OpaqueReader
  Truncated, \* whether the stream may end early
  Trusting   \* whether users call DecodeOpaque on a stream that ends early

ASSUME StreamAssumption ==
  Base \in Nat \ {0, 1} /\ Limit \in Nat /\ {Streamed, Truncated, Trusting} \subseteq BOOLEAN

VARIABLES
  items,     \* what the sender has sent
  input,     \* the bytes that are still to be read
  missing,   \* how many bytes at the end never arrive
  got,       \* what the decoder has returned for each item so far
  reader     \* the opaqueReader that is open, or NoReader

vars == <<items, input, missing, got, reader>>

INSTANCE XDRBytes

Byte == 0..(Base - 1)

(* What may be sent: values of the types of the encoder's methods.  It      *)
(* refuses opaques and strings that are longer than a word can say.         *)
IsItem(item) ==
  CASE item.kind \in {"unsigned int", "enum"} -> item.value \in 0..(Power[4] - 1)
    [] item.kind = "int" -> item.value \in (Power[4] \div 2 - Power[4])..(Power[4] \div 2 - 1)
    [] item.kind = "unsigned hyper" -> item.value \in 0..(Power[8] - 1)
    [] item.kind = "hyper" -> item.value \in (Power[8] \div 2 - Power[8])..(Power[8] \div 2 - 1)
    [] item.kind = "bool" -> item.value \in BOOLEAN
    [] item.kind \in {"opaque", "string"} -> item.value \in Seq(Byte) /\ Len(item.value) < Power[4]
    [] item.kind \in {"fixed opaque", "fixed string"} -> item.value \in Seq(Byte)
    [] OTHER -> FALSE

IsMessage(message) ==
  message \in Seq(Range(message)) /\ \A i \in DOMAIN message : IsItem(message[i])

ASSUME MessageAssumption == \A message \in Message : IsMessage(message)

-----------------------------------------------------------------------------
NoReader == [n |-> 0, padLen |-> 0, read |-> <<>>, open |-> FALSE]

(* A receiver goes on as long as nothing has failed.                        *)
Failed == \E i \in DOMAIN got : ~got[i].ok
Ready == ~reader.open /\ ~Failed /\ Len(got) < Len(items)
NextItem == items[Len(got) + 1]

Init ==
  /\ items \in Message
  /\ missing \in IF Truncated THEN 0..Len(EncodeAll(items)) ELSE {0}
  /\ input = SubSeq(EncodeAll(items), 1, Len(EncodeAll(items)) - missing)
  /\ got = <<>>
  /\ reader = NoReader

DecodeItem ==
  /\ Ready
  /\ NextItem.kind \in {"opaque", "string"} => missing = 0 \/ Trusting
  /\ got' = Append(got, Result(Decode(NextItem).value, Decode(NextItem).ok))
  /\ input' = After(Decode(NextItem).used)
  /\ UNCHANGED <<items, missing, reader>>

(* OpaqueReader and FixedOpaqueReader share the decoder's own reader, up to *)
(* the length of the opaque.                                                *)
unpaddedReader(len) ==  \* a mutant of newOpaqueReader
  [n |-> len, padLen |-> 0, read |-> <<>>, open |-> TRUE]
newOpaqueReader(len) ==
  [n |-> len, padLen |-> RoundUp(len) - len, read |-> <<>>, open |-> TRUE]

OpaqueReader ==
  LET u == DecodeUnsignedInt
  IN  /\ Ready /\ Streamed /\ NextItem.kind = "opaque"
      /\ input' = After(4)
      /\ IF u.ok /\ u.value \leq Limit
         THEN reader' = newOpaqueReader(u.value) /\ UNCHANGED got
         ELSE got' = Append(got, Result(<<>>, FALSE)) /\ UNCHANGED reader
      /\ UNCHANGED <<items, missing>>

FixedOpaqueReader ==
  /\ Ready /\ Streamed /\ NextItem.kind = "fixed opaque"
  /\ reader' = newOpaqueReader(Len(NextItem.value))
  /\ UNCHANGED <<items, input, missing, got>>

(* One Read returns any number of the bytes that are there.                 *)
ReadSome ==
  /\ reader.open
  /\ \E k \in 1..Smaller(reader.n, Len(input)) :
       /\ reader' = [reader EXCEPT !.n = @ - k, !.read = @ \o ReadFull(k)]
       /\ input' = After(k)
  /\ UNCHANGED <<items, missing, got>>

(* Close discards what is left of the opaque, and the padding after it.     *)
(* The copy ends without an error where the stream ends.                    *)
Close ==
  /\ reader.open
  /\ input' = After(reader.n + reader.padLen)
  /\ got' = Append(got, Result(reader.read, TRUE))
  /\ reader' = NoReader
  /\ UNCHANGED <<items, missing>>

Next == DecodeItem \/ OpaqueReader \/ FixedOpaqueReader \/ ReadSome \/ Close

Spec == Init /\ [][Next]_vars

-----------------------------------------------------------------------------
TypeOK ==
  /\ input \in Seq(Byte) /\ missing \in Nat
  /\ Len(got) \leq Len(items)
  /\ reader.n \in Nat /\ reader.padLen \in 0..3

Rest(n) == EncodeAll(SubSeq(items, n + 1, Len(items)))

(* Between two items the decoder is at the beginning of an item: every way  *)
(* to read an item consumes exactly what the encoder wrote for it, however  *)
(* much of an opaque the user read before closing it.                       *)
Aligned ==
  ~reader.open /\ ~Failed =>
    input = SubSeq(Rest(Len(got)), 1, Len(Rest(Len(got))) - missing)

(* What is returned without an error is what was sent; of an opaque that is *)
(* read through a reader, a beginning.                                      *)
ReadsWhatWasSent ==
  \A i \in DOMAIN got :
    got[i].ok =>
      \/ items[i].kind = "enum" /\ (items[i].value = 1) = got[i].value
      \/ items[i].kind # "enum" /\ got[i].value = items[i].value
      \/ /\ Streamed /\ items[i].kind \in {"opaque", "fixed opaque"}
         /\ IsPrefix(got[i].value, items[i].value)

(* An error is reported only for a reason: the stream ends in the item, its *)
(* length is over the limit, or a bool is neither 0 nor 1.                  *)
FailsForAReason ==
  Failed =>
    LET item == items[Len(got)]
    IN  \/ missing > Len(Rest(Len(got)))
        \/ item.kind \in {"opaque", "string"} /\ Len(item.value) > Limit
        \/ item.kind = "enum" /\ item.value \notin {0, 1}
=============================================================================
