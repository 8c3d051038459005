----------------------------- MODULE CodecValues -----------------------------
(***************************************************************************)
(* What codecs do with values: Encode and Decode of every codec, by        *)
(* reflection and by unsafe pointers, on the primitives of XDRBytes; and   *)
(* messages from a sender to a receiver who decodes each into the same     *)
(* variable, in both builds.                                               *)
(*                                                                         *)
(* Values.  Integers are integers, floats their bits (none is a signalling *)
(* NaN); a complex number is two of them.  Strings, slices and arrays are  *)
(* sequences (a nil slice is an empty one), maps functions, structs the    *)
(* sequence of their fields.  A pointer or an interface is <<>> when it is *)
(* nil, otherwise the sequence of what it points to or holds.              *)
(***************************************************************************)
EXTENDS Integers, SequencesExt

CONSTANTS
  Base,        \* the number of values of a byte
  MaxInt,      \* the largest int of the platform "small"; "wide" has larger ones than words
  TypeDef,     \* as in TypeCodecs
  Codec,       \* Codec[platform][key]: the codec TypeCodecs makes of a key
  Pair,        \* types of the sender and the receiver, and values sent and preset
  Cuts,        \* how many bytes of a message may arrive
  MaxMessages  \* how many messages are sent

VARIABLES
  pair,        \* the pair of types at work
  platform,    \* of the receiver: "small" or "wide"
  dest,        \* dest[build]: the receiver's variable
  sent,        \* the value sent last
  order,       \* the order in which maps are iterated
  wire,        \* what arrives of its encoding
  cut,         \* whether that is not all
  errs,        \* errs[build]: what decoding returned
  phase,       \* "idle", "refused", "sent" or "received"
  messages     \* how many values have been sent

vars == <<pair, platform, dest, sent, order, wire, cut, errs, phase, messages>>

(* The primitives, on the given bytes.                                      *)
On(bytes) == INSTANCE XDRBytes WITH input <- bytes, Limit <- 0
Item(kind, value) == [kind |-> kind, value |-> value]
Put(kind, value) == On(<<>>)!Encode(Item(kind, value))
Word == Base^4

-----------------------------------------------------------------------------
(* Errors.                                                                  *)
Error(kind) == [kind |-> kind, actual |-> 0, max |-> 0, path |-> <<>>]
NoError == Error("none")
Panic == Error("panic")
LengthError(actual, max) == [Error("length") EXCEPT !.actual = actual, !.max = max]
Failed(e) == e.kind # "none"

(* The types and fields on the way to where an error happened.              *)
WithFieldError(e, part) ==
  IF e.kind \in {"none", "panic"} THEN e ELSE [e EXCEPT !.path = <<part>> \o @]

(* What paths say for the switch of a union, and for an arm that is none.   *)
UnionSwitch == -2
NoArm == 0

(* errors.Is.                                                               *)
Is(e, target, maxInt) ==
  /\ e.kind = "length"
  /\ \/ target = "ErrLengthExceedsMax" /\ e.actual > e.max
     \/ target = "ErrLengthExceedsPlatformLimit" /\ e.actual > maxInt

-----------------------------------------------------------------------------
(* How a codec is called: in which build, on which platform, through        *)
(* Encode and Decode on a reflect.Value, which may have an address, or      *)
(* through encodeUnsafe and decodeUnsafe on a pointer; and how it will      *)
(* iterate over maps.                                                       *)
Mode(build, plat, path, addr, ord) ==
  [build |-> build, platform |-> plat, path |-> path, addr |-> addr, order |-> ord]
ByReflection(m, addr) == [m EXCEPT !.path = "reflect", !.addr = addr]
ByPointer(m) ==
  IF m.build = "default" THEN [m EXCEPT !.path = "unsafe", !.addr = TRUE]
  ELSE ByReflection(m, TRUE)

(* Structs go on by pointer once they have an address; a codec that knows   *)
(* only reflection is wrapped.                                              *)
Unwrapped(c, m) ==
  IF m.path = "unsafe" /\ c.codec \in {"mapCodec", "marshalerCodec", "errorCodec"}
  THEN ByReflection(m, TRUE) ELSE m
Entered(c, m) ==
  IF c.codec \in {"structCodec", "unionCodec"} /\ m.addr THEN ByPointer(m)
  ELSE Unwrapped(c, m)

(* The fields of a struct that have a codec.                                *)
Live(t) ==
  SelectSeq([i \in DOMAIN TypeDef[t].fields |-> i],
            LAMBDA i : TypeDef[t].fields[i].tag # << [kind |-> "Skip", values |-> <<>>] >>)

(* Which primitive a codec calls, how many bytes of its result are kept,    *)
(* and how often.                                                           *)
Calls(item, width, times) == [item |-> item, width |-> width, times |-> times]
Primitive ==
  [bool |-> Calls("bool", 4, 1),
   int8 |-> Calls("int", 1, 1), int16 |-> Calls("int", 2, 1), int32 |-> Calls("int", 4, 1),
   uint8 |-> Calls("unsigned int", 1, 1), uint16 |-> Calls("unsigned int", 2, 1),
   uint32 |-> Calls("unsigned int", 4, 1),
   int64 |-> Calls("hyper", 8, 1), uint64 |-> Calls("unsigned hyper", 8, 1),
   float32 |-> Calls("unsigned int", 4, 1), float64 |-> Calls("unsigned hyper", 8, 1),
   complex64 |-> Calls("unsigned int", 4, 2), complex128 |-> Calls("unsigned hyper", 8, 2)]

(* The label that the switch of a union selects, from a reflect.Value and   *)
(* from the bits at its address.                                            *)
SignedSwitch(kind, v) ==                 \* a mutant of SwitchValue
  IF kind = "bool" THEN (IF v THEN 1 ELSE 0) ELSE v
SwitchValue(kind, v) == IF kind = "bool" THEN (IF v THEN 1 ELSE 0) ELSE v % Word
SwitchBits(kind, v) ==
  CASE kind = "bool" -> IF v THEN 1 ELSE 0
    [] kind = "int32" -> On(On(<<>>)!EncodeInt(v))!DecodeUnsignedInt.value
    [] kind = "uint32" -> v
Label(t, v, m) ==
  LET kind == TypeDef[TypeDef[t].fields[Live(t)[1]].type].kind
  IN  IF m.path = "unsafe" THEN SwitchBits(kind, v) ELSE SwitchValue(kind, v)
ArmOf(c, label) == IF label \in DOMAIN c.cases THEN c.cases[label] ELSE c.default

(* Opaques of int8 are no []byte to reflection.                             *)
NoBytes(t, m) == m.path = "reflect" /\ TypeDef[TypeDef[t].elem].kind = "int8"
AsBytes(v) == [i \in DOMAIN v |-> v[i] % Base]
FromBytes(t, bytes) ==
  [i \in DOMAIN bytes |-> IF TypeDef[TypeDef[t].elem].kind = "int8"
                          THEN On(<<>>)!Signed(bytes[i], 1) ELSE bytes[i]]

-----------------------------------------------------------------------------
(* Encoding: what is written, and the error.                                *)
Written(bytes) == [out |-> bytes, err |-> NoError]
Refused(e) == [out |-> <<>>, err |-> e]

(* One after the other, up to the first error.                              *)
InTurn(start, n, Enc(_)) ==
  LET after[i \in 0..n] ==
        IF i = 0 THEN start
        ELSE LET r == after[i - 1]
                 next == Enc(i)
             IN  IF Failed(r.err) THEN r ELSE [out |-> r.out \o next.out, err |-> next.err]
  IN  after[n]

RECURSIVE Encode(_, _, _)

encodePrimitive(kind, v) ==
  LET p == Primitive[kind]
  IN  IF p.times = 1 THEN Put(p.item, v) ELSE Put(p.item, v[1]) \o Put(p.item, v[2])

encodeOpt(c, v, m) ==
  IF v = <<>> THEN Written(Put("bool", FALSE))
  ELSE InTurn(Written(Put("bool", TRUE)), 1, LAMBDA i : Encode(c.elems[1], v, m))

encodePtr(c, v, m) ==
  IF v = <<>> THEN Refused(Error("nil pointer"))
  ELSE Encode(c.elems[1], v[1], ByPointer(m))

encodeFixedString(c, v) ==
  IF Len(v) = c.len THEN Written(Put("fixed string", v))
  ELSE Refused(Error("length incorrect"))

encodeVarString(c, v) ==
  IF Len(v) \leq c.maxlen THEN Written(Put("string", v))
  ELSE Refused(LengthError(Len(v), c.origMax))

(* An array without an address is copied to one that has.                   *)
encodeOpaqueArray(t, v, m) ==
  IF NoBytes(t, m) THEN Refused(Panic) ELSE Written(Put("fixed opaque", AsBytes(v)))

encodeArray(c, v, m) ==
  InTurn(Written(<<>>), Len(v), LAMBDA i : Encode(c.elems[1], v[i], m))

encodeOpaqueSlice(c, t, v, m) ==
  CASE NoBytes(t, m) -> Refused(Panic)
    [] ~NoBytes(t, m) /\ Len(v) > c.maxlen -> Refused(LengthError(Len(v), c.origMax))
    [] ~NoBytes(t, m) /\ Len(v) \leq c.maxlen -> Written(Put("opaque", AsBytes(v)))

(* The elements of a slice have addresses.                                  *)
encodeSlice(c, v, m) ==
  IF Len(v) > c.maxlen THEN Refused(LengthError(Len(v), c.origMax))
  ELSE InTurn(Written(Put("unsigned int", Len(v))), Len(v),
              LAMBDA i : Encode(c.elems[1], v[i], [m EXCEPT !.addr = TRUE]))

MapRange(v, m) ==
  SetToSortSeq(DOMAIN v, LAMBDA x, y : IF m.order = "up" THEN x < y ELSE x > y)
encodeMap(c, v, m) ==
  LET ks == MapRange(v, m)
      inside == ByReflection(m, FALSE)
  IN  IF Len(ks) > c.maxlen THEN Refused(LengthError(Len(ks), c.origMax))
      ELSE InTurn(Written(Put("unsigned int", Len(ks))), 2 * Len(ks),
                  LAMBDA i : IF i % 2 = 1 THEN Encode(c.elems[1], ks[(i + 1) \div 2], inside)
                             ELSE Encode(c.elems[2], v[ks[i \div 2]], inside))

encodeField(c, t, i, v, m) == Encode(c.elems[i], v[Live(t)[i]], m)

encodeStruct(c, t, v, m) ==
  InTurn(Written(<<>>), Len(c.elems),
         LAMBDA i : LET r == encodeField(c, t, i, v, m)
                    IN  [r EXCEPT !.err = WithFieldError(@, <<t, i>>)])

(* A union is its switch, and the arm that it selects.                      *)
NoSuchArm(t) == WithFieldError(Error("arm undefined"), <<t, NoArm, -1>>)
encodeArm(c, t, switch, arm, label, v, m) ==
  LET body == encodeField(c, t, arm, v, m)
  IN  IF arm = 0 THEN [switch EXCEPT !.err = NoSuchArm(t)]
      ELSE [out |-> switch.out \o body.out, err |-> WithFieldError(body.err, <<t, arm, label>>)]
encodeSwitched(c, t, switch, label, v, m) ==
  IF Failed(switch.err) THEN [switch EXCEPT !.err = WithFieldError(@, <<t, 1, UnionSwitch>>)]
  ELSE encodeArm(c, t, switch, ArmOf(c, label), label, v, m)
encodeUnion(c, t, v, m) ==
  encodeSwitched(c, t, encodeField(c, t, 1, v, m), Label(t, v[Live(t)[1]], m), v, m)

(* The type assertion fails on a nil interface.  The MarshalXDR of the      *)
(* values in interfaces writes an unsigned int.                             *)
MarshalXDR(v) == Put("unsigned int", v[1])
encodeMarshaler(v) == IF v = <<>> THEN Refused(Panic) ELSE Written(MarshalXDR(v))

(* EncodeBy is the Encode, or encodeUnsafe, of each codec.                  *)
EncodeBy(c, t, v, m) ==
  CASE c.codec \in DOMAIN Primitive -> Written(encodePrimitive(c.codec, v))
    [] c.codec = "optCodec" -> encodeOpt(c, v, m)
    [] c.codec = "ptrCodec" -> encodePtr(c, v, m)
    [] c.codec = "fixedStringCodec" -> encodeFixedString(c, v)
    [] c.codec = "varStringCodec" -> encodeVarString(c, v)
    [] c.codec = "opaqueArrayCodec" -> encodeOpaqueArray(t, v, m)
    [] c.codec = "arrayCodec" -> encodeArray(c, v, m)
    [] c.codec = "opaqueSliceCodec" -> encodeOpaqueSlice(c, t, v, m)
    [] c.codec = "sliceCodec" -> encodeSlice(c, v, m)
    [] c.codec = "mapCodec" -> encodeMap(c, v, m)
    [] c.codec = "structCodec" -> encodeStruct(c, t, v, m)
    [] c.codec = "unionCodec" -> encodeUnion(c, t, v, m)
    [] c.codec = "marshalerCodec" -> encodeMarshaler(v)
    [] c.codec = "errorCodec" -> Refused(Error("unsupported"))
EncodeEntered(c, t, v, m) == EncodeBy(c, t, v, Entered(c, m))
Encode(k, v, m) == EncodeEntered(Codec[m.platform][k], k[1], v, m)

(* Marshal(v) and Marshal(&v).                                              *)
Marshal(t, v, build, plat, ord) ==
  Encode(<<t, <<>>>>, v, Mode(build, plat, "reflect", FALSE, ord))
MarshalPointer(t, v, build, plat, ord) ==
  Encode(<<t, <<>>>>, v, ByPointer(Mode(build, plat, "reflect", FALSE, ord)))

-----------------------------------------------------------------------------
(* Decoding into a variable that holds v: what it holds afterwards, what is *)
(* left of the bytes, and the error.                                        *)
Got(v, rest, e) == [value |-> v, rest |-> rest, err |-> e]

(* A call of a primitive.  Only a bool can be wrong when all of it is there.*)
Taken(d, bool, w) ==
  Got(d.value, On(w)!After(d.used),
      CASE d.ok -> NoError
        [] ~d.ok /\ bool /\ Len(w) \geq 4 -> Error("invalid")
        [] ~d.ok /\ (~bool \/ Len(w) < 4) -> Error("EOF"))
Take(item, value, w) == Taken(On(w)!Decode(Item(item, value)), item = "bool", w)
TakeBool(w) == Taken(On(w)!DecodeBool, TRUE, w)
Length(w) == Taken(On(w)!DecodeUnsignedInt, FALSE, w)

(* A length that exceeds a limit is refused; the error names another.       *)
Within(l, limit, named) ==
  IF ~Failed(l.err) /\ l.value > limit THEN [l EXCEPT !.err = LengthError(l.value, named)] ELSE l

(* The elements that Dec(i, v, w) decodes into v, one after the other.      *)
DecodeInTurn(v, w, n, Dec(_, _, _)) ==
  LET after[i \in 0..n] ==
        IF i = 0 THEN Got(v, w, NoError)
        ELSE LET r == after[i - 1]
             IN  IF Failed(r.err) THEN r ELSE Dec(i, r.value, r.rest)
  IN  after[n]

(* What a new variable of a type holds.                                     *)
RECURSIVE Zero(_)
ZeroOf(def) ==
  CASE def.kind = "bool" -> FALSE
    [] def.kind \in {"complex64", "complex128"} -> <<0, 0>>
    [] def.kind \in DOMAIN Primitive \ {"bool", "complex64", "complex128"} -> 0
    [] def.kind = "array" -> [i \in 1..def.len |-> Zero(def.elem)]
    [] def.kind = "struct" -> [i \in DOMAIN def.fields |-> Zero(def.fields[i].type)]
    [] OTHER -> <<>>
Zero(t) == ZeroOf(TypeDef[t])

RECURSIVE Decode(_, _, _, _)

(* The low bits are kept, with an error too; a complex number is kept only  *)
(* when all of it is there.                                                 *)
WholeWordKept(p, n) == n                 \* a mutant of Kept
Kept(p, n) ==
  CASE p.item = "bool" -> n
    [] p.item \in {"int", "hyper"} -> On(<<>>)!Signed(n % Base^p.width, p.width)
    [] p.item \in {"unsigned int", "unsigned hyper"} -> n % Base^p.width
decodePrimitive(kind, v, w) ==
  LET p == Primitive[kind]
      n == Take(p.item, 0, w)
      im == Take(p.item, 0, n.rest)
  IN  CASE p.times = 1 -> [n EXCEPT !.value = Kept(p, @)]
        [] p.times = 2 /\ Failed(n.err) -> [n EXCEPT !.value = v]
        [] p.times = 2 /\ ~Failed(n.err) ->
             [im EXCEPT !.value = IF Failed(im.err) THEN v ELSE <<n.value, @>>]

decodeOpt(c, v, w, m) ==
  LET present == TakeBool(w)
  IN  IF ~Failed(present.err) /\ present.value
      THEN Decode(c.elems[1], <<>>, present.rest, m)
      ELSE [present EXCEPT !.value = <<>>]
decodeOptLeaving(c, v, w, m) ==          \* a mutant of decodeOptUnsafe
  LET present == TakeBool(w)
  IN  IF ~Failed(present.err) /\ present.value
      THEN Decode(c.elems[1], v, present.rest, m) ELSE [present EXCEPT !.value = v]
decodeOptUnsafe(c, v, w, m) ==
  LET present == TakeBool(w)
  IN  CASE Failed(present.err) -> [present EXCEPT !.value = v]
        [] ~Failed(present.err) /\ present.value -> Decode(c.elems[1], v, present.rest, m)
        [] ~Failed(present.err) /\ ~present.value -> [present EXCEPT !.value = <<>>]

(* The pointer is set before what it points to is decoded.                  *)
decodePtr(c, w, m) ==
  LET d == Decode(c.elems[1], Zero(c.elems[1][1]), w, ByPointer(m))
  IN  [d EXCEPT !.value = <<@>>]

decodeFixedString(c, w) == Take("fixed string", [i \in 1..c.len |-> 0], w)

(* DecodeOpaque and DecodeString, into a variable that holds v.  Where the  *)
(* sum of the length and the padding is no int, there is no such buffer.    *)
TooLongFor(m, n) == m.platform = "small" /\ n > 0 /\ n + 3 > MaxInt
UncheckedBody(v, max, w, m) ==           \* a mutant of Body
  LET l == Length(w)
      d == On(w)!DecodeOpaque(l.value)
  IN  CASE Failed(l.err) -> [l EXCEPT !.value = <<>>]
        [] ~Failed(l.err) /\ TooLongFor(m, l.value) -> Got(v, l.rest, Panic)
        [] ~Failed(l.err) /\ ~TooLongFor(m, l.value) -> Got(d.value, On(w)!After(d.used), NoError)
Body(v, max, w, m) ==
  LET l == Within(Length(w), max, max)
      d == On(w)!DecodeOpaque(max)
  IN  CASE Failed(l.err) -> [l EXCEPT !.value = <<>>]
        [] ~Failed(l.err) /\ TooLongFor(m, l.value) -> Got(v, l.rest, Panic)
        [] ~Failed(l.err) /\ ~TooLongFor(m, l.value) ->
             Got(d.value, On(w)!After(d.used), NoError)

(* An error names the limit of the schema.                                  *)
decodeVarStringCapped(c, v, w, m) == Body(v, c.maxlen, w, m)  \* a mutant of decodeVarString
decodeVarString(c, v, w, m) ==
  LET s == Body(v, c.maxlen, w, m)
  IN  IF s.err.kind = "length" THEN [s EXCEPT !.err.max = c.origMax] ELSE s

(* The array is the buffer that is read into.                               *)
decodeOpaqueArray(c, t, v, w, m) ==
  LET d == Take("fixed opaque", AsBytes(v), w)
      there == On(w)!Smaller(c.len, Len(w))
  IN  IF NoBytes(t, m) THEN Got(v, w, Panic)
      ELSE [d EXCEPT !.value = FromBytes(t, SubSeq(@, 1, there))
                                 \o SubSeq(v, there + 1, c.len)]

decodeArray(c, v, w, m) ==
  DecodeInTurn(v, w, c.len,
    LAMBDA i, a, u : LET d == Decode(c.elems[1], a[i], u, m)
                     IN  [d EXCEPT !.value = [a EXCEPT ![i] = d.value]])

(* Here an error names the limit of the platform.                           *)
decodeOpaqueSlice(c, t, v, w, m) ==
  LET d == Body(AsBytes(v), c.maxlen, w, m)
  IN  IF NoBytes(t, m) THEN Got(v, d.rest, Panic)
      ELSE [d EXCEPT !.value = FromBytes(t, @)]

decodeSliceTooShort(c, t, v, w, m) ==    \* a mutant of decodeSlice
  LET l == Within(Length(w), c.maxlen - 1, c.origMax)
  IN  IF Failed(l.err) THEN [l EXCEPT !.value = v]
      ELSE decodeArray([c EXCEPT !.len = l.value],
                       [i \in 1..l.value |-> Zero(TypeDef[t].elem)], l.rest, m)
decodeSliceReusing(c, t, v, w, m) ==     \* a mutant of decodeSlice
  LET l == Within(Length(w), c.maxlen, c.origMax)
      longer == [i \in 1..l.value |-> Zero(TypeDef[t].elem)] \o SubSeq(v, l.value + 1, Len(v))
  IN  IF Failed(l.err) THEN [l EXCEPT !.value = v]
      ELSE decodeArray([c EXCEPT !.len = l.value], longer, l.rest, m)
decodeSlice(c, t, v, w, m) ==
  LET l == Within(Length(w), c.maxlen, c.origMax)
  IN  IF Failed(l.err) THEN [l EXCEPT !.value = v]
      ELSE decodeArray([c EXCEPT !.len = l.value],
                       [i \in 1..l.value |-> Zero(TypeDef[t].elem)], l.rest, m)

(* A key or a value that fails is not put into the map.                     *)
SetMapIndex(f, x, y) == [z \in DOMAIN f \cup {x} |-> IF z = x THEN y ELSE f[z]]
decodeEntry(c, t, f, w, m) ==
  LET k == Decode(c.elems[1], Zero(TypeDef[t].key), w, m)
      y == Decode(c.elems[2], Zero(TypeDef[t].elem), k.rest, m)
  IN  CASE Failed(k.err) -> [k EXCEPT !.value = f]
        [] ~Failed(k.err) /\ Failed(y.err) -> [y EXCEPT !.value = f]
        [] ~Failed(k.err) /\ ~Failed(y.err) ->
             [y EXCEPT !.value = SetMapIndex(f, k.value, y.value)]
decodeMap(c, t, v, w, m) ==
  LET l == Within(Length(w), c.maxlen, c.origMax)
  IN  IF Failed(l.err) THEN [l EXCEPT !.value = v]
      ELSE DecodeInTurn(<<>>, l.rest, l.value,
             LAMBDA i, f, u : decodeEntry(c, t, f, u, ByReflection(m, TRUE)))

decodeField(c, t, i, v, w, m) ==
  LET d == Decode(c.elems[i], v[Live(t)[i]], w, m)
  IN  [d EXCEPT !.value = [v EXCEPT ![Live(t)[i]] = d.value]]

decodeStruct(c, t, v, w, m) ==
  DecodeInTurn(v, w, Len(c.elems),
    LAMBDA i, s, u : LET d == decodeField(c, t, i, s, u, m)
                     IN  [d EXCEPT !.err = WithFieldError(@, <<t, i>>)])

(* Arms that are not selected keep what they hold.                          *)
decodeArm(c, t, switch, arm, label, m) ==
  LET body == decodeField(c, t, arm, switch.value, switch.rest, m)
  IN  IF arm = 0 THEN [switch EXCEPT !.err = NoSuchArm(t)]
      ELSE [body EXCEPT !.err = WithFieldError(@, <<t, arm, label>>)]
decodeSwitched(c, t, switch, label, m) ==
  IF Failed(switch.err) THEN [switch EXCEPT !.err = WithFieldError(@, <<t, 1, UnionSwitch>>)]
  ELSE decodeArm(c, t, switch, ArmOf(c, label), label, m)
decodeSelected(c, t, switch, m) ==
  decodeSwitched(c, t, switch, Label(t, switch.value[Live(t)[1]], m), m)
decodeUnion(c, t, v, w, m) == decodeSelected(c, t, decodeField(c, t, 1, v, w, m), m)

(* UnmarshalXDR reads the unsigned int into what the interface holds.       *)
UnmarshalXDR(v, w) ==
  LET u == Length(w) IN [u EXCEPT !.value = IF Failed(u.err) THEN v ELSE <<@>>]
decodeMarshaler(v, w) == IF v = <<>> THEN Got(v, w, Panic) ELSE UnmarshalXDR(v, w)

(* DecodeBy is the Decode, or decodeUnsafe, of each codec.                  *)
DecodeBy(c, t, v, w, m) ==
  CASE c.codec \in DOMAIN Primitive -> decodePrimitive(c.codec, v, w)
    [] c.codec = "optCodec" /\ m.path = "reflect" -> decodeOpt(c, v, w, m)
    [] c.codec = "optCodec" /\ m.path = "unsafe" -> decodeOptUnsafe(c, v, w, m)
    [] c.codec = "ptrCodec" -> decodePtr(c, w, m)
    [] c.codec = "fixedStringCodec" -> decodeFixedString(c, w)
    [] c.codec = "varStringCodec" -> decodeVarString(c, v, w, m)
    [] c.codec = "opaqueArrayCodec" -> decodeOpaqueArray(c, t, v, w, m)
    [] c.codec = "arrayCodec" -> decodeArray(c, v, w, m)
    [] c.codec = "opaqueSliceCodec" -> decodeOpaqueSlice(c, t, v, w, m)
    [] c.codec = "sliceCodec" -> decodeSlice(c, t, v, w, m)
    [] c.codec = "mapCodec" -> decodeMap(c, t, v, w, m)
    [] c.codec = "structCodec" -> decodeStruct(c, t, v, w, m)
    [] c.codec = "unionCodec" -> decodeUnion(c, t, v, w, m)
    [] c.codec = "marshalerCodec" -> decodeMarshaler(v, w)
    [] c.codec = "errorCodec" -> Got(v, w, Error("unsupported"))
DecodeEntered(c, t, v, w, m) == DecodeBy(c, t, v, w, Entered(c, m))
Decode(k, v, w, m) == DecodeEntered(Codec[m.platform][k], k[1], v, w, m)

(* Unmarshal(bytes, &v).                                                    *)
Unmarshal(t, v, w, build, plat) ==
  Decode(<<t, <<>>>>, v, w, Mode(build, plat, "reflect", TRUE, "up"))

-----------------------------------------------------------------------------
Builds == {"default", "nounsafe"}
Sender == Pair[pair].sender
Receiver == Pair[pair].receiver

Init ==
  /\ pair \in DOMAIN Pair /\ platform \in {"small", "wide"}
  /\ \E v \in {Zero(Receiver)} \cup Pair[pair].presets : dest = [b \in Builds |-> v]
  /\ sent = <<>> /\ order = "up" /\ wire = <<>> /\ cut = FALSE
  /\ errs = [b \in Builds |-> NoError]
  /\ phase = "idle" /\ messages = 0

(* The sender marshals a value; it sends nothing when that fails.           *)
Send ==
  /\ phase # "sent" /\ messages < MaxMessages
  /\ messages' = messages + 1
  /\ \E v \in Pair[pair].values, ord \in Pair[pair].orders :
       LET r == MarshalPointer(Sender, v, "default", "wide", ord)
       IN  /\ sent' = v /\ order' = ord /\ wire' = r.out
           /\ phase' = IF Failed(r.err) THEN "refused" ELSE "sent"
  /\ cut' = FALSE
  /\ UNCHANGED <<pair, platform, dest, errs>>

(* The end of the message is lost.                                          *)
Lose ==
  /\ phase = "sent" /\ ~cut
  /\ \E n \in Cuts : n < Len(wire) /\ wire' = SubSeq(wire, 1, n)
  /\ cut' = TRUE
  /\ UNCHANGED <<pair, platform, dest, sent, order, errs, phase, messages>>

(* The receiver, in each build, decodes into the variable it always uses.   *)
Receive ==
  LET d == [b \in Builds |-> Unmarshal(Receiver, dest[b], wire, b, platform)]
  IN  /\ phase = "sent" /\ phase' = "received"
      /\ dest' = [b \in Builds |-> d[b].value]
      /\ errs' = [b \in Builds |-> d[b].err]
      /\ UNCHANGED <<pair, platform, sent, order, wire, cut, messages>>

Next == Send \/ Lose \/ Receive

Spec == Init /\ [][Next]_vars

-----------------------------------------------------------------------------
RangeOf(kind) ==
  LET p == Primitive[kind]
      half == Base^p.width \div 2
  IN  IF p.item \in {"int", "hyper"} THEN (-half)..(half - 1) ELSE 0..(Base^p.width - 1)
RECURSIVE HasType(_, _)
IsOf(def, v) ==
  LET Elems(u) == \A i \in DOMAIN v : HasType(u, v[i])
  IN  CASE def.kind = "bool" -> v \in BOOLEAN
        [] def.kind \in {"complex64", "complex128"} ->
             DOMAIN v = 1..2 /\ v[1] \in RangeOf(def.kind) /\ v[2] \in RangeOf(def.kind)
        [] def.kind \in DOMAIN Primitive \ {"bool", "complex64", "complex128"} ->
             v \in RangeOf(def.kind)
        [] def.kind = "string" -> v \in Seq(0..(Base - 1))
        [] def.kind = "array" -> DOMAIN v = 1..def.len /\ Elems(def.elem)
        [] def.kind \in {"slice", "ptr"} -> Elems(def.elem)
        [] def.kind = "map" -> Elems(def.elem) /\ \A k \in DOMAIN v : HasType(def.key, k)
        [] def.kind = "struct" -> \A i \in DOMAIN def.fields : HasType(def.fields[i].type, v[i])
        [] OTHER -> Len(v) \leq 1
HasType(t, v) == IsOf(TypeDef[t], v)

(* Whatever arrives, and after every error, a variable holds a value of its *)
(* type: a narrow integer one of its range, an array all its elements.      *)
TypeOK ==
  /\ wire \in Seq(0..(Base - 1)) /\ messages \in 0..MaxMessages
  /\ \A b \in Builds : HasType(Receiver, dest[b])

Encoding(b, plat) == MarshalPointer(Receiver, dest[b], b, plat, order)

(* A message that arrives whole and decodes without an error has been read  *)
(* to its end, and the variable now encodes to the same message; only where *)
(* the receiver's integers are narrower does it keep just their low bits.   *)
ArrivesAsSent ==
  phase = "received" /\ ~cut =>
    \A b \in Builds :
      ~Failed(errs[b]) =>
        /\ Unmarshal(Receiver, dest[b], wire, b, platform).rest = <<>>
        /\ IF Pair[pair].narrows
           THEN LET again == Encoding(b, platform).out
                IN  Len(again) = Len(wire) /\ \A i \in DOMAIN wire : i % 4 = 0 => again[i] = wire[i]
           ELSE Encoding(b, platform) = Written(wire)

(* The limits and the arms of the receiver's types are the same in both     *)
(* directions: its decoder refuses a message exactly if its encoder refuses *)
(* the value, with the same error at the same place.                        *)
LimitsAgree ==
  phase = "received" /\ ~cut /\ platform = "wide" /\ ~Pair[pair].narrows =>
    \A b \in Builds :
      LET e == MarshalPointer(Receiver, sent, b, "wide", order).err
      IN  Panic \notin {e, errs[b]} => e = errs[b]

(* An optional interface has nothing to decode into unless the variable     *)
(* held something, and reflection clears it first; reflection cannot read   *)
(* or write the bytes of int8 opaques.                                      *)
MayPanic == Pair[pair].panics

(* What a variable held before, and what errors left in it, does not show   *)
(* in what is decoded into it next.                                         *)
SameAs(fresh, b) ==
  \/ MayPanic /\ fresh.err = Panic
  \/ /\ errs[b] = fresh.err
     /\ ~Failed(errs[b]) =>
          Encoding(b, "wide") = MarshalPointer(Receiver, fresh.value, b, "wide", order)
DecodesAsFresh ==
  phase = "received" =>
    \A b \in Builds : SameAs(Unmarshal(Receiver, Zero(Receiver), wire, b, platform), b)

(* With and without the nounsafe build tag, a program gets the same errors  *)
(* and the same values.                                                     *)
BuildsAgree ==
  phase = "received" =>
    \/ MayPanic /\ errs["nounsafe"] = Panic
    \/ /\ errs["default"] = errs["nounsafe"]
       /\ ~Failed(errs["default"]) =>
            Encoding("default", "wide") = Encoding("nounsafe", "wide")

(* Apart from these types, no message makes a decoder panic, whatever        *)
(* lengths it claims, except on a platform with small ints a string or an   *)
(* opaque that is too long by less than its padding.                        *)
PanicsAreKnown ==
  phase = "received" =>
    \A b \in Builds :
      errs[b] = Panic =>
        \/ MayPanic
        \/ /\ platform = "small" /\ Pair[pair].texts
           /\ \E i \in DOMAIN sent : Len(sent[i]) \leq MaxInt /\ Len(sent[i]) + 3 > MaxInt

(* Marshal(v), Marshal(&v), in either build: the same bytes up to the same  *)
(* error.                                                                   *)
EncodersAgree ==
  phase \in {"sent", "refused"} /\ ~cut =>
    LET ways == {Marshal(Sender, sent, b, "wide", order) : b \in Builds}
                  \cup {MarshalPointer(Sender, sent, b, "wide", order) : b \in Builds}
    IN  \A r \in ways :
          \/ r.out = wire /\ Failed(r.err) = (phase = "refused")
                /\ r.err = MarshalPointer(Sender, sent, "default", "wide", order).err
          \/ MayPanic /\ r.err = Panic

(* A program on a platform with small ints can tell why a length is         *)
(* refused: it exceeds the limit of the schema if larger ints do not help   *)
(* either, otherwise that of the platform.  Opaques are the exception.      *)
LengthErrorsTellWhy ==
  phase = "received" /\ platform = "small" =>
    \A b \in Builds :
      LET e == errs[b]
          wide == Unmarshal(Receiver, Zero(Receiver), wire, b, "wide").err
      IN  e.kind = "length" =>
            \/ /\ Is(e, "ErrLengthExceedsMax", MaxInt) <=> wide = e
               /\ Is(e, "ErrLengthExceedsMax", MaxInt) \/ Is(e, "ErrLengthExceedsPlatformLimit", MaxInt)
            \/ Pair[pair].opaque /\ e.max = MaxInt
=============================================================================
