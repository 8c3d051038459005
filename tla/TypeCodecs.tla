----------------------------- MODULE TypeCodecs -----------------------------
(***************************************************************************)
(* Which codec a Go type with a parsed struct tag gets: Coder.buildCodec   *)
(* and the make...Codec functions it delegates to, as operators.  A codec  *)
(* is a record: the name of its Go type, the keys of the codecs it calls   *)
(* in the order in which building it looks them up, and its parameters.    *)
(*                                                                         *)
(* A parsed tag is the sequence of its entries, outermost layer first, as  *)
(* tags.ParseTag returns it; ParseError stands for an error it returns.    *)
(***************************************************************************)
EXTENDS Naturals, Sequences, FiniteSets

CONSTANTS
  TypeDef,    \* TypeDef[t]: the Go type named t, as reflection shows it
  MaxInt,     \* the largest int of the platform
  MaxUint32   \* the length limit of a type whose tag states none

Entry(k) == [kind |-> k, values |-> <<>>]
EntryWith(k, vs) == [kind |-> k, values |-> vs]
ParseError == <<Entry("error")>>

(* XDRTag.Kind, Next, OnlyValue and Trimmed.                                *)
TagKind(tag) == IF tag = <<>> THEN "Noop" ELSE Head(tag).kind
TagNext(tag) == IF tag = <<>> THEN <<>> ELSE Tail(tag)
OnlyValue(tag) == Head(tag).values[1]
Trimmed(tag) ==
  SubSeq(tag, 1, Cardinality({i \in DOMAIN tag :
                              \E j \in i..Len(tag) : tag[j].kind # "Noop"}))

-----------------------------------------------------------------------------
codecOf(name, inner) ==
  [codec |-> name, elems |-> inner, len |-> 0, maxlen |-> 0, origMax |-> 0,
   cases |-> <<>>, default |-> 0]
errorCodec(lookedUp) == codecOf("errorCodec", lookedUp)

(* A panic while the codec is built: there is no codec at all.              *)
BuildPanic == codecOf("panic", <<>>)

(* Strip the Opt entry; the codec of the same type without it does the rest.*)
makeOptCodec(t, tag) ==
  codecOf("optCodec", << <<t, Trimmed(<<Entry("Noop")>> \o TagNext(tag))>> >>)

makePtrCodec(t, tag) ==
  codecOf("ptrCodec", << <<TypeDef[t].elem, TagNext(tag)>> >>)

TagLimit(tag) == IF TagKind(tag) = "MaxLen" THEN OnlyValue(tag) ELSE MaxUint32

(* Length limits are capped at maxInt; errors still name the one specified. *)
Limited(c, max) ==
  [c EXCEPT !.maxlen = IF max > MaxInt THEN MaxInt ELSE max, !.origMax = max]

makeStringCodec(tag) ==
  IF TagNext(tag) # <<>> THEN errorCodec(<<>>)
  ELSE CASE TagKind(tag) = "Len" ->
              IF OnlyValue(tag) > MaxInt
              THEN errorCodec(<<>>)
              ELSE [codecOf("fixedStringCodec", <<>>) EXCEPT !.len = OnlyValue(tag)]
         [] TagKind(tag) \in {"MaxLen", "Noop"} ->
              Limited(codecOf("varStringCodec", <<>>), TagLimit(tag))
         [] OTHER -> errorCodec(<<>>)

makeArrayCodec(t, tag) ==
  CASE TagKind(tag) # "Noop" -> errorCodec(<<>>)
    [] TagKind(tag) = "Noop" ->
         IF TagKind(TagNext(tag)) = "Opaque"
         THEN [codecOf("opaqueArrayCodec", <<>>) EXCEPT !.len = TypeDef[t].len]
         ELSE [codecOf("arrayCodec", << <<TypeDef[t].elem, TagNext(tag)>> >>)
                 EXCEPT !.len = TypeDef[t].len]

makeSliceCodec(t, tag) ==
  CASE TagKind(tag) \notin {"MaxLen", "Noop"} -> errorCodec(<<>>)
    [] TagKind(tag) \in {"MaxLen", "Noop"} ->
         IF TagKind(TagNext(tag)) = "Opaque"
         THEN Limited(codecOf("opaqueSliceCodec", <<>>), TagLimit(tag))
         ELSE Limited(codecOf("sliceCodec", << <<TypeDef[t].elem, TagNext(tag)>> >>),
                      TagLimit(tag))

(* The keys of a map are looked up without a tag.                           *)
makeMapCodec(t, tag) ==
  IF TagKind(tag) \notin {"MaxLen", "Noop"}
  THEN errorCodec(<<>>)
  ELSE Limited(codecOf("mapCodec", << <<TypeDef[t].key, <<>>>>,
                                    <<TypeDef[t].elem, TagNext(tag)>> >>),
               TagLimit(tag))

-----------------------------------------------------------------------------
(* The tag ParseTag returns for a field annotated `union:switch`.           *)
validForUnionSwitch(t) ==
  TypeDef[t].kind \in {"bool", "int", "int8", "int16", "int32", "int64",
                       "uint", "uint8", "uint16", "uint32"}
SwitchTag(t) ==
  IF validForUnionSwitch(t) THEN <<Entry("UnionSwitch")>> ELSE ParseError

(* Structs and unions.  The first field that is not skipped decides which   *)
(* one a type is; building stops at the first field that is wrong.          *)
Fields(t) ==
  SelectSeq(TypeDef[t].fields, LAMBDA f : TagKind(f.tag) # "Skip")

UpToFirst(n, Wrong(_)) ==
  CHOOSE i \in 0..n : /\ \A j \in 1..i : ~Wrong(j)
                      /\ i < n => Wrong(i + 1)

FieldKeys(fs, Tag(_), n) == [i \in 1..n |-> <<fs[i].type, Tag(fs[i].tag)>>]

Unparsed(f) == f.tag = ParseError

structCodecOf(fs) ==
  LET good == UpToFirst(Len(fs), LAMBDA i : Unparsed(fs[i]))
      keys == FieldKeys(fs, LAMBDA tag : tag, good)
  IN  IF good < Len(fs) THEN errorCodec(keys) ELSE codecOf("structCodec", keys)

(* The case labels of a field of a union.                                   *)
CaseValues(f) ==
  IF TagKind(f.tag) = "UnionCases"
  THEN {f.tag[1].values[i] : i \in DOMAIN f.tag[1].values} ELSE {}
IsDefault(f) == TagKind(f.tag) = "UnionDefault"

(* Field i repeats a case of its own or of an earlier field.  Its codec has *)
(* been looked up by the time that shows.                                   *)
Repeats(fs, i) ==
  \/ TagKind(fs[i].tag) = "UnionCases"
       /\ Cardinality(CaseValues(fs[i])) < Len(fs[i].tag[1].values)
  \/ \E j \in 2..(i - 1) :
       \/ CaseValues(fs[i]) \cap CaseValues(fs[j]) # {}
       \/ IsDefault(fs[i]) /\ IsDefault(fs[j])

unionCodecOf(fs) ==
  LET body == 2..Len(fs)
      good == UpToFirst(Len(fs), LAMBDA i : i > 1 /\
                                   (Unparsed(fs[i]) \/ Repeats(fs, i)))
      seen == IF good < Len(fs) /\ ~Unparsed(fs[good + 1]) THEN good + 1 ELSE good
      keys == FieldKeys(fs, TagNext, seen)
      labels == UNION {CaseValues(fs[i]) : i \in body}
  IN  IF TypeDef[fs[1].type].kind \notin {"int32", "uint32", "bool"} THEN BuildPanic
      ELSE IF good < Len(fs) THEN errorCodec(keys)
      ELSE [codecOf("unionCodec", keys) EXCEPT
              !.cases = [v \in labels |-> CHOOSE i \in body : v \in CaseValues(fs[i])],
              !.default = IF \E i \in body : IsDefault(fs[i])
                          THEN CHOOSE i \in body : IsDefault(fs[i]) ELSE 0]

codecOfFields(fs) ==
  IF fs # <<>> /\ TagKind(fs[1].tag) = "UnionSwitch"
  THEN unionCodecOf(fs) ELSE structCodecOf(fs)
makeStructCodec(t) == codecOfFields(Fields(t))

-----------------------------------------------------------------------------
PrimitiveKinds ==
  {"bool", "int8", "int16", "int32", "uint8", "uint16", "uint32",
   "int64", "uint64", "float32", "float64", "complex64", "complex128"}

(* buildCodec: opt first, then the kinds that interpret tags themselves,    *)
(* then a type's own MarshalXDR, then the kinds that take no tag.           *)
buildCodec(t, tag) ==
  LET kind == TypeDef[t].kind
  IN  IF TagKind(tag) = "Opt" THEN makeOptCodec(t, tag)
      ELSE CASE kind = "ptr" -> makePtrCodec(t, tag)
             [] kind = "string" -> makeStringCodec(tag)
             [] kind = "array" -> makeArrayCodec(t, tag)
             [] kind = "slice" -> makeSliceCodec(t, tag)
             [] kind = "map" -> makeMapCodec(t, tag)
             [] OTHER ->
                  IF tag # <<>> THEN errorCodec(<<>>)
                  ELSE IF TypeDef[t].marshals THEN codecOf("marshalerCodec", <<>>)
                  ELSE CASE kind \in PrimitiveKinds -> codecOf(kind, <<>>)
                         [] kind = "struct" -> makeStructCodec(t)
                         [] OTHER -> errorCodec(<<>>)

(* What the registry needs to know of a key.                                *)
LookupsOf(k) == buildCodec(k[1], k[2]).elems
OutcomeOf(k) ==
  CASE buildCodec(k[1], k[2]).codec = "panic" -> "panic"
    [] buildCodec(k[1], k[2]).codec = "errorCodec" -> "errorCodec"
    [] OTHER -> "codec"

(* Every key that building the given keys looks up, directly or not; Depth  *)
(* bounds how many types inside one another are followed.                   *)
KeysFrom(start, Depth) ==
  LET reach[n \in 0..Depth] ==
        IF n = 0 THEN start
        ELSE reach[n - 1] \cup
             UNION {{LookupsOf(k)[i] : i \in DOMAIN LookupsOf(k)} : k \in reach[n - 1]}
  IN  reach[Depth]
=============================================================================
