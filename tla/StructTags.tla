----------------------------- MODULE StructTags -----------------------------
(***************************************************************************)
(* From the text of struct tags to the codec of a struct or a union:       *)
(* tags.ParseTag on bytes, and the loop of makeStructCodec that parses one *)
(* field after the other.  Whether a type is a union shows while its       *)
(* fields are parsed, and what is legal in a tag depends on it.            *)
(*                                                                         *)
(* The text of a tag is split at its slashes: lead is what its `union:`    *)
(* part says, or "none", or "-" for a skipped field; parts are the others, *)
(* each a name and the number after its colon, if that is one.             *)
(***************************************************************************)
EXTENDS TagBytes

CONSTANTS
  TypeDef, MaxInt, MaxUint32,   \* as in TypeCodecs
  Struct      \* the structs: sequences of fields, each a type and a text

Codecs == INSTANCE TypeCodecs

(* Numbers in a tag are 32 bits wide, and so is their count.                *)
IsWord(v) == v \in Nat /\ v \div 16777216 < 256
AreWords(values) ==
  values \in Seq(Range(values)) /\ IsWord(Len(values)) /\ \A v \in Range(values) : IsWord(v)

(* The text of a tag as it comes out of the splitting: `default` and        *)
(* `switch` have no numbers, a `len` or a `maxlen` at most one.             *)
IsText(text) ==
  /\ text.lead \in {"-", "none", "switch", "default", "cases", "unparsable"}
  /\ AreWords(text.values) /\ (text.lead \in {"switch", "default"} => text.values = <<>>)
  /\ text.parts \in Seq(Range(text.parts))
  /\ \A p \in Range(text.parts) :
       /\ AreWords(p.values) /\ Len(p.values) \leq 1
       /\ p.name \notin {"len", "maxlen"} => p.values = <<>>

(* The types of the elements are types, and the structs are structs.        *)
TypesWithElements == {t \in DOMAIN TypeDef : TypeDef[t].kind \in {"array", "map", "ptr", "slice"}}
ASSUME StructAssumption ==
  /\ "none" \notin DOMAIN TypeDef
  /\ \A t \in TypesWithElements : TypeDef[t].elem \in DOMAIN TypeDef
  /\ \A s \in Struct :
       /\ s \in Seq(Range(s))
       /\ \A f \in Range(s) : f.type \in DOMAIN TypeDef /\ IsText(f.text)

VARIABLES
  struct,     \* the struct whose codec is built
  i,          \* the index of the next field
  isUnion,    \* "Maybe", "NotInUnion" or "InUnion"
  phase,      \* which of the three loops runs, or "done"
  tag,        \* the tag of the field before i
  keys,       \* the codecs that makeField has looked up: type and bytes
  cases,      \* the field of each case label
  defaultCase,\* the default field, or 0
  codec       \* the name of the codec returned; how the build panics

vars == <<struct, i, isUnion, phase, tag, keys, cases, defaultCase, codec>>

-----------------------------------------------------------------------------
(* ParseTag.  First the part that belongs to the enclosing struct.          *)
KindOf(t) == TypeDef[t].kind
Tagged(xt, ok, u) == [tag |-> xt, ok |-> ok, isUnion |-> u]

LeadForgotten(t, text, u) ==            \* a mutant of Lead
  CASE text.lead = "none" -> Tagged(<<>>, TRUE, IF u = "Maybe" THEN "NotInUnion" ELSE u)
    [] text.lead = "switch" ->
         Tagged(EntryBytes("UnionSwitch", <<>>),
                u = "Maybe" /\ Codecs!validForUnionSwitch(t), "InUnion")
    [] text.lead \in {"default", "cases", "unparsable"} ->
         Tagged(EntryBytes(IF text.lead = "default" THEN "UnionDefault" ELSE "UnionCases",
                           text.values),
                u = "InUnion" /\ text.lead # "unparsable", u)
LeadKeepsMaybe(t, text, u) ==           \* a mutant of Lead
  CASE text.lead = "none" -> Tagged(<<>>, u # "InUnion", u)
    [] text.lead # "none" -> LeadForgotten(t, text, u)
Lead(t, text, u) ==
  CASE text.lead = "none" ->
         Tagged(<<>>, u # "InUnion", IF u = "InUnion" THEN u ELSE "NotInUnion")
    [] text.lead = "switch" ->
         IF u = "Maybe" /\ Codecs!validForUnionSwitch(t)
         THEN Tagged(EntryBytes("UnionSwitch", <<>>), TRUE, "InUnion")
         ELSE Tagged(<<>>, FALSE, u)
    [] text.lead \in {"default", "cases", "unparsable"} ->
         Tagged(EntryBytes(IF text.lead = "default" THEN "UnionDefault" ELSE "UnionCases",
                           text.values),
                u = "InUnion" /\ text.lead # "unparsable", u)

(* Then a part for each layer of the type.                                  *)
canBeOpt(t) == KindOf(t) \in {"interface", "ptr"}
Limitable(t) == KindOf(t) \in {"string", "slice"}
IsByte(t) == KindOf(t) \in {"int8", "uint8"}

(* `opaque` on a slice or an array speaks of its elements.                  *)
OpaqueKeepsLayer(t, p) == t              \* a mutant of LayerOf
LayerOf(t, p) ==
  IF p.name = "opaque" /\ KindOf(t) \in {"array", "slice"} THEN TypeDef[t].elem ELSE t

PartLegalAnywhere(t, p) ==               \* a mutant of PartLegal
  CASE p.name = "opt" -> canBeOpt(t)
    [] p.name \in {"len", "maxlen"} -> p.values # <<>>
    [] p.name = "opaque" -> IsByte(LayerOf(t, p))
    [] OTHER -> p.name = ""
PartLegal(t, p) ==
  CASE p.name = "" -> TRUE
    [] p.name = "opt" -> canBeOpt(t)
    [] p.name = "opaque" -> IsByte(LayerOf(t, p))
    [] p.name \in {"len", "maxlen"} -> p.values # <<>> /\ Limitable(t)
    [] OTHER -> FALSE

PartKind == [opt |-> "Opt", opaque |-> "Opaque", len |-> "Len", maxlen |-> "MaxLen"]
AppendPart(xt, t, p) ==
  IF p.name = "" THEN AppendTag(xt, "Noop", <<>>)
  ELSE AppendTag(IF LayerOf(t, p) # t THEN AppendTag(xt, "Noop", <<>>) ELSE xt,
                 PartKind[p.name], p.values)

Descends(t) == KindOf(t) \in {"array", "map", "ptr", "slice"}

(* after[k]: the tag and the type when k parts have been read.              *)
ParseParts(t, xt, parts) ==
  LET after[k \in 0..Len(parts)] ==
        IF k = 0 THEN [ok |-> TRUE, tag |-> xt, t |-> t]
        ELSE LET b == after[k - 1]
                 layer == LayerOf(b.t, parts[k])
             IN  IF b.ok /\ PartLegal(b.t, parts[k]) /\ (k < Len(parts) => Descends(layer))
                 THEN [ok |-> TRUE, tag |-> AppendPart(b.tag, b.t, parts[k]),
                       t |-> IF k < Len(parts) THEN TypeDef[layer].elem ELSE layer]
                 ELSE [b EXCEPT !.ok = FALSE]
  IN  after[Len(parts)]

ParseTag(t, text, u) ==
  IF text.lead = "-" THEN Tagged(EntryBytes("Skip", <<>>), TRUE, u)
  ELSE LET lead == Lead(t, text, u)
           all == ParseParts(t, lead.tag, text.parts)
       IN  IF lead.ok /\ all.ok THEN [lead EXCEPT !.tag = TrimmedTag(all.tag)]
           ELSE [lead EXCEPT !.ok = FALSE]

-----------------------------------------------------------------------------
(* makeStructCodec.                                                         *)
Init ==
  /\ struct \in Struct
  /\ i = 1 /\ isUnion = "Maybe" /\ phase = "deciding" /\ tag = <<>>
  /\ keys = <<>> /\ cases = <<>> /\ defaultCase = 0 /\ codec = "none"

Reading ==
  /\ i \leq Len(struct)
  /\ phase # "done" /\ (phase = "deciding" => isUnion = "Maybe")

(* The next field, as ParseStructTag sees it in the current context.        *)
Field == ParseTag(struct[i].type, struct[i].text, isUnion)
Skipped(p) == Kind(p.tag) = KindByte.Skip

makeField(f, xt) == <<f.type, ByteString(xt)>>

Return(name) == phase' = "done" /\ codec' = name

ParseError ==
  /\ Reading /\ ~Field.ok
  /\ Return("errorCodec") /\ isUnion' = Field.isUnion
  /\ UNCHANGED <<struct, i, tag, keys, cases, defaultCase>>

SkipField ==
  /\ Reading /\ Field.ok /\ Skipped(Field)
  /\ i' = i + 1 /\ isUnion' = Field.isUnion /\ tag' = Field.tag
  /\ UNCHANGED <<struct, phase, keys, cases, defaultCase, codec>>

(* The first field that is not skipped.                                     *)
DecidingField ==
  /\ Reading /\ phase = "deciding" /\ Field.ok /\ ~Skipped(Field)
  /\ i' = i + 1 /\ isUnion' = Field.isUnion /\ tag' = Field.tag
  /\ IF Field.isUnion = "Maybe" THEN Return("unreachable") ELSE UNCHANGED <<phase, codec>>
  /\ UNCHANGED <<struct, keys, cases, defaultCase>>

Settle ==
  /\ phase = "deciding" /\ (isUnion # "Maybe" \/ i > Len(struct))
  /\ CASE isUnion = "Maybe" -> Return("structCodec") /\ UNCHANGED keys
       [] isUnion = "NotInUnion" ->
            /\ phase' = "struct"
            /\ keys' = <<makeField(struct[i - 1], tag)>>
            /\ UNCHANGED codec
       [] isUnion = "InUnion" /\ Kind(tag) # KindByte.UnionSwitch ->
            Return("unreachable") /\ UNCHANGED keys
       [] isUnion = "InUnion" /\ Kind(tag) = KindByte.UnionSwitch ->
            IF KindOf(struct[i - 1].type) \notin {"int32", "uint32", "bool"}
            THEN Return("panic") /\ UNCHANGED keys
            ELSE /\ phase' = "union"
                 /\ keys' = <<makeField(struct[i - 1], NextTag(tag))>>
                 /\ UNCHANGED codec
  /\ UNCHANGED <<struct, i, isUnion, tag, cases, defaultCase>>

StructField ==
  /\ Reading /\ phase = "struct" /\ Field.ok /\ ~Skipped(Field)
  /\ i' = i + 1 /\ isUnion' = Field.isUnion /\ tag' = Field.tag
  /\ keys' = Append(keys, makeField(struct[i], Field.tag))
  /\ UNCHANGED <<struct, phase, cases, defaultCase, codec>>

(* The labels of an arm are entered one by one, up to one that is there.    *)
LabelsOf(xt) == IF Kind(xt) = KindByte.UnionCases THEN Values(xt) ELSE <<>>
SeenBefore(labels) == \E k \in DOMAIN labels : labels[k] \in DOMAIN cases   \* a mutant of SomeSeen
SomeSeen(labels) ==
  \E k \in DOMAIN labels :
    labels[k] \in DOMAIN cases \cup {labels[j] : j \in 1..(k - 1)}
UnionArm ==
  LET labels == LabelsOf(Field.tag)
      isDefault == Kind(Field.tag) = KindByte.UnionDefault
  IN  /\ Reading /\ phase = "union" /\ Field.ok /\ ~Skipped(Field)
      /\ i' = i + 1 /\ isUnion' = Field.isUnion /\ tag' = Field.tag
      /\ keys' = Append(keys, makeField(struct[i], NextTag(Field.tag)))
      /\ IF SomeSeen(labels) \/ (isDefault /\ defaultCase # 0)
         THEN Return("errorCodec") /\ UNCHANGED <<cases, defaultCase>>
         ELSE /\ cases' = [v \in DOMAIN cases \cup Range(labels) |->
                             IF v \in DOMAIN cases THEN cases[v] ELSE i]
              /\ defaultCase' = IF isDefault THEN i ELSE defaultCase
              /\ UNCHANGED <<phase, codec>>
      /\ UNCHANGED struct

Finish ==
  /\ phase \in {"struct", "union"} /\ i > Len(struct)
  /\ Return(IF phase = "struct" THEN "structCodec" ELSE "unionCodec")
  /\ UNCHANGED <<struct, i, isUnion, tag, keys, cases, defaultCase>>

Next ==
  \/ ParseError \/ SkipField \/ DecidingField \/ Settle
  \/ StructField \/ UnionArm \/ Finish

Spec == Init /\ [][Next]_vars

-----------------------------------------------------------------------------
TypeOK ==
  /\ i \in 1..(Len(struct) + 1) /\ isUnion \in {"Maybe", "NotInUnion", "InUnion"}
  /\ phase \in {"deciding", "struct", "union", "done"}
  /\ \A k \in DOMAIN keys : keys[k] \in (DOMAIN TypeDef) \X Seq(0..255)
  /\ \A v \in DOMAIN cases : cases[v] \in DOMAIN struct

(* A tag speaks of one layer of its type with each part, and `opaque` on an *)
(* array or a slice is short for `/opaque`: what is legal in a tag, and     *)
(* which option every layer gets, follow layer by layer (ParseTag descends  *)
(* while it appends, and descends once more for that abbreviation).         *)
LayersOf(t, n) ==
  LET layer[k \in 1..n] ==
        IF k = 1 THEN t
        ELSE IF layer[k - 1] # "none" /\ Descends(layer[k - 1])
             THEN TypeDef[layer[k - 1]].elem ELSE "none"
  IN  layer
Spelled(t, parts) ==
  LET n == Len(parts)
  IN  IF n > 0 /\ parts[n].name = "opaque"
           /\ LayersOf(t, n)[n] # "none" /\ KindOf(LayersOf(t, n)[n]) \in {"array", "slice"}
      THEN SubSeq(parts, 1, n - 1) \o << [name |-> "", values |-> <<>>], parts[n] >>
      ELSE parts
Fits(t, p) ==
  CASE t = "none" -> FALSE
    [] t # "none" /\ p.name = "" -> TRUE
    [] t # "none" /\ p.name = "opt" -> KindOf(t) \in {"interface", "ptr"}
    [] t # "none" /\ p.name = "opaque" -> IsByte(t)
    [] t # "none" /\ p.name \in {"len", "maxlen"} ->
         KindOf(t) \in {"string", "slice"} /\ p.values # <<>>
    [] OTHER -> FALSE
PartEntry(p) ==
  IF p.name = "" THEN Codecs!Entry("Noop") ELSE Codecs!EntryWith(PartKind[p.name], p.values)
LeadFits(t, text, u) ==
  CASE text.lead = "none" -> u # "InUnion"
    [] text.lead = "switch" -> u = "Maybe" /\ Codecs!validForUnionSwitch(t)
    [] OTHER -> u = "InUnion" /\ text.lead # "unparsable"
LeadEntries(text) ==
  CASE text.lead = "none" -> <<>>
    [] text.lead = "switch" -> <<Codecs!Entry("UnionSwitch")>>
    [] text.lead = "default" -> <<Codecs!Entry("UnionDefault")>>
    [] text.lead = "cases" -> <<Codecs!EntryWith("UnionCases", text.values)>>
TagEntries(text, parts) ==
  Codecs!Trimmed(LeadEntries(text) \o [k \in DOMAIN parts |-> PartEntry(parts[k])])

EveryLayerGetsItsOption ==
  Reading /\ struct[i].text.lead # "-" =>
    LET f == struct[i]
        parts == Spelled(f.type, f.text.parts)
        legal == /\ LeadFits(f.type, f.text, isUnion)
                 /\ \A k \in DOMAIN parts : Fits(LayersOf(f.type, Len(parts))[k], parts[k])
    IN  Field.ok = legal /\ (legal => Entries(Field.tag) = TagEntries(f.text, parts))

(* A key is the string of its tag's bytes: equal options are equal bytes,   *)
(* which read back as those options, without a Noop at the end; and         *)
(* stripping `opt`, which turns the bytes of a key into another key, does   *)
(* on bytes what TypeCodecs says it does on entries.                        *)
KeysAreCanonical ==
  \A k \in DOMAIN keys :
    LET b == keys[k][2]
        e == Entries(b)
    IN  /\ BytesOf(e) = b
        /\ Codecs!Trimmed(e) = e
        /\ Codecs!TagKind(e) = "Opt" =>
             Entries(TrimmedTag(Prepend(NextTag(b), "Noop", <<>>)))
               = Codecs!makeOptCodec(keys[k][1], e).elems[1][2]

(* The fields of a struct that are not skipped: the r-th of them, and how   *)
(* many of the first n are.                                                 *)
Rank(s, n) == Cardinality({j \in 1..n : s[j].text.lead # "-"})
Unskipped(s) ==
  [r \in 1..Rank(s, Len(s)) |->
     s[CHOOSE k \in DOMAIN s : s[k].text.lead # "-" /\ Rank(s, k) = r]]

(* Those fields with the tags they get when the first of them alone decides *)
(* whether this is a union.                                                 *)
ContextOf(s, r) ==
  IF r = 1 THEN "Maybe"
  ELSE IF Unskipped(s)[1].text.lead = "switch" THEN "InUnion" ELSE "NotInUnion"
EntriesInContext(s) ==
  [r \in DOMAIN Unskipped(s) |->
     LET f == Unskipped(s)[r]
         p == ParseTag(f.type, f.text, ContextOf(s, r))
     IN  [type |-> f.type, tag |-> IF p.ok THEN Entries(p.tag) ELSE Codecs!ParseError]]

(* The loop over the fields, with what it carries from one to the next,     *)
(* makes of a struct what TypeCodecs says of all its fields at once: the    *)
(* same codec with the same parameters, or an error or a panic at the same  *)
(* field, after the same codecs have been looked up.                        *)
BuildsAsTypeCodecsSays ==
  phase = "done" =>
    LET c == Codecs!codecOfFields(EntriesInContext(struct))
    IN  /\ codec = c.codec
        /\ [k \in DOMAIN keys |-> <<keys[k][1], Entries(keys[k][2])>>] = c.elems
        /\ codec = "unionCodec" =>
             /\ [v \in DOMAIN cases |-> Rank(struct, cases[v])] = c.cases
             /\ (IF defaultCase = 0 THEN 0 ELSE Rank(struct, defaultCase)) = c.default

(* The two panics that the code calls unreachable are.                      *)
NoImpossiblePanic == codec # "unreachable"

(* A union is what the documentation says: its first field is the switch,   *)
(* every other one names its cases or is the default, no case and no        *)
(* default is there twice, and each leads to the field that names it.       *)
UnionShape ==
  codec = "unionCodec" =>
    LET arms == {k \in DOMAIN struct : struct[k].text.lead \in {"cases", "default"}}
        Names(k, v) == v \in Range(struct[k].text.values)
    IN  /\ \E s \in DOMAIN struct :
             /\ struct[s].text.lead = "switch"
             /\ \A k \in DOMAIN struct :
                  k # s => struct[k].text.lead = "-" \/ (k > s /\ k \in arms)
        /\ \A k, l \in arms :
             /\ \A v \in Range(struct[k].text.values) : Names(l, v) => k = l
             /\ struct[k].text.lead = "default" /\ struct[l].text.lead = "default" => k = l
        /\ \A k \in arms :
             IF struct[k].text.lead = "default" THEN defaultCase = k
             ELSE \A v \in Range(struct[k].text.values) : cases[v] = k

(* The parser and buildCodec agree on what is legal, except that:           *)
(*   - the parser takes `len:` on a slice, which the documentation of the   *)
(*     tags even shows, and there is no codec for a slice of fixed length;  *)
(*   - the parser takes `opaque` on any byte, and only arrays and slices of *)
(*     bytes have opaque codecs;                                            *)
(*   - a string of fixed length may be longer than the platform allows;     *)
(*   - a switch may be narrower or wider than 32 bits, and the build panics.*)
Disagree(k) ==
  LET option == Codecs!TagKind(k[2])
  IN  \/ KindOf(k[1]) = "slice" /\ option = "Len"
      \/ IsByte(k[1]) /\ option = "Opaque"
      \/ KindOf(k[1]) = "string" /\ option = "Len" /\ Codecs!OnlyValue(k[2]) > MaxInt
LayersBelow == 4

(* The keys that a legal tag leads to: no option but those that fit their   *)
(* layers, and no Noop at the end.                                          *)
OptionFits(t, x) ==
  /\ x = Codecs!EntryWith(x.kind, x.values) /\ AreWords(x.values)
  /\ Len(x.values) = IF x.kind \in {"Len", "MaxLen"} THEN 1 ELSE 0
  /\ t # "none"
  /\ \/ x.kind = "Noop"
     \/ x.kind = "Opt" /\ canBeOpt(t)
     \/ x.kind = "Opaque" /\ IsByte(t)
     \/ x.kind \in {"Len", "MaxLen"} /\ Limitable(t)
IsLegal(k) ==
  /\ k \in (DOMAIN TypeDef) \X Seq(Range(k[2])) /\ Codecs!Trimmed(k[2]) = k[2]
  /\ \A n \in DOMAIN k[2] : OptionFits(LayersOf(k[1], Len(k[2]))[n], k[2][n])

(* The types that LegalTagsBuild is about: a key of a map is a type, and    *)
(* those that no tag speaks of inside have a codec of their own.            *)
BuildsUntagged(t) ==
  \/ TypeDef[t].marshals
  \/ KindOf(t) \in Codecs!PrimitiveKinds
  \/ /\ KindOf(t) = "struct" /\ Codecs!makeStructCodec(t).codec \in {"structCodec", "unionCodec"}
     /\ \A k \in Range(Codecs!makeStructCodec(t).elems) : IsLegal(k)
TypesBuild ==
  \A t \in DOMAIN TypeDef :
    /\ KindOf(t) = "map" => TypeDef[t].key \in DOMAIN TypeDef
    /\ KindOf(t) \notin {"array", "map", "ptr", "slice", "string"} => BuildsUntagged(t)

LegalTagsBuild ==
  phase = "done" =>
    /\ codec = "panic" =>
         /\ Unskipped(struct)[1].text.lead = "switch"
         /\ KindOf(Unskipped(struct)[1].type) \notin {"bool", "int32", "uint32"}
    /\ \A k \in Codecs!KeysFrom({<<keys[j][1], Entries(keys[j][2])>> : j \in DOMAIN keys},
                                LayersBelow) :
         Codecs!OutcomeOf(k) # "codec" <=> Disagree(k)
=============================================================================
