---------------------------- MODULE MCStructTags ----------------------------
(***************************************************************************)
(* Structs with every tag of up to three parts on one field, as a field of *)
(* a struct and as an arm of a union; and every struct of up to three      *)
(* fields, unions of four, with a few fields of each sort.                 *)
(***************************************************************************)
EXTENDS StructTags

Prim(kind) == [kind |-> kind, marshals |-> FALSE]
Types ==
  [bool |-> Prim("bool"), int32 |-> Prim("int32"), byte |-> Prim("uint8"),
   int8 |-> Prim("int8"), string |-> [kind |-> "string"],
   Iface |-> [kind |-> "interface", marshals |-> TRUE],
   Bytes |-> [kind |-> "slice", elem |-> "byte"],
   Strings |-> [kind |-> "slice", elem |-> "string"],
   Int8x2 |-> [kind |-> "array", elem |-> "int8", len |-> 2],
   ByteLists |-> [kind |-> "slice", elem |-> "Bytes"],
   ByteMap |-> [kind |-> "map", key |-> "int32", elem |-> "byte"],
   PByte |-> [kind |-> "ptr", elem |-> "byte"],
   PBytes |-> [kind |-> "ptr", elem |-> "Bytes"],
   PPByte |-> [kind |-> "ptr", elem |-> "PByte"],
   Node |-> [kind |-> "struct", marshals |-> FALSE,
             fields |-> <<[type |-> "Strings", tag |-> <<>>],
                          [type |-> "PNode", tag |-> <<[kind |-> "Opt", values |-> <<>>]>>]>>],
   PNode |-> [kind |-> "ptr", elem |-> "Node"]]

Part(name) == [name |-> name, values |-> <<>>]
Limit(name, n) == [name |-> name, values |-> <<n>>]
Parts ==
  {Part(""), Part("opt"), Part("opaque"), Part("unknown"), Part("len"),
   Limit("len", 2), Limit("len", 300), Part("maxlen"), Limit("maxlen", 256)}
PartsUpTo(n) == UNION {[1..k -> Parts] : k \in 1..n}

Text(lead, values, parts) == [lead |-> lead, values |-> values, parts |-> parts]
Plain(parts) == Text("none", <<>>, parts)
Cases(values) == Text("cases", values, <<>>)
Switch == Text("switch", <<>>, <<>>)
FieldOf(t, text) == [type |-> t, text |-> text]
Int32Switch == FieldOf("int32", Switch)

OneField ==
  {<<FieldOf(t, Plain(ps))>> : t \in DOMAIN Types, ps \in PartsUpTo(3)} \cup
  {<<FieldOf(t, Text("switch", <<>>, ps))>> : t \in DOMAIN Types, ps \in {<<>>} \cup PartsUpTo(1)}
OneArm ==
  {<<Int32Switch, FieldOf(t, Text("cases", <<0, 256>>, ps))>> :
     t \in DOMAIN Types, ps \in {<<>>} \cup PartsUpTo(2)}

Menu ==
  {FieldOf("int32", Text("-", <<>>, <<>>)), FieldOf("int32", Plain(<<Part("")>>)),
   FieldOf("string", Plain(<<Limit("len", 2)>>)), FieldOf("PByte", Plain(<<Part("opt")>>)),
   FieldOf("int32", Plain(<<Part("unknown")>>)),
   Int32Switch, FieldOf("bool", Switch), FieldOf("byte", Switch), FieldOf("string", Switch),
   FieldOf("int32", Cases(<<0>>)), FieldOf("string", Cases(<<1, 2>>)),
   FieldOf("int32", Cases(<<2, 2>>)), FieldOf("Bytes", Text("cases", <<256>>, <<Part("opaque")>>)),
   FieldOf("PByte", Text("default", <<>>, <<Part("opt")>>)),
   FieldOf("int32", Text("unparsable", <<>>, <<>>))}
Several == UNION {[1..n -> Menu] : n \in {0, 2, 3}}
FourFields == {<<Int32Switch>> \o fs : fs \in [1..3 -> Menu]}

MCTypeDef == Types @@ <<>>
MCStruct == UNION {OneField, OneArm, Several, FourFields}

(* LegalTagsBuild is about types that have codecs.                          *)
ASSUME TypesAssumption == TypesBuild
=============================================================================
