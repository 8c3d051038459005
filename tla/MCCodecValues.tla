---------------------------- MODULE MCCodecValues ----------------------------
(***************************************************************************)
(* Pairs of types that a sender and a receiver have for the same data.     *)
(* Where they differ, the receiver's has the limits, the fewer arms, or    *)
(* the narrower integers.                                                  *)
(***************************************************************************)
EXTENDS CodecValues

Tag(kind) == [kind |-> kind, values |-> <<>>]
TagWith(kind, values) == [kind |-> kind, values |-> values]
MaxLen(n) == TagWith("MaxLen", <<n>>)
Cases(labels) == TagWith("UnionCases", labels)

Prim(kind) == [kind |-> kind, marshals |-> FALSE]
StructOf(fields) == [kind |-> "struct", marshals |-> FALSE, fields |-> fields]
PtrTo(t) == [kind |-> "ptr", elem |-> t]
SliceOf(t) == [kind |-> "slice", elem |-> t]
ArrayOf(n, t) == [kind |-> "array", elem |-> t, len |-> n]
F(t, tag) == [type |-> t, tag |-> tag]

Named(name, def) == name :> def
Prims ==
  [k \in {"bool", "int8", "int16", "int32", "uint8", "uint16", "uint32", "int64", "uint64",
          "float32", "float64", "complex64", "complex128", "int"} |-> Prim(k)]
Shared ==
  [string |-> [kind |-> "string"],
   Iface |-> [kind |-> "interface", marshals |-> TRUE],
   PInt |-> PtrTo("int32"), Ints |-> SliceOf("int32"), IntLists |-> SliceOf("Ints"),
   Bytes |-> SliceOf("uint8"), Bytes3 |-> ArrayOf(3, "uint8"),
   Int8s |-> SliceOf("int8"), Int8x2 |-> ArrayOf(2, "int8"), Strange |-> SliceOf("int")]

(* type Node struct { Val int16; Next *Node `xdr:"opt"` }, and type H...    *)
Roots ==
  [Node |-> StructOf(<<F("int16", <<>>), F("PNode", <<Tag("Opt")>>)>>), PNode |-> PtrTo("Node"),
   Scalars |-> StructOf(<<F("bool", <<>>), F("complex64", <<>>), F("int64", <<>>),
                          F("int32", <<Tag("Skip")>>), F("uint64", <<>>)>>),
   Doubles |-> StructOf(<<F("float32", <<>>), F("complex128", <<>>), F("float64", <<>>)>>),
   Words |-> StructOf(<<F("int32", <<>>), F("uint32", <<>>), F("int16", <<>>), F("uint32", <<>>)>>),
   Narrow |-> StructOf(<<F("int8", <<>>), F("uint8", <<>>), F("int16", <<>>), F("uint16", <<>>)>>),
   Plug |-> StructOf(<<F("Iface", <<Tag("Opt")>>), F("uint16", <<>>)>>),
   Texts |-> StructOf(<<F("string", <<>>), F("string", <<TagWith("Len", <<2>>)>>)>>),
   Text3 |-> StructOf(<<F("string", <<MaxLen(3)>>), F("string", <<TagWith("Len", <<2>>)>>)>>),
   Text9 |-> StructOf(<<F("string", <<MaxLen(9)>>), F("string", <<TagWith("Len", <<2>>)>>)>>),
   Lists |-> StructOf(<<F("PInt", <<>>), F("IntLists", <<>>)>>),
   Lists2 |-> StructOf(<<F("PInt", <<>>), F("IntLists", <<MaxLen(9), MaxLen(2)>>)>>),
   Blobs |-> StructOf(<<F("Bytes3", <<Tag("Noop"), Tag("Opaque")>>),
                        F("Bytes", <<Tag("Noop"), Tag("Opaque")>>)>>),
   Blob9 |-> StructOf(<<F("Bytes3", <<Tag("Noop"), Tag("Opaque")>>),
                        F("Bytes", <<MaxLen(9), Tag("Opaque")>>)>>),
   Signed |-> StructOf(<<F("Int8x2", <<Tag("Noop"), Tag("Opaque")>>),
                         F("Int8s", <<MaxLen(3), Tag("Opaque")>>)>>),
   Pair2 |-> ArrayOf(2, "Half"), Half |-> StructOf(<<F("Bytes3", <<Tag("Noop"), Tag("Opaque")>>)>>),
   Table |-> [kind |-> "map", key |-> "int32", elem |-> "Node"],
   Tables |-> SliceOf("Table"), TableBox |-> StructOf(<<F("Table", <<>>)>>),
   TableBox1 |-> StructOf(<<F("Table", <<MaxLen(1)>>)>>),
   Choice |-> StructOf(<<F("int32", <<Tag("UnionSwitch")>>), F("PInt", <<Cases(<<0, 255>>), Tag("Opt")>>),
                         F("uint8", <<Tag("Skip")>>), F("string", <<Cases(<<1>>)>>),
                         F("Ints", <<Tag("UnionDefault")>>)>>),
   Choice2 |-> StructOf(<<F("int32", <<Tag("UnionSwitch")>>), F("PInt", <<Cases(<<0, 255>>), Tag("Opt")>>),
                          F("uint8", <<Tag("Skip")>>), F("string", <<Cases(<<1>>), MaxLen(1)>>),
                          F("Ints", <<Cases(<<3>>), MaxLen(1)>>)>>),
   Flag |-> StructOf(<<F("bool", <<Tag("UnionSwitch")>>), F("Strange", <<Cases(<<0>>)>>),
                       F("Choice", <<Cases(<<1>>)>>)>>)]
Types == Prims @@ Shared @@ Roots
MCTypeDef == Types @@ <<>>

-----------------------------------------------------------------------------
CodecsOn(n) == INSTANCE TypeCodecs WITH TypeDef <- Types, MaxInt <- n, MaxUint32 <- Base^4 - 1
Keys == CodecsOn(1)!KeysFrom({<<t, <<>>>> : t \in DOMAIN Roots}, 4)
TableOn(n) == [k \in Keys |-> CodecsOn(n)!buildCodec(k[1], k[2])]
MaxIntOf(plat) == IF plat = "small" THEN MaxInt ELSE Base^4 - 1
AllCodecs == [plat \in {"small", "wide"} |-> TableOn(MaxIntOf(plat)) @@ <<>>]
MCCodec == AllCodecs @@ <<>>

Same(t, values) ==
  [sender |-> t, receiver |-> t, values |-> values, presets |-> {}, orders |-> {"up"},
   narrows |-> FALSE, panics |-> FALSE, texts |-> FALSE, opaque |-> FALSE]
To(t, p) == [p EXCEPT !.receiver = t]

Str(n) == [i \in 1..n |-> i % Base]
N(n) == <<n, <<>>>>                      \* a node without a next one
M == <<5, << <<-3, << N(2) >> >> >> >>

MCPair ==
  [list |-> Same("Node", {N(-1), <<7, <<N(3)>>>>, M}),
   scalars |-> Same("Scalars", {<<TRUE, <<1, 255>>, -5, 0, 3>>, <<FALSE, <<7, 4>>, 260, 9, 65535>>}),
   doubles |-> Same("Doubles", {<<200, <<9, 300>>, 77>>, <<0, <<0, 1>>, 4>>}),
   narrow |-> [To("Narrow", Same("Words", {<<1, 3, -8, 15>>, <<5, 6, 7, 250>>, <<-100, 0, 1, 16>>}))
                 EXCEPT !.narrows = TRUE],
   plug |-> [Same("Plug", {<< <<7>>, 1>>, << <<>>, 2>>})
               EXCEPT !.panics = TRUE, !.presets = {<< <<9>>, 0>>}],
   text3 |-> To("Text3", Same("Texts", {<<Str(n), Str(2)>> : n \in {0, 2, 3, 4, 6}} \cup {<<Str(1), Str(3)>>})),
   text9 |-> [To("Text9", Same("Texts", {<<Str(n), Str(2)>> : n \in {4, 5, 8, 10}}))
                EXCEPT !.texts = TRUE],
   lists |-> To("Lists2", Same("Lists", {<< <<>>, <<>>>>, << <<1>>, << <<>>, <<2, -3>> >> >>,
                                         << <<-1>>, << <<4>>, <<1, 2, 3>> >> >>,
                                         << <<8>>, [i \in 1..8 |-> <<>>] >>,
                                         << <<8>>, [i \in 1..10 |-> <<>>] >>})),
   blobs |-> [To("Blob9", Same("Blobs", {<<Str(3), Str(n)>> : n \in {0, 4, 5, 8, 10}}))
                EXCEPT !.texts = TRUE, !.opaque = TRUE],
   int8s |-> [Same("Signed", {<< <<-1, 1>>, <<>> >>, << <<0, -2>>, <<1, -2, -1>> >>,
                              << <<1, 1>>, <<1, 1, 0, -1>> >>}) EXCEPT !.panics = TRUE],
   array |-> Same("Pair2", {<< <<Str(3)>>, << <<3, 3, 3>> >> >>}),
   maps |-> [Same("Tables", {<<1 :> N(4)>>, << <<>>, (1 :> N(5)) @@ (-2 :> <<2, <<N(6)>>>>) >>})
               EXCEPT !.orders = {"up", "down"}],
   boxes |-> [To("TableBox1", Same("TableBox", {<< <<>> >>, <<3 :> N(4)>>, <<(1 :> N(5)) @@ (2 :> N(6))>>}))
                EXCEPT !.orders = {"up", "down"}],
   choice |-> To("Choice2", Same("Choice", {<<n, <<9>>, 1, Str(s), <<1, 2>>>> : n \in {-1, 1, 2}, s \in {1, 2}}
                                    \cup {<<0, <<>>, 0, <<>>, <<>>>>, <<3, <<>>, 2, <<>>, <<6>>>>,
                                          <<3, <<>>, 2, <<>>, <<6, 7>>>>})),
   flag |-> Same("Flag", {<<b, s, <<1, <<>>, 0, Str(1), <<>>>>>> : b \in BOOLEAN, s \in {<<>>, <<1>>}})]
=============================================================================
