-------------------------- MODULE MCCodecRegistry --------------------------
(***************************************************************************)
(* The codec registry at work on a few Go types.  World names the program  *)
(* whose types are encoded; the keys, what building each one looks up and  *)
(* how that ends are computed from the types by TypeCodecs.                *)
(***************************************************************************)
EXTENDS CodecRegistryProofs, TLC

CONSTANT World

Opt == [kind |-> "Opt", values |-> <<>>]
Case(vs) == [kind |-> "UnionCases", values |-> vs]

Prim(kind) == [kind |-> kind, marshals |-> FALSE]
Ptr(t) == [kind |-> "ptr", elem |-> t]
Slice(t) == [kind |-> "slice", elem |-> t]
Struct(fs) == [kind |-> "struct", marshals |-> FALSE, fields |-> fs]
Field(t, tag) == [type |-> t, tag |-> tag]

(* list:    type Node struct { Val int32; Next *Node `xdr:"opt"` }          *)
(* mutual:  type A struct { Bs []B }; type B struct { As []A }              *)
(* union8:  type U struct { S int8 `xdr:"union:switch"` ... } inside Outer  *)
(* ext:     Ext, a struct of another package with a MarshalXDR method;      *)
(*          type List []Ext, for which no codec may be registered; U        *)
Types ==
  CASE World = "list" ->
         [Node |-> Struct(<<Field("int32", <<>>), Field("PtrNode", <<Opt>>)>>),
          PtrNode |-> Ptr("Node"), int32 |-> Prim("int32")]
    [] World = "mutual" ->
         [A |-> Struct(<<Field("Bs", <<>>)>>), Bs |-> Slice("B"),
          B |-> Struct(<<Field("As", <<>>)>>), As |-> Slice("A")]
    [] World = "union8" ->
         [Outer |-> Struct(<<Field("U", <<>>)>>), int8 |-> Prim("int8"),
          U |-> Struct(<<>>)]
    [] World = "ext" ->
         [List |-> Slice("Ext"), Ext |-> [Struct(<<>>) EXCEPT !.marshals = TRUE],
          int8 |-> Prim("int8"), U |-> Struct(<<>>)]

(* The tag of the switch of U is the one the parser gives it.               *)
Parsed == INSTANCE TypeCodecs WITH TypeDef <- Types, MaxInt <- 9, MaxUint32 <- 9
Def ==
  IF "U" \in DOMAIN Types
  THEN [Types EXCEPT !.U.fields =
          <<Field("int8", Parsed!SwitchTag("int8")),
            Field("int8", <<Case(<<0>>)>>)>>]
  ELSE Types

Codecs == INSTANCE TypeCodecs WITH TypeDef <- Def, MaxInt <- 9, MaxUint32 <- 9

(* The keys and the two tables, each written out so that TLC computes it    *)
(* once.                                                                    *)
Listed(seq) == SubSeq(seq, 1, Len(seq))

AllKeys == Codecs!KeysFrom({<<t, <<>>>> : t \in DOMAIN Def \ {"int8"}}, 4)
AllLookups == [k \in AllKeys |-> Listed(Codecs!LookupsOf(k))]
AllOutcomes == [k \in AllKeys |-> Codecs!OutcomeOf(k)]

MCKey == UNION {AllKeys}
MCLookups == AllLookups @@ <<>>
MCOutcome == AllOutcomes @@ <<>>
MCPlain == {k \in AllKeys : k[2] = <<>>}
MCMarshaler == {k \in MCPlain : Codecs!buildCodec(k[1], k[2]).codec = "marshalerCodec"}
MCRegistrable == {k \in MCPlain : k[1] = "Ext"}

Symmetry == Permutations(Goroutine)
=============================================================================
