---------------------------- MODULE MCXDRStream ----------------------------
(***************************************************************************)
(* XDRStream with bytes of four values, so that an int has 256 and a hyper *)
(* 65536.  The messages are                                              *)
(*   - every int, unsigned int and bool, and hypers at the edges, each     *)
(*     followed by an opaque                                               *)
(*   - any three items whose lengths leave every padding, and opaques over *)
(*     the limit.                                                          *)
(***************************************************************************)
EXTENDS XDRStreamProofs

Item(kind, value) == [kind |-> kind, value |-> value]

Edges == {-32768, -32767, -257, -256, -1, 0, 1, 255, 256, 32766, 32767}
Numbers ==
  {Item("int", v) : v \in -128..127} \cup {Item("unsigned int", v) : v \in 0..255}
    \cup {Item("hyper", v) : v \in Edges}
    \cup {Item("unsigned hyper", v) : v \in {0, 1, 255, 256, 32767, 32768, 65535}}
    \cup {Item("bool", b) : b \in BOOLEAN} \cup {Item("enum", v) : v \in 0..255}

Payload(len) == [i \in 1..len |-> 1 + (i % 3)]
Fixed ==
  {Item("fixed opaque", Payload(n)) : n \in {0, 3, 4, 5}}
    \cup {Item("fixed string", Payload(3)), Item("int", -2), Item("hyper", -2)}
Opaque == {Item("opaque", Payload(n)) : n \in {0, 1, 4, 6, 7}}
Strings == {Item("string", Payload(n)) : n \in {0, 5, 7}}

Triples(S) == {<<a, b, c>> : a \in S, b \in S, c \in S}

MCMessage ==
  {<<n, Item("opaque", Payload(1))>> : n \in Numbers}
    \cup Triples(Fixed \cup Opaque \cup Strings)
=============================================================================
