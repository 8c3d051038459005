--------------------------- MODULE MCEncoderPool ---------------------------
(***************************************************************************)
(* EncoderPool with a few types:                                           *)
(*   type Num  int32                                                       *)
(*   type Text struct { S string; N int32 }                                *)
(*   type Pair, whose MarshalXDR encodes a Num, a Text and a Num again     *)
(*   type Deep, whose MarshalXDR calls Marshal for a Num and then encodes  *)
(*             a Text                                                      *)
(*   type Bad,  whose MarshalXDR encodes a Num and returns an error        *)
(*   type Trap, whose MarshalXDR encodes a Num and panics                  *)
(*   type Hole, a union whose codec cannot be built                        *)
(* World chooses which of them a run uses.                                 *)
(***************************************************************************)
EXTENDS EncoderPoolOutput

CONSTANT World

Do(what) == [do |-> what, type |-> Nothing]
Nested(what, t) == [do |-> what, type |-> t]

Bodies ==
  [Num |-> <<Do("write")>>,
   Text |-> <<Do("string"), Do("write")>>,
   Pair |-> <<Nested("encode", "Num"), Nested("encode", "Text"), Nested("encode", "Num")>>,
   Deep |-> <<Nested("marshal", "Num"), Nested("encode", "Text")>>,
   Bad |-> <<Nested("encode", "Num"), Do("fail")>>,
   Trap |-> <<Nested("encode", "Num"), Do("panic")>>,
   Hole |-> <<>>]

MCType ==
  CASE World = "cache" -> {"Num", "Text", "Pair"}
    [] World = "failures" -> {"Num", "Text", "Deep", "Bad", "Trap", "Hole"}
MCBody == [t \in MCType |-> Bodies[t]]
MCUnbuildable == MCType \cap {"Hole"}

Symmetry == 
  Permutations(Goroutine) \cup Permutations(Enc) \cup Permutations(MarshalEnc)
=============================================================================
