------------------------- MODULE EncoderPoolOutput -------------------------
(***************************************************************************)
(* What an operation hands over is the encoding of its own values by its   *)
(* own coder, whatever the pooled objects it got were used for before.     *)
(*                                                                         *)
(* The argument: what an operation has written so far, followed by what    *)
(* its codecs still have to write, is the encoding of its values.  A step  *)
(* of its own moves the boundary, and a step of another operation touches  *)
(* neither, since the two have nothing in common.                          *)
(***************************************************************************)
EXTENDS EncoderPoolProofs

-----------------------------------------------------------------------------
(* The rounds in which Encoding is defined.                                 *)
Outputs(cr) ==
  CHOOSE out : out =
    [n \in 0..Cardinality(Type) |->
       IF n = 0 THEN [u \in Type |-> <<>>]
       ELSE [u \in Type |-> FlattenSeq(Parts(cr, u, out[n - 1]))]]

(* Encoding is the last of its rounds.                                      *)
LEMMA EncodingIsOutput ==
  ASSUME NEW cr, NEW t PROVE Encoding(cr, t) = Outputs(cr)[Cardinality(Type)][t]
BY DEF Encoding, Outputs

(* What the instructions of a type write, given what the values within it   *)
(* write.                                                                   *)
LEMMA PartsType ==
  ASSUME NEW cr \in Coder, NEW u \in Type, NEW o \in [Type -> Seq(Chunk)]
  PROVE  /\ Parts(cr, u, o) \in Seq(Seq(Chunk)) /\ Len(Parts(cr, u, o)) = Len(Body[u])
         /\ FlattenSeq(Parts(cr, u, o)) \in Seq(Chunk)
<1>1. Len(Body[u]) \in Nat /\ DOMAIN Body[u] = 1..Len(Body[u])
  BY WorkFacts
<1>2. ASSUME NEW i \in 1..Len(Body[u]) PROVE Part(cr, u, o, i) \in Seq(Chunk)
  <2>1. <<codecFor(cr, u), i>> \in Chunk
    BY <1>1 DEF Chunk, codecFor
  <2>2. Work(codecFor(cr, u))[i] \in Item
    BY <1>1, WorkFacts, ElementOfSeq
  <2>3. Body[u][i].do = "encode" => Body[u][i].type \in Type
    <3>1. /\ Work(codecFor(cr, u))[i].do = Body[u][i].do
          /\ Work(codecFor(cr, u))[i].type = Body[u][i].type
      <4>1. Work(codecFor(cr, u))[i] =
              [do |-> Body[u][i].do, type |-> Body[u][i].type, chunk |-> <<codecFor(cr, u), i>>]
        BY WorkFacts
      <4> QED
        BY <4>1
    <3> QED
      BY <2>2, <3>1 DEF Item
  <2>4. << <<codecFor(cr, u), i>> >> \in Seq(Chunk) /\ <<>> \in Seq(Chunk)
    BY <2>1
  <2>5. Body[u][i].do = "encode" => o[Body[u][i].type] \in Seq(Chunk)
    BY <2>3
  <2> QED
    BY <2>4, <2>5 DEF Part
<1> DEFINE n == Len(Body[u])
           D == Seq(Chunk)
<1>3. Parts(cr, u, o) = [i \in 1..n |-> Part(cr, u, o, i)] /\ n \in Nat
  BY <1>1 DEF Parts
<1>4. \A i \in 1..n : Part(cr, u, o, i) \in D
  BY <1>2
<1> HIDE DEF n, D
<1>5. Parts(cr, u, o) \in Seq(D) /\ Len(Parts(cr, u, o)) = n
  BY <1>3, <1>4
<1> QED
  BY <1>5, FlattenType DEF n, D

(* The rounds exist, and each is made from the one before.                  *)
LEMMA OutputsFacts ==
  ASSUME NEW cr \in Coder
  PROVE  /\ Cardinality(Type) \in Nat
         /\ Outputs(cr) \in [0..Cardinality(Type) -> [Type -> Seq(Chunk)]]
         /\ \A n \in 1..Cardinality(Type) : \A u \in Type :
              Outputs(cr)[n][u] = FlattenSeq(Parts(cr, u, Outputs(cr)[n - 1]))
<1> DEFINE C == Cardinality(Type)
           D == [Type -> Seq(Chunk)]
           base == [u \in Type |-> <<>>]
           G == [x \in Nat \X D |-> [u \in Type |-> FlattenSeq(Parts(cr, u, x[2]))]]
           f == Outputs(cr)
<1>1. C \in Nat
  BY NestingAssumption, FS_CardinalityType
<1>2. base \in D
  <2>1. <<>> \in Seq(Chunk)
    OBVIOUS
  <2> QED
    BY <2>1
<1>3. G \in [Nat \X D -> D]
  <2>1. \A x \in Nat \X D : [u \in Type |-> FlattenSeq(Parts(cr, u, x[2]))] \in D
    BY PartsType
  <2> QED
    BY <2>1
<1>4. PICK out \in [0..C -> D] : out[0] = base /\ \A n \in 1..C : out[n] = G[<<n, out[n - 1]>>]
  <2> HIDE DEF C, D, base, G
  <2>1. Iterations(D, base, G, C) # {}
    BY <1>1, <1>2, <1>3, IterateExists, Zenon
  <2> QED
    BY <2>1 DEF Iterations
<1> HIDE DEF C
<1>5. \A n \in 1..C : /\ out[n - 1] \in D /\ out[n] \in D
                      /\ out[n] = [u \in Type |-> FlattenSeq(Parts(cr, u, out[n - 1]))]
  <2> SUFFICES ASSUME NEW n \in 1..C
               PROVE  /\ out[n - 1] \in D /\ out[n] \in D
                      /\ out[n] = [u \in Type |-> FlattenSeq(Parts(cr, u, out[n - 1]))]
    OBVIOUS
  <2> HIDE DEF D
  <2>1. n \in Nat /\ n - 1 \in 0..C /\ n \in 0..C
    BY <1>1
  <2>2. <<n, out[n - 1]>> \in Nat \X D
    BY <1>4, <2>1
  <2>3. G[<<n, out[n - 1]>>] = [u \in Type |-> FlattenSeq(Parts(cr, u, out[n - 1]))]
    BY <2>2
  <2> QED
    BY <1>4, <2>1, <2>3
<1> DEFINE step(o) == [n \in 0..C |-> IF n = 0 THEN base
                                     ELSE [u \in Type |-> FlattenSeq(Parts(cr, u, o[n - 1]))]]
<1>6. \A n \in 0..C : out[n] = IF n = 0 THEN base
                               ELSE [u \in Type |-> FlattenSeq(Parts(cr, u, out[n - 1]))]
  <2> SUFFICES ASSUME NEW n \in 0..C
               PROVE  out[n] = IF n = 0 THEN base
                               ELSE [u \in Type |-> FlattenSeq(Parts(cr, u, out[n - 1]))]
    OBVIOUS
  <2> HIDE DEF base
  <2>1. CASE n = 0
    BY <1>4, <2>1
  <2>2. CASE n # 0
    <3>1. n \in 1..C
      BY <1>1, <2>2
    <3> QED
      BY <1>5, <2>2, <3>1
  <2> QED
    BY <2>1, <2>2
<1>8. f = CHOOSE o : o = step(o)
  BY DEF Outputs, C
<1>9. out = step(out)
  <2> HIDE DEF base
  <2> QED
    BY <1>4, <1>6
<1> HIDE DEF step, D
<1>10. f = step(f)
  BY <1>8, <1>9
<1> HIDE DEF f
<1>11. /\ DOMAIN f = 0..C
       /\ \A n \in 0..C : f[n] = IF n = 0 THEN base
                                 ELSE [u \in Type |-> FlattenSeq(Parts(cr, u, f[n - 1]))]
       /\ f = [n \in 0..C |-> f[n]]
  BY <1>10 DEF step
<1> DEFINE T == {n \in Nat : n \in 0..C => f[n] \in D}
<1>12. 0 \in T
  <2>1. 0 \in 0..C
    BY <1>1
  <2>2. f[0] = base
    BY <1>11, <2>1
  <2> QED
    BY <1>2, <2>2
<1>13. ASSUME NEW n \in Nat, n \in T PROVE n + 1 \in T
  <2> SUFFICES ASSUME n + 1 \in 0..C PROVE f[n + 1] \in D
    OBVIOUS
  <2>1. n \in 0..C /\ (n + 1) - 1 = n /\ n + 1 # 0
    BY <1>1
  <2>2. f[n] \in D
    BY <1>13, <2>1
  <2>3. f[n + 1] = [u \in Type |-> FlattenSeq(Parts(cr, u, f[n]))]
    BY <1>11, <2>1
  <2> QED
    BY <2>2, <2>3, PartsType DEF D
<1> HIDE DEF T
<1>14. Nat \subseteq T
  BY <1>12, <1>13, InductionOnNat
<1>15. f \in [0..C -> D]
  <2>1. \A n \in 0..C : n \in Nat /\ f[n] \in D
    BY <1>1, <1>14 DEF T
  <2> QED
    BY <1>11, <2>1
<1>16. \A n \in 1..C : \A u \in Type : f[n][u] = FlattenSeq(Parts(cr, u, f[n - 1]))
  <2> SUFFICES ASSUME NEW n \in 1..C, NEW u \in Type
               PROVE  f[n][u] = FlattenSeq(Parts(cr, u, f[n - 1]))
    OBVIOUS
  <2>1. n \in 0..C /\ n # 0
    BY <1>1
  <2> QED
    BY <1>11, <2>1
<1> QED
  BY <1>1, <1>15, <1>16 DEF C, D, f

(* Only what the values within a value write matters.                       *)
LEMMA PartsEqual ==
  ASSUME NEW cr, NEW u, NEW o1, NEW o2,
         \A i \in DOMAIN Body[u] :
           Body[u][i].do = "encode" => o1[Body[u][i].type] = o2[Body[u][i].type]
  PROVE  Parts(cr, u, o1) = Parts(cr, u, o2)
<1>1. \A i \in DOMAIN Body[u] : Part(cr, u, o1, i) = Part(cr, u, o2, i)
  BY DEF Part
<1> QED
  BY <1>1 DEF Parts

(* After as many rounds as values can be nested, nothing is missing.        *)
LEMMA EncodingFacts ==
  ASSUME NEW cr \in Coder, NEW t \in Type
  PROVE  /\ Encoding(cr, t) \in Seq(Chunk)
         /\ Encoding(cr, t) = FlattenSeq(Parts(cr, t, [u \in Type |-> Encoding(cr, u)]))
<1> DEFINE C == Cardinality(Type)
           f == Outputs(cr)
<1>1. /\ C \in Nat /\ f \in [0..C -> [Type -> Seq(Chunk)]]
      /\ \A n \in 1..C : \A u \in Type : f[n][u] = FlattenSeq(Parts(cr, u, f[n - 1]))
  BY OutputsFacts
<1>2. \A u \in Type : Encoding(cr, u) = f[C][u]
  BY EncodingIsOutput
<1>3. PICK rank \in [Type -> 0..(C - 1)] :
        \A u \in Type : \A i \in DOMAIN Body[u] :
          Body[u][i].do = "encode" => rank[Body[u][i].type] < rank[u]
  BY NestingAssumption
<1>4. \A u \in Type : \A i \in DOMAIN Body[u] : Body[u][i].do = "encode" => Body[u][i].type \in Type
  <2> SUFFICES ASSUME NEW u \in Type, NEW i \in DOMAIN Body[u], Body[u][i].do = "encode"
               PROVE  Body[u][i].type \in Type
    OBVIOUS
  <2>1. i \in 1..Len(Body[u]) /\ Len(Body[u]) \in Nat
    BY WorkFacts
  <2>2. Work(codecFor(cr, u))[i] =
          [do |-> Body[u][i].do, type |-> Body[u][i].type, chunk |-> <<codecFor(cr, u), i>>]
    BY <2>1, WorkFacts
  <2>3. Work(codecFor(cr, u))[i] \in Item
    BY <2>1, WorkFacts, ElementOfSeq
  <2> QED
    BY <2>2, <2>3 DEF Item
<1> HIDE DEF C, f
<1> DEFINE T == {n \in Nat : n \in 0..C => \A m \in 0..C : \A u \in Type :
                   rank[u] < n /\ rank[u] < m => f[n][u] = f[m][u]}
<1>5. \A u \in Type : rank[u] \in Nat /\ rank[u] \leq C - 1
  BY <1>1, <1>3
<1>6. 0 \in T
  BY <1>5
<1>7. ASSUME NEW n \in Nat, n \in T PROVE n + 1 \in T
  <2> SUFFICES ASSUME n + 1 \in 0..C, NEW m \in 0..C, NEW u \in Type,
                      rank[u] < n + 1, rank[u] < m
               PROVE  f[n + 1][u] = f[m][u]
    OBVIOUS
  <2>1. n + 1 \in 1..C /\ m \in 1..C /\ n \in 0..C /\ m - 1 \in 0..C /\ (n + 1) - 1 = n
    BY <1>1, <1>5
  <2>2. /\ f[n + 1][u] = FlattenSeq(Parts(cr, u, f[n]))
        /\ f[m][u] = FlattenSeq(Parts(cr, u, f[m - 1]))
    BY <1>1, <2>1
  <2>3. ASSUME NEW i \in DOMAIN Body[u], Body[u][i].do = "encode"
        PROVE  f[n][Body[u][i].type] = f[m - 1][Body[u][i].type]
    <3> DEFINE v == Body[u][i].type
    <3>1. v \in Type /\ rank[v] < rank[u]
      BY <1>3, <1>4, <2>3
    <3> HIDE DEF v
    <3>2. rank[v] < n /\ rank[v] < m - 1
      BY <1>5, <2>1, <3>1
    <3>3. f[n][v] = f[m - 1][v]
      BY <1>7, <2>1, <3>1, <3>2
    <3> QED
      BY <3>3 DEF v
  <2>4. Parts(cr, u, f[n]) = Parts(cr, u, f[m - 1])
    BY <2>3, PartsEqual
  <2> QED
    BY <2>2, <2>4
<1>8. Nat \subseteq T
  <2> HIDE DEF T
  <2> QED
    BY <1>6, <1>7, InductionOnNat
<1>9. C \in 1..C /\ C \in 0..C /\ C - 1 \in 0..C
  BY <1>1, <1>5
<1>10. Encoding(cr, t) \in Seq(Chunk) /\ Encoding(cr, t) = FlattenSeq(Parts(cr, t, f[C - 1]))
  BY <1>1, <1>2, <1>9
<1> DEFINE o == [u \in Type |-> Encoding(cr, u)]
<1>11. ASSUME NEW i \in DOMAIN Body[t], Body[t][i].do = "encode"
       PROVE  f[C - 1][Body[t][i].type] = o[Body[t][i].type]
  <2> DEFINE v == Body[t][i].type
  <2>1. v \in Type /\ rank[v] < rank[t]
    BY <1>3, <1>4, <1>11
  <2>2. o[v] = f[C][v]
    BY <1>2, <2>1
  <2> HIDE DEF v, o
  <2>3. rank[v] < C /\ rank[v] < C - 1 /\ C - 1 \in Nat
    <3>1. rank[v] \in Nat /\ rank[t] \in Nat /\ rank[t] \leq C - 1
      BY <1>5, <2>1
    <3> QED
      BY <1>9, <2>1, <3>1
  <2>4. f[C - 1][v] = f[C][v]
    BY <1>8, <1>9, <2>1, <2>3
  <2> QED
    BY <2>2, <2>4 DEF v
<1>12. Parts(cr, t, f[C - 1]) = Parts(cr, t, o)
  <2> HIDE DEF o
  <2> QED
    BY <1>11, PartsEqual
<1> QED
  BY <1>10, <1>12

-----------------------------------------------------------------------------
(* What the items of an operation's work still write.                       *)
ItemOut(cr, x) ==
  CASE x.do \in {"write", "string"} -> <<x.chunk>>
    [] x.do = "encode" -> Encoding(cr, x.type)
    [] OTHER -> <<>>
Pieces(cr, work) == [i \in DOMAIN work |-> ItemOut(cr, work[i])]
Todo(cr, work) == FlattenSeq(Pieces(cr, work))

(* An instruction writes chunks.                                            *)
LEMMA ItemOutType ==
  ASSUME NEW cr \in Coder, NEW x \in Item
  PROVE  ItemOut(cr, x) \in Seq(Chunk)
<1>1. x.do = "encode" => Encoding(cr, x.type) \in Seq(Chunk)
  BY EncodingFacts DEF Item
<1>2. x.chunk \in Chunk
  BY DEF Item, Items
<1>3. <<x.chunk>> \in Seq(Chunk) /\ <<>> \in Seq(Chunk)
  BY <1>2
<1> QED
  BY <1>1, <1>3 DEF ItemOut

(* The work of an operation, instruction by instruction.                    *)
LEMMA PiecesFacts ==
  ASSUME NEW cr \in Coder, NEW work \in Seq(Item)
  PROVE  /\ Pieces(cr, work) \in Seq(Seq(Chunk)) /\ Len(Pieces(cr, work)) = Len(work)
         /\ \A i \in 1..Len(work) : Pieces(cr, work)[i] = ItemOut(cr, work[i])
         /\ Todo(cr, work) \in Seq(Chunk)
<1> DEFINE n == Len(work)
           D == Seq(Chunk)
<1>1. n \in Nat /\ DOMAIN work = 1..n /\ \A i \in 1..n : work[i] \in Item
  BY LenProperties
<1>2. \A i \in 1..n : ItemOut(cr, work[i]) \in D
  BY <1>1, ItemOutType
<1>3. Pieces(cr, work) = [i \in 1..n |-> ItemOut(cr, work[i])]
  BY <1>1 DEF Pieces
<1> HIDE DEF n, D
<1>4. Pieces(cr, work) \in Seq(D) /\ Len(Pieces(cr, work)) = n
  BY <1>1, <1>2, <1>3
<1>5. \A i \in 1..n : Pieces(cr, work)[i] = ItemOut(cr, work[i])
  BY <1>3
<1> QED
  BY <1>4, <1>5, FlattenType DEF Todo, n, D

(* Nothing to do writes nothing.                                            *)
LEMMA TodoEmpty == \A cr : Todo(cr, <<>>) = <<>>
<1> SUFFICES ASSUME NEW cr PROVE Todo(cr, <<>>) = <<>>
  OBVIOUS
<1>1. Pieces(cr, <<>>) = <<>>
  BY DEF Pieces
<1> QED
  BY <1>1, FlattenEmpty DEF Todo

(* Work done after other work is written after it.                          *)
LEMMA TodoConcat ==
  ASSUME NEW cr \in Coder, NEW a \in Seq(Item), NEW b \in Seq(Item)
  PROVE  Todo(cr, a \o b) = Todo(cr, a) \o Todo(cr, b)
<1> DEFINE D == Seq(Chunk)
           pa == Pieces(cr, a)
           pb == Pieces(cr, b)
           pab == Pieces(cr, a \o b)
<1>1. /\ a \o b \in Seq(Item) /\ Len(a \o b) = Len(a) + Len(b)
      /\ Len(a) \in Nat /\ Len(b) \in Nat
      /\ \A i \in 1..(Len(a) + Len(b)) :
           (a \o b)[i] = IF i \leq Len(a) THEN a[i] ELSE b[i - Len(a)]
  BY ConcatProperties, LenProperties
<1>2. /\ pa \in Seq(D) /\ Len(pa) = Len(a) /\ pb \in Seq(D) /\ Len(pb) = Len(b)
      /\ pab \in Seq(D) /\ Len(pab) = Len(a) + Len(b)
      /\ \A i \in 1..Len(a) : pa[i] = ItemOut(cr, a[i])
      /\ \A i \in 1..Len(b) : pb[i] = ItemOut(cr, b[i])
      /\ \A i \in 1..(Len(a) + Len(b)) : pab[i] = ItemOut(cr, (a \o b)[i])
  BY <1>1, PiecesFacts
<1> HIDE DEF D, pa, pb, pab
<1>3. /\ pa \o pb \in Seq(D) /\ Len(pa \o pb) = Len(a) + Len(b)
      /\ \A i \in 1..(Len(a) + Len(b)) :
           (pa \o pb)[i] = IF i \leq Len(a) THEN pa[i] ELSE pb[i - Len(a)]
  <2>1. pa \in Seq(D) /\ pb \in Seq(D) /\ Len(pa) = Len(a) /\ Len(pb) = Len(b)
    BY <1>2
  <2>2. /\ pa \o pb \in Seq(D) /\ Len(pa \o pb) = Len(pa) + Len(pb)
        /\ \A i \in 1..(Len(pa) + Len(pb)) :
             (pa \o pb)[i] = IF i \leq Len(pa) THEN pa[i] ELSE pb[i - Len(pa)]
    BY <2>1, ConcatProperties
  <2> QED
    BY <2>1, <2>2
<1>4. \A i \in 1..(Len(a) + Len(b)) : pab[i] = (pa \o pb)[i]
  <2> SUFFICES ASSUME NEW i \in 1..(Len(a) + Len(b)) PROVE pab[i] = (pa \o pb)[i]
    OBVIOUS
  <2>1. CASE i \leq Len(a)
    <3>1. i \in 1..Len(a)
      BY <1>1, <2>1
    <3> QED
      BY <1>1, <1>2, <1>3, <2>1, <3>1
  <2>2. CASE ~(i \leq Len(a))
    <3>1. i - Len(a) \in 1..Len(b)
      BY <1>1, <2>2
    <3> QED
      BY <1>1, <1>2, <1>3, <2>2, <3>1
  <2> QED
    BY <2>1, <2>2
<1>5. pab = pa \o pb
  BY <1>2, <1>3, <1>4, SeqEqual
<1> QED
  BY <1>2, <1>5, FlattenConcat DEF Todo, D, pa, pb, pab

(* The next instruction is written first.                                   *)
LEMMA TodoHead ==
  ASSUME NEW cr \in Coder, NEW x \in Item, NEW rest \in Seq(Item)
  PROVE  /\ ItemOut(cr, x) \in Seq(Chunk) /\ Todo(cr, rest) \in Seq(Chunk)
         /\ Todo(cr, <<x>> \o rest) = ItemOut(cr, x) \o Todo(cr, rest)
<1>1. <<x>> \in Seq(Item)
  OBVIOUS
<1>2. Pieces(cr, <<x>>) = <<ItemOut(cr, x)>>
  BY DEF Pieces
<1>3. Todo(cr, <<x>>) = ItemOut(cr, x)
  BY <1>2, ItemOutType, FlattenOne DEF Todo
<1> QED
  BY <1>1, <1>3, TodoConcat, ItemOutType, PiecesFacts

(* What a codec has to do writes the encoding of the value.                 *)
LEMMA TodoWork ==
  ASSUME NEW cr \in Coder, NEW t \in Type
  PROVE  /\ Todo(cr, Work(codecFor(cr, t))) = Encoding(cr, t)
         /\ Todo(cr, Root(t)) = Encoding(cr, t)
<1> DEFINE w == Work(codecFor(cr, t))
           o == [u \in Type |-> Encoding(cr, u)]
           n == Len(Body[t])
<1>1. /\ w \in Seq(Item) /\ Len(w) = n /\ n \in Nat /\ DOMAIN Body[t] = 1..n
      /\ \A i \in 1..n : w[i] = [do |-> Body[t][i].do, type |-> Body[t][i].type,
                                 chunk |-> <<codecFor(cr, t), i>>]
      /\ \A i \in 1..n : w[i] \in Item
  BY WorkFacts, ElementOfSeq
<1>2. DOMAIN w = 1..n
  BY <1>1, LenProperties
<1> HIDE DEF w, n
<1>3. \A i \in 1..n : ItemOut(cr, w[i]) = Part(cr, t, o, i)
  <2> SUFFICES ASSUME NEW i \in 1..n PROVE ItemOut(cr, w[i]) = Part(cr, t, o, i)
    OBVIOUS
  <2>1. /\ w[i].do = Body[t][i].do /\ w[i].type = Body[t][i].type
        /\ w[i].chunk = <<codecFor(cr, t), i>>
    BY <1>1
  <2>2. w[i].do = "encode" => w[i].type \in Type
    BY <1>1 DEF Item
  <2> QED
    BY <2>1, <2>2 DEF ItemOut, Part
<1>4. Pieces(cr, w) = Parts(cr, t, o)
  BY <1>1, <1>2, <1>3 DEF Pieces, Parts
<1>5. Todo(cr, Root(t)) = Encoding(cr, t)
  <2> DEFINE x == [do |-> "encode", type |-> t, chunk |-> Nothing]
  <2>1. Pieces(cr, Root(t)) = <<ItemOut(cr, x)>> /\ ItemOut(cr, x) = Encoding(cr, t)
    BY DEF Pieces, Root, ItemOut
  <2> QED
    BY <2>1, EncodingFacts, FlattenOne DEF Todo
<1> QED
  BY <1>4, <1>5, EncodingFacts DEF Todo, w

(* What an operation is to write.                                           *)
Values(cr, types) == [i \in DOMAIN types |-> Encoding(cr, types[i])]

(* Expected, value by value.                                                *)
LEMMA ExpectedIsValues == \A o : Expected(o) = FlattenSeq(Values(o.cr, o.types))
BY DEF Expected, Values

(* The encodings of an operation's values.                                  *)
LEMMA ValuesFacts ==
  ASSUME NEW cr \in Coder, NEW types \in Seq(Type)
  PROVE  /\ Values(cr, types) \in Seq(Seq(Chunk)) /\ Len(Values(cr, types)) = Len(types)
         /\ \A i \in 1..Len(types) : Values(cr, types)[i] = Encoding(cr, types[i])
         /\ FlattenSeq(Values(cr, types)) \in Seq(Chunk)
<1> DEFINE n == Len(types)
           D == Seq(Chunk)
<1>1. n \in Nat /\ DOMAIN types = 1..n /\ \A i \in 1..n : types[i] \in Type
  BY LenProperties
<1>2. \A i \in 1..n : Encoding(cr, types[i]) \in D
  BY <1>1, EncodingFacts
<1>3. Values(cr, types) = [i \in 1..n |-> Encoding(cr, types[i])]
  BY <1>1 DEF Values
<1> HIDE DEF n, D
<1>4. Values(cr, types) \in Seq(D) /\ Len(Values(cr, types)) = n
  BY <1>1, <1>2, <1>3
<1>5. \A i \in 1..n : Values(cr, types)[i] = Encoding(cr, types[i])
  BY <1>3
<1> QED
  BY <1>4, <1>5, FlattenType DEF n, D

(* One value more is encoded after the others.                              *)
LEMMA ValuesAppend ==
  ASSUME NEW cr \in Coder, NEW types \in Seq(Type), NEW t \in Type
  PROVE  FlattenSeq(Values(cr, Append(types, t))) =
           FlattenSeq(Values(cr, types)) \o Encoding(cr, t)
<1> DEFINE D == Seq(Chunk)
           v == Values(cr, types)
           w == Values(cr, Append(types, t))
           e == Encoding(cr, t)
           n == Len(types)
<1>1. /\ n \in Nat /\ Append(types, t) \in Seq(Type) /\ Len(Append(types, t)) = n + 1
      /\ \A i \in 1..n : Append(types, t)[i] = types[i]
      /\ Append(types, t)[n + 1] = t
  BY AppendProperties, LenProperties
<1>2. /\ v \in Seq(D) /\ Len(v) = n /\ \A i \in 1..n : v[i] = Encoding(cr, types[i])
      /\ w \in Seq(D) /\ Len(w) = n + 1
      /\ \A i \in 1..(n + 1) : w[i] = Encoding(cr, Append(types, t)[i])
      /\ e \in D
  BY <1>1, ValuesFacts, EncodingFacts
<1>3. w[n + 1] = e /\ \A i \in 1..n : w[i] = v[i]
  <2>1. n + 1 \in 1..(n + 1) /\ \A i \in 1..n : i \in 1..(n + 1)
    BY <1>1
  <2> HIDE DEF D, v, w, n
  <2>2. w[n + 1] = e
    BY <1>1, <1>2, <2>1
  <2>3. ASSUME NEW i \in 1..n PROVE w[i] = v[i]
    <3>1. w[i] = Encoding(cr, Append(types, t)[i])
      BY <1>2, <2>1
    <3>2. Append(types, t)[i] = types[i]
      BY <1>1
    <3> QED
      BY <1>2, <3>1, <3>2
  <2> QED
    BY <2>2, <2>3
<1> HIDE DEF D, v, w, e, n
<1>4. /\ Append(v, e) \in Seq(D) /\ Len(Append(v, e)) = n + 1
      /\ \A i \in 1..n : Append(v, e)[i] = v[i]
      /\ Append(v, e)[n + 1] = e
  BY <1>2, AppendProperties
<1>5. \A i \in 1..(n + 1) : w[i] = Append(v, e)[i]
  BY <1>1, <1>3, <1>4
<1>6. w = Append(v, e)
  BY <1>2, <1>4, <1>5, SeqEqual
<1> QED
  BY <1>2, <1>6, FlattenAppend DEF D, v, w, e

(* Marshal and Write encode a single value.                                 *)
LEMMA ValuesOne == ASSUME NEW cr \in Coder, NEW t \in Type
                   PROVE  FlattenSeq(Values(cr, <<t>>)) = Encoding(cr, t)
<1>1. Values(cr, <<t>>) = <<Encoding(cr, t)>>
  BY DEF Values
<1> QED
  BY <1>1, EncodingFacts, FlattenOne

-----------------------------------------------------------------------------
(* What an operation has written so far, by its own writer and its buffer.  *)
SentIn(d, f) == IF f.buf = Nothing THEN d[f.dst] ELSE d[f.dst] \o d[f.buf]

ProgressIn(d, f) ==
  /\ f.status = "run" => SentIn(d, f) \o Todo(f.cr, f.work) = Expected(f)
  /\ f.status = "flush" => SentIn(d, f) = Expected(f)
  /\ IsPrefix(d[f.dst], Expected(f))

ProgressOK ==
  \A g \in Goroutine : \A i \in DOMAIN stack[g] : ProgressIn(data, stack[g][i])

Contents == [Sink -> Seq(Chunk)]

(* An operation's writers, and what has been written to them.               *)
LEMMA SentType ==
  ASSUME NEW d \in Contents, NEW f \in FrameSet
  PROVE  /\ f.dst \in Sink
         /\ f.buf # Nothing => f.buf \in Sink
         /\ SentIn(d, f) \in Seq(Chunk) /\ Todo(f.cr, f.work) \in Seq(Chunk)
<1>1. /\ f.dst \in Sink /\ f.buf \in BufWriter \cup {Nothing}
      /\ f.cr \in Coder /\ f.work \in Seq(Item)
  BY DEF FrameSet
<1>2. f.buf # Nothing => f.buf \in Sink
  BY <1>1 DEF Sink
<1>3. d[f.dst] \in Seq(Chunk) /\ (f.buf # Nothing => d[f.buf] \in Seq(Chunk))
  BY <1>1, <1>2 DEF Contents
<1>4. f.buf # Nothing => d[f.dst] \o d[f.buf] \in Seq(Chunk)
  BY <1>3, ConcatProperties
<1> QED
  BY <1>1, <1>2, <1>3, <1>4, PiecesFacts DEF SentIn

(* What has reached the writer is a beginning of what is expected.          *)
LEMMA SentIsPrefix ==
  ASSUME NEW d \in Contents, NEW f \in FrameSet, NEW x \in Seq(Chunk),
         SentIn(d, f) \o x = Expected(f)
  PROVE  IsPrefix(d[f.dst], Expected(f))
<1>1. f.dst \in Sink /\ (f.buf # Nothing => f.buf \in Sink)
  BY SentType
<1>2. CASE f.buf = Nothing
  <2>1. SentIn(d, f) = d[f.dst] /\ d[f.dst] \in Seq(Chunk)
    BY <1>1, <1>2 DEF SentIn, Contents
  <2> QED
    BY <2>1, PrefixFacts
<1>3. CASE f.buf # Nothing
  <2> DEFINE a == d[f.dst]
             b == d[f.buf]
  <2>1. a \in Seq(Chunk) /\ b \in Seq(Chunk)
    BY <1>1, <1>3 DEF Contents
  <2>2. (a \o b) \o x = Expected(f)
    BY <1>3 DEF SentIn
  <2> HIDE DEF a, b
  <2>3. b \o x \in Seq(Chunk)
    BY <2>1, ConcatProperties
  <2>4. (a \o b) \o x = a \o (b \o x)
    BY <2>1, ConcatAssociative
  <2>5. IsPrefix(a, a \o (b \o x))
    BY <2>1, <2>3, PrefixFacts
  <2> QED
    BY <2>2, <2>4, <2>5 DEF a
<1> QED
  BY <1>2, <1>3

(* A running operation has written all but what it has to do.               *)
LEMMA RunProgress ==
  ASSUME NEW d \in Contents, NEW f \in FrameSet, f.status = "run",
         SentIn(d, f) \o Todo(f.cr, f.work) = Expected(f)
  PROVE  ProgressIn(d, f)
BY SentType, SentIsPrefix DEF ProgressIn

(* Expected looks at the coder and at the types only.                       *)
LEMMA ExpectedOf ==
  ASSUME NEW o1, NEW o2, o1.cr = o2.cr, o1.types = o2.types
  PROVE  Expected(o1) = Expected(o2)
BY DEF Expected

(* Progress depends on the operation's own writers only.                    *)
LEMMA SameProgress ==
  ASSUME NEW d, NEW e, NEW f, ProgressIn(d, f), e[f.dst] = d[f.dst],
         f.buf # Nothing => e[f.buf] = d[f.buf]
  PROVE  ProgressIn(e, f)
BY DEF ProgressIn, SentIn

(* An operation that stops leaves a beginning behind.                       *)
LEMMA StoppedProgress ==
  ASSUME NEW d, NEW e, NEW f, NEW h, ProgressIn(d, f), h.status \notin {"run", "flush"},
         h.cr = f.cr, h.types = f.types, h.dst = f.dst, e[f.dst] = d[f.dst]
  PROVE  ProgressIn(e, h)
BY ExpectedOf DEF ProgressIn

(* A step that touches nothing but the writers of one frame leaves the      *)
(* others where they are.                                                   *)
LEMMA OtherProgress ==
  ASSUME NEW d, NEW e, NEW f \in FrameSet, NEW h \in FrameSet,
         KindOK(f), KindOK(h), Apart(h, f),
         \A s \in Sink : s # f.dst /\ s # f.buf => e[s] = d[s],
         ProgressIn(d, h)
  PROVE  ProgressIn(e, h)
<1>1. /\ h.dst \in Writer \cup MarshalEnc /\ h.buf \in BufWriter \cup {Nothing}
      /\ f.dst \in Writer \cup MarshalEnc /\ f.buf \in BufWriter \cup {Nothing}
  BY DEF KindOK, FrameSet
<1>2. h.dst # f.dst /\ h.dst # f.buf /\ h.dst \in Sink
  BY <1>1, PoolAssumption DEF Apart, Sink
<1>3. h.buf # Nothing => h.buf # f.buf /\ h.buf # f.dst /\ h.buf \in Sink
  BY <1>1, PoolAssumption DEF Apart, Sink
<1> QED
  BY <1>2, <1>3, SameProgress

-----------------------------------------------------------------------------
(* How the steps of an operation move the boundary.                         *)
LEMMA TopProgress ==
  ASSUME IInv, ProgressOK, NEW g \in Goroutine, Busy(g), NEW f \in FrameSet,
         stack' = WithTop(g, f),
         \A s \in Sink : s # Top(g).dst /\ s # Top(g).buf => data'[s] = data[s],
         ProgressIn(data', f)
  PROVE  ProgressOK'
<1>1. Typed /\ FramesOK /\ AllApart
  BY DEF IInv, FramesInv
<1>2. /\ Len(stack[g]) \in DOMAIN stack[g] /\ Top(g) = stack[g][Len(stack[g])]
      /\ Top(g) \in FrameSet
  BY <1>1, TopFacts
<1> SUFFICES ASSUME NEW h \in Goroutine, NEW i \in DOMAIN stack'[h]
             PROVE  ProgressIn(data', stack'[h][i])
  BY DEF ProgressOK
<1>3. /\ i \in DOMAIN stack[h]
      /\ stack'[h][i] = IF h = g /\ i = Len(stack[g]) THEN f ELSE stack[h][i]
  BY <1>1, WithTopFacts
<1>4. CASE h = g /\ i = Len(stack[g])
  BY <1>3, <1>4
<1>5. CASE ~(h = g /\ i = Len(stack[g]))
  <2>1. /\ stack[h][i] \in FrameSet /\ KindOK(stack[h][i]) /\ KindOK(Top(g))
        /\ Apart(stack[h][i], Top(g)) /\ ProgressIn(data, stack[h][i])
    BY <1>1, <1>2, <1>3, <1>5, TopFacts DEF FramesOK, AllApart, ProgressOK
  <2>2. ProgressIn(data', stack[h][i])
    BY <1>2, <2>1, OtherProgress
  <2> QED
    BY <1>3, <1>5, <2>2
<1> QED
  BY <1>4, <1>5

(* An operation begins, and the others are where they were.                 *)
LEMMA BeginProgress ==
  ASSUME IInv, IInv', ProgressOK, NEW g \in Goroutine, NEW f \in FrameSet,
         stack' = [stack EXCEPT ![g] = Append(@, f)],
         \A s \in Sink : s # f.dst /\ s # f.buf => data'[s] = data[s],
         ProgressIn(data', f)
  PROVE  ProgressOK'
<1>1. Typed /\ FramesOK /\ FramesOK' /\ AllApart'
  BY DEF IInv, FramesInv
<1> DEFINE n == Len(stack[g]) + 1
<1>2. /\ \A h \in Goroutine : h # g => stack'[h] = stack[h]
      /\ DOMAIN stack'[g] = 1..n /\ stack'[g][n] = f /\ n \in 1..n
      /\ DOMAIN stack[g] = 1..(n - 1) /\ n \in Nat
      /\ \A i \in 1..(n - 1) : stack'[g][i] = stack[g][i]
  <2>1. Len(stack[g]) \in Nat /\ DOMAIN stack[g] = 1..Len(stack[g])
    BY <1>1, TopFacts
  <2>2. n \in Nat /\ n \in 1..n /\ n - 1 = Len(stack[g])
    BY <2>1
  <2> QED
    BY <1>1, <2>1, <2>2, PushFacts
<1> HIDE DEF n
<1> SUFFICES ASSUME NEW h \in Goroutine, NEW i \in DOMAIN stack'[h]
             PROVE  ProgressIn(data', stack'[h][i])
  BY DEF ProgressOK
<1>3. CASE h = g /\ i = n
  BY <1>2, <1>3
<1>4. CASE ~(h = g /\ i = n)
  <2>1. i \in DOMAIN stack[h] /\ stack'[h][i] = stack[h][i]
    <3>1. CASE h = g
      <4>1. i \in 1..n /\ i # n
        BY <1>2, <1>4, <3>1
      <4>2. i \in 1..(n - 1)
        BY <1>2, <4>1
      <4> QED
        BY <1>2, <3>1, <4>2
    <3>2. CASE h # g
      BY <1>2, <3>2
    <3> QED
      BY <3>1, <3>2
  <2>2. Apart(stack'[h][i], stack'[g][n]) /\ KindOK(stack'[g][n]) /\ n \in DOMAIN stack'[g]
    BY <1>1, <1>2, <1>4 DEF AllApart, FramesOK, Apart, KindOK
  <2>3. /\ stack[h][i] \in FrameSet /\ KindOK(stack[h][i]) /\ ProgressIn(data, stack[h][i])
    BY <1>1, <2>1, TopFacts DEF FramesOK, ProgressOK
  <2>4. ProgressIn(data', stack[h][i])
    BY <1>2, <2>1, <2>2, <2>3, OtherProgress
  <2> QED
    BY <2>1, <2>4
<1> QED
  BY <1>3, <1>4

(* What a MarshalXDR method is in the middle of is not written by a codec.  *)
LEMMA ResumedProgress ==
  ASSUME NEW d \in Contents, NEW f \in FrameSet, CallsMarshal(f), NEW status, ProgressIn(d, f)
  PROVE  ProgressIn(d, Resumed(f, status))
<1>1. /\ Resumed(f, status).cr = f.cr /\ Resumed(f, status).buf = f.buf
      /\ Resumed(f, status).dst = f.dst /\ Resumed(f, status).types = f.types
      /\ Resumed(f, status) \in FrameSet /\ f.status = "run"
  BY ResumedFacts DEF CallsMarshal
<1>2. CASE status = "panic"
  <2>1. Resumed(f, status).status = "panic"
    BY <1>2 DEF Resumed, FrameSet
  <2> QED
    BY <1>1, <2>1, StoppedProgress
<1>3. CASE status # "panic"
  <2> DEFINE x == Head(f.work)
             rest == Tail(f.work)
  <2>1. Resumed(f, status).work = rest /\ Resumed(f, status).status = "run"
    BY <1>1, <1>3 DEF Resumed, FrameSet
  <2>2. /\ f.work \in Seq(Item) /\ f.cr \in Coder /\ f.work # <<>> /\ x.do = "marshal"
    BY DEF FrameSet, CallsMarshal
  <2>3. x \in Item /\ rest \in Seq(Item) /\ f.work = <<x>> \o rest
    BY <2>2, HeadFacts
  <2> HIDE DEF x, rest
  <2>4. Todo(f.cr, f.work) = ItemOut(f.cr, x) \o Todo(f.cr, rest) /\ Todo(f.cr, rest) \in Seq(Chunk)
    BY <2>2, <2>3, TodoHead
  <2>5. ItemOut(f.cr, x) = <<>>
    BY <2>2 DEF ItemOut
  <2>6. Todo(f.cr, f.work) = Todo(f.cr, rest)
    BY <2>4, <2>5, ConcatEmptySeq
  <2>7. SentIn(d, Resumed(f, status)) = SentIn(d, f)
    BY <1>1 DEF SentIn
  <2>8. Expected(Resumed(f, status)) = Expected(f)
    BY <1>1, ExpectedOf
  <2>9. SentIn(d, f) \o Todo(f.cr, f.work) = Expected(f)
    BY <1>1 DEF ProgressIn
  <2> QED
    BY <1>1, <2>1, <2>6, <2>7, <2>8, <2>9, RunProgress
<1> QED
  BY <1>2, <1>3

(* An operation returns, and the others are where they were.                *)
LEMMA ReturnProgress ==
  ASSUME IInv, ProgressOK, NEW g \in Goroutine, Busy(g), NEW status, NEW out,
         ReturnTo(g, Top(g), status, out), data' \in Contents,
         \A s \in Sink : s # Top(g).dst /\ s # Top(g).buf => data'[s] = data[s]
  PROVE  ProgressOK'
<1>1. Typed /\ FramesOK /\ AllApart
  BY DEF IInv, FramesInv
<1> DEFINE n == Len(stack[g]) - 1
<1>2. /\ \A h \in Goroutine : h # g => stack'[h] = stack[h]
      /\ n \in Nat /\ DOMAIN stack'[g] = 1..n
      /\ \A i \in 1..n :
           stack'[g][i] = IF i = n THEN Resumed(stack[g][n], status) ELSE stack[g][i]
  BY <1>1, ReturnFacts
<1>3. /\ Len(stack[g]) \in DOMAIN stack[g] /\ Top(g) = stack[g][Len(stack[g])]
      /\ Top(g) \in FrameSet /\ DOMAIN stack[g] = 1..Len(stack[g]) /\ Len(stack[g]) = n + 1
  <2>1. Len(stack[g]) \in Nat
    BY <1>1, TopFacts
  <2> QED
    BY <1>1, <2>1, TopFacts
<1> HIDE DEF n
<1> SUFFICES ASSUME NEW h \in Goroutine, NEW i \in DOMAIN stack'[h]
             PROVE  ProgressIn(data', stack'[h][i])
  BY DEF ProgressOK
<1>4. i \in DOMAIN stack[h] /\ ~(h = g /\ i = Len(stack[g]))
  <2>1. CASE h = g
    <3>1. i \in 1..n
      BY <1>2, <2>1
    <3>2. i \in 1..(n + 1) /\ i # n + 1
      BY <1>2, <3>1
    <3> QED
      BY <1>3, <2>1, <3>2
  <2>2. CASE h # g
    BY <1>2, <2>2
  <2> QED
    BY <2>1, <2>2
<1>5. /\ stack[h][i] \in FrameSet /\ KindOK(stack[h][i]) /\ KindOK(Top(g))
      /\ Apart(stack[h][i], Top(g)) /\ ProgressIn(data, stack[h][i])
  BY <1>1, <1>3, <1>4, TopFacts DEF FramesOK, AllApart, ProgressOK
<1>6. ProgressIn(data', stack[h][i])
  BY <1>3, <1>5, OtherProgress
<1>7. CASE h = g /\ i = n
  <2>1. CallsMarshal(stack[g][n])
    <3>1. n < Len(stack[g])
      BY <1>2, <1>3
    <3> QED
      BY <1>1, <1>4, <1>7, <3>1 DEF FramesOK
  <2>2. ProgressIn(data', Resumed(stack[g][n], status))
    BY <1>5, <1>6, <1>7, <2>1, ResumedProgress
  <2>3. i \in 1..n
    BY <1>2, <1>7
  <2> QED
    BY <1>2, <1>7, <2>2, <2>3
<1>8. CASE ~(h = g /\ i = n)
  <2>1. stack'[h][i] = stack[h][i]
    BY <1>2, <1>8
  <2> QED
    BY <1>6, <2>1
<1> QED
  BY <1>7, <1>8

-----------------------------------------------------------------------------
(* A frame with other work, or another status.                              *)
LEMMA FrameWith ==
  ASSUME NEW f \in FrameSet
  PROVE  /\ \A work \in Seq(Item) :
              LET h == [f EXCEPT !.work = work]
              IN  /\ h \in FrameSet /\ h.work = work /\ h.status = f.status
                  /\ h.cr = f.cr /\ h.types = f.types /\ h.dst = f.dst /\ h.buf = f.buf
         /\ \A status \in {"error", "panic"} :
              LET h == [f EXCEPT !.status = status]
              IN  /\ h \in FrameSet /\ h.status = status
                  /\ h.cr = f.cr /\ h.types = f.types /\ h.dst = f.dst /\ h.buf = f.buf
BY DEF FrameSet

(* Where a running operation is, and what its next instruction writes.      *)
LEMMA ItemProgress ==
  ASSUME IInv, ProgressOK, NEW g \in Goroutine, NEW kinds, AtItem(g, kinds)
  PROVE  LET f == Top(g)
             rest == Tail(f.work)
         IN  /\ f \in FrameSet /\ f.status = "run" /\ ProgressIn(data, f) /\ data \in Contents
             /\ rest \in Seq(Item) /\ f.cr \in Coder /\ NextItem(g) \in Item
             /\ ItemOut(f.cr, NextItem(g)) \in Seq(Chunk) /\ Todo(f.cr, rest) \in Seq(Chunk)
             /\ SentIn(data, f) \in Seq(Chunk)
             /\ SentIn(data, f) \o (ItemOut(f.cr, NextItem(g)) \o Todo(f.cr, rest)) = Expected(f)
<1> DEFINE f == Top(g)
           rest == Tail(f.work)
           x == NextItem(g)
<1>1. /\ Running(g) /\ x \in Item /\ rest \in Seq(Item) /\ f.work = <<x>> \o rest
  BY ItemFacts
<1>2. Busy(g) /\ f \in FrameSet /\ f.status = "run"
  BY <1>1, RunningFacts
<1>3. Typed /\ f.cr \in Coder /\ data \in Contents
  BY <1>2 DEF IInv, Typed, Contents, FrameSet
<1>4. ProgressIn(data, f)
  BY <1>2, <1>3, TopFacts DEF ProgressOK
<1> HIDE DEF f, rest, x
<1>5. /\ ItemOut(f.cr, x) \in Seq(Chunk) /\ Todo(f.cr, rest) \in Seq(Chunk)
      /\ Todo(f.cr, f.work) = ItemOut(f.cr, x) \o Todo(f.cr, rest)
  BY <1>1, <1>3, TodoHead
<1>6. SentIn(data, f) \in Seq(Chunk)
  BY <1>2, <1>3, SentType
<1>7. SentIn(data, f) \o Todo(f.cr, f.work) = Expected(f)
  BY <1>2, <1>4 DEF ProgressIn
<1> QED
  BY <1>1, <1>2, <1>3, <1>4, <1>5, <1>6, <1>7 DEF f, rest, x

(* EncodeValue: the work of a codec takes the place of the value.           *)
LEMMA EncodeValueProgress ==
  ASSUME IInv, ProgressOK, NEW g \in Goroutine, EncodeValue(g)
  PROVE  ProgressOK'
<1> DEFINE f == Top(g)
           t == NextItem(g).type
           c == codecFor(f.cr, t)
           rest == Tail(f.work)
<1>1. /\ Running(g) /\ t \in Type /\ f.cr \in Coder /\ data' = data
      /\ \/ stack' = WithTop(g, [f EXCEPT !.status = "panic"])
         \/ stack' = WithTop(g, [f EXCEPT !.work = Work(c) \o rest])
  BY EncodeFacts
<1>2. AtItem(g, {"encode"})
  BY DEF EncodeValue
<1>3. NextItem(g).do = "encode" /\ Busy(g)
  BY <1>1, <1>2 DEF AtItem, Running
<1>4. /\ f \in FrameSet /\ f.status = "run" /\ ProgressIn(data, f) /\ data \in Contents
      /\ rest \in Seq(Item) /\ Todo(f.cr, rest) \in Seq(Chunk)
      /\ SentIn(data, f) \o (ItemOut(f.cr, NextItem(g)) \o Todo(f.cr, rest)) = Expected(f)
  BY <1>2, ItemProgress
<1>5. CASE stack' = WithTop(g, [f EXCEPT !.status = "panic"])
  <2> DEFINE h == [f EXCEPT !.status = "panic"]
  <2>1. /\ h \in FrameSet /\ h.status = "panic" /\ h.cr = f.cr /\ h.types = f.types /\ h.dst = f.dst
    BY <1>4, FrameWith
  <2> HIDE DEF h
  <2>2. ProgressIn(data', h)
    BY <1>1, <1>4, <2>1, StoppedProgress
  <2>3. stack' = WithTop(g, h)
    BY <1>5 DEF h
  <2> QED
    BY <1>1, <1>3, <2>1, <2>2, <2>3, TopProgress
<1>6. CASE stack' = WithTop(g, [f EXCEPT !.work = Work(c) \o rest])
  <2> DEFINE w == Work(c) \o rest
             h == [f EXCEPT !.work = w]
  <2>1. Work(c) \in Seq(Item)
    BY <1>1, WorkFacts
  <2>2. w \in Seq(Item)
    BY <1>4, <2>1, ConcatProperties
  <2>3. Todo(f.cr, w) = Todo(f.cr, Work(c)) \o Todo(f.cr, rest)
    BY <1>1, <1>4, <2>1, TodoConcat
  <2>4. Todo(f.cr, Work(c)) = ItemOut(f.cr, NextItem(g))
    BY <1>1, <1>3, TodoWork DEF ItemOut
  <2>5. stack' = WithTop(g, h)
    BY <1>6
  <2> HIDE DEF w
  <2>6. /\ h \in FrameSet /\ h.work = w /\ h.status = "run"
        /\ h.cr = f.cr /\ h.types = f.types /\ h.dst = f.dst /\ h.buf = f.buf
    BY <1>4, <2>2, FrameWith
  <2> HIDE DEF h, f
  <2>7. SentIn(data, h) = SentIn(data, f) /\ Expected(h) = Expected(f)
    BY <2>6, ExpectedOf DEF SentIn
  <2>8. SentIn(data, h) \o Todo(h.cr, h.work) = Expected(h)
    BY <1>4, <2>3, <2>4, <2>6, <2>7
  <2>9. ProgressIn(data', h)
    BY <1>1, <1>4, <2>6, <2>8, RunProgress
  <2> QED
    BY <1>1, <1>3, <2>5, <2>6, <2>9, TopProgress
<1> QED
  BY <1>1, <1>5, <1>6

(* A step that stops an operation early.                                    *)
LEMMA StopProgress ==
  ASSUME IInv, ProgressOK, NEW g \in Goroutine, Busy(g), NEW status \in {"error", "panic"},
         stack' = WithTop(g, [Top(g) EXCEPT !.status = status]), data' = data
  PROVE  ProgressOK'
<1> DEFINE f == Top(g)
           h == [f EXCEPT !.status = status]
<1>1. f \in FrameSet /\ ProgressIn(data, f)
  BY TopFacts DEF IInv, ProgressOK
<1>2. /\ h \in FrameSet /\ h.status = status /\ h.cr = f.cr /\ h.types = f.types /\ h.dst = f.dst
  BY <1>1, FrameWith
<1>3. stack' = WithTop(g, h)
  OBVIOUS
<1> HIDE DEF f, h
<1>4. ProgressIn(data', h)
  BY <1>1, <1>2, StoppedProgress
<1> QED
  BY <1>2, <1>3, <1>4, TopProgress

(* A codec that fails stops the operation.                                  *)
LEMMA FailProgress ==
  ASSUME IInv, ProgressOK, NEW g \in Goroutine, Fail(g)
  PROVE  ProgressOK'
<1> DEFINE status == IF NextItem(g).do = "fail" THEN "error" ELSE "panic"
<1>1. /\ Busy(g) /\ status \in {"error", "panic"} /\ data' = data
      /\ stack' = WithTop(g, [Top(g) EXCEPT !.status = status])
  BY DEF Fail, AtItem, Running
<1> HIDE DEF status
<1> QED
  BY <1>1, StopProgress

(* The user's writer, and the pooled buffer before it, of a running         *)
(* operation.                                                               *)
LEMMA TargetFacts ==
  ASSUME IInv, NEW g \in Goroutine, Running(g)
  PROVE  LET f == Top(g)
             s == Target(f)
         IN  /\ f \in FrameSet /\ s \in Sink /\ f.dst \in Sink /\ f.dst \notin BufWriter
             /\ data \in Contents
             /\ f.buf = Nothing => s = f.dst
             /\ f.buf # Nothing => f.buf = s /\ s \in BufWriter /\ bufio[s].dst = f.dst
<1> DEFINE f == Top(g)
           s == Target(f)
<1>1. f \in FrameSet /\ KindOK(f) /\ f.enc \in Encoder /\ s \in Sink /\ BufioIsOf(f)
  BY RunningFacts
<1>2. f.dst \in Sink /\ f.dst \notin BufWriter
  BY <1>1, PoolAssumption DEF FrameSet, KindOK
<1>3. f.buf # Nothing => f.buf = s /\ s \in BufWriter /\ bufio[s].dst = f.dst
  BY <1>1, <1>2, PoolAssumption DEF Target, BufioIsOf, FrameSet
<1>4. data \in Contents
  BY DEF IInv, Typed, Contents
<1>5. f.buf = Nothing => s = f.dst
  BY DEF Target
<1> QED
  BY <1>1, <1>2, <1>3, <1>4, <1>5

(* A chunk that is accepted has been written, buffered or not.              *)
LEMMA Accepted ==
  ASSUME IInv, NEW g \in Goroutine, Running(g), NEW chunk \in Chunk,
         Accept(Target(Top(g)), chunk)
  PROVE  SentIn(data', Top(g)) = SentIn(data, Top(g)) \o <<chunk>>
<1> DEFINE f == Top(g)
           s == Target(f)
           a == data[f.dst]
           b == data[f.buf]
<1>1. /\ f \in FrameSet /\ s \in Sink /\ f.dst \in Sink /\ f.dst \notin BufWriter
      /\ data \in Contents
      /\ f.buf = Nothing => s = f.dst
      /\ f.buf # Nothing => f.buf = s /\ s \in BufWriter /\ bufio[s].dst = f.dst
  BY TargetFacts
<1>2. data' = IF Full(s)
              THEN [data EXCEPT ![bufio[s].dst] = Flushed(s, BufSize), ![s] = <<chunk>>]
              ELSE [data EXCEPT ![s] = Append(@, chunk)]
  BY DEF Accept
<1>3. a \in Seq(Chunk) /\ <<chunk>> \in Seq(Chunk)
  BY <1>1 DEF Contents
<1> HIDE DEF f, s
<1>4. CASE f.buf = Nothing
  <2>1. ~Full(s)
    BY <1>1, <1>4 DEF Full
  <2>2. data'[f.dst] = Append(a, chunk)
    BY <1>1, <1>2, <1>4, <2>1 DEF Contents
  <2>3. Append(a, chunk) = a \o <<chunk>>
    BY <1>3, AppendIsConcat
  <2> QED
    BY <1>4, <2>2, <2>3 DEF SentIn, f
<1>5. CASE f.buf # Nothing
  <2>1. b \in Seq(Chunk)
    BY <1>1, <1>5 DEF Contents
  <2>2. CASE Full(s)
    <3>1. Flushed(s, BufSize) = a \o b
      <4>1. Len(b) = BufSize /\ Flushed(s, BufSize) = a \o SubSeq(b, 1, BufSize)
        BY <1>1, <1>5, <2>2 DEF Full, Flushed
      <4> HIDE DEF a, b
      <4>2. SubSeq(b, 1, Len(b)) = b
        BY <2>1, SubSeqFull
      <4> QED
        BY <4>1, <4>2
    <3>2. data'[f.dst] = a \o b /\ data'[f.buf] = <<chunk>>
      BY <1>1, <1>2, <1>5, <2>2, <3>1 DEF Contents
    <3> QED
      BY <1>5, <3>2 DEF SentIn, f
  <2>3. CASE ~Full(s)
    <3>1. data'[f.dst] = a /\ data'[f.buf] = Append(b, chunk)
      BY <1>1, <1>2, <1>5, <2>3 DEF Contents
    <3> HIDE DEF a, b
    <3>2. Append(b, chunk) = b \o <<chunk>>
      BY <2>1, AppendIsConcat
    <3>3. a \o (b \o <<chunk>>) = (a \o b) \o <<chunk>>
      BY <1>3, <2>1, ConcatAssociative
    <3>4. SentIn(data', f) = (a \o b) \o <<chunk>>
      BY <1>5, <3>1, <3>2, <3>3 DEF SentIn
    <3>5. SentIn(data, f) = a \o b
      BY <1>5 DEF SentIn, a, b
    <3> QED
      BY <3>4, <3>5 DEF f
  <2> QED
    BY <2>2, <2>3
<1> QED
  BY <1>4, <1>5

(* A writer that refuses has been given a beginning.                        *)
LEMMA Refused ==
  ASSUME IInv, ProgressOK, NEW g \in Goroutine, NEW kinds, AtItem(g, kinds),
         Refuse(Target(Top(g)))
  PROVE  IsPrefix(data'[Top(g).dst], Expected(Top(g)))
<1> DEFINE f == Top(g)
           s == Target(f)
           a == data[f.dst]
           b == data[f.buf]
           todo == ItemOut(f.cr, NextItem(g)) \o Todo(f.cr, Tail(f.work))
<1>1. Running(g)
  BY ItemFacts
<1>2. /\ f \in FrameSet /\ s \in Sink /\ f.dst \in Sink /\ f.dst \notin BufWriter
      /\ data \in Contents
      /\ f.buf = Nothing => s = f.dst
      /\ f.buf # Nothing => f.buf = s /\ s \in BufWriter /\ bufio[s].dst = f.dst
  BY <1>1, TargetFacts
<1>3. /\ ItemOut(f.cr, NextItem(g)) \in Seq(Chunk) /\ Todo(f.cr, Tail(f.work)) \in Seq(Chunk)
      /\ SentIn(data, f) \o todo = Expected(f) /\ ProgressIn(data, f)
  BY ItemProgress
<1>4. todo \in Seq(Chunk)
  BY <1>3, ConcatProperties
<1> HIDE DEF f, s, todo
<1>5. CASE UNCHANGED data
  <2>1. IsPrefix(data[f.dst], Expected(f))
    BY <1>3 DEF ProgressIn
  <2>2. data' = data
    BY <1>5
  <2> QED
    BY <2>1, <2>2 DEF f
<1>6. CASE Full(s) /\ \E n \in 0..BufSize : data' = [data EXCEPT ![bufio[s].dst] = Flushed(s, n)]
  <2>1. f.buf = s /\ s \in BufWriter /\ f.buf # Nothing
    BY <1>2, <1>6, PoolAssumption DEF Full
  <2>2. PICK n \in 0..BufSize : data' = [data EXCEPT ![f.dst] = Flushed(s, n)]
    BY <1>2, <1>6, <2>1
  <2>3. a \in Seq(Chunk) /\ b \in Seq(Chunk)
    BY <1>2, <2>1 DEF Contents
  <2>4. n \in 0..Len(b) /\ data'[f.dst] = a \o SubSeq(b, 1, n)
    BY <1>2, <1>6, <2>1, <2>2 DEF Full, Flushed, Contents
  <2>5. SentIn(data, f) = a \o b
    BY <2>1 DEF SentIn
  <2> HIDE DEF a, b
  <2>6. IsPrefix(a \o SubSeq(b, 1, n), (a \o b) \o todo)
    BY <1>4, <2>3, <2>4, BeginningIsPrefix
  <2> QED
    BY <1>3, <2>4, <2>5, <2>6 DEF f
<1>7. Refuse(s)
  BY DEF s, f
<1> QED
  BY <1>5, <1>6, <1>7 DEF Refuse

(* The chunk of an instruction is written, or the operation stops.          *)
LEMMA EmitChunkProgress ==
  ASSUME IInv, ProgressOK, NEW g \in Goroutine, EmitChunk(g)
  PROVE  ProgressOK'
<1> DEFINE f == Top(g)
           x == NextItem(g)
           rest == Tail(f.work)
<1>1. /\ AtItem(g, {"write", "string"})
      /\ \/ /\ Accept(SinkOf(encoder[f.enc], x.do), x.chunk)
            /\ stack' = WithTop(g, [f EXCEPT !.work = rest])
         \/ /\ Refuse(SinkOf(encoder[f.enc], x.do))
            /\ stack' = WithTop(g, [f EXCEPT !.status = "error"])
  BY DEF EmitChunk
<1>2. Running(g) /\ x \in Item /\ x.do \in {"write", "string"}
  BY <1>1, ItemFacts
<1>3. /\ Busy(g) /\ SinkOf(encoder[f.enc], x.do) = Target(f)
      /\ x.chunk \in Chunk
  BY <1>2, RunningFacts DEF Item, Items
<1>4. /\ f \in FrameSet /\ f.status = "run" /\ ProgressIn(data, f) /\ data \in Contents
      /\ rest \in Seq(Item) /\ Todo(f.cr, rest) \in Seq(Chunk)
      /\ SentIn(data, f) \in Seq(Chunk)
      /\ SentIn(data, f) \o (ItemOut(f.cr, x) \o Todo(f.cr, rest)) = Expected(f)
  BY <1>1, ItemProgress
<1>5. /\ data' \in Contents
      /\ \A s \in Sink : s # f.dst /\ s # f.buf => data'[s] = data[s]
  <2>1. Accept(Target(f), x.chunk) \/ Refuse(Target(f))
    BY <1>1, <1>3
  <2>2. data' \in Contents /\ \A s \in Sink : s # Target(f) /\ s # f.dst => data'[s] = data[s]
    BY <1>2, <1>3, <2>1, EmitFacts DEF Contents
  <2>3. Target(f) \in {f.dst, f.buf}
    BY DEF Target
  <2> QED
    BY <2>2, <2>3
<1>6. CASE Accept(Target(f), x.chunk) /\ stack' = WithTop(g, [f EXCEPT !.work = rest])
  <2> DEFINE h == [f EXCEPT !.work = rest]
  <2>1. /\ h \in FrameSet /\ h.work = rest /\ h.status = "run"
        /\ h.cr = f.cr /\ h.types = f.types /\ h.dst = f.dst /\ h.buf = f.buf
    BY <1>4, FrameWith
  <2>2. stack' = WithTop(g, h)
    BY <1>6
  <2>3. SentIn(data', f) = SentIn(data, f) \o <<x.chunk>>
    BY <1>2, <1>3, <1>6, Accepted
  <2>4. ItemOut(f.cr, x) = <<x.chunk>> /\ <<x.chunk>> \in Seq(Chunk)
    BY <1>2, <1>3 DEF ItemOut
  <2> HIDE DEF h, f, x, rest
  <2>5. SentIn(data', h) = SentIn(data', f) /\ Expected(h) = Expected(f)
    BY <2>1, ExpectedOf DEF SentIn
  <2>6. (SentIn(data, f) \o <<x.chunk>>) \o Todo(f.cr, rest) =
          SentIn(data, f) \o (<<x.chunk>> \o Todo(f.cr, rest))
    BY <1>4, <2>4, ConcatAssociative
  <2>7. SentIn(data', h) \o Todo(h.cr, h.work) = Expected(h)
    BY <1>4, <2>1, <2>3, <2>4, <2>5, <2>6
  <2>8. ProgressIn(data', h)
    BY <1>5, <2>1, <2>7, RunProgress
  <2> QED
    BY <1>3, <1>5, <2>1, <2>2, <2>8, TopProgress DEF f
<1>7. CASE Refuse(Target(f)) /\ stack' = WithTop(g, [f EXCEPT !.status = "error"])
  <2> DEFINE h == [f EXCEPT !.status = "error"]
  <2>1. /\ h \in FrameSet /\ h.status = "error" /\ h.cr = f.cr /\ h.types = f.types
        /\ h.dst = f.dst
    BY <1>4, FrameWith
  <2>2. stack' = WithTop(g, h)
    BY <1>7
  <2>3. IsPrefix(data'[f.dst], Expected(f))
    BY <1>1, <1>7, Refused
  <2> HIDE DEF h, f
  <2>4. ProgressIn(data', h)
    BY <2>1, <2>3, ExpectedOf DEF ProgressIn
  <2> QED
    BY <1>3, <1>5, <2>1, <2>2, <2>4, TopProgress DEF f
<1> QED
  BY <1>1, <1>3, <1>6, <1>7

(* The values before the next one have all been written.                    *)
LEMMA EncodeNextProgress ==
  ASSUME IInv, ProgressOK, NEW g \in Goroutine, NEW t \in Type, EncodeNext(g, t)
  PROVE  ProgressOK'
<1> DEFINE f == Top(g)
           types == Append(f.types, t)
           h == [f EXCEPT !.types = types, !.work = Root(t)]
<1>1. Running(g) /\ f.work = <<>> /\ stack' = WithTop(g, h) /\ data' = data
  BY DEF EncodeNext
<1>2. Busy(g) /\ f \in FrameSet /\ f.status = "run"
  BY <1>1, RunningFacts
<1>3. data \in Contents /\ ProgressIn(data, f)
  BY <1>2, TopFacts DEF IInv, Typed, Contents, ProgressOK
<1>4. f.cr \in Coder /\ f.types \in Seq(Type) /\ types \in Seq(Type) /\ Root(t) \in Seq(Item)
  <2>1. f.cr \in Coder /\ f.types \in Seq(Type)
    BY <1>2 DEF FrameSet
  <2> QED
    BY <2>1, AppendProperties, WorkFacts
<1>5. SentIn(data, f) = Expected(f)
  <2>1. SentIn(data, f) \o Todo(f.cr, <<>>) = Expected(f) /\ SentIn(data, f) \in Seq(Chunk)
    BY <1>1, <1>2, <1>3, SentType DEF ProgressIn
  <2>2. Todo(f.cr, <<>>) = <<>>
    BY TodoEmpty
  <2> HIDE DEF f
  <2>3. SentIn(data, f) \o <<>> = SentIn(data, f)
    BY <2>1, ConcatEmptySeq
  <2> QED
    BY <2>1, <2>2, <2>3
<1>6. /\ h \in FrameSet /\ h.cr = f.cr /\ h.types = types /\ h.work = Root(t)
      /\ h.status = "run" /\ h.dst = f.dst /\ h.buf = f.buf
  <2> HIDE DEF types
  <2> QED
    BY <1>2, <1>4, ZenonT(40) DEF FrameSet
<1>7. Expected(h) = Expected(f) \o Encoding(f.cr, t)
  <2> HIDE DEF h
  <2> QED
    BY <1>4, <1>6, ExpectedIsValues, ValuesAppend, ZenonT(40)
<1>8. SentIn(data, h) \o Todo(h.cr, h.work) = Expected(h)
  <2> HIDE DEF h, f
  <2>1. SentIn(data, h) = SentIn(data, f)
    BY <1>6 DEF SentIn
  <2>2. Todo(h.cr, h.work) = Encoding(f.cr, t)
    BY <1>4, <1>6, TodoWork
  <2> QED
    BY <1>5, <1>7, <2>1, <2>2
<1> HIDE DEF h
<1>9. ProgressIn(data', h)
  BY <1>1, <1>3, <1>6, <1>8, RunProgress
<1> QED
  BY <1>1, <1>2, <1>6, <1>9, TopProgress

(* Before the flush all of the value is written or buffered.                *)
LEMMA ReleaseEncoderProgress ==
  ASSUME IInv, ProgressOK, NEW g \in Goroutine, ReleaseEncoder(g)
  PROVE  ProgressOK'
<1> DEFINE f == Top(g)
           status == IF f.status = "run" THEN "flush" ELSE "failed"
           h == [f EXCEPT !.enc = Nothing, !.status = status]
<1>1. Busy(g) /\ Ended(f) /\ f.status # "panic" /\ stack' = WithTop(g, h) /\ data' = data
  BY DEF ReleaseEncoder
<1>2. f \in FrameSet /\ data \in Contents /\ ProgressIn(data, f)
  BY <1>1, TopFacts DEF IInv, Typed, Contents, ProgressOK
<1>3. /\ h \in FrameSet /\ h.cr = f.cr /\ h.types = f.types /\ h.dst = f.dst /\ h.buf = f.buf
      /\ h.status = status /\ status \in {"flush", "failed"}
  BY <1>2 DEF FrameSet
<1>4. CASE f.status = "run"
  <2>1. f.work = <<>> /\ status = "flush"
    BY <1>1, <1>4 DEF Ended
  <2>2. SentIn(data, f) \o Todo(f.cr, <<>>) = Expected(f) /\ SentIn(data, f) \in Seq(Chunk)
    BY <1>2, <1>4, <2>1, SentType DEF ProgressIn
  <2>3. Todo(f.cr, <<>>) = <<>>
    BY TodoEmpty
  <2> HIDE DEF f, h
  <2>4. SentIn(data, f) \o <<>> = SentIn(data, f)
    BY <2>2, ConcatEmptySeq
  <2>5. SentIn(data, h) = SentIn(data, f) /\ Expected(h) = Expected(f)
    BY <1>3, ExpectedOf DEF SentIn
  <2>6. ProgressIn(data', h)
    BY <1>1, <1>2, <1>3, <2>1, <2>2, <2>3, <2>4, <2>5 DEF ProgressIn
  <2> QED
    BY <1>1, <1>3, <2>6, TopProgress
<1>5. CASE f.status # "run"
  <2>1. status = "failed"
    BY <1>5
  <2> HIDE DEF f, h
  <2>2. ProgressIn(data', h)
    BY <1>1, <1>2, <1>3, <2>1, StoppedProgress
  <2> QED
    BY <1>1, <1>3, <2>2, TopProgress
<1> QED
  BY <1>4, <1>5

(* An operation begins with nothing written and all of its value to write.  *)
LEMMA FreshProgress ==
  ASSUME NEW d \in Contents, NEW op \in {"Marshal", "Write", "NewEncoder"}, NEW cr \in Coder,
         NEW t \in Type, NEW e \in Encoder, NEW b \in BufWriter \cup {Nothing}, NEW dst \in Sink,
         d[dst] = <<>>, b # Nothing => d[b] = <<>>
  PROVE  ProgressIn(d, Frame(op, cr, e, b, dst, t))
<1> DEFINE f == Frame(op, cr, e, b, dst, t)
<1>1. /\ f \in FrameSet /\ f.cr = cr /\ f.buf = b /\ f.dst = dst
      /\ f.types = <<t>> /\ f.work = Root(t) /\ f.status = "run"
  BY FrameFacts
<1> HIDE DEF f
<1>2. Todo(cr, Root(t)) = Encoding(cr, t) /\ Encoding(cr, t) \in Seq(Chunk)
  BY TodoWork, EncodingFacts
<1>3. SentIn(d, f) = <<>>
  <2>1. <<>> \o <<>> = <<>>
    OBVIOUS
  <2> QED
    BY <1>1, <2>1 DEF SentIn
<1>4. <<>> \o Encoding(cr, t) = Encoding(cr, t)
  BY <1>2, ConcatEmptySeq
<1>5. Expected(f) = Encoding(cr, t)
  <2>1. Expected(f) = FlattenSeq(Values(cr, <<t>>))
    BY <1>1, ExpectedIsValues
  <2> QED
    BY <2>1, ValuesOne
<1> QED
  BY <1>1, <1>2, <1>3, <1>4, <1>5, RunProgress DEF f

(* The buffer of a pooled marshalEncoder is empty.                          *)
LEMMA MarshalProgress ==
  ASSUME IInv, IInv', ProgressOK, NEW g \in Goroutine, NEW cr \in Coder, NEW t \in Type,
         Marshal(g, cr, t)
  PROVE  ProgressOK'
<1>1. PICK e \in MarshalEnc :
         Available(encoder[e]) /\ Call(g, Frame("Marshal", cr, e, Nothing, e, t))
  BY DEF Marshal
<1>2. data' = data /\ e \in Encoder /\ e \in Sink
  BY DEF Marshal, Encoder, Sink
<1>3. data \in Contents /\ data[e] = <<>>
  BY <1>1 DEF IInv, Typed, MarshalEncodersOK, Contents, Available
<1> DEFINE f == Frame("Marshal", cr, e, Nothing, e, t)
           b == Nothing
<1>4. f \in FrameSet
  BY <1>2, FrameFacts
<1>5. ProgressIn(data, f)
  <2>1. b \in BufWriter \cup {Nothing} /\ b = Nothing
    OBVIOUS
  <2> HIDE DEF b
  <2>2. ProgressIn(data, Frame("Marshal", cr, e, b, e, t))
    BY <1>2, <1>3, <2>1, FreshProgress
  <2> QED
    BY <2>1, <2>2
<1>6. stack' = [stack EXCEPT ![g] = Append(@, f)]
  BY <1>1 DEF Call
<1> HIDE DEF f
<1> QED
  BY <1>2, <1>4, <1>5, <1>6, BeginProgress

(* bufio.Writer.Reset forgets what an earlier Write has left.               *)
LEMMA BeginWriterProgress ==
  ASSUME IInv, IInv', ProgressOK, NEW g \in Goroutine, NEW op \in {"Write", "NewEncoder"},
         NEW cr \in Coder, NEW t \in Type, NEW w \in Writer, NEW e \in Enc,
         NEW b \in BufWriter \cup {Nothing}, Call(g, Frame(op, cr, e, b, w, t)),
         data' = IF b = Nothing THEN [data EXCEPT ![w] = <<>>]
                 ELSE [data EXCEPT ![w] = <<>>, ![b] = <<>>]
  PROVE  ProgressOK'
<1> DEFINE f == Frame(op, cr, e, b, w, t)
<1>1. e \in Encoder /\ w \in Sink /\ (b # Nothing => b \in Sink)
  BY DEF Encoder, Sink
<1>2. data \in Contents /\ data' \in Contents
  BY DEF IInv, Typed, Contents
<1>3. /\ data'[w] = <<>> /\ (b # Nothing => data'[b] = <<>>)
      /\ \A s \in Sink : s # w /\ s # b => data'[s] = data[s]
  BY <1>1, <1>2 DEF Contents
<1>4. f \in FrameSet /\ f.buf = b /\ f.dst = w
  BY <1>1, FrameFacts
<1>5. ProgressIn(data', f)
  BY <1>1, <1>2, <1>3, FreshProgress
<1>6. stack' = [stack EXCEPT ![g] = Append(@, f)]
  BY DEF Call
<1> HIDE DEF f
<1> QED
  BY <1>3, <1>4, <1>5, <1>6, BeginProgress

(* Write and NewEncoder begin with nothing written.                         *)
LEMMA WriteProgress ==
  ASSUME IInv, IInv', ProgressOK, NEW g \in Goroutine, NEW cr \in Coder, NEW t \in Type,
         NEW w \in Writer, Write(g, cr, w, t) \/ NewEncoder(g, cr, w, t)
  PROVE  ProgressOK'
<1>1. PICK e \in Enc, b \in BufWriter \cup {Nothing}, op \in {"Write", "NewEncoder"} :
         /\ Call(g, Frame(op, cr, e, b, w, t))
         /\ data' = IF b = Nothing THEN [data EXCEPT ![w] = <<>>]
                    ELSE [data EXCEPT ![w] = <<>>, ![b] = <<>>]
  <2>1. CASE Write(g, cr, w, t)
    <3>1. PICK e \in Enc :
            \/ /\ Call(g, Frame("Write", cr, e, Nothing, w, t))
               /\ data' = [data EXCEPT ![w] = <<>>]
            \/ \E b \in BufWriter :
               /\ Call(g, Frame("Write", cr, e, b, w, t))
               /\ data' = [data EXCEPT ![w] = <<>>, ![b] = <<>>]
      BY <2>1 DEF Write
    <3>2. Nothing \notin BufWriter
      BY PoolAssumption DEF Sink
    <3> QED
      BY <3>1, <3>2
  <2>2. CASE NewEncoder(g, cr, w, t)
    <3>1. PICK e \in Enc : /\ Call(g, Frame("NewEncoder", cr, e, Nothing, w, t))
                           /\ data' = [data EXCEPT ![w] = <<>>]
      BY <2>2 DEF NewEncoder
    <3> QED
      BY <3>1
  <2> QED
    BY <2>1, <2>2
<1> QED
  BY <1>1, BeginWriterProgress

(* The garbage collector empties what no operation writes to.               *)
LEMMA DropProgress ==
  ASSUME IInv, ProgressOK, DropFromPool
  PROVE  ProgressOK'
<1>1. stack' = stack
  BY DEF DropFromPool
<1> SUFFICES ASSUME NEW h \in Goroutine, NEW i \in DOMAIN stack[h]
             PROVE  ProgressIn(data', stack[h][i])
  BY <1>1 DEF ProgressOK
<1> DEFINE f == stack[h][i]
<1>2. /\ f \in FrameSet /\ KindOK(f)
      /\ \A e \in Encoder : Available(encoder[e]) => f.enc # e
      /\ \A b \in BufWriter : Available(bufio[b]) => f.buf # b
  BY AvailableFacts
<1>3. ProgressIn(data, f) /\ data \in Contents
  BY DEF ProgressOK, IInv, Typed, Contents
<1> HIDE DEF f
<1>4. /\ f.dst \in Writer \cup MarshalEnc /\ f.buf \in BufWriter \cup {Nothing}
      /\ f.dst \in MarshalEnc => f.enc = f.dst
  BY <1>2, PoolAssumption DEF KindOK, FrameSet
<1>5. f.dst \in Sink /\ (f.buf # Nothing => f.buf \in Sink)
  BY <1>4 DEF Sink
<1>6. PICK s : /\ \A x \in Sink : x # s => data'[x] = data[x]
               /\ f.dst # s /\ (f.buf # Nothing => f.buf # s)
  <2>1. CASE \E e \in Encoder :
               /\ encoder[e].place = "pooled"
               /\ data' = IF e \in MarshalEnc THEN [data EXCEPT ![e] = <<>>] ELSE data
    <3>1. PICK e \in Encoder :
               /\ encoder[e].place = "pooled"
               /\ data' = IF e \in MarshalEnc THEN [data EXCEPT ![e] = <<>>] ELSE data
      BY <2>1
    <3>2. f.enc # e
      BY <1>2, <3>1 DEF Available
    <3>3. CASE e \in MarshalEnc
      <4>1. e \in Sink /\ e \notin BufWriter /\ e \notin Writer
        BY <3>3, PoolAssumption DEF Sink
      <4>2. \A x \in Sink : x # e => data'[x] = data[x]
        BY <1>3, <3>1, <3>3 DEF Contents
      <4>3. f.dst # e /\ (f.buf # Nothing => f.buf # e)
        BY <1>4, <3>2, <4>1
      <4> QED
        BY <4>1, <4>2, <4>3
    <3>4. CASE e \notin MarshalEnc
      <4>1. data' = data
        BY <3>1, <3>4
      <4>2. PICK s : s \notin Sink
        BY NoSetContainsEverything
      <4> QED
        BY <1>5, <4>1, <4>2
    <3> QED
      BY <3>3, <3>4
  <2>2. CASE \E b \in BufWriter :
               bufio[b].place = "pooled" /\ data' = [data EXCEPT ![b] = <<>>]
    <3>1. PICK b \in BufWriter :
               bufio[b].place = "pooled" /\ data' = [data EXCEPT ![b] = <<>>]
      BY <2>2
    <3>2. f.buf # b /\ b \in Sink /\ f.dst # b
      BY <1>2, <1>4, <3>1, PoolAssumption DEF Available, Sink
    <3>3. \A x \in Sink : x # b => data'[x] = data[x]
      BY <1>3, <3>1 DEF Contents
    <3> QED
      BY <3>2, <3>3
  <2> QED
    BY <2>1, <2>2 DEF DropFromPool
<1>7. ProgressIn(data', f)
  BY <1>3, <1>5, <1>6, SameProgress
<1> QED
  BY <1>7 DEF f

-----------------------------------------------------------------------------
(* What an operation that returns hands over.                               *)
OwnOutput(o) == /\ o.status = "ok" => o.out = Expected(o)
                /\ IsPrefix(o.out, Expected(o))

(* OutputIsOwn, for any record of an operation that has returned.           *)
LEMMA OwnOutputIs == OutputIsOwn <=> OwnOutput(outcome)
BY DEF OutputIsOwn, OwnOutput

(* A step in which no operation returns hands over nothing.                 *)
LEMMA NoOutput == OwnOutput(NoOutcome)
<1>1. Values(NoOutcome.cr, NoOutcome.types) = <<>>
  BY DEF Values, NoOutcome
<1>2. Expected(NoOutcome) = <<>>
  BY <1>1, ExpectedIsValues, FlattenEmpty
<1>3. <<>> \o <<>> = <<>> /\ <<>> \in Seq(Chunk)
  OBVIOUS
<1>4. IsPrefix(<<>>, <<>>)
  BY <1>3, PrefixFacts
<1> QED
  BY <1>2, <1>4 DEF OwnOutput, NoOutcome

(* An operation returns what it has written.                                *)
LEMMA ReturnOutput ==
  ASSUME NEW g \in Goroutine, NEW status, NEW out \in Seq(Chunk),
         ReturnTo(g, Top(g), status, out),
         IsPrefix(out, Expected(Top(g))),
         status = "ok" => out = Expected(Top(g))
  PROVE  OwnOutput(outcome')
<1>1. /\ outcome'.cr = Top(g).cr /\ outcome'.types = Top(g).types
      /\ outcome'.status = status /\ outcome'.out = out
  BY DEF ReturnTo
<1>2. Expected(outcome') = Expected(Top(g))
  BY <1>1, ExpectedOf
<1> QED
  BY <1>1, <1>2 DEF OwnOutput

(* What has become of an operation whose work is done.                      *)
LEMMA EndedProgress ==
  ASSUME IInv, ProgressOK, NEW g \in Goroutine, Busy(g)
  PROVE  LET f == Top(g)
         IN  /\ f \in FrameSet /\ KindOK(f) /\ data \in Contents /\ ProgressIn(data, f)
             /\ f.dst \in Sink /\ data[f.dst] \in Seq(Chunk) /\ SentIn(data, f) \in Seq(Chunk)
             /\ IsPrefix(data[f.dst], Expected(f))
             /\ f.status = "run" /\ f.work = <<>> => SentIn(data, f) = Expected(f)
<1> DEFINE f == Top(g)
<1>1. /\ f \in FrameSet /\ KindOK(f) /\ data \in Contents /\ ProgressIn(data, f)
  BY TopFacts, EndFacts DEF IInv, Typed, Contents, ProgressOK
<1> HIDE DEF f
<1>2. f.dst \in Sink /\ data[f.dst] \in Seq(Chunk) /\ SentIn(data, f) \in Seq(Chunk)
  BY <1>1, SentType DEF Contents
<1>3. IsPrefix(data[f.dst], Expected(f))
  BY <1>1 DEF ProgressIn
<1>4. ASSUME f.status = "run", f.work = <<>> PROVE SentIn(data, f) = Expected(f)
  <2>1. SentIn(data, f) \o Todo(f.cr, <<>>) = Expected(f) /\ Todo(f.cr, <<>>) = <<>>
    BY <1>1, <1>4, TodoEmpty DEF ProgressIn
  <2>2. SentIn(data, f) \o <<>> = SentIn(data, f)
    BY <1>2, ConcatEmptySeq
  <2> QED
    BY <2>1, <2>2
<1> QED
  BY <1>1, <1>2, <1>3, <1>4 DEF f

(* Marshal returns its buffer.                                              *)
LEMMA EndMarshalProgress ==
  ASSUME IInv, IInv', ProgressOK, NEW g \in Goroutine, EndMarshal(g)
  PROVE  ProgressOK' /\ OwnOutput(outcome')
<1> DEFINE f == Top(g)
<1>1. /\ Busy(g) /\ f.op = "Marshal" /\ Ended(f)
      /\ ReturnTo(g, f, Status(f), data[f.enc])
      /\ data' = [data EXCEPT ![f.enc] = <<>>]
  BY DEF EndMarshal, ResetBuffer
<1>2. /\ f \in FrameSet /\ KindOK(f) /\ data \in Contents
      /\ f.dst \in Sink /\ data[f.dst] \in Seq(Chunk)
      /\ IsPrefix(data[f.dst], Expected(f))
      /\ f.status = "run" /\ f.work = <<>> => SentIn(data, f) = Expected(f)
  BY <1>1, EndedProgress
<1>3. f.enc = f.dst /\ f.buf = Nothing
  BY <1>1, <1>2 DEF KindOK
<1>4. Status(f) = "ok" => data[f.dst] = Expected(f)
  <2>1. SentIn(data, f) = data[f.dst]
    BY <1>3 DEF SentIn
  <2>2. Status(f) = "ok" => f.status = "run" /\ f.work = <<>>
    BY <1>1 DEF Status, Ended
  <2> QED
    BY <1>2, <2>1, <2>2
<1>5. OwnOutput(outcome')
  BY <1>1, <1>2, <1>3, <1>4, ReturnOutput
<1>6. data' \in Contents /\ \A s \in Sink : s # f.dst /\ s # f.buf => data'[s] = data[s]
  BY <1>1, <1>2, <1>3 DEF Contents, IInv, Typed
<1>7. ProgressOK'
  BY <1>1, <1>6, ReturnProgress
<1> QED
  BY <1>5, <1>7

(* Write flushes its buffer, all of it or a beginning.                      *)
LEMMA EndWriteProgress ==
  ASSUME IInv, IInv', ProgressOK, NEW g \in Goroutine, EndWrite(g)
  PROVE  ProgressOK' /\ OwnOutput(outcome')
<1> DEFINE f == Top(g)
           b == f.buf
           full == Len(data[b])
<1>1. Busy(g)
  BY DEF EndWrite
<1>2. /\ f \in FrameSet /\ KindOK(f) /\ data \in Contents /\ ProgressIn(data, f)
      /\ f.dst \in Sink /\ data[f.dst] \in Seq(Chunk) /\ SentIn(data, f) \in Seq(Chunk)
      /\ IsPrefix(data[f.dst], Expected(f))
  BY <1>1, EndedProgress
<1>3. b # Nothing => /\ b \in BufWriter /\ b \in Sink /\ bufio[b].dst = f.dst
                     /\ data[b] \in Seq(Chunk) /\ full \in Nat
  <2>1. BufioIsOf(f)
    BY <1>1, EndFacts
  <2> QED
    BY <1>2, <2>1 DEF BufioIsOf, FrameSet, Sink, Contents
<1>4. PICK status, n : /\ ReturnWrite(g, status, n)
                       /\ b # Nothing => n \in 0..full
                       /\ f.status = "flush" \/ n = 0
                       /\ status = "ok" => f.status = "flush" /\ (b # Nothing => n = full)
  BY <1>3 DEF EndWrite
<1> DEFINE out == IF b = Nothing THEN data[f.dst] ELSE Flushed(b, n)
<1>5. /\ ReturnTo(g, f, status, out)
      /\ data' = IF b = Nothing THEN data ELSE [data EXCEPT ![f.dst] = out, ![b] = <<>>]
  BY <1>4 DEF ReturnWrite
<1>6. f.status = "flush" => SentIn(data, f) = Expected(f)
  BY <1>2 DEF ProgressIn
<1>7. CASE b = Nothing
  <2>1. out = data[f.dst] /\ (status = "ok" => data[f.dst] = Expected(f))
    BY <1>4, <1>6, <1>7 DEF SentIn
  <2>2. OwnOutput(outcome')
    BY <1>2, <1>5, <2>1, ReturnOutput
  <2>3. data' = data
    BY <1>5, <1>7
  <2>4. ProgressOK'
    BY <1>1, <1>2, <1>5, <2>3, ReturnProgress
  <2> QED
    BY <2>2, <2>4
<1>8. CASE b # Nothing
  <2> DEFINE x == data[f.dst]
             y == data[b]
  <2>1. x \in Seq(Chunk) /\ y \in Seq(Chunk) /\ n \in 0..Len(y) /\ <<>> \in Seq(Chunk)
    BY <1>2, <1>3, <1>4, <1>8
  <2>2. out = x \o SubSeq(y, 1, n) /\ SentIn(data, f) = x \o y
    BY <1>3, <1>8 DEF Flushed, SentIn
  <2> HIDE DEF x, y, out
  <2>3. out \in Seq(Chunk)
    <3>1. x \o SubSeq(y, 1, n) \in Seq(Chunk)
      BY <2>1, BeginningIsPrefix
    <3> QED
      BY <2>2, <3>1
  <2>4. IsPrefix(out, Expected(f))
    <3>1. CASE f.status = "flush"
      <4>1. (x \o y) \o <<>> = x \o y
        BY <2>1, ConcatProperties, ConcatEmptySeq
      <4>2. IsPrefix(x \o SubSeq(y, 1, n), (x \o y) \o <<>>)
        BY <2>1, BeginningIsPrefix
      <4> QED
        BY <1>6, <2>2, <3>1, <4>1, <4>2
    <3>2. CASE n = 0
      <4>1. SubSeq(y, 1, 0) = <<>> /\ x \o <<>> = x
        BY <2>1, SubSeqEmpty, ConcatEmptySeq
      <4> QED
        BY <1>2, <2>2, <3>2, <4>1 DEF x
    <3> QED
      BY <1>4, <3>1, <3>2
  <2>5. status = "ok" => out = Expected(f)
    <3>1. SubSeq(y, 1, Len(y)) = y
      BY <2>1, SubSeqFull
    <3>2. full = Len(y)
      BY DEF y
    <3> QED
      BY <1>4, <1>6, <1>8, <2>2, <3>1, <3>2
  <2>6. OwnOutput(outcome')
    BY <1>5, <2>3, <2>4, <2>5, ReturnOutput
  <2>7. data' \in Contents /\ \A s \in Sink : s # f.dst /\ s # b => data'[s] = data[s]
    BY <1>2, <1>3, <1>5, <1>8, <2>1, <2>3 DEF Contents
  <2>8. ProgressOK'
    BY <1>1, <1>5, <2>7, ReturnProgress
  <2> QED
    BY <2>6, <2>8
<1> QED
  BY <1>7, <1>8

(* A panicking Write, or an encoder of the user's own, ends.                *)
LEMMA AbandonProgress ==
  ASSUME IInv, ProgressOK, NEW g \in Goroutine, Abandon(g)
  PROVE  ProgressOK' /\ OwnOutput(outcome')
<1> DEFINE f == Top(g)
<1>1. /\ Busy(g) /\ Ended(f)
      /\ f.op = "NewEncoder" \/ (f.op = "Write" /\ f.status = "panic")
      /\ ReturnTo(g, f, Status(f), data[f.dst])
      /\ IF f.buf = Nothing THEN data' = data ELSE data' = [data EXCEPT ![f.buf] = <<>>]
  BY DEF Abandon
<1>2. /\ f \in FrameSet /\ KindOK(f) /\ data \in Contents
      /\ f.dst \in Sink /\ data[f.dst] \in Seq(Chunk)
      /\ IsPrefix(data[f.dst], Expected(f))
      /\ f.status = "run" /\ f.work = <<>> => SentIn(data, f) = Expected(f)
  BY <1>1, EndedProgress
<1>3. Status(f) = "ok" => data[f.dst] = Expected(f)
  <2>1. Status(f) = "ok" => f.status = "run" /\ f.work = <<>> /\ f.op = "NewEncoder"
    BY <1>1 DEF Status, Ended
  <2>2. f.op = "NewEncoder" => SentIn(data, f) = data[f.dst]
    BY <1>2 DEF KindOK, SentIn
  <2> QED
    BY <1>2, <2>1, <2>2
<1>4. OwnOutput(outcome')
  BY <1>1, <1>2, <1>3, ReturnOutput
<1>5. data' \in Contents /\ \A s \in Sink : s # f.dst /\ s # f.buf => data'[s] = data[s]
  <2>1. <<>> \in Seq(Chunk)
    OBVIOUS
  <2> HIDE DEF f
  <2> QED
    BY <1>1, <1>2, <2>1 DEF Contents
<1>6. ProgressOK'
  BY <1>1, <1>5, ReturnProgress
<1> QED
  BY <1>4, <1>6

-----------------------------------------------------------------------------
(* At first nothing is under way and nothing has returned.                  *)
LEMMA InitProgress == Init => ProgressOK /\ OutputIsOwn
<1> SUFFICES ASSUME Init PROVE ProgressOK /\ OwnOutput(outcome)
  BY OwnOutputIs
<1>1. \A g \in Goroutine : stack[g] = <<>>
  BY DEF Init
<1>2. ProgressOK
  BY <1>1 DEF ProgressOK
<1> QED
  BY <1>2, NoOutput DEF Init

(* Every step keeps what is written and what is to do together.             *)
LEMMA NextProgress ==
  ASSUME IInv, ProgressOK, OutputIsOwn, [Next]_vars
  PROVE  ProgressOK' /\ OutputIsOwn'
<1> USE NoOutput
<1>1. IInv' /\ OwnOutput(outcome)
  BY NextIInv, OwnOutputIs
<1> SUFFICES ProgressOK' /\ OwnOutput(outcome')
  BY DEF OutputIsOwn, OwnOutput
<1>2. CASE DropFromPool
  <2>1. outcome' = NoOutcome
    BY <1>2 DEF DropFromPool
  <2> QED
    BY <1>2, <2>1, DropProgress
<1>3. ASSUME NEW g \in Goroutine, EncodeValue(g) \/ EmitChunk(g) \/ Fail(g) \/ ReleaseEncoder(g)
      PROVE  ProgressOK' /\ OwnOutput(outcome')
  <2>1. outcome' = NoOutcome
    BY <1>3 DEF EncodeValue, EmitChunk, Fail, ReleaseEncoder
  <2> QED
    BY <1>3, <2>1, EncodeValueProgress, EmitChunkProgress, FailProgress, ReleaseEncoderProgress
<1>4. ASSUME NEW g \in Goroutine, EndMarshal(g) \/ EndWrite(g) \/ Abandon(g)
      PROVE  ProgressOK' /\ OwnOutput(outcome')
  BY <1>1, <1>4, EndMarshalProgress, EndWriteProgress, AbandonProgress
<1>5. ASSUME NEW g \in Goroutine, NEW cr \in Coder, NEW t \in Type, Marshal(g, cr, t)
      PROVE  ProgressOK' /\ OwnOutput(outcome')
  <2>1. outcome' = NoOutcome
    BY <1>5 DEF Marshal
  <2> QED
    BY <1>1, <1>5, <2>1, MarshalProgress
<1>6. ASSUME NEW g \in Goroutine, NEW cr \in Coder, NEW t \in Type, NEW w \in Writer,
             Write(g, cr, w, t) \/ NewEncoder(g, cr, w, t)
      PROVE  ProgressOK' /\ OwnOutput(outcome')
  <2>1. outcome' = NoOutcome
    BY <1>6 DEF Write, NewEncoder
  <2> QED
    BY <1>1, <1>6, <2>1, WriteProgress
<1>7. ASSUME NEW g \in Goroutine, NEW t \in Type, EncodeNext(g, t)
      PROVE  ProgressOK' /\ OwnOutput(outcome')
  <2>1. outcome' = NoOutcome
    BY <1>7 DEF EncodeNext
  <2> QED
    BY <1>7, <2>1, EncodeNextProgress
<1>8. CASE UNCHANGED vars
  <2>1. ProgressOK'
    BY <1>8 DEF vars, ProgressOK
  <2> QED
    BY <1>1, <1>8, <2>1 DEF vars
<1> QED
  BY <1>2, <1>3, <1>4, <1>5, <1>6, <1>7, <1>8 DEF Next, Step

(* What an operation under way has written, to its writer or to the buffer  *)
(* before it, and what its codecs still have to write make up the encoding  *)
(* of its values, and its writer has been given a beginning of it.          *)
THEOREM ProgressIsKept == Spec => []ProgressOK
<1>1. IInv /\ ProgressOK /\ OutputIsOwn /\ [Next]_vars => ProgressOK' /\ OutputIsOwn'
  BY NextProgress
<1> QED
  BY <1>1, InitProgress, Inductive, PTL DEF Spec

(* Marshal, Write and a user's own encoder hand over the encoding of their  *)
(* own values by their own coder, all of it when they succeed and a         *)
(* beginning of it when they do not: nothing another operation has left in  *)
(* a pooled encoder, marshalEncoder or bufio.Writer shows.                  *)
THEOREM OutputsAreOwn == Spec => []OutputIsOwn
<1>1. IInv /\ ProgressOK /\ OutputIsOwn /\ [Next]_vars => ProgressOK' /\ OutputIsOwn'
  BY NextProgress
<1> QED
  BY <1>1, InitProgress, Inductive, PTL DEF Spec
=============================================================================
