--------------------------- MODULE XDRBytesFacts ---------------------------
(***************************************************************************)
(* What the primitives of XDRBytes write and read, for every base: numbers *)
(* and the bytes that stand for them, and the bytes of items and messages. *)
(***************************************************************************)
EXTENDS XDRStream, SequenceFacts

-----------------------------------------------------------------------------
(* Division.                                                                *)

(* There is one quotient and one remainder.                                 *)
LEMMA DivModUnique ==
  ASSUME NEW u \in Int, NEW b \in Nat \ {0}, NEW q \in Int, NEW r \in Int,
         u = b * q + r, 0 \leq r, r < b
  PROVE  u \div b = q /\ u % b = r
OBVIOUS

(* A number is its quotient and its remainder.                              *)
LEMMA DivMod ==
  ASSUME NEW u \in Int, NEW b \in Nat \ {0}
  PROVE  /\ u \div b \in Int /\ u % b \in 0..(b - 1)
         /\ u = b * (u \div b) + (u % b)
OBVIOUS

(* Dividing twice.                                                          *)
LEMMA DivDiv ==
  ASSUME NEW u \in Nat, NEW b \in Nat \ {0}, NEW c \in Nat \ {0}
  PROVE  (u \div b) \div c = u \div (b * c)
<1> DEFINE q == u \div b
           r == u % b
           s == q \div c
           t == q % c
<1>1. q \in Int /\ r \in 0..(b - 1) /\ u = b * q + r
  BY DivMod
<1>2. s \in Int /\ t \in 0..(c - 1) /\ q = c * s + t
  BY <1>1, DivMod
<1> HIDE DEF q, r, s, t
<1>3. b * c \in Nat \ {0}
  OBVIOUS
<1>4. u = (b * c) * s + (b * t + r)
  <2>1. b * q = (b * c) * s + b * t
    BY <1>1, <1>2
  <2> QED
    BY <1>1, <1>2, <2>1
<1>5. b * t + r \in Nat /\ b * t + r < b * c
  <2>1. b * t \in Nat /\ b * t \leq b * (c - 1)
    BY <1>2
  <2>2. b * (c - 1) = b * c - b
    OBVIOUS
  <2> QED
    BY <1>1, <1>3, <2>1, <2>2
<1>6. u \div (b * c) = s
  <2> DEFINE bc == b * c
             rest == b * t + r
  <2>1. bc \in Nat \ {0} /\ rest \in Int /\ u = bc * s + rest /\ 0 \leq rest /\ rest < bc
    BY <1>3, <1>4, <1>5
  <2> HIDE DEF bc, rest
  <2>2. u \div bc = s
    BY <1>2, <2>1, DivModUnique
  <2> QED
    BY <2>2 DEF bc
<1> QED
  BY <1>6 DEF s, q

-----------------------------------------------------------------------------
(* How many numbers n bytes can hold.                                       *)
LEMMA PowerFacts ==
  /\ Power[0] = 1
  /\ \A n \in 1..8 : Power[n] = Base * Power[n - 1] /\ Power[n] \in Nat /\ Power[n] > 1
  /\ \A n \in 0..8 : Power[n] \in Nat \ {0}
<1> DEFINE D == Nat
           G == [x \in Nat \X Nat |-> Base * x[2]]
<1>0. Base \in Nat \ {0, 1}
  BY StreamAssumption
<1>1. PICK out \in [0..8 -> Nat] : out[0] = 1 /\ \A n \in 1..8 : out[n] = G[<<n, out[n - 1]>>]
  <2>1. 1 \in D /\ 8 \in Nat /\ G \in [Nat \X D -> D]
    BY <1>0
  <2> HIDE DEF G, D
  <2>2. Iterations(D, 1, G, 8) # {}
    BY <2>1, IterateExists, Zenon
  <2> QED
    BY <2>2 DEF Iterations, D
<1>2. \A n \in 1..8 : out[n] = Base * out[n - 1]
  <2> SUFFICES ASSUME NEW n \in 1..8 PROVE out[n] = Base * out[n - 1]
    OBVIOUS
  <2>1. n \in Nat /\ n - 1 \in 0..8 /\ out[n - 1] \in Nat
    BY <1>1
  <2> QED
    BY <1>1, <2>1
<1>3. out = [n \in 0..8 |-> IF n = 0 THEN 1 ELSE Base * out[n - 1]]
  BY <1>1, <1>2
<1>4. Power = [n \in 0..8 |-> IF n = 0 THEN 1 ELSE Base * Power[n - 1]]
  <2> HIDE DEF G
  <2> QED
    BY <1>3 DEF Power
<1>5. Power[0] = 1 /\ \A n \in 1..8 : Power[n] = Base * Power[n - 1]
  BY <1>4
<1> DEFINE T == {n \in Nat : n \in 0..8 => Power[n] \in Nat \ {0} /\ (n > 0 => Power[n] > 1)}
<1>6. Nat \subseteq T
  <2>1. 0 \in T
    BY <1>5
  <2>2. ASSUME NEW n \in Nat, n \in T PROVE n + 1 \in T
    <3> SUFFICES ASSUME n + 1 \in 0..8
                 PROVE  Power[n + 1] \in Nat \ {0} /\ Power[n + 1] > 1
      OBVIOUS
    <3>1. Power[n] \in Nat \ {0} /\ n + 1 \in 1..8 /\ (n + 1) - 1 = n
      BY <2>2
    <3>2. Power[n + 1] = Base * Power[n]
      BY <1>5, <3>1
    <3> DEFINE p == Power[n]
    <3>3. p \in Nat \ {0}
      BY <3>1
    <3> HIDE DEF p
    <3>4. Base * p \in Nat /\ Base * p > 1
      BY <1>0, <3>3
    <3> QED
      BY <3>2, <3>4 DEF p
  <2> HIDE DEF T
  <2> QED
    BY <2>1, <2>2, InductionOnNat
<1> QED
  BY <1>5, <1>6

(* What is written for a number.                                            *)
LEMMA BytesFacts ==
  ASSUME NEW n \in 0..8, NEW u \in Nat
  PROVE  /\ Bytes(n, u) \in Seq(Byte) /\ Len(Bytes(n, u)) = n
         /\ \A i \in 1..n : /\ Bytes(n, u)[i] = (u \div Power[n - i]) % Base
                            /\ Bytes(n, u)[i] \in Byte
<1>1. ASSUME NEW i \in 1..n PROVE (u \div Power[n - i]) % Base \in Byte
  <2>1. Power[n - i] \in Nat \ {0} /\ Base \in Nat \ {0}
    BY PowerFacts, StreamAssumption
  <2> DEFINE q == u \div Power[n - i]
  <2>2. q \in Int
    BY <2>1
  <2> HIDE DEF q
  <2>3. q % Base \in 0..(Base - 1)
    BY <2>1, <2>2, DivMod
  <2> QED
    BY <2>3 DEF q, Byte
<1>2. \A i \in 1..n : Bytes(n, u)[i] = (u \div Power[n - i]) % Base
  BY DEF Bytes
<1>3. Bytes(n, u) \in [1..n -> Byte]
  BY <1>1 DEF Bytes
<1> QED
  BY <1>2, <1>3

(* A number is written in as many bytes as it is given.                     *)
LEMMA BytesType ==
  ASSUME NEW n \in 0..8, NEW u \in Nat
  PROVE  Bytes(n, u) \in Seq(Byte) /\ Len(Bytes(n, u)) = n
BY BytesFacts

(* The number that the first bytes stand for.                               *)
UpTo(bytes) ==
  CHOOSE upTo :
    upTo = [i \in 0..Len(bytes) |-> IF i = 0 THEN 0 ELSE upTo[i - 1] * Base + bytes[i]]

(* Number goes through the bytes, most significant first.                   *)
LEMMA UpToFacts ==
  ASSUME NEW bytes \in Seq(Byte)
  PROVE  /\ Len(bytes) \in Nat /\ Number(bytes) = UpTo(bytes)[Len(bytes)]
         /\ UpTo(bytes)[0] = 0
         /\ \A i \in 1..Len(bytes) : UpTo(bytes)[i] = UpTo(bytes)[i - 1] * Base + bytes[i]
<1> DEFINE n == Len(bytes)
           D == Nat
           G == [x \in Nat \X Nat |-> IF x[1] \in 1..n THEN x[2] * Base + bytes[x[1]] ELSE 0]
           f == UpTo(bytes)
<1>1. n \in Nat /\ Base \in Nat /\ \A i \in 1..n : bytes[i] \in Nat
  BY StreamAssumption, LenProperties DEF Byte
<1>2. PICK out \in [0..n -> Nat] : out[0] = 0 /\ \A i \in 1..n : out[i] = G[<<i, out[i - 1]>>]
  <2>1. 0 \in D /\ n \in Nat /\ G \in [Nat \X D -> D]
    BY <1>1
  <2> HIDE DEF G, D, n
  <2>2. Iterations(D, 0, G, n) # {}
    BY <2>1, IterateExists, Zenon
  <2> QED
    BY <2>2 DEF Iterations, D
<1> HIDE DEF n
<1>3. \A i \in 1..n : out[i] = out[i - 1] * Base + bytes[i]
  <2> SUFFICES ASSUME NEW i \in 1..n PROVE out[i] = out[i - 1] * Base + bytes[i]
    OBVIOUS
  <2>1. i \in Nat /\ i - 1 \in 0..n /\ out[i - 1] \in Nat
    BY <1>1, <1>2
  <2> QED
    BY <1>2, <2>1
<1>4. out = [i \in 0..n |-> IF i = 0 THEN 0 ELSE out[i - 1] * Base + bytes[i]]
  BY <1>2, <1>3
<1>5. f = [i \in 0..n |-> IF i = 0 THEN 0 ELSE f[i - 1] * Base + bytes[i]]
  <2> HIDE DEF G
  <2> QED
    BY <1>4 DEF UpTo, n
<1>6. Number(bytes) = f[n]
  BY DEF Number, UpTo, n
<1> HIDE DEF f
<1>7. f[0] = 0 /\ \A i \in 1..n : f[i] = f[i - 1] * Base + bytes[i]
  BY <1>1, <1>5
<1> QED
  BY <1>1, <1>6, <1>7 DEF n, f

(* A number is read from its bytes.                                         *)
LEMMA NumberOfBytes ==
  ASSUME NEW n \in 0..8, NEW u \in 0..(Power[n] - 1)
  PROVE  Number(Bytes(n, u)) = u
<1> DEFINE b == Bytes(n, u)
           f == UpTo(b)
           T == {i \in Nat : i \in 0..n => f[i] = u \div Power[n - i]}
<1>0. n \in Nat /\ n \leq 8 /\ Power[n] \in Nat \ {0} /\ u \in Nat /\ u < Power[n]
  BY PowerFacts
<1>1. /\ b \in Seq(Byte) /\ Len(b) = n
      /\ \A i \in 1..n : b[i] = (u \div Power[n - i]) % Base
  BY <1>0, BytesFacts
<1> HIDE DEF b
<1>2. /\ Number(b) = f[n] /\ f[0] = 0
      /\ \A i \in 1..n : f[i] = f[i - 1] * Base + b[i]
  BY <1>1, UpToFacts
<1> HIDE DEF f
<1>3. 0 \in T
  <2>1. u \div Power[n] = 0
    <3> DEFINE p == Power[n]
    <3>1. p \in Nat \ {0} /\ u < p
      BY <1>0
    <3> HIDE DEF p
    <3>2. u = p * 0 + u
      BY <1>0, <3>1
    <3>3. u \div p = 0
      BY <1>0, <3>1, SMT
    <3> QED
      BY <3>3 DEF p
  <2>2. n - 0 = n
    BY <1>0
  <2> QED
    BY <1>2, <2>1, <2>2
<1>4. ASSUME NEW i \in Nat, i \in T PROVE i + 1 \in T
  <2> SUFFICES ASSUME i + 1 \in 0..n PROVE f[i + 1] = u \div Power[n - (i + 1)]
    OBVIOUS
  <2> DEFINE p == Power[n - (i + 1)]
             q == u \div p
  <2>1. i + 1 \in 1..n /\ (i + 1) - 1 = i /\ i \in 0..n /\ n - i \in 1..8 /\ (n - i) - 1 = n - (i + 1)
    BY <1>0
  <2>2. n - (i + 1) \in 0..8
    BY <2>1
  <2>3. p \in Nat \ {0} /\ Power[n - i] = Base * p
    BY <2>1, <2>2, PowerFacts
  <2>4. f[i] = u \div (Base * p)
    BY <1>4, <2>1, <2>3
  <2>5. f[i + 1] = f[i] * Base + (q % Base)
    BY <1>1, <1>2, <2>1
  <2> HIDE DEF p
  <2>6. Base \in Nat \ {0}
    BY StreamAssumption
  <2>7. Base * p = p * Base
    BY <2>3, <2>6
  <2>8. (u \div p) \div Base = u \div (p * Base)
    <3>1. u \in Nat /\ p \in Nat \ {0}
      BY <1>0, <2>3
    <3> QED
      BY <2>6, <3>1, DivDiv, Zenon
  <2>9. q \in Int
    BY <1>0, <2>3
  <2>10. q = Base * (q \div Base) + (q % Base) /\ q \div Base \in Int
    <3> HIDE DEF q
    <3> QED
      BY <2>6, <2>9, DivMod
  <2>11. f[i] = q \div Base
    BY <2>4, <2>7, <2>8 DEF q
  <2> HIDE DEF q
  <2>12. f[i] * Base = Base * f[i] /\ f[i] \in Int
    BY <2>6, <2>10, <2>11
  <2>13. f[i + 1] = q
    BY <2>5, <2>10, <2>11, <2>12
  <2> QED
    BY <2>13 DEF q, p
<1>5. Nat \subseteq T
  <2> HIDE DEF T
  <2> QED
    BY <1>3, <1>4, InductionOnNat
<1>6. f[n] = u \div Power[0]
  <2>1. n \in 0..n /\ n - n = 0
    BY <1>0
  <2> QED
    BY <1>0, <1>5, <2>1
<1>7. u \div 1 = u
  BY <1>0
<1> QED
  BY <1>2, <1>6, <1>7, PowerFacts DEF b

(* The two's complement of a number is read back.                           *)
LEMMA SignedFacts ==
  ASSUME NEW n \in 1..8, NEW i \in (Power[n] \div 2 - Power[n])..(Power[n] \div 2 - 1)
  PROVE  i % Power[n] \in 0..(Power[n] - 1) /\ Signed(i % Power[n], n) = i
<1> DEFINE p == Power[n]
<1>1. p \in Nat \ {0}
  BY PowerFacts
<1> HIDE DEF p
<1>2. i \in Int /\ p \div 2 - p \leq i /\ i \leq p \div 2 - 1 /\ p \div 2 \in Nat
      /\ 2 * (p \div 2) \leq p
  BY <1>1 DEF p
<1>3. CASE i \geq 0
  <2>1. i = p * 0 + i /\ i < p
    BY <1>1, <1>2, <1>3
  <2>2. i % p = i
    BY <1>1, <1>2, <1>3, <2>1, SMT
  <2> QED
    BY <1>1, <1>2, <1>3, <2>1, <2>2 DEF Signed, p
<1>4. CASE i < 0
  <2>1. i = p * (-1) + (i + p) /\ 0 \leq i + p /\ i + p < p /\ i + p \geq p \div 2
    BY <1>1, <1>2, <1>4
  <2>2. i % p = i + p
    BY <1>1, <1>2, <1>4, <2>1, SMT
  <2> QED
    BY <1>1, <1>2, <1>4, <2>1, <2>2 DEF Signed, p
<1> QED
  BY <1>2, <1>3, <1>4

-----------------------------------------------------------------------------
(* What is written for an item.                                             *)

(* The padding fills the last word.                                         *)
LEMMA PaddingFacts ==
  ASSUME NEW len \in Nat
  PROVE  /\ PaddingAfter(len) \in 0..3 /\ RoundUp(len) \in Nat
         /\ RoundUp(len) = len + PaddingAfter(len) /\ RoundUp(len) - len = PaddingAfter(len)
BY DEF PaddingAfter, RoundUp

(* The bytes of the padding.                                                *)
Padding(len) == SubSeq(pad, 1, PaddingAfter(len))

(* The padding is bytes, and as many as the length asks for.                *)
LEMMA PaddingType ==
  ASSUME NEW len \in Nat
  PROVE  Padding(len) \in Seq(Byte) /\ Len(Padding(len)) = PaddingAfter(len)
<1> DEFINE n == PaddingAfter(len)
<1>1. n \in 0..3
  BY PaddingFacts
<1> HIDE DEF n
<1>2. \A i \in 1..4 : pad[i] \in Byte
  <2>1. 0 \in Byte
    BY StreamAssumption DEF Byte
  <2> QED
    BY <2>1 DEF pad
<1>3. 1 \in Int /\ n \in Int /\ \A i \in 1..n : pad[i] \in Byte
  BY <1>1, <1>2
<1>4. SubSeq(pad, 1, n) \in Seq(Byte) /\ Len(SubSeq(pad, 1, n)) = IF 1 \leq n THEN n - 1 + 1 ELSE 0
  BY <1>3, SubSeqProperties
<1>5. Len(SubSeq(pad, 1, n)) = n
  BY <1>1, <1>4
<1> QED
  BY <1>4, <1>5 DEF Padding, n

(* What is written for an opaque of a length that both sides know.          *)
LEMMA FixedFacts ==
  ASSUME NEW buf \in Seq(Byte)
  PROVE  /\ EncodeFixedOpaque(buf) \in Seq(Byte)
         /\ Len(buf) \in Nat /\ Len(EncodeFixedOpaque(buf)) = RoundUp(Len(buf))
         /\ \A i \in 1..Len(buf) : EncodeFixedOpaque(buf)[i] = buf[i]
<1> DEFINE len == Len(buf)
           n == PaddingAfter(len)
           zeros == SubSeq(pad, 1, n)
<1>1. len \in Nat
  BY LenProperties
<1>2. n \in 0..3 /\ RoundUp(len) = len + n
  BY <1>1, PaddingFacts
<1> HIDE DEF n
<1>3. zeros \in Seq(Byte) /\ Len(zeros) = n
  <2> HIDE DEF len
  <2> QED
    BY <1>1, PaddingType DEF Padding, n
<1> HIDE DEF zeros, len
<1>4. /\ buf \o zeros \in Seq(Byte) /\ Len(buf \o zeros) = len + n
      /\ \A i \in 1..(len + n) : (buf \o zeros)[i] = IF i \leq len THEN buf[i] ELSE zeros[i - len]
  BY <1>3, ConcatProperties DEF len
<1>5. EncodeFixedOpaque(buf) = buf \o zeros
  BY DEF EncodeFixedOpaque, zeros, n, len
<1> QED
  BY <1>1, <1>2, <1>4, <1>5 DEF len

(* An item is written as bytes; numbers are a word or a hyper long.         *)
Words == {"unsigned int", "int", "bool", "enum"}
Hypers == {"unsigned hyper", "hyper"}
Bodies == {"opaque", "string"}
FixedBodies == {"fixed opaque", "fixed string"}

(* The number that the encoder makes of the value of an item.               *)
Raw(item) ==
  CASE item.kind = "int" -> item.value % Power[4]
    [] item.kind = "bool" -> IF item.value THEN 1 ELSE 0
    [] item.kind = "hyper" -> item.value % Power[8]
    [] OTHER -> item.value

(* Encode writes a word for an int, an unsigned int, a bool or an enum.     *)
LEMMA WordFacts ==
  ASSUME NEW item, IsItem(item), item.kind \in Words
  PROVE  Raw(item) \in 0..(Power[4] - 1) /\ Encode(item) = Bytes(4, Raw(item))
<1>1. Power[4] \in Nat /\ Power[4] > 1
  BY PowerFacts
<1>2. CASE item.kind \in {"unsigned int", "enum"}
  BY <1>2 DEF IsItem, Raw, Encode, EncodeUnsignedInt
<1>3. CASE item.kind = "int"
  <2>1. item.value \in (Power[4] \div 2 - Power[4])..(Power[4] \div 2 - 1)
    BY <1>3 DEF IsItem
  <2> QED
    BY <1>3, <2>1, SignedFacts DEF Raw, Encode, EncodeInt, EncodeUnsignedInt
<1>4. CASE item.kind = "bool"
  <2>1. Encode(item) = EncodeBool(item.value)
    BY <1>4 DEF Encode
  <2>2. Raw(item) = IF item.value THEN 1 ELSE 0
    BY <1>4 DEF Raw
  <2>3. 1 % Power[4] = 1 /\ 0 % Power[4] = 0
    <3> DEFINE p == Power[4]
    <3> HIDE DEF p
    <3>1. p \in Nat /\ p > 1 => 1 % p = 1 /\ 0 % p = 0
      OBVIOUS
    <3> QED
      BY <1>1, <3>1 DEF p
  <2>4. Raw(item) \in {0, 1} /\ Raw(item) % Power[4] = Raw(item)
    BY <2>2, <2>3
  <2> QED
    BY <1>1, <2>1, <2>2, <2>4 DEF EncodeBool, EncodeInt, EncodeUnsignedInt
<1> QED
  BY <1>2, <1>3, <1>4 DEF Words

(* Encode writes a hyper for a hyper or an unsigned hyper.                  *)
LEMMA HyperFacts ==
  ASSUME NEW item, IsItem(item), item.kind \in Hypers
  PROVE  Raw(item) \in 0..(Power[8] - 1) /\ Encode(item) = Bytes(8, Raw(item))
<1>1. CASE item.kind = "unsigned hyper"
  BY <1>1 DEF IsItem, Raw, Encode, EncodeUnsignedHyper
<1>2. CASE item.kind = "hyper"
  <2>1. item.value \in (Power[8] \div 2 - Power[8])..(Power[8] \div 2 - 1)
    BY <1>2 DEF IsItem
  <2> QED
    BY <1>2, <2>1, SignedFacts DEF Raw, Encode, EncodeHyper, EncodeUnsignedHyper
<1> QED
  BY <1>1, <1>2 DEF Hypers

(* EncodeOpaque and EncodeString write the length first.                    *)
LEMMA BodyFacts ==
  ASSUME NEW item, IsItem(item), item.kind \in Bodies
  PROVE  /\ item.value \in Seq(Byte) /\ Len(item.value) \in 0..(Power[4] - 1)
         /\ Encode(item) = Bytes(4, Len(item.value)) \o EncodeFixedOpaque(item.value)
<1>1. item.kind = "opaque" \/ item.kind = "string"
  BY DEF Bodies
<1>2. item.value \in Seq(Byte) /\ Len(item.value) < Power[4]
  BY <1>1 DEF IsItem
<1>3. Len(item.value) \in Nat /\ Power[4] \in Nat
  BY <1>2, LenProperties, PowerFacts
<1>4. CASE item.kind = "opaque"
  <2>1. Encode(item) = EncodeOpaque(item.value)
    BY <1>4 DEF Encode
  <2> QED
    BY <1>2, <1>3, <2>1 DEF EncodeOpaque, EncodeUnsignedInt
<1>5. CASE item.kind = "string"
  <2>1. Encode(item) = EncodeString(item.value)
    BY <1>5 DEF Encode
  <2>2. EncodeFixedString(item.value) = EncodeFixedOpaque(item.value)
    BY DEF EncodeFixedString, EncodeFixedOpaque
  <2> QED
    BY <1>2, <1>3, <2>1, <2>2 DEF EncodeString, EncodeUnsignedInt
<1> QED
  BY <1>1, <1>4, <1>5

(* EncodeFixedOpaque and EncodeFixedString write the bytes and the padding. *)
LEMMA FixedBodyFacts ==
  ASSUME NEW item, IsItem(item), item.kind \in FixedBodies
  PROVE  item.value \in Seq(Byte) /\ Encode(item) = EncodeFixedOpaque(item.value)
BY DEF IsItem, FixedBodies, Encode, EncodeFixedString, EncodeFixedOpaque

(* What is written of an item are bytes, as many as its kind tells, or its  *)
(* length.                                                                  *)
LEMMA WordLength ==
  ASSUME NEW item, IsItem(item), item.kind \in Words
  PROVE  Encode(item) \in Seq(Byte) /\ Len(Encode(item)) = 4
<1>1. Raw(item) \in Nat /\ Encode(item) = Bytes(4, Raw(item))
  BY WordFacts, PowerFacts
<1> QED
  BY <1>1, BytesType

(* A hyper is eight bytes long.                                             *)
LEMMA HyperLength ==
  ASSUME NEW item, IsItem(item), item.kind \in Hypers
  PROVE  Encode(item) \in Seq(Byte) /\ Len(Encode(item)) = 8
<1>1. Raw(item) \in Nat /\ Encode(item) = Bytes(8, Raw(item))
  BY HyperFacts, PowerFacts
<1> QED
  BY <1>1, BytesType

(* The length, four bytes, then the body, a multiple of four.               *)
LEMMA BodyLength ==
  ASSUME NEW item, IsItem(item), item.kind \in Bodies
  PROVE  /\ Encode(item) \in Seq(Byte) /\ RoundUp(Len(item.value)) \in Nat
         /\ Len(Encode(item)) = 4 + RoundUp(Len(item.value))
         /\ \A i \in 1..4 : Encode(item)[i] = Bytes(4, Len(item.value))[i]
         /\ \A i \in 1..RoundUp(Len(item.value)) :
              Encode(item)[4 + i] = EncodeFixedOpaque(item.value)[i]
<1> DEFINE len == Len(item.value)
           n == RoundUp(len)
           head == Bytes(4, len)
           body == EncodeFixedOpaque(item.value)
<1>1. item.value \in Seq(Byte) /\ len \in Nat /\ Encode(item) = head \o body
  BY BodyFacts, LenProperties
<1>2. head \in Seq(Byte) /\ Len(head) = 4
  BY <1>1, BytesType, SMTT(30)
<1>3. body \in Seq(Byte) /\ Len(body) = n /\ n \in Nat
  BY <1>1, FixedFacts, PaddingFacts
<1> HIDE DEF head, body, n
<1>4. /\ head \o body \in Seq(Byte) /\ Len(head \o body) = 4 + n
      /\ \A i \in 1..(4 + n) : (head \o body)[i] = IF i \leq 4 THEN head[i] ELSE body[i - 4]
  <2>1. /\ head \o body \in Seq(Byte) /\ Len(head \o body) = Len(head) + Len(body)
        /\ \A i \in 1..(Len(head) + Len(body)) :
             (head \o body)[i] = IF i \leq Len(head) THEN head[i] ELSE body[i - Len(head)]
    BY <1>2, <1>3, ConcatProperties
  <2> QED
    BY <1>2, <1>3, <2>1
<1>5. \A i \in 1..4 : Encode(item)[i] = head[i]
  BY <1>1, <1>3, <1>4
<1>6. \A i \in 1..n : Encode(item)[4 + i] = body[i]
  <2> SUFFICES ASSUME NEW i \in 1..n PROVE Encode(item)[4 + i] = body[i]
    OBVIOUS
  <2>1. 4 + i \in 1..(4 + n) /\ ~(4 + i \leq 4) /\ (4 + i) - 4 = i
    BY <1>3
  <2> QED
    BY <1>1, <1>4, <2>1
<1> QED
  BY <1>1, <1>3, <1>4, <1>5, <1>6 DEF head, body, n

(* The body alone, a multiple of four.                                      *)
LEMMA FixedBodyLength ==
  ASSUME NEW item, IsItem(item), item.kind \in FixedBodies
  PROVE  /\ item.value \in Seq(Byte) /\ Len(item.value) \in Nat
         /\ Encode(item) \in Seq(Byte) /\ RoundUp(Len(item.value)) \in Nat
         /\ Len(Encode(item)) = RoundUp(Len(item.value))
         /\ Encode(item) = EncodeFixedOpaque(item.value)
<1>1. item.value \in Seq(Byte) /\ Encode(item) = EncodeFixedOpaque(item.value)
  BY FixedBodyFacts
<1> QED
  BY <1>1, FixedFacts, PaddingFacts

(* Whatever an item is, bytes are written for it.                           *)
LEMMA EncodeFacts ==
  ASSUME NEW item, IsItem(item)
  PROVE  /\ item.kind \in Words \cup Hypers \cup Bodies \cup FixedBodies
         /\ Encode(item) \in Seq(Byte) /\ Len(Encode(item)) \in Nat
<1>1. item.kind \in Words \cup Hypers \cup Bodies \cup FixedBodies
  BY DEF IsItem, Words, Hypers, Bodies, FixedBodies
<1>2. Encode(item) \in Seq(Byte)
  BY <1>1, WordLength, HyperLength, BodyLength, FixedBodyLength
<1> QED
  BY <1>1, <1>2, LenProperties

-----------------------------------------------------------------------------
(* What is read: the input begins with bytes, as far as both go.            *)
Sees(bytes) == \A i \in 1..Len(bytes) : i \leq Len(input) => input[i] = bytes[i]

(* io.ReadFull returns what is there.                                       *)
LEMMA ReadFullFacts ==
  ASSUME NEW bytes \in Seq(Byte), Sees(bytes), input \in Seq(Byte), Enough(Len(bytes))
  PROVE  ReadFull(Len(bytes)) = bytes
<1>1. Len(bytes) \in Nat /\ Len(input) \in Nat /\ Len(bytes) \leq Len(input)
  BY LenProperties DEF Enough
<1>2. \A i \in 1..Len(bytes) : ReadFull(Len(bytes))[i] = bytes[i]
  BY <1>1 DEF ReadFull, Sees
<1>3. DOMAIN ReadFull(Len(bytes)) = 1..Len(bytes)
  BY DEF ReadFull
<1>4. bytes = [i \in 1..Len(bytes) |-> bytes[i]]
  BY <1>1, LenProperties
<1> QED
  BY <1>2, <1>3, <1>4 DEF ReadFull

(* A word or a hyper that has arrived is the number that was written.       *)
LEMMA ReadNumber ==
  ASSUME NEW n \in 0..8, NEW u \in 0..(Power[n] - 1), Sees(Bytes(n, u)),
         input \in Seq(Byte), Enough(n)
  PROVE  Number(ReadFull(n)) = u
<1>1. Power[n] \in Nat
  BY PowerFacts
<1>2. Bytes(n, u) \in Seq(Byte) /\ Len(Bytes(n, u)) = n
  <2>1. u \in Nat
    BY <1>1
  <2> QED
    BY <2>1, BytesType
<1>3. ReadFull(n) = Bytes(n, u)
  BY <1>2, ReadFullFacts
<1> QED
  BY <1>3, NumberOfBytes

(* What the receiver should get for an item.                                *)
Right(item, v) ==
  \/ item.kind = "enum" /\ (item.value = 1) = v
  \/ item.kind # "enum" /\ v = item.value

(* DecodeInt, DecodeUnsignedInt and DecodeBool, on a word that was written. *)
LEMMA DecodeWord ==
  ASSUME NEW item, IsItem(item), item.kind \in Words, Sees(Encode(item)), input \in Seq(Byte)
  PROVE  /\ Decode(item).used = 4
         /\ Decode(item).ok => Enough(4) /\ Right(item, Decode(item).value)
         /\ ~Decode(item).ok => ~Enough(4) \/ (item.kind = "enum" /\ item.value \notin {0, 1})
<1> DEFINE u == Number(ReadFull(4))
           raw == Raw(item)
<1>1. Enough(4) => u = raw
  <2>1. 4 \in 0..8 /\ raw \in 0..(Power[4] - 1) /\ Encode(item) = Bytes(4, raw)
    BY WordFacts
  <2> HIDE DEF raw, u
  <2>2. Sees(Bytes(4, raw))
    BY <2>1
  <2> QED
    BY <2>1, <2>2, ReadNumber DEF u
<1> HIDE DEF u
<1>2. DecodeUnsignedInt = [value |-> u, ok |-> Enough(4), used |-> 4]
  BY DEF DecodeUnsignedInt, u
<1>3. CASE item.kind = "unsigned int"
  <2>1. Decode(item) = DecodeUnsignedInt
    BY <1>3 DEF Decode
  <2>2. Decode(item).used = 4 /\ Decode(item).ok = Enough(4) /\ Decode(item).value = u
    BY <1>2, <2>1
  <2>3. raw = item.value
    BY <1>3 DEF Raw
  <2> QED
    BY <1>1, <1>3, <2>2, <2>3 DEF Right
<1>4. CASE item.kind = "int"
  <2>1. Decode(item) = [value |-> Signed(u, 4), ok |-> Enough(4), used |-> 4]
    <3>1. Decode(item) = DecodeInt
      BY <1>4 DEF Decode
    <3> QED
      BY <1>2, <3>1 DEF DecodeInt
  <2>2. Decode(item).used = 4 /\ Decode(item).ok = Enough(4) /\ Decode(item).value = Signed(u, 4)
    BY <2>1
  <2>3. item.value \in (Power[4] \div 2 - Power[4])..(Power[4] \div 2 - 1) /\ raw = item.value % Power[4]
    BY <1>4 DEF IsItem, Raw
  <2>4. Signed(raw, 4) = item.value
    BY <2>3, SignedFacts
  <2> HIDE DEF raw
  <2> QED
    BY <1>1, <1>4, <2>2, <2>4 DEF Right
<1>5. CASE item.kind \in {"bool", "enum"}
  <2>1. Decode(item) = [value |-> (u = 1), ok |-> (Enough(4) /\ u \in {0, 1}), used |-> 4]
    <3>1. Decode(item) = DecodeBool
      BY <1>5 DEF Decode
    <3> QED
      BY <1>2, <3>1 DEF DecodeBool
  <2>2. /\ Decode(item).used = 4 /\ Decode(item).ok = (Enough(4) /\ u \in {0, 1})
        /\ Decode(item).value = (u = 1)
    BY <2>1
  <2>3. CASE item.kind = "enum"
    <3>1. raw = item.value
      BY <2>3 DEF Raw
    <3> QED
      BY <1>1, <2>2, <2>3, <3>1 DEF Right
  <2>4. CASE item.kind = "bool"
    <3>1. CASE item.value = TRUE
      <4>1. raw = 1
        BY <2>4, <3>1 DEF Raw
      <4> QED
        BY <1>1, <2>2, <2>4, <3>1, <4>1 DEF Right
    <3>2. CASE item.value = FALSE
      <4>1. raw = 0
        BY <2>4, <3>2 DEF Raw
      <4> HIDE DEF raw
      <4>2. ASSUME Enough(4) PROVE Decode(item).ok /\ Decode(item).value = item.value
        <5>1. u = 0
          BY <1>1, <4>1, <4>2
        <5>2. u # 1 /\ u \in {0, 1}
          BY <5>1
        <5> QED
          BY <2>2, <3>2, <4>2, <5>2, Zenon
      <4> QED
        BY <2>2, <2>4, <4>2 DEF Right
    <3>3. item.value \in BOOLEAN
      BY <2>4 DEF IsItem
    <3> QED
      BY <3>1, <3>2, <3>3
  <2> QED
    BY <1>5, <2>3, <2>4
<1> QED
  BY <1>3, <1>4, <1>5 DEF Words

(* DecodeHyper and DecodeUnsignedHyper, on a hyper that was written.        *)
LEMMA DecodeHyperFacts ==
  ASSUME NEW item, IsItem(item), item.kind \in Hypers, Sees(Encode(item)), input \in Seq(Byte)
  PROVE  /\ Decode(item).used = 8 /\ Decode(item).ok = Enough(8)
         /\ Enough(8) => Right(item, Decode(item).value)
<1> DEFINE u == Number(ReadFull(8))
           raw == Raw(item)
<1>1. Enough(8) => u = raw
  <2>1. 8 \in 0..8 /\ raw \in 0..(Power[8] - 1) /\ Encode(item) = Bytes(8, raw)
    BY HyperFacts
  <2> HIDE DEF raw, u
  <2>2. Sees(Bytes(8, raw))
    BY <2>1
  <2> QED
    BY <2>1, <2>2, ReadNumber DEF u
<1> HIDE DEF u
<1>2. DecodeUnsignedHyper = [value |-> u, ok |-> Enough(8), used |-> 8]
  BY DEF DecodeUnsignedHyper, u
<1>3. CASE item.kind = "unsigned hyper"
  <2>1. Decode(item) = DecodeUnsignedHyper
    BY <1>3 DEF Decode
  <2>2. Decode(item).used = 8 /\ Decode(item).ok = Enough(8) /\ Decode(item).value = u
    BY <1>2, <2>1
  <2>3. raw = item.value
    BY <1>3 DEF Raw
  <2> QED
    BY <1>1, <1>3, <2>2, <2>3 DEF Right
<1>4. CASE item.kind = "hyper"
  <2>1. Decode(item) = [value |-> Signed(u, 8), ok |-> Enough(8), used |-> 8]
    <3>1. Decode(item) = DecodeHyper
      BY <1>4 DEF Decode
    <3> QED
      BY <1>2, <3>1 DEF DecodeHyper
  <2>2. Decode(item).used = 8 /\ Decode(item).ok = Enough(8) /\ Decode(item).value = Signed(u, 8)
    BY <2>1
  <2>3. item.value \in (Power[8] \div 2 - Power[8])..(Power[8] \div 2 - 1) /\ raw = item.value % Power[8]
    BY <1>4 DEF IsItem, Raw
  <2>4. Signed(raw, 8) = item.value
    BY <2>3, SignedFacts
  <2> HIDE DEF raw
  <2> QED
    BY <1>1, <1>4, <2>2, <2>4 DEF Right
<1> QED
  BY <1>3, <1>4 DEF Hypers

(* The length of an opaque or a string, when it has arrived.                *)
LEMMA LengthRead ==
  ASSUME NEW item, IsItem(item), item.kind \in Bodies, Sees(Encode(item)), input \in Seq(Byte)
  PROVE  /\ Len(item.value) \in Nat
         /\ DecodeUnsignedInt.ok = Enough(4)
         /\ Enough(4) => DecodeUnsignedInt.value = Len(item.value)
<1> DEFINE len == Len(item.value)
<1>1. len \in 0..(Power[4] - 1) /\ len \in Nat
  BY BodyFacts, LenProperties
<1>2. /\ \A i \in 1..4 : Encode(item)[i] = Bytes(4, len)[i]
      /\ RoundUp(len) \in Nat /\ Len(Encode(item)) = 4 + RoundUp(len)
  BY BodyLength
<1> HIDE DEF len
<1>3. Len(Bytes(4, len)) = 4
  BY <1>1, BytesType
<1>4. Sees(Bytes(4, len))
  BY <1>2, <1>3 DEF Sees
<1>5. Enough(4) => Number(ReadFull(4)) = len
  <2>1. 4 \in 0..8
    OBVIOUS
  <2> QED
    BY <1>1, <1>4, <2>1, ReadNumber
<1>6. DecodeUnsignedInt.ok = Enough(4) /\ DecodeUnsignedInt.value = Number(ReadFull(4))
  BY DEF DecodeUnsignedInt
<1> QED
  BY <1>1, <1>5, <1>6 DEF len

(* The bytes of the body follow the length.                                 *)
LEMMA BodyIsThere ==
  ASSUME NEW item, IsItem(item), item.kind \in Bodies
  PROVE  SubSeq(Encode(item), 5, 4 + Len(item.value)) = item.value
<1> DEFINE len == Len(item.value)
           n == RoundUp(len)
           e == Encode(item)
           s == SubSeq(e, 5, 4 + len)
<1>1. item.value \in Seq(Byte) /\ len \in Nat
  BY BodyFacts, LenProperties
<1>2. /\ n \in Nat /\ e \in Seq(Byte) /\ Len(e) = 4 + n
      /\ \A i \in 1..n : e[4 + i] = EncodeFixedOpaque(item.value)[i]
  BY BodyLength
<1>3. \A i \in 1..len : EncodeFixedOpaque(item.value)[i] = item.value[i]
  BY <1>1, FixedFacts
<1>4. len \leq n
  <2> HIDE DEF len
  <2>1. n = len + PaddingAfter(len) /\ PaddingAfter(len) \in 0..3
    BY <1>1, PaddingFacts
  <2> HIDE DEF n
  <2> QED
    BY <1>1, <2>1
<1> HIDE DEF e, n
<1>5. \A i \in 1..len : e[4 + i] = item.value[i]
  BY <1>1, <1>2, <1>3, <1>4
<1>6. \A i \in 5..(4 + len) : e[i] \in Byte
  <2>1. \A i \in 1..Len(e) : e[i] \in Byte
    BY <1>2, LenProperties
  <2> QED
    BY <1>1, <1>2, <1>4, <2>1
<1> HIDE DEF len
<1>7. /\ s \in Seq(Byte) /\ Len(s) = IF 5 \leq 4 + len THEN (4 + len) - 5 + 1 ELSE 0
      /\ \A i \in 1..((4 + len) - 5 + 1) : s[i] = e[5 + i - 1]
  <2>1. 5 \in Int /\ 4 + len \in Int
    BY <1>1
  <2> QED
    BY <1>6, <2>1, SubSeqProperties
<1> HIDE DEF s
<1>8. Len(s) = len
  BY <1>1, <1>7
<1>9. \A i \in 1..len : s[i] = item.value[i]
  <2> SUFFICES ASSUME NEW i \in 1..len PROVE s[i] = item.value[i]
    OBVIOUS
  <2>1. i \in 1..((4 + len) - 5 + 1) /\ 5 + i - 1 = 4 + i
    BY <1>1
  <2> QED
    BY <1>5, <1>7, <2>1
<1> QED
  BY <1>1, <1>7, <1>8, <1>9, SeqEqual DEF s, len, e

(* DecodeOpaque and DecodeString, on what was written for one: they do not  *)
(* tell when the body has not arrived.                                      *)
LEMMA DecodeBody ==
  ASSUME NEW item, IsItem(item), item.kind \in Bodies, Sees(Encode(item)), input \in Seq(Byte)
  PROVE  /\ Decode(item).ok => Enough(4) /\ Decode(item).used = Len(Encode(item))
         /\ Decode(item).ok /\ Enough(Len(Encode(item))) => Right(item, Decode(item).value)
         /\ Decode(item).used \in Nat
         /\ ~Decode(item).ok => ~Enough(4) \/ Len(item.value) > Limit
<1> DEFINE len == Len(item.value)
           u == DecodeUnsignedInt
           d == Decode(item)
           full == ReadFull(4 + RoundUp(u.value))
<1>1. len \in Nat /\ u.ok = Enough(4) /\ (Enough(4) => u.value = len)
  BY LengthRead
<1>2. d = DecodeOpaque(Limit) /\ item.kind # "enum"
  BY DEF Decode, DecodeString, Bodies
<1>3. d = IF ~u.ok \/ u.value > Limit
          THEN [value |-> <<>>, ok |-> FALSE, used |-> 4]
          ELSE [value |-> SubSeq(full, 5, 4 + u.value), ok |-> TRUE, used |-> 4 + RoundUp(u.value)]
  BY <1>2 DEF DecodeOpaque
<1>4. /\ RoundUp(len) \in Nat /\ Len(Encode(item)) = 4 + RoundUp(len)
      /\ Encode(item) \in Seq(Byte)
  BY BodyLength
<1> HIDE DEF u, d
<1>5. CASE ~u.ok \/ u.value > Limit
  BY <1>1, <1>3, <1>5 DEF d
<1>6. CASE u.ok /\ ~(u.value > Limit)
  <2>1. d.ok /\ d.used = 4 + RoundUp(len) /\ u.value = len /\ Enough(4)
    BY <1>1, <1>3, <1>6
  <2>2. d.value = SubSeq(ReadFull(4 + RoundUp(len)), 5, 4 + len)
    BY <1>1, <1>3, <1>6, <2>1
  <2>3. ASSUME Enough(Len(Encode(item))) PROVE d.value = item.value
    <3>1. ReadFull(Len(Encode(item))) = Encode(item)
      BY <1>4, <2>3, ReadFullFacts
    <3> QED
      BY <1>4, <2>2, <3>1, BodyIsThere
  <2> QED
    BY <1>2, <1>4, <2>1, <2>3 DEF Right, d
<1> QED
  BY <1>5, <1>6

(* DecodeFixedOpaque and DecodeFixedString, on what was written for one.    *)
LEMMA DecodeFixedBody ==
  ASSUME NEW item, IsItem(item), item.kind \in FixedBodies, Sees(Encode(item)), input \in Seq(Byte)
  PROVE  /\ Decode(item).used = Len(Encode(item)) /\ Decode(item).ok = Enough(Len(Encode(item)))
         /\ Decode(item).ok => Right(item, Decode(item).value)
<1> DEFINE len == Len(item.value)
           n == RoundUp(len)
           d == Decode(item)
<1>1. /\ item.value \in Seq(Byte) /\ len \in Nat /\ Encode(item) \in Seq(Byte) /\ n \in Nat
      /\ Len(Encode(item)) = n /\ Encode(item) = EncodeFixedOpaque(item.value)
  BY FixedBodyLength
<1>2. \A i \in 1..len : Encode(item)[i] = item.value[i]
  BY <1>1, FixedFacts
<1>3. len \leq n
  <2> HIDE DEF len
  <2>1. n = len + PaddingAfter(len) /\ PaddingAfter(len) \in 0..3
    BY <1>1, PaddingFacts
  <2> HIDE DEF n
  <2> QED
    BY <1>1, <2>1
<1>4. d = [value |-> ReadFull(len), ok |-> Enough(n), used |-> n] /\ item.kind # "enum"
  BY DEF Decode, DecodeFixedString, DecodeFixedOpaque, FixedBodies
<1>5. d.value = ReadFull(len) /\ d.ok = Enough(n) /\ d.used = n
  BY <1>4
<1> HIDE DEF d, n
<1>6. ASSUME Enough(n) PROVE ReadFull(len) = item.value
  <2>1. Enough(len)
    <3>1. Len(input) \in Nat
      BY LenProperties
    <3> HIDE DEF len
    <3> QED
      BY <1>1, <1>3, <1>6, <3>1 DEF Enough
  <2>2. Sees(item.value)
    BY <1>1, <1>2, <1>3 DEF Sees
  <2> QED
    BY <1>1, <2>1, <2>2, ReadFullFacts
<1> QED
  BY <1>1, <1>4, <1>5, <1>6 DEF Right, d

(* Whatever an item is: what is returned for it without an error is right,  *)
(* and uses up what was written for it, if all of it has arrived.  Only     *)
(* DecodeOpaque and DecodeString return without an error when it has not.   *)
LEMMA DecodeFacts ==
  ASSUME NEW item, IsItem(item), Sees(Encode(item)), input \in Seq(Byte)
  PROVE  /\ Decode(item).used \in Nat
         /\ Decode(item).ok =>
              /\ Decode(item).used = Len(Encode(item))
              /\ item.kind \in {"opaque", "string"} \/ Enough(Len(Encode(item)))
         /\ Decode(item).ok /\ Enough(Len(Encode(item))) => Right(item, Decode(item).value)
         /\ ~Decode(item).ok =>
              \/ ~Enough(Len(Encode(item)))
              \/ item.kind \in {"opaque", "string"} /\ Len(item.value) > Limit
              \/ item.kind = "enum" /\ item.value \notin {0, 1}
<1>1. item.kind \in Words \cup Hypers \cup Bodies \cup FixedBodies
  BY EncodeFacts
<1>2. CASE item.kind \in Words
  <2>1. Len(Encode(item)) = 4 /\ 4 \in Nat
    BY <1>2, WordLength
  <2> QED
    BY <1>2, <2>1, DecodeWord, Zenon
<1>3. CASE item.kind \in Hypers
  <2>1. Len(Encode(item)) = 8 /\ 8 \in Nat
    BY <1>3, HyperLength
  <2> QED
    BY <1>3, <2>1, DecodeHyperFacts, Zenon
<1>4. CASE item.kind \in Bodies
  <2>1. ~Enough(4) => ~Enough(Len(Encode(item)))
    <3>1. Len(Encode(item)) = 4 + RoundUp(Len(item.value)) /\ RoundUp(Len(item.value)) \in Nat
      BY <1>4, BodyLength
    <3>2. Len(input) \in Nat
      BY LenProperties
    <3> QED
      BY <3>1, <3>2 DEF Enough
  <2> QED
    BY <1>4, <2>1, DecodeBody DEF Bodies
<1>5. CASE item.kind \in FixedBodies
  BY <1>5, FixedBodyLength, DecodeFixedBody
<1> QED
  BY <1>1, <1>2, <1>3, <1>4, <1>5
=============================================================================
