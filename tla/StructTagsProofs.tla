--------------------------- MODULE StructTagsProofs ---------------------------
(***************************************************************************)
(* StructTags for every struct, whatever its tags say.  First what is true *)
(* of the bytes of tags: entries can be written one after the other and    *)
(* read back.  Then the loop over the fields of a struct.                  *)
(***************************************************************************)
EXTENDS StructTags, SequenceFacts

-----------------------------------------------------------------------------
(* Words.                                                                   *)
Byte == 0..255
Number == {v \in Nat : IsWord(v)}

(* Number is the set of what fits in four bytes.                            *)
LEMMA WordsAreNumbers == (\A v : IsWord(v) <=> v \in Number) /\ IsWord(0)
BY SMT DEF Number, IsWord

(* A number is read back from its four bytes.                               *)
LEMMA WordFacts ==
  ASSUME NEW v \in Number
  PROVE  /\ Word(v) \in Seq(Byte) /\ Len(Word(v)) = 4
         /\ Word(v)[1] \in Byte /\ Word(v)[2] \in Byte /\ Word(v)[3] \in Byte /\ Word(v)[4] \in Byte
         /\ v = Word(v)[1] * 16777216 + Word(v)[2] * 65536 + Word(v)[3] * 256 + Word(v)[4]
<1> DEFINE a == v \div 16777216
           b == v \div 65536
           c == v \div 256
<1>1. v \in Nat /\ a < 256
  BY SMT DEF Number, IsWord
<1>2. /\ a \in Nat /\ a % 256 \in Byte /\ b % 256 \in Byte /\ c % 256 \in Byte /\ v % 256 \in Byte
      /\ b \in Nat /\ c \in Nat
  BY <1>1, SMT DEF Byte
<1>3. a % 256 = a
  BY <1>1, <1>2, SMT
<1>4. b \div 256 = a /\ c \div 256 = b
  BY <1>1, SMT
<1>5. /\ b = 256 * a + (b % 256)
      /\ c = 256 * b + (c % 256)
      /\ v = 256 * c + (v % 256)
  BY <1>1, <1>4, SMT
<1>6. v = a * 16777216 + (b % 256) * 65536 + (c % 256) * 256 + (v % 256)
  <2> HIDE DEF a, b, c
  <2> QED
    BY <1>1, <1>2, <1>5, SMT
<1>7. Word(v) = <<a % 256, b % 256, c % 256, v % 256>>
  BY SMT DEF Word
<1> HIDE DEF a, b, c
<1> QED
  BY <1>2, <1>3, <1>6, <1>7, SMT DEF Byte

(* valAt reads a number where the four bytes of it are.                     *)
LEMMA ValAtFacts ==
  ASSUME NEW v \in Number, NEW t, NEW offs \in Nat,
         \A j \in 1..4 : t[offs + j] = Word(v)[j]
  PROVE  valAt(t, offs) = v
BY WordFacts, SMT DEF valAt

(* The four bytes of a number, without its arithmetic.                      *)
LEMMA WordType ==
  ASSUME NEW v \in Number
  PROVE  /\ Word(v) \in Seq(Byte) /\ Len(Word(v)) = 4
         /\ Word(v)[1] \in Byte /\ Word(v)[2] \in Byte /\ Word(v)[3] \in Byte /\ Word(v)[4] \in Byte
BY WordFacts, SMT

-----------------------------------------------------------------------------
(* Entries.                                                                 *)
Single == {"Len", "MaxLen"}
TagEntry ==
  {x \in [kind : KindNames, values : Seq(Number)] :
     /\ x.kind \in Single => Len(x.values) = 1
     /\ x.kind \notin Single \cup {"UnionCases"} => x.values = <<>>
     /\ IsWord(Len(x.values))}

(* What the switch statements of Append, Next and Value ask about each      *)
(* kind, and that no two kinds are the same byte.                           *)
LEMMA KindFacts ==
  /\ KindNames = {"Noop", "Skip", "Opt", "Opaque", "UnionSwitch", "UnionDefault",
                  "Len", "MaxLen", "UnionCases"}
  /\ \A k \in KindNames :
       /\ KindByte[k] \in Byte
       /\ Valueless(KindByte[k]) <=> k \notin Single \cup {"UnionCases"}
       /\ SingleValued(KindByte[k]) <=> k \in Single
       /\ KindNamed(KindByte[k]) = k
       /\ KindByte[k] = KindByte.Noop <=> k = "Noop"
       /\ KindByte[k] = KindByte.Skip <=> k = "Skip"
       /\ KindByte[k] = KindByte.UnionSwitch <=> k = "UnionSwitch"
       /\ KindByte[k] = KindByte.UnionCases <=> k = "UnionCases"
       /\ KindByte[k] = KindByte.UnionDefault <=> k = "UnionDefault"
<1>1. KindNames = {"Noop", "Skip", "Opt", "Opaque", "UnionSwitch", "UnionDefault",
                   "Len", "MaxLen", "UnionCases"}
  BY SMT DEF KindNames, KindByte
<1>2. \A k, l \in KindNames : KindByte[k] = KindByte[l] => k = l
  BY <1>1, SMT DEF KindByte
<1>3. ASSUME NEW k \in KindNames PROVE KindNamed(KindByte[k]) = k
  BY <1>2, SMT DEF KindNamed
<1>4. \A k \in KindNames :
       /\ KindByte[k] \in Byte
       /\ Valueless(KindByte[k]) <=> k \notin Single \cup {"UnionCases"}
       /\ SingleValued(KindByte[k]) <=> k \in Single
  BY <1>1, SMT DEF KindByte, Valueless, SingleValued, Byte, Single
<1>5. \A k \in KindNames :
       /\ KindByte[k] = KindByte.Noop <=> k = "Noop"
       /\ KindByte[k] = KindByte.Skip <=> k = "Skip"
       /\ KindByte[k] = KindByte.UnionSwitch <=> k = "UnionSwitch"
       /\ KindByte[k] = KindByte.UnionCases <=> k = "UnionCases"
       /\ KindByte[k] = KindByte.UnionDefault <=> k = "UnionDefault"
  BY <1>1, SMT DEF KindByte
<1> QED
  BY <1>1, <1>3, <1>4, <1>5

Written(x) == EntryBytes(x.kind, x.values)

(* The bytes of an entry, one by one.                                       *)
LEMMA EntryBytesFacts ==
  ASSUME NEW x \in TagEntry
  PROVE  /\ Written(x) \in Seq(Byte) /\ Written(x)[1] = KindByte[x.kind]
         /\ x.kind \in KindNames /\ x.values \in Seq(Number) /\ Len(x.values) \in Number
         /\ Len(Written(x)) = IF x.kind \in Single THEN 5
                              ELSE IF x.kind = "UnionCases" THEN 5 + 4 * Len(x.values) ELSE 1
         /\ x.kind \in Single => /\ x.values[1] \in Number /\ x.values = <<x.values[1]>>
                                 /\ \A j \in 1..4 : Written(x)[1 + j] = Word(x.values[1])[j]
         /\ x.kind = "UnionCases" =>
              /\ \A j \in 1..4 : Written(x)[1 + j] = Word(Len(x.values))[j]
              /\ \A n \in 1..Len(x.values) : \A j \in 1..4 :
                   Written(x)[(1 + 4 * n) + j] = Word(x.values[n])[j]
<1> DEFINE k == x.kind
           b == KindByte[k]
           vs == x.values
           m == Len(vs)
           words == [q \in 1..(4 * m) |-> Word(vs[(q + 3) \div 4])[((q - 1) % 4) + 1]]
<1>1. /\ k \in KindNames /\ vs \in Seq(Number)
      /\ k \in Single => m = 1
      /\ k \notin Single \cup {"UnionCases"} => vs = <<>>
      /\ IsWord(m)
  BY DEF TagEntry
<1>2. m \in Nat /\ m \in Number /\ \A n \in 1..m : vs[n] \in Number
  BY <1>1, LenProperties, ElementOfSeq DEF Number
<1>3. /\ b \in Byte /\ (Valueless(b) <=> k \notin Single \cup {"UnionCases"})
      /\ (SingleValued(b) <=> k \in Single)
  BY <1>1, KindFacts
<1>4. Written(x) = <<b>> \o (IF Valueless(b) THEN <<>>
                             ELSE IF SingleValued(b) THEN Word(vs[1])
                             ELSE Word(m) \o words)
  BY DEF Written, EntryBytes
<1>5. <<b>> \in Seq(Byte) /\ Len(<<b>>) = 1 /\ <<b>>[1] = b
  BY <1>3
<1>6. "UnionCases" \notin Single
  BY DEF Single
<1>7. CASE k \notin Single \cup {"UnionCases"}
  <2>1. Written(x) = <<b>>
    <3>1. Written(x) = <<b>> \o <<>>
      BY <1>3, <1>4, <1>7
    <3> QED
      BY <1>5, <3>1, ConcatEmptySeq
  <2> QED
    BY <1>1, <1>2, <1>5, <1>7, <2>1
<1>8. CASE k \in Single
  <2>1. Written(x) = <<b>> \o Word(vs[1]) /\ vs[1] \in Number /\ m = 1
    <3>1. m = 1 /\ vs[1] \in Number
      BY <1>1, <1>2, <1>8
    <3>2. ~Valueless(b) /\ SingleValued(b)
      BY <1>3, <1>8
    <3> HIDE DEF b, vs, m, words
    <3>3. Written(x) = <<b>> \o Word(vs[1])
      BY <1>4, <3>2
    <3> QED
      BY <3>1, <3>3
  <2>2. Word(vs[1]) \in Seq(Byte) /\ Len(Word(vs[1])) = 4
    BY <2>1, WordType
  <2>3. /\ Written(x) \in Seq(Byte) /\ Len(Written(x)) = 5
        /\ \A q \in 1..5 : Written(x)[q] = IF q \leq 1 THEN <<b>>[q] ELSE Word(vs[1])[q - 1]
    BY <1>5, <2>1, <2>2, ConcatProperties
  <2>4. vs = <<vs[1]>>
    <3>1. <<vs[1]>> \in Seq(Number) /\ Len(<<vs[1]>>) = 1 /\ <<vs[1]>>[1] = vs[1]
      BY <2>1
    <3>2. \A q \in 1..m : vs[q] = <<vs[1]>>[q]
      BY <2>1
    <3> QED
      BY <1>1, <2>1, <3>1, <3>2, SeqEqual
  <2>5. Written(x)[1] = b /\ \A j \in 1..4 : Written(x)[1 + j] = Word(vs[1])[j]
    <3> HIDE DEF b, vs
    <3> QED
      BY <1>5, <2>3
  <2> QED
    BY <1>1, <1>2, <1>6, <1>8, <2>1, <2>3, <2>4, <2>5
<1>9. CASE k = "UnionCases"
  <2>1. Written(x) = <<b>> \o (Word(m) \o words)
    BY <1>3, <1>4, <1>6, <1>9
  <2>2. Word(m) \in Seq(Byte) /\ Len(Word(m)) = 4
    BY <1>2, WordType
  <2>3. /\ words \in Seq(Byte) /\ Len(words) = 4 * m
        /\ \A q \in 1..(4 * m) : words[q] = Word(vs[(q + 3) \div 4])[((q - 1) % 4) + 1]
    <3>1. ASSUME NEW q \in 1..(4 * m)
          PROVE  Word(vs[(q + 3) \div 4])[((q - 1) % 4) + 1] \in Byte
      <4>1. (q + 3) \div 4 \in 1..m /\ ((q - 1) % 4) + 1 \in {1, 2, 3, 4}
        <5>1. m \in Nat /\ q \in 1..(4 * m)
          BY <1>2
        <5> HIDE DEF m, vs, words, b, k
        <5>2. q \in Nat /\ q \geq 1 /\ q \leq 4 * m
          BY <5>1
        <5>3. (q + 3) \div 4 \in Nat /\ (q + 3) \div 4 \geq 1 /\ (q + 3) \div 4 \leq m
          BY <5>1, <5>2, SMT
        <5>4. (q - 1) % 4 \in 0..3
          BY <5>2, SMT
        <5> QED
          BY <5>1, <5>3, <5>4, SMT
      <4> QED
        BY <1>2, <4>1, WordType
    <3>2. 4 * m \in Nat
      BY <1>2
    <3>3. words \in [1..(4 * m) -> Byte]
      BY <3>1
    <3> HIDE DEF words
    <3>4. words \in Seq(Byte) /\ Len(words) = 4 * m
      BY <3>2, <3>3
    <3> QED
      BY <3>4 DEF words
  <2> HIDE DEF words
  <2>4. /\ Word(m) \o words \in Seq(Byte) /\ Len(Word(m) \o words) = 4 + 4 * m
        /\ \A q \in 1..(4 + 4 * m) :
             (Word(m) \o words)[q] = IF q \leq 4 THEN Word(m)[q] ELSE words[q - 4]
    <3>1. words \in Seq(Byte) /\ Len(words) = 4 * m /\ m \in Nat
      BY <1>2, <2>3
    <3> HIDE DEF m
    <3>2. /\ Word(m) \o words \in Seq(Byte) /\ Len(Word(m) \o words) = Len(Word(m)) + Len(words)
          /\ \A q \in 1..(Len(Word(m)) + Len(words)) :
               (Word(m) \o words)[q] = IF q \leq Len(Word(m)) THEN Word(m)[q] ELSE words[q - Len(Word(m))]
      BY <2>2, <3>1, ConcatProperties
    <3> QED
      BY <2>2, <3>1, <3>2
  <2>5. /\ Written(x) \in Seq(Byte) /\ Len(Written(x)) = 5 + 4 * m
        /\ \A q \in 1..(5 + 4 * m) :
             Written(x)[q] = IF q \leq 1 THEN <<b>>[q] ELSE (Word(m) \o words)[q - 1]
    <3> DEFINE w == Word(m) \o words
               h == <<b>>
    <3>1. /\ w \in Seq(Byte) /\ Len(w) = 4 + 4 * m /\ m \in Nat
          /\ h \in Seq(Byte) /\ Len(h) = 1 /\ Written(x) = h \o w
      BY <1>2, <1>5, <2>1, <2>4
    <3> HIDE DEF m, w, h
    <3>2. /\ h \o w \in Seq(Byte) /\ Len(h \o w) = Len(h) + Len(w)
          /\ \A q \in 1..(Len(h) + Len(w)) :
               (h \o w)[q] = IF q \leq Len(h) THEN h[q] ELSE w[q - Len(h)]
      BY <3>1, ConcatProperties
    <3>3. /\ Written(x) \in Seq(Byte) /\ Len(Written(x)) = 5 + 4 * m
          /\ \A q \in 1..(5 + 4 * m) : Written(x)[q] = IF q \leq 1 THEN h[q] ELSE w[q - 1]
      BY <3>1, <3>2
    <3> QED
      BY <3>3 DEF h, w
  <2>6. Written(x)[1] = b
    BY <1>2, <1>5, <2>5
  <2>7. \A j \in 1..4 : Written(x)[1 + j] = Word(m)[j]
    <3> SUFFICES ASSUME NEW j \in 1..4 PROVE Written(x)[1 + j] = Word(m)[j]
      OBVIOUS
    <3> HIDE DEF m
    <3>1. 1 + j \in 1..(5 + 4 * m) /\ ~(1 + j \leq 1) /\ (1 + j) - 1 = j /\ j \in 1..(4 + 4 * m)
      BY <1>2
    <3> QED
      BY <2>4, <2>5, <3>1, SMTT(30)
  <2>8. ASSUME NEW n \in 1..m, NEW j \in 1..4
        PROVE  Written(x)[(1 + 4 * n) + j] = Word(vs[n])[j]
    <3> DEFINE q == 4 * (n - 1) + j
    <3>1. /\ q \in 1..(4 * m) /\ (q + 3) \div 4 = n /\ ((q - 1) % 4) + 1 = j
          /\ (1 + 4 * n) + j \in 1..(5 + 4 * m) /\ ~((1 + 4 * n) + j \leq 1)
          /\ ((1 + 4 * n) + j) - 1 = q + 4 /\ q + 4 \in 1..(4 + 4 * m) /\ ~(q + 4 \leq 4)
          /\ (q + 4) - 4 = q
      <4> HIDE DEF m
      <4> QED
        BY <1>2, SMT
    <3> HIDE DEF q
    <3> QED
      BY <2>3, <2>4, <2>5, <3>1
  <2> QED
    BY <1>1, <1>2, <1>6, <1>9, <2>5, <2>6, <2>7, <2>8
<1> QED
  BY <1>7, <1>8, <1>9

(* An entry at the beginning of a tag is read back, and the rest is next.   *)
LEMMA EntryRead ==
  ASSUME NEW x \in TagEntry, NEW rest \in Seq(Byte), NEW t, t = Written(x) \o rest
  PROVE  /\ t \in Seq(Byte) /\ t # <<>> /\ Len(Written(x)) \in Nat \ {0}
         /\ Kind(t) = KindByte[x.kind] /\ KindNamed(Kind(t)) = x.kind
         /\ thisLen(t) = Len(Written(x)) /\ NextTag(t) = rest /\ Values(t) = x.values
<1> DEFINE w == Written(x)
           k == x.kind
           vs == x.values
           m == Len(vs)
<1>1. /\ w \in Seq(Byte) /\ w[1] = KindByte[k] /\ k \in KindNames
      /\ vs \in Seq(Number) /\ m \in Number /\ m \in Nat
      /\ Len(w) = IF k \in Single THEN 5 ELSE IF k = "UnionCases" THEN 5 + 4 * m ELSE 1
      /\ k \in Single => /\ vs[1] \in Number /\ vs = <<vs[1]>>
                         /\ \A j \in 1..4 : w[1 + j] = Word(vs[1])[j]
      /\ k = "UnionCases" =>
           /\ \A j \in 1..4 : w[1 + j] = Word(m)[j]
           /\ \A n \in 1..m : \A j \in 1..4 : w[(1 + 4 * n) + j] = Word(vs[n])[j]
  BY EntryBytesFacts DEF Number
<1>2. Len(w) \in Nat \ {0}
  <2> HIDE DEF w, m, k, vs
  <2> QED
    BY <1>1
<1>3. /\ t \in Seq(Byte) /\ Len(t) = Len(w) + Len(rest) /\ Len(rest) \in Nat
      /\ \A q \in 1..Len(w) : t[q] = w[q]
  <2> HIDE DEF w
  <2>1. t = w \o rest
    BY DEF w
  <2>2. Len(rest) \in Nat /\ Len(w) \in Nat
    BY <1>2, LenProperties
  <2>3. /\ w \o rest \in Seq(Byte) /\ Len(w \o rest) = Len(w) + Len(rest)
        /\ \A q \in 1..(Len(w) + Len(rest)) :
             (w \o rest)[q] = IF q \leq Len(w) THEN w[q] ELSE rest[q - Len(w)]
    <3>1. w \in Seq(Byte)
      BY <1>1
    <3> QED
      BY <3>1, ConcatProperties
  <2> QED
    BY <2>1, <2>2, <2>3
<1>4. t # <<>> /\ t[1] = KindByte[k]
  <2> HIDE DEF w, k
  <2>1. Len(t) # 0 /\ t[1] = w[1]
    BY <1>2, <1>3
  <2> QED
    BY <1>1, <2>1
<1>5. Kind(t) = KindByte[k]
  BY <1>4 DEF Kind
<1>6. /\ Valueless(t[1]) <=> k \notin Single \cup {"UnionCases"}
      /\ SingleValued(t[1]) <=> k \in Single
      /\ KindNamed(Kind(t)) = k
  BY <1>1, <1>4, <1>5, KindFacts, SMTT(30)
<1>7. "UnionCases" \notin Single
  BY DEF Single
<1>13. \A v \in Number : \A offs \in Nat :
        (\A j \in 1..4 : t[offs + j] = Word(v)[j]) => valAt(t, offs) = v
  BY ValAtFacts
<1>8. k = "UnionCases" => /\ valAt(t, 1) = m
                          /\ \A n \in 1..m : valAt(t, 1 + 4 * n) = vs[n]
  <2> SUFFICES ASSUME k = "UnionCases"
               PROVE  valAt(t, 1) = m /\ \A n \in 1..m : valAt(t, 1 + 4 * n) = vs[n]
    OBVIOUS
  <2> HIDE DEF w, m, k, vs
  <2>1. Len(w) = 5 + 4 * m /\ m \in Nat
    BY <1>1, <1>7
  <2>2. \A j \in 1..4 : t[1 + j] = Word(m)[j]
    <3>1. \A j \in 1..4 : 1 + j \in 1..Len(w)
      BY <2>1
    <3> QED
      BY <1>1, <1>3, <3>1
  <2>3. ASSUME NEW n \in 1..m PROVE valAt(t, 1 + 4 * n) = vs[n]
    <3>1. \A j \in 1..4 : (1 + 4 * n) + j \in 1..Len(w) /\ 1 + 4 * n \in Nat
      BY <2>1
    <3>2. \A j \in 1..4 : t[(1 + 4 * n) + j] = Word(vs[n])[j]
      BY <1>1, <1>3, <3>1
    <3>3. vs[n] \in Number
      BY <1>1 DEF m
    <3>4. 1 + 4 * n \in Nat
      BY <2>1
    <3> QED
      BY <3>2, <3>3, <3>4, <1>13
  <2>4. valAt(t, 1) = m
    BY <1>1, <2>2, <1>13
  <2> QED
    BY <2>3, <2>4
<1>9. k \in Single => valAt(t, 1) = vs[1]
  <2> SUFFICES ASSUME k \in Single PROVE valAt(t, 1) = vs[1]
    OBVIOUS
  <2> HIDE DEF w, m, k, vs
  <2>1. Len(w) = 5
    BY <1>1
  <2>2. \A j \in 1..4 : t[1 + j] = Word(vs[1])[j]
    <3>1. \A j \in 1..4 : 1 + j \in 1..Len(w)
      BY <2>1
    <3> QED
      BY <1>1, <1>3, <3>1
  <2>3. vs[1] \in Number
    BY <1>1
  <2> QED
    BY <2>2, <2>3, <1>13
<1>10. thisLen(t) = Len(w)
  <2> HIDE DEF w, m, k, vs
  <2> QED
    BY <1>1, <1>4, <1>6, <1>7, <1>8 DEF thisLen
<1>11. NextTag(t) = rest
  <2> HIDE DEF w
  <2>1. t = w \o rest
    BY DEF w
  <2>2. SubSeq(w \o rest, Len(w) + 1, Len(w \o rest)) = rest
    BY <1>1, DropFirst
  <2> QED
    BY <1>10, <2>1, <2>2 DEF NextTag
<1>12. Values(t) = vs
  <2>1. CASE k \notin Single \cup {"UnionCases"}
    <3>1. vs = <<>>
      BY <2>1 DEF TagEntry
    <3> QED
      BY <1>6, <2>1, <3>1 DEF Values
  <2>2. CASE k \in Single
    <3> HIDE DEF w, m, k, vs
    <3> QED
      BY <1>1, <1>6, <1>9, <2>2 DEF Values
  <2>3. CASE k = "UnionCases"
    <3>1. Values(t) = [n \in 1..m |-> valAt(t, 1 + 4 * n)]
      <4> HIDE DEF w, m, k, vs
      <4> QED
        BY <1>6, <1>7, <1>8, <2>3 DEF Values
    <3>2. vs = [n \in 1..m |-> vs[n]]
      <4> HIDE DEF vs
      <4>1. vs \in Seq(Number)
        BY <1>1
      <4> QED
        BY <4>1
    <3> HIDE DEF w, m, k, vs
    <3> QED
      BY <1>8, <2>3, <3>1, <3>2
  <2> QED
    BY <2>1, <2>2, <2>3
<1> QED
  BY <1>2, <1>3, <1>4, <1>5, <1>6, <1>10, <1>11, <1>12

-----------------------------------------------------------------------------
(* Tags: entries one after the other.                                       *)
Pieces(es) == [k \in DOMAIN es |-> EntryBytes(es[k].kind, es[k].values)]

(* BytesOf puts what Append writes for each entry one after the other.      *)
LEMMA PiecesFacts ==
  ASSUME NEW es \in Seq(TagEntry)
  PROVE  /\ Pieces(es) \in Seq(Seq(Byte)) /\ Len(Pieces(es)) = Len(es)
         /\ \A k \in 1..Len(es) : Pieces(es)[k] = Written(es[k])
         /\ BytesOf(es) = FlattenSeq(Pieces(es)) /\ BytesOf(es) \in Seq(Byte)
<1> DEFINE n == Len(es)
           D == Seq(Byte)
<1>1. n \in Nat /\ DOMAIN es = 1..n /\ \A k \in 1..n : es[k] \in TagEntry
  BY LenProperties
<1>2. \A k \in 1..n : Written(es[k]) \in D
  BY <1>1, EntryBytesFacts
<1>3. Pieces(es) = [k \in 1..n |-> Written(es[k])]
  BY <1>1 DEF Pieces, Written
<1> HIDE DEF n, D
<1>4. Pieces(es) \in Seq(D) /\ Len(Pieces(es)) = n
  BY <1>1, <1>2, <1>3
<1>5. \A k \in 1..n : Pieces(es)[k] = Written(es[k])
  BY <1>3
<1>6. BytesOf(es) = FlattenSeq(Pieces(es))
  BY DEF BytesOf, Pieces
<1> QED
  BY <1>4, <1>5, <1>6, FlattenType DEF n, D

(* No entries, no bytes.                                                    *)
LEMMA BytesEmpty == BytesOf(<<>>) = <<>>
<1>1. Pieces(<<>>) = <<>>
  BY DEF Pieces
<1> QED
  BY <1>1, FlattenEmpty DEF BytesOf, Pieces

(* The bytes of two sequences of entries are those of the whole.            *)
LEMMA BytesConcat ==
  ASSUME NEW a \in Seq(TagEntry), NEW b \in Seq(TagEntry)
  PROVE  BytesOf(a \o b) = BytesOf(a) \o BytesOf(b)
<1> DEFINE D == Seq(Byte)
           pa == Pieces(a)
           pb == Pieces(b)
           pab == Pieces(a \o b)
<1>1. /\ a \o b \in Seq(TagEntry) /\ Len(a \o b) = Len(a) + Len(b)
      /\ Len(a) \in Nat /\ Len(b) \in Nat
      /\ \A q \in 1..(Len(a) + Len(b)) :
           (a \o b)[q] = IF q \leq Len(a) THEN a[q] ELSE b[q - Len(a)]
  BY ConcatProperties, LenProperties
<1>2. /\ pa \in Seq(D) /\ Len(pa) = Len(a) /\ pb \in Seq(D) /\ Len(pb) = Len(b)
      /\ pab \in Seq(D) /\ Len(pab) = Len(a) + Len(b)
      /\ \A q \in 1..Len(a) : pa[q] = Written(a[q])
      /\ \A q \in 1..Len(b) : pb[q] = Written(b[q])
      /\ \A q \in 1..(Len(a) + Len(b)) : pab[q] = Written((a \o b)[q])
      /\ BytesOf(a) = FlattenSeq(pa) /\ BytesOf(b) = FlattenSeq(pb)
      /\ BytesOf(a \o b) = FlattenSeq(pab)
  BY <1>1, PiecesFacts
<1> HIDE DEF pa, pb, pab
<1>3. /\ pa \o pb \in Seq(D) /\ Len(pa \o pb) = Len(a) + Len(b)
      /\ \A q \in 1..(Len(a) + Len(b)) :
           (pa \o pb)[q] = IF q \leq Len(a) THEN pa[q] ELSE pb[q - Len(a)]
  <2> HIDE DEF D
  <2>1. pa \in Seq(D) /\ pb \in Seq(D) /\ Len(pa) = Len(a) /\ Len(pb) = Len(b)
    BY <1>2
  <2>2. /\ pa \o pb \in Seq(D) /\ Len(pa \o pb) = Len(pa) + Len(pb)
        /\ \A q \in 1..(Len(pa) + Len(pb)) :
             (pa \o pb)[q] = IF q \leq Len(pa) THEN pa[q] ELSE pb[q - Len(pa)]
    BY <2>1, ConcatProperties
  <2> QED
    BY <2>1, <2>2
<1>4. \A q \in 1..(Len(a) + Len(b)) : pab[q] = (pa \o pb)[q]
  <2> SUFFICES ASSUME NEW q \in 1..(Len(a) + Len(b)) PROVE pab[q] = (pa \o pb)[q]
    OBVIOUS
  <2>1. CASE q \leq Len(a)
    <3>1. q \in 1..Len(a)
      BY <1>1, <2>1
    <3> QED
      BY <1>1, <1>2, <1>3, <2>1, <3>1
  <2>2. CASE ~(q \leq Len(a))
    <3>1. q - Len(a) \in 1..Len(b)
      BY <1>1, <2>2
    <3> QED
      BY <1>1, <1>2, <1>3, <2>2, <3>1
  <2> QED
    BY <2>1, <2>2
<1>5. pab = pa \o pb
  BY <1>2, <1>3, <1>4, SeqEqual
<1>6. FlattenSeq(pa \o pb) = FlattenSeq(pa) \o FlattenSeq(pb)
  BY <1>2, FlattenConcat
<1> QED
  BY <1>2, <1>5, <1>6

(* One entry has the bytes that Append writes for it.                       *)
LEMMA BytesOne ==
  ASSUME NEW x \in TagEntry
  PROVE  <<x>> \in Seq(TagEntry) /\ BytesOf(<<x>>) = Written(x)
<1>1. Pieces(<<x>>) = <<Written(x)>>
  BY DEF Pieces, Written
<1>2. Written(x) \in Seq(Byte)
  BY EntryBytesFacts
<1>3. BytesOf(<<x>>) = FlattenSeq(Pieces(<<x>>))
  BY DEF BytesOf, Pieces
<1> QED
  BY <1>1, <1>2, <1>3, FlattenOne

(* The first entries of a tag, and the rest.                                *)
First(es, n) == SubSeq(es, 1, n)
After(es, n) == SubSeq(es, n + 1, Len(es))

(* The first n entries and those after them, and how both change with n.    *)
LEMMA PartsFacts ==
  ASSUME NEW S, NEW es \in Seq(S)
  PROVE  /\ Len(es) \in Nat /\ First(es, 0) = <<>> /\ After(es, 0) = es
         /\ First(es, Len(es)) = es /\ After(es, Len(es)) = <<>>
         /\ \A n \in 0..Len(es) : First(es, n) \in Seq(S) /\ After(es, n) \in Seq(S)
         /\ \A n \in 0..Len(es) : Len(First(es, n)) = n /\ \A q \in 1..n : First(es, n)[q] = es[q]
         /\ \A n \in 1..Len(es) : /\ es[n] \in S /\ n \in Nat /\ n - 1 \in 0..Len(es) /\ n \in 0..Len(es)
                                  /\ After(es, n - 1) = <<es[n]>> \o After(es, n)
                                  /\ First(es, n) = First(es, n - 1) \o <<es[n]>>
<1>1. Len(es) \in Nat /\ \A q \in 1..Len(es) : es[q] \in S
  BY LenProperties
<1>2. First(es, 0) = <<>> /\ After(es, Len(es)) = <<>>
  BY <1>1, SubSeqEmpty DEF First, After
<1>3. ASSUME NEW n \in 0..Len(es)
      PROVE  /\ n \in Nat /\ First(es, n) \in Seq(S) /\ Len(First(es, n)) = n
             /\ \A q \in 1..n : First(es, n)[q] = es[q]
             /\ After(es, n) \in Seq(S) /\ Len(After(es, n)) = Len(es) - n
             /\ \A q \in 1..(Len(es) - n) : After(es, n)[q] = es[n + q]
  <2>1. n \in Int /\ 1 \in Int /\ \A q \in 1..n : es[q] \in S
    BY <1>1
  <2>2. /\ SubSeq(es, 1, n) \in Seq(S) /\ Len(SubSeq(es, 1, n)) = IF 1 \leq n THEN n - 1 + 1 ELSE 0
        /\ \A q \in 1..(n - 1 + 1) : SubSeq(es, 1, n)[q] = es[1 + q - 1]
    BY <2>1, SubSeqProperties
  <2>3. n + 1 \in Int /\ Len(es) \in Int /\ \A q \in (n + 1)..Len(es) : es[q] \in S
    BY <1>1
  <2>4. /\ After(es, n) \in Seq(S)
        /\ Len(After(es, n)) = IF n + 1 \leq Len(es) THEN Len(es) - (n + 1) + 1 ELSE 0
        /\ \A q \in 1..(Len(es) - (n + 1) + 1) : After(es, n)[q] = es[(n + 1) + q - 1]
    BY <2>3, SubSeqProperties DEF After
  <2>5. First(es, n) \in Seq(S) /\ Len(First(es, n)) = n /\ n \in Nat
    BY <1>1, <2>2 DEF First
  <2>6. \A q \in 1..n : First(es, n)[q] = es[q]
    <3> SUFFICES ASSUME NEW q \in 1..n PROVE First(es, n)[q] = es[q]
      OBVIOUS
    <3>1. q \in 1..(n - 1 + 1) /\ 1 + q - 1 = q
      OBVIOUS
    <3> QED
      BY <2>2, <3>1 DEF First
  <2>7. \A q \in 1..(Len(es) - n) : After(es, n)[q] = es[n + q]
    <3> SUFFICES ASSUME NEW q \in 1..(Len(es) - n) PROVE After(es, n)[q] = es[n + q]
      OBVIOUS
    <3>1. q \in 1..(Len(es) - (n + 1) + 1) /\ (n + 1) + q - 1 = n + q
      BY <1>1, <2>1
    <3> QED
      BY <2>4, <3>1
  <2>8. Len(After(es, n)) = Len(es) - n
    BY <1>1, <2>4
  <2> QED
    BY <2>4, <2>5, <2>6, <2>7, <2>8
<1>4. First(es, Len(es)) = es /\ After(es, 0) = es
  <2>1. Len(es) \in 0..Len(es) /\ 0 \in 0..Len(es)
    BY <1>1
  <2>2. First(es, Len(es)) = es
    BY <1>3, <2>1, SeqEqual
  <2>3. Len(After(es, 0)) = Len(es) /\ \A q \in 1..Len(es) : After(es, 0)[q] = es[q]
    <3>1. Len(After(es, 0)) = Len(es) - 0 /\ \A q \in 1..(Len(es) - 0) : After(es, 0)[q] = es[0 + q]
      BY <1>3, <2>1
    <3> QED
      BY <1>1, <3>1
  <2>4. After(es, 0) = es
    BY <1>3, <2>1, <2>3, SeqEqual
  <2> QED
    BY <2>2, <2>4
<1>5. ASSUME NEW n \in 1..Len(es)
      PROVE  /\ es[n] \in S /\ n \in Nat /\ n - 1 \in 0..Len(es) /\ n \in 0..Len(es)
             /\ After(es, n - 1) = <<es[n]>> \o After(es, n)
             /\ First(es, n) = First(es, n - 1) \o <<es[n]>>
  <2>1. es[n] \in S /\ n \in Nat /\ n - 1 \in 0..Len(es) /\ n \in 0..Len(es)
    BY <1>1
  <2>2. <<es[n]>> \in Seq(S) /\ Len(<<es[n]>>) = 1 /\ <<es[n]>>[1] = es[n]
    BY <2>1
  <2>3. After(es, n - 1) = <<es[n]>> \o After(es, n)
    <3> DEFINE h == <<es[n]>>
               a == After(es, n)
               b == After(es, n - 1)
    <3>1. /\ a \in Seq(S) /\ Len(a) = Len(es) - n /\ \A q \in 1..(Len(es) - n) : a[q] = es[n + q]
          /\ b \in Seq(S) /\ Len(b) = Len(es) - (n - 1)
          /\ \A q \in 1..(Len(es) - (n - 1)) : b[q] = es[(n - 1) + q]
          /\ h \in Seq(S) /\ Len(h) = 1 /\ h[1] = es[n]
      BY <1>3, <2>1, <2>2
    <3> HIDE DEF h, a, b
    <3>2. /\ h \o a \in Seq(S) /\ Len(h \o a) = Len(h) + Len(a)
          /\ \A q \in 1..(Len(h) + Len(a)) : (h \o a)[q] = IF q \leq Len(h) THEN h[q] ELSE a[q - Len(h)]
      BY <3>1, ConcatProperties
    <3>3. Len(h \o a) = Len(b)
      BY <1>1, <2>1, <3>1, <3>2
    <3>4. \A q \in 1..Len(b) : b[q] = (h \o a)[q]
      <4> SUFFICES ASSUME NEW q \in 1..Len(b) PROVE b[q] = (h \o a)[q]
        OBVIOUS
      <4>1. q \in Nat /\ q \in 1..(Len(es) - (n - 1)) /\ q \in 1..(Len(h) + Len(a))
        BY <1>1, <2>1, <3>1
      <4>2. CASE q = 1
        <5>1. b[q] = es[n]
          BY <2>1, <3>1, <4>1, <4>2
        <5> QED
          BY <3>1, <3>2, <4>1, <4>2, <5>1
      <4>3. CASE q # 1
        <5>1. q - 1 \in 1..(Len(es) - n) /\ (n - 1) + q = n + (q - 1) /\ ~(q \leq 1)
          BY <1>1, <2>1, <4>1, <4>3
        <5>2. b[q] = a[q - 1]
          BY <3>1, <4>1, <5>1
        <5> QED
          BY <3>1, <3>2, <4>1, <5>1, <5>2
      <4> QED
        BY <4>2, <4>3
    <3>5. b = h \o a
      BY <3>1, <3>2, <3>3, <3>4, SeqEqual
    <3> QED
      BY <3>5 DEF h, a, b
  <2>4. First(es, n) = First(es, n - 1) \o <<es[n]>>
    <3> DEFINE h == <<es[n]>>
               a == First(es, n - 1)
               b == First(es, n)
    <3>1. /\ a \in Seq(S) /\ Len(a) = n - 1 /\ \A q \in 1..(n - 1) : a[q] = es[q]
          /\ b \in Seq(S) /\ Len(b) = n /\ \A q \in 1..n : b[q] = es[q]
          /\ h \in Seq(S) /\ Len(h) = 1 /\ h[1] = es[n]
      BY <1>3, <2>1, <2>2
    <3> HIDE DEF h, a, b
    <3>2. /\ a \o h \in Seq(S) /\ Len(a \o h) = Len(a) + Len(h)
          /\ \A q \in 1..(Len(a) + Len(h)) : (a \o h)[q] = IF q \leq Len(a) THEN a[q] ELSE h[q - Len(a)]
      BY <3>1, ConcatProperties
    <3>3. Len(a \o h) = Len(b)
      BY <2>1, <3>1, <3>2
    <3>4. \A q \in 1..Len(b) : b[q] = (a \o h)[q]
      <4> SUFFICES ASSUME NEW q \in 1..Len(b) PROVE b[q] = (a \o h)[q]
        OBVIOUS
      <4>1. q \in Nat /\ q \in 1..n /\ q \in 1..(Len(h) + Len(a))
        BY <2>1, <3>1
      <4>2. CASE q = n
        BY <2>1, <3>1, <3>2, <4>1, <4>2
      <4>3. CASE q # n
        <5>1. q \in 1..(n - 1) /\ q \leq n - 1
          BY <2>1, <4>1, <4>3
        <5> QED
          BY <3>1, <3>2, <4>1, <5>1
      <4> QED
        BY <4>2, <4>3
    <3>5. b = a \o h
      BY <3>1, <3>2, <3>3, <3>4, SeqEqual
    <3> QED
      BY <3>5 DEF h, a, b
  <2> QED
    BY <2>1, <2>3, <2>4
<1> QED
  BY <1>1, <1>2, <1>3, <1>4, <1>5

(* Reading a tag entry by entry.                                            *)
LEMMA StepFacts ==
  ASSUME NEW es \in Seq(TagEntry), NEW n \in 1..Len(es), NEW ct, ct = BytesOf(After(es, n - 1))
  PROVE  /\ ct \in Seq(Byte) /\ ct # <<>> /\ es[n] \in TagEntry
         /\ Kind(ct) = KindByte[es[n].kind] /\ KindNamed(Kind(ct)) = es[n].kind
         /\ Values(ct) = es[n].values /\ NextTag(ct) = BytesOf(After(es, n))
         /\ thisLen(ct) \in Nat \ {0}
         /\ Len(BytesOf(First(es, n))) = Len(BytesOf(First(es, n - 1))) + thisLen(ct)
<1>1. /\ es[n] \in TagEntry /\ After(es, n) \in Seq(TagEntry) /\ First(es, n - 1) \in Seq(TagEntry)
      /\ After(es, n - 1) = <<es[n]>> \o After(es, n)
      /\ First(es, n) = First(es, n - 1) \o <<es[n]>>
  BY PartsFacts, ZenonT(60)
<1>2. <<es[n]>> \in Seq(TagEntry) /\ BytesOf(<<es[n]>>) = Written(es[n])
  BY <1>1, BytesOne
<1>3. /\ ct = Written(es[n]) \o BytesOf(After(es, n))
      /\ BytesOf(First(es, n)) = BytesOf(First(es, n - 1)) \o Written(es[n])
  BY <1>1, <1>2, BytesConcat
<1>4. BytesOf(After(es, n)) \in Seq(Byte) /\ BytesOf(First(es, n - 1)) \in Seq(Byte)
  BY <1>1, PiecesFacts
<1>5. Written(es[n]) \in Seq(Byte)
  BY <1>1, EntryBytesFacts
<1>6. Len(BytesOf(First(es, n))) = Len(BytesOf(First(es, n - 1))) + Len(Written(es[n]))
  BY <1>3, <1>4, <1>5, ConcatProperties
<1> QED
  BY <1>1, <1>3, <1>4, <1>6, EntryRead, ZenonT(60)

(* Every entry has a byte.                                                  *)
LEMMA LengthFacts ==
  ASSUME NEW es \in Seq(TagEntry)
  PROVE  /\ Len(BytesOf(es)) \in Nat /\ Len(es) \leq Len(BytesOf(es))
         /\ \A n \in 0..Len(es) : /\ BytesOf(First(es, n)) \in Seq(Byte)
                                  /\ Len(BytesOf(First(es, n))) \in Nat
<1>1. ASSUME NEW n \in 0..Len(es)
      PROVE  BytesOf(First(es, n)) \in Seq(Byte) /\ Len(BytesOf(First(es, n))) \in Nat
  BY PartsFacts, PiecesFacts, LenProperties
<1> DEFINE S == {n \in Nat : n \leq Len(es) => n \leq Len(BytesOf(First(es, n)))}
<1>2. 0 \in S
  BY <1>1, PartsFacts
<1>3. ASSUME NEW n \in Nat, n \in S PROVE n + 1 \in S
  <2> SUFFICES ASSUME n + 1 \leq Len(es) PROVE n + 1 \leq Len(BytesOf(First(es, n + 1)))
    OBVIOUS
  <2>1. Len(es) \in Nat
    BY PartsFacts
  <2>2. n + 1 \in 1..Len(es) /\ (n + 1) - 1 = n /\ n \in 0..Len(es) /\ n \leq Len(BytesOf(First(es, n)))
    BY <1>3, <2>1
  <2>3. /\ thisLen(BytesOf(After(es, n))) \in Nat \ {0}
        /\ Len(BytesOf(First(es, n + 1)))
             = Len(BytesOf(First(es, n))) + thisLen(BytesOf(After(es, n)))
    BY <2>2, StepFacts
  <2> QED
    BY <1>1, <2>2, <2>3
<1> HIDE DEF S
<1>4. Nat \subseteq S
  BY <1>2, <1>3, InductionOnNat
<1>5. Len(es) \in S /\ First(es, Len(es)) = es /\ Len(es) \in 0..Len(es)
  BY <1>4, PartsFacts
<1> QED
  BY <1>1, <1>5 DEF S

(* The last entry that is not a Noop, among the first n.                    *)
IsLast(es, n, m) ==
  /\ m \in 0..n /\ (m # 0 => es[m].kind # "Noop")
  /\ \A k \in 1..n : k > m => es[k].kind = "Noop"
LastReal(es, n) == CHOOSE m \in 0..n : IsLast(es, n, m)

(* The last entry among the first n that is no Noop, found step by step.    *)
LEMMA LastFacts ==
  ASSUME NEW es, NEW C \in Nat
  PROVE  /\ LastReal(es, 0) = 0
         /\ \A n \in 0..C : IsLast(es, n, LastReal(es, n)) /\ LastReal(es, n) \in 0..n
         /\ \A n \in 1..C : LastReal(es, n) = IF es[n].kind # "Noop" THEN n ELSE LastReal(es, n - 1)
<1>1. ASSUME NEW n \in Nat, NEW m, NEW l, IsLast(es, n, m), IsLast(es, n, l)
      PROVE  m = l
  BY <1>1 DEF IsLast
<1>2. IsLast(es, 0, 0)
  BY DEF IsLast
<1>3. ASSUME NEW n \in Nat, NEW m, IsLast(es, n, m)
      PROVE  IsLast(es, n + 1, IF es[n + 1].kind # "Noop" THEN n + 1 ELSE m)
  <2>1. m \in 0..n /\ (m # 0 => es[m].kind # "Noop") /\ \A k \in 1..n : k > m => es[k].kind = "Noop"
    BY <1>3 DEF IsLast
  <2>2. CASE es[n + 1].kind # "Noop"
    <3>1. n + 1 \in 0..(n + 1) /\ \A k \in 1..(n + 1) : ~(k > n + 1)
      OBVIOUS
    <3> QED
      BY <2>2, <3>1 DEF IsLast
  <2>3. CASE es[n + 1].kind = "Noop"
    <3>1. m \in 0..(n + 1) /\ \A k \in 1..(n + 1) : k = n + 1 \/ k \in 1..n
      BY <2>1
    <3> QED
      BY <2>1, <2>3, <3>1 DEF IsLast
  <2> QED
    BY <2>2, <2>3
<1> DEFINE S == {n \in Nat : \E m : IsLast(es, n, m)}
<1>4. Nat \subseteq S
  <2>1. 0 \in S
    BY <1>2
  <2>2. \A n \in Nat : n \in S => n + 1 \in S
    BY <1>3
  <2> HIDE DEF S
  <2> QED
    BY <2>1, <2>2, InductionOnNat
<1>5. ASSUME NEW n \in Nat PROVE IsLast(es, n, LastReal(es, n)) /\ LastReal(es, n) \in 0..n
  <2>1. PICK m : IsLast(es, n, m)
    BY <1>4
  <2>2. m \in 0..n
    BY <2>1 DEF IsLast
  <2> QED
    BY <2>1, <2>2 DEF LastReal
<1>6. LastReal(es, 0) = 0
  BY <1>1, <1>2, <1>5
<1>7. ASSUME NEW n \in 1..C
      PROVE  LastReal(es, n) = IF es[n].kind # "Noop" THEN n ELSE LastReal(es, n - 1)
  <2>1. n - 1 \in Nat /\ (n - 1) + 1 = n /\ n \in Nat
    OBVIOUS
  <2>2. IsLast(es, n, IF es[n].kind # "Noop" THEN n ELSE LastReal(es, n - 1))
    BY <1>3, <1>5, <2>1
  <2> QED
    BY <1>1, <1>5, <2>1, <2>2
<1> QED
  BY <1>5, <1>6, <1>7

(* The loop of Trimmed.                                                     *)
TrimLoop(t) ==
  CHOOSE loop : loop =
    [n \in 0..Len(t) |->
       IF n = 0 THEN [ct |-> t, e |-> 0, mark |-> 0]
       ELSE LET l == loop[n - 1]
                e == l.e + thisLen(l.ct)
            IN  IF l.ct = <<>> THEN l
                ELSE [ct |-> NextTag(l.ct), e |-> e,
                      mark |-> IF Kind(l.ct) # KindByte.Noop THEN e ELSE l.mark]]

(* Trimmed takes off the Noops at the end, and nothing else.                *)
Trim(es) == First(es, LastReal(es, Len(es)))

(* Trimmed, walking over the bytes, cuts them behind the last entry that is *)
(* no Noop.                                                                 *)
LEMMA TrimFacts ==
  ASSUME NEW es \in Seq(TagEntry)
  PROVE  /\ TrimmedTag(BytesOf(es)) = BytesOf(Trim(es)) /\ Trim(es) \in Seq(TagEntry)
         /\ Len(Trim(es)) \in 0..Len(es) /\ \A k \in 1..Len(Trim(es)) : Trim(es)[k] = es[k]
         /\ Trim(es) # <<>> => Trim(es)[Len(Trim(es))].kind # "Noop"
         /\ \A k \in 1..Len(es) : k > Len(Trim(es)) => es[k].kind = "Noop"
<1> DEFINE t == BytesOf(es)
           C == Len(t)
           N == Len(es)
           Upto(n) == IF n \leq N THEN n ELSE N
           At(n) == [ct |-> BytesOf(After(es, n)), e |-> Len(BytesOf(First(es, n))),
                     mark |-> Len(BytesOf(First(es, LastReal(es, n))))]
           Body(l) ==
             LET e == l.e + thisLen(l.ct)
             IN  IF l.ct = <<>> THEN l
                 ELSE [ct |-> NextTag(l.ct), e |-> e,
                       mark |-> IF Kind(l.ct) # KindByte.Noop THEN e ELSE l.mark]
           Round(f) == [n \in 0..C |-> IF n = 0 THEN [ct |-> t, e |-> 0, mark |-> 0] ELSE Body(f[n - 1])]
           w == [n \in 0..C |-> At(Upto(n))]
           f == TrimLoop(t)
<1>1. C \in Nat /\ N \in Nat /\ N \leq C
  BY LengthFacts, PartsFacts
<1>2. /\ LastReal(es, 0) = 0
      /\ \A n \in 0..N : IsLast(es, n, LastReal(es, n)) /\ LastReal(es, n) \in 0..n
      /\ \A n \in 1..N : LastReal(es, n) = IF es[n].kind # "Noop" THEN n ELSE LastReal(es, n - 1)
  BY <1>1, LastFacts
<1>3. At(0) = [ct |-> t, e |-> 0, mark |-> 0]
  <2>1. BytesOf(First(es, 0)) = <<>> /\ After(es, 0) = es /\ Len(<<>>) = 0
    BY PartsFacts, BytesEmpty
  <2> QED
    BY <1>2, <2>1
<1>4. At(N).ct = <<>> /\ Body(At(N)) = At(N)
  BY PartsFacts, BytesEmpty
<1>5. ASSUME NEW n \in 1..N PROVE At(n) = Body(At(n - 1))
  <2> DEFINE ct == BytesOf(After(es, n - 1))
             l == At(n - 1)
  <2>1. /\ ct # <<>> /\ Kind(ct) = KindByte[es[n].kind] /\ es[n] \in TagEntry
        /\ NextTag(ct) = BytesOf(After(es, n))
        /\ Len(BytesOf(First(es, n))) = Len(BytesOf(First(es, n - 1))) + thisLen(ct)
    BY StepFacts
  <2>2. Kind(ct) # KindByte.Noop <=> es[n].kind # "Noop"
    BY <2>1, KindFacts DEF TagEntry
  <2>3. LastReal(es, n) = IF es[n].kind # "Noop" THEN n ELSE LastReal(es, n - 1)
    BY <1>2
  <2>4. l.ct = ct /\ l.e = Len(BytesOf(First(es, n - 1)))
        /\ l.mark = Len(BytesOf(First(es, LastReal(es, n - 1))))
    OBVIOUS
  <2>5. Body(l) = [ct |-> NextTag(ct), e |-> l.e + thisLen(ct),
                   mark |-> IF Kind(ct) # KindByte.Noop THEN l.e + thisLen(ct) ELSE l.mark]
    <3> HIDE DEF l, ct
    <3> QED
      BY <2>1, <2>4
  <2>6. l.e + thisLen(ct) = Len(BytesOf(First(es, n)))
    BY <2>1, <2>4
  <2>7. (IF Kind(ct) # KindByte.Noop THEN l.e + thisLen(ct) ELSE l.mark)
          = Len(BytesOf(First(es, LastReal(es, n))))
    <3> HIDE DEF l, ct
    <3> QED
      BY <2>2, <2>3, <2>4, <2>6
  <2> HIDE DEF l, ct, Body
  <2> QED
    BY <2>1, <2>5, <2>6, <2>7 DEF l
<1>6. w = Round(w)
  <2>1. ASSUME NEW n \in 0..C
        PROVE  w[n] = IF n = 0 THEN [ct |-> t, e |-> 0, mark |-> 0] ELSE Body(w[n - 1])
    <3> HIDE DEF At, Body, t, C, N
    <3>1. w[n] = At(Upto(n)) /\ (n # 0 => w[n - 1] = At(Upto(n - 1)))
      BY <1>1
    <3>2. CASE n = 0
      BY <1>1, <1>3, <3>1, <3>2
    <3>3. CASE n # 0 /\ n \leq N
      <4>1. n \in 1..N /\ Upto(n) = n /\ Upto(n - 1) = n - 1
        BY <1>1, <3>3
      <4> HIDE DEF Upto, w
      <4> QED
        BY <1>5, <3>1, <3>3, <4>1
    <3>4. CASE n # 0 /\ ~(n \leq N)
      <4>1. Upto(n) = N /\ Upto(n - 1) = N
        BY <1>1, <3>4
      <4> HIDE DEF Upto, w
      <4> QED
        BY <1>4, <3>1, <3>4, <4>1
    <3> QED
      BY <3>2, <3>3, <3>4
  <2> HIDE DEF At, Body, t, Upto
  <2> QED
    BY <2>1
<1>7. f = Round(f)
  <2>1. \E g : g = Round(g)
    BY <1>6
  <2>2. f = CHOOSE g : g = Round(g)
    BY DEF TrimLoop
  <2> HIDE DEF Round, f
  <2> QED
    BY <2>1, <2>2
<1>8. f[0] = w[0] /\ \A n \in 1..C : f[n] = Body(f[n - 1]) /\ w[n] = Body(w[n - 1])
  <2> HIDE DEF Body, t, f, w
  <2>1. \A g : g = Round(g) => /\ g[0] = [ct |-> t, e |-> 0, mark |-> 0]
                               /\ \A n \in 1..C : g[n] = Body(g[n - 1])
    BY <1>1
  <2> QED
    BY <1>6, <1>7, <2>1
<1> DEFINE S == {n \in Nat : n \leq C => f[n] = w[n]}
<1> HIDE DEF Body, t, C, f, w, Round
<1>9. 0 \in S
  BY <1>8
<1>10. ASSUME NEW n \in Nat, n \in S PROVE n + 1 \in S
  <2> SUFFICES ASSUME n + 1 \leq C PROVE f[n + 1] = w[n + 1]
    OBVIOUS
  <2>1. n + 1 \in 1..C /\ (n + 1) - 1 = n /\ f[n] = w[n]
    BY <1>1, <1>10
  <2> QED
    BY <1>8, <2>1
<1>11. Nat \subseteq S
  <2> HIDE DEF S
  <2> QED
    BY <1>9, <1>10, InductionOnNat
<1>12. f[C] = w[C] /\ w[C] = At(N)
  <2>1. f[C] = w[C]
    BY <1>1, <1>11
  <2>2. Upto(C) = N /\ C \in 0..C
    BY <1>1
  <2> QED
    BY <2>1, <2>2 DEF w
<1>13. TrimmedTag(t) = SubSeq(t, 1, f[C].mark)
  BY DEF TrimmedTag, TrimLoop, f, C
<1> DEFINE m == LastReal(es, N)
<1>14. N \in 0..N /\ m \in 0..N /\ IsLast(es, N, m) /\ f[C].mark = Len(BytesOf(First(es, m)))
  BY <1>1, <1>2, <1>12
<1> HIDE DEF m
<1>15. /\ First(es, m) \in Seq(TagEntry) /\ Len(First(es, m)) = m
       /\ \A k \in 1..m : First(es, m)[k] = es[k]
  BY <1>14, PartsFacts
<1>16. SubSeq(t, 1, Len(BytesOf(First(es, m)))) = BytesOf(First(es, m))
  <2>1. es = First(es, m) \o After(es, m) /\ After(es, m) \in Seq(TagEntry)
    BY <1>14, SplitAt DEF First, After
  <2>2. t = BytesOf(First(es, m)) \o BytesOf(After(es, m))
    BY <1>15, <2>1, BytesConcat DEF t
  <2>3. BytesOf(First(es, m)) \in Seq(Byte) /\ BytesOf(After(es, m)) \in Seq(Byte)
    BY <1>15, <2>1, PiecesFacts
  <2> QED
    BY <2>2, <2>3, PrefixFacts DEF IsPrefix
<1>17. TrimmedTag(t) = BytesOf(First(es, m)) /\ Trim(es) = First(es, m)
  BY <1>13, <1>14, <1>16 DEF Trim, m
<1>18. /\ m # 0 => es[m].kind # "Noop"
       /\ \A k \in 1..N : k > m => es[k].kind = "Noop"
  BY <1>14 DEF IsLast
<1>19. First(es, m) # <<>> => First(es, m)[m].kind # "Noop"
  <2> SUFFICES ASSUME First(es, m) # <<>> PROVE First(es, m)[m].kind # "Noop"
    OBVIOUS
  <2>1. m # 0
    BY <1>15, EmptySeq
  <2>2. m \in 1..m
    BY <1>14, <2>1
  <2> QED
    BY <1>15, <1>18, <2>1, <2>2
<1> QED
  BY <1>14, <1>15, <1>17, <1>18, <1>19 DEF t

(* Kind, Values and Next read back the entries that Append wrote.           *)
ReadLoop(t) ==
  CHOOSE loop : loop =
    [n \in 0..Len(t) |->
       IF n = 0 THEN [ct |-> t, found |-> <<>>]
       ELSE LET l == loop[n - 1]
            IN  IF l.ct = <<>> THEN l
                ELSE [ct |-> NextTag(l.ct),
                      found |-> Append(l.found, [kind |-> KindNamed(Kind(l.ct)),
                                                 values |-> Values(l.ct)])]]

(* Whatever entries were written are read back, whatever they are: no entry *)
(* is taken for another, or ends early or late.                             *)
LEMMA EntriesFacts ==
  ASSUME NEW es \in Seq(TagEntry)
  PROVE  Entries(BytesOf(es)) = es
<1> DEFINE t == BytesOf(es)
           C == Len(t)
           N == Len(es)
           Upto(n) == IF n \leq N THEN n ELSE N
           At(n) == [ct |-> BytesOf(After(es, n)), found |-> First(es, n)]
           Body(l) ==
             IF l.ct = <<>> THEN l
             ELSE [ct |-> NextTag(l.ct),
                   found |-> Append(l.found, [kind |-> KindNamed(Kind(l.ct)),
                                              values |-> Values(l.ct)])]
           Round(f) == [n \in 0..C |-> IF n = 0 THEN [ct |-> t, found |-> <<>>] ELSE Body(f[n - 1])]
           w == [n \in 0..C |-> At(Upto(n))]
           f == ReadLoop(t)
<1>1. C \in Nat /\ N \in Nat /\ N \leq C
  BY LengthFacts, PartsFacts
<1>2. At(0) = [ct |-> t, found |-> <<>>]
  BY PartsFacts
<1>3. At(N).ct = <<>> /\ Body(At(N)) = At(N)
  BY PartsFacts, BytesEmpty
<1>4. ASSUME NEW n \in 1..N PROVE At(n) = Body(At(n - 1))
  <2> DEFINE ct == BytesOf(After(es, n - 1))
             l == At(n - 1)
  <2>1. /\ ct # <<>> /\ KindNamed(Kind(ct)) = es[n].kind /\ es[n] \in TagEntry
        /\ Values(ct) = es[n].values /\ NextTag(ct) = BytesOf(After(es, n))
    BY StepFacts
  <2>2. [kind |-> es[n].kind, values |-> es[n].values] = es[n]
    BY <2>1 DEF TagEntry
  <2>3. First(es, n) = First(es, n - 1) \o <<es[n]>> /\ First(es, n - 1) \in Seq(TagEntry)
    BY PartsFacts, SMTT(30)
  <2>4. Append(First(es, n - 1), es[n]) = First(es, n)
    BY <2>1, <2>3, AppendIsConcat
  <2>5. l.ct = ct /\ l.found = First(es, n - 1)
    OBVIOUS
  <2>6. Body(l) = [ct |-> NextTag(ct), found |-> Append(First(es, n - 1), es[n])]
    <3> HIDE DEF l, ct
    <3> QED
      BY <2>1, <2>2, <2>5
  <2> HIDE DEF l, ct, Body
  <2> QED
    BY <2>1, <2>4, <2>6 DEF l
<1>5. w = Round(w)
  <2>1. ASSUME NEW n \in 0..C
        PROVE  w[n] = IF n = 0 THEN [ct |-> t, found |-> <<>>] ELSE Body(w[n - 1])
    <3> HIDE DEF At, Body, t, C, N
    <3>1. w[n] = At(Upto(n)) /\ (n # 0 => w[n - 1] = At(Upto(n - 1)))
      BY <1>1
    <3>2. CASE n = 0
      BY <1>1, <1>2, <3>1, <3>2
    <3>3. CASE n # 0 /\ n \leq N
      <4>1. n \in 1..N /\ Upto(n) = n /\ Upto(n - 1) = n - 1
        BY <1>1, <3>3
      <4> HIDE DEF Upto, w
      <4> QED
        BY <1>4, <3>1, <3>3, <4>1
    <3>4. CASE n # 0 /\ ~(n \leq N)
      <4>1. Upto(n) = N /\ Upto(n - 1) = N
        BY <1>1, <3>4
      <4> HIDE DEF Upto, w
      <4> QED
        BY <1>3, <3>1, <3>4, <4>1
    <3> QED
      BY <3>2, <3>3, <3>4
  <2> HIDE DEF At, Body, t, Upto
  <2> QED
    BY <2>1
<1>6. f = Round(f)
  <2>1. \E g : g = Round(g)
    BY <1>5
  <2>2. f = CHOOSE g : g = Round(g)
    BY DEF ReadLoop
  <2> HIDE DEF Round, f
  <2> QED
    BY <2>1, <2>2
<1>7. f[0] = w[0] /\ \A n \in 1..C : f[n] = Body(f[n - 1]) /\ w[n] = Body(w[n - 1])
  <2> HIDE DEF Body, t, f, w
  <2>1. \A g : g = Round(g) => /\ g[0] = [ct |-> t, found |-> <<>>]
                               /\ \A n \in 1..C : g[n] = Body(g[n - 1])
    BY <1>1, SMTT(30)
  <2> QED
    BY <1>5, <1>6, <2>1
<1> DEFINE S == {n \in Nat : n \leq C => f[n] = w[n]}
<1> HIDE DEF Body, t, C, f, w, Round
<1>8. 0 \in S
  BY <1>7
<1>9. ASSUME NEW n \in Nat, n \in S PROVE n + 1 \in S
  <2> SUFFICES ASSUME n + 1 \leq C PROVE f[n + 1] = w[n + 1]
    OBVIOUS
  <2>1. n + 1 \in 1..C /\ (n + 1) - 1 = n /\ f[n] = w[n]
    BY <1>1, <1>9
  <2> QED
    BY <1>7, <2>1
<1>10. Nat \subseteq S
  <2> HIDE DEF S
  <2> QED
    BY <1>8, <1>9, InductionOnNat
<1>11. f[C] = At(N)
  <2>1. f[C] = w[C]
    BY <1>1, <1>10
  <2>2. Upto(C) = N /\ C \in 0..C
    BY <1>1
  <2> QED
    BY <2>1, <2>2 DEF w
<1>12. Entries(t) = f[C].found
  BY DEF Entries, ReadLoop, f, C
<1>13. f[C].found = First(es, N)
  BY <1>11
<1> QED
  BY <1>12, <1>13, PartsFacts DEF t

(* TypeCodecs takes off the same Noops from entries.                        *)
LEMMA TrimmedEntries ==
  ASSUME NEW es \in Seq(TagEntry)
  PROVE  Codecs!Trimmed(es) = Trim(es)
<1> DEFINE m == LastReal(es, Len(es))
           R == {q \in DOMAIN es : \E j \in q..Len(es) : es[j].kind # "Noop"}
<1>1. Len(es) \in Nat /\ DOMAIN es = 1..Len(es)
  BY LenProperties
<1>2. m \in 0..Len(es) /\ IsLast(es, Len(es), m)
  BY <1>1, LastFacts
<1> HIDE DEF m
<1>3. m # 0 => es[m].kind # "Noop"
  BY <1>2 DEF IsLast
<1>4. \A k \in 1..Len(es) : k > m => es[k].kind = "Noop"
  BY <1>2 DEF IsLast
<1>5. R = 1..m
  <2>1. ASSUME NEW q \in R PROVE q \in 1..m
    <3>1. PICK j \in q..Len(es) : es[j].kind # "Noop"
      OBVIOUS
    <3>2. q \in 1..Len(es) /\ j \in 1..Len(es)
      BY <1>1
    <3>3. ~(j > m)
      BY <1>4, <3>1, <3>2
    <3> QED
      BY <1>1, <1>2, <3>1, <3>2, <3>3
  <2>2. ASSUME NEW q \in 1..m PROVE q \in R
    <3>1. q \in DOMAIN es /\ m \in q..Len(es) /\ m # 0
      BY <1>1, <1>2
    <3> QED
      BY <1>3, <3>1
  <2> HIDE DEF R
  <2> QED
    BY <2>1, <2>2
<1>6. Cardinality(R) = m
  <2>1. 1 \in Int /\ m \in Int /\ m \in Nat
    BY <1>2
  <2>2. Cardinality(1..m) = IF 1 > m THEN 0 ELSE m - 1 + 1
    BY <2>1, FS_Interval
  <2>3. Cardinality(1..m) = m
    BY <2>1, <2>2
  <2> QED
    BY <1>5, <2>3
<1>7. Codecs!Trimmed(es) = SubSeq(es, 1, Cardinality(R))
  BY Zenon DEF Codecs!Trimmed, Codecs!Cardinality, Cardinality
<1> QED
  BY <1>6, <1>7 DEF Trim, First, m

-----------------------------------------------------------------------------
(* ParseTag.  First the layers of a type.                                   *)
Types == DOMAIN TypeDef
IsPart(p) == /\ AreWords(p.values) /\ Len(p.values) \leq 1
             /\ p.name \notin {"len", "maxlen"} => p.values = <<>>
AreParts(parts) == parts \in Seq(Range(parts)) /\ \A p \in Range(parts) : IsPart(p)

(* Going down one layer ends at a type.                                     *)
LEMMA ElemFacts == ASSUME NEW t \in Types, Descends(t) PROVE TypeDef[t].elem \in Types
BY StructAssumption DEF Types, Descends, KindOf, TypesWithElements

(* The layers of a type, each the element of the one above.                 *)
LEMMA LayersFacts ==
  ASSUME NEW t \in Types, NEW n \in Nat
  PROVE  /\ \A k \in 1..n : LayersOf(t, n)[k] \in Types \cup {"none"}
         /\ n # 0 => LayersOf(t, n)[1] = t
         /\ \A k \in 1..(n - 1) :
              LayersOf(t, n)[k + 1] =
                IF LayersOf(t, n)[k] # "none" /\ Descends(LayersOf(t, n)[k])
                THEN TypeDef[LayersOf(t, n)[k]].elem ELSE "none"
<1> DEFINE D == Types \cup {"none"}
           Below(x) == IF x # "none" /\ Descends(x) THEN TypeDef[x].elem ELSE "none"
           G == [x \in Nat \X D |-> IF x[1] = 1 THEN t ELSE Below(x[2])]
           Round(f) == [k \in 1..n |-> IF k = 1 THEN t ELSE Below(f[k - 1])]
           L == LayersOf(t, n)
<1>1. \A x \in D : Below(x) \in D
  BY ElemFacts
<1>2. "none" \in D /\ t \in D
  OBVIOUS
<1>3. \E g : g = Round(g)
  <2> HIDE DEF Below, D
  <2>1. G \in [Nat \X D -> D]
    BY <1>1, <1>2
  <2>2. PICK out \in [0..n -> D] : \A k \in 1..n : out[k] = G[<<k, out[k - 1]>>]
    <3> HIDE DEF G
    <3>1. Iterations(D, "none", G, n) # {}
      BY <1>2, <2>1, IterateExists, Zenon
    <3> QED
      BY <3>1 DEF Iterations
  <2> DEFINE g == [k \in 1..n |-> out[k]]
  <2>3. ASSUME NEW k \in 1..n PROVE g[k] = IF k = 1 THEN t ELSE Below(g[k - 1])
    <3>1. k \in Nat /\ k - 1 \in 0..n /\ k \in 0..n
      OBVIOUS
    <3>2. out[k - 1] \in D /\ g[k] = out[k]
      BY <2>2, <3>1
    <3>3. <<k, out[k - 1]>> \in Nat \X D
      BY <3>1, <3>2
    <3>4. out[k] = IF k = 1 THEN t ELSE Below(out[k - 1])
      BY <2>2, <3>3
    <3>5. k # 1 => g[k - 1] = out[k - 1]
      BY <3>1
    <3> HIDE DEF g
    <3> QED
      BY <3>2, <3>4, <3>5
  <2>4. g = [k \in 1..n |-> g[k]]
    OBVIOUS
  <2>5. g = Round(g)
    <3> HIDE DEF g
    <3> QED
      BY <2>3, <2>4
  <2> HIDE DEF g, Round
  <2> QED
    BY <2>5
<1>4. L = Round(L)
  <2>1. L = CHOOSE g : g = Round(g)
    BY DEF LayersOf
  <2> HIDE DEF Round, L
  <2> QED
    BY <1>3, <2>1
<1> HIDE DEF L, Below, D
<1>5. \A k \in 1..n : L[k] = IF k = 1 THEN t ELSE Below(L[k - 1])
  <2>1. \A g : g = Round(g) => \A k \in 1..n : g[k] = IF k = 1 THEN t ELSE Below(g[k - 1])
    OBVIOUS
  <2> QED
    BY <1>4, <2>1
<1> DEFINE S == {k \in Nat : k \in 1..n => L[k] \in D}
<1>6. Nat \subseteq S
  <2>1. 0 \in S
    OBVIOUS
  <2>2. ASSUME NEW k \in Nat, k \in S PROVE k + 1 \in S
    <3> SUFFICES ASSUME k + 1 \in 1..n PROVE L[k + 1] \in D
      OBVIOUS
    <3>1. L[k + 1] = IF k + 1 = 1 THEN t ELSE Below(L[(k + 1) - 1])
      BY <1>5
    <3>2. CASE k = 0
      BY <1>2, <3>1, <3>2
    <3>3. CASE k # 0
      <4>1. k \in 1..n /\ (k + 1) - 1 = k /\ k + 1 # 1
        BY <3>3
      <4>2. L[k] \in D
        BY <2>2, <4>1
      <4>3. L[k + 1] = Below(L[k])
        BY <3>1, <4>1
      <4> QED
        BY <1>1, <4>2, <4>3
    <3> QED
      BY <3>2, <3>3
  <2> HIDE DEF S
  <2> QED
    BY <2>1, <2>2, InductionOnNat
<1>7. \A k \in 1..n : L[k] \in D
  BY <1>6
<1>8. ASSUME NEW k \in 1..(n - 1) PROVE L[k + 1] = Below(L[k])
  <2>1. k + 1 \in 1..n /\ k + 1 # 1 /\ (k + 1) - 1 = k
    OBVIOUS
  <2> QED
    BY <1>5, <2>1
<1>9. n # 0 => L[1] = t
  BY <1>5
<1> QED
  BY <1>7, <1>8, <1>9 DEF L, D, Below

(* One part of a tag.                                                       *)
PartKinds == {"Noop", "Opt", "Opaque", "Len", "MaxLen"}
Shortened(t, p) == p.name = "opaque" /\ KindOf(t) \in {"array", "slice"}
Noop == Codecs!Entry("Noop")
OptionOf(t, p) == IF Shortened(t, p) THEN <<Noop, PartEntry(p)>> ELSE <<PartEntry(p)>>

(* A Noop is the entry of a part that says nothing.                         *)
LEMMA NoopFacts ==
  Noop \in TagEntry /\ Noop.kind = "Noop" /\ \A values : EntryBytes("Noop", values) = Written(Noop)
<1>1. Noop = [kind |-> "Noop", values |-> <<>>]
  BY DEF Noop, Codecs!Entry
<1>2. "Noop" \in KindNames /\ "Noop" \notin Single \cup {"UnionCases"} /\ Valueless(KindByte["Noop"])
  BY KindFacts DEF Single
<1>3. <<>> \in Seq(Number) /\ Len(<<>>) = 0 /\ IsWord(0)
  BY WordsAreNumbers
<1> QED
  BY <1>1, <1>2, <1>3 DEF TagEntry, Written, EntryBytes

(* The entry for an option with a name and perhaps a number.                *)
LEMMA OptionFacts ==
  ASSUME NEW nm \in {"opt", "opaque", "len", "maxlen"}, NEW vs, AreWords(vs), Len(vs) \leq 1,
         nm \notin {"len", "maxlen"} => vs = <<>>, nm \in {"len", "maxlen"} => vs # <<>>
  PROVE  /\ [kind |-> PartKind[nm], values |-> vs] \in TagEntry
         /\ PartKind[nm] \in PartKinds \ {"Noop"}
         /\ EntryBytes(PartKind[nm], vs) = Written([kind |-> PartKind[nm], values |-> vs])
<1> DEFINE k == PartKind[nm]
<1>1. /\ vs \in Seq(Range(vs)) /\ IsWord(Len(vs)) /\ \A v \in Range(vs) : v \in Number
  BY WordsAreNumbers DEF AreWords
<1>2. vs \in Seq(Number) /\ Len(vs) \in Nat
  <2> DEFINE n == Len(vs)
  <2>1. n \in Nat /\ vs \in [1..n -> Range(vs)]
    BY <1>1, LenProperties
  <2>2. vs \in [1..n -> Number]
    BY <1>1, <2>1
  <2> HIDE DEF n
  <2>3. vs \in Seq(Number)
    BY <2>1, <2>2
  <2> QED
    BY <2>1, <2>3 DEF n
<1>3. nm \in {"len", "maxlen"} => Len(vs) = 1
  <2> SUFFICES ASSUME nm \in {"len", "maxlen"} PROVE Len(vs) = 1
    OBVIOUS
  <2> DEFINE n == Len(vs)
  <2>1. n # 0
    BY <1>1, EmptySeq
  <2>2. n \in Nat /\ n \leq 1
    BY <1>2
  <2> HIDE DEF n
  <2>3. n = 1
    BY <2>1, <2>2
  <2> QED
    BY <2>3 DEF n
<1>4. /\ k \in PartKinds \ {"Noop"} /\ k # "UnionCases"
      /\ k \in Single <=> nm \in {"len", "maxlen"}
  BY DEF PartKind, PartKinds, Single
<1>5. k \in KindNames
  BY <1>4, KindFacts DEF PartKinds
<1> HIDE DEF k
<1>6. [kind |-> k, values |-> vs] \in TagEntry
  <2>1. k \in Single => Len(vs) = 1
    BY <1>3, <1>4
  <2>2. k \notin Single \cup {"UnionCases"} => vs = <<>>
    BY <1>4
  <2> QED
    BY <1>1, <1>2, <1>5, <2>1, <2>2 DEF TagEntry
<1>7. EntryBytes(k, vs) = Written([kind |-> k, values |-> vs])
  BY DEF Written
<1> QED
  BY <1>4, <1>6, <1>7 DEF k

(* The kind of an entry, as a fact to cite.                                 *)
LEMMA KindOfEntry == \A x, y : [kind |-> x, values |-> y].kind = x
OBVIOUS

(* The entry of a part, and what Append writes for it.                      *)
LEMMA PartFacts ==
  ASSUME NEW p, IsPart(p), p.name \in {"", "opt", "opaque"} \/ (p.name \in {"len", "maxlen"} /\ p.values # <<>>)
  PROVE  /\ PartEntry(p) \in TagEntry /\ PartEntry(p).kind \in PartKinds
         /\ PartEntry(p).kind = "Noop" <=> p.name = ""
         /\ p.name = "" => PartEntry(p) = Noop
         /\ p.name # "" => EntryBytes(PartKind[p.name], p.values) = Written(PartEntry(p))
<1>1. CASE p.name = ""
  <2>1. PartEntry(p) = Noop
    BY <1>1 DEF PartEntry, Noop
  <2> QED
    BY <1>1, <2>1, NoopFacts DEF PartKinds
<1>2. CASE p.name # ""
  <2>1. PartEntry(p) = [kind |-> PartKind[p.name], values |-> p.values]
    BY <1>2 DEF PartEntry, Codecs!EntryWith
  <2>2. /\ [kind |-> PartKind[p.name], values |-> p.values] \in TagEntry
        /\ PartKind[p.name] \in PartKinds \ {"Noop"}
        /\ EntryBytes(PartKind[p.name], p.values)
             = Written([kind |-> PartKind[p.name], values |-> p.values])
    BY <1>2, OptionFacts DEF IsPart
  <2>3. PartEntry(p).kind = PartKind[p.name]
    BY <2>1, KindOfEntry, Zenon
  <2> QED
    BY <1>2, <2>1, <2>2, <2>3
<1> QED
  BY <1>1, <1>2

(* Two entries one after the other.                                         *)
LEMMA PairFacts ==
  ASSUME NEW S, NEW x \in S, NEW y \in S
  PROVE  <<x>> \o <<y>> = <<x, y>>
<1> DEFINE a == <<x>>
           b == <<y>>
           c == <<x, y>>
<1>1. /\ a \in Seq(S) /\ Len(a) = 1 /\ a[1] = x /\ b \in Seq(S) /\ Len(b) = 1 /\ b[1] = y
      /\ c \in Seq(S) /\ Len(c) = 2 /\ c[1] = x /\ c[2] = y
  OBVIOUS
<1> HIDE DEF a, b, c
<1>2. /\ a \o b \in Seq(S) /\ Len(a \o b) = Len(a) + Len(b)
      /\ \A q \in 1..(Len(a) + Len(b)) : (a \o b)[q] = IF q \leq Len(a) THEN a[q] ELSE b[q - Len(a)]
  BY <1>1, ConcatProperties
<1>3. Len(a \o b) = Len(c) /\ \A q \in 1..Len(c) : (a \o b)[q] = c[q]
  BY <1>1, <1>2
<1>4. a \o b = c
  BY <1>1, <1>2, <1>3, SeqEqual
<1> QED
  BY <1>4 DEF a, b, c

(* A legal part adds the bytes of its option to the tag, with a Noop before *)
(* it where `opaque` on an array or a slice is about its elements.          *)
LEMMA AppendFacts ==
  ASSUME NEW t \in Types, NEW p, IsPart(p), PartLegal(t, p), NEW xt \in Seq(Byte)
  PROVE  /\ LayerOf(t, p) \in Types /\ PartEntry(p) \in TagEntry
         /\ OptionOf(t, p) \in Seq(TagEntry)
         /\ AppendPart(xt, t, p) = xt \o BytesOf(OptionOf(t, p))
         /\ AppendPart(xt, t, p) \in Seq(Byte)
<1>1. p.name \in {"", "opt", "opaque"} \/ (p.name \in {"len", "maxlen"} /\ p.values # <<>>)
  BY DEF PartLegal
<1>2. /\ PartEntry(p) \in TagEntry
      /\ p.name = "" => PartEntry(p) = Noop
      /\ p.name # "" => EntryBytes(PartKind[p.name], p.values) = Written(PartEntry(p))
  BY <1>1, PartFacts
<1>3. KindOf(t) \in {"array", "slice"} => TypeDef[t].elem \in Types
  BY ElemFacts DEF Descends
<1>4. LayerOf(t, p) \in Types
  BY <1>3 DEF LayerOf
<1>5. /\ BytesOf(<<PartEntry(p)>>) = Written(PartEntry(p)) /\ BytesOf(<<Noop>>) = Written(Noop)
      /\ <<PartEntry(p)>> \in Seq(TagEntry) /\ <<Noop>> \in Seq(TagEntry)
      /\ Written(PartEntry(p)) \in Seq(Byte) /\ Written(Noop) \in Seq(Byte)
  BY <1>2, BytesOne, NoopFacts, EntryBytesFacts
<1>6. CASE Shortened(t, p)
  <2>1. IsByte(LayerOf(t, p)) /\ KindOf(t) \in {"array", "slice"} /\ p.name = "opaque"
    BY <1>6 DEF Shortened, PartLegal
  <2>2. LayerOf(t, p) # t
    BY <2>1 DEF IsByte
  <2>3. AppendPart(xt, t, p) = (xt \o Written(Noop)) \o Written(PartEntry(p))
    <3>1. EntryBytes("Noop", <<>>) = Written(Noop)
      BY NoopFacts
    <3> QED
      BY <1>2, <2>1, <2>2, <3>1 DEF AppendPart, AppendTag
  <2>4. OptionOf(t, p) = <<Noop>> \o <<PartEntry(p)>> /\ OptionOf(t, p) \in Seq(TagEntry)
    <3>1. OptionOf(t, p) = <<Noop, PartEntry(p)>>
      BY <1>6 DEF OptionOf
    <3> DEFINE x == PartEntry(p)
    <3>2. Noop \in TagEntry /\ x \in TagEntry
      BY <1>2, NoopFacts
    <3> HIDE DEF x
    <3>3. <<Noop>> \o <<x>> = <<Noop, x>>
      BY <3>2, PairFacts
    <3>4. <<Noop, x>> \in Seq(TagEntry)
      BY <3>2
    <3> QED
      BY <3>1, <3>3, <3>4 DEF x
  <2>5. BytesOf(OptionOf(t, p)) = Written(Noop) \o Written(PartEntry(p))
    BY <1>5, <2>4, BytesConcat
  <2>6. (xt \o Written(Noop)) \o Written(PartEntry(p)) = xt \o (Written(Noop) \o Written(PartEntry(p)))
    BY <1>5, ConcatRegroup
  <2>7. xt \o (Written(Noop) \o Written(PartEntry(p))) \in Seq(Byte)
    BY <1>5, ConcatProperties
  <2> QED
    BY <1>2, <1>4, <2>3, <2>4, <2>5, <2>6, <2>7
<1>7. CASE ~Shortened(t, p)
  <2>1. LayerOf(t, p) = t
    BY <1>7 DEF Shortened, LayerOf
  <2>2. AppendPart(xt, t, p) = xt \o Written(PartEntry(p))
    <3>1. EntryBytes("Noop", <<>>) = Written(Noop)
      BY NoopFacts
    <3> QED
      BY <1>2, <2>1, <3>1 DEF AppendPart, AppendTag
  <2>3. OptionOf(t, p) = <<PartEntry(p)>>
    BY <1>7 DEF OptionOf
  <2>4. xt \o Written(PartEntry(p)) \in Seq(Byte)
    BY <1>5, ConcatProperties
  <2> QED
    BY <1>2, <1>4, <1>5, <2>2, <2>3, <2>4
<1> QED
  BY <1>6, <1>7

(* The loop over the parts, as a function, and what it holds.               *)
PartsLoop(t, xt, parts) ==
  CHOOSE after : after = [k \in 0..Len(parts) |->
    IF k = 0 THEN [ok |-> TRUE, tag |-> xt, t |-> t]
    ELSE LET b == after[k - 1]
             layer == LayerOf(b.t, parts[k])
         IN  IF b.ok /\ PartLegal(b.t, parts[k]) /\ (k < Len(parts) => Descends(layer))
             THEN [ok |-> TRUE, tag |-> AppendPart(b.tag, b.t, parts[k]),
                   t |-> IF k < Len(parts) THEN TypeDef[layer].elem ELSE layer]
             ELSE [b EXCEPT !.ok = FALSE]]
PartsState == [ok : BOOLEAN, tag : Seq(Byte), t : Types]
PartGoes(b, p, more) == b.ok /\ PartLegal(b.t, p) /\ (more => Descends(LayerOf(b.t, p)))
PartStep(b, p, more) ==
  IF PartGoes(b, p, more)
  THEN [ok |-> TRUE, tag |-> AppendPart(b.tag, b.t, p),
        t |-> IF more THEN TypeDef[LayerOf(b.t, p)].elem ELSE LayerOf(b.t, p)]
  ELSE [b EXCEPT !.ok = FALSE]
MiddleStep(b, p) == PartStep(b, p, TRUE)
LastStep(b, p) == PartStep(b, p, FALSE)

(* A step over a part keeps the kind of state it has.                       *)
LEMMA PartStepType ==
  ASSUME NEW b \in PartsState, NEW p, IsPart(p), NEW more
  PROVE  PartStep(b, p, more) \in PartsState
<1>1. b.t \in Types /\ b.tag \in Seq(Byte) /\ b.ok \in BOOLEAN
  BY DEF PartsState
<1>2. CASE PartGoes(b, p, more)
  <2>1. LayerOf(b.t, p) \in Types /\ AppendPart(b.tag, b.t, p) \in Seq(Byte)
    BY <1>1, <1>2, AppendFacts DEF PartGoes
  <2>2. more => TypeDef[LayerOf(b.t, p)].elem \in Types
    BY <1>2, <2>1, ElemFacts DEF PartGoes
  <2> QED
    BY <1>2, <2>1, <2>2 DEF PartStep, PartsState
<1>3. CASE ~PartGoes(b, p, more)
  BY <1>1, <1>3 DEF PartStep, PartsState
<1> QED
  BY <1>2, <1>3

PartsRun(f, t, xt, parts) ==
  /\ Len(parts) \in Nat /\ \A k \in 1..Len(parts) : IsPart(parts[k])
  /\ f[0] = [ok |-> TRUE, tag |-> xt, t |-> t]
  /\ \A k \in 0..Len(parts) : f[k] \in PartsState
  /\ \A k \in 1..(Len(parts) - 1) : f[k] = MiddleStep(f[k - 1], parts[k])
  /\ Len(parts) # 0 => f[Len(parts)] = LastStep(f[Len(parts) - 1], parts[Len(parts)])

(* The loop over the parts goes through them from the first on, and its     *)
(* last state is the outcome.                                               *)
LEMMA PartsLoopFacts ==
  ASSUME NEW t \in Types, NEW xt \in Seq(Byte), NEW parts, AreParts(parts)
  PROVE  /\ PartsRun(PartsLoop(t, xt, parts), t, xt, parts)
         /\ ParseParts(t, xt, parts) = PartsLoop(t, xt, parts)[Len(parts)]
<1> DEFINE D == PartsState
           n == Len(parts)
           base == [ok |-> TRUE, tag |-> xt, t |-> t]
           G == [x \in Nat \X D |-> IF x[1] \in 1..n THEN PartStep(x[2], parts[x[1]], x[1] < n) ELSE x[2]]
           Round(g) == [k \in 0..n |-> IF k = 0 THEN base ELSE PartStep(g[k - 1], parts[k], k < n)]
           f == PartsLoop(t, xt, parts)
<1>1. n \in Nat /\ \A k \in 1..n : IsPart(parts[k])
  <2>1. /\ parts \in Seq(Range(parts)) /\ \A p \in Range(parts) : IsPart(p)
    BY DEF AreParts
  <2>2. n \in Nat /\ \A k \in 1..n : parts[k] \in Range(parts)
    BY <2>1, LenProperties
  <2> QED
    BY <2>1, <2>2
<1>2. base \in D
  BY DEF PartsState
<1>3. f = CHOOSE g : g = Round(g)
  BY DEF PartsLoop, PartStep, PartGoes
<1>4. ParseParts(t, xt, parts) = f[n]
  BY DEF ParseParts, PartsLoop
<1> HIDE DEF n, base, f
<1>5. G \in [Nat \X D -> D]
  <2>1. ASSUME NEW k \in Nat, NEW b \in D
        PROVE (IF k \in 1..n THEN PartStep(b, parts[k], k < n) ELSE b) \in D
    <3>1. CASE k \in 1..n
      <4>1. IsPart(parts[k])
        BY <1>1, <3>1
      <4> QED
        BY <3>1, <4>1, PartStepType
    <3>2. CASE k \notin 1..n
      BY <3>2
    <3> QED
      BY <3>1, <3>2
  <2> HIDE DEF D
  <2> QED
    BY <2>1
<1> HIDE DEF D
<1>6. \E g : g = Round(g)
  <2>1. PICK out \in [0..n -> D] : out[0] = base /\ \A k \in 1..n : out[k] = G[<<k, out[k - 1]>>]
    <3> HIDE DEF G
    <3>1. Iterations(D, base, G, n) # {}
      BY <1>1, <1>2, <1>5, IterateExists, Zenon
    <3> QED
      BY <3>1 DEF Iterations
  <2>2. ASSUME NEW k \in 0..n
        PROVE out[k] = IF k = 0 THEN base ELSE PartStep(out[k - 1], parts[k], k < n)
    <3>1. CASE k = 0
      BY <2>1, <3>1
    <3>2. CASE k # 0
      <4>1. k \in 1..n /\ k - 1 \in 0..n /\ k \in Nat
        BY <1>1, <3>2
      <4>2. out[k - 1] \in D
        BY <2>1, <4>1
      <4>3. <<k, out[k - 1]>> \in Nat \X D
        BY <4>1, <4>2
      <4>4. G[<<k, out[k - 1]>>] = PartStep(out[k - 1], parts[k], k < n)
        BY <4>1, <4>3
      <4> QED
        BY <2>1, <3>2, <4>1, <4>4
    <3> QED
      BY <3>1, <3>2
  <2>3. out = Round(out)
    BY <2>1, <2>2
  <2> HIDE DEF Round
  <2> QED
    BY <2>3
<1>7. f = Round(f)
  <2> HIDE DEF Round
  <2> QED
    BY <1>3, <1>6
<1>8. \A k \in 0..n : f[k] = IF k = 0 THEN base ELSE PartStep(f[k - 1], parts[k], k < n)
  <2>1. \A g : g = Round(g) => \A k \in 0..n : g[k] = IF k = 0 THEN base ELSE PartStep(g[k - 1], parts[k], k < n)
    OBVIOUS
  <2> QED
    BY <1>7, <2>1
<1>9. f[0] = base /\ \A k \in 1..n : f[k] = PartStep(f[k - 1], parts[k], k < n)
  BY <1>1, <1>8
<1> DEFINE S == {k \in Nat : k \in 0..n => f[k] \in D}
<1>10. Nat \subseteq S
  <2>1. 0 \in S
    BY <1>2, <1>9
  <2>2. ASSUME NEW k \in Nat, k \in S PROVE k + 1 \in S
    <3> SUFFICES ASSUME k + 1 \in 0..n PROVE f[k + 1] \in D
      OBVIOUS
    <3>1. k \in 0..n /\ k + 1 \in 1..n /\ (k + 1) - 1 = k
      BY <1>1
    <3>2. f[k] \in D /\ IsPart(parts[k + 1])
      BY <1>1, <2>2, <3>1
    <3>3. f[k + 1] = PartStep(f[k], parts[k + 1], k + 1 < n)
      BY <1>9, <3>1
    <3> QED
      BY <3>2, <3>3, PartStepType DEF D
  <2> HIDE DEF S
  <2> QED
    BY <2>1, <2>2, InductionOnNat
<1>11. \A k \in 0..n : f[k] \in D
  BY <1>1, <1>10
<1>12. ASSUME NEW k \in 1..(n - 1) PROVE f[k] = MiddleStep(f[k - 1], parts[k])
  <2>1. k \in 1..n /\ (k < n) = TRUE
    BY <1>1
  <2> QED
    BY <1>9, <2>1 DEF MiddleStep
<1>13. ASSUME n # 0 PROVE f[n] = LastStep(f[n - 1], parts[n])
  <2>1. n \in 1..n /\ (n < n) = FALSE
    BY <1>1, <1>13
  <2>2. f[n] = PartStep(f[n - 1], parts[n], n < n)
    BY <1>9, <2>1
  <2> QED
    BY <2>1, <2>2 DEF LastStep
<1> QED
  BY <1>1, <1>4, <1>9, <1>11, <1>12, <1>13 DEF n, f, base, D, PartsRun

(* What is legal for a layer is what fits it, before the last part and in   *)
(* the last one.                                                            *)
LEMMA FitsFacts ==
  ASSUME NEW t \in Types, NEW p
  PROVE  /\ PartLegal(t, p) /\ Descends(LayerOf(t, p)) <=> Fits(t, p) /\ Descends(t)
         /\ PartLegal(t, p) /\ Descends(LayerOf(t, p)) => ~Shortened(t, p) /\ LayerOf(t, p) = t
         /\ Shortened(t, p) =>
              /\ Descends(t) /\ TypeDef[t].elem \in Types /\ LayerOf(t, p) = TypeDef[t].elem
              /\ PartLegal(t, p) <=> Fits(TypeDef[t].elem, p)
         /\ ~Shortened(t, p) => LayerOf(t, p) = t /\ (PartLegal(t, p) <=> Fits(t, p))
<1>1. t # "none"
  BY StructAssumption DEF Types
<1>2. CASE Shortened(t, p)
  <2>1. p.name = "opaque" /\ KindOf(t) \in {"array", "slice"}
    BY <1>2 DEF Shortened
  <2>2. Descends(t) /\ TypeDef[t].elem \in Types /\ TypeDef[t].elem # "none"
    BY <2>1, ElemFacts, StructAssumption DEF Descends, Types
  <2>3. LayerOf(t, p) = TypeDef[t].elem
    BY <2>1 DEF LayerOf
  <2>4. PartLegal(t, p) <=> IsByte(TypeDef[t].elem)
    BY <2>1, <2>3 DEF PartLegal
  <2>5. Fits(TypeDef[t].elem, p) <=> IsByte(TypeDef[t].elem)
    BY <2>1, <2>2 DEF Fits
  <2>6. ~Fits(t, p)
    BY <1>1, <2>1 DEF Fits, IsByte
  <2>7. IsByte(TypeDef[t].elem) => ~Descends(TypeDef[t].elem)
    BY DEF IsByte, Descends
  <2> QED
    BY <1>2, <2>2, <2>3, <2>4, <2>5, <2>6, <2>7
<1>3. CASE ~Shortened(t, p)
  <2>1. LayerOf(t, p) = t
    BY <1>3 DEF Shortened, LayerOf
  <2>2. PartLegal(t, p) <=> Fits(t, p)
    BY <1>1, <2>1 DEF PartLegal, Fits, canBeOpt, Limitable
  <2> QED
    BY <1>3, <2>1, <2>2
<1> QED
  BY <1>2, <1>3

(* Before the last part, the loop goes down the layers, one for each part,  *)
(* and appends an entry for each.                                           *)
Options(parts, k) == [j \in 1..k |-> PartEntry(parts[j])]
FitsUpTo(t, parts, k) ==
  \A j \in 1..k : /\ Fits(LayersOf(t, Len(parts))[j], parts[j])
                  /\ Descends(LayersOf(t, Len(parts))[j])

(* One more part, one more entry.                                           *)
LEMMA OptionsAppend ==
  ASSUME NEW parts, NEW k \in Nat, Options(parts, k) \in Seq(TagEntry), PartEntry(parts[k + 1]) \in TagEntry
  PROVE  /\ Options(parts, k + 1) \in Seq(TagEntry)
         /\ Options(parts, k + 1) = Options(parts, k) \o <<PartEntry(parts[k + 1])>>
<1> DEFINE a == Options(parts, k)
           x == PartEntry(parts[k + 1])
           b == Options(parts, k + 1)
<1>1. /\ a \in Seq(TagEntry) /\ x \in TagEntry /\ DOMAIN a = 1..k /\ \A j \in 1..k : a[j] = PartEntry(parts[j])
      /\ b = [j \in 1..(k + 1) |-> PartEntry(parts[j])]
  BY DEF Options
<1>2. Len(a) = k
  BY <1>1, LenProperties
<1>3. \A j \in 1..(k + 1) : PartEntry(parts[j]) \in TagEntry
  <2>1. \A j \in 1..k : a[j] \in TagEntry
    BY <1>1, <1>2, LenProperties
  <2> QED
    BY <1>1, <2>1
<1>4. b \in Seq(TagEntry) /\ Len(b) = k + 1 /\ \A j \in 1..(k + 1) : b[j] = PartEntry(parts[j])
  <2> HIDE DEF a, x
  <2>1. k + 1 \in Nat
    OBVIOUS
  <2> QED
    BY <1>1, <1>3, <2>1
<1> HIDE DEF a, b, x
<1>5. /\ a \o <<x>> \in Seq(TagEntry) /\ Len(a \o <<x>>) = k + 1
      /\ \A j \in 1..(k + 1) : (a \o <<x>>)[j] = IF j \leq k THEN a[j] ELSE x
  <2>1. a \o <<x>> = Append(a, x)
    BY <1>1, AppendIsConcat
  <2>2. /\ Append(a, x) \in Seq(TagEntry) /\ Len(Append(a, x)) = k + 1
        /\ \A j \in 1..k : Append(a, x)[j] = a[j]
        /\ Append(a, x)[k + 1] = x
    BY <1>1, <1>2, AppendProperties
  <2> QED
    BY <2>1, <2>2
<1>6. \A j \in 1..(k + 1) : (a \o <<x>>)[j] = b[j]
  <2>1. x = PartEntry(parts[k + 1])
    BY DEF x
  <2> QED
    BY <1>1, <1>4, <1>5, <2>1
<1>7. a \o <<x>> = b
  BY <1>4, <1>5, <1>6, SeqEqual
<1> QED
  BY <1>4, <1>7 DEF a, b, x

(* No parts, no entries.                                                    *)
LEMMA OptionsEmpty ==
  ASSUME NEW parts
  PROVE  Options(parts, 0) = <<>> /\ Options(parts, 0) \in Seq(TagEntry)
BY DEF Options

(* The loop after k parts, of more than k: it goes on if they all fit their *)
(* layers, stands on the next layer, and has added an entry for each.       *)
LEMMA ReadUpTo ==
  ASSUME NEW t \in Types, NEW ls \in Seq(TagEntry), NEW parts, AreParts(parts), NEW k \in 0..Len(parts), k < Len(parts)
  PROVE  LET b == PartsLoop(t, BytesOf(ls), parts)[k]
         IN  /\ b.ok <=> FitsUpTo(t, parts, k)
             /\ b.ok => /\ b.t = LayersOf(t, Len(parts))[k + 1]
                        /\ Options(parts, k) \in Seq(TagEntry)
                        /\ b.tag = BytesOf(ls \o Options(parts, k))
<1> DEFINE n == Len(parts)
           L == LayersOf(t, n)
           f == PartsLoop(t, BytesOf(ls), parts)
           xt == BytesOf(ls)
           Goal(j) == /\ f[j].ok <=> FitsUpTo(t, parts, j)
                      /\ f[j].ok => /\ f[j].t = L[j + 1] /\ Options(parts, j) \in Seq(TagEntry)
                                    /\ f[j].tag = BytesOf(ls \o Options(parts, j))
           S == {j \in Nat : j < n => Goal(j)}
<1>1. xt \in Seq(Byte)
  BY PiecesFacts
<1>2. /\ n \in Nat /\ \A j \in 1..n : IsPart(parts[j])
      /\ f[0] = [ok |-> TRUE, tag |-> xt, t |-> t]
      /\ \A j \in 0..n : f[j] \in PartsState
      /\ \A j \in 1..(n - 1) : f[j] = MiddleStep(f[j - 1], parts[j])
  <2>1. PartsRun(f, t, xt, parts)
    BY <1>1, PartsLoopFacts, Zenon
  <2> QED
    BY <2>1 DEF PartsRun
<1>3. /\ n # 0 => L[1] = t
      /\ \A j \in 1..(n - 1) :
           L[j + 1] = IF L[j] # "none" /\ Descends(L[j]) THEN TypeDef[L[j]].elem ELSE "none"
  BY <1>2, LayersFacts
<1>4. \A j : FitsUpTo(t, parts, j) <=> \A q \in 1..j : Fits(L[q], parts[q]) /\ Descends(L[q])
  BY DEF FitsUpTo
<1>5. "none" \notin Types
  BY StructAssumption DEF Types
<1> HIDE DEF n, L, f, xt
<1>6. 0 \in S
  <2> SUFFICES ASSUME 0 < n PROVE Goal(0)
    OBVIOUS
  <2>1. Options(parts, 0) = <<>> /\ Options(parts, 0) \in Seq(TagEntry)
    BY OptionsEmpty
  <2>2. ls \o Options(parts, 0) = ls
    BY <2>1, ConcatEmptySeq
  <2>3. FitsUpTo(t, parts, 0)
    BY <1>4
  <2>4. L[0 + 1] = t
    BY <1>2, <1>3
  <2>5. f[0].ok /\ f[0].t = t /\ f[0].tag = BytesOf(ls)
    BY <1>2 DEF xt
  <2> HIDE DEF S
  <2> QED
    BY <2>1, <2>2, <2>3, <2>4, <2>5
<1>7. ASSUME NEW j \in Nat, j \in S PROVE j + 1 \in S
  <2> SUFFICES ASSUME j + 1 < n PROVE Goal(j + 1)
    OBVIOUS
  <2> DEFINE b == f[j]
             p == parts[j + 1]
  <2>1. /\ j < n /\ j \in 0..n /\ j + 1 \in 1..n /\ j + 1 \in 1..(n - 1) /\ j + 1 \in 0..n
        /\ (j + 1) - 1 = j
    BY <1>2
  <2>2. Goal(j)
    BY <1>7, <2>1
  <2>3. f[j + 1] = MiddleStep(b, p) /\ b \in PartsState /\ IsPart(p)
    BY <1>2, <2>1
  <2>4. b.t \in Types /\ b.tag \in Seq(Byte) /\ b.ok \in BOOLEAN
    BY <2>3 DEF PartsState
  <2>5. FitsUpTo(t, parts, j + 1) <=> FitsUpTo(t, parts, j) /\ Fits(L[j + 1], p) /\ Descends(L[j + 1])
    BY <1>4, <2>1
  <2>6. b.ok <=> FitsUpTo(t, parts, j)
    BY <2>2
  <2>7. b.ok => /\ b.t = L[j + 1] /\ Options(parts, j) \in Seq(TagEntry)
                /\ b.tag = BytesOf(ls \o Options(parts, j))
    BY <2>2
  <2> HIDE DEF b, p, Goal, S
  <2>8. PartGoes(b, p, TRUE) <=> FitsUpTo(t, parts, j + 1)
    BY <2>4, <2>5, <2>6, <2>7, FitsFacts DEF PartGoes
  <2>9. CASE ~PartGoes(b, p, TRUE)
    <3>1. f[j + 1] = [b EXCEPT !.ok = FALSE]
      BY <2>3, <2>9 DEF PartStep, MiddleStep, LastStep
    <3>2. ~f[j + 1].ok
      BY <2>3, <3>1 DEF PartsState
    <3> QED
      BY <2>8, <2>9, <3>2 DEF Goal
  <2>10. CASE PartGoes(b, p, TRUE)
    <3>1. f[j + 1] = [ok |-> TRUE, tag |-> AppendPart(b.tag, b.t, p), t |-> TypeDef[LayerOf(b.t, p)].elem]
      BY <2>3, <2>10 DEF PartStep, MiddleStep, LastStep
    <3>2. b.ok /\ PartLegal(b.t, p) /\ Descends(LayerOf(b.t, p))
      BY <2>10 DEF PartGoes
    <3>3. ~Shortened(b.t, p) /\ LayerOf(b.t, p) = b.t /\ Descends(b.t)
      BY <2>4, <3>2, FitsFacts
    <3>4. /\ PartEntry(p) \in TagEntry /\ OptionOf(b.t, p) = <<PartEntry(p)>>
          /\ AppendPart(b.tag, b.t, p) = b.tag \o BytesOf(<<PartEntry(p)>>)
      BY <2>3, <2>4, <3>2, <3>3, AppendFacts DEF OptionOf
    <3>5. /\ Options(parts, j + 1) \in Seq(TagEntry)
          /\ Options(parts, j + 1) = Options(parts, j) \o <<PartEntry(p)>>
      BY <2>7, <3>2, <3>4, OptionsAppend DEF p
    <3>6. BytesOf(ls \o Options(parts, j + 1)) = BytesOf(ls \o Options(parts, j)) \o BytesOf(<<PartEntry(p)>>)
      <4> DEFINE o == Options(parts, j)
                 x == PartEntry(p)
                 lo == ls \o o
                 y == <<x>>
      <4>1. o \in Seq(TagEntry) /\ x \in TagEntry
        BY <2>7, <3>2, <3>4
      <4>2. y \in Seq(TagEntry)
        BY <4>1
      <4>3. Options(parts, j + 1) = o \o y
        BY <3>5
      <4> HIDE DEF o, x, y
      <4>4. lo \in Seq(TagEntry) /\ ls \o (o \o y) = lo \o y
        BY <4>1, <4>2, ConcatProperties, ConcatRegroup
      <4> HIDE DEF lo
      <4>5. BytesOf(lo \o y) = BytesOf(lo) \o BytesOf(y)
        BY <4>2, <4>4, BytesConcat
      <4> QED
        BY <4>3, <4>4, <4>5 DEF o, x, lo, y
    <3>7. L[(j + 1) + 1] = TypeDef[b.t].elem
      BY <1>3, <1>5, <2>1, <2>4, <2>7, <3>2, <3>3
    <3>8. f[j + 1].tag = BytesOf(ls \o Options(parts, j + 1))
      <4>1. f[j + 1].tag = AppendPart(b.tag, b.t, p)
        BY <3>1
      <4>2. b.tag = BytesOf(ls \o Options(parts, j))
        BY <2>7, <3>2
      <4> QED
        BY <3>4, <3>6, <4>1, <4>2
    <3>9. f[j + 1].ok /\ f[j + 1].t = L[(j + 1) + 1]
      BY <3>1, <3>3, <3>7
    <3> QED
      BY <2>8, <2>10, <3>5, <3>8, <3>9 DEF Goal
  <2> QED
    BY <2>9, <2>10
<1>8. Nat \subseteq S
  <2> HIDE DEF S
  <2> QED
    BY <1>6, <1>7, InductionOnNat
<1>9. Goal(k)
  BY <1>2, <1>8 DEF n
<1> QED
  BY <1>9 DEF f, L, n, xt

(* After the last part.                                                     *)
LEMMA ReadAll ==
  ASSUME NEW t \in Types, NEW ls \in Seq(TagEntry), NEW parts, AreParts(parts), Len(parts) # 0
  PROVE  LET n == Len(parts)
             b == PartsLoop(t, BytesOf(ls), parts)[n]
             x == LayersOf(t, n)[n]
         IN  /\ b.ok <=> FitsUpTo(t, parts, n - 1) /\ x \in Types /\ PartLegal(x, parts[n])
             /\ b.ok => /\ Options(parts, n - 1) \in Seq(TagEntry)
                        /\ PartEntry(parts[n]) \in TagEntry
                        /\ OptionOf(x, parts[n]) \in Seq(TagEntry)
                        /\ b.tag = BytesOf(ls \o (Options(parts, n - 1) \o OptionOf(x, parts[n])))
<1> DEFINE n == Len(parts)
           x == LayersOf(t, n)[n]
           f == PartsLoop(t, BytesOf(ls), parts)
           xt == BytesOf(ls)
           p == parts[n]
           b == f[n - 1]
           o == Options(parts, n - 1)
<1>1. xt \in Seq(Byte)
  BY PiecesFacts
<1>2. /\ n \in Nat /\ IsPart(p) /\ f[n - 1] \in PartsState /\ f[n] = LastStep(b, p)
      /\ n - 1 \in 0..n /\ n - 1 < n
  <2>1. /\ n \in Nat /\ \A k \in 1..n : IsPart(parts[k])
        /\ \A k \in 0..n : f[k] \in PartsState
        /\ f[n] = LastStep(b, p)
    <3>1. PartsRun(f, t, xt, parts)
      BY <1>1, PartsLoopFacts, Zenon
    <3> QED
      BY <3>1 DEF PartsRun
  <2>2. n \in 1..n /\ n - 1 \in 0..n /\ n - 1 < n
    BY <2>1
  <2> QED
    BY <2>1, <2>2
<1>3. /\ b.ok <=> FitsUpTo(t, parts, n - 1)
      /\ b.ok => b.t = x /\ o \in Seq(TagEntry) /\ b.tag = BytesOf(ls \o o)
  <2>1. (n - 1) + 1 = n
    BY <1>2
  <2> QED
    BY <1>2, <2>1, ReadUpTo DEF n
<1>4. b.t \in Types /\ b.tag \in Seq(Byte) /\ b.ok \in BOOLEAN
  BY <1>2 DEF PartsState
<1>5. PartGoes(b, p, FALSE) <=> b.ok /\ PartLegal(b.t, p)
  BY DEF PartGoes
<1> HIDE DEF f, xt, b, o, n, x
<1>6. CASE ~PartGoes(b, p, FALSE)
  <2>1. f[n] = [b EXCEPT !.ok = FALSE]
    BY <1>2, <1>6 DEF PartStep, MiddleStep, LastStep
  <2>2. ~f[n].ok
    <3>1. b \in PartsState
      BY <1>2 DEF b
    <3> QED
      BY <2>1, <3>1 DEF PartsState
  <2>3. ~(FitsUpTo(t, parts, n - 1) /\ x \in Types /\ PartLegal(x, parts[n]))
    BY <1>3, <1>5, <1>6
  <2> QED
    BY <2>2, <2>3 DEF f, n, x
<1>7. CASE PartGoes(b, p, FALSE)
  <2>1. f[n].ok /\ f[n].tag = AppendPart(b.tag, b.t, p)
    BY <1>2, <1>7 DEF PartStep, MiddleStep, LastStep
  <2>2. /\ b.t = x /\ x \in Types /\ PartLegal(x, p) /\ o \in Seq(TagEntry)
        /\ b.tag = BytesOf(ls \o o) /\ FitsUpTo(t, parts, n - 1)
    BY <1>3, <1>4, <1>5, <1>7
  <2> DEFINE e == OptionOf(x, p)
  <2>3. /\ PartEntry(p) \in TagEntry /\ e \in Seq(TagEntry)
        /\ AppendPart(b.tag, b.t, p) = b.tag \o BytesOf(e)
    <3> DEFINE bt == b.tag
    <3>1. bt \in Seq(Byte)
      BY <1>4
    <3> HIDE DEF bt, p
    <3>2. /\ PartEntry(p) \in TagEntry /\ e \in Seq(TagEntry)
          /\ AppendPart(bt, x, p) = bt \o BytesOf(e)
      BY <1>2, <2>2, <3>1, AppendFacts
    <3> QED
      BY <2>2, <3>2 DEF bt
  <2> HIDE DEF e
  <2>4. BytesOf(ls \o o) \o BytesOf(e) = BytesOf(ls \o (o \o e))
    <3>1. o \in Seq(TagEntry) /\ e \in Seq(TagEntry)
      BY <2>2, <2>3
    <3>2. ls \o o \in Seq(TagEntry)
      BY <3>1, ConcatProperties
    <3>3. (ls \o o) \o e = ls \o (o \o e)
      BY <3>1, ConcatRegroup
    <3> QED
      BY <3>1, <3>2, <3>3, BytesConcat
  <2>5. f[n].tag = BytesOf(ls \o (o \o e))
    BY <2>1, <2>2, <2>3, <2>4
  <2> QED
    BY <2>1, <2>2, <2>3, <2>5 DEF f, o, e, n, x
<1> QED
  BY <1>6, <1>7

(* The layers of a type do not depend on how many are asked for.            *)
LEMMA LayersAgree ==
  ASSUME NEW t \in Types, NEW n \in Nat
  PROVE  \A k \in 1..n : LayersOf(t, n + 1)[k] = LayersOf(t, n)[k]
<1> DEFINE L == LayersOf(t, n)
           M == LayersOf(t, n + 1)
           Below(x) == IF x # "none" /\ Descends(x) THEN TypeDef[x].elem ELSE "none"
           S == {k \in Nat : k + 1 \in 1..n => M[k + 1] = L[k + 1]}
<1>1. /\ n # 0 => L[1] = t
      /\ \A k \in 1..(n - 1) : L[k + 1] = Below(L[k])
  BY LayersFacts
<1>2. /\ M[1] = t
      /\ \A k \in 1..n : M[k + 1] = Below(M[k])
  <2>1. n + 1 \in Nat /\ n + 1 # 0 /\ (n + 1) - 1 = n
    OBVIOUS
  <2>2. /\ n + 1 # 0 => M[1] = t
        /\ \A k \in 1..((n + 1) - 1) : M[k + 1] = Below(M[k])
    BY <2>1, LayersFacts
  <2> HIDE DEF M, Below
  <2> QED
    BY <2>1, <2>2
<1> HIDE DEF L, M, Below
<1>3. 0 \in S
  BY <1>1, <1>2
<1>4. ASSUME NEW k \in Nat, k \in S PROVE k + 1 \in S
  <2> SUFFICES ASSUME (k + 1) + 1 \in 1..n PROVE M[(k + 1) + 1] = L[(k + 1) + 1]
    OBVIOUS
  <2>1. k + 1 \in 1..n /\ k + 1 \in 1..(n - 1)
    OBVIOUS
  <2>2. M[k + 1] = L[k + 1]
    BY <1>4, <2>1
  <2> QED
    BY <1>1, <1>2, <2>1, <2>2
<1>5. Nat \subseteq S
  <2> HIDE DEF S
  <2> QED
    BY <1>3, <1>4, InductionOnNat
<1>6. ASSUME NEW k \in 1..n PROVE M[k] = L[k]
  <2>1. k - 1 \in Nat /\ (k - 1) + 1 = k
    OBVIOUS
  <2>2. k - 1 \in S
    BY <1>5, <2>1
  <2> QED
    BY <2>1, <2>2
<1> QED
  BY <1>6 DEF L, M

(* The parts fit up to a layer that is there if each fits its own.          *)
LEMMA FitsLayer ==
  ASSUME NEW t \in Types, NEW parts, Len(parts) \in Nat, NEW n, n = Len(parts), n # 0
  PROVE  LayersOf(t, n)[n] # "none" =>
           (FitsUpTo(t, parts, n - 1) <=> \A k \in 1..(n - 1) : Fits(LayersOf(t, n)[k], parts[k]))
<1> DEFINE L == LayersOf(t, n)
<1>1. /\ \A k \in 1..n : L[k] \in Types \cup {"none"}
      /\ \A k \in 1..(n - 1) :
           L[k + 1] = IF L[k] # "none" /\ Descends(L[k]) THEN TypeDef[L[k]].elem ELSE "none"
  BY LayersFacts
<1>2. FitsUpTo(t, parts, n - 1) <=> \A k \in 1..(n - 1) : Fits(L[k], parts[k]) /\ Descends(L[k])
  BY DEF FitsUpTo
<1> HIDE DEF L
<1> SUFFICES ASSUME L[n] # "none", NEW k \in 1..(n - 1), \A j \in 1..(n - 1) : Fits(L[j], parts[j])
    PROVE Descends(L[k])
  BY <1>2 DEF L
<1>3. L[k + 1] # "none"
  <2>1. CASE k + 1 = n
    BY <2>1
  <2>2. CASE k + 1 # n
    <3>1. k + 1 \in 1..(n - 1)
      BY <2>2
    <3>2. Fits(L[k + 1], parts[k + 1])
      BY <3>1
    <3> QED
      BY <3>2 DEF Fits
  <2> QED
    BY <2>1, <2>2
<1> QED
  BY <1>1, <1>3

(* Spelled out, a tag has an entry for each of its parts, and is legal when *)
(* every part fits its layer.                                               *)
PartEntries(parts) == [k \in DOMAIN parts |-> PartEntry(parts[k])]
AllFit(t, parts) == \A k \in DOMAIN parts : Fits(LayersOf(t, Len(parts))[k], parts[k])
NoPart == [name |-> "", values |-> <<>>]

(* The part that says nothing fits every layer.                             *)
LEMMA NoPartFacts == PartEntry(NoPart) = Noop /\ \A x : x # "none" => Fits(x, NoPart)
BY DEF NoPart, PartEntry, Noop, Fits

(* A pair, as a sequence.                                                   *)
LEMMA PairSeq ==
  ASSUME NEW S, NEW a \in S, NEW b \in S
  PROVE  <<a, b>> \in Seq(S) /\ Len(<<a, b>>) = 2 /\ <<a, b>>[1] = a /\ <<a, b>>[2] = b
OBVIOUS

(* A tag that ends with `opaque` on an array or a slice is spelled with an  *)
(* empty part before it.                                                    *)
LEMMA SpelledShort ==
  ASSUME NEW t \in Types, NEW parts, AreParts(parts), Len(parts) # 0,
         LayersOf(t, Len(parts))[Len(parts)] \in Types,
         Shortened(LayersOf(t, Len(parts))[Len(parts)], parts[Len(parts)])
  PROVE  LET n == Len(parts)
             sp == Spelled(t, parts)
         IN  /\ n \in Nat /\ Len(sp) = n + 1 /\ DOMAIN sp = 1..(n + 1)
             /\ \A k \in 1..(n + 1) :
                  sp[k] = IF k \leq n - 1 THEN parts[k] ELSE IF k = n THEN NoPart ELSE parts[n]
<1> DEFINE n == Len(parts)
           R == Range(parts) \cup {NoPart}
           a == SubSeq(parts, 1, n - 1)
           p == parts[n]
           b == <<NoPart, p>>
           x == LayersOf(t, n)[n]
<1>1. n \in Nat /\ parts \in Seq(R) /\ \A k \in 1..n : parts[k] \in R
  <2>1. parts \in Seq(Range(parts))
    BY DEF AreParts
  <2>2. n \in Nat /\ parts \in [1..n -> Range(parts)] /\ \A k \in 1..n : parts[k] \in Range(parts)
    BY <2>1, LenProperties
  <2> HIDE DEF n
  <2>3. parts \in [1..n -> R]
    BY <2>2
  <2> QED
    BY <2>2, <2>3
<1>2. Spelled(t, parts) = a \o b
  <2>1. p.name = "opaque" /\ KindOf(x) \in {"array", "slice"}
    BY DEF Shortened
  <2>2. x # "none"
    BY StructAssumption DEF Types
  <2>3. n > 0
    BY <1>1
  <2> QED
    BY <2>1, <2>2, <2>3 DEF Spelled, NoPart
<1>3. p \in R /\ NoPart \in R
  BY <1>1
<1> HIDE DEF n, R, p, x
<1>4. a \in Seq(R) /\ Len(a) = n - 1 /\ \A k \in 1..(n - 1) : a[k] = parts[k]
  <2>0. n # 0
    BY DEF n
  <2>1. 1 \in Int /\ n - 1 \in Int /\ \A k \in 1..(n - 1) : parts[k] \in R
    BY <1>1
  <2>2. CASE n - 1 = 0
    BY <2>2, <2>1, SubSeqEmpty, EmptySeq
  <2>3. CASE n - 1 # 0
    <3>1. 1 \leq n - 1
      BY <1>1, <2>0, <2>3
    <3>2. /\ a \in Seq(R)
          /\ Len(a) = IF 1 \leq n - 1 THEN (n - 1) - 1 + 1 ELSE 0
          /\ \A k \in 1..((n - 1) - 1 + 1) : a[k] = parts[1 + k - 1]
      BY <2>1, SubSeqProperties
    <3> HIDE DEF a
    <3> QED
      BY <1>1, <3>1, <3>2
  <2> QED
    BY <2>2, <2>3
<1>5. b \in Seq(R) /\ Len(b) = 2 /\ b[1] = NoPart /\ b[2] = p
  BY <1>3, PairSeq
<1> HIDE DEF a, b
<1>6. /\ a \o b \in Seq(R) /\ Len(a \o b) = (n - 1) + 2
      /\ \A k \in 1..((n - 1) + 2) : (a \o b)[k] = IF k \leq n - 1 THEN a[k] ELSE b[k - (n - 1)]
  <2>1. /\ a \o b \in Seq(R) /\ Len(a \o b) = Len(a) + Len(b)
        /\ \A k \in 1..(Len(a) + Len(b)) : (a \o b)[k] = IF k \leq Len(a) THEN a[k] ELSE b[k - Len(a)]
    BY <1>4, <1>5, ConcatProperties
  <2> QED
    BY <1>4, <1>5, <2>1
<1> DEFINE sp == Spelled(t, parts)
<1>7. sp \in Seq(R) /\ Len(sp) = n + 1 /\ DOMAIN sp = 1..(n + 1)
  <2>1. sp \in Seq(R) /\ Len(sp) = n + 1
    BY <1>1, <1>2, <1>6
  <2> QED
    BY <2>1, LenProperties
<1>8. ASSUME NEW k \in 1..(n + 1)
      PROVE sp[k] = IF k \leq n - 1 THEN parts[k] ELSE IF k = n THEN NoPart ELSE parts[n]
  <2>1. k \in 1..((n - 1) + 2) /\ n \in Nat
    BY <1>1
  <2>2. sp[k] = IF k \leq n - 1 THEN a[k] ELSE b[k - (n - 1)]
    BY <1>2, <1>6, <2>1
  <2>3. CASE k \leq n - 1
    <3>1. k \in 1..(n - 1)
      BY <2>1, <2>3
    <3> QED
      BY <1>4, <2>2, <2>3, <3>1
  <2>4. CASE k = n
    <3>1. ~(k \leq n - 1) /\ k - (n - 1) = 1
      BY <2>1, <2>4
    <3> QED
      BY <1>5, <2>2, <2>4, <3>1
  <2>5. CASE k = n + 1
    <3>1. ~(k \leq n - 1) /\ k - (n - 1) = 2 /\ k # n
      BY <2>1, <2>5
    <3> QED
      BY <1>5, <2>2, <3>1 DEF p
  <2> QED
    BY <2>1, <2>3, <2>4, <2>5
<1> HIDE DEF sp
<1> QED
  BY <1>1, <1>7, <1>8 DEF n, sp

(* Every other tag is spelled as it is written.                             *)
LEMMA SpelledLong ==
  ASSUME NEW t \in Types, NEW parts, AreParts(parts), Len(parts) # 0,
         ~(/\ LayersOf(t, Len(parts))[Len(parts)] \in Types
           /\ Shortened(LayersOf(t, Len(parts))[Len(parts)], parts[Len(parts)]))
  PROVE  Spelled(t, parts) = parts
<1> DEFINE n == Len(parts)
           x == LayersOf(t, n)[n]
<1>1. n \in Nat /\ n \in 1..n
  <2>1. n \in Nat
    BY LenProperties DEF AreParts
  <2> QED
    BY <2>1
<1>2. x # "none" => x \in Types
  BY <1>1, LayersFacts
<1> QED
  BY <1>1, <1>2 DEF Spelled, Shortened

(* The entries of a tag that ends with such an `opaque`.                    *)
LEMMA EntriesShort ==
  ASSUME NEW n \in Nat, n # 0, NEW parts, NEW p, NEW sp, DOMAIN sp = 1..(n + 1),
         \A k \in 1..(n + 1) :
           sp[k] = IF k \leq n - 1 THEN parts[k] ELSE IF k = n THEN NoPart ELSE p,
         Options(parts, n - 1) \in Seq(TagEntry), PartEntry(p) \in TagEntry
  PROVE  PartEntries(sp) = Options(parts, n - 1) \o <<Noop, PartEntry(p)>>
<1> DEFINE o == Options(parts, n - 1)
           q == PartEntry(p)
           b == <<Noop, q>>
           e == PartEntries(sp)
           m == n - 1
<1>1. o \in Seq(TagEntry) /\ q \in TagEntry /\ Noop \in TagEntry
  BY NoopFacts
<1>2. DOMAIN o = 1..m /\ \A k \in 1..m : o[k] = PartEntry(parts[k])
  BY DEF Options
<1>3. e = [k \in 1..(n + 1) |-> PartEntry(sp[k])]
  BY DEF PartEntries
<1>4. m \in Nat /\ m + 1 = n /\ m + 2 = n + 1
  OBVIOUS
<1> HIDE DEF q
<1>5. b \in Seq(TagEntry) /\ Len(b) = 2 /\ b[1] = Noop /\ b[2] = q
  BY <1>1, PairSeq
<1> HIDE DEF o, b, e, m
<1>6. Len(o) = m
  BY <1>1, <1>2, <1>4, LenProperties
<1>7. /\ o \o b \in Seq(TagEntry) /\ Len(o \o b) = m + 2
      /\ \A k \in 1..(m + 2) : (o \o b)[k] = IF k \leq m THEN o[k] ELSE b[k - m]
  <2>1. /\ o \o b \in Seq(TagEntry) /\ Len(o \o b) = Len(o) + Len(b)
        /\ \A k \in 1..(Len(o) + Len(b)) :
             (o \o b)[k] = IF k \leq Len(o) THEN o[k] ELSE b[k - Len(o)]
    BY <1>1, <1>5, ConcatProperties
  <2> QED
    BY <1>5, <1>6, <2>1
<1>8. ASSUME NEW k \in 1..(m + 2) PROVE (o \o b)[k] = PartEntry(sp[k])
  <2>0. sp[k] = IF k \leq m THEN parts[k] ELSE IF k = n THEN NoPart ELSE p
    BY <1>4 DEF m
  <2>1. CASE k \in 1..m
    BY <1>2, <1>4, <1>7, <2>0, <2>1
  <2>2. CASE k = m + 1
    <3>1. ~(k \leq m) /\ k - m = 1 /\ k = n
      BY <1>4, <2>2
    <3>2. PartEntry(sp[k]) = Noop
      BY <2>0, <3>1, NoPartFacts
    <3> QED
      BY <1>5, <1>7, <3>1, <3>2
  <2>3. CASE k = m + 2
    <3>1. ~(k \leq m) /\ k - m = 2 /\ k # n
      BY <1>4, <2>3
    <3>2. PartEntry(sp[k]) = q
      BY <2>0, <3>1 DEF q
    <3> QED
      BY <1>5, <1>7, <3>1, <3>2
  <2>4. k \in 1..m \/ k = m + 1 \/ k = m + 2
    BY <1>4
  <2> QED
    BY <2>1, <2>2, <2>3, <2>4, Zenon
<1>9. \A k \in 1..(m + 2) : (o \o b)[k] \in TagEntry
  BY <1>7, LenProperties
<1>10. e \in Seq(TagEntry) /\ Len(e) = m + 2 /\ \A k \in 1..(m + 2) : e[k] = (o \o b)[k]
  <2>1. e = [k \in 1..(m + 2) |-> PartEntry(sp[k])]
    BY <1>3, <1>4
  <2>2. \A k \in 1..(m + 2) : e[k] = (o \o b)[k] /\ e[k] \in TagEntry
    BY <1>8, <1>9, <2>1
  <2>3. e \in [1..(m + 2) -> TagEntry] /\ m + 2 \in Nat
    BY <1>4, <2>1, <2>2
  <2>4. e \in Seq(TagEntry) /\ Len(e) = m + 2
    BY <2>3
  <2> QED
    BY <2>2, <2>4, Zenon
<1>11. e = o \o b
  BY <1>7, <1>10, SeqEqual
<1> QED
  BY <1>11 DEF e, o, b, q

(* The parts of a tag are legal exactly when each fits the layer it is      *)
(* about, and then they add an entry for each to the tag.                   *)
LEMMA ParsePartsFacts ==
  ASSUME NEW t \in Types, NEW ls \in Seq(TagEntry), NEW parts, AreParts(parts)
  PROVE  LET sp == Spelled(t, parts)
             all == ParseParts(t, BytesOf(ls), parts)
         IN  /\ all.ok <=> AllFit(t, sp)
             /\ all.ok \in BOOLEAN
             /\ all.ok => PartEntries(sp) \in Seq(TagEntry) /\ all.tag = BytesOf(ls \o PartEntries(sp))
<1> DEFINE n == Len(parts)
           sp == Spelled(t, parts)
           all == ParseParts(t, BytesOf(ls), parts)
           xt == BytesOf(ls)
           f == PartsLoop(t, xt, parts)
           L == LayersOf(t, n)
           x == L[n]
           p == parts[n]
<1>1. xt \in Seq(Byte)
  BY PiecesFacts
<1>2. PartsRun(f, t, xt, parts) /\ all = f[n]
  BY <1>1, PartsLoopFacts, Zenon
<1>3. n \in Nat /\ f[0] = [ok |-> TRUE, tag |-> xt, t |-> t] /\ \A k \in 0..n : f[k] \in PartsState
  BY <1>2 DEF PartsRun
<1>4. all.ok \in BOOLEAN
  <2>1. n \in 0..n
    BY <1>3
  <2> HIDE DEF f, n, all
  <2> QED
    BY <1>2, <1>3, <2>1 DEF PartsState
<1>5. CASE n = 0
  <2>1. parts = <<>>
    <3>1. parts \in Seq(Range(parts))
      BY DEF AreParts
    <3> QED
      BY <1>5, <3>1, EmptySeq
  <2>2. sp = <<>>
    BY <1>5, <2>1 DEF Spelled
  <2>3. PartEntries(<<>>) = <<>> /\ <<>> \in Seq(TagEntry) /\ AllFit(t, <<>>)
    BY DEF PartEntries, AllFit
  <2>4. ls \o <<>> = ls
    BY ConcatEmptySeq
  <2> HIDE DEF f, n, sp, all
  <2>5. all.ok /\ all.tag = xt
    BY <1>2, <1>3, <1>5
  <2> QED
    BY <2>2, <2>3, <2>4, <2>5 DEF sp, all
<1>6. CASE n # 0
  <2>1. /\ all.ok <=> FitsUpTo(t, parts, n - 1) /\ x \in Types /\ PartLegal(x, p)
        /\ all.ok => /\ Options(parts, n - 1) \in Seq(TagEntry)
                     /\ PartEntry(p) \in TagEntry
                     /\ OptionOf(x, p) \in Seq(TagEntry)
                     /\ all.tag = BytesOf(ls \o (Options(parts, n - 1) \o OptionOf(x, p)))
    <3>1. all = PartsLoop(t, BytesOf(ls), parts)[n]
      BY <1>2
    <3> HIDE DEF all
    <3> QED
      BY <1>6, <3>1, ReadAll
  <2>2. x # "none" => (FitsUpTo(t, parts, n - 1) <=> \A k \in 1..(n - 1) : Fits(L[k], parts[k]))
    BY <1>3, <1>6, FitsLayer
  <2>3. x \in Types \cup {"none"} /\ "none" \notin Types
    <3>1. n \in 1..n
      BY <1>3, <1>6
    <3> HIDE DEF n
    <3> QED
      BY <1>3, <3>1, LayersFacts, StructAssumption DEF Types
  <2>4. CASE x \in Types /\ Shortened(x, p)
    <3>1. /\ Len(sp) = n + 1 /\ DOMAIN sp = 1..(n + 1)
          /\ \A k \in 1..(n + 1) :
               sp[k] = IF k \leq n - 1 THEN parts[k] ELSE IF k = n THEN NoPart ELSE p
      BY <1>6, <2>4, SpelledShort
    <3> DEFINE M == LayersOf(t, n + 1)
               y == TypeDef[x].elem
    <3>2. \A k \in 1..n : M[k] = L[k]
      BY <1>3, LayersAgree
    <3>3. Descends(x) /\ y \in Types /\ (PartLegal(x, p) <=> Fits(y, p))
      BY <2>4, FitsFacts
    <3>4. M[n + 1] = y
      <4>1. n + 1 \in Nat /\ n \in 1..((n + 1) - 1) /\ n \in 1..n
        BY <1>3, <1>6
      <4>2. \A k \in 1..((n + 1) - 1) :
              M[k + 1] = IF M[k] # "none" /\ Descends(M[k]) THEN TypeDef[M[k]].elem ELSE "none"
        BY <4>1, LayersFacts
      <4>3. M[n] = x
        BY <3>2, <4>1
      <4>4. x # "none" /\ Descends(x)
        BY <2>3, <2>4, <3>3
      <4> HIDE DEF M, x, n, L, p
      <4>5. M[n + 1] = IF M[n] # "none" /\ Descends(M[n]) THEN TypeDef[M[n]].elem ELSE "none"
        BY <4>1, <4>2
      <4> QED
        BY <4>3, <4>4, <4>5
    <3>5. AllFit(t, sp) <=> (\A k \in 1..(n - 1) : Fits(L[k], parts[k])) /\ Fits(y, p)
      <4>1. AllFit(t, sp) <=> \A k \in 1..(n + 1) : Fits(M[k], sp[k])
        BY <3>1 DEF AllFit
      <4> HIDE DEF M, L, n, p, sp, y
      <4>2. Fits(M[n], sp[n])
        <5>1. n \in 1..n /\ n \in 1..(n + 1) /\ ~(n \leq n - 1)
          BY <1>3, <1>6
        <5>2. M[n] = x /\ sp[n] = NoPart
          BY <3>1, <3>2, <5>1
        <5> QED
          BY <2>3, <2>4, <5>2, NoPartFacts
      <4>3. Fits(M[n + 1], sp[n + 1]) <=> Fits(y, p)
        <5>1. n + 1 \in 1..(n + 1) /\ ~(n + 1 \leq n - 1) /\ n + 1 # n
          BY <1>3
        <5> QED
          BY <3>1, <3>4, <5>1
      <4>4. ASSUME NEW k \in 1..(n - 1)
            PROVE  k \in 1..(n + 1) /\ (Fits(M[k], sp[k]) <=> Fits(L[k], parts[k]))
        <5>1. k \in 1..n /\ k \in 1..(n + 1) /\ k \leq n - 1
          BY <1>3
        <5> QED
          BY <3>1, <3>2, <5>1
      <4>5. \A k \in 1..(n + 1) : k \in 1..(n - 1) \/ k = n \/ k = n + 1
        BY <1>3
      <4>6. n + 1 \in 1..(n + 1)
        BY <1>3
      <4> QED
        BY <4>1, <4>2, <4>3, <4>4, <4>5, <4>6
    <3>6. all.ok <=> AllFit(t, sp)
      <4>1. x \in Types /\ x # "none"
        BY <2>3, <2>4
      <4> HIDE DEF all, sp, n, L, x, p, y
      <4> QED
        BY <2>1, <2>2, <3>3, <3>5, <4>1
    <3>7. all.ok => PartEntries(sp) = Options(parts, n - 1) \o OptionOf(x, p)
      <4> SUFFICES ASSUME all.ok PROVE PartEntries(sp) = Options(parts, n - 1) \o OptionOf(x, p)
        OBVIOUS
      <4>1. Options(parts, n - 1) \in Seq(TagEntry) /\ PartEntry(p) \in TagEntry
        BY <2>1
      <4>2. OptionOf(x, p) = <<Noop, PartEntry(p)>>
        BY <2>4 DEF OptionOf
      <4> HIDE DEF n, x, sp, all, p
      <4>3. PartEntries(sp) = Options(parts, n - 1) \o <<Noop, PartEntry(p)>>
        BY <1>3, <1>6, <3>1, <4>1, EntriesShort
      <4> QED
        BY <4>2, <4>3
    <3>8. all.ok => PartEntries(sp) \in Seq(TagEntry)
      BY <2>1, <3>7, ConcatProperties
    <3>9. all.ok => all.tag = BytesOf(ls \o PartEntries(sp))
      BY <2>1, <3>7
    <3> QED
      BY <1>4, <3>6, <3>8, <3>9
  <2>5. CASE ~(x \in Types /\ Shortened(x, p))
    <3>1. sp = parts
      BY <1>6, <2>5, SpelledLong
    <3>2. DOMAIN parts = 1..n
      BY LenProperties DEF AreParts
    <3>3. AllFit(t, sp) <=> (\A k \in 1..(n - 1) : Fits(L[k], parts[k])) /\ Fits(x, p)
      <4>1. AllFit(t, sp) <=> \A k \in 1..n : Fits(L[k], parts[k])
        BY <3>1, <3>2 DEF AllFit
      <4> HIDE DEF L, n, sp
      <4>2. n \in 1..n /\ \A k \in 1..n : k \in 1..(n - 1) \/ k = n
        BY <1>3, <1>6
      <4>3. \A k \in 1..(n - 1) : k \in 1..n
        BY <1>3
      <4> QED
        BY <4>1, <4>2, <4>3
    <3>4. x \in Types => (PartLegal(x, p) <=> Fits(x, p))
      BY <2>5, FitsFacts
    <3>5. Fits(x, p) => x # "none"
      BY DEF Fits
    <3>6. all.ok <=> AllFit(t, sp)
      BY <2>1, <2>2, <2>3, <3>3, <3>4, <3>5
    <3>7. all.ok => /\ PartEntries(sp) \in Seq(TagEntry)
                    /\ PartEntries(sp) = Options(parts, n - 1) \o OptionOf(x, p)
      <4>1. PartEntries(sp) = Options(parts, n)
        BY <3>1, <3>2 DEF PartEntries, Options
      <4>2. all.ok => x \in Types
        BY <2>1
      <4>3. all.ok => OptionOf(x, p) = <<PartEntry(p)>>
        BY <2>5, <4>2 DEF OptionOf
      <4>4. n - 1 \in Nat /\ (n - 1) + 1 = n
        BY <1>3, <1>6
      <4>5. all.ok => /\ Options(parts, n) \in Seq(TagEntry)
                      /\ Options(parts, n) = Options(parts, n - 1) \o <<PartEntry(p)>>
        <5> HIDE DEF all, n
        <5> SUFFICES ASSUME all.ok
                     PROVE  /\ Options(parts, n) \in Seq(TagEntry)
                            /\ Options(parts, n) = Options(parts, n - 1) \o <<PartEntry(p)>>
          OBVIOUS
        <5>1. Options(parts, n - 1) \in Seq(TagEntry) /\ PartEntry(parts[n]) \in TagEntry
          BY <2>1
        <5> DEFINE m == n - 1
        <5>2. m \in Nat /\ m + 1 = n
          BY <4>4
        <5>3. Options(parts, m) \in Seq(TagEntry) /\ PartEntry(parts[m + 1]) \in TagEntry
          BY <5>1, <5>2
        <5> HIDE DEF m
        <5>4. /\ Options(parts, m + 1) \in Seq(TagEntry)
              /\ Options(parts, m + 1) = Options(parts, m) \o <<PartEntry(parts[m + 1])>>
          BY <5>2, <5>3, OptionsAppend
        <5> QED
          BY <5>2, <5>4 DEF m
      <4> HIDE DEF all, n, x, p, sp
      <4> QED
        BY <4>1, <4>3, <4>5
    <3>8. all.ok => all.tag = BytesOf(ls \o PartEntries(sp))
      BY <2>1, <3>7
    <3> QED
      BY <1>4, <3>6, <3>7, <3>8
  <2> QED
    BY <2>4, <2>5
<1> QED
  BY <1>5, <1>6

-----------------------------------------------------------------------------
(* The bytes of trimmed entries: what the tags of fields and the keys of    *)
(* codecs are.                                                              *)
IsTrimmed(es) == es \in Seq(TagEntry) /\ Trim(es) = es
IsTagBytes(b) == \E es : IsTrimmed(es) /\ b = BytesOf(es)

(* What was trimmed once stays, and is recognised by its last entry.        *)
LEMMA TrimTwice ==
  ASSUME NEW es \in Seq(TagEntry)
  PROVE  /\ IsTrimmed(Trim(es))
         /\ IsTrimmed(es) <=> (es # <<>> => es[Len(es)].kind # "Noop")
<1>1. ASSUME NEW a \in Seq(TagEntry), a # <<>> => a[Len(a)].kind # "Noop" PROVE Trim(a) = a
  <2>1. /\ Trim(a) \in Seq(TagEntry) /\ Len(Trim(a)) \in 0..Len(a)
        /\ \A k \in 1..Len(Trim(a)) : Trim(a)[k] = a[k]
        /\ \A k \in 1..Len(a) : k > Len(Trim(a)) => a[k].kind = "Noop"
    BY TrimFacts
  <2>2. Len(a) \in Nat
    BY LenProperties
  <2> DEFINE b == Trim(a)
             n == Len(a)
             m == Len(b)
  <2>3. a = <<>> => n = 0
    OBVIOUS
  <2> HIDE DEF b, n, m
  <2>4. m = n
    <3>1. n # 0 => ~(n > m)
      <4>1. n # 0 => n \in 1..n
        BY <2>2 DEF n
      <4> QED
        BY <1>1, <2>1, <2>3, <4>1 DEF b, n, m
    <3>2. m \in 0..n /\ n \in Nat
      BY <2>1, <2>2 DEF b, n, m
    <3> QED
      BY <3>1, <3>2
  <2> QED
    BY <2>1, <2>4, SeqEqual DEF b, n, m
<1>2. /\ Trim(es) \in Seq(TagEntry)
      /\ Trim(es) # <<>> => Trim(es)[Len(Trim(es))].kind # "Noop"
  BY TrimFacts
<1>3. Trim(Trim(es)) = Trim(es)
  <2> DEFINE b == Trim(es)
  <2>1. b \in Seq(TagEntry) /\ (b # <<>> => b[Len(b)].kind # "Noop")
    BY <1>2
  <2> HIDE DEF b
  <2>2. Trim(b) = b
    BY <1>1, <2>1
  <2> QED
    BY <2>2 DEF b
<1>4. Trim(es) = es <=> (es # <<>> => es[Len(es)].kind # "Noop")
  <2>1. Trim(es) = es => (es # <<>> => es[Len(es)].kind # "Noop")
    <3> SUFFICES ASSUME Trim(es) = es, es # <<>> PROVE es[Len(es)].kind # "Noop"
      OBVIOUS
    <3> QED
      BY <1>2
  <2> QED
    BY <1>1, <2>1
<1> QED
  BY <1>2, <1>3, <1>4 DEF IsTrimmed

(* Kind, Values and Next of the bytes of entries.                           *)
LEMMA BytesRead ==
  ASSUME NEW es \in Seq(TagEntry)
  PROVE  /\ es = <<>> => /\ BytesOf(es) = <<>> /\ Kind(BytesOf(es)) = KindByte.Noop
                         /\ NextTag(BytesOf(es)) = BytesOf(es)
         /\ es # <<>> => /\ Kind(BytesOf(es)) = KindByte[es[1].kind]
                         /\ Values(BytesOf(es)) = es[1].values
                         /\ Tail(es) \in Seq(TagEntry) /\ NextTag(BytesOf(es)) = BytesOf(Tail(es))
<1>1. CASE es = <<>>
  <2>1. BytesOf(es) = <<>>
    BY <1>1, BytesEmpty
  <2>2. Kind(<<>>) = KindByte.Noop
    BY DEF Kind
  <2>3. NextTag(<<>>) = <<>>
    <3>1. thisLen(<<>>) = 0
      BY DEF thisLen
    <3>2. SubSeq(<<>>, 1, 0) = <<>>
      BY SubSeqEmpty
    <3>3. Len(<<>>) = 0 /\ 0 + 1 = 1
      OBVIOUS
    <3> QED
      BY <3>1, <3>2, <3>3 DEF NextTag
  <2> QED
    BY <1>1, <2>1, <2>2, <2>3
<1>2. CASE es # <<>>
  <2> DEFINE x == Head(es)
             r == Tail(es)
             y == <<x>>
             w == Written(x)
  <2>1. x \in TagEntry /\ r \in Seq(TagEntry) /\ es = y \o r /\ x = es[1]
    BY <1>2, HeadFacts
  <2> HIDE DEF x, r
  <2>2. y \in Seq(TagEntry) /\ BytesOf(y) = w
    BY <2>1, BytesOne
  <2> HIDE DEF y
  <2>3. BytesOf(es) = w \o BytesOf(r)
    BY <2>1, <2>2, BytesConcat
  <2>4. BytesOf(r) \in Seq(Byte)
    BY <2>1, PiecesFacts
  <2>5. /\ Kind(BytesOf(es)) = KindByte[x.kind] /\ Values(BytesOf(es)) = x.values
        /\ NextTag(BytesOf(es)) = BytesOf(r)
    BY <2>1, <2>3, <2>4, EntryRead, ZenonT(60) DEF w
  <2> QED
    BY <1>2, <2>1, <2>5 DEF r
<1> QED
  BY <1>1, <1>2

(* Without its first entry it is still trimmed.                             *)
LEMMA TailTrimmed ==
  ASSUME NEW es, IsTrimmed(es), es # <<>>
  PROVE  IsTrimmed(Tail(es))
<1> DEFINE r == Tail(es)
<1>1. es \in Seq(TagEntry) /\ es[Len(es)].kind # "Noop"
  BY TrimTwice DEF IsTrimmed
<1>2. r \in Seq(TagEntry) /\ Len(r) = Len(es) - 1 /\ Len(es) \in Nat /\ \A k \in 1..Len(r) : r[k] = es[k + 1]
  BY <1>1, HeadTailProperties, LenProperties
<1> HIDE DEF r
<1>3. r # <<>> => r[Len(r)].kind # "Noop"
  <2> SUFFICES ASSUME r # <<>> PROVE r[Len(r)].kind # "Noop"
    OBVIOUS
  <2> DEFINE n == Len(r)
             m == Len(es)
  <2>1. n \in Nat /\ n # 0
    BY <1>2, EmptySeq, LenProperties
  <2>2. n + 1 = m
    BY <1>2
  <2> HIDE DEF n, m
  <2>3. n \in 1..n
    BY <2>1
  <2>4. r[n] = es[n + 1]
    BY <1>2, <2>3 DEF n
  <2> QED
    BY <1>1, <2>2, <2>4 DEF n, m
<1> QED
  BY <1>2, <1>3, TrimTwice DEF r

(* So the tag that Next leaves is the tag of a key again.                   *)
LEMMA TagBytesFacts ==
  ASSUME NEW b, IsTagBytes(b)
  PROVE  b \in Seq(Byte) /\ IsTagBytes(NextTag(b))
<1>1. PICK es : IsTrimmed(es) /\ b = BytesOf(es)
  BY DEF IsTagBytes
<1>2. es \in Seq(TagEntry)
  BY <1>1 DEF IsTrimmed
<1>3. b \in Seq(Byte)
  BY <1>1, <1>2, PiecesFacts
<1>4. CASE es = <<>>
  <2>1. NextTag(b) = b
    BY <1>1, <1>2, <1>4, BytesRead
  <2> QED
    BY <1>3, <2>1
<1>5. CASE es # <<>>
  <2>1. NextTag(b) = BytesOf(Tail(es))
    BY <1>1, <1>2, <1>5, BytesRead
  <2>2. IsTrimmed(Tail(es))
    BY <1>1, <1>5, TailTrimmed
  <2> QED
    BY <1>3, <2>1, <2>2 DEF IsTagBytes
<1> QED
  BY <1>4, <1>5

-----------------------------------------------------------------------------
(* The whole of a tag.                                                      *)
Contexts == {"Maybe", "NotInUnion", "InUnion"}
Leads == {"none", "switch", "default", "cases"}

(* The outcome of ParseTag, field by field.                                 *)
LEMMA TaggedFields ==
  ASSUME NEW xt, NEW ok, NEW u
  PROVE  Tagged(xt, ok, u).tag = xt /\ Tagged(xt, ok, u).ok = ok /\ Tagged(xt, ok, u).isUnion = u
BY DEF Tagged

(* The labels of a field are numbers, and so is their count.                *)
LEMMA WordsOf ==
  ASSUME NEW vs, AreWords(vs)
  PROVE  vs \in Seq(Number) /\ Len(vs) \in Number /\ Len(vs) \in Nat
<1> DEFINE n == Len(vs)
<1>1. /\ vs \in Seq(Range(vs)) /\ n \in Number /\ \A v \in Range(vs) : v \in Number
  BY WordsAreNumbers DEF AreWords
<1>2. n \in Nat /\ vs \in [1..n -> Range(vs)]
  BY <1>1, LenProperties
<1>3. vs \in [1..n -> Number]
  BY <1>1, <1>2
<1> HIDE DEF n
<1>4. vs \in Seq(Number)
  BY <1>2, <1>3
<1> QED
  BY <1>1, <1>2, <1>4 DEF n

(* The entries that a tag may begin with, and their bytes.                  *)
LEMMA EntryOf ==
  ASSUME NEW k \in {"UnionSwitch", "UnionDefault", "Skip", "UnionCases"}, NEW vs \in Seq(Number),
         Len(vs) \in Number, k # "UnionCases" => vs = <<>>
  PROVE  /\ [kind |-> k, values |-> vs] \in TagEntry
         /\ <<[kind |-> k, values |-> vs]>> \in Seq(TagEntry)
         /\ EntryBytes(k, vs) = BytesOf(<<[kind |-> k, values |-> vs]>>)
<1> DEFINE x == [kind |-> k, values |-> vs]
<1>1. k \in KindNames /\ k \notin Single
  BY KindFacts DEF Single
<1>2. x \in TagEntry
  <2>1. x.kind = k /\ x.values = vs
    OBVIOUS
  <2>2. IsWord(Len(vs))
    BY WordsAreNumbers
  <2> QED
    BY <1>1, <2>2 DEF TagEntry
<1>3. Written(x) = EntryBytes(k, vs)
  BY DEF Written
<1> HIDE DEF x
<1>4. <<x>> \in Seq(TagEntry) /\ BytesOf(<<x>>) = Written(x)
  BY <1>2, BytesOne
<1> QED
  BY <1>2, <1>3, <1>4 DEF x

(* The part of the enclosing struct: legal when it fits, and the context it *)
(* leaves.                                                                  *)
LeadKind(l) ==
  CASE l = "switch" -> "UnionSwitch" [] l = "default" -> "UnionDefault" [] OTHER -> "UnionCases"
ContextAfter(l, u) ==
  IF l = "none" THEN (IF u = "InUnion" THEN u ELSE "NotInUnion")
  ELSE IF l = "switch" THEN "InUnion" ELSE u

(* When the beginning of a tag is legal in its context, and the context     *)
(* after it.                                                                *)
LEMMA LeadFacts ==
  ASSUME NEW t \in Types, NEW text, IsText(text), text.lead # "-", NEW u \in Contexts
  PROVE  LET lead == Lead(t, text, u)
         IN  /\ lead.ok <=> LeadFits(t, text, u)
             /\ lead.ok \in BOOLEAN /\ lead.isUnion \in Contexts
             /\ lead.ok => lead.isUnion = ContextAfter(text.lead, u)
<1>1. text.lead \in {"none", "switch", "default", "cases", "unparsable"}
  BY DEF IsText
<1>2. Codecs!validForUnionSwitch(t) \in BOOLEAN
  BY DEF Codecs!validForUnionSwitch
<1> DEFINE lead == Lead(t, text, u)
<1>3. CASE text.lead = "none"
  <2>1. lead = Tagged(<<>>, u # "InUnion", IF u = "InUnion" THEN u ELSE "NotInUnion")
    BY <1>3 DEF Lead
  <2>2. LeadFits(t, text, u) <=> u # "InUnion"
    BY <1>3 DEF LeadFits
  <2> HIDE DEF lead
  <2>3. lead.ok = (u # "InUnion") /\ lead.isUnion = IF u = "InUnion" THEN u ELSE "NotInUnion"
    BY <2>1, TaggedFields
  <2> QED
    BY <1>3, <2>2, <2>3 DEF Contexts, ContextAfter, lead
<1>4. CASE text.lead = "switch"
  <2>1. LeadFits(t, text, u) <=> u = "Maybe" /\ Codecs!validForUnionSwitch(t)
    BY <1>4 DEF LeadFits
  <2>2. CASE u = "Maybe" /\ Codecs!validForUnionSwitch(t)
    <3>1. lead = Tagged(EntryBytes("UnionSwitch", <<>>), TRUE, "InUnion")
      BY <1>4, <2>2 DEF Lead
    <3> HIDE DEF lead
    <3>2. lead.ok /\ lead.ok \in BOOLEAN /\ lead.isUnion = "InUnion"
      BY <3>1 DEF Tagged
    <3> QED
      BY <1>4, <2>1, <2>2, <3>2 DEF Contexts, ContextAfter, lead
  <2>3. CASE ~(u = "Maybe" /\ Codecs!validForUnionSwitch(t))
    <3>1. lead = Tagged(<<>>, FALSE, u)
      BY <1>4, <2>3 DEF Lead
    <3> HIDE DEF lead
    <3>2. ~lead.ok /\ lead.ok \in BOOLEAN /\ lead.isUnion = u
      BY <3>1 DEF Tagged
    <3> QED
      BY <1>4, <2>1, <2>3, <3>2 DEF Contexts, ContextAfter, lead
  <2> QED
    BY <2>2, <2>3
<1>5. CASE text.lead \in {"default", "cases", "unparsable"}
  <2> DEFINE xt == EntryBytes(IF text.lead = "default" THEN "UnionDefault" ELSE "UnionCases", text.values)
             ok == u = "InUnion" /\ text.lead # "unparsable"
  <2>1. lead = Tagged(xt, ok, u)
    BY <1>5 DEF Lead
  <2>2. LeadFits(t, text, u) <=> ok
    BY <1>5 DEF LeadFits
  <2>3. ok \in BOOLEAN
    OBVIOUS
  <2> HIDE DEF lead, xt, ok
  <2>4. lead.ok = ok /\ lead.isUnion = u
    BY <2>1, TaggedFields
  <2> QED
    BY <1>5, <2>2, <2>3, <2>4 DEF Contexts, ContextAfter, lead
<1> QED
  BY <1>1, <1>3, <1>4, <1>5

(* A legal beginning is written as the one entry it stands for.             *)
LEMMA LeadBytes ==
  ASSUME NEW t \in Types, NEW text, IsText(text), text.lead \in Leads, NEW u \in Contexts,
         Lead(t, text, u).ok
  PROVE  /\ LeadEntries(text) \in Seq(TagEntry)
         /\ Lead(t, text, u).tag = BytesOf(LeadEntries(text))
         /\ text.lead # "none" => LeadEntries(text) = <<[kind |-> LeadKind(text.lead), values |-> text.values]>>
         /\ text.lead = "none" => LeadEntries(text) = <<>>
<1> DEFINE vs == text.values
           k == LeadKind(text.lead)
           lead == Lead(t, text, u)
<1>1. AreWords(vs) /\ (text.lead \in {"switch", "default"} => vs = <<>>)
  BY DEF IsText
<1>2. vs \in Seq(Number) /\ Len(vs) \in Number
  BY <1>1, WordsOf
<1>3. CASE text.lead = "none"
  <2>1. lead = Tagged(<<>>, u # "InUnion", IF u = "InUnion" THEN u ELSE "NotInUnion")
    BY <1>3 DEF Lead
  <2>2. LeadEntries(text) = <<>> /\ <<>> \in Seq(TagEntry)
    BY <1>3 DEF LeadEntries
  <2> HIDE DEF lead
  <2>3. lead.tag = <<>>
    BY <2>1, TaggedFields
  <2> QED
    BY <1>3, <2>2, <2>3, BytesEmpty DEF lead
<1>4. CASE text.lead # "none"
  <2>1. lead.tag = EntryBytes(k, vs)
    <3>1. CASE text.lead = "switch"
      <4>1. k = "UnionSwitch" /\ vs = <<>>
        BY <1>1, <3>1 DEF LeadKind
      <4>2. lead = IF u = "Maybe" /\ Codecs!validForUnionSwitch(t)
                   THEN Tagged(EntryBytes("UnionSwitch", <<>>), TRUE, "InUnion")
                   ELSE Tagged(<<>>, FALSE, u)
        BY <3>1 DEF Lead
      <4> HIDE DEF lead, k, vs
      <4>3. lead.ok
        BY DEF lead
      <4>4. lead = Tagged(EntryBytes("UnionSwitch", <<>>), TRUE, "InUnion")
        BY <4>2, <4>3, TaggedFields
      <4> QED
        BY <4>1, <4>4 DEF Tagged
    <3>2. CASE text.lead \in {"default", "cases"}
      <4>1. k = IF text.lead = "default" THEN "UnionDefault" ELSE "UnionCases"
        BY <3>2 DEF LeadKind
      <4>2. lead = Tagged(EntryBytes(IF text.lead = "default" THEN "UnionDefault" ELSE "UnionCases", vs),
                          u = "InUnion" /\ text.lead # "unparsable", u)
        BY <3>2 DEF Lead
      <4> HIDE DEF lead, vs
      <4> QED
        BY <4>1, <4>2, TaggedFields
    <3> QED
      BY <1>4, <3>1, <3>2 DEF Leads
  <2>2. LeadEntries(text) = <<[kind |-> k, values |-> vs]>>
    <3>1. CASE text.lead = "switch"
      BY <1>1, <3>1 DEF LeadEntries, LeadKind, Codecs!Entry
    <3>2. CASE text.lead = "default"
      BY <1>1, <3>2 DEF LeadEntries, LeadKind, Codecs!Entry
    <3>3. CASE text.lead = "cases"
      BY <3>3 DEF LeadEntries, LeadKind, Codecs!EntryWith
    <3> QED
      BY <1>4, <3>1, <3>2, <3>3 DEF Leads
  <2>3. k \in {"UnionSwitch", "UnionDefault", "Skip", "UnionCases"} /\ (k # "UnionCases" => vs = <<>>)
    BY <1>1, <1>4 DEF LeadKind
  <2> HIDE DEF k, vs, lead
  <2>4. /\ <<[kind |-> k, values |-> vs]>> \in Seq(TagEntry)
        /\ EntryBytes(k, vs) = BytesOf(<<[kind |-> k, values |-> vs]>>)
    BY <1>2, <2>3, EntryOf, Zenon
  <2> QED
    BY <1>4, <2>1, <2>2, <2>4 DEF k, vs, lead
<1> QED
  BY <1>3, <1>4

(* ParseTag: legal when every part fits, and then the trimmed bytes of an   *)
(* entry for each part of the tag spelled out.                              *)
Spelt(t, text) == LeadEntries(text) \o PartEntries(Spelled(t, text.parts))
Legal(t, text, u) == LeadFits(t, text, u) /\ AllFit(t, Spelled(t, text.parts))

(* ParseTag: when a tag is legal, and the bytes it is then parsed into.     *)
LEMMA ParseTagFacts ==
  ASSUME NEW t \in Types, NEW text, IsText(text), text.lead # "-", NEW u \in Contexts
  PROVE  LET p == ParseTag(t, text, u)
         IN  /\ p.ok \in BOOLEAN
             /\ p.ok <=> Legal(t, text, u)
             /\ p.isUnion \in Contexts
             /\ p.ok => /\ p.isUnion = ContextAfter(text.lead, u) /\ text.lead \in Leads
                        /\ LeadEntries(text) \in Seq(TagEntry)
                        /\ PartEntries(Spelled(t, text.parts)) \in Seq(TagEntry)
                        /\ Spelt(t, text) \in Seq(TagEntry)
                        /\ p.tag = BytesOf(Trim(Spelt(t, text)))
<1> DEFINE p == ParseTag(t, text, u)
           lead == Lead(t, text, u)
           all == ParseParts(t, lead.tag, text.parts)
           sp == Spelled(t, text.parts)
           ls == LeadEntries(text)
<1>1. text.lead \in Leads \cup {"unparsable"}
  BY DEF IsText, Leads
<1>2. AreParts(text.parts)
  BY DEF IsText, AreParts, IsPart
<1>3. /\ lead.ok <=> LeadFits(t, text, u)
      /\ lead.ok \in BOOLEAN /\ lead.isUnion \in Contexts
      /\ lead.ok => lead.isUnion = ContextAfter(text.lead, u)
  BY LeadFacts
<1>4. lead = Tagged(lead.tag, lead.ok, lead.isUnion)
  <2>1. \E xt, ok, v : lead = Tagged(xt, ok, v)
    BY <1>1 DEF Lead, Leads
  <2> HIDE DEF lead
  <2> QED
    BY <2>1 DEF Tagged
<1>5. p = IF lead.ok /\ all.ok THEN [lead EXCEPT !.tag = TrimmedTag(all.tag)]
          ELSE [lead EXCEPT !.ok = FALSE]
  BY DEF ParseTag
<1>6. text.lead = "unparsable" => ~LeadFits(t, text, u)
  BY DEF LeadFits
<1>7. CASE ~lead.ok
  <2> HIDE DEF lead, all
  <2>1. p = [lead EXCEPT !.ok = FALSE]
    BY <1>5, <1>7
  <2>2. ~p.ok /\ p.ok \in BOOLEAN /\ p.isUnion = lead.isUnion
    BY <1>4, <2>1 DEF Tagged
  <2> QED
    BY <1>3, <1>7, <2>2 DEF Legal
<1>8. CASE lead.ok
  <2>1. text.lead \in Leads
    BY <1>1, <1>3, <1>6, <1>8
  <2>2. ls \in Seq(TagEntry) /\ lead.tag = BytesOf(ls)
    BY <1>8, <2>1, LeadBytes
  <2>3. /\ all.ok <=> AllFit(t, sp)
        /\ all.ok \in BOOLEAN
        /\ all.ok => PartEntries(sp) \in Seq(TagEntry) /\ all.tag = BytesOf(ls \o PartEntries(sp))
    <3> DEFINE parts == text.parts
    <3>1. all = ParseParts(t, BytesOf(ls), parts)
      BY <2>2
    <3> HIDE DEF all, ls, parts
    <3> QED
      BY <1>2, <2>2, <3>1, ParsePartsFacts DEF parts
  <2> HIDE DEF lead, all
  <2>4. CASE ~all.ok
    <3>1. p = [lead EXCEPT !.ok = FALSE]
      BY <1>5, <2>4
    <3>2. ~p.ok /\ p.ok \in BOOLEAN /\ p.isUnion = lead.isUnion
      BY <1>4, <3>1 DEF Tagged
    <3> QED
      BY <1>3, <2>3, <2>4, <3>2 DEF Legal
  <2>5. CASE all.ok
    <3> DEFINE pe == PartEntries(sp)
    <3>1. p = [lead EXCEPT !.tag = TrimmedTag(all.tag)]
      BY <1>5, <1>8, <2>5
    <3>2. p.ok /\ p.ok \in BOOLEAN /\ p.isUnion = lead.isUnion /\ p.tag = TrimmedTag(all.tag)
      <4>1. p.ok = lead.ok /\ p.isUnion = lead.isUnion /\ p.tag = TrimmedTag(all.tag)
        BY <1>4, <3>1 DEF Tagged
      <4> HIDE DEF p
      <4> QED
        BY <1>3, <1>8, <4>1
    <3>3. pe \in Seq(TagEntry) /\ all.tag = BytesOf(ls \o pe)
      BY <2>3, <2>5
    <3>4. ls \o pe \in Seq(TagEntry) /\ Spelt(t, text) = ls \o pe
      <4>1. Spelt(t, text) = ls \o pe
        BY DEF Spelt
      <4> HIDE DEF ls, pe
      <4> QED
        BY <2>2, <3>3, <4>1, ConcatProperties
    <3>5. TrimmedTag(BytesOf(ls \o pe)) = BytesOf(Trim(ls \o pe))
      BY <3>4, TrimFacts
    <3>6. Legal(t, text, u)
      BY <1>3, <1>8, <2>3, <2>5 DEF Legal
    <3> HIDE DEF p, ls, pe
    <3> QED
      BY <1>3, <1>8, <2>1, <2>2, <3>2, <3>3, <3>4, <3>5, <3>6 DEF p, ls, pe
  <2> QED
    BY <2>4, <2>5
<1> QED
  BY <1>7, <1>8

(* What makeStructCodec sees of a field that was parsed: whether it is      *)
(* skipped, and where it leaves the context; in a union, which arm it is.   *)
LEMMA FirstKind ==
  ASSUME NEW es \in Seq(TagEntry), es # <<>>, es[1].kind # "Noop"
  PROVE  /\ Kind(BytesOf(Trim(es))) = KindByte[es[1].kind]
         /\ Values(BytesOf(Trim(es))) = es[1].values
         /\ Trim(es) # <<>> /\ Trim(es)[1] = es[1]
<1> DEFINE b == Trim(es)
           n == Len(b)
           m == Len(es)
<1>1. /\ b \in Seq(TagEntry) /\ n \in 0..m /\ \A k \in 1..n : b[k] = es[k]
      /\ \A k \in 1..m : k > n => es[k].kind = "Noop"
  BY TrimFacts
<1>2. m \in Nat /\ m # 0
  BY LenProperties, EmptySeq
<1>3. b = <<>> => n = 0
  OBVIOUS
<1> HIDE DEF b, n, m
<1>4. n \in Nat /\ n # 0
  <2>1. 1 \in 1..m
    BY <1>2
  <2>2. ~(1 > n)
    BY <1>1, <2>1
  <2> QED
    BY <1>1, <1>2, <2>2
<1>5. 1 \in 1..n /\ b # <<>>
  BY <1>3, <1>4
<1>6. b[1] = es[1]
  BY <1>1, <1>5
<1>7. Kind(BytesOf(b)) = KindByte[b[1].kind] /\ Values(BytesOf(b)) = b[1].values
  BY <1>1, <1>5, BytesRead
<1> QED
  BY <1>5, <1>6, <1>7 DEF b

(* No part is taken for the beginning of a tag.                             *)
LEMMA KindsOfParts ==
  ASSUME NEW t, NEW parts, AllFit(t, parts), NEW k \in DOMAIN parts
  PROVE  PartEntries(parts)[k].kind \in PartKinds
<1>1. PartEntries(parts)[k] = PartEntry(parts[k])
  BY DEF PartEntries
<1>2. parts[k].name \in {"", "opt", "opaque", "len", "maxlen"}
  BY DEF AllFit, Fits
<1> DEFINE p == parts[k]
<1> HIDE DEF p
<1>3. CASE p.name = ""
  <2>1. PartEntry(p) = Noop
    BY <1>3 DEF PartEntry, Noop
  <2> QED
    BY <1>1, <2>1, NoopFacts DEF PartKinds, p
<1>4. CASE p.name \in {"opt", "opaque", "len", "maxlen"}
  <2>1. PartEntry(p) = [kind |-> PartKind[p.name], values |-> p.values]
    BY <1>4 DEF PartEntry, Codecs!EntryWith
  <2>2. PartKind[p.name] \in PartKinds
    BY <1>4 DEF PartKind, PartKinds
  <2>3. PartEntry(p).kind = PartKind[p.name]
    BY <2>1, KindOfEntry, Zenon
  <2> QED
    BY <1>1, <2>2, <2>3 DEF p
<1> QED
  BY <1>2, <1>3, <1>4 DEF p

(* A parsed tag begins with the entry of its beginning, if it has one.      *)
LEMMA SpeltFacts ==
  ASSUME NEW t \in Types, NEW text, IsText(text), text.lead # "-", NEW u \in Contexts,
         ParseTag(t, text, u).ok
  PROVE  LET es == Spelt(t, text)
         IN  /\ text.lead # "none" =>
                  es # <<>> /\ es[1] = [kind |-> LeadKind(text.lead), values |-> text.values]
             /\ text.lead = "none" /\ es # <<>> => es[1].kind \in PartKinds
<1> DEFINE ls == LeadEntries(text)
           sp == Spelled(t, text.parts)
           pe == PartEntries(sp)
           es == Spelt(t, text)
           x == [kind |-> LeadKind(text.lead), values |-> text.values]
<1>1. Legal(t, text, u) /\ text.lead \in Leads /\ ls \in Seq(TagEntry) /\ pe \in Seq(TagEntry)
  BY ParseTagFacts
<1>2. Lead(t, text, u).ok
  BY <1>1, LeadFacts DEF Legal
<1>3. /\ text.lead # "none" => ls = <<x>>
      /\ text.lead = "none" => ls = <<>>
  BY <1>1, <1>2, LeadBytes
<1>4. es = ls \o pe
  BY DEF Spelt
<1>5. CASE text.lead # "none"
  <2> DEFINE y == <<x>>
  <2>1. ls = y
    BY <1>3, <1>5
  <2>2. Len(y) = 1 /\ y[1] = x
    OBVIOUS
  <2> HIDE DEF x, y, ls, pe, es
  <2>3. /\ es \in Seq(TagEntry) /\ Len(es) = 1 + Len(pe)
        /\ \A k \in 1..(1 + Len(pe)) : es[k] = IF k \leq 1 THEN y[k] ELSE pe[k - 1]
    <3>1. /\ ls \o pe \in Seq(TagEntry) /\ Len(ls \o pe) = Len(ls) + Len(pe)
          /\ \A k \in 1..(Len(ls) + Len(pe)) :
               (ls \o pe)[k] = IF k \leq Len(ls) THEN ls[k] ELSE pe[k - Len(ls)]
      BY <1>1, ConcatProperties
    <3>2. Len(ls) = 1
      BY <2>1, <2>2
    <3> QED
      BY <1>4, <2>1, <3>1, <3>2
  <2>4. Len(pe) \in Nat
    BY <1>1, LenProperties
  <2>5. 1 \in 1..(1 + Len(pe)) /\ Len(es) # 0
    BY <2>3, <2>4
  <2>6. es[1] = y[1]
    BY <2>3, <2>5
  <2>7. es # <<>>
    BY <2>5
  <2> QED
    BY <1>5, <2>2, <2>6, <2>7 DEF es, x
<1>6. CASE text.lead = "none"
  <2>1. es = pe
    <3>1. ls = <<>>
      BY <1>3, <1>6
    <3> HIDE DEF ls, pe, es
    <3> QED
      BY <1>1, <1>4, <3>1, ConcatEmptySeq
  <2> SUFFICES ASSUME es # <<>> PROVE es[1].kind \in PartKinds
    BY <1>6
  <2>2. 1 \in DOMAIN pe
    <3> HIDE DEF pe, es
    <3>1. Len(pe) \in Nat /\ Len(pe) # 0 /\ DOMAIN pe = 1..Len(pe)
      BY <1>1, <2>1, LenProperties, EmptySeq
    <3> QED
      BY <3>1
  <2>3. 1 \in DOMAIN sp
    BY <2>2 DEF PartEntries
  <2>4. AllFit(t, sp)
    BY <1>1 DEF Legal
  <2>5. PartEntries(sp)[1].kind \in PartKinds
    BY <2>3, <2>4, KindsOfParts
  <2> HIDE DEF es
  <2> QED
    BY <2>1, <2>5 DEF es
<1> QED
  BY <1>5, <1>6

ArmLabels(text) == IF text.lead = "cases" THEN text.values ELSE <<>>

(* What makeStructCodec learns of a field: whether it is skipped, the       *)
(* context after it, and in a union the labels of the arm.                  *)
LEMMA FieldFacts ==
  ASSUME NEW t \in Types, NEW text, IsText(text), NEW u \in Contexts
  PROVE  LET p == ParseTag(t, text, u)
         IN  /\ p.isUnion \in Contexts
             /\ p.ok => /\ IsTagBytes(p.tag)
                        /\ Skipped(p) <=> text.lead = "-"
             /\ text.lead = "-" => p.ok /\ p.isUnion = u
             /\ p.ok /\ text.lead # "-" /\ u = "Maybe" =>
                  \/ p.isUnion = "NotInUnion"
                  \/ p.isUnion = "InUnion" /\ text.lead = "switch" /\ Kind(p.tag) = KindByte.UnionSwitch
             /\ p.ok /\ text.lead # "-" /\ u = "NotInUnion" => p.isUnion = "NotInUnion"
             /\ p.ok /\ text.lead # "-" /\ u = "InUnion" =>
                  /\ p.isUnion = "InUnion" /\ text.lead \in {"cases", "default"}
                  /\ LabelsOf(p.tag) = ArmLabels(text)
                  /\ (Kind(p.tag) = KindByte.UnionDefault) <=> text.lead = "default"
<1> DEFINE p == ParseTag(t, text, u)
<1>1. CASE text.lead = "-"
  <2> DEFINE x == [kind |-> "Skip", values |-> <<>>]
  <2>1. p = Tagged(EntryBytes("Skip", <<>>), TRUE, u)
    BY <1>1 DEF ParseTag
  <2>2. p.tag = EntryBytes("Skip", <<>>) /\ p.ok /\ p.isUnion = u
    BY <2>1 DEF Tagged
  <2>3. <<>> \in Seq(Number) /\ Len(<<>>) \in Number
    BY WordsAreNumbers
  <2>4. <<x>> \in Seq(TagEntry) /\ EntryBytes("Skip", <<>>) = BytesOf(<<x>>)
    BY <2>3, EntryOf
  <2> DEFINE y == <<x>>
  <2>5. y[1].kind = "Skip" /\ Len(y) = 1 /\ y # <<>>
    OBVIOUS
  <2> HIDE DEF p, x
  <2>6. IsTrimmed(y)
    <3> HIDE DEF y
    <3> QED
      BY <2>4, <2>5, TrimTwice DEF y
  <2>7. Kind(BytesOf(y)) = KindByte["Skip"]
    <3> HIDE DEF y
    <3> QED
      BY <2>4, <2>5, BytesRead DEF y
  <2>8. Skipped(p)
    BY <2>2, <2>4, <2>7 DEF Skipped
  <2>9. IsTagBytes(p.tag)
    BY <2>2, <2>4, <2>6 DEF IsTagBytes
  <2> QED
    BY <1>1, <2>2, <2>8, <2>9 DEF p
<1>2. CASE text.lead # "-"
  <2> DEFINE es == Spelt(t, text)
  <2>1. /\ p.ok \in BOOLEAN
        /\ p.ok <=> Legal(t, text, u)
        /\ p.isUnion \in Contexts
        /\ p.ok => /\ p.isUnion = ContextAfter(text.lead, u) /\ text.lead \in Leads
                   /\ es \in Seq(TagEntry) /\ p.tag = BytesOf(Trim(es))
    BY <1>2, ParseTagFacts
  <2>2. p.ok => /\ text.lead # "none" =>
                     es # <<>> /\ es[1] = [kind |-> LeadKind(text.lead), values |-> text.values]
                /\ text.lead = "none" /\ es # <<>> => es[1].kind \in PartKinds
    BY <1>2, SpeltFacts
  <2> HIDE DEF p, es
  <2> SUFFICES ASSUME p.ok
               PROVE  /\ IsTagBytes(p.tag) /\ ~Skipped(p)
                      /\ u = "Maybe" =>
                           \/ p.isUnion = "NotInUnion"
                           \/ /\ p.isUnion = "InUnion" /\ text.lead = "switch"
                              /\ Kind(p.tag) = KindByte.UnionSwitch
                      /\ u = "NotInUnion" => p.isUnion = "NotInUnion"
                      /\ u = "InUnion" =>
                           /\ p.isUnion = "InUnion" /\ text.lead \in {"cases", "default"}
                           /\ LabelsOf(p.tag) = ArmLabels(text)
                           /\ Kind(p.tag) = KindByte.UnionDefault <=> text.lead = "default"
    BY <1>2, <2>1 DEF p
  <2>3. /\ p.isUnion = ContextAfter(text.lead, u) /\ text.lead \in Leads
        /\ es \in Seq(TagEntry) /\ p.tag = BytesOf(Trim(es)) /\ Legal(t, text, u)
    BY <2>1
  <2>4. IsTagBytes(p.tag)
    BY <2>3, TrimTwice DEF IsTagBytes
  <2>5. CASE text.lead = "none"
    <3>1. u # "InUnion"
      BY <2>3, <2>5 DEF Legal, LeadFits
    <3>2. p.isUnion = "NotInUnion"
      BY <2>3, <2>5, <3>1 DEF ContextAfter
    <3>3. ~Skipped(p)
      <4> DEFINE b == Trim(es)
      <4>1. b \in Seq(TagEntry) /\ (b = <<>> \/ b[1].kind \in PartKinds)
        <5>1. /\ b \in Seq(TagEntry) /\ Len(b) \in 0..Len(es)
              /\ \A k \in 1..Len(b) : b[k] = es[k]
          BY <2>3, TrimFacts
        <5>2. b # <<>> => 1 \in 1..Len(b) /\ es # <<>>
          <6> DEFINE n == Len(b)
                     m == Len(es)
          <6>1. n \in Nat /\ m \in Nat /\ n \leq m /\ (n = 0 => b = <<>>)
            BY <2>3, <5>1, LenProperties, EmptySeq
          <6>2. es = <<>> => m = 0
            OBVIOUS
          <6> HIDE DEF b, n, m
          <6>3. b # <<>> => 1 \in 1..n /\ m # 0
            BY <6>1
          <6> QED
            BY <6>2, <6>3 DEF n
        <5> HIDE DEF b
        <5> QED
          BY <2>2, <2>5, <5>1, <5>2
      <4> HIDE DEF b
      <4>2. Kind(BytesOf(b)) = KindByte["Noop"] \/ \E k \in PartKinds : Kind(BytesOf(b)) = KindByte[k]
        BY <4>1, BytesRead
      <4>3. \A k \in PartKinds : k \in KindNames /\ k # "Skip"
        BY KindFacts DEF PartKinds
      <4>4. \A k \in PartKinds \cup {"Noop"} : KindByte[k] # KindByte.Skip
        <5>1. "Noop" \in PartKinds
          BY DEF PartKinds
        <5> QED
          BY <4>3, <5>1, KindFacts
      <4> QED
        BY <2>3, <4>2, <4>4 DEF Skipped, b
    <3> QED
      BY <2>4, <2>5, <3>1, <3>2, <3>3
  <2>6. CASE text.lead # "none"
    <3> DEFINE k == LeadKind(text.lead)
               x == [kind |-> k, values |-> text.values]
    <3>1. es # <<>> /\ es[1] = x /\ x.kind = k /\ x.values = text.values
      BY <2>2, <2>6, KindOfEntry
    <3>2. k \in {"UnionSwitch", "UnionDefault", "UnionCases"}
      BY DEF LeadKind
    <3>3. k \in KindNames /\ k # "Noop" /\ k # "Skip"
      BY <3>2, KindFacts
    <3> HIDE DEF k, x
    <3>4. Kind(p.tag) = KindByte[k] /\ Values(p.tag) = text.values
      BY <2>3, <3>1, <3>3, FirstKind
    <3>5. ~Skipped(p)
      BY <3>3, <3>4, KindFacts DEF Skipped
    <3>6. CASE text.lead = "switch"
      <4>1. k = "UnionSwitch"
        BY <3>6 DEF k, LeadKind
      <4>2. u = "Maybe"
        BY <2>3, <3>6 DEF Legal, LeadFits
      <4>3. p.isUnion = "InUnion"
        BY <2>3, <3>6 DEF ContextAfter
      <4> QED
        BY <2>4, <3>4, <3>5, <3>6, <4>1, <4>2, <4>3
    <3>7. CASE text.lead \in {"default", "cases"}
      <4>1. u = "InUnion"
        BY <2>3, <3>7 DEF Legal, LeadFits
      <4>2. p.isUnion = "InUnion"
        BY <2>3, <3>7, <4>1 DEF ContextAfter
      <4>3. (k = "UnionDefault" <=> text.lead = "default") /\ (k = "UnionCases" <=> text.lead = "cases")
        BY <3>7 DEF k, LeadKind
      <4>4. LabelsOf(p.tag) = ArmLabels(text)
        BY <3>3, <3>4, <4>3, KindFacts DEF LabelsOf, ArmLabels
      <4>5. Kind(p.tag) = KindByte.UnionDefault <=> text.lead = "default"
        BY <3>3, <3>4, <4>3, KindFacts
      <4> QED
        BY <2>4, <3>5, <3>7, <4>1, <4>2, <4>4, <4>5
    <3> QED
      BY <2>3, <2>6, <3>6, <3>7 DEF Leads
  <2> QED
    BY <2>5, <2>6
<1> QED
  BY <1>1, <1>2

-----------------------------------------------------------------------------
(* The loop over the fields.  What it knows of the fields before i, in each *)
(* of its phases: before anything is decided they are all skipped; then the *)
(* first that is not is the switch of a union, and every arm after it has   *)
(* entered its labels, or itself as the default.                            *)
LeadAt(s, k) == s[k].text.lead
AllSkipped(s, n) == \A k \in 1..n : LeadAt(s, k) = "-"
SwitchFirst(s, n) ==
  \E x \in 1..n :
    /\ LeadAt(s, x) = "switch"
    /\ \A k \in 1..n : k # x => LeadAt(s, k) = "-" \/ (k > x /\ LeadAt(s, k) \in {"cases", "default"})
ArmsEntered(s, n, cs, d) ==
  \A k \in 1..n :
    /\ LeadAt(s, k) = "default" => d = k
    /\ LeadAt(s, k) = "cases" => \A v \in Range(s[k].text.values) : v \in DOMAIN cs /\ cs[v] = k

KeyBytes == {b \in Seq(Byte) : IsTagBytes(b)}
Phases == {"deciding", "struct", "union", "done"}
TypeInv ==
  /\ struct \in Struct /\ i \in 1..(Len(struct) + 1) /\ isUnion \in Contexts /\ phase \in Phases
  /\ keys \in Seq(Types \X KeyBytes)
  /\ \A v \in DOMAIN cases : cases[v] \in DOMAIN struct
DecidingInv ==
  phase = "deciding" =>
    /\ isUnion = "Maybe" => AllSkipped(struct, i - 1)
    /\ isUnion # "Maybe" => i - 1 \in 1..Len(struct) /\ IsTagBytes(tag)
    /\ isUnion = "InUnion" => /\ Kind(tag) = KindByte.UnionSwitch
                              /\ AllSkipped(struct, i - 2) /\ LeadAt(struct, i - 1) = "switch"
UnionInv ==
  /\ phase = "union" => isUnion = "InUnion"
  /\ phase = "union" \/ codec = "unionCodec" =>
       SwitchFirst(struct, i - 1) /\ ArmsEntered(struct, i - 1, cases, defaultCase)
CodecInv ==
  /\ codec # "unreachable"
  /\ phase # "done" => codec = "none"
  /\ codec = "unionCodec" => i > Len(struct)
IInv == TypeInv /\ DecidingInv /\ UnionInv /\ CodecInv

(* One field more.                                                          *)
LEMMA OneMore ==
  ASSUME NEW s, NEW n \in Nat, NEW cs, NEW d, NEW l, l = LeadAt(s, n + 1)
  PROVE  /\ l = "-" /\ AllSkipped(s, n) => AllSkipped(s, n + 1)
         /\ l = "-" /\ SwitchFirst(s, n) => SwitchFirst(s, n + 1)
         /\ l = "-" /\ ArmsEntered(s, n, cs, d) => ArmsEntered(s, n + 1, cs, d)
         /\ l = "switch" /\ AllSkipped(s, n) =>
              SwitchFirst(s, n + 1) /\ ArmsEntered(s, n + 1, cs, d)
         /\ l \in {"cases", "default"} /\ SwitchFirst(s, n) => SwitchFirst(s, n + 1)
<1>1. /\ n + 1 \in 1..(n + 1)
      /\ \A k \in 1..(n + 1) : k \in 1..n \/ k = n + 1
      /\ \A k \in 1..n : k \in 1..(n + 1) /\ k < n + 1 /\ k # n + 1
  OBVIOUS
<1>2. l = "-" /\ AllSkipped(s, n) => AllSkipped(s, n + 1)
  BY <1>1 DEF AllSkipped
<1>3. ASSUME l \in {"-", "cases", "default"}, SwitchFirst(s, n) PROVE SwitchFirst(s, n + 1)
  <2>1. PICK x \in 1..n :
          /\ LeadAt(s, x) = "switch"
          /\ \A k \in 1..n : k # x => LeadAt(s, k) = "-" \/ (k > x /\ LeadAt(s, k) \in {"cases", "default"})
    BY <1>3 DEF SwitchFirst
  <2>2. x \in 1..(n + 1) /\ n + 1 > x
    BY <1>1
  <2>3. ASSUME NEW k \in 1..(n + 1), k # x
        PROVE  LeadAt(s, k) = "-" \/ (k > x /\ LeadAt(s, k) \in {"cases", "default"})
    <3>1. CASE k \in 1..n
      BY <2>1, <2>3, <3>1
    <3>2. CASE k = n + 1
      BY <1>3, <2>2, <3>2
    <3> QED
      BY <1>1, <3>1, <3>2
  <2> QED
    BY <2>1, <2>2, <2>3 DEF SwitchFirst
<1>4. l = "-" /\ ArmsEntered(s, n, cs, d) => ArmsEntered(s, n + 1, cs, d)
  BY <1>1 DEF ArmsEntered
<1>5. ASSUME l = "switch", AllSkipped(s, n) PROVE SwitchFirst(s, n + 1) /\ ArmsEntered(s, n + 1, cs, d)
  <2>1. \A k \in 1..n : LeadAt(s, k) = "-"
    BY <1>5 DEF AllSkipped
  <2>2. SwitchFirst(s, n + 1)
    BY <1>1, <1>5, <2>1 DEF SwitchFirst
  <2>3. ArmsEntered(s, n + 1, cs, d)
    BY <1>1, <1>5, <2>1 DEF ArmsEntered
  <2> QED
    BY <2>2, <2>3
<1> QED
  BY <1>2, <1>3, <1>4, <1>5

(* One arm more, none of whose labels has been seen, and no second default. *)
LEMMA OneArm ==
  ASSUME NEW s, NEW n \in Nat, NEW cs, NEW d, ArmsEntered(s, n, cs, d),
         LeadAt(s, n + 1) \in {"cases", "default"},
         NEW labels, labels = ArmLabels(s[n + 1].text), labels \in Seq(Range(labels)),
         \A k \in DOMAIN labels : labels[k] \notin DOMAIN cs,
         LeadAt(s, n + 1) = "default" => d = 0,
         NEW cs2, cs2 = [v \in DOMAIN cs \cup Range(labels) |-> IF v \in DOMAIN cs THEN cs[v] ELSE n + 1],
         NEW d2, d2 = IF LeadAt(s, n + 1) = "default" THEN n + 1 ELSE d
  PROVE  ArmsEntered(s, n + 1, cs2, d2)
<1>1. /\ \A k \in 1..(n + 1) : k \in 1..n \/ k = n + 1
      /\ \A k \in 1..n : k # 0
  OBVIOUS
<1>2. \A v \in Range(labels) : v \notin DOMAIN cs
  BY DEF Range
<1>3. ASSUME NEW k \in 1..n, LeadAt(s, k) = "default" PROVE d2 = k
  <2>1. d = k
    BY <1>3 DEF ArmsEntered
  <2> QED
    BY <1>1, <2>1
<1>4. ASSUME NEW k \in 1..n, LeadAt(s, k) = "cases", NEW v \in Range(s[k].text.values)
      PROVE  v \in DOMAIN cs2 /\ cs2[v] = k
  <2>1. v \in DOMAIN cs /\ cs[v] = k
    BY <1>4 DEF ArmsEntered
  <2> QED
    BY <2>1
<1>5. LeadAt(s, n + 1) = "default" => d2 = n + 1
  OBVIOUS
<1>6. ASSUME LeadAt(s, n + 1) = "cases", NEW v \in Range(s[n + 1].text.values)
      PROVE  v \in DOMAIN cs2 /\ cs2[v] = n + 1
  <2>1. labels = s[n + 1].text.values
    BY <1>6 DEF ArmLabels, LeadAt
  <2> QED
    BY <1>2, <1>6, <2>1
<1> QED
  BY <1>1, <1>3, <1>4, <1>5, <1>6 DEF ArmsEntered

(* The fields of a struct have types and texts.                             *)
LEMMA StructFacts ==
  ASSUME NEW s \in Struct
  PROVE  /\ Len(s) \in Nat /\ DOMAIN s = 1..Len(s)
         /\ \A k \in 1..Len(s) : s[k].type \in Types /\ IsText(s[k].text)
<1>1. s \in Seq(Range(s)) /\ \A f \in Range(s) : f.type \in Types /\ IsText(f.text)
  BY StructAssumption DEF Types
<1>2. Len(s) \in Nat /\ DOMAIN s = 1..Len(s) /\ \A k \in 1..Len(s) : s[k] \in Range(s)
  BY <1>1, LenProperties
<1> QED
  BY <1>1, <1>2

(* The next field in the current context.                                   *)
FieldSeen(p, l, text) ==
  /\ p.isUnion \in Contexts
  /\ p.ok => /\ IsTagBytes(p.tag)
             /\ Skipped(p) <=> l = "-"
  /\ l = "-" => p.ok /\ p.isUnion = isUnion
  /\ p.ok /\ l # "-" /\ isUnion = "Maybe" =>
       \/ p.isUnion = "NotInUnion"
       \/ p.isUnion = "InUnion" /\ l = "switch" /\ Kind(p.tag) = KindByte.UnionSwitch
  /\ p.ok /\ l # "-" /\ isUnion = "NotInUnion" => p.isUnion = "NotInUnion"
  /\ p.ok /\ l # "-" /\ isUnion = "InUnion" =>
       /\ p.isUnion = "InUnion" /\ l \in {"cases", "default"}
       /\ LabelsOf(p.tag) = ArmLabels(text)
       /\ (Kind(p.tag) = KindByte.UnionDefault) <=> l = "default"

(* All that is known of the field that the loop is at.                      *)
LEMMA FieldNow ==
  ASSUME TypeInv, Reading
  PROVE  /\ i \in 1..Len(struct) /\ i \in Nat /\ Len(struct) \in Nat /\ i - 1 \in Nat
         /\ i + 1 \in 1..(Len(struct) + 1) /\ (i + 1) - 1 = i /\ (i - 1) + 1 = i
         /\ DOMAIN struct = 1..Len(struct)
         /\ struct[i].type \in Types /\ IsText(struct[i].text)
         /\ FieldSeen(Field, LeadAt(struct, i), struct[i].text)
<1>1. /\ Len(struct) \in Nat /\ DOMAIN struct = 1..Len(struct)
      /\ \A k \in 1..Len(struct) : struct[k].type \in Types /\ IsText(struct[k].text)
  BY StructFacts DEF TypeInv
<1>2. i \in 1..(Len(struct) + 1) /\ i \leq Len(struct) /\ isUnion \in Contexts
  BY DEF TypeInv, Reading
<1>3. i \in 1..Len(struct) /\ i \in Nat /\ i - 1 \in Nat /\ i + 1 \in 1..(Len(struct) + 1)
      /\ (i + 1) - 1 = i /\ (i - 1) + 1 = i
  BY <1>1, <1>2
<1>4. struct[i].type \in Types /\ IsText(struct[i].text)
  BY <1>1, <1>3
<1>5. FieldSeen(ParseTag(struct[i].type, struct[i].text, isUnion), struct[i].text.lead, struct[i].text)
  BY <1>2, <1>4, FieldFacts DEF FieldSeen
<1> QED
  BY <1>1, <1>3, <1>4, <1>5 DEF Field, LeadAt

(* The key of a field, with its tag and with what Next leaves of it.        *)
LEMMA KeyFacts ==
  ASSUME NEW f, f.type \in Types, NEW xt, IsTagBytes(xt)
  PROVE  /\ makeField(f, xt) \in Types \X KeyBytes
         /\ makeField(f, NextTag(xt)) \in Types \X KeyBytes
BY TagBytesFacts DEF makeField, ByteString, KeyBytes

(* A struct of which nothing has been read.                                 *)
LEMMA InitInv == Init => IInv
<1> SUFFICES ASSUME Init PROVE IInv
  OBVIOUS
<1>1. Len(struct) \in Nat
  BY StructFacts DEF Init
<1>2. TypeInv
  BY <1>1 DEF Init, TypeInv, Contexts, Phases
<1>3. DecidingInv
  BY DEF Init, DecidingInv, AllSkipped
<1>4. UnionInv /\ CodecInv
  BY DEF Init, UnionInv, CodecInv
<1> QED
  BY <1>2, <1>3, <1>4 DEF IInv

(* A field that is skipped changes only i.                                  *)
LEMMA SkipFieldInv == IInv /\ SkipField => IInv'
<1> SUFFICES ASSUME IInv, SkipField PROVE IInv'
  OBVIOUS
<1> USE DEF IInv
<1>1. /\ Reading /\ Field.ok /\ Skipped(Field)
      /\ i' = i + 1 /\ isUnion' = Field.isUnion /\ tag' = Field.tag
      /\ UNCHANGED <<struct, phase, keys, cases, defaultCase, codec>>
  BY DEF SkipField
<1>2. /\ i \in 1..Len(struct) /\ i \in Nat /\ Len(struct) \in Nat /\ i - 1 \in Nat
      /\ i + 1 \in 1..(Len(struct) + 1) /\ (i + 1) - 1 = i /\ (i - 1) + 1 = i
      /\ FieldSeen(Field, LeadAt(struct, i), struct[i].text)
  BY <1>1, FieldNow
<1>3. LeadAt(struct, i) = "-" /\ isUnion' = isUnion
  BY <1>1, <1>2 DEF FieldSeen
<1> DEFINE n == i - 1
<1>4. n \in Nat /\ n + 1 = i /\ i' - 1 = n + 1
  BY <1>1, <1>2
<1> HIDE DEF n
<1>5. /\ AllSkipped(struct, n) => AllSkipped(struct, n + 1)
      /\ SwitchFirst(struct, n) => SwitchFirst(struct, n + 1)
      /\ ArmsEntered(struct, n, cases, defaultCase) => ArmsEntered(struct, n + 1, cases, defaultCase)
  BY <1>3, <1>4, OneMore
<1>6. TypeInv'
  BY <1>1, <1>2, <1>3 DEF TypeInv
<1>7. phase = "deciding" => isUnion = "Maybe"
  BY <1>1 DEF Reading
<1>8. DecidingInv'
  BY <1>1, <1>3, <1>4, <1>5, <1>7 DEF DecidingInv, n
<1>9. CodecInv' /\ codec = "none"
  BY <1>1 DEF CodecInv, Reading
<1>10. UnionInv'
  BY <1>1, <1>3, <1>4, <1>5, <1>9 DEF UnionInv, n
<1> QED
  BY <1>6, <1>8, <1>9, <1>10

(* The first field that is not skipped decides.                             *)
LEMMA DecidingFieldInv == IInv /\ DecidingField => IInv'
<1> SUFFICES ASSUME IInv, DecidingField PROVE IInv'
  OBVIOUS
<1> USE DEF IInv
<1>1. /\ Reading /\ phase = "deciding" /\ Field.ok /\ ~Skipped(Field)
      /\ i' = i + 1 /\ isUnion' = Field.isUnion /\ tag' = Field.tag
      /\ IF Field.isUnion = "Maybe" THEN Return("unreachable") ELSE UNCHANGED <<phase, codec>>
      /\ UNCHANGED <<struct, keys, cases, defaultCase>>
  BY DEF DecidingField
<1>2. /\ i \in 1..Len(struct) /\ i \in Nat /\ Len(struct) \in Nat /\ i - 1 \in Nat
      /\ i + 1 \in 1..(Len(struct) + 1) /\ (i + 1) - 1 = i
      /\ FieldSeen(Field, LeadAt(struct, i), struct[i].text)
  BY <1>1, FieldNow
<1>3. isUnion = "Maybe" /\ AllSkipped(struct, i - 1)
  BY <1>1 DEF Reading, DecidingInv
<1>4. /\ IsTagBytes(Field.tag) /\ Field.isUnion \in Contexts
      /\ \/ Field.isUnion = "NotInUnion"
         \/ /\ Field.isUnion = "InUnion" /\ LeadAt(struct, i) = "switch"
            /\ Kind(Field.tag) = KindByte.UnionSwitch
  BY <1>1, <1>2, <1>3 DEF FieldSeen
<1>5. UNCHANGED <<phase, codec>> /\ Field.isUnion # "Maybe"
  BY <1>1, <1>4
<1> DEFINE p == Field
<1> HIDE DEF p
<1>6. TypeInv'
  BY <1>1, <1>2, <1>4, <1>5 DEF TypeInv
<1>7. (i + 1) - 2 = i - 1
  BY <1>2
<1>8. DecidingInv'
  BY <1>1, <1>2, <1>3, <1>4, <1>5, <1>7 DEF DecidingInv
<1>9. CodecInv' /\ codec = "none"
  BY <1>1, <1>5 DEF CodecInv
<1>10. UnionInv'
  BY <1>1, <1>5, <1>9 DEF UnionInv
<1> QED
  BY <1>6, <1>8, <1>9, <1>10

(* An illegal tag ends the loop.                                            *)
LEMMA ParseErrorInv == IInv /\ ParseError => IInv'
<1> SUFFICES ASSUME IInv, ParseError PROVE IInv'
  OBVIOUS
<1> USE DEF IInv
<1>1. /\ Reading /\ phase' = "done" /\ codec' = "errorCodec" /\ isUnion' = Field.isUnion
      /\ UNCHANGED <<struct, i, tag, keys, cases, defaultCase>>
  BY DEF ParseError, Return
<1>2. Field.isUnion \in Contexts
  BY <1>1, FieldNow DEF FieldSeen
<1>3. TypeInv'
  BY <1>1, <1>2 DEF TypeInv, Phases
<1> QED
  BY <1>1, <1>3 DEF DecidingInv, UnionInv, CodecInv

(* The first field is the switch of a union or any field of a struct.       *)
LEMMA SettleInv == IInv /\ Settle => IInv'
<1> SUFFICES ASSUME IInv, Settle PROVE IInv'
  OBVIOUS
<1> USE DEF IInv
<1>1. /\ phase = "deciding" /\ (isUnion # "Maybe" \/ i > Len(struct))
      /\ UNCHANGED <<struct, i, isUnion, tag, cases, defaultCase>>
  BY DEF Settle
<1>2. /\ isUnion \in Contexts /\ codec = "none"
      /\ i \in 1..(Len(struct) + 1) /\ Len(struct) \in Nat
      /\ \A k \in 1..Len(struct) : struct[k].type \in Types
  BY <1>1, StructFacts DEF TypeInv, CodecInv
<1>3. CASE isUnion = "Maybe"
  <2>1. phase' = "done" /\ codec' = "structCodec" /\ keys' = keys
    BY <1>3 DEF Settle, Return
  <2>2. TypeInv'
    BY <1>1, <2>1 DEF TypeInv, Phases
  <2> QED
    BY <2>1, <2>2 DEF DecidingInv, UnionInv, CodecInv
<1>4. CASE isUnion = "NotInUnion"
  <2>1. phase' = "struct" /\ keys' = <<makeField(struct[i - 1], tag)>> /\ codec' = codec
    BY <1>4 DEF Settle
  <2>2. i - 1 \in 1..Len(struct) /\ IsTagBytes(tag)
    BY <1>1, <1>4 DEF DecidingInv
  <2>3. makeField(struct[i - 1], tag) \in Types \X KeyBytes
    BY <1>2, <2>2, KeyFacts
  <2>4. keys' \in Seq(Types \X KeyBytes)
    BY <2>1, <2>3
  <2>5. TypeInv'
    BY <1>1, <2>1, <2>4 DEF TypeInv, Phases
  <2> QED
    BY <1>2, <2>1, <2>5 DEF DecidingInv, UnionInv, CodecInv
<1>5. CASE isUnion = "InUnion"
  <2>1. /\ i - 1 \in 1..Len(struct) /\ IsTagBytes(tag) /\ Kind(tag) = KindByte.UnionSwitch
        /\ AllSkipped(struct, i - 2) /\ LeadAt(struct, i - 1) = "switch"
    BY <1>1, <1>5 DEF DecidingInv
  <2>2. CASE KindOf(struct[i - 1].type) \notin {"int32", "uint32", "bool"}
    <3>1. phase' = "done" /\ codec' = "panic" /\ keys' = keys
      BY <1>5, <2>1, <2>2 DEF Settle, Return
    <3>2. TypeInv'
      BY <1>1, <3>1 DEF TypeInv, Phases
    <3> QED
      BY <3>1, <3>2 DEF DecidingInv, UnionInv, CodecInv
  <2>3. CASE KindOf(struct[i - 1].type) \in {"int32", "uint32", "bool"}
    <3>1. phase' = "union" /\ keys' = <<makeField(struct[i - 1], NextTag(tag))>> /\ codec' = codec
      BY <1>5, <2>1, <2>3 DEF Settle
    <3>2. makeField(struct[i - 1], NextTag(tag)) \in Types \X KeyBytes
      BY <1>2, <2>1, KeyFacts
    <3>3. keys' \in Seq(Types \X KeyBytes)
      BY <3>1, <3>2
    <3>4. TypeInv'
      BY <1>1, <3>1, <3>3 DEF TypeInv, Phases
    <3> DEFINE n == i - 2
    <3>5. n \in Nat /\ n + 1 = i - 1
      BY <1>2, <2>1
    <3>6. SwitchFirst(struct, i - 1) /\ ArmsEntered(struct, i - 1, cases, defaultCase)
      <4>1. AllSkipped(struct, n) /\ LeadAt(struct, n + 1) = "switch"
        BY <2>1, <3>5
      <4> HIDE DEF n
      <4>2. SwitchFirst(struct, n + 1) /\ ArmsEntered(struct, n + 1, cases, defaultCase)
        BY <3>5, <4>1, OneMore
      <4> QED
        BY <3>5, <4>2
    <3> QED
      BY <1>1, <1>2, <1>5, <3>1, <3>4, <3>6 DEF DecidingInv, UnionInv, CodecInv
  <2> QED
    BY <2>2, <2>3
<1> QED
  BY <1>2, <1>3, <1>4, <1>5 DEF Contexts

(* A field of a struct adds its key, or none if it is skipped.              *)
LEMMA StructFieldInv == IInv /\ StructField => IInv'
<1> SUFFICES ASSUME IInv, StructField PROVE IInv'
  OBVIOUS
<1> USE DEF IInv
<1>1. /\ Reading /\ phase = "struct" /\ Field.ok /\ ~Skipped(Field)
      /\ i' = i + 1 /\ isUnion' = Field.isUnion /\ tag' = Field.tag
      /\ keys' = Append(keys, makeField(struct[i], Field.tag))
      /\ UNCHANGED <<struct, phase, cases, defaultCase, codec>>
  BY DEF StructField
<1>2. /\ i + 1 \in 1..(Len(struct) + 1) /\ struct[i].type \in Types
      /\ FieldSeen(Field, LeadAt(struct, i), struct[i].text)
  BY <1>1, FieldNow
<1>3. IsTagBytes(Field.tag) /\ Field.isUnion \in Contexts
  BY <1>1, <1>2 DEF FieldSeen
<1>4. keys \in Seq(Types \X KeyBytes) /\ makeField(struct[i], Field.tag) \in Types \X KeyBytes
  BY <1>2, <1>3, KeyFacts DEF TypeInv
<1>5. keys' \in Seq(Types \X KeyBytes)
  BY <1>1, <1>4, AppendProperties
<1>6. TypeInv'
  BY <1>1, <1>2, <1>3, <1>5 DEF TypeInv
<1>7. codec = "none"
  BY <1>1 DEF CodecInv
<1> QED
  BY <1>1, <1>6, <1>7 DEF DecidingInv, UnionInv, CodecInv

(* An arm of a union, whose labels are all new.                             *)
LEMMA UnionArmInv == IInv /\ UnionArm => IInv'
<1> SUFFICES ASSUME IInv, UnionArm PROVE IInv'
  OBVIOUS
<1> USE DEF IInv
<1> DEFINE labels == LabelsOf(Field.tag)
           isDefault == Kind(Field.tag) = KindByte.UnionDefault
<1>1. /\ Reading /\ phase = "union" /\ Field.ok /\ ~Skipped(Field)
      /\ i' = i + 1 /\ isUnion' = Field.isUnion /\ tag' = Field.tag
      /\ keys' = Append(keys, makeField(struct[i], NextTag(Field.tag)))
      /\ struct' = struct
  BY DEF UnionArm
<1>2. /\ i \in 1..Len(struct) /\ i \in Nat /\ Len(struct) \in Nat /\ i - 1 \in Nat
      /\ i + 1 \in 1..(Len(struct) + 1) /\ (i + 1) - 1 = i /\ (i - 1) + 1 = i
      /\ DOMAIN struct = 1..Len(struct) /\ struct[i].type \in Types /\ IsText(struct[i].text)
      /\ FieldSeen(Field, LeadAt(struct, i), struct[i].text)
  BY <1>1, FieldNow
<1>3. isUnion = "InUnion" /\ SwitchFirst(struct, i - 1) /\ ArmsEntered(struct, i - 1, cases, defaultCase)
  BY <1>1 DEF UnionInv
<1>4. /\ IsTagBytes(Field.tag) /\ Field.isUnion = "InUnion" /\ LeadAt(struct, i) \in {"cases", "default"}
      /\ labels = ArmLabels(struct[i].text) /\ (isDefault <=> LeadAt(struct, i) = "default")
  BY <1>1, <1>2, <1>3 DEF FieldSeen
<1>5. keys' \in Seq(Types \X KeyBytes)
  <2>1. keys \in Seq(Types \X KeyBytes) /\ makeField(struct[i], NextTag(Field.tag)) \in Types \X KeyBytes
    BY <1>2, <1>4, KeyFacts DEF TypeInv
  <2> QED
    BY <1>1, <2>1, AppendProperties
<1>6. codec = "none"
  BY <1>1 DEF CodecInv
<1>7. CASE SomeSeen(labels) \/ (isDefault /\ defaultCase # 0)
  <2>1. phase' = "done" /\ codec' = "errorCodec" /\ UNCHANGED <<cases, defaultCase>>
    BY <1>7 DEF UnionArm, Return
  <2>2. TypeInv'
    BY <1>1, <1>2, <1>4, <1>5, <2>1 DEF TypeInv, Contexts, Phases
  <2> QED
    BY <2>1, <2>2 DEF DecidingInv, UnionInv, CodecInv
<1>8. CASE ~(SomeSeen(labels) \/ (isDefault /\ defaultCase # 0))
  <2>1. /\ cases' = [v \in DOMAIN cases \cup Range(labels) |-> IF v \in DOMAIN cases THEN cases[v] ELSE i]
        /\ defaultCase' = IF isDefault THEN i ELSE defaultCase
        /\ UNCHANGED <<phase, codec>>
    BY <1>8 DEF UnionArm
  <2>2. labels \in Seq(Range(labels))
    <3>1. struct[i].text.values \in Seq(Range(struct[i].text.values))
      BY <1>2 DEF IsText, AreWords
    <3>2. <<>> \in Seq(Range(<<>>))
      OBVIOUS
    <3> QED
      BY <1>4, <3>1, <3>2 DEF ArmLabels
  <2>3. \A k \in DOMAIN labels : labels[k] \notin DOMAIN cases
    BY <1>8 DEF SomeSeen
  <2>4. LeadAt(struct, i) = "default" => defaultCase = 0
    BY <1>4, <1>8
  <2>5. defaultCase' = IF LeadAt(struct, i) = "default" THEN i ELSE defaultCase
    BY <1>4, <2>1
  <2> DEFINE n == i - 1
  <2>6. n \in Nat /\ n + 1 = i
    BY <1>2
  <2>7. ArmsEntered(struct, i, cases', defaultCase')
    <3> HIDE DEF n, labels, isDefault
    <3>1. ArmsEntered(struct, n, cases, defaultCase)
      BY <1>3 DEF n
    <3>2. ArmsEntered(struct, n + 1, cases', defaultCase')
      BY <1>4, <2>1, <2>2, <2>3, <2>4, <2>5, <2>6, <3>1, OneArm, ZenonT(60)
    <3> QED
      BY <2>6, <3>2
  <2>8. SwitchFirst(struct, i)
    <3> HIDE DEF labels, isDefault
    <3>1. SwitchFirst(struct, n)
      BY <1>3
    <3> HIDE DEF n
    <3>2. SwitchFirst(struct, n + 1)
      BY <1>4, <2>6, <3>1, OneMore
    <3> QED
      BY <2>6, <3>2
  <2>9. \A v \in DOMAIN cases' : cases'[v] \in DOMAIN struct
    <3>1. \A v \in DOMAIN cases : cases[v] \in DOMAIN struct
      BY DEF TypeInv
    <3> HIDE DEF labels, isDefault
    <3> QED
      BY <1>2, <2>1, <3>1
  <2> HIDE DEF labels, isDefault
  <2>10. TypeInv'
    BY <1>1, <1>2, <1>4, <1>5, <2>1, <2>9 DEF TypeInv, Contexts
  <2>11. UnionInv'
    BY <1>1, <1>2, <1>4, <2>1, <2>7, <2>8 DEF UnionInv
  <2>12. DecidingInv' /\ CodecInv'
    BY <1>1, <1>6, <2>1 DEF DecidingInv, CodecInv
  <2> QED
    BY <2>10, <2>11, <2>12
<1> QED
  BY <1>7, <1>8

(* The end of the fields of a struct or a union.                            *)
LEMMA FinishInv == IInv /\ Finish => IInv'
<1> SUFFICES ASSUME IInv, Finish PROVE IInv'
  OBVIOUS
<1> USE DEF IInv
<1>1. /\ phase \in {"struct", "union"} /\ i > Len(struct) /\ phase' = "done"
      /\ codec' = IF phase = "struct" THEN "structCodec" ELSE "unionCodec"
      /\ UNCHANGED <<struct, i, isUnion, tag, keys, cases, defaultCase>>
  BY DEF Finish, Return
<1>2. TypeInv'
  BY <1>1 DEF TypeInv, Phases
<1>3. UnionInv'
  BY <1>1 DEF UnionInv
<1> QED
  BY <1>1, <1>2, <1>3 DEF DecidingInv, CodecInv

(* Every step of the loop.                                                  *)
LEMMA StepInv == IInv /\ [Next]_vars => IInv'
<1> SUFFICES ASSUME IInv, [Next]_vars PROVE IInv'
  OBVIOUS
<1>1. CASE UNCHANGED vars
  BY <1>1 DEF vars, IInv, TypeInv, DecidingInv, UnionInv, CodecInv
<1>2. CASE Next
  BY <1>2, ParseErrorInv, SkipFieldInv, DecidingFieldInv, SettleInv, StructFieldInv, UnionArmInv,
     FinishInv DEF Next
<1> QED
  BY <1>1, <1>2

-----------------------------------------------------------------------------
(* The loop of makeStructCodec never decides on a field it has forgotten:   *)
(* until the first field that is not skipped nothing is decided, in a union *)
(* the switch stays the first and every arm keeps the labels that lead to   *)
(* it, and all keys are bytes of trimmed tags.                              *)
THEOREM Invariance == Spec => []IInv
BY InitInv, StepInv, PTL DEF Spec

(* Fields, keys and case labels are what the loop takes them for.           *)
THEOREM TypeCorrect == Spec => []TypeOK
<1>1. ASSUME IInv PROVE TypeOK
  <2>1. TypeInv
    BY <1>1 DEF IInv
  <2>2. \A k \in DOMAIN keys : keys[k] \in Types \X KeyBytes
    <3>1. keys \in Seq(Types \X KeyBytes)
      BY <2>1 DEF TypeInv
    <3> QED
      BY <3>1, LenProperties
  <2>3. \A k \in DOMAIN keys : keys[k] \in (DOMAIN TypeDef) \X Seq(0..255)
    BY <2>2 DEF Types, KeyBytes, Byte
  <2> QED
    BY <2>1, <2>3 DEF TypeInv, TypeOK, Contexts, Phases
<1> QED
  BY <1>1, Invariance, PTL

(* The panics that the code calls unreachable are: the first field that is  *)
(* not skipped always settles the context, and a union's begins with its    *)
(* switch.                                                                  *)
THEOREM PanicsUnreachable == Spec => []NoImpossiblePanic
<1>1. IInv => NoImpossiblePanic
  BY DEF IInv, CodecInv, NoImpossiblePanic
<1> QED
  BY <1>1, Invariance, PTL

(* A union codec stands for a switch and arms, none of whose labels, and    *)
(* no default, is there twice; each label leads to the field that names it. *)
THEOREM UnionsHaveTheirShape == Spec => []UnionShape
<1>1. ASSUME IInv PROVE UnionShape
  <2> SUFFICES ASSUME codec = "unionCodec" PROVE UnionShape
    BY DEF UnionShape
  <2> DEFINE arms == {k \in DOMAIN struct : struct[k].text.lead \in {"cases", "default"}}
             values(k) == struct[k].text.values
  <2>1. /\ struct \in Struct /\ i \in 1..(Len(struct) + 1) /\ i > Len(struct)
        /\ SwitchFirst(struct, i - 1) /\ ArmsEntered(struct, i - 1, cases, defaultCase)
    BY <1>1 DEF IInv, TypeInv, UnionInv, CodecInv
  <2>2. /\ Len(struct) \in Nat /\ DOMAIN struct = 1..Len(struct)
        /\ \A k \in 1..Len(struct) : IsText(struct[k].text)
    BY <2>1, StructFacts
  <2>3. i - 1 = Len(struct)
    BY <2>1, <2>2
  <2>4. SwitchFirst(struct, Len(struct)) /\ ArmsEntered(struct, Len(struct), cases, defaultCase)
    BY <2>1, <2>3
  <2>5. \E s \in DOMAIN struct :
          /\ struct[s].text.lead = "switch"
          /\ \A k \in DOMAIN struct : k # s => struct[k].text.lead = "-" \/ (k > s /\ k \in arms)
    <3>1. PICK s \in 1..Len(struct) :
            /\ LeadAt(struct, s) = "switch"
            /\ \A k \in 1..Len(struct) : k # s =>
                 LeadAt(struct, k) = "-" \/ (k > s /\ LeadAt(struct, k) \in {"cases", "default"})
      BY <2>4 DEF SwitchFirst
    <3>2. ASSUME NEW k \in DOMAIN struct, k # s
          PROVE  struct[k].text.lead = "-" \/ (k > s /\ k \in arms)
      BY <2>2, <3>1, <3>2 DEF LeadAt
    <3> QED
      BY <2>2, <3>1, <3>2 DEF LeadAt
  <2>6. ASSUME NEW k \in arms
        PROVE  /\ struct[k].text.lead = "default" => defaultCase = k /\ Range(values(k)) = {}
               /\ struct[k].text.lead # "default" =>
                    \A v \in Range(values(k)) : v \in DOMAIN cases /\ cases[v] = k
    <3>1. k \in 1..Len(struct) /\ struct[k].text.lead \in {"cases", "default"} /\ IsText(struct[k].text)
      BY <2>2
    <3>2. /\ struct[k].text.lead = "default" => defaultCase = k
          /\ struct[k].text.lead = "cases" =>
               \A v \in Range(values(k)) : v \in DOMAIN cases /\ cases[v] = k
      BY <2>4, <3>1 DEF ArmsEntered, LeadAt
    <3>3. struct[k].text.lead = "default" => values(k) = <<>>
      BY <3>1 DEF IsText
    <3>4. Range(<<>>) = {}
      BY DEF Range
    <3> QED
      BY <3>1, <3>2, <3>3, <3>4
  <2>7. ASSUME NEW k \in arms, NEW l \in arms
        PROVE  /\ \A v \in Range(values(k)) : v \in Range(values(l)) => k = l
               /\ struct[k].text.lead = "default" /\ struct[l].text.lead = "default" => k = l
    <3> HIDE DEF arms, values
    <3> QED
      BY <2>6 DEF values
  <2>8. ASSUME NEW k \in arms
        PROVE  IF struct[k].text.lead = "default" THEN defaultCase = k
               ELSE \A v \in Range(struct[k].text.values) : cases[v] = k
    <3> HIDE DEF arms
    <3> QED
      BY <2>6
  <2> HIDE DEF arms
  <2>9. \A k, l \in arms :
          /\ \A v \in Range(struct[k].text.values) : v \in Range(struct[l].text.values) => k = l
          /\ struct[k].text.lead = "default" /\ struct[l].text.lead = "default" => k = l
    BY <2>7
  <2> QED
    BY <2>5, <2>8, <2>9 DEF UnionShape, arms
<1> QED
  BY <1>1, Invariance, PTL

(* Two keys that are equal as strings are equal as options, and no key has  *)
(* a Noop at its end; stripping `opt` from a key is the same on its bytes   *)
(* as on its entries.                                                       *)
LEMMA StripFacts ==
  ASSUME NEW es \in Seq(TagEntry), es # <<>>, NEW t
  PROVE  Entries(TrimmedTag(Prepend(NextTag(BytesOf(es)), "Noop", <<>>)))
           = Codecs!makeOptCodec(t, es).elems[1][2]
<1> DEFINE r == Tail(es)
           y == <<Noop>>
           z == y \o r
<1>1. r \in Seq(TagEntry) /\ NextTag(BytesOf(es)) = BytesOf(r)
  BY BytesRead
<1>2. y \in Seq(TagEntry) /\ BytesOf(y) = EntryBytes("Noop", <<>>)
  <2>1. Noop \in TagEntry /\ EntryBytes("Noop", <<>>) = Written(Noop)
    BY NoopFacts
  <2> QED
    BY <2>1, BytesOne
<1>3. Codecs!makeOptCodec(t, es).elems[1][2] = Codecs!Trimmed(z)
  <2> DEFINE w == Codecs!Trimmed(z)
             k == <<t, w>>
  <2>1. Codecs!TagNext(es) = r
    BY DEF Codecs!TagNext
  <2>2. Codecs!makeOptCodec(t, es) = Codecs!codecOf("optCodec", <<k>>)
    BY <2>1 DEF Codecs!makeOptCodec, Noop
  <2> HIDE DEF w
  <2>3. Codecs!codecOf("optCodec", <<k>>).elems = <<k>>
    BY DEF Codecs!codecOf
  <2>4. <<k>>[1] = k /\ k[2] = w
    OBVIOUS
  <2> HIDE DEF k
  <2> QED
    BY <2>2, <2>3, <2>4 DEF w
<1> HIDE DEF r, y
<1>4. z \in Seq(TagEntry) /\ BytesOf(z) = BytesOf(y) \o BytesOf(r)
  BY <1>1, <1>2, BytesConcat, ConcatProperties
<1> HIDE DEF z
<1>5. Prepend(NextTag(BytesOf(es)), "Noop", <<>>) = BytesOf(z)
  BY <1>1, <1>2, <1>4 DEF Prepend
<1>6. TrimmedTag(BytesOf(z)) = BytesOf(Trim(z)) /\ Trim(z) \in Seq(TagEntry)
  BY <1>4, TrimFacts
<1>7. Entries(BytesOf(Trim(z))) = Trim(z) /\ Codecs!Trimmed(z) = Trim(z)
  BY <1>4, <1>6, EntriesFacts, TrimmedEntries
<1> QED
  BY <1>3, <1>5, <1>6, <1>7

(* The bytes that a codec is registered under are those of its options and  *)
(* of nothing else, and stripping `opt` from them is what TypeCodecs says   *)
(* it is.                                                                   *)
THEOREM KeysCanonical == Spec => []KeysAreCanonical
<1>1. ASSUME IInv PROVE KeysAreCanonical
  <2> SUFFICES ASSUME NEW k \in DOMAIN keys
               PROVE  LET b == keys[k][2]
                          e == Entries(b)
                      IN  /\ BytesOf(e) = b
                          /\ Codecs!Trimmed(e) = e
                          /\ Codecs!TagKind(e) = "Opt" =>
                               Entries(TrimmedTag(Prepend(NextTag(b), "Noop", <<>>)))
                                 = Codecs!makeOptCodec(keys[k][1], e).elems[1][2]
    BY DEF KeysAreCanonical
  <2> DEFINE b == keys[k][2]
  <2>1. b \in KeyBytes
    <3>1. keys \in Seq(Types \X KeyBytes)
      BY <1>1 DEF IInv, TypeInv
    <3>2. keys[k] \in Types \X KeyBytes
      BY <3>1, LenProperties
    <3> QED
      BY <3>2
  <2>2. PICK es : IsTrimmed(es) /\ b = BytesOf(es)
    BY <2>1 DEF KeyBytes, IsTagBytes
  <2>3. es \in Seq(TagEntry) /\ Trim(es) = es
    BY <2>2 DEF IsTrimmed
  <2>4. Entries(b) = es
    BY <2>2, <2>3, EntriesFacts
  <2>5. Codecs!Trimmed(es) = es
    BY <2>3, TrimmedEntries
  <2>6. Codecs!TagKind(es) = "Opt" => es # <<>>
    BY DEF Codecs!TagKind
  <2> DEFINE t == keys[k][1]
  <2> HIDE DEF b, t
  <2>7. Codecs!TagKind(es) = "Opt" =>
          Entries(TrimmedTag(Prepend(NextTag(b), "Noop", <<>>)))
            = Codecs!makeOptCodec(t, es).elems[1][2]
    BY <2>2, <2>3, <2>6, StripFacts
  <2> QED
    BY <2>2, <2>4, <2>5, <2>7 DEF b, t
<1> QED
  BY <1>1, Invariance, PTL

(* A tag is legal exactly when each of its parts fits the layer it speaks   *)
(* of, and is then parsed into an entry for each of them.                   *)
THEOREM LayersGetTheirOptions == Spec => []EveryLayerGetsItsOption
<1>1. ASSUME IInv PROVE EveryLayerGetsItsOption
  <2> SUFFICES ASSUME Reading, struct[i].text.lead # "-"
               PROVE  LET f == struct[i]
                          parts == Spelled(f.type, f.text.parts)
                          legal == /\ LeadFits(f.type, f.text, isUnion)
                                   /\ \A k \in DOMAIN parts : Fits(LayersOf(f.type, Len(parts))[k], parts[k])
                      IN  Field.ok = legal /\ (legal => Entries(Field.tag) = TagEntries(f.text, parts))
    BY DEF EveryLayerGetsItsOption
  <2> DEFINE t == struct[i].type
             text == struct[i].text
             parts == Spelled(t, text.parts)
             es == Spelt(t, text)
  <2>1. t \in Types /\ IsText(text) /\ isUnion \in Contexts
    BY <1>1, FieldNow DEF IInv, TypeInv
  <2>2. Field = ParseTag(t, text, isUnion)
    BY DEF Field
  <2>3. LeadFits(t, text, isUnion) \in BOOLEAN
    BY DEF LeadFits, Codecs!validForUnionSwitch
  <2> HIDE DEF t, text
  <2>4. /\ Field.ok \in BOOLEAN
        /\ Field.ok <=> Legal(t, text, isUnion)
        /\ Field.ok => es \in Seq(TagEntry) /\ Field.tag = BytesOf(Trim(es))
    BY <2>1, <2>2, ParseTagFacts DEF t, text
  <2>5. Legal(t, text, isUnion) <=>
          /\ LeadFits(t, text, isUnion)
          /\ \A k \in DOMAIN parts : Fits(LayersOf(t, Len(parts))[k], parts[k])
    BY DEF Legal, AllFit
  <2>6. TagEntries(text, parts) = Codecs!Trimmed(es)
    BY DEF TagEntries, Spelt, PartEntries
  <2> HIDE DEF es, parts
  <2>7. Field.ok => Entries(Field.tag) = TagEntries(text, parts)
    BY <2>4, <2>6, TrimFacts, EntriesFacts, TrimmedEntries
  <2> DEFINE legal == /\ LeadFits(t, text, isUnion)
                      /\ \A k \in DOMAIN parts : Fits(LayersOf(t, Len(parts))[k], parts[k])
  <2>8. legal \in BOOLEAN
    OBVIOUS
  <2>9. Field.ok <=> legal
    BY <2>4, <2>5
  <2> HIDE DEF legal
  <2>10. Field.ok = legal
    BY <2>4, <2>8, <2>9
  <2> QED
    BY <2>7, <2>10 DEF legal, parts, t, text
<1> QED
  BY <1>1, Invariance, PTL
=============================================================================
