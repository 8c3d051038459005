--------------------------- MODULE XDRStreamProofs ---------------------------
(***************************************************************************)
(* XDRStream, for bytes of any size, messages of any items and lengths,    *)
(* streams that end anywhere and every limit: the decoder stays aligned    *)
(* with what was sent, and returns it.                                     *)
(***************************************************************************)
EXTENDS XDRBytesFacts

-----------------------------------------------------------------------------
(* The inductive invariant.                                                 *)

(* What is there of the bytes s when the last m of the stream never arrive. *)
Arriving(s, m) == SubSeq(s, 1, Len(s) - m)

Typed ==
  /\ IsMessage(items)
  /\ missing \in Nat /\ (Truncated \/ missing = 0)
  /\ input \in Seq(Byte)
  /\ Len(got) \in 0..Len(items) /\ got = [i \in 1..Len(got) |-> got[i]]
  /\ reader \in [n : Nat, padLen : 0..3, read : Seq(Byte), open : BOOLEAN]

(* Within an opaque that is being read: what was read and what is left of   *)
(* it make the opaque, and the input goes on with what is left, the padding *)
(* and the other items.                                                     *)
LeftToRead ==
  SubSeq(NextItem.value, Len(reader.read) + 1, Len(NextItem.value))

MidItem ==
  reader.open =>
    /\ ~Failed /\ Streamed /\ Len(got) < Len(items)
    /\ NextItem.kind \in {"opaque", "fixed opaque"}
    /\ NextItem.value = reader.read \o LeftToRead
    /\ reader.n = Len(LeftToRead)
    /\ reader.padLen = PaddingAfter(Len(NextItem.value))
    /\ input = Arriving((LeftToRead \o Padding(Len(NextItem.value))) \o Rest(Len(got) + 1),
                        missing)

(* DecodeOpaque and DecodeString tell nobody that the stream has ended.     *)
Honest == ReadsWhatWasSent \/ (Trusting /\ Truncated)

IInv == Typed /\ Aligned /\ MidItem /\ FailsForAReason /\ Honest

-----------------------------------------------------------------------------
(* Bytes that arrive.                                                       *)

(* The bytes that arrive are the first ones.                                *)
LEMMA ArrivingFacts ==
  ASSUME NEW s \in Seq(Byte), NEW m \in Nat
  PROVE  /\ Len(s) \in Nat /\ Arriving(s, m) \in Seq(Byte)
         /\ Len(Arriving(s, m)) = IF m \leq Len(s) THEN Len(s) - m ELSE 0
         /\ \A i \in 1..Len(Arriving(s, m)) : Arriving(s, m)[i] = s[i]
<1> DEFINE n == Len(s) - m
           a == SubSeq(s, 1, n)
<1>1. Len(s) \in Nat /\ \A i \in 1..Len(s) : s[i] \in Byte
  BY LenProperties
<1>2. n \in Int /\ n \leq Len(s)
  BY <1>1
<1> HIDE DEF n
<1>3. 1 \in Int /\ \A i \in 1..n : s[i] \in Byte
  BY <1>1, <1>2
<1>4. /\ a \in Seq(Byte) /\ Len(a) = IF 1 \leq n THEN n - 1 + 1 ELSE 0
      /\ \A i \in 1..(n - 1 + 1) : a[i] = s[1 + i - 1]
  BY <1>2, <1>3, SubSeqProperties
<1> HIDE DEF a
<1>5. Len(a) = IF m \leq Len(s) THEN Len(s) - m ELSE 0
  BY <1>1, <1>4 DEF n
<1>6. \A i \in 1..Len(a) : a[i] = s[i]
  <2> SUFFICES ASSUME NEW i \in 1..Len(a) PROVE a[i] = s[i]
    OBVIOUS
  <2>1. i \in 1..(n - 1 + 1) /\ 1 + i - 1 = i
    BY <1>2, <1>4
  <2> QED
    BY <1>4, <2>1
<1>7. Arriving(s, m) = a
  BY DEF Arriving, a, n
<1> QED
  BY <1>1, <1>4, <1>5, <1>6, <1>7

(* The input begins with x, as far as it has arrived, and goes on with y    *)
(* after it.  When some of x is missing, so is all of y and more.           *)
LEMMA Arrives ==
  ASSUME NEW x \in Seq(Byte), NEW y \in Seq(Byte), NEW m \in Nat, input = Arriving(x \o y, m)
  PROVE  /\ input \in Seq(Byte) /\ After(Len(x)) = Arriving(y, m) /\ Sees(x)
         /\ Len(y) \in Nat /\ (Enough(Len(x)) \/ m > Len(y))
         /\ After(Len(x)) \in Seq(Byte)
<1> DEFINE z == x \o y
           k == Len(x)
           l == Len(y)
           a == SubSeq(input, k + 1, Len(input))
           b == Arriving(y, m)
<1>1. /\ k \in Nat /\ l \in Nat /\ Len(z) = k + l /\ z \in Seq(Byte)
      /\ \A i \in 1..(k + l) : z[i] = IF i \leq k THEN x[i] ELSE y[i - k]
  BY ConcatProperties, LenProperties
<1> HIDE DEF z
<1>2. /\ input \in Seq(Byte) /\ Len(input) = IF m \leq k + l THEN (k + l) - m ELSE 0
      /\ \A i \in 1..Len(input) : input[i] = z[i]
  BY <1>1, ArrivingFacts DEF z
<1>3. /\ b \in Seq(Byte) /\ Len(b) = IF m \leq l THEN l - m ELSE 0
      /\ \A i \in 1..Len(b) : b[i] = y[i]
  BY ArrivingFacts
<1> HIDE DEF k, l, b
<1>4. Len(input) \in Nat /\ \A i \in 1..Len(input) : input[i] \in Byte
  BY <1>2, LenProperties
<1>5. /\ a \in Seq(Byte)
      /\ Len(a) = IF k + 1 \leq Len(input) THEN Len(input) - (k + 1) + 1 ELSE 0
      /\ \A i \in 1..(Len(input) - (k + 1) + 1) : a[i] = input[(k + 1) + i - 1]
  <2>1. k + 1 \in Int /\ Len(input) \in Int /\ \A i \in (k + 1)..Len(input) : input[i] \in Byte
    BY <1>1, <1>4
  <2> QED
    BY <2>1, SubSeqProperties
<1> HIDE DEF a
<1>6. Len(a) = Len(b)
  BY <1>1, <1>2, <1>3, <1>5
<1>7. \A i \in 1..Len(a) : a[i] = b[i]
  <2> SUFFICES ASSUME NEW i \in 1..Len(a) PROVE a[i] = b[i]
    OBVIOUS
  <2>1. /\ i \in 1..(Len(input) - (k + 1) + 1) /\ (k + 1) + i - 1 = k + i
        /\ k + i \in 1..Len(input) /\ k + i \in 1..(k + l)
        /\ ~(k + i \leq k) /\ (k + i) - k = i
    BY <1>1, <1>2, <1>4, <1>5
  <2>2. a[i] = z[k + i] /\ z[k + i] = y[i]
    BY <1>1, <1>2, <1>5, <2>1
  <2> QED
    BY <1>3, <1>6, <2>2
<1>8. a = b
  BY <1>3, <1>5, <1>6, <1>7, SeqEqual
<1>9. Sees(x)
  <2> SUFFICES ASSUME NEW i \in 1..k, i \leq Len(input) PROVE input[i] = x[i]
    BY DEF Sees, k
  <2>1. i \in 1..Len(input) /\ i \in 1..(k + l) /\ i \leq k
    BY <1>1, <1>4
  <2> QED
    BY <1>1, <1>2, <2>1
<1>10. k \leq Len(input) \/ m > l
  BY <1>1, <1>2
<1> QED
  BY <1>1, <1>2, <1>5, <1>8, <1>9, <1>10 DEF After, Enough, a, b, k, l

-----------------------------------------------------------------------------
(* Messages.                                                                *)

(* A message is written as bytes.                                           *)
LEMMA EncodeAllType ==
  ASSUME NEW R, NEW t \in Seq(R), \A i \in 1..Len(t) : IsItem(t[i])
  PROVE  /\ [i \in DOMAIN t |-> Encode(t[i])] \in Seq(Seq(Byte))
         /\ EncodeAll(t) \in Seq(Byte)
<1> DEFINE e == [i \in DOMAIN t |-> Encode(t[i])]
<1>1. Len(t) \in Nat /\ DOMAIN t = 1..Len(t)
  BY LenProperties
<1>2. \A i \in 1..Len(t) : Encode(t[i]) \in Seq(Byte)
  BY EncodeFacts
<1>3. e \in Seq(Seq(Byte))
  <2> DEFINE D == Seq(Byte)
  <2> HIDE DEF D
  <2>1. \A i \in 1..Len(t) : Encode(t[i]) \in D
    BY <1>2 DEF D
  <2>2. e \in [1..Len(t) -> D]
    BY <1>1, <2>1
  <2>3. e \in Seq(D)
    BY <1>1, <2>2
  <2> QED
    BY <2>3 DEF D
<1>4. FlattenSeq(e) \in Seq(Byte)
  BY <1>3, FlattenType
<1> QED
  BY <1>3, <1>4 DEF EncodeAll

(* The first item of a message is written first.                            *)
LEMMA EncodeFirst ==
  ASSUME NEW R, NEW t \in Seq(R), t # <<>>, \A i \in 1..Len(t) : IsItem(t[i])
  PROVE  EncodeAll(t) = Encode(t[1]) \o EncodeAll(Tail(t))
<1> DEFINE r == Tail(t)
           e == [i \in DOMAIN t |-> Encode(t[i])]
           f == [i \in DOMAIN r |-> Encode(r[i])]
           x == Encode(t[1])
<1>1. /\ Len(t) \in Nat \ {0} /\ DOMAIN t = 1..Len(t)
      /\ r \in Seq(R) /\ Len(r) = Len(t) - 1 /\ \A i \in 1..Len(r) : r[i] = t[i + 1]
  BY HeadTailProperties, LenProperties, EmptySeq
<1>2. DOMAIN r = 1..Len(r)
  BY <1>1, LenProperties
<1> HIDE DEF r
<1>3. \A i \in 1..Len(r) : IsItem(r[i])
  <2> SUFFICES ASSUME NEW i \in 1..Len(r) PROVE IsItem(r[i])
    OBVIOUS
  <2>1. i + 1 \in 1..Len(t) /\ r[i] = t[i + 1]
    BY <1>1
  <2> QED
    BY <2>1
<1>4. f \in Seq(Seq(Byte))
  BY <1>1, <1>3, EncodeAllType
<1>5. e \in Seq(Seq(Byte))
  BY EncodeAllType
<1>6. x \in Seq(Byte)
  <2>1. 1 \in 1..Len(t)
    BY <1>1
  <2> QED
    BY <2>1, EncodeFacts
<1>7. /\ Len(e) = Len(t) /\ \A i \in 1..Len(t) : e[i] = Encode(t[i])
      /\ Len(f) = Len(r) /\ \A i \in 1..Len(r) : f[i] = Encode(r[i])
  BY <1>1, <1>2
<1> HIDE DEF e, f, x
<1>8. e = <<x>> \o f
  <2> DEFINE D == Seq(Byte)
             g == <<x>> \o f
  <2> HIDE DEF D
  <2>1. f \in Seq(D) /\ e \in Seq(D) /\ x \in D
    BY <1>4, <1>5, <1>6 DEF D
  <2>2. <<x>> \in Seq(D) /\ Len(<<x>>) = 1 /\ <<x>>[1] = x
    BY <2>1
  <2>3. /\ g \in Seq(D) /\ Len(g) = 1 + Len(f)
        /\ \A i \in 1..(1 + Len(f)) : g[i] = IF i \leq 1 THEN <<x>>[i] ELSE f[i - 1]
    BY <2>1, <2>2, ConcatProperties
  <2> HIDE DEF g
  <2>4. Len(g) = Len(e)
    BY <1>1, <1>7, <2>3
  <2>5. \A i \in 1..Len(e) : e[i] = g[i]
    <3> SUFFICES ASSUME NEW i \in 1..Len(t) PROVE e[i] = g[i]
      BY <1>7
    <3>1. CASE i = 1
      BY <1>1, <1>7, <2>2, <2>3, <3>1 DEF x
    <3>2. CASE i # 1
      <4>1. i - 1 \in 1..Len(r) /\ (i - 1) + 1 = i /\ i \in 1..(1 + Len(f)) /\ ~(i \leq 1)
        BY <1>1, <1>7, <3>2
      <4>2. r[i - 1] = t[i]
        BY <1>1, <4>1
      <4> QED
        BY <1>7, <2>3, <4>1, <4>2
    <3> QED
      BY <3>1, <3>2
  <2> QED
    BY <2>1, <2>3, <2>4, <2>5, SeqEqual DEF g
<1>9. FlattenSeq(e) = x \o FlattenSeq(f)
  <2>1. <<x>> \in Seq(Seq(Byte))
    <3> DEFINE D == Seq(Byte)
    <3> HIDE DEF D
    <3>1. x \in D => <<x>> \in Seq(D)
      OBVIOUS
    <3> QED
      BY <1>6, <3>1 DEF D
  <2>2. FlattenSeq(<<x>>) = x
    BY <1>6, FlattenOne
  <2> QED
    BY <1>4, <1>8, <2>1, <2>2, FlattenConcat
<1> QED
  BY <1>9 DEF EncodeAll, e, f, r, x

(* What is written for the items after the first n.                         *)
LEMMA RestFacts ==
  ASSUME NEW s, IsMessage(s), NEW n \in 0..Len(s)
  PROVE  /\ Len(s) \in Nat /\ EncodeAll(SubSeq(s, n + 1, Len(s))) \in Seq(Byte)
         /\ n < Len(s) =>
              /\ IsItem(s[n + 1])
              /\ EncodeAll(SubSeq(s, n + 1, Len(s))) =
                   Encode(s[n + 1]) \o EncodeAll(SubSeq(s, (n + 1) + 1, Len(s)))
<1> DEFINE R == Range(s)
           t == SubSeq(s, n + 1, Len(s))
           w == SubSeq(s, (n + 1) + 1, Len(s))
<1>1. s \in Seq(R) /\ \A i \in DOMAIN s : IsItem(s[i])
  BY DEF IsMessage
<1> HIDE DEF R
<1>2. /\ Len(s) \in Nat /\ n \in Nat /\ n \leq Len(s) /\ DOMAIN s = 1..Len(s)
      /\ \A i \in 1..Len(s) : s[i] \in R
  BY <1>1, LenProperties
<1>3. /\ t \in Seq(R) /\ Len(t) = Len(s) - n
      /\ \A i \in 1..(Len(s) - n) : t[i] = s[n + i]
  <2>1. n + 1 \in Int /\ Len(s) \in Int /\ \A i \in (n + 1)..Len(s) : s[i] \in R
    BY <1>2
  <2>2. /\ t \in Seq(R) /\ Len(t) = IF n + 1 \leq Len(s) THEN Len(s) - (n + 1) + 1 ELSE 0
        /\ \A i \in 1..(Len(s) - (n + 1) + 1) : t[i] = s[(n + 1) + i - 1]
    BY <2>1, SubSeqProperties
  <2> DEFINE l == Len(s)
             k == Len(t)
  <2>3. l \in Nat /\ n \in Nat /\ n \leq l /\ k = IF n + 1 \leq l THEN l - (n + 1) + 1 ELSE 0
    BY <1>2, <2>2
  <2> HIDE DEF l, k
  <2>5. k = l - n /\ l - (n + 1) + 1 = l - n
    BY <2>3
  <2>6. Len(t) = Len(s) - n /\ Len(s) - (n + 1) + 1 = Len(s) - n
    BY <2>5 DEF l, k
  <2> HIDE DEF t
  <2>4. \A i \in 1..(Len(s) - n) : (n + 1) + i - 1 = n + i
    BY <1>2
  <2> QED
    BY <2>2, <2>4, <2>6
<1>4. /\ w \in Seq(R) /\ Len(w) = (IF n < Len(s) THEN Len(s) - n - 1 ELSE 0)
      /\ \A i \in 1..(Len(s) - n - 1) : w[i] = s[(n + 1) + i]
  <2>1. (n + 1) + 1 \in Int /\ Len(s) \in Int /\ \A i \in ((n + 1) + 1)..Len(s) : s[i] \in R
    BY <1>2
  <2>2. /\ w \in Seq(R)
        /\ Len(w) = IF (n + 1) + 1 \leq Len(s) THEN Len(s) - ((n + 1) + 1) + 1 ELSE 0
        /\ \A i \in 1..(Len(s) - ((n + 1) + 1) + 1) : w[i] = s[((n + 1) + 1) + i - 1]
    BY <2>1, SubSeqProperties
  <2> DEFINE l == Len(s)
             k == Len(w)
  <2>3. /\ l \in Nat /\ n \in Nat /\ n \leq l
        /\ k = IF (n + 1) + 1 \leq l THEN l - ((n + 1) + 1) + 1 ELSE 0
    BY <1>2, <2>2
  <2> HIDE DEF l, k
  <2>5. k = (IF n < l THEN l - n - 1 ELSE 0) /\ l - ((n + 1) + 1) + 1 = l - n - 1
    BY <2>3
  <2>6. /\ Len(w) = (IF n < Len(s) THEN Len(s) - n - 1 ELSE 0)
        /\ Len(s) - ((n + 1) + 1) + 1 = Len(s) - n - 1
    BY <2>5 DEF l, k
  <2> HIDE DEF w
  <2>4. \A i \in 1..(Len(s) - n - 1) : ((n + 1) + 1) + i - 1 = (n + 1) + i
    BY <1>2
  <2> QED
    BY <2>2, <2>4, <2>6
<1> HIDE DEF t, w
<1>5. \A i \in 1..Len(t) : IsItem(t[i])
  <2> SUFFICES ASSUME NEW i \in 1..Len(t) PROVE IsItem(t[i])
    OBVIOUS
  <2>1. i \in 1..(Len(s) - n) /\ n + i \in DOMAIN s
    BY <1>2, <1>3
  <2> QED
    BY <1>1, <1>3, <2>1
<1>6. EncodeAll(t) \in Seq(Byte)
  BY <1>3, <1>5, EncodeAllType
<1>7. ASSUME n < Len(s)
      PROVE  IsItem(s[n + 1]) /\ EncodeAll(t) = Encode(s[n + 1]) \o EncodeAll(w)
  <2>1. 1 \in 1..(Len(s) - n) /\ Len(t) # 0 /\ n + 1 \in DOMAIN s
    <3> DEFINE l == Len(s)
    <3>1. l \in Nat /\ n \in Nat /\ n < l /\ Len(t) = l - n
      BY <1>2, <1>3, <1>7
    <3> HIDE DEF l
    <3>2. 1 \in 1..(l - n) /\ Len(t) # 0 /\ n + 1 \in 1..l
      BY <3>1
    <3> QED
      BY <1>2, <3>2 DEF l
  <2>2. t[1] = s[n + 1] /\ t # <<>>
    BY <1>3, <2>1, EmptySeq
  <2>3. /\ Tail(t) \in Seq(R) /\ Len(Tail(t)) = Len(t) - 1
        /\ \A i \in 1..Len(Tail(t)) : Tail(t)[i] = t[i + 1]
    BY <1>3, <2>2, HeadTailProperties
  <2>4. Tail(t) = w
    <3>1. Len(Tail(t)) = Len(w) /\ Len(w) = Len(s) - n - 1
      BY <1>2, <1>3, <1>4, <1>7, <2>3
    <3>2. \A i \in 1..Len(Tail(t)) : Tail(t)[i] = w[i]
      <4> SUFFICES ASSUME NEW i \in 1..(Len(s) - n - 1) PROVE Tail(t)[i] = w[i]
        BY <3>1
      <4>1. i + 1 \in 1..(Len(s) - n) /\ n + (i + 1) = (n + 1) + i
        BY <1>2
      <4>2. Tail(t)[i] = t[i + 1]
        BY <2>3, <3>1
      <4> QED
        BY <1>3, <1>4, <4>1, <4>2
    <3> QED
      BY <1>4, <2>3, <3>1, <3>2, SeqEqual
  <2>5. EncodeAll(t) = Encode(t[1]) \o EncodeAll(Tail(t))
    BY <1>3, <1>5, <2>2, EncodeFirst
  <2> QED
    BY <1>1, <2>1, <2>2, <2>4, <2>5
<1> QED
  BY <1>2, <1>6, <1>7 DEF t, w

-----------------------------------------------------------------------------
(* The steps.                                                               *)

(* One more result.                                                         *)
LEMMA OneMore ==
  ASSUME NEW s, Len(s) \in Nat, s = [i \in 1..Len(s) |-> s[i]], NEW r
  PROVE  /\ DOMAIN s = 1..Len(s)
         /\ Len(Append(s, r)) = Len(s) + 1 /\ DOMAIN Append(s, r) = 1..(Len(s) + 1)
         /\ Append(s, r) = [i \in 1..Len(Append(s, r)) |-> Append(s, r)[i]]
         /\ \A i \in 1..Len(s) : Append(s, r)[i] = s[i]
         /\ Append(s, r)[Len(s) + 1] = r
<1> DEFINE S == {s[i] : i \in 1..Len(s)} \cup {r}
           n == Len(s)
           t == Append(s, r)
<1>1. n \in Nat /\ s = [i \in 1..n |-> s[i]]
  OBVIOUS
<1>2. \A i \in 1..n : s[i] \in S
  OBVIOUS
<1>3. r \in S
  OBVIOUS
<1> HIDE DEF S, n
<1>4. s \in [1..n -> S]
  BY <1>1, <1>2
<1>5. s \in Seq(S)
  BY <1>1, <1>4
<1>6. /\ t \in Seq(S) /\ Len(t) = n + 1
      /\ \A i \in 1..n : t[i] = s[i]
      /\ t[n + 1] = r
  BY <1>3, <1>5, AppendProperties DEF n
<1> HIDE DEF t
<1>7. DOMAIN t = 1..Len(t) /\ t = [i \in 1..Len(t) |-> t[i]]
  BY <1>6, LenProperties
<1> QED
  BY <1>1, <1>6, <1>7 DEF n, t

(* A state in which an item is next.                                        *)
LEMMA NextFacts ==
  ASSUME IInv, Len(got) < Len(items)
  PROVE  /\ Len(got) \in Nat /\ Len(got) + 1 \in 0..Len(items) /\ Len(got) + 1 \in 1..Len(items)
         /\ IsItem(NextItem) /\ Encode(NextItem) \in Seq(Byte)
         /\ Rest(Len(got) + 1) \in Seq(Byte) /\ Len(Rest(Len(got) + 1)) \in Nat
         /\ Rest(Len(got)) = Encode(NextItem) \o Rest(Len(got) + 1)
<1> DEFINE n == Len(got)
           l == Len(items)
<1>1. IsMessage(items) /\ n \in 0..l
  BY DEF IInv, Typed
<1>2. l \in Nat
  BY <1>1, RestFacts
<1>3. n < l
  OBVIOUS
<1> HIDE DEF n, l
<1>4. n \in Nat /\ n + 1 \in 0..l /\ n + 1 \in 1..l
  BY <1>1, <1>2, <1>3
<1>5. /\ IsItem(items[n + 1])
      /\ EncodeAll(SubSeq(items, n + 1, l)) =
           Encode(items[n + 1]) \o EncodeAll(SubSeq(items, (n + 1) + 1, l))
  BY <1>1, <1>3, RestFacts DEF l
<1>6. EncodeAll(SubSeq(items, (n + 1) + 1, l)) \in Seq(Byte)
  BY <1>1, <1>4, RestFacts DEF l
<1>7. Encode(items[n + 1]) \in Seq(Byte)
  BY <1>5, EncodeFacts
<1> QED
  BY <1>4, <1>5, <1>6, <1>7, LenProperties DEF n, l, Rest, NextItem

(* An item is done: the decoder is at the beginning of the next, or has     *)
(* failed for a reason, and what it returns was sent.                       *)
SentFor(item, value) ==
  \/ item.kind = "enum" /\ (item.value = 1) = value
  \/ item.kind # "enum" /\ value = item.value
  \/ /\ Streamed /\ item.kind \in {"opaque", "fixed opaque"}
     /\ IsPrefix(value, item.value)
ReasonFor(item) ==
  \/ missing > Len(Rest(Len(got) + 1))
  \/ item.kind \in {"opaque", "string"} /\ Len(item.value) > Limit
  \/ item.kind = "enum" /\ item.value \notin {0, 1}

(* The invariant, when the item that was next has been read or has failed.  *)
LEMMA ItemDone ==
  ASSUME IInv, ~Failed, Len(got) < Len(items), UNCHANGED <<items, missing>>,
         NEW r, got' = Append(got, r),
         reader' \in [n : Nat, padLen : 0..3, read : Seq(Byte), open : BOOLEAN],
         ~reader'.open, input' \in Seq(Byte),
         r.ok => input' = Arriving(Rest(Len(got) + 1), missing),
         r.ok => SentFor(NextItem, r.value) \/ (Trusting /\ Truncated),
         ~r.ok => ReasonFor(NextItem)
  PROVE  IInv'
<1> DEFINE n == Len(got)
<1>1. n \in Nat /\ n + 1 \in 0..Len(items) /\ n + 1 \in 1..Len(items)
  BY NextFacts
<1>2. /\ DOMAIN got = 1..n /\ Len(got') = n + 1 /\ DOMAIN got' = 1..(n + 1)
      /\ got' = [i \in 1..Len(got') |-> got'[i]]
      /\ \A i \in 1..n : got'[i] = got[i]
      /\ got'[n + 1] = r
  <2>1. Len(got) \in Nat /\ got = [i \in 1..Len(got) |-> got[i]]
    BY <1>1 DEF IInv, Typed
  <2> QED
    <3> DEFINE s == got
               t == Append(s, r)
    <3>1. Len(s) \in Nat /\ s = [i \in 1..Len(s) |-> s[i]] /\ got' = t
      BY <2>1
    <3> HIDE DEF s
    <3>2. /\ DOMAIN s = 1..Len(s) /\ Len(t) = Len(s) + 1 /\ DOMAIN t = 1..(Len(s) + 1)
          /\ t = [i \in 1..Len(t) |-> t[i]]
          /\ \A i \in 1..Len(s) : t[i] = s[i]
          /\ t[Len(s) + 1] = r
      BY <3>1, OneMore, SMTT(30)
    <3> HIDE DEF t
    <3> QED
      BY <3>1, <3>2 DEF s
<1> HIDE DEF n
<1>3. Typed'
  BY <1>1, <1>2 DEF IInv, Typed
<1>4. Failed' => ~r.ok
  <2> SUFFICES ASSUME NEW i \in 1..(n + 1), ~got'[i].ok PROVE ~r.ok
    BY <1>2 DEF Failed
  <2>1. CASE i \in 1..n
    BY <1>2, <2>1 DEF Failed
  <2>2. CASE i = n + 1
    BY <1>2, <2>2
  <2> QED
    BY <1>1, <2>1, <2>2
<1>5. ~r.ok => Failed'
  <2>1. n + 1 \in DOMAIN got'
    BY <1>1, <1>2
  <2> QED
    BY <1>2, <2>1 DEF Failed
<1>6. Aligned'
  <2> SUFFICES ASSUME ~Failed' PROVE input' = Arriving(Rest(n + 1), missing)
    BY <1>2 DEF Aligned, Arriving, Rest
  <2> QED
    BY <1>5 DEF n
<1>7. MidItem'
  BY DEF MidItem
<1>8. FailsForAReason'
  <2> SUFFICES ASSUME Failed' PROVE ReasonFor(NextItem)
    BY <1>2 DEF FailsForAReason, ReasonFor, NextItem, Rest, n
  <2> QED
    BY <1>4
<1>9. Honest'
  <2>1. CASE Trusting /\ Truncated
    BY <2>1 DEF Honest
  <2>2. CASE ~(Trusting /\ Truncated)
    <3>1. ReadsWhatWasSent
      BY <2>2 DEF IInv, Honest
    <3>2. \A i \in 1..n : got[i].ok => SentFor(items[i], got[i].value)
      BY <1>2, <3>1 DEF ReadsWhatWasSent, SentFor
    <3>3. r.ok => SentFor(items[n + 1], r.value)
      BY <2>2 DEF NextItem, n
    <3>4. \A i \in 1..(n + 1) : got'[i].ok => SentFor(items[i], got'[i].value)
      <4> SUFFICES ASSUME NEW i \in 1..(n + 1), got'[i].ok
                   PROVE  SentFor(items[i], got'[i].value)
        OBVIOUS
      <4>1. CASE i \in 1..n
        BY <1>2, <3>2, <4>1
      <4>2. CASE i = n + 1
        BY <1>2, <3>3, <4>2
      <4>3. i \in 1..n \/ i = n + 1
        BY <1>1
      <4> QED
        BY <4>1, <4>2, <4>3, Zenon
    <3> QED
      BY <1>2, <3>4 DEF Honest, ReadsWhatWasSent, SentFor
  <2> QED
    BY <2>1, <2>2
<1> QED
  BY <1>3, <1>6, <1>7, <1>8, <1>9 DEF IInv

(* An opaque is being read: a is what was read of it, b what is left.       *)
LEMMA StaysOpen ==
  ASSUME IInv, ~Failed, Streamed, Len(got) < Len(items), UNCHANGED <<items, missing, got>>,
         NextItem.kind \in {"opaque", "fixed opaque"},
         NEW a \in Seq(Byte), NEW b \in Seq(Byte), NextItem.value = a \o b,
         reader' = [n |-> Len(b), padLen |-> PaddingAfter(Len(NextItem.value)),
                    read |-> a, open |-> TRUE],
         input' \in Seq(Byte),
         input' = Arriving((b \o Padding(Len(NextItem.value))) \o Rest(Len(got) + 1), missing)
  PROVE  IInv'
<1>1. a \o b \in Seq(Byte) /\ Len(a \o b) \in Nat /\ Len(b) \in Nat
  BY ConcatProperties, LenProperties
<1>2. PaddingAfter(Len(NextItem.value)) \in 0..3
  BY <1>1, PaddingFacts
<1>3. /\ reader'.n = Len(b) /\ reader'.padLen = PaddingAfter(Len(NextItem.value))
      /\ reader'.read = a /\ reader'.open = TRUE
  OBVIOUS
<1>4. reader' \in [n : Nat, padLen : 0..3, read : Seq(Byte), open : BOOLEAN]
  BY <1>1, <1>2
<1>5. Typed'
  BY <1>4 DEF IInv, Typed
<1>6. NextItem' = NextItem /\ ~Failed' /\ (Rest(Len(got) + 1))' = Rest(Len(got) + 1)
  BY DEF NextItem, Failed, Rest
<1>7. LeftToRead' = b
  <2>1. LeftToRead' = SubSeq(a \o b, Len(a) + 1, Len(a \o b))
    BY <1>3, <1>6 DEF LeftToRead
  <2> QED
    BY <2>1, DropFirst
<1>8. MidItem'
  BY <1>3, <1>6, <1>7 DEF MidItem
<1>9. Aligned'
  BY <1>3 DEF Aligned
<1>10. FailsForAReason'
  BY <1>6 DEF FailsForAReason
<1>11. Honest'
  BY DEF IInv, Honest, ReadsWhatWasSent
<1> QED
  BY <1>5, <1>8, <1>9, <1>10, <1>11 DEF IInv

(* Between two items the input goes on with the next one.                   *)
LEMMA ReadyFacts ==
  ASSUME IInv, Ready
  PROVE  /\ Len(got) < Len(items) /\ ~Failed /\ missing \in Nat
         /\ input = Arriving(Encode(NextItem) \o Rest(Len(got) + 1), missing)
         /\ input \in Seq(Byte) /\ reader.open = FALSE
         /\ reader \in [n : Nat, padLen : 0..3, read : Seq(Byte), open : BOOLEAN]
         /\ Sees(Encode(NextItem))
         /\ After(Len(Encode(NextItem))) = Arriving(Rest(Len(got) + 1), missing)
         /\ Enough(Len(Encode(NextItem))) \/ missing > Len(Rest(Len(got) + 1))
<1>1. Len(got) < Len(items) /\ ~Failed /\ ~reader.open
  BY DEF Ready
<1>2. missing \in Nat /\ reader \in [n : Nat, padLen : 0..3, read : Seq(Byte), open : BOOLEAN]
  BY DEF IInv, Typed
<1>3. /\ Encode(NextItem) \in Seq(Byte) /\ Rest(Len(got) + 1) \in Seq(Byte)
      /\ Rest(Len(got)) = Encode(NextItem) \o Rest(Len(got) + 1)
  BY <1>1, NextFacts
<1>4. input = Arriving(Rest(Len(got)), missing)
  BY <1>1 DEF IInv, Aligned, Arriving
<1>5. input = Arriving(Encode(NextItem) \o Rest(Len(got) + 1), missing)
  BY <1>3, <1>4
<1> QED
  BY <1>1, <1>2, <1>3, <1>5, Arrives

(* What is left of the input are bytes.                                     *)
LEMMA AfterType ==
  ASSUME input \in Seq(Byte), NEW k \in Nat
  PROVE  After(k) \in Seq(Byte)
<1>1. Len(input) \in Int /\ \A i \in 1..Len(input) : input[i] \in Byte
  BY LenProperties
<1>2. k + 1 \in Int /\ \A i \in (k + 1)..Len(input) : input[i] \in Byte
  BY <1>1
<1> QED
  BY <1>1, <1>2, SubSeqProperties DEF After

(* Any method of the decoder but the readers takes one item.                *)
LEMMA DecodeItemStep ==
  ASSUME IInv, DecodeItem
  PROVE  IInv'
<1> DEFINE item == NextItem
           d == Decode(item)
           r == Result(d.value, d.ok)
           rest == Rest(Len(got) + 1)
           size == Len(Encode(item))
<1>1. /\ Ready /\ got' = Append(got, r) /\ input' = After(d.used)
      /\ UNCHANGED <<items, missing, reader>>
      /\ item.kind \in {"opaque", "string"} => missing = 0 \/ Trusting
  BY DEF DecodeItem
<1>2. /\ Len(got) < Len(items) /\ ~Failed /\ missing \in Nat /\ input \in Seq(Byte)
      /\ reader.open = FALSE
      /\ reader \in [n : Nat, padLen : 0..3, read : Seq(Byte), open : BOOLEAN]
      /\ Sees(Encode(item)) /\ After(size) = Arriving(rest, missing)
      /\ Enough(size) \/ missing > Len(rest)
  BY <1>1, ReadyFacts
<1>3. IsItem(item) /\ Len(rest) \in Nat
  BY <1>2, NextFacts
<1>4. Truncated \/ missing = 0
  BY DEF IInv, Typed
<1> HIDE DEF item
<1>5. /\ d.used \in Nat
      /\ d.ok => /\ d.used = size
                 /\ item.kind \in {"opaque", "string"} \/ Enough(size)
      /\ d.ok /\ Enough(size) => Right(item, d.value)
      /\ ~d.ok => \/ ~Enough(size)
                  \/ item.kind \in {"opaque", "string"} /\ Len(item.value) > Limit
                  \/ item.kind = "enum" /\ item.value \notin {0, 1}
  BY <1>2, <1>3, DecodeFacts
<1>6. r.value = d.value /\ r.ok = d.ok
  BY DEF Result
<1> HIDE DEF d, size
<1>7. input' \in Seq(Byte)
  BY <1>1, <1>2, <1>5, AfterType
<1>8. d.ok => input' = Arriving(rest, missing)
  BY <1>1, <1>2, <1>5
<1> HIDE DEF rest
<1>9. d.ok => SentFor(item, d.value) \/ (Trusting /\ Truncated)
  <2>1. CASE Enough(size)
    BY <1>5, <2>1 DEF SentFor, Right
  <2>2. CASE ~Enough(size)
    <3>1. missing > 0
      BY <1>2, <1>3, <2>2
    <3>2. Truncated /\ missing # 0
      BY <1>2, <1>4, <3>1
    <3> QED
      BY <1>1, <1>5, <2>2, <3>2
  <2> QED
    BY <2>1, <2>2
<1>10. ~d.ok => ReasonFor(item)
  BY <1>2, <1>5 DEF ReasonFor, rest
<1> HIDE DEF r
<1>11. /\ r.ok => input' = Arriving(Rest(Len(got) + 1), missing)
       /\ r.ok => SentFor(NextItem, r.value) \/ (Trusting /\ Truncated)
       /\ ~r.ok => ReasonFor(NextItem)
  BY <1>6, <1>8, <1>9, <1>10 DEF item, rest
<1>12. reader' \in [n : Nat, padLen : 0..3, read : Seq(Byte), open : BOOLEAN] /\ ~reader'.open
  BY <1>1, <1>2
<1> QED
  BY <1>1, <1>2, <1>7, <1>11, <1>12, ItemDone

(* The opaque that is next is its bytes and the padding.                    *)
LEMMA OpaqueNext ==
  ASSUME IInv, Ready, NextItem.kind = "opaque"
  PROVE  /\ NextItem.value \in Seq(Byte) /\ Len(NextItem.value) \in Nat
         /\ DecodeUnsignedInt.ok = Enough(4)
         /\ Enough(4) => DecodeUnsignedInt.value = Len(NextItem.value)
         /\ After(4) \in Seq(Byte)
         /\ After(4) = Arriving((NextItem.value \o Padding(Len(NextItem.value)))
                                  \o Rest(Len(got) + 1), missing)
         /\ Enough(4) \/ missing > Len(Rest(Len(got) + 1))
<1> DEFINE item == NextItem
           value == item.value
           len == Len(value)
           head == Bytes(4, len)
           body == value \o Padding(len)
           rest == Rest(Len(got) + 1)
<1>1. /\ Len(got) < Len(items) /\ missing \in Nat /\ Sees(Encode(item)) /\ input \in Seq(Byte)
      /\ input = Arriving(Encode(item) \o rest, missing)
  BY ReadyFacts
<1>2. IsItem(item) /\ rest \in Seq(Byte) /\ Len(rest) \in Nat
  BY <1>1, NextFacts
<1>3. item.kind \in Bodies
  BY DEF Bodies
<1> HIDE DEF rest, item
<1>4. /\ value \in Seq(Byte) /\ len \in 0..(Power[4] - 1)
      /\ Encode(item) = head \o EncodeFixedOpaque(value)
  BY <1>2, <1>3, BodyFacts
<1>5. len \in Nat /\ DecodeUnsignedInt.ok = Enough(4) /\ (Enough(4) => DecodeUnsignedInt.value = len)
  BY <1>1, <1>2, <1>3, LengthRead
<1>6. head \in Seq(Byte) /\ Len(head) = 4
  <2> HIDE DEF len
  <2> QED
    BY <1>5, BytesType
<1>7. EncodeFixedOpaque(value) = body
  BY DEF EncodeFixedOpaque, Padding
<1>8. Padding(len) \in Seq(Byte)
  <2> HIDE DEF len
  <2> QED
    BY <1>5, PaddingType
<1>9. body \in Seq(Byte) /\ Len(body) \in Nat
  <2> DEFINE p == Padding(len)
  <2>1. p \in Seq(Byte) /\ value \in Seq(Byte)
    BY <1>4, <1>8
  <2> HIDE DEF p, value
  <2>2. value \o p \in Seq(Byte)
    BY <2>1, ConcatProperties
  <2> QED
    BY <2>2, LenProperties DEF p
<1> HIDE DEF body, head
<1>10. Encode(item) \o rest = head \o (body \o rest)
  BY <1>2, <1>4, <1>6, <1>7, <1>9, ConcatRegroup
<1>11. body \o rest \in Seq(Byte) /\ Len(body \o rest) = Len(body) + Len(rest)
  BY <1>2, <1>9, ConcatProperties
<1>12. /\ After(4) = Arriving(body \o rest, missing) /\ After(4) \in Seq(Byte)
       /\ Enough(4) \/ missing > Len(body \o rest)
  <2> DEFINE tail == body \o rest
  <2>1. input = Arriving(head \o tail, missing) /\ tail \in Seq(Byte)
    BY <1>1, <1>10, <1>11
  <2> HIDE DEF tail
  <2>2. /\ After(Len(head)) = Arriving(tail, missing) /\ After(Len(head)) \in Seq(Byte)
        /\ Enough(Len(head)) \/ missing > Len(tail)
    BY <1>1, <1>6, <2>1, Arrives
  <2> QED
    BY <1>6, <2>2 DEF tail
<1>13. Enough(4) \/ missing > Len(rest)
  BY <1>1, <1>2, <1>9, <1>11, <1>12
<1> QED
  BY <1>4, <1>5, <1>12, <1>13 DEF body, rest, item

(* OpaqueReader takes the length, and refuses one over the limit.           *)
LEMMA OpaqueReaderStep ==
  ASSUME IInv, OpaqueReader
  PROVE  IInv'
<1> DEFINE u == DecodeUnsignedInt
           value == NextItem.value
           len == Len(value)
<1>1. /\ Ready /\ Streamed /\ NextItem.kind = "opaque" /\ UNCHANGED <<items, missing>>
      /\ input' = After(4)
      /\ \/ /\ u.ok /\ u.value \leq Limit
            /\ reader' = newOpaqueReader(u.value) /\ UNCHANGED got
         \/ /\ ~(u.ok /\ u.value \leq Limit)
            /\ got' = Append(got, Result(<<>>, FALSE)) /\ UNCHANGED reader
  BY DEF OpaqueReader
<1>2. /\ Len(got) < Len(items) /\ ~Failed /\ reader.open = FALSE
      /\ reader \in [n : Nat, padLen : 0..3, read : Seq(Byte), open : BOOLEAN]
  BY <1>1, ReadyFacts
<1>3. /\ value \in Seq(Byte) /\ len \in Nat
      /\ u.ok = Enough(4) /\ (Enough(4) => u.value = len)
      /\ After(4) \in Seq(Byte)
      /\ After(4) = Arriving((value \o Padding(len)) \o Rest(Len(got) + 1), missing)
      /\ Enough(4) \/ missing > Len(Rest(Len(got) + 1))
  BY <1>1, OpaqueNext
<1> HIDE DEF u
<1>4. CASE u.ok /\ u.value \leq Limit
  <2>1. reader' = newOpaqueReader(len) /\ UNCHANGED got
    BY <1>1, <1>3, <1>4
  <2>2. RoundUp(len) - len = PaddingAfter(len)
    <3> HIDE DEF len
    <3> QED
      BY <1>3, PaddingFacts
  <2>3. reader' = [n |-> len, padLen |-> PaddingAfter(len), read |-> <<>>, open |-> TRUE]
    BY <2>1, <2>2 DEF newOpaqueReader
  <2>4. <<>> \in Seq(Byte) /\ value = <<>> \o value
    <3> HIDE DEF value
    <3> QED
      BY <1>3, ConcatEmptySeq
  <2>5. NextItem.kind \in {"opaque", "fixed opaque"}
    BY <1>1
  <2> QED
    BY <1>1, <1>2, <1>3, <2>1, <2>3, <2>4, <2>5, StaysOpen
<1>5. CASE ~(u.ok /\ u.value \leq Limit)
  <2> DEFINE r == Result(<<>>, FALSE)
  <2>1. ~r.ok
    BY DEF Result
  <2>2. got' = Append(got, r) /\ reader' = reader /\ input' \in Seq(Byte)
    BY <1>1, <1>3, <1>5
  <2>3. ReasonFor(NextItem)
    <3>1. CASE Enough(4)
      <4>1. u.value = len /\ u.ok /\ Limit \in Nat
        BY <1>3, <3>1, StreamAssumption
      <4>2. len > Limit
        <5> HIDE DEF len
        <5> QED
          BY <1>3, <1>5, <4>1
      <4> QED
        BY <1>1, <4>2 DEF ReasonFor
    <3>2. CASE ~Enough(4)
      BY <1>3, <3>2 DEF ReasonFor
    <3> QED
      BY <3>1, <3>2
  <2> HIDE DEF r
  <2>4. /\ reader' \in [n : Nat, padLen : 0..3, read : Seq(Byte), open : BOOLEAN]
        /\ ~reader'.open
    BY <1>2, <2>2
  <2> QED
    BY <1>1, <1>2, <2>1, <2>2, <2>3, <2>4, ItemDone
<1> QED
  BY <1>4, <1>5

(* FixedOpaqueReader takes nothing.                                         *)
LEMMA FixedOpaqueReaderStep ==
  ASSUME IInv, FixedOpaqueReader
  PROVE  IInv'
<1> DEFINE value == NextItem.value
           len == Len(value)
<1>1. /\ Ready /\ Streamed /\ NextItem.kind = "fixed opaque"
      /\ UNCHANGED <<items, missing, got>> /\ input' = input
      /\ reader' = newOpaqueReader(len)
  BY DEF FixedOpaqueReader
<1>2. /\ Len(got) < Len(items) /\ ~Failed /\ input \in Seq(Byte)
      /\ input = Arriving(Encode(NextItem) \o Rest(Len(got) + 1), missing)
  BY <1>1, ReadyFacts
<1>3. IsItem(NextItem) /\ NextItem.kind \in FixedBodies
  BY <1>1, <1>2, NextFacts DEF FixedBodies
<1>4. /\ value \in Seq(Byte) /\ len \in Nat
      /\ Encode(NextItem) = value \o Padding(len)
  BY <1>3, FixedBodyFacts, LenProperties DEF EncodeFixedOpaque, Padding
<1>5. RoundUp(len) - len = PaddingAfter(len)
  <2> HIDE DEF len
  <2> QED
    BY <1>4, PaddingFacts
<1>6. reader' = [n |-> len, padLen |-> PaddingAfter(len), read |-> <<>>, open |-> TRUE]
  BY <1>1, <1>5 DEF newOpaqueReader
<1>7. <<>> \in Seq(Byte) /\ value = <<>> \o value
  <2> HIDE DEF value
  <2> QED
    BY <1>4, ConcatEmptySeq
<1>8. /\ input' \in Seq(Byte)
      /\ input' = Arriving((value \o Padding(len)) \o Rest(Len(got) + 1), missing)
  BY <1>1, <1>2, <1>4
<1>9. NextItem.kind \in {"opaque", "fixed opaque"}
  BY <1>1
<1> QED
  BY <1>1, <1>2, <1>4, <1>6, <1>7, <1>8, <1>9, StaysOpen

(* An opaque that is being read.                                            *)
LEMMA OpenFacts ==
  ASSUME IInv, reader.open
  PROVE  /\ ~Failed /\ Streamed /\ Len(got) < Len(items)
         /\ NextItem.kind \in {"opaque", "fixed opaque"}
         /\ reader.read \in Seq(Byte) /\ LeftToRead \in Seq(Byte)
         /\ NextItem.value = reader.read \o LeftToRead
         /\ NextItem.value \in Seq(Byte) /\ Len(NextItem.value) \in Nat
         /\ reader.n = Len(LeftToRead) /\ reader.n \in Nat
         /\ reader.padLen = PaddingAfter(Len(NextItem.value))
         /\ Padding(Len(NextItem.value)) \in Seq(Byte)
         /\ Len(Padding(Len(NextItem.value))) = reader.padLen
         /\ Rest(Len(got) + 1) \in Seq(Byte) /\ input \in Seq(Byte) /\ missing \in Nat
         /\ input = Arriving((LeftToRead \o Padding(Len(NextItem.value))) \o Rest(Len(got) + 1),
                             missing)
<1>1. /\ ~Failed /\ Streamed /\ Len(got) < Len(items)
      /\ NextItem.kind \in {"opaque", "fixed opaque"}
      /\ NextItem.value = reader.read \o LeftToRead
      /\ reader.n = Len(LeftToRead)
      /\ reader.padLen = PaddingAfter(Len(NextItem.value))
      /\ input = Arriving((LeftToRead \o Padding(Len(NextItem.value))) \o Rest(Len(got) + 1),
                          missing)
  BY DEF IInv, MidItem
<1>2. /\ input \in Seq(Byte) /\ missing \in Nat
      /\ reader \in [n : Nat, padLen : 0..3, read : Seq(Byte), open : BOOLEAN]
  BY DEF IInv, Typed
<1>3. IsItem(NextItem) /\ Rest(Len(got) + 1) \in Seq(Byte)
  BY <1>1, NextFacts
<1> DEFINE value == NextItem.value
           len == Len(value)
           a == reader.read
<1>4. value \in Seq(Byte)
  BY <1>1, <1>3 DEF IsItem
<1>5. len \in Nat /\ \A i \in 1..len : value[i] \in Byte
  BY <1>4, LenProperties
<1>6. a \in Seq(Byte) /\ reader.n \in Nat
  BY <1>2
<1>7. LeftToRead \in Seq(Byte)
  <2>1. LeftToRead = SubSeq(value, Len(a) + 1, len)
    BY DEF LeftToRead
  <2>2. Len(a) \in Nat
    BY <1>6, LenProperties
  <2> HIDE DEF a, len, value
  <2>3. Len(a) + 1 \in Int /\ len \in Int /\ \A i \in (Len(a) + 1)..len : value[i] \in Byte
    BY <1>5, <2>2
  <2> QED
    BY <2>1, <2>3, SubSeqProperties
<1>8. Padding(len) \in Seq(Byte) /\ Len(Padding(len)) = PaddingAfter(len)
  <2> HIDE DEF len
  <2> QED
    BY <1>5, PaddingType
<1> QED
  BY <1>1, <1>2, <1>3, <1>4, <1>5, <1>6, <1>7, <1>8

(* The first k of the bytes that are left, and the others.                  *)
LEMMA SplitLeft ==
  ASSUME NEW S, NEW left \in Seq(S), NEW k \in 0..Len(left), NEW x, NEW y,
         x = SubSeq(left, 1, k), y = SubSeq(left, k + 1, Len(left))
  PROVE  /\ x \in Seq(S) /\ y \in Seq(S) /\ left = x \o y
         /\ Len(x) = k /\ Len(y) = Len(left) - k
<1>1. x \in Seq(S) /\ y \in Seq(S) /\ left = x \o y
  BY SplitAt
<1>2. Len(left) \in Nat /\ k \in Nat /\ k \leq Len(left)
  BY LenProperties
<1>3. Len(x) = k
  <2>1. \A i \in 1..k : left[i] \in S
    BY <1>2, LenProperties
  <2>2. Len(SubSeq(left, 1, k)) = IF 1 \leq k THEN k - 1 + 1 ELSE 0
    BY <1>2, <2>1, SubSeqProperties
  <2>3. (IF 1 \leq k THEN k - 1 + 1 ELSE 0) = k
    BY <1>2
  <2> QED
    BY <2>2, <2>3
<1>4. Len(y) = Len(left) - k
  <2>1. Len(left) = Len(x) + Len(y) /\ Len(y) \in Nat
    BY <1>1, ConcatProperties, LenProperties
  <2> QED
    BY <1>2, <1>3, <2>1
<1> QED
  BY <1>1, <1>3, <1>4

(* opaqueReader.Read takes some of the bytes that are left.                 *)
LEMMA ReadSomeStep ==
  ASSUME IInv, ReadSome
  PROVE  IInv'
<1> DEFINE left == LeftToRead
           p == Padding(Len(NextItem.value))
           rest == Rest(Len(got) + 1)
           a == reader.read
<1>1. PICK k \in 1..Smaller(reader.n, Len(input)) :
        /\ reader' = [reader EXCEPT !.n = @ - k, !.read = @ \o ReadFull(k)]
        /\ input' = After(k)
  BY DEF ReadSome
<1>2. reader.open /\ UNCHANGED <<items, missing, got>>
  BY DEF ReadSome
<1>3. /\ ~Failed /\ Streamed /\ Len(got) < Len(items)
      /\ NextItem.kind \in {"opaque", "fixed opaque"}
      /\ a \in Seq(Byte) /\ left \in Seq(Byte)
      /\ NextItem.value = a \o left
      /\ reader.n = Len(left) /\ reader.n \in Nat
      /\ reader.padLen = PaddingAfter(Len(NextItem.value))
      /\ p \in Seq(Byte) /\ rest \in Seq(Byte) /\ input \in Seq(Byte) /\ missing \in Nat
      /\ input = Arriving((left \o p) \o rest, missing)
  BY <1>2, OpenFacts
<1>4. Len(input) \in Nat
  BY <1>3, LenProperties
<1> HIDE DEF left, p, rest, a
<1>5. k \in 0..Len(left) /\ k \in Nat /\ k \leq Len(input) /\ reader.n - k = Len(left) - k
  <2> DEFINE l == Len(left)
             m == Len(input)
  <2>1. l \in Nat /\ m \in Nat /\ reader.n = l
    BY <1>3, <1>4
  <2> HIDE DEF l, m
  <2>2. k \in 0..l /\ k \in Nat /\ k \leq m /\ reader.n - k = l - k
    BY <1>1, <2>1 DEF Smaller, m
  <2> QED
    BY <2>2 DEF l, m
<1> DEFINE x == SubSeq(left, 1, k)
           y == SubSeq(left, k + 1, Len(left))
           z == (y \o p) \o rest
<1>6. /\ x \in Seq(Byte) /\ y \in Seq(Byte) /\ Len(x) = k /\ Len(y) = Len(left) - k
      /\ (left \o p) \o rest = x \o z /\ z \in Seq(Byte)
      /\ a \o x \in Seq(Byte) /\ a \o left = (a \o x) \o y
  <2>1. /\ a \in Seq(Byte) /\ left \in Seq(Byte) /\ p \in Seq(Byte) /\ rest \in Seq(Byte)
        /\ k \in 0..Len(left)
    BY <1>3, <1>5
  <2>2. x = SubSeq(left, 1, k) /\ y = SubSeq(left, k + 1, Len(left)) /\ z = (y \o p) \o rest
    OBVIOUS
  <2> HIDE DEF x, y, z
  <2>3. /\ x \in Seq(Byte) /\ y \in Seq(Byte) /\ left = x \o y
        /\ Len(x) = k /\ Len(y) = Len(left) - k
    <3>1. left \in Seq(Byte) /\ k \in 0..Len(left)
      BY <2>1
    <3> QED
      BY <2>2, <3>1, SplitLeft
  <2> DEFINE D == Seq(Byte)
             w == y \o p
  <2>5. /\ \A s \in D, t \in D : s \o t \in D
        /\ \A s \in D, t \in D, u \in D : s \o (t \o u) = (s \o t) \o u
    BY ConcatProperties, ConcatRegroup, SMTT(30)
  <2>6. a \in D /\ x \in D /\ y \in D /\ p \in D /\ rest \in D
    BY <2>1, <2>3
  <2> HIDE DEF D
  <2>7. x \o (y \o p) = (x \o y) \o p
    BY <2>5, <2>6, SMTT(30)
  <2>8. a \o (x \o y) = (a \o x) \o y
    BY <2>5, <2>6, SMTT(30)
  <2>9. w \in D /\ a \o x \in D
    BY <2>5, <2>6
  <2> HIDE DEF w
  <2>10. x \o (w \o rest) = (x \o w) \o rest
    BY <2>5, <2>6, <2>9, SMTT(30)
  <2>11. w \o rest \in D
    BY <2>5, <2>6, <2>9
  <2>4. /\ ((x \o y) \o p) \o rest = x \o ((y \o p) \o rest)
        /\ (y \o p) \o rest \in Seq(Byte)
        /\ a \o (x \o y) = (a \o x) \o y /\ a \o x \in Seq(Byte)
    BY <2>7, <2>8, <2>9, <2>10, <2>11, Zenon DEF w, D
  <2> QED
    BY <2>2, <2>3, <2>4, Zenon
<1> HIDE DEF x, y, z
<1>8. reader.n - k = Len(y)
  BY <1>5, <1>6
<1>10. After(k) = Arriving(z, missing) /\ After(k) \in Seq(Byte) /\ Sees(x)
  <2>1. /\ input = Arriving(x \o z, missing) /\ z \in Seq(Byte) /\ x \in Seq(Byte)
        /\ missing \in Nat
    BY <1>3, <1>6
  <2>2. After(Len(x)) = Arriving(z, missing) /\ After(Len(x)) \in Seq(Byte) /\ Sees(x)
    BY <2>1, Arrives
  <2>3. Len(x) = k
    BY <1>6
  <2> QED
    BY <2>2, <2>3
<1>11. ReadFull(k) = x
  <2>1. x \in Seq(Byte) /\ Len(x) = k /\ input \in Seq(Byte) /\ Sees(x)
    BY <1>3, <1>6, <1>10
  <2>2. Enough(Len(x))
    BY <1>5, <2>1 DEF Enough
  <2>3. ReadFull(Len(x)) = x
    BY <2>1, <2>2, ReadFullFacts
  <2> QED
    BY <2>1, <2>3
<1>12. a \o x \in Seq(Byte) /\ NextItem.value = (a \o x) \o y
  <2>1. NextItem.value = a \o left
    BY <1>3
  <2> QED
    BY <1>6, <2>1
<1>13. reader' = [n |-> Len(y), padLen |-> PaddingAfter(Len(NextItem.value)),
                  read |-> a \o x, open |-> TRUE]
  <2>1. reader \in [n : Nat, padLen : 0..3, read : Seq(Byte), open : BOOLEAN]
    BY DEF IInv, Typed
  <2>2. reader' = [n |-> reader.n - k, padLen |-> reader.padLen,
                   read |-> reader.read \o ReadFull(k), open |-> reader.open]
    BY <1>1, <2>1
  <2>3. reader.open = TRUE
    BY <1>2, <2>1
  <2> QED
    BY <1>3, <1>8, <1>11, <2>2, <2>3 DEF a
<1>14. input' \in Seq(Byte) /\ input' = Arriving((y \o p) \o rest, missing)
  BY <1>1, <1>10 DEF z
<1> DEFINE b == a \o x
<1>15. /\ b \in Seq(Byte) /\ NextItem.value = b \o y
       /\ reader' = [n |-> Len(y), padLen |-> PaddingAfter(Len(NextItem.value)),
                     read |-> b, open |-> TRUE]
  BY <1>12, <1>13
<1> HIDE DEF b
<1> QED
  BY <1>2, <1>3, <1>6, <1>14, <1>15, StaysOpen DEF p, rest

(* opaqueReader.Close takes the others, and the padding.                    *)
LEMMA CloseStep ==
  ASSUME IInv, Close
  PROVE  IInv'
<1> DEFINE left == LeftToRead
           p == Padding(Len(NextItem.value))
           rest == Rest(Len(got) + 1)
           a == reader.read
           r == Result(a, TRUE)
<1>1. /\ reader.open /\ UNCHANGED <<items, missing>>
      /\ input' = After(reader.n + reader.padLen)
      /\ got' = Append(got, r) /\ reader' = NoReader
  BY DEF Close
<1>2. /\ ~Failed /\ Streamed /\ Len(got) < Len(items)
      /\ NextItem.kind \in {"opaque", "fixed opaque"}
      /\ a \in Seq(Byte) /\ left \in Seq(Byte)
      /\ NextItem.value = a \o left
      /\ reader.n = Len(left) /\ reader.padLen = Len(p)
      /\ p \in Seq(Byte) /\ rest \in Seq(Byte) /\ input \in Seq(Byte) /\ missing \in Nat
      /\ input = Arriving((left \o p) \o rest, missing)
  BY <1>1, OpenFacts
<1>3. r.ok /\ r.value = a
  BY DEF Result
<1>4. /\ reader' \in [n : Nat, padLen : 0..3, read : Seq(Byte), open : BOOLEAN]
      /\ ~reader'.open
  BY <1>1 DEF NoReader
<1> HIDE DEF left, p, rest, a
<1>5. /\ After(reader.n + reader.padLen) = Arriving(rest, missing)
      /\ After(reader.n + reader.padLen) \in Seq(Byte)
  <2> DEFINE x == left \o p
  <2>1. x \in Seq(Byte) /\ Len(x) = reader.n + reader.padLen
    <3>1. /\ left \in Seq(Byte) /\ p \in Seq(Byte)
          /\ reader.n + reader.padLen = Len(left) + Len(p)
      BY <1>2
    <3>2. left \o p \in Seq(Byte) /\ Len(left \o p) = Len(left) + Len(p)
      BY <3>1, ConcatProperties
    <3> QED
      BY <3>1, <3>2
  <2>2. input = Arriving(x \o rest, missing)
    BY <1>2
  <2> HIDE DEF x
  <2>3. rest \in Seq(Byte) /\ missing \in Nat
    BY <1>2
  <2>4. After(Len(x)) = Arriving(rest, missing) /\ After(Len(x)) \in Seq(Byte)
    BY <2>1, <2>2, <2>3, Arrives
  <2> QED
    BY <2>1, <2>4
<1>6. SentFor(NextItem, r.value)
  <2>1. IsPrefix(a, NextItem.value)
    BY <1>2, PrefixFacts
  <2> QED
    BY <1>2, <1>3, <2>1 DEF SentFor
<1> HIDE DEF r
<1>7. /\ input' \in Seq(Byte)
      /\ r.ok => input' = Arriving(Rest(Len(got) + 1), missing)
      /\ r.ok => SentFor(NextItem, r.value) \/ (Trusting /\ Truncated)
      /\ ~r.ok => ReasonFor(NextItem)
  BY <1>1, <1>3, <1>5, <1>6 DEF rest
<1> QED
  BY <1>1, <1>2, <1>4, <1>7, ItemDone

-----------------------------------------------------------------------------
(* The theorems.                                                            *)

(* At first the whole message is to be read, as far as it arrives.          *)
LEMMA Initially ==
  ASSUME Init
  PROVE  IInv
<1> DEFINE w == EncodeAll(items)
<1>1. /\ items \in Message /\ missing \in (IF Truncated THEN 0..Len(w) ELSE {0})
      /\ input = SubSeq(w, 1, Len(w) - missing) /\ got = <<>> /\ reader = NoReader
  BY DEF Init
<1>2. IsMessage(items)
  BY <1>1, MessageAssumption
<1>3. Len(items) \in Nat /\ EncodeAll(SubSeq(items, 0 + 1, Len(items))) \in Seq(Byte)
  <2>1. Len(items) \in Nat
    BY <1>2, LenProperties DEF IsMessage
  <2>2. 0 \in 0..Len(items)
    BY <2>1
  <2> QED
    BY <1>2, <2>1, <2>2, RestFacts
<1>4. SubSeq(items, 0 + 1, Len(items)) = items
  <2>1. items \in Seq(Range(items))
    BY <1>2 DEF IsMessage
  <2> DEFINE S == Range(items)
             t == SubSeq(items, 1, Len(items))
  <2>2. items \in Seq(S)
    BY <2>1
  <2> HIDE DEF S
  <2>3. \A i \in 1..Len(items) : items[i] \in S
    BY <2>2, LenProperties
  <2>4. /\ t \in Seq(S) /\ Len(t) = IF 1 \leq Len(items) THEN Len(items) - 1 + 1 ELSE 0
        /\ \A i \in 1..(Len(items) - 1 + 1) : t[i] = items[1 + i - 1]
    BY <1>3, <2>3, SubSeqProperties
  <2> HIDE DEF t
  <2>5. Len(t) = Len(items)
    BY <1>3, <2>4
  <2>6. \A i \in 1..Len(items) : t[i] = items[i]
    <3> SUFFICES ASSUME NEW i \in 1..Len(items) PROVE t[i] = items[i]
      OBVIOUS
    <3>1. i \in 1..(Len(items) - 1 + 1) /\ 1 + i - 1 = i
      BY <1>3
    <3> QED
      BY <2>4, <3>1
  <2>7. t = items
    BY <2>2, <2>4, <2>5, <2>6, SeqEqual
  <2>8. 0 + 1 = 1
    OBVIOUS
  <2> QED
    BY <2>7, <2>8 DEF t
<1>5. w \in Seq(Byte)
  BY <1>3, <1>4
<1>6. missing \in Nat /\ (Truncated \/ missing = 0)
  BY <1>1, <1>5, LenProperties
<1> HIDE DEF w
<1>7. input = Arriving(w, missing)
  BY <1>1 DEF Arriving
<1>8. input \in Seq(Byte)
  BY <1>5, <1>6, <1>7, ArrivingFacts
<1>9. Len(got) = 0 /\ DOMAIN got = {} /\ got = [i \in 1..0 |-> got[i]]
  BY <1>1
<1>10. ~reader.open /\ reader \in [n : Nat, padLen : 0..3, read : Seq(Byte), open : BOOLEAN]
  BY <1>1 DEF NoReader
<1>11. Typed
  BY <1>2, <1>3, <1>6, <1>8, <1>9, <1>10 DEF Typed
<1>12. ~Failed
  BY <1>9 DEF Failed
<1>13. Aligned
  <2>1. Rest(Len(got)) = w
    BY <1>4, <1>9 DEF Rest, w
  <2> QED
    BY <1>7, <2>1 DEF Aligned, Arriving
<1>14. MidItem /\ FailsForAReason
  BY <1>10, <1>12 DEF MidItem, FailsForAReason
<1>15. Honest
  BY <1>9 DEF Honest, ReadsWhatWasSent
<1> QED
  BY <1>11, <1>13, <1>14, <1>15 DEF IInv

(* The decoder's position in the stream, in every reachable state: at the   *)
(* beginning of an item, or within an opaque that an opaqueReader reads.    *)
THEOREM Inductive == Spec => []IInv
<1>1. ASSUME IInv, [Next]_vars PROVE IInv'
  <2>1. CASE DecodeItem
    BY <1>1, <2>1, DecodeItemStep
  <2>2. CASE OpaqueReader
    BY <1>1, <2>2, OpaqueReaderStep
  <2>3. CASE FixedOpaqueReader
    BY <1>1, <2>3, FixedOpaqueReaderStep
  <2>4. CASE ReadSome
    BY <1>1, <2>4, ReadSomeStep
  <2>5. CASE Close
    BY <1>1, <2>5, CloseStep
  <2>6. CASE UNCHANGED vars
    BY <1>1, <2>6 DEF vars, IInv, Typed, Aligned, MidItem, FailsForAReason, Honest,
       ReadsWhatWasSent, Failed, Rest, NextItem, LeftToRead
  <2> QED
    BY <1>1, <2>1, <2>2, <2>3, <2>4, <2>5, <2>6 DEF Next
<1> QED
  BY <1>1, Initially, PTL DEF Spec

(* The input, the results and the open reader always have their types.      *)
THEOREM TypeCorrect == Spec => []TypeOK
<1>1. ASSUME IInv PROVE TypeOK
  <2>1. Typed
    BY <1>1 DEF IInv
  <2>2. Len(got) \leq Len(items)
    <3>1. IsMessage(items) /\ Len(got) \in 0..Len(items)
      BY <2>1 DEF Typed
    <3> QED
      BY <3>1
  <2> QED
    BY <2>1, <2>2 DEF Typed, TypeOK
<1> QED
  BY <1>1, Inductive, PTL

(* Between two items the decoder is at the beginning of an item, whichever  *)
(* method read the ones before it, and however much of an opaque was read   *)
(* before opaqueReader.Close.                                               *)
THEOREM StaysAligned == Spec => []Aligned
<1>1. IInv => Aligned
  BY DEF IInv
<1> QED
  BY <1>1, Inductive, PTL

(* The decoder reports an error only when the stream ends in the item, its  *)
(* length is over the limit, or a bool is neither 0 nor 1.                  *)
THEOREM ErrorsHaveReasons == Spec => []FailsForAReason
<1>1. IInv => FailsForAReason
  BY DEF IInv
<1> QED
  BY <1>1, Inductive, PTL

(* What the decoder returns without an error is what the encoder was given, *)
(* unless DecodeOpaque and DecodeString read a stream that ends early.      *)
THEOREM ReturnsWhatWasSent ==
  ASSUME Trusting => ~Truncated
  PROVE  Spec => []ReadsWhatWasSent
<1>1. IInv => ReadsWhatWasSent
  BY DEF IInv, Honest
<1> QED
  BY <1>1, Inductive, PTL
=============================================================================
