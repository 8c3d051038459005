--------------------------- MODULE SequenceFacts ---------------------------
(***************************************************************************)
(* Facts about numbers and sequences that the proofs of the project share. *)
(***************************************************************************)
EXTENDS Integers, SequencesExt, SequenceTheorems, FiniteSetTheorems, TLAPS

(* Induction, for a property that is given as the set of the numbers that   *)
(* have it.  A number without it would be the largest of the numbers up to  *)
(* it that have none, but going down by one maps these into themselves.     *)
LEMMA InductionOnNat ==
  ASSUME NEW S, 0 \in S, \A n \in Nat : n \in S => n + 1 \in S
  PROVE  Nat \subseteq S
<1> SUFFICES ASSUME NEW k \in Nat, k \notin S PROVE FALSE
  OBVIOUS
<1> DEFINE T == {n \in 0..k : n \notin S}
           f == [n \in T |-> n - 1]
<1>1. IsFiniteSet(T)
  <2>1. IsFiniteSet(0..k) /\ T \in SUBSET (0..k)
    BY FS_Interval
  <2> HIDE DEF T
  <2> QED
    BY <2>1, FS_Subset
<1>2. \A n \in T : n - 1 \in T
  OBVIOUS
<1>3. f \in Injection(T, T)
  BY <1>2 DEF Injection, IsInjective
<1>4. f \in Surjection(T, T)
  BY <1>1, <1>3, FS_Injection
<1>5. PICK n \in T : f[n] = k
  <2>1. k \in T
    OBVIOUS
  <2> QED
    BY <1>4, <2>1 DEF Surjection
<1> QED
  BY <1>5

(* The last element of a sequence, and the sequence with another one there. *)
LEMMA FrontFacts ==
  ASSUME NEW S, NEW s \in Seq(S), s # <<>>
  PROVE  /\ Len(s) \in Nat \ {0} /\ DOMAIN s = 1..Len(s)
         /\ Last(s) = s[Len(s)] /\ Last(s) \in S
         /\ Front(s) \in Seq(S) /\ Len(Front(s)) = Len(s) - 1
         /\ \A i \in 1..(Len(s) - 1) : Front(s)[i] = s[i]
<1>1. /\ Len(s) \in Nat \ {0} /\ DOMAIN s = 1..Len(s)
      /\ \A i \in 1..Len(s) : s[i] \in S
  BY EmptySeq, LenProperties
<1>2. Last(s) = s[Len(s)] /\ Last(s) \in S
  BY <1>1 DEF Last
<1>3. /\ Front(s) \in Seq(S) /\ Len(Front(s)) = Len(s) - 1
      /\ \A i \in 1..(Len(s) - 1) : Front(s)[i] = s[i]
  <2> DEFINE n == Len(s) - 1
  <2>1. n \in Nat /\ \A i \in 1..n : s[i] \in S
    BY <1>1
  <2>2. /\ SubSeq(s, 1, n) \in Seq(S)
        /\ Len(SubSeq(s, 1, n)) = IF 1 \leq n THEN n - 1 + 1 ELSE 0
        /\ \A i \in 1..(n - 1 + 1) : SubSeq(s, 1, n)[i] = s[1 + i - 1]
    BY <2>1, SubSeqProperties
  <2>3. Front(s) = SubSeq(s, 1, n)
    BY DEF Front
  <2>4. n = Len(s) - 1
    OBVIOUS
  <2> HIDE DEF n
  <2>5. Len(Front(s)) = n
    BY <2>1, <2>2, <2>3
  <2>6. \A i \in 1..n : Front(s)[i] = s[i]
    <3> SUFFICES ASSUME NEW i \in 1..n PROVE Front(s)[i] = s[i]
      OBVIOUS
    <3>1. i \in 1..(n - 1 + 1) /\ 1 + i - 1 = i
      BY <2>1
    <3> QED
      BY <2>2, <2>3, <3>1
  <2> QED
    BY <2>2, <2>3, <2>4, <2>5, <2>6
<1> QED
  BY <1>1, <1>2, <1>3

(* What replacing the last element does.                                    *)
LEMMA ReplaceLast ==
  ASSUME NEW S, NEW s \in Seq(S), s # <<>>, NEW x \in S
  PROVE  /\ Append(Front(s), x) \in Seq(S) /\ Append(Front(s), x) # <<>>
         /\ Len(Append(Front(s), x)) = Len(s)
         /\ DOMAIN Append(Front(s), x) = 1..Len(s)
         /\ \A i \in 1..Len(s) :
              Append(Front(s), x)[i] = IF i = Len(s) THEN x ELSE s[i]
<1>1. /\ Append(Front(s), x) \in Seq(S) /\ Append(Front(s), x) # <<>>
      /\ Len(Append(Front(s), x)) = Len(Front(s)) + 1
      /\ \A i \in 1..Len(Front(s)) : Append(Front(s), x)[i] = Front(s)[i]
      /\ Append(Front(s), x)[Len(Front(s)) + 1] = x
  BY FrontFacts, AppendProperties
<1>2. DOMAIN Append(Front(s), x) = 1..Len(Append(Front(s), x))
  BY <1>1, LenProperties
<1> QED
  BY <1>1, <1>2, FrontFacts

(* The rest of a list.                                                      *)
LEMMA HeadFacts ==
  ASSUME NEW S, NEW s \in Seq(S), s # <<>>
  PROVE  Head(s) \in S /\ Tail(s) \in Seq(S) /\ s = <<Head(s)>> \o Tail(s)
<1>1. /\ Head(s) \in S /\ Tail(s) \in Seq(S) /\ Len(Tail(s)) = Len(s) - 1
      /\ \A i \in 1..Len(Tail(s)) : Tail(s)[i] = s[i + 1]
  BY HeadTailProperties
<1>2. Len(s) \in Nat \ {0} /\ Head(s) = s[1]
  BY EmptySeq
<1>3. <<Head(s)>> \in Seq(S) /\ Len(<<Head(s)>>) = 1 /\ <<Head(s)>>[1] = Head(s)
  BY <1>1
<1>4. /\ <<Head(s)>> \o Tail(s) \in Seq(S)
      /\ Len(<<Head(s)>> \o Tail(s)) = 1 + Len(Tail(s))
      /\ \A i \in 1..(1 + Len(Tail(s))) :
           (<<Head(s)>> \o Tail(s))[i] = IF i \leq 1 THEN <<Head(s)>>[i] ELSE Tail(s)[i - 1]
  BY <1>1, <1>3, ConcatProperties
<1>5. \A i \in 1..Len(s) : (<<Head(s)>> \o Tail(s))[i] = s[i]
  BY <1>1, <1>2, <1>3, <1>4
<1> QED
  BY <1>1, <1>2, <1>4, <1>5, SeqEqual

(* What is defined by recursion over the natural numbers up to C exists.    *)
Iterations(D, base, G, C) ==
  {out \in [0..C -> D] : out[0] = base /\ \A n \in 1..C : out[n] = G[<<n, out[n - 1]>>]}

(* A function defined by going up from 0 exists.                            *)
LEMMA IterateExists ==
  ASSUME NEW D, NEW base \in D, NEW G \in [Nat \X D -> D], NEW C \in Nat
  PROVE  Iterations(D, base, G, C) # {}
<1> DEFINE P(c, out) == out[0] = base /\ \A n \in 1..c : out[n] = G[<<n, out[n - 1]>>]
           S == {c \in Nat : \E out \in [0..c -> D] : P(c, out)}
<1>1. 0 \in S
  <2> DEFINE out == [n \in 0..0 |-> base]
  <2>1. out \in [0..0 -> D] /\ out[0] = base /\ \A n \in 1..0 : FALSE
    OBVIOUS
  <2> QED
    BY <2>1
<1>2. ASSUME NEW c \in Nat, c \in S PROVE c + 1 \in S
  <2>1. PICK out \in [0..c -> D] : P(c, out)
    BY <1>2
  <2> DEFINE next == G[<<c + 1, out[c]>>]
             more == [n \in 0..(c + 1) |-> IF n = c + 1 THEN next ELSE out[n]]
  <2>2. next \in D
    BY <2>1
  <2> HIDE DEF next
  <2>3. more \in [0..(c + 1) -> D]
    BY <2>1, <2>2
  <2>4. \A n \in 0..c : more[n] = out[n]
    OBVIOUS
  <2>5. more[c + 1] = next
    OBVIOUS
  <2>6. more[0] = base
    BY <2>1, <2>4
  <2> HIDE DEF more
  <2>7. \A n \in 1..(c + 1) : more[n] = G[<<n, more[n - 1]>>]
    <3> SUFFICES ASSUME NEW n \in 1..(c + 1) PROVE more[n] = G[<<n, more[n - 1]>>]
      OBVIOUS
    <3>1. CASE n = c + 1
      <4>1. more[n - 1] = out[c]
        BY <2>4, <3>1
      <4> QED
        BY <2>5, <3>1, <4>1 DEF next
    <3>2. CASE n # c + 1
      <4>1. n \in 1..c /\ n \in 0..c /\ n - 1 \in 0..c
        BY <3>2
      <4> QED
        BY <2>1, <2>4, <4>1
    <3> QED
      BY <3>1, <3>2
  <2> QED
    BY <2>3, <2>6, <2>7
<1>3. C \in S
  <2> HIDE DEF S
  <2> QED
    BY <1>1, <1>2, InductionOnNat
<1> QED
  BY <1>3 DEF Iterations

(* FlattenSeq: the beginnings of the concatenation.                         *)
Beginnings(s) ==
  CHOOSE flatten : flatten = [i \in 1..Len(s) |-> IF i = 1 THEN s[i] ELSE flatten[i - 1] \o s[i]]

(* FlattenSeq is the last of the beginnings it goes through.                *)
LEMMA BeginningsFacts ==
  ASSUME NEW S, NEW s \in Seq(Seq(S))
  PROVE  /\ Len(s) \in Nat /\ Beginnings(s) \in [1..Len(s) -> Seq(S)]
         /\ \A i \in 1..Len(s) :
              Beginnings(s)[i] = IF i = 1 THEN s[i] ELSE Beginnings(s)[i - 1] \o s[i]
         /\ FlattenSeq(s) = IF Len(s) = 0 THEN <<>> ELSE Beginnings(s)[Len(s)]
<1> DEFINE n == Len(s)
           G == [x \in Nat \X Seq(S) |-> IF x[1] \in 1..n THEN x[2] \o s[x[1]] ELSE <<>>]
           f == Beginnings(s)
<1>1. n \in Nat /\ \A i \in 1..n : s[i] \in Seq(S)
  BY LenProperties
<1> HIDE DEF n
<1>2. G \in [Nat \X Seq(S) -> Seq(S)]
  BY <1>1, ConcatProperties
<1>3. PICK out \in [0..n -> Seq(S)] : out[0] = <<>> /\ \A i \in 1..n : out[i] = G[<<i, out[i - 1]>>]
  <2> DEFINE D == Seq(S)
             base == <<>>
  <2>1. base \in D /\ G \in [Nat \X D -> D] /\ n \in Nat
    BY <1>1, <1>2
  <2> HIDE DEF G, D, base
  <2>2. Iterations(D, base, G, n) # {}
    BY <2>1, IterateExists, Zenon
  <2> QED
    BY <2>2 DEF Iterations, D, base
<1>4. \A i \in 1..n : out[i] \in Seq(S) /\ out[i - 1] \in Seq(S) /\ out[i] = out[i - 1] \o s[i]
  <2> SUFFICES ASSUME NEW i \in 1..n
               PROVE  out[i] \in Seq(S) /\ out[i - 1] \in Seq(S) /\ out[i] = out[i - 1] \o s[i]
    OBVIOUS
  <2>1. i \in Nat /\ i - 1 \in 0..n /\ i \in 0..n
    BY <1>1
  <2>2. <<i, out[i - 1]>> \in Nat \X Seq(S)
    BY <1>3, <2>1
  <2>3. G[<<i, out[i - 1]>>] = out[i - 1] \o s[i]
    BY <2>2
  <2> QED
    BY <1>3, <2>1, <2>3
<1> DEFINE g == [i \in 1..n |-> out[i]]
<1>5. g \in [1..n -> Seq(S)]
  BY <1>4
<1>6. \A i \in 1..n : g[i] = IF i = 1 THEN s[i] ELSE g[i - 1] \o s[i]
  <2> SUFFICES ASSUME NEW i \in 1..n PROVE g[i] = IF i = 1 THEN s[i] ELSE g[i - 1] \o s[i]
    OBVIOUS
  <2>1. CASE i = 1
    <3>0. i - 1 = 0 /\ out[i - 1] = <<>>
      BY <1>3, <2>1
    <3>1. out[i] = <<>> \o s[i] /\ s[i] \in Seq(S)
      BY <1>1, <1>4, <3>0
    <3>2. <<>> \o s[i] = s[i]
      BY <3>1, ConcatEmptySeq
    <3> QED
      BY <2>1, <3>1, <3>2
  <2>2. CASE i # 1
    <3>1. i - 1 \in 1..n
      BY <1>1, <2>2
    <3> QED
      BY <1>4, <2>2, <3>1
  <2> QED
    BY <2>1, <2>2
<1>7. g = [i \in 1..n |-> IF i = 1 THEN s[i] ELSE g[i - 1] \o s[i]]
  <2> HIDE DEF g
  <2> QED
    BY <1>5, <1>6
<1>8. f = [i \in 1..n |-> IF i = 1 THEN s[i] ELSE f[i - 1] \o s[i]]
  <2> HIDE DEF g
  <2> QED
    BY <1>7 DEF Beginnings, n
(* There is one such function only.                                         *)
<1>9. f \in [1..n -> Seq(S)] /\ \A i \in 1..n : f[i] = IF i = 1 THEN s[i] ELSE f[i - 1] \o s[i]
  <2> HIDE DEF f, g
  <2> DEFINE T == {k \in Nat : k \in 1..n => f[k] \in Seq(S)}
  <2>1. \A i \in 1..n : f[i] = IF i = 1 THEN s[i] ELSE f[i - 1] \o s[i]
    BY <1>8
  <2>2. 0 \in T
    OBVIOUS
  <2>3. ASSUME NEW k \in Nat, k \in T PROVE k + 1 \in T
    <3> SUFFICES ASSUME k + 1 \in 1..n PROVE f[k + 1] \in Seq(S)
      OBVIOUS
    <3>1. CASE k = 0
      <4>1. 1 \in 1..n /\ k + 1 = 1
        BY <3>1
      <4> QED
        BY <1>1, <2>1, <4>1
    <3>2. CASE k # 0
      <4>1. k \in 1..n /\ f[k] \in Seq(S) /\ s[k + 1] \in Seq(S) /\ (k + 1) - 1 = k /\ k + 1 # 1
        BY <1>1, <2>3, <3>2
      <4>2. f[k + 1] = f[k] \o s[k + 1]
        BY <2>1, <4>1
      <4> QED
        BY <4>1, <4>2, ConcatProperties
    <3> QED
      BY <3>1, <3>2
  <2>4. Nat \subseteq T
    <3> HIDE DEF T
    <3> QED
      BY <2>2, <2>3, InductionOnNat
  <2>5. \A i \in 1..n : f[i] \in Seq(S)
    BY <2>4
  <2>6. DOMAIN f = 1..n
    BY <1>8
  <2> QED
    BY <1>8, <2>1, <2>5, <2>6
<1>10. FlattenSeq(s) = IF n = 0 THEN <<>> ELSE f[n]
  <2>1. n = 0 => s = <<>>
    BY EmptySeq DEF n
  <2> QED
    BY <2>1 DEF FlattenSeq, Beginnings, n
<1> QED
  BY <1>1, <1>9, <1>10 DEF n

(* Flattening sequences of S yields a sequence of S.                        *)
LEMMA FlattenType ==
  ASSUME NEW S, NEW s \in Seq(Seq(S))
  PROVE  FlattenSeq(s) \in Seq(S)
<1> DEFINE n == Len(s)
           f == Beginnings(s)
<1>1. /\ n \in Nat /\ f \in [1..n -> Seq(S)]
      /\ FlattenSeq(s) = IF n = 0 THEN <<>> ELSE f[n]
  BY BeginningsFacts
<1>2. <<>> \in Seq(S)
  OBVIOUS
<1> HIDE DEF n, f
<1>3. n # 0 => f[n] \in Seq(S)
  BY <1>1
<1> QED
  BY <1>1, <1>2, <1>3

(* Nothing flattens to nothing.                                             *)
LEMMA FlattenEmpty == FlattenSeq(<<>>) = <<>>
BY DEF FlattenSeq

(* FlattenSeq, one sequence more.                                           *)
LEMMA FlattenAppend ==
  ASSUME NEW S, NEW s \in Seq(Seq(S)), NEW x \in Seq(S)
  PROVE  FlattenSeq(Append(s, x)) = FlattenSeq(s) \o x
<1> DEFINE n == Len(s)
           t == Append(s, x)
           f == Beginnings(s)
           h == Beginnings(t)
           T == {k \in Nat : k \in 1..n => h[k] = f[k]}
<1>1. /\ n \in Nat /\ t \in Seq(Seq(S)) /\ Len(t) = n + 1 /\ t[n + 1] = x
      /\ \A i \in 1..n : t[i] = s[i]
  BY AppendProperties, LenProperties
<1>2. /\ \A i \in 1..n : f[i] = IF i = 1 THEN s[i] ELSE f[i - 1] \o s[i]
      /\ FlattenSeq(s) = IF n = 0 THEN <<>> ELSE f[n]
  BY BeginningsFacts
<1> HIDE DEF t
<1>3. /\ \A i \in 1..(n + 1) : h[i] = IF i = 1 THEN t[i] ELSE h[i - 1] \o t[i]
      /\ FlattenSeq(t) = h[n + 1]
  <2>1. Len(t) # 0
    BY <1>1
  <2> QED
    BY <1>1, <2>1, BeginningsFacts
<1> HIDE DEF n, f, h
<1>0. n \in Nat
  BY <1>1
<1>4. Nat \subseteq T
  <2>1. 0 \in T
    OBVIOUS
  <2>2. ASSUME NEW k \in Nat, k \in T PROVE k + 1 \in T
    <3> SUFFICES ASSUME k + 1 \in 1..n PROVE h[k + 1] = f[k + 1]
      OBVIOUS
    <3>1. k + 1 \in 1..(n + 1) /\ t[k + 1] = s[k + 1] /\ (k + 1) - 1 = k
      BY <1>1
    <3>2. CASE k = 0
      BY <1>2, <1>3, <3>1, <3>2
    <3>3. CASE k # 0
      <4>1. h[k] = f[k] /\ k + 1 # 1
        BY <1>1, <2>2, <3>3
      <4> QED
        BY <1>2, <1>3, <3>1, <4>1
    <3> QED
      BY <3>2, <3>3
  <2> HIDE DEF T
  <2> QED
    BY <2>1, <2>2, InductionOnNat
<1>5. CASE n = 0
  <2>1. FlattenSeq(t) = x /\ FlattenSeq(s) = <<>>
    BY <1>1, <1>2, <1>3, <1>5
  <2> QED
    BY <2>1, ConcatEmptySeq DEF t
<1>6. CASE n # 0
  <2>1. n \in 1..n /\ h[n] = f[n]
    BY <1>1, <1>4, <1>6
  <2>2. h[n + 1] = h[n] \o x
    <3>1. n + 1 \in 1..(n + 1) /\ n + 1 # 1 /\ (n + 1) - 1 = n
      BY <1>0, <1>6
    <3>2. h[n + 1] = h[(n + 1) - 1] \o t[n + 1]
      BY <1>3, <3>1
    <3> QED
      BY <1>1, <3>1, <3>2
  <2> QED
    BY <1>2, <1>3, <1>6, <2>1, <2>2 DEF t
<1> QED
  BY <1>5, <1>6

(* FlattenSeq of a single sequence.                                         *)
LEMMA FlattenOne == ASSUME NEW S, NEW x \in Seq(S) PROVE FlattenSeq(<<x>>) = x
<1>1. <<>> \in Seq(Seq(S)) /\ Append(<<>>, x) = <<x>>
  OBVIOUS
<1>2. FlattenSeq(Append(<<>>, x)) = FlattenSeq(<<>>) \o x
  BY <1>1, FlattenAppend
<1> QED
  BY <1>1, <1>2, FlattenEmpty, ConcatEmptySeq

(* Appending after a concatenation.                                         *)
LEMMA ConcatAppend ==
  ASSUME NEW S, NEW s \in Seq(S), NEW a \in Seq(S), NEW x \in S
  PROVE  s \o Append(a, x) = Append(s \o a, x)
<1>1. <<x>> \in Seq(S) /\ s \o a \in Seq(S)
  BY ConcatProperties
<1>2. (s \o a) \o <<x>> = s \o (a \o <<x>>)
  BY <1>1, ConcatAssociative
<1>3. Append(a, x) = a \o <<x>> /\ Append(s \o a, x) = (s \o a) \o <<x>>
  BY <1>1, AppendIsConcat
<1> QED
  BY <1>2, <1>3

(* Concatenation, regrouped.                                                *)
LEMMA ConcatRegroup ==
  ASSUME NEW S, NEW s \in Seq(S), NEW t \in Seq(S), NEW u \in Seq(S)
  PROVE  s \o (t \o u) = (s \o t) \o u
BY ConcatAssociative

(* FlattenSeq distributes over concatenation.                               *)
LEMMA FlattenConcat ==
  ASSUME NEW S, NEW s \in Seq(Seq(S)), NEW t \in Seq(Seq(S))
  PROVE  FlattenSeq(s \o t) = FlattenSeq(s) \o FlattenSeq(t)
<1> DEFINE P(u) == FlattenSeq(s \o u) = FlattenSeq(s) \o FlattenSeq(u)
           T == {n \in Nat : \A u \in Seq(Seq(S)) : Len(u) = n => P(u)}
<1>0. FlattenSeq(s) \in Seq(S)
  BY FlattenType
<1>1. 0 \in T
  <2> SUFFICES ASSUME NEW u \in Seq(Seq(S)), Len(u) = 0 PROVE P(u)
    OBVIOUS
  <2>1. u = <<>>
    BY EmptySeq
  <2>2. s \o u = s /\ FlattenSeq(s) \o <<>> = FlattenSeq(s)
    BY <1>0, <2>1, ConcatEmptySeq
  <2> QED
    BY <2>1, <2>2, FlattenEmpty
<1>2. ASSUME NEW n \in Nat, n \in T PROVE n + 1 \in T
  <2> SUFFICES ASSUME NEW u \in Seq(Seq(S)), Len(u) = n + 1 PROVE P(u)
    OBVIOUS
  <2>1. u # <<>>
    BY EmptySeq
  <2>2. PICK a \in Seq(Seq(S)), x \in Seq(S) : u = Append(a, x)
    BY <2>1, SequenceEmptyOrAppend
  <2>3. Len(a) = n /\ u = a \o <<x>>
    <3>1. Len(u) = Len(a) + 1 /\ u = a \o <<x>> /\ Len(a) \in Nat
      BY <2>2, AppendProperties, AppendIsConcat, LenProperties
    <3> QED
      BY <3>1
  <2>4. P(a)
    BY <1>2, <2>3
  <2>5. <<x>> \in Seq(Seq(S)) /\ s \o a \in Seq(Seq(S)) /\ FlattenSeq(a) \in Seq(S)
    BY ConcatProperties, FlattenType
  <2>6. s \o u = Append(s \o a, x)
    BY <2>2, ConcatAppend
  <2>7. FlattenSeq(s \o u) = FlattenSeq(s \o a) \o x
    BY <2>5, <2>6, FlattenAppend
  <2>8. FlattenSeq(u) = FlattenSeq(a) \o x
    BY <2>2, FlattenAppend
  <2>9. (FlattenSeq(s) \o FlattenSeq(a)) \o x = FlattenSeq(s) \o (FlattenSeq(a) \o x)
    BY <1>0, <2>5, ConcatAssociative, SMTT(30)
  <2> QED
    BY <2>4, <2>7, <2>8, <2>9
<1> HIDE DEF T
<1>3. Nat \subseteq T
  BY <1>1, <1>2, InductionOnNat
<1>4. Len(t) \in Nat
  BY LenProperties
<1> QED
  BY <1>3, <1>4 DEF T

(* A sequence that another one continues is a prefix of it.                 *)
LEMMA PrefixFacts ==
  ASSUME NEW S, NEW s \in Seq(S), NEW t \in Seq(S)
  PROVE  IsPrefix(s, s \o t)
<1>1. /\ s \o t \in Seq(S) /\ Len(s \o t) = Len(s) + Len(t) /\ Len(s) \in Nat /\ Len(t) \in Nat
      /\ \A i \in 1..(Len(s) + Len(t)) :
           (s \o t)[i] = IF i \leq Len(s) THEN s[i] ELSE t[i - Len(s)]
  BY ConcatProperties, LenProperties
<1>2. CASE Len(s) = 0
  <2>1. SubSeq(s, 1, 0) = <<>> /\ SubSeq(s \o t, 1, 0) = <<>>
    BY SubSeqEmpty
  <2> QED
    BY <1>1, <1>2, <2>1 DEF IsPrefix
<1>3. CASE Len(s) # 0
  <2>1. 1 \in 1..Len(s) /\ Len(s) \in 1..Len(s)
    BY <1>1, <1>3
  <2>2. SubSeq(s \o t, 1, Len(s)) = SubSeq(s, 1, Len(s))
    BY <2>1, SubSeqOfConcat1
  <2> QED
    BY <1>1, <2>2 DEF IsPrefix
<1> QED
  BY <1>2, <1>3

(* A sequence is what comes up to a place, and what comes after it.         *)
LEMMA SplitAt ==
  ASSUME NEW S, NEW s \in Seq(S), NEW n \in 0..Len(s)
  PROVE  /\ SubSeq(s, 1, n) \in Seq(S) /\ SubSeq(s, n + 1, Len(s)) \in Seq(S)
         /\ s = SubSeq(s, 1, n) \o SubSeq(s, n + 1, Len(s))
<1>1. Len(s) \in Nat /\ \A i \in 1..Len(s) : s[i] \in S
  BY LenProperties
<1>2. SubSeq(s, 1, n) \in Seq(S)
  <2>1. n \in Int /\ \A i \in 1..n : s[i] \in S
    BY <1>1
  <2> QED
    BY <2>1, SubSeqProperties
<1>3. SubSeq(s, n + 1, Len(s)) \in Seq(S)
  <2>1. n + 1 \in Int /\ Len(s) \in Int /\ \A i \in (n + 1)..Len(s) : s[i] \in S
    BY <1>1
  <2> QED
    BY <2>1, SubSeqProperties
<1>4. SubSeq(s, 1, n) \o SubSeq(s, n + 1, Len(s)) = SubSeq(s, 1, Len(s))
  <2>1. 1 \in 1..(Len(s) + 1) /\ n \in (1 - 1)..Len(s) /\ Len(s) \in n..Len(s)
    BY <1>1
  <2> QED
    BY <2>1, ConcatAdjacentSubSeq
<1> QED
  BY <1>2, <1>3, <1>4, SubSeqFull

(* Two concatenations next to each other, regrouped.                        *)
LEMMA ConcatMiddle ==
  ASSUME NEW S, NEW a \in Seq(S), NEW p \in Seq(S), NEW q \in Seq(S), NEW x \in Seq(S)
  PROVE  (a \o p) \o (q \o x) = (a \o (p \o q)) \o x
<1>1. (a \o p) \o q = a \o (p \o q)
  BY ConcatAssociative, SMTT(20)
<1> DEFINE ap == a \o p
<1>2. ap \in Seq(S)
  BY ConcatProperties
<1> HIDE DEF ap
<1>3. ap \o (q \o x) = (ap \o q) \o x
  BY <1>2, ConcatRegroup, SMTT(20)
<1> QED
  BY <1>1, <1>3 DEF ap

(* A concatenation begins with a beginning of what it is made of.           *)
LEMMA BeginningIsPrefix ==
  ASSUME NEW S, NEW a \in Seq(S), NEW b \in Seq(S), NEW x \in Seq(S), NEW n \in 0..Len(b)
  PROVE  /\ a \o SubSeq(b, 1, n) \in Seq(S)
         /\ IsPrefix(a \o SubSeq(b, 1, n), (a \o b) \o x)
<1> DEFINE p == SubSeq(b, 1, n)
           q == SubSeq(b, n + 1, Len(b))
<1>1. p \in Seq(S) /\ q \in Seq(S) /\ b = p \o q
  BY SplitAt
<1> HIDE DEF p, q
<1>2. q \o x \in Seq(S) /\ a \o p \in Seq(S)
  BY <1>1, ConcatProperties
<1>3. (a \o p) \o (q \o x) = (a \o (p \o q)) \o x
  BY <1>1, ConcatMiddle, SMTT(60)
<1>4. (a \o p) \o (q \o x) = (a \o b) \o x
  BY <1>1, <1>3
<1>5. IsPrefix(a \o p, (a \o p) \o (q \o x))
  BY <1>2, PrefixFacts
<1> QED
  BY <1>2, <1>4, <1>5 DEF p

(* What follows the first of two sequences.                                 *)
LEMMA DropFirst ==
  ASSUME NEW S, NEW x \in Seq(S), NEW y \in Seq(S)
  PROVE  SubSeq(x \o y, Len(x) + 1, Len(x \o y)) = y
<1> DEFINE z == x \o y
           m == Len(x)
           n == Len(y)
           d == SubSeq(z, m + 1, Len(z))
<1>1. /\ m \in Nat /\ n \in Nat /\ Len(z) = m + n /\ z \in Seq(S)
      /\ \A i \in 1..(m + n) : z[i] = IF i \leq m THEN x[i] ELSE y[i - m]
  BY ConcatProperties, LenProperties
<1>2. \A i \in 1..Len(z) : z[i] \in S
  BY <1>1, LenProperties
<1> HIDE DEF z, m, n
<1>3. m + 1 \in Int /\ Len(z) \in Int /\ \A i \in (m + 1)..Len(z) : z[i] \in S
  BY <1>1, <1>2
<1>4. /\ d \in Seq(S) /\ Len(d) = IF m + 1 \leq Len(z) THEN Len(z) - (m + 1) + 1 ELSE 0
      /\ \A i \in 1..(Len(z) - (m + 1) + 1) : d[i] = z[(m + 1) + i - 1]
  BY <1>3, SubSeqProperties
<1> HIDE DEF d
<1>5. Len(d) = n
  BY <1>1, <1>4
<1>6. \A i \in 1..n : d[i] = y[i]
  <2> SUFFICES ASSUME NEW i \in 1..n PROVE d[i] = y[i]
    OBVIOUS
  <2>1. i \in 1..(Len(z) - (m + 1) + 1) /\ (m + 1) + i - 1 = m + i
    BY <1>1
  <2>2. m + i \in 1..(m + n) /\ ~(m + i \leq m) /\ (m + i) - m = i
    BY <1>1
  <2> QED
    BY <1>1, <1>4, <2>1, <2>2
<1> QED
  BY <1>4, <1>5, <1>6, SeqEqual DEF d, z, m, n
=============================================================================
