--------------------------- MODULE StructTagsBuild ---------------------------
(***************************************************************************)
(* The loop of makeStructCodec builds what TypeCodecs says of all the      *)
(* fields of a struct at once, whatever the struct is, and what the parser *)
(* takes as legal has a codec but for the exceptions that Disagree names:  *)
(* BuildsAsTypeCodecsSays and LegalTagsBuild, each as a consequence of an  *)
(* inductive invariant.                                                    *)
(***************************************************************************)
EXTENDS StructTagsProofs

-----------------------------------------------------------------------------
(* The place of a field among those that are not skipped.                   *)
Kept(s, n) == {j \in 1..n : s[j].text.lead # "-"}

(* A field adds one to the rank, unless it is skipped.                      *)
LEMMA RankSteps ==
  ASSUME NEW s, NEW n \in Nat
  PROVE  /\ Rank(s, 0) = 0
         /\ Rank(s, n) \in Nat
         /\ Rank(s, n + 1) = IF LeadAt(s, n + 1) = "-" THEN Rank(s, n) ELSE Rank(s, n) + 1
         /\ AllSkipped(s, n) => Rank(s, n) = 0
<1>1. IsFiniteSet(Kept(s, n))
  <2>1. IsFiniteSet(1..n) /\ Kept(s, n) \in SUBSET (1..n)
    BY FS_Interval DEF Kept
  <2> QED
    BY <2>1, FS_Subset
<1>2. Rank(s, n) = Cardinality(Kept(s, n)) /\ Rank(s, n + 1) = Cardinality(Kept(s, n + 1))
      /\ Rank(s, 0) = Cardinality(Kept(s, 0))
  BY DEF Rank, Kept
<1>3. Kept(s, 0) = {}
  BY DEF Kept
<1>4. Kept(s, n + 1) = IF LeadAt(s, n + 1) = "-" THEN Kept(s, n) ELSE Kept(s, n) \cup {n + 1}
  <2>1. \A j : j \in 1..(n + 1) <=> j \in 1..n \/ j = n + 1
    OBVIOUS
  <2> QED
    BY <2>1 DEF Kept, LeadAt
<1>5. n + 1 \notin Kept(s, n)
  BY DEF Kept
<1>6. AllSkipped(s, n) => Kept(s, n) = {}
  BY DEF AllSkipped, Kept, LeadAt
<1>7. Cardinality({}) = 0 /\ Cardinality(Kept(s, n)) \in Nat
  BY <1>1, FS_EmptySet, FS_CardinalityType
<1>8. Cardinality(Kept(s, n) \cup {n + 1}) = Cardinality(Kept(s, n)) + 1
  BY <1>1, <1>5, FS_AddElement
<1> QED
  BY <1>2, <1>3, <1>4, <1>6, <1>7, <1>8

(* A field that is not skipped has a rank of its own, above those of the    *)
(* fields before it.                                                        *)
LEMMA RankOrder ==
  ASSUME NEW s, NEW m \in Nat, NEW n \in Nat, m < n
  PROVE  /\ Rank(s, m) \leq Rank(s, n)
         /\ LeadAt(s, n) # "-" => Rank(s, m) < Rank(s, n) /\ Rank(s, n) = Rank(s, n - 1) + 1
<1> DEFINE S == {k \in Nat : Rank(s, m) \leq Rank(s, m + k)}
<1>1. \A k \in Nat : Rank(s, k) \in Nat
  BY RankSteps
<1>2. 0 \in S
  BY <1>1
<1>3. ASSUME NEW k \in Nat, k \in S PROVE k + 1 \in S
  <2>1. m + k \in Nat /\ (m + k) + 1 = m + (k + 1) /\ m + (k + 1) \in Nat
    OBVIOUS
  <2>2. \/ Rank(s, (m + k) + 1) = Rank(s, m + k)
        \/ Rank(s, (m + k) + 1) = Rank(s, m + k) + 1
    BY <2>1, RankSteps
  <2>3. Rank(s, m) \leq Rank(s, m + (k + 1))
    BY <1>1, <1>3, <2>1, <2>2
  <2> QED
    BY <2>3
<1> HIDE DEF S
<1>4. Nat \subseteq S
  BY <1>2, <1>3, InductionOnNat
<1>5. \A l \in Nat : m \leq l => Rank(s, m) \leq Rank(s, l)
  <2> SUFFICES ASSUME NEW l \in Nat, m \leq l PROVE Rank(s, m) \leq Rank(s, l)
    OBVIOUS
  <2>1. l - m \in Nat /\ m + (l - m) = l
    OBVIOUS
  <2>2. l - m \in S
    BY <1>4, <2>1
  <2> QED
    BY <2>1, <2>2 DEF S
<1>6. n - 1 \in Nat /\ (n - 1) + 1 = n /\ m \leq n - 1
  OBVIOUS
<1>7. LeadAt(s, n) # "-" => Rank(s, n) = Rank(s, n - 1) + 1
  <2>1. Rank(s, (n - 1) + 1) = IF LeadAt(s, (n - 1) + 1) = "-" THEN Rank(s, n - 1) ELSE Rank(s, n - 1) + 1
    BY <1>6, RankSteps
  <2> QED
    BY <1>6, <2>1
<1>8. Rank(s, m) \leq Rank(s, n - 1) /\ Rank(s, m) \leq Rank(s, n)
  BY <1>5, <1>6
<1> QED
  BY <1>1, <1>6, <1>7, <1>8

(* The field at its rank among those that are not skipped.                  *)
LEMMA FieldAt ==
  ASSUME NEW s \in Struct, NEW k \in 1..Len(s), LeadAt(s, k) # "-"
  PROVE  /\ Rank(s, k) \in 1..Rank(s, Len(s))
         /\ Rank(s, k) = Rank(s, k - 1) + 1
         /\ Unskipped(s)[Rank(s, k)] = s[k]
<1> DEFINE N == Len(s)
           r == Rank(s, k)
           Hit(j) == s[j].text.lead # "-" /\ Rank(s, j) = r
<1>1. N \in Nat /\ DOMAIN s = 1..N
  BY StructFacts
<1>0. k \in 1..N
  OBVIOUS
<1> HIDE DEF N
<1>2. k \in Nat /\ k - 1 \in Nat /\ k - 1 < k /\ (k = N \/ k < N) /\ k \in DOMAIN s
  BY <1>0, <1>1
<1>3. \A j \in Nat : Rank(s, j) \in Nat
  BY RankSteps
<1>4. r = Rank(s, k - 1) + 1
  BY <1>2, RankOrder
<1>5. r \leq Rank(s, N)
  <2>1. k < N => r \leq Rank(s, N)
    BY <1>1, <1>2, RankOrder
  <2> QED
    BY <1>1, <1>2, <1>3, <2>1
<1>6. r \in 1..Rank(s, N)
  BY <1>1, <1>2, <1>3, <1>4, <1>5
<1>7. \A j \in DOMAIN s : Hit(j) => j = k
  <2> SUFFICES ASSUME NEW j \in DOMAIN s, LeadAt(s, j) # "-", Rank(s, j) = r PROVE j = k
    BY DEF LeadAt
  <2>1. j \in Nat /\ (j < k \/ j = k \/ k < j)
    BY <1>1, <1>2
  <2>2. j < k => Rank(s, j) < r
    BY <1>2, <2>1, RankOrder
  <2>3. k < j => r < Rank(s, j)
    BY <1>2, <2>1, RankOrder
  <2>4. Rank(s, j) \in Nat /\ r \in Nat
    BY <1>2, <1>3, <2>1
  <2> DEFINE rj == Rank(s, j)
  <2>5. rj = r /\ (j < k => rj < r) /\ (k < j => r < rj) /\ rj \in Nat /\ r \in Nat
    BY <2>2, <2>3, <2>4
  <2> HIDE DEF rj, r
  <2>6. ~(rj < r) /\ ~(r < rj)
    BY <2>5
  <2> QED
    BY <2>1, <2>5, <2>6
<1>8. Hit(k)
  BY DEF LeadAt
<1>9. k = CHOOSE j \in DOMAIN s : Hit(j)
  <2> HIDE DEF Hit
  <2> QED
    BY <1>2, <1>7, <1>8
<1>10. Unskipped(s) = [q \in 1..Rank(s, N) |->
                        s[CHOOSE j \in DOMAIN s : s[j].text.lead # "-" /\ Rank(s, j) = q]]
  BY DEF Unskipped, N
<1> HIDE DEF r
<1>11. Unskipped(s)[r] = s[CHOOSE j \in DOMAIN s : s[j].text.lead # "-" /\ Rank(s, j) = r]
  BY <1>6, <1>10, Zenon
<1>12. Unskipped(s)[r] = s[k]
  BY <1>9, <1>11
<1> QED
  BY <1>4, <1>6, <1>12 DEF N, r

-----------------------------------------------------------------------------
(* What TypeCodecs reads in the entries of a parsed tag is what the text of *)
(* the tag says of the enclosing struct.                                    *)
LEMMA EntriesOfField ==
  ASSUME NEW t \in Types, NEW text, IsText(text), text.lead # "-", NEW u \in Contexts,
         NEW p, p = ParseTag(t, text, u), p.ok, NEW e, e = Entries(p.tag)
  PROVE  /\ IsTrimmed(e) /\ p.tag = BytesOf(e) /\ e # Codecs!ParseError
         /\ Entries(NextTag(p.tag)) = Codecs!TagNext(e)
         /\ Codecs!TagKind(e) = "UnionSwitch" <=> text.lead = "switch"
         /\ Codecs!TagKind(e) = "UnionDefault" <=> text.lead = "default"
         /\ Codecs!TagKind(e) = "UnionCases" <=> text.lead = "cases"
         /\ text.lead = "cases" => e[1].values = text.values
<1> DEFINE es == Spelt(t, text)
<1>1. text.lead \in Leads /\ es \in Seq(TagEntry) /\ p.tag = BytesOf(Trim(es))
  BY ParseTagFacts
<1>2. /\ text.lead # "none" =>
           es # <<>> /\ es[1] = [kind |-> LeadKind(text.lead), values |-> text.values]
      /\ text.lead = "none" /\ es # <<>> => es[1].kind \in PartKinds
  BY SpeltFacts
<1> HIDE DEF es
<1>3. Trim(es) \in Seq(TagEntry) /\ IsTrimmed(Trim(es))
  BY <1>1, TrimFacts, TrimTwice
<1>4. e = Trim(es)
  BY <1>1, <1>3, EntriesFacts
<1>5. e \in Seq(TagEntry) /\ IsTrimmed(e) /\ p.tag = BytesOf(e)
  BY <1>1, <1>3, <1>4
<1>6. e # <<>> => e[1] \in TagEntry /\ Head(e) = e[1]
  BY <1>5, HeadFacts
<1>7. e # Codecs!ParseError
  <2> SUFFICES ASSUME e = <<[kind |-> "error", values |-> <<>>]>> PROVE FALSE
    BY DEF Codecs!ParseError, Codecs!Entry
  <2>1. e # <<>> /\ e[1].kind = "error"
    OBVIOUS
  <2>2. e[1].kind \in KindNames
    BY <1>6, <2>1 DEF TagEntry
  <2> QED
    BY <2>1, <2>2, KindFacts
<1>8. Entries(NextTag(p.tag)) = Codecs!TagNext(e)
  <2>1. CASE e = <<>>
    <3>1. NextTag(p.tag) = p.tag
      BY <1>5, <2>1, BytesRead
    <3>2. Entries(p.tag) = e
      OBVIOUS
    <3> QED
      BY <2>1, <3>1, <3>2 DEF Codecs!TagNext
  <2>2. CASE e # <<>>
    <3>1. Tail(e) \in Seq(TagEntry) /\ NextTag(p.tag) = BytesOf(Tail(e))
      BY <1>5, <2>2, BytesRead
    <3>2. Codecs!TagNext(e) = Tail(e)
      BY <2>2 DEF Codecs!TagNext
    <3> QED
      BY <3>1, <3>2, EntriesFacts
  <2> QED
    BY <2>1, <2>2
<1>9. CASE text.lead = "none"
  <2>1. e # <<>> => e[1].kind \in PartKinds
    <3> SUFFICES ASSUME e # <<>> PROVE e[1].kind \in PartKinds
      OBVIOUS
    <3> DEFINE n == Len(e)
               m == Len(es)
    <3>1. n \in 0..m /\ \A k \in 1..n : e[k] = es[k]
      BY <1>1, <1>4, TrimFacts
    <3>2. m \in Nat /\ n # 0 /\ (m # 0 => es # <<>>)
      BY <1>1, <1>5, LenProperties, EmptySeq
    <3> HIDE DEF n, m
    <3>3. 1 \in 1..n /\ m # 0
      BY <3>1, <3>2
    <3> QED
      BY <1>2, <1>9, <3>1, <3>2, <3>3
  <2>2. Codecs!TagKind(e) \in PartKinds
    BY <1>6, <2>1 DEF Codecs!TagKind, PartKinds
  <2> QED
    BY <1>5, <1>7, <1>8, <1>9, <2>2 DEF PartKinds
<1>10. CASE text.lead # "none"
  <2> DEFINE k == LeadKind(text.lead)
  <2>1. es # <<>> /\ es[1].kind = k /\ es[1].values = text.values
    BY <1>2, <1>10, KindOfEntry
  <2>2. /\ k \in {"UnionSwitch", "UnionDefault", "UnionCases"}
        /\ k = "UnionSwitch" <=> text.lead = "switch"
        /\ k = "UnionDefault" <=> text.lead = "default"
        /\ k = "UnionCases" <=> text.lead = "cases"
    BY <1>1, <1>10 DEF LeadKind, Leads
  <2> HIDE DEF k
  <2>3. e # <<>> /\ e[1] = es[1]
    BY <1>1, <1>4, <2>1, <2>2, FirstKind
  <2>4. Codecs!TagKind(e) = k /\ e[1].values = text.values
    BY <1>6, <2>1, <2>3 DEF Codecs!TagKind
  <2> QED
    BY <1>5, <1>7, <1>8, <2>2, <2>4
<1> QED
  BY <1>9, <1>10

(* A field that is not skipped, as the loop parses it in the context that   *)
(* the first of them has decided, and as EntriesInContext has it.           *)
FieldIn(s, k, u) == ParseTag(s[k].type, s[k].text, u)
LEMMA FieldInContext ==
  ASSUME NEW s \in Struct, NEW k \in 1..Len(s), LeadAt(s, k) # "-",
         NEW u \in Contexts, u = ContextOf(s, Rank(s, k))
  PROVE  LET f == EntriesInContext(s)[Rank(s, k)]
             p == FieldIn(s, k, u)
             l == LeadAt(s, k)
         IN  /\ f.type = s[k].type
             /\ ~p.ok => Codecs!Unparsed(f)
             /\ p.ok =>
                  /\ f.tag = Entries(p.tag) /\ ~Codecs!Unparsed(f)
                  /\ Entries(NextTag(p.tag)) = Codecs!TagNext(f.tag)
                  /\ Codecs!TagKind(f.tag) = "UnionSwitch" <=> l = "switch"
                  /\ Codecs!IsDefault(f) <=> l = "default"
                  /\ Codecs!TagKind(f.tag) = "UnionCases" <=> l = "cases"
                  /\ l = "cases" => f.tag[1].values = s[k].text.values
<1> DEFINE r == Rank(s, k)
           f == EntriesInContext(s)[r]
           p == FieldIn(s, k, u)
           e == IF p.ok THEN Entries(p.tag) ELSE Codecs!ParseError
<1>1. r \in DOMAIN Unskipped(s) /\ Unskipped(s)[r] = s[k]
  BY FieldAt DEF Unskipped
<1>2. f = [type |-> s[k].type, tag |-> e]
  <2>1. f = LET g == Unskipped(s)[r]
                q == ParseTag(g.type, g.text, ContextOf(s, r))
            IN  [type |-> g.type, tag |-> IF q.ok THEN Entries(q.tag) ELSE Codecs!ParseError]
    <3>1. r \in DOMAIN Unskipped(s)
      BY <1>1
    <3> HIDE DEF r
    <3> QED
      BY <3>1 DEF EntriesInContext
  <2> HIDE DEF r
  <2> QED
    BY <1>1, <2>1 DEF FieldIn, r
<1>3. s[k].type \in Types /\ IsText(s[k].text) /\ s[k].text.lead # "-"
  BY StructFacts DEF LeadAt
<1> HIDE DEF r
<1>4. f.type = s[k].type /\ f.tag = e
  <2> HIDE DEF f, e
  <2> QED
    BY <1>2
<1>5. ~p.ok => Codecs!Unparsed(f)
  <2> HIDE DEF f, p
  <2> QED
    BY <1>4 DEF Codecs!Unparsed
<1>6. ASSUME p.ok
      PROVE  /\ e # Codecs!ParseError
             /\ Entries(NextTag(p.tag)) = Codecs!TagNext(e)
             /\ Codecs!TagKind(e) = "UnionSwitch" <=> LeadAt(s, k) = "switch"
             /\ Codecs!TagKind(e) = "UnionDefault" <=> LeadAt(s, k) = "default"
             /\ Codecs!TagKind(e) = "UnionCases" <=> LeadAt(s, k) = "cases"
             /\ LeadAt(s, k) = "cases" => e[1].values = s[k].text.values
  <2>1. e = Entries(p.tag) /\ p = ParseTag(s[k].type, s[k].text, u)
    BY <1>6 DEF FieldIn
  <2> HIDE DEF e, p
  <2> QED
    BY <1>3, <1>6, <2>1, EntriesOfField DEF LeadAt
<1>7. p.ok => e = Entries(p.tag)
  OBVIOUS
<1> HIDE DEF f, p, e
<1>8. p.ok => /\ f.tag = Entries(p.tag) /\ ~Codecs!Unparsed(f)
              /\ Entries(NextTag(p.tag)) = Codecs!TagNext(f.tag)
              /\ Codecs!TagKind(f.tag) = "UnionSwitch" <=> LeadAt(s, k) = "switch"
              /\ Codecs!IsDefault(f) <=> LeadAt(s, k) = "default"
              /\ Codecs!TagKind(f.tag) = "UnionCases" <=> LeadAt(s, k) = "cases"
              /\ LeadAt(s, k) = "cases" => f.tag[1].values = s[k].text.values
  BY <1>4, <1>6, <1>7 DEF Codecs!Unparsed, Codecs!IsDefault
<1> QED
  BY <1>4, <1>5, <1>8 DEF f, p, r

-----------------------------------------------------------------------------
(* What TypeCodecs makes of a sequence of fields, when it is known how many *)
(* of them are good.                                                        *)
AsKeys(fs, n) == [k \in 1..n |-> <<fs[k].type, fs[k].tag>>]
AsArms(fs, n) == [k \in 1..n |-> <<fs[k].type, Codecs!TagNext(fs[k].tag)>>]

(* A struct is an error at its first field that could not be parsed.        *)
LEMMA StructCodecFacts ==
  ASSUME NEW fs, NEW r \in Nat, NEW m \in Nat, Len(fs) = m, r \leq m,
         \A k \in 1..r : ~Codecs!Unparsed(fs[k]), r < m => Codecs!Unparsed(fs[r + 1])
  PROVE  Codecs!structCodecOf(fs)
           = IF r < m THEN Codecs!errorCodec(AsKeys(fs, r)) ELSE Codecs!codecOf("structCodec", AsKeys(fs, r))
<1> DEFINE IsGood(q) == /\ \A k \in 1..q : ~Codecs!Unparsed(fs[k])
                        /\ q < m => Codecs!Unparsed(fs[q + 1])
<1>1. r \in 0..m /\ IsGood(r)
  OBVIOUS
<1>2. ASSUME NEW q \in 0..m, IsGood(q) PROVE q = r
  <2>1. q \in Nat /\ (q < r => q + 1 \in 1..r /\ q < m) /\ (r < q => r + 1 \in 1..q /\ r < m)
    OBVIOUS
  <2>2. ~(q < r) /\ ~(r < q)
    BY <1>1, <1>2, <2>1
  <2> QED
    BY <2>1, <2>2
<1>3. r = CHOOSE q \in 0..m : IsGood(q)
  <2> HIDE DEF IsGood
  <2> QED
    BY <1>1, <1>2
<1>4. Codecs!structCodecOf(fs)
        = LET good == CHOOSE q \in 0..Len(fs) : /\ \A k \in 1..q : ~Codecs!Unparsed(fs[k])
                                                /\ q < Len(fs) => Codecs!Unparsed(fs[q + 1])
          IN  IF good < Len(fs) THEN Codecs!errorCodec([k \in 1..good |-> <<fs[k].type, fs[k].tag>>])
              ELSE Codecs!codecOf("structCodec", [k \in 1..good |-> <<fs[k].type, fs[k].tag>>])
  BY DEF Codecs!structCodecOf, Codecs!UpToFirst, Codecs!FieldKeys
<1> QED
  BY <1>3, <1>4 DEF AsKeys

(* A union is an error at its first field that could not be parsed or that  *)
(* repeats a label; in the second case its codec has been looked up.        *)
IsBad(fs, k) == Codecs!Unparsed(fs[k]) \/ Codecs!Repeats(fs, k)
Labels(fs) == UNION {Codecs!CaseValues(fs[k]) : k \in 2..Len(fs)}
WholeUnion(fs, n) ==
  [Codecs!codecOf("unionCodec", AsArms(fs, n)) EXCEPT
     !.cases = [v \in Labels(fs) |-> CHOOSE k \in 2..Len(fs) : v \in Codecs!CaseValues(fs[k])],
     !.default = IF \E k \in 2..Len(fs) : Codecs!IsDefault(fs[k])
                 THEN CHOOSE k \in 2..Len(fs) : Codecs!IsDefault(fs[k]) ELSE 0]
LEMMA UnionCodecFacts ==
  ASSUME NEW fs, NEW r \in Nat, NEW m \in Nat, Len(fs) = m, 1 \leq r, r \leq m,
         \A k \in 2..r : ~IsBad(fs, k), r < m => IsBad(fs, r + 1),
         KindOf(fs[1].type) \in {"int32", "uint32", "bool"}
  PROVE  Codecs!unionCodecOf(fs)
           = IF r = m THEN WholeUnion(fs, r)
             ELSE Codecs!errorCodec(AsArms(fs, IF Codecs!Unparsed(fs[r + 1]) THEN r ELSE r + 1))
<1> DEFINE IsGood(q) == /\ \A k \in 1..q : ~(k > 1 /\ IsBad(fs, k))
                        /\ q < m => q + 1 > 1 /\ IsBad(fs, q + 1)
<1>1. r \in 0..m /\ IsGood(r)
  <2>1. \A k \in 1..r : k > 1 => k \in 2..r
    OBVIOUS
  <2> QED
    BY <2>1
<1>2. ASSUME NEW q \in 0..m, IsGood(q) PROVE q = r
  <2>1. /\ q \in Nat
        /\ q < r => q + 1 \in 1..r /\ q < m
        /\ r < q => r + 1 \in 1..q /\ r < m /\ r + 1 > 1
    OBVIOUS
  <2>2. ~(q < r) /\ ~(r < q)
    BY <1>1, <1>2, <2>1
  <2> QED
    BY <2>1, <2>2
<1>3. r = CHOOSE q \in 0..m : IsGood(q)
  <2> HIDE DEF IsGood
  <2> QED
    BY <1>1, <1>2
<1>4. Codecs!unionCodecOf(fs)
        = LET body == 2..Len(fs)
              good == CHOOSE q \in 0..Len(fs) :
                        /\ \A k \in 1..q : ~(k > 1 /\ (Codecs!Unparsed(fs[k]) \/ Codecs!Repeats(fs, k)))
                        /\ q < Len(fs) =>
                             q + 1 > 1 /\ (Codecs!Unparsed(fs[q + 1]) \/ Codecs!Repeats(fs, q + 1))
              seen == IF good < Len(fs) /\ ~Codecs!Unparsed(fs[good + 1]) THEN good + 1 ELSE good
              ks == [k \in 1..seen |-> <<fs[k].type, Codecs!TagNext(fs[k].tag)>>]
              labels == UNION {Codecs!CaseValues(fs[k]) : k \in body}
          IN  IF TypeDef[fs[1].type].kind \notin {"int32", "uint32", "bool"} THEN Codecs!BuildPanic
              ELSE IF good < Len(fs) THEN Codecs!errorCodec(ks)
              ELSE [Codecs!codecOf("unionCodec", ks) EXCEPT
                      !.cases = [v \in labels |-> CHOOSE k \in body : v \in Codecs!CaseValues(fs[k])],
                      !.default = IF \E k \in body : Codecs!IsDefault(fs[k])
                                  THEN CHOOSE k \in body : Codecs!IsDefault(fs[k]) ELSE 0]
  BY Zenon DEF Codecs!unionCodecOf, Codecs!UpToFirst, Codecs!FieldKeys
<1>5. r = CHOOSE q \in 0..Len(fs) :
            /\ \A k \in 1..q : ~(k > 1 /\ (Codecs!Unparsed(fs[k]) \/ Codecs!Repeats(fs, k)))
            /\ q < Len(fs) =>
                 q + 1 > 1 /\ (Codecs!Unparsed(fs[q + 1]) \/ Codecs!Repeats(fs, q + 1))
  BY <1>3 DEF IsBad
<1>6. Codecs!unionCodecOf(fs)
        = LET seen == IF r < m /\ ~Codecs!Unparsed(fs[r + 1]) THEN r + 1 ELSE r
          IN  IF KindOf(fs[1].type) \notin {"int32", "uint32", "bool"} THEN Codecs!BuildPanic
              ELSE IF r < m THEN Codecs!errorCodec(AsArms(fs, seen))
              ELSE WholeUnion(fs, seen)
  <2> HIDE DEF IsGood
  <2> QED
    BY <1>4, <1>5, Zenon DEF AsArms, WholeUnion, Labels, KindOf
<1>7. r = m \/ r < m
  OBVIOUS
<1> QED
  BY <1>6, <1>7

-----------------------------------------------------------------------------
(* A list is longer than the set of its elements when one is there twice.   *)
LEMMA CountsRepeats ==
  ASSUME NEW S, NEW vs \in Seq(S)
  PROVE  Cardinality({vs[q] : q \in DOMAIN vs}) < Len(vs)
           <=> \E k \in DOMAIN vs : \E j \in 1..(k - 1) : vs[j] = vs[k]
<1> DEFINE T == {vs[q] : q \in DOMAIN vs}
           n == Len(vs)
<1>1. n \in Nat /\ DOMAIN vs = 1..n /\ vs \in [1..n -> T]
  BY LenProperties
<1> HIDE DEF n
<1>2. vs \in Surjection(1..n, T)
  BY <1>1 DEF Surjection
<1> HIDE DEF T
<1>3. IsFiniteSet(1..n) /\ Cardinality(1..n) = n
  BY <1>1, FS_Interval
<1>4. /\ IsFiniteSet(T) /\ Cardinality(T) \leq n
      /\ Cardinality(T) = n <=> vs \in Injection(1..n, T)
  BY <1>2, <1>3, FS_Surjection
<1>5. Cardinality(T) \in Nat
  BY <1>4, FS_CardinalityType
<1>6. vs \in Injection(1..n, T) <=> \A j, k \in 1..n : vs[j] = vs[k] => j = k
  BY <1>1 DEF Injection, IsInjective
<1>7. (\E j, k \in 1..n : vs[j] = vs[k] /\ j # k) <=> \E k \in 1..n : \E j \in 1..(k - 1) : vs[j] = vs[k]
  <2>1. ASSUME NEW j \in 1..n, NEW k \in 1..n, vs[j] = vs[k], j # k
        PROVE  \E q \in 1..n : \E l \in 1..(q - 1) : vs[l] = vs[q]
    <3>1. j \in 1..(k - 1) \/ k \in 1..(j - 1)
      BY <1>1, <2>1
    <3> QED
      BY <2>1, <3>1
  <2>2. \A k \in 1..n : \A j \in 1..(k - 1) : j \in 1..n /\ j # k
    BY <1>1
  <2> QED
    BY <2>1, <2>2
<1>8. Cardinality(T) < n <=> ~(vs \in Injection(1..n, T))
  BY <1>1, <1>4, <1>5
<1>9. Cardinality(T) < n <=> \E k \in 1..n : \E j \in 1..(k - 1) : vs[j] = vs[k]
  BY <1>6, <1>7, <1>8
<1> QED
  BY <1>1, <1>9 DEF T, n

(* What the loop over the arms has entered: the labels of the arms so far,  *)
(* each with an arm that has it, and the default if there is one.           *)
Entered(s, fs, r, cs, d) ==
  /\ DOMAIN cs = UNION {Codecs!CaseValues(fs[k]) : k \in 2..r}
  /\ \A v \in DOMAIN cs : Rank(s, cs[v]) \in 2..r /\ v \in Codecs!CaseValues(fs[Rank(s, cs[v])])
  /\ d = 0 => \A k \in 2..r : ~Codecs!IsDefault(fs[k])
  /\ d # 0 => Rank(s, d) \in 2..r /\ Codecs!IsDefault(fs[Rank(s, d)])

(* The loop finds a label or a default repeated when TypeCodecs does.       *)
Seen(cs, labels) ==
  \E k \in DOMAIN labels : labels[k] \in DOMAIN cs \cup {labels[j] : j \in 1..(k - 1)}
LEMMA RepeatsFacts ==
  ASSUME NEW s, NEW fs, NEW r \in Nat, NEW cs, NEW d, Entered(s, fs, r, cs, d),
         NEW labels \in Seq(Number),
         Codecs!TagKind(fs[r + 1].tag) = "UnionCases" => labels = fs[r + 1].tag[1].values,
         Codecs!TagKind(fs[r + 1].tag) # "UnionCases" => labels = <<>>
  PROVE  /\ Codecs!CaseValues(fs[r + 1]) = Range(labels)
         /\ Codecs!Repeats(fs, r + 1) <=> Seen(cs, labels) \/ (Codecs!IsDefault(fs[r + 1]) /\ d # 0)
<1> DEFINE f == fs[r + 1]
           isArm == Codecs!TagKind(f.tag) = "UnionCases"
           twice == \E k \in DOMAIN labels : \E j \in 1..(k - 1) : labels[j] = labels[k]
           again == \E k \in DOMAIN labels : labels[k] \in DOMAIN cs
<1>1. Codecs!CaseValues(f) = {labels[q] : q \in DOMAIN labels}
  BY DEF Codecs!CaseValues
<1>2. Seen(cs, labels) <=> twice \/ again
  BY DEF Seen
<1>3. isArm /\ Cardinality(Codecs!CaseValues(f)) < Len(f.tag[1].values) <=> twice
  <2>1. Cardinality({labels[q] : q \in DOMAIN labels}) < Len(labels) <=> twice
    BY CountsRepeats
  <2>2. ~isArm => ~twice
    OBVIOUS
  <2> HIDE DEF f, twice
  <2> QED
    BY <1>1, <2>1, <2>2 DEF f
<1>4. (\E j \in 2..r : Codecs!CaseValues(f) \cap Codecs!CaseValues(fs[j]) # {}) <=> again
  <2>1. DOMAIN cs = UNION {Codecs!CaseValues(fs[k]) : k \in 2..r}
    BY DEF Entered
  <2> DEFINE C == Codecs!CaseValues(f)
  <2>2. C = {labels[q] : q \in DOMAIN labels}
    BY <1>1
  <2> HIDE DEF C, f
  <2>3. (\E j \in 2..r : C \cap Codecs!CaseValues(fs[j]) # {}) <=> \E v \in C : v \in DOMAIN cs
    BY <2>1, Zenon
  <2>4. (\E v \in C : v \in DOMAIN cs) <=> again
    BY <2>2
  <2> QED
    BY <2>3, <2>4 DEF C
<1>5. (\E j \in 2..r : Codecs!IsDefault(f) /\ Codecs!IsDefault(fs[j])) <=> Codecs!IsDefault(f) /\ d # 0
  BY DEF Entered
<1>6. Codecs!Repeats(fs, r + 1)
        <=> \/ isArm /\ Cardinality(Codecs!CaseValues(f)) < Len(f.tag[1].values)
            \/ \E j \in 2..r : \/ Codecs!CaseValues(f) \cap Codecs!CaseValues(fs[j]) # {}
                               \/ Codecs!IsDefault(f) /\ Codecs!IsDefault(fs[j])
  <2>1. (r + 1) - 1 = r
    OBVIOUS
  <2> QED
    BY <2>1, Zenon DEF Codecs!Repeats, Codecs!Cardinality, Cardinality
<1>7. Range(labels) = {labels[q] : q \in DOMAIN labels}
  BY DEF Range
<1> HIDE DEF f, isArm, twice, again
<1>8. Codecs!Repeats(fs, r + 1) <=> twice \/ again \/ (Codecs!IsDefault(f) /\ d # 0)
  BY <1>3, <1>4, <1>5, <1>6
<1> QED
  BY <1>1, <1>2, <1>7, <1>8 DEF f

-----------------------------------------------------------------------------
(* What the loop has done when it has seen the first n fields.              *)
Fs(s) == EntriesInContext(s)
ReadKeys(ks) == [k \in DOMAIN ks |-> <<ks[k][1], Entries(ks[k][2])>>]
StructFollows(s, n, ks) ==
  LET r == Rank(s, n)
  IN  /\ Len(ks) = r
      /\ r # 0 => /\ Unskipped(s)[1].text.lead # "switch"
                  /\ Codecs!TagKind(Fs(s)[1].tag) # "UnionSwitch"
      /\ \A k \in 1..r : /\ ~Codecs!Unparsed(Fs(s)[k])
                         /\ ks[k][1] = Fs(s)[k].type /\ Entries(ks[k][2]) = Fs(s)[k].tag
UnionFollows(s, n, ks, cs, d) ==
  LET r == Rank(s, n)
  IN  /\ Len(ks) = r /\ r # 0
      /\ Unskipped(s)[1].text.lead = "switch"
      /\ Codecs!TagKind(Fs(s)[1].tag) = "UnionSwitch"
      /\ KindOf(Fs(s)[1].type) \in {"int32", "uint32", "bool"}
      /\ \A k \in 1..r : /\ ks[k][1] = Fs(s)[k].type
                         /\ Entries(ks[k][2]) = Codecs!TagNext(Fs(s)[k].tag)
      /\ \A k \in 2..r : ~IsBad(Fs(s), k)
      /\ Entered(s, Fs(s), r, cs, d)

(* There is an entry for each field that is not skipped.                    *)
LEMMA FsFacts ==
  ASSUME NEW s \in Struct
  PROVE  /\ Len(Fs(s)) = Rank(s, Len(s)) /\ Len(s) \in Nat /\ Rank(s, Len(s)) \in Nat
         /\ Fs(s) = <<>> <=> Rank(s, Len(s)) = 0
         /\ \A n \in 0..Len(s) : Rank(s, n) \in Nat /\ Rank(s, n) \leq Rank(s, Len(s))
<1> DEFINE N == Len(s)
           R == Rank(s, N)
           T == {Fs(s)[q] : q \in 1..R}
<1>1. N \in Nat
  BY StructFacts
<1> HIDE DEF N
<1>2. R \in Nat
  BY <1>1, RankSteps
<1>3. DOMAIN Unskipped(s) = 1..R
  BY DEF Unskipped, N
<1> HIDE DEF R
<1>4. Fs(s) \in [1..R -> T]
  BY <1>3 DEF Fs, EntriesInContext
<1> HIDE DEF T
<1>5. Fs(s) \in Seq(T) /\ Len(Fs(s)) = R
  BY <1>2, <1>4
<1>6. Fs(s) = <<>> <=> R = 0
  BY <1>2, <1>5, EmptySeq
<1>7. ASSUME NEW n \in 0..N PROVE Rank(s, n) \in Nat /\ Rank(s, n) \leq R
  <2>1. n \in Nat /\ (n < N \/ n = N)
    BY <1>1
  <2>2. Rank(s, n) \in Nat
    BY <2>1, RankSteps
  <2> QED
    BY <1>1, <1>2, <2>1, <2>2, RankOrder DEF R
<1> QED
  BY <1>1, <1>2, <1>5, <1>6, <1>7 DEF N, R

(* One key more.                                                            *)
LEMMA OneKeyMore ==
  ASSUME NEW S, NEW ks \in Seq(S), NEW key \in S
  PROVE  /\ Append(ks, key) \in Seq(S) /\ Len(ks) \in Nat /\ Len(Append(ks, key)) = Len(ks) + 1
         /\ Append(ks, key)[Len(ks) + 1] = key
         /\ \A k \in 1..Len(ks) : Append(ks, key)[k] = ks[k]
BY AppendProperties, LenProperties

(* The keys so far as TypeCodecs has them.                                  *)
LEMMA ReadKeysFacts ==
  ASSUME NEW S, NEW ks \in Seq(S), NEW fs, NEW r, Len(ks) = r
  PROVE  /\ (\A k \in 1..r : ks[k][1] = fs[k].type /\ Entries(ks[k][2]) = fs[k].tag)
              => ReadKeys(ks) = AsKeys(fs, r)
         /\ (\A k \in 1..r : ks[k][1] = fs[k].type /\ Entries(ks[k][2]) = Codecs!TagNext(fs[k].tag))
              => ReadKeys(ks) = AsArms(fs, r)
<1>1. DOMAIN ks = 1..r
  BY LenProperties
<1> QED
  BY <1>1 DEF ReadKeys, AsKeys, AsArms

(* A codec, part by part.                                                   *)
LEMMA CodecFields ==
  ASSUME NEW name, NEW ks
  PROVE  /\ Codecs!codecOf(name, ks).codec = name /\ Codecs!codecOf(name, ks).elems = ks
         /\ Codecs!errorCodec(ks).codec = "errorCodec" /\ Codecs!errorCodec(ks).elems = ks
BY DEF Codecs!codecOf, Codecs!errorCodec

(* The fields of a struct have been seen, or one of them is illegal.        *)
StructStops(s, n) ==
  \/ n = Len(s)
  \/ /\ n + 1 \in 1..Len(s) /\ LeadAt(s, n + 1) # "-"
     /\ ~FieldIn(s, n + 1, ContextOf(s, Rank(s, n) + 1)).ok
LEMMA StructEnds ==
  ASSUME NEW s \in Struct, NEW n \in 0..Len(s), NEW S, NEW ks \in Seq(S),
         StructFollows(s, n, ks), StructStops(s, n)
  PROVE  LET c == Codecs!codecOfFields(Fs(s))
         IN  /\ c.codec = IF n = Len(s) THEN "structCodec" ELSE "errorCodec"
             /\ c.elems = ReadKeys(ks)
<1> DEFINE r == Rank(s, n)
           m == Rank(s, Len(s))
           fs == Fs(s)
<1>1. /\ Len(fs) = m /\ m \in Nat /\ r \in Nat /\ r \leq m /\ Len(s) \in Nat /\ (fs = <<>> <=> m = 0)
  BY FsFacts
<1>2. CASE n = Len(s)
  <2>1. r = m
    BY <1>2
  <2>2. \A k \in 1..r : ~Codecs!Unparsed(fs[k])
    BY DEF StructFollows
  <2>3. r # 0 => Codecs!TagKind(fs[1].tag) # "UnionSwitch"
    BY DEF StructFollows
  <2>4. ReadKeys(ks) = AsKeys(fs, r)
    BY ReadKeysFacts DEF StructFollows
  <2> HIDE DEF r, m, fs
  <2>5. Codecs!codecOfFields(fs) = Codecs!structCodecOf(fs)
    BY <1>1, <2>1, <2>3 DEF Codecs!codecOfFields
  <2>6. Codecs!structCodecOf(fs) = Codecs!codecOf("structCodec", AsKeys(fs, r))
    BY <1>1, <2>1, <2>2, StructCodecFacts
  <2> QED
    BY <1>2, <2>4, <2>5, <2>6, CodecFields DEF fs
<1>3. CASE n # Len(s)
  <2>1. /\ n + 1 \in 1..Len(s) /\ LeadAt(s, n + 1) # "-" /\ n \in Nat /\ (n + 1) - 1 = n
        /\ ~FieldIn(s, n + 1, ContextOf(s, r + 1)).ok
    BY <1>3 DEF StructStops
  <2>2. Rank(s, n + 1) = r + 1 /\ r + 1 \leq m
    BY <1>1, <2>1, FieldAt
  <2>3. Codecs!Unparsed(fs[r + 1])
    <3>1. ContextOf(s, r + 1) \in Contexts
      BY DEF ContextOf, Contexts
    <3> QED
      BY <2>1, <2>2, <3>1, FieldInContext DEF Fs
  <2>4. \A k \in 1..r : ~Codecs!Unparsed(fs[k])
    BY DEF StructFollows
  <2>5. r # 0 => Codecs!TagKind(fs[1].tag) # "UnionSwitch"
    BY DEF StructFollows
  <2>6. ReadKeys(ks) = AsKeys(fs, r)
    BY ReadKeysFacts DEF StructFollows
  <2> HIDE DEF r, m, fs
  <2>7. Codecs!TagKind(fs[1].tag) # "UnionSwitch"
    <3>1. CASE r = 0
      <4>1. fs[1].tag = Codecs!ParseError
        BY <2>3, <3>1 DEF Codecs!Unparsed
      <4>2. Codecs!TagKind(Codecs!ParseError) = "error"
        <5> DEFINE y == <<[kind |-> "error", values |-> <<>>]>>
        <5>1. y # <<>> /\ Head(y).kind = "error"
          OBVIOUS
        <5>2. Codecs!ParseError = y
          BY DEF Codecs!ParseError, Codecs!Entry
        <5> HIDE DEF y
        <5> QED
          BY <5>1, <5>2 DEF Codecs!TagKind
      <4> QED
        BY <4>1, <4>2
    <3> QED
      BY <2>5, <3>1
  <2>8. Codecs!codecOfFields(fs) = Codecs!structCodecOf(fs)
    BY <2>7 DEF Codecs!codecOfFields
  <2>9. r < m
    BY <1>1, <2>2
  <2>10. Codecs!structCodecOf(fs) = Codecs!errorCodec(AsKeys(fs, r))
    BY <1>1, <2>3, <2>4, <2>9, StructCodecFacts
  <2> QED
    BY <1>3, <2>6, <2>8, <2>10, CodecFields DEF fs
<1> QED
  BY <1>2, <1>3

(* A field that is not skipped, after r others: its rank, its context and   *)
(* what TypeCodecs has of it.                                               *)
LEMMA NextField ==
  ASSUME NEW s \in Struct, NEW n \in Nat, n + 1 \in 1..Len(s), LeadAt(s, n + 1) # "-",
         NEW r, r = Rank(s, n), NEW u, u = ContextOf(s, r + 1), NEW p, p = FieldIn(s, n + 1, u), p.ok
  PROVE  LET f == Fs(s)[r + 1]
             l == LeadAt(s, n + 1)
         IN  /\ Rank(s, n + 1) = r + 1 /\ r \in Nat /\ Unskipped(s)[r + 1] = s[n + 1]
             /\ f.type = s[n + 1].type /\ ~Codecs!Unparsed(f)
             /\ Entries(p.tag) = f.tag /\ Entries(NextTag(p.tag)) = Codecs!TagNext(f.tag)
             /\ Codecs!TagKind(f.tag) = "UnionSwitch" <=> l = "switch"
             /\ Codecs!IsDefault(f) <=> l = "default"
             /\ Codecs!TagKind(f.tag) = "UnionCases" <=> l = "cases"
             /\ l = "cases" => f.tag[1].values = s[n + 1].text.values
<1>1. (n + 1) - 1 = n
  OBVIOUS
<1>2. Rank(s, n + 1) = r + 1 /\ Unskipped(s)[r + 1] = s[n + 1]
  BY <1>1, FieldAt
<1>3. r \in Nat
  BY RankSteps
<1>4. u \in Contexts
  BY DEF ContextOf, Contexts
<1>5. LET f == EntriesInContext(s)[Rank(s, n + 1)]
          q == FieldIn(s, n + 1, u)
          l == LeadAt(s, n + 1)
      IN  /\ f.type = s[n + 1].type
          /\ q.ok =>
               /\ f.tag = Entries(q.tag) /\ ~Codecs!Unparsed(f)
               /\ Entries(NextTag(q.tag)) = Codecs!TagNext(f.tag)
               /\ Codecs!TagKind(f.tag) = "UnionSwitch" <=> l = "switch"
               /\ Codecs!IsDefault(f) <=> l = "default"
               /\ Codecs!TagKind(f.tag) = "UnionCases" <=> l = "cases"
               /\ l = "cases" => f.tag[1].values = s[n + 1].text.values
  BY <1>2, <1>4, FieldInContext
<1>6. LET f == Fs(s)[r + 1]
          l == LeadAt(s, n + 1)
      IN  /\ f.type = s[n + 1].type
          /\ p.ok =>
               /\ f.tag = Entries(p.tag) /\ ~Codecs!Unparsed(f)
               /\ Entries(NextTag(p.tag)) = Codecs!TagNext(f.tag)
               /\ Codecs!TagKind(f.tag) = "UnionSwitch" <=> l = "switch"
               /\ Codecs!IsDefault(f) <=> l = "default"
               /\ Codecs!TagKind(f.tag) = "UnionCases" <=> l = "cases"
               /\ l = "cases" => f.tag[1].values = s[n + 1].text.values
  BY <1>2, <1>5, Zenon DEF Fs
<1> QED
  BY <1>2, <1>3, <1>6

(* A field of a struct.                                                     *)
LEMMA StructGrows ==
  ASSUME NEW s \in Struct, NEW n \in Nat, n + 1 \in 1..Len(s), LeadAt(s, n + 1) # "-",
         NEW S, NEW ks \in Seq(S), StructFollows(s, n, ks), Rank(s, n) = 0 => LeadAt(s, n + 1) # "switch",
         NEW p, p = FieldIn(s, n + 1, ContextOf(s, Rank(s, n) + 1)), p.ok,
         NEW key \in S, key = <<s[n + 1].type, p.tag>>
  PROVE  StructFollows(s, n + 1, Append(ks, key))
<1> DEFINE r == Rank(s, n)
           f == Fs(s)[r + 1]
           l == LeadAt(s, n + 1)
           ks2 == Append(ks, key)
<1>1. /\ Rank(s, n + 1) = r + 1 /\ r \in Nat /\ Unskipped(s)[r + 1] = s[n + 1]
      /\ f.type = s[n + 1].type /\ ~Codecs!Unparsed(f) /\ Entries(p.tag) = f.tag
      /\ Codecs!TagKind(f.tag) = "UnionSwitch" <=> l = "switch"
  BY NextField
<1>2. /\ Len(ks) = r /\ (r # 0 => /\ Unskipped(s)[1].text.lead # "switch"
                                  /\ Codecs!TagKind(Fs(s)[1].tag) # "UnionSwitch")
      /\ \A k \in 1..r : /\ ~Codecs!Unparsed(Fs(s)[k])
                         /\ ks[k][1] = Fs(s)[k].type /\ Entries(ks[k][2]) = Fs(s)[k].tag
  BY DEF StructFollows
<1>3. Len(ks2) = r + 1 /\ ks2[r + 1] = key /\ \A k \in 1..r : ks2[k] = ks[k]
  BY <1>2, OneKeyMore
<1>4. r = 0 => Unskipped(s)[1].text.lead # "switch" /\ Codecs!TagKind(Fs(s)[1].tag) # "UnionSwitch"
  <2> SUFFICES ASSUME r = 0 PROVE Unskipped(s)[1].text.lead # "switch" /\ Codecs!TagKind(Fs(s)[1].tag) # "UnionSwitch"
    OBVIOUS
  <2>1. r + 1 = 1
    OBVIOUS
  <2>2. s[n + 1].text.lead # "switch"
    BY DEF LeadAt
  <2> HIDE DEF r
  <2>3. Unskipped(s)[1] = s[n + 1] /\ Codecs!TagKind(Fs(s)[1].tag) # "UnionSwitch"
    BY <1>1, <2>1, <2>2 DEF LeadAt
  <2> QED
    BY <2>2, <2>3
<1> HIDE DEF r, ks2
<1>5. ASSUME NEW k \in 1..(r + 1)
      PROVE  /\ ~Codecs!Unparsed(Fs(s)[k])
             /\ ks2[k][1] = Fs(s)[k].type /\ Entries(ks2[k][2]) = Fs(s)[k].tag
  <2>1. CASE k \in 1..r
    BY <1>2, <1>3, <2>1
  <2>2. CASE k = r + 1
    BY <1>1, <1>3, <2>2
  <2> QED
    BY <1>1, <2>1, <2>2
<1> QED
  BY <1>1, <1>2, <1>3, <1>4, <1>5 DEF StructFollows, ks2

(* The switch of a union, and its key.                                      *)
LEMMA SwitchFacts ==
  ASSUME NEW s \in Struct, NEW n \in Nat, n + 1 \in 1..Len(s), LeadAt(s, n + 1) = "switch",
         AllSkipped(s, n), NEW p, p = FieldIn(s, n + 1, "Maybe"), p.ok
  PROVE  /\ Rank(s, n + 1) = 1 /\ Unskipped(s)[1] = s[n + 1] /\ Fs(s) # <<>>
         /\ Fs(s)[1].type = s[n + 1].type /\ Entries(NextTag(p.tag)) = Codecs!TagNext(Fs(s)[1].tag)
         /\ Codecs!TagKind(Fs(s)[1].tag) = "UnionSwitch"
<1>1. Rank(s, n) = 0 /\ 0 + 1 = 1
  BY RankSteps
<1>2. ContextOf(s, 1) = "Maybe"
  BY DEF ContextOf
<1>3. LET f == Fs(s)[0 + 1]
          l == LeadAt(s, n + 1)
      IN  /\ Rank(s, n + 1) = 0 + 1 /\ Unskipped(s)[0 + 1] = s[n + 1]
          /\ f.type = s[n + 1].type /\ Entries(NextTag(p.tag)) = Codecs!TagNext(f.tag)
          /\ Codecs!TagKind(f.tag) = "UnionSwitch" <=> l = "switch"
  BY <1>1, <1>2, NextField
<1>4. Fs(s) # <<>>
  <2>1. Rank(s, n + 1) \in 1..Rank(s, Len(s))
    BY FieldAt
  <2>2. Rank(s, Len(s)) # 0
    BY <2>1
  <2> QED
    BY <2>2, FsFacts
<1> QED
  BY <1>1, <1>3, <1>4

(* A switch begins a union.                                                 *)
LEMMA UnionBegins ==
  ASSUME NEW s \in Struct, NEW n \in Nat, n + 1 \in 1..Len(s), LeadAt(s, n + 1) = "switch",
         AllSkipped(s, n), NEW p, p = FieldIn(s, n + 1, "Maybe"), p.ok
  PROVE  /\ KindOf(s[n + 1].type) \in {"int32", "uint32", "bool"} =>
              UnionFollows(s, n + 1, << <<s[n + 1].type, NextTag(p.tag)>> >>, <<>>, 0)
         /\ KindOf(s[n + 1].type) \notin {"int32", "uint32", "bool"} =>
              /\ Codecs!codecOfFields(Fs(s)).codec = "panic"
              /\ Codecs!codecOfFields(Fs(s)).elems = ReadKeys(<<>>)
<1> DEFINE key == <<s[n + 1].type, NextTag(p.tag)>>
           ks == <<key>>
<1>1. /\ Rank(s, n + 1) = 1 /\ Unskipped(s)[1] = s[n + 1] /\ Fs(s) # <<>>
      /\ Fs(s)[1].type = s[n + 1].type /\ Entries(NextTag(p.tag)) = Codecs!TagNext(Fs(s)[1].tag)
      /\ Codecs!TagKind(Fs(s)[1].tag) = "UnionSwitch"
  BY SwitchFacts
<1>2. CASE KindOf(s[n + 1].type) \in {"int32", "uint32", "bool"}
  <2>1. Len(ks) = 1 /\ ks[1] = key /\ key[1] = s[n + 1].type /\ key[2] = NextTag(p.tag)
    OBVIOUS
  <2> HIDE DEF ks, key
  <2>2. \A k \in 1..1 : /\ ks[k][1] = Fs(s)[k].type
                        /\ Entries(ks[k][2]) = Codecs!TagNext(Fs(s)[k].tag)
    <3>1. \A k \in 1..1 : k = 1
      OBVIOUS
    <3> QED
      BY <1>1, <2>1, <3>1
  <2>3. \A k : k \notin 2..1
    OBVIOUS
  <2>4. Entered(s, Fs(s), 1, <<>>, 0)
    BY <2>3 DEF Entered
  <2>5. Unskipped(s)[1].text.lead = "switch"
    BY <1>1 DEF LeadAt
  <2>6. UnionFollows(s, n + 1, ks, <<>>, 0)
    BY <1>1, <1>2, <2>1, <2>2, <2>3, <2>4, <2>5 DEF UnionFollows
  <2> QED
    BY <1>2, <2>6 DEF ks, key
<1>3. CASE KindOf(s[n + 1].type) \notin {"int32", "uint32", "bool"}
  <2>1. TypeDef[Fs(s)[1].type].kind \notin {"int32", "uint32", "bool"}
    BY <1>1, <1>3 DEF KindOf
  <2>2. Codecs!codecOfFields(Fs(s)) = Codecs!unionCodecOf(Fs(s))
    BY <1>1 DEF Codecs!codecOfFields
  <2>3. Codecs!unionCodecOf(Fs(s)) = Codecs!BuildPanic
    BY <2>1 DEF Codecs!unionCodecOf
  <2>4. ReadKeys(<<>>) = <<>>
    BY DEF ReadKeys
  <2>5. Codecs!BuildPanic.codec = "panic" /\ Codecs!BuildPanic.elems = <<>>
    BY CodecFields DEF Codecs!BuildPanic
  <2> QED
    BY <1>3, <2>2, <2>3, <2>4, <2>5
<1> QED
  BY <1>2, <1>3

(* A legal arm of a union: its key, its labels, and whether it repeats one. *)
LEMMA ArmFacts ==
  ASSUME NEW s \in Struct, NEW n \in Nat, n + 1 \in 1..Len(s), LeadAt(s, n + 1) \in {"cases", "default"},
         NEW S, NEW ks \in Seq(S), NEW cs, NEW d, UnionFollows(s, n, ks, cs, d),
         NEW p, p = FieldIn(s, n + 1, "InUnion"), p.ok,
         NEW labels, labels = ArmLabels(s[n + 1].text),
         NEW key \in S, key = <<s[n + 1].type, NextTag(p.tag)>>
  PROVE  LET r == Rank(s, n)
             fs == Fs(s)
             ks2 == Append(ks, key)
         IN  /\ Rank(s, n + 1) = r + 1 /\ r \in Nat /\ r # 0
             /\ Codecs!CaseValues(fs[r + 1]) = Range(labels)
             /\ Codecs!IsDefault(fs[r + 1]) <=> LeadAt(s, n + 1) = "default"
             /\ ~Codecs!Unparsed(fs[r + 1])
             /\ Codecs!Repeats(fs, r + 1)
                  <=> Seen(cs, labels) \/ (LeadAt(s, n + 1) = "default" /\ d # 0)
             /\ Len(ks2) = r + 1
             /\ \A k \in 1..(r + 1) : /\ ks2[k][1] = fs[k].type
                                      /\ Entries(ks2[k][2]) = Codecs!TagNext(fs[k].tag)
<1> DEFINE r == Rank(s, n)
           fs == Fs(s)
           f == fs[r + 1]
           l == LeadAt(s, n + 1)
           ks2 == Append(ks, key)
<1>1. /\ Len(ks) = r /\ r # 0 /\ Unskipped(s)[1].text.lead = "switch"
      /\ \A k \in 1..r : /\ ks[k][1] = fs[k].type
                         /\ Entries(ks[k][2]) = Codecs!TagNext(fs[k].tag)
      /\ Entered(s, fs, r, cs, d)
  BY DEF UnionFollows
<1>2. r \in Nat
  BY RankSteps
<1>3. ContextOf(s, r + 1) = "InUnion"
  <2>1. r + 1 # 1
    BY <1>1, <1>2
  <2> HIDE DEF r
  <2> QED
    BY <1>1, <2>1 DEF ContextOf
<1>4. /\ Rank(s, n + 1) = r + 1
      /\ f.type = s[n + 1].type /\ ~Codecs!Unparsed(f)
      /\ Entries(NextTag(p.tag)) = Codecs!TagNext(f.tag)
      /\ Codecs!IsDefault(f) <=> l = "default"
      /\ Codecs!TagKind(f.tag) = "UnionCases" <=> l = "cases"
      /\ l = "cases" => f.tag[1].values = s[n + 1].text.values
  BY <1>3, NextField
<1>5. labels \in Seq(Number)
  <2>1. IsText(s[n + 1].text)
    BY StructFacts
  <2>2. s[n + 1].text.values \in Seq(Number)
    BY <2>1, WordsOf DEF IsText
  <2>3. <<>> \in Seq(Number)
    OBVIOUS
  <2> QED
    BY <2>2, <2>3 DEF ArmLabels
<1>6. /\ l = "cases" => labels = f.tag[1].values
      /\ l # "cases" => labels = <<>>
  BY <1>4 DEF ArmLabels, LeadAt
<1> HIDE DEF r, fs, l
<1>7. /\ Codecs!CaseValues(fs[r + 1]) = Range(labels)
      /\ Codecs!Repeats(fs, r + 1) <=> Seen(cs, labels) \/ (Codecs!IsDefault(fs[r + 1]) /\ d # 0)
  <2>2. /\ Codecs!TagKind(fs[r + 1].tag) = "UnionCases" => labels = fs[r + 1].tag[1].values
        /\ Codecs!TagKind(fs[r + 1].tag) # "UnionCases" => labels = <<>>
    BY <1>4, <1>6
  <2>3. Entered(s, fs, r, cs, d) /\ r \in Nat
    BY <1>1, <1>2
  <2> HIDE DEF f
  <2> QED
    BY <1>5, <2>2, <2>3, RepeatsFacts, ZenonT(60)
<1>8. Len(ks2) = r + 1 /\ ks2[r + 1] = key /\ \A k \in 1..r : ks2[k] = ks[k]
  BY <1>1, OneKeyMore
<1> HIDE DEF ks2
<1>9. ASSUME NEW k \in 1..(r + 1)
      PROVE  ks2[k][1] = fs[k].type /\ Entries(ks2[k][2]) = Codecs!TagNext(fs[k].tag)
  <2>1. CASE k \in 1..r
    BY <1>1, <1>8, <2>1
  <2>2. CASE k = r + 1
    BY <1>4, <1>8, <2>2
  <2> QED
    BY <1>2, <2>1, <2>2
<1> QED
  BY <1>1, <1>2, <1>4, <1>7, <1>8, <1>9 DEF r, fs, l, ks2

(* An arm whose labels are new is entered.                                  *)
LEMMA UnionGrows ==
  ASSUME NEW s \in Struct, NEW n \in Nat, n + 1 \in 1..Len(s), LeadAt(s, n + 1) \in {"cases", "default"},
         NEW S, NEW ks \in Seq(S), NEW cs, NEW d, UnionFollows(s, n, ks, cs, d),
         NEW p, p = FieldIn(s, n + 1, "InUnion"), p.ok,
         NEW labels, labels = ArmLabels(s[n + 1].text),
         NEW key \in S, key = <<s[n + 1].type, NextTag(p.tag)>>,
         ~Seen(cs, labels), LeadAt(s, n + 1) = "default" => d = 0,
         NEW cs2, cs2 = [v \in DOMAIN cs \cup Range(labels) |-> IF v \in DOMAIN cs THEN cs[v] ELSE n + 1],
         NEW d2, d2 = IF LeadAt(s, n + 1) = "default" THEN n + 1 ELSE d
  PROVE  UnionFollows(s, n + 1, Append(ks, key), cs2, d2)
<1> DEFINE r == Rank(s, n)
           fs == Fs(s)
           l == LeadAt(s, n + 1)
           ks2 == Append(ks, key)
           C(k) == Codecs!CaseValues(fs[k])
<1>1. /\ Rank(s, n + 1) = r + 1 /\ r \in Nat /\ r # 0
      /\ C(r + 1) = Range(labels)
      /\ Codecs!IsDefault(fs[r + 1]) <=> l = "default"
      /\ ~Codecs!Unparsed(fs[r + 1])
      /\ Codecs!Repeats(fs, r + 1) <=> Seen(cs, labels) \/ (l = "default" /\ d # 0)
      /\ Len(ks2) = r + 1
      /\ \A k \in 1..(r + 1) : /\ ks2[k][1] = fs[k].type
                               /\ Entries(ks2[k][2]) = Codecs!TagNext(fs[k].tag)
  BY ArmFacts
<1>2. /\ Unskipped(s)[1].text.lead = "switch" /\ Codecs!TagKind(fs[1].tag) = "UnionSwitch"
      /\ KindOf(fs[1].type) \in {"int32", "uint32", "bool"}
      /\ \A k \in 2..r : ~IsBad(fs, k)
      /\ Entered(s, fs, r, cs, d)
  BY DEF UnionFollows
<1>3. /\ DOMAIN cs = UNION {C(k) : k \in 2..r}
      /\ \A v \in DOMAIN cs : Rank(s, cs[v]) \in 2..r /\ v \in C(Rank(s, cs[v]))
      /\ d = 0 => \A k \in 2..r : ~Codecs!IsDefault(fs[k])
      /\ d # 0 => Rank(s, d) \in 2..r /\ Codecs!IsDefault(fs[Rank(s, d)])
  BY <1>2 DEF Entered
<1> HIDE DEF r, fs, l, ks2, C
<1>4. \A k : k \in 2..(r + 1) <=> k \in 2..r \/ k = r + 1
  BY <1>1
<1>5. ~IsBad(fs, r + 1)
  BY <1>1 DEF IsBad, l
<1>6. DOMAIN cs2 = UNION {C(k) : k \in 2..(r + 1)}
  <2>1. DOMAIN cs2 = DOMAIN cs \cup C(r + 1)
    BY <1>1
  <2> QED
    BY <1>3, <1>4, <2>1
<1>7. ASSUME NEW v \in DOMAIN cs2
      PROVE  Rank(s, cs2[v]) \in 2..(r + 1) /\ v \in C(Rank(s, cs2[v]))
  <2>1. CASE v \in DOMAIN cs
    <3>1. cs2[v] = cs[v]
      BY <2>1
    <3> QED
      BY <1>3, <1>4, <2>1, <3>1
  <2>2. CASE v \notin DOMAIN cs
    <3>1. cs2[v] = n + 1 /\ v \in Range(labels)
      BY <2>2
    <3> QED
      BY <1>1, <1>4, <3>1
  <2> QED
    BY <2>1, <2>2
<1>8. d2 = 0 => \A k \in 2..(r + 1) : ~Codecs!IsDefault(fs[k])
  <2>1. n + 1 # 0
    OBVIOUS
  <2> QED
    BY <1>1, <1>3, <1>4, <2>1 DEF l
<1>9. d2 # 0 => Rank(s, d2) \in 2..(r + 1) /\ Codecs!IsDefault(fs[Rank(s, d2)])
  <2>1. CASE l = "default"
    <3>1. d2 = n + 1
      BY <2>1 DEF l
    <3> QED
      BY <1>1, <1>4, <2>1, <3>1
  <2>2. CASE l # "default"
    <3>1. d2 = d
      BY <2>2 DEF l
    <3> QED
      BY <1>3, <1>4, <3>1
  <2> QED
    BY <2>1, <2>2
<1>10. Entered(s, fs, r + 1, cs2, d2)
  BY <1>6, <1>7, <1>8, <1>9 DEF Entered, C
<1>11. r + 1 # 0 /\ \A k \in 2..(r + 1) : ~IsBad(fs, k)
  BY <1>1, <1>2, <1>4, <1>5
<1> QED
  BY <1>1, <1>2, <1>10, <1>11 DEF UnionFollows, fs, ks2

(* Where the fields of a union end: at the last, at one that is illegal, or *)
(* at one that repeats a label, whose key is there already.                 *)
LEMMA UnionEnds ==
  ASSUME NEW s \in Struct, NEW n \in 0..Len(s), NEW S, NEW ks \in Seq(S), NEW cs, NEW d,
         UnionFollows(s, n, ks, cs, d)
  PROVE  LET c == Codecs!codecOfFields(Fs(s))
         IN  /\ n = Len(s) =>
                  /\ c.codec = "unionCodec" /\ c.elems = ReadKeys(ks)
                  /\ c.cases = [v \in DOMAIN cs |-> Rank(s, cs[v])]
                  /\ c.default = IF d = 0 THEN 0 ELSE Rank(s, d)
             /\ (n + 1 \in 1..Len(s) /\ LeadAt(s, n + 1) # "-" /\ ~FieldIn(s, n + 1, "InUnion").ok)
                  => c.codec = "errorCodec" /\ c.elems = ReadKeys(ks)
<1> DEFINE r == Rank(s, n)
           m == Rank(s, Len(s))
           fs == Fs(s)
<1>1. /\ Len(fs) = m /\ m \in Nat /\ r \in Nat /\ r \leq m /\ Len(s) \in Nat /\ (fs = <<>> <=> m = 0)
  BY FsFacts
<1>2. /\ Len(ks) = r /\ r # 0
      /\ Unskipped(s)[1].text.lead = "switch" /\ Codecs!TagKind(fs[1].tag) = "UnionSwitch"
      /\ KindOf(fs[1].type) \in {"int32", "uint32", "bool"}
      /\ \A k \in 2..r : ~IsBad(fs, k)
      /\ Entered(s, fs, r, cs, d)
      /\ \A k \in 1..r : ks[k][1] = fs[k].type /\ Entries(ks[k][2]) = Codecs!TagNext(fs[k].tag)
  BY DEF UnionFollows
<1>3. ReadKeys(ks) = AsArms(fs, r)
  BY <1>2, ReadKeysFacts
<1> HIDE DEF fs
<1>4. Codecs!codecOfFields(fs) = Codecs!unionCodecOf(fs)
  BY <1>1, <1>2 DEF Codecs!codecOfFields
<1>5. ASSUME n = Len(s)
      PROVE  LET c == Codecs!codecOfFields(fs)
             IN  /\ c.codec = "unionCodec" /\ c.elems = ReadKeys(ks)
                 /\ c.cases = [v \in DOMAIN cs |-> Rank(s, cs[v])]
                 /\ c.default = IF d = 0 THEN 0 ELSE Rank(s, d)
  <2> DEFINE c == Codecs!codecOfFields(fs)
             C(k) == Codecs!CaseValues(fs[k])
             X == [v \in Labels(fs) |-> CHOOSE k \in 2..Len(fs) : v \in C(k)]
             Y == IF \E k \in 2..Len(fs) : Codecs!IsDefault(fs[k])
                  THEN CHOOSE k \in 2..Len(fs) : Codecs!IsDefault(fs[k]) ELSE 0
  <2>1. r = m
    BY <1>5
  <2> HIDE DEF r, m
  <2>2. c = WholeUnion(fs, r)
    BY <1>1, <1>2, <1>4, <2>1, UnionCodecFacts
  <2>3. c = [Codecs!codecOf("unionCodec", AsArms(fs, r)) EXCEPT !.cases = X, !.default = Y]
    BY <2>2 DEF WholeUnion
  <2>4. c.codec = "unionCodec" /\ c.elems = AsArms(fs, r) /\ c.cases = X /\ c.default = Y
    <3> HIDE DEF X, Y, c
    <3> QED
      BY <2>3 DEF Codecs!codecOf
  <2>5. /\ DOMAIN cs = UNION {C(k) : k \in 2..r}
        /\ \A v \in DOMAIN cs : Rank(s, cs[v]) \in 2..r /\ v \in C(Rank(s, cs[v]))
        /\ d = 0 => \A k \in 2..r : ~Codecs!IsDefault(fs[k])
        /\ d # 0 => Rank(s, d) \in 2..r /\ Codecs!IsDefault(fs[Rank(s, d)])
    BY <1>2 DEF Entered
  <2>6. /\ \A j, k \in 2..r : C(j) \cap C(k) # {} => j = k
        /\ \A j, k \in 2..r : Codecs!IsDefault(fs[j]) /\ Codecs!IsDefault(fs[k]) => j = k
    <3>1. ASSUME NEW k \in 2..r, NEW j \in 2..(k - 1)
          PROVE  C(j) \cap C(k) = {} /\ ~(Codecs!IsDefault(fs[j]) /\ Codecs!IsDefault(fs[k]))
      <4>1. ~Codecs!Repeats(fs, k)
        BY <1>2 DEF IsBad
      <4>2. /\ C(k) \cap C(j) = {}
            /\ ~(Codecs!IsDefault(fs[k]) /\ Codecs!IsDefault(fs[j]))
        BY <4>1 DEF Codecs!Repeats
      <4> QED
        BY <4>2
    <3> HIDE DEF C
    <3>2. \A j, k \in 2..r : j = k \/ j \in 2..(k - 1) \/ k \in 2..(j - 1)
      BY <1>1
    <3>3. ASSUME NEW j \in 2..r, NEW k \in 2..r, j # k
          PROVE  C(j) \cap C(k) = {} /\ ~(Codecs!IsDefault(fs[j]) /\ Codecs!IsDefault(fs[k]))
      <4>1. CASE j \in 2..(k - 1)
        BY <3>1, <4>1
      <4>2. CASE k \in 2..(j - 1)
        BY <3>1, <4>2
      <4> QED
        BY <3>2, <3>3, <4>1, <4>2
    <3> QED
      BY <3>3
  <2>7. Labels(fs) = DOMAIN cs
    BY <1>1, <2>1, <2>5 DEF Labels
  <2>8. ASSUME NEW v \in DOMAIN cs
        PROVE  Rank(s, cs[v]) = CHOOSE k \in 2..Len(fs) : v \in C(k)
    <3> DEFINE q == Rank(s, cs[v])
    <3>1. q \in 2..r /\ v \in C(q) /\ \A k \in 2..r : v \in C(k) => k = q
      BY <2>5, <2>6
    <3> HIDE DEF q, C
    <3>2. q = CHOOSE k \in 2..r : v \in C(k)
      BY <3>1
    <3> QED
      BY <1>1, <2>1, <3>2 DEF q
  <2>9. X = [v \in DOMAIN cs |-> Rank(s, cs[v])]
    <3> HIDE DEF C
    <3> QED
      BY <2>7, <2>8
  <2>10. Y = IF d = 0 THEN 0 ELSE Rank(s, d)
    <3>1. CASE d = 0
      BY <1>1, <2>1, <2>5, <3>1
    <3>2. CASE d # 0
      <4> DEFINE q == Rank(s, d)
                 D(k) == Codecs!IsDefault(fs[k])
      <4>1. q \in 2..r /\ D(q) /\ \A k \in 2..r : D(k) => k = q
        BY <2>5, <2>6, <3>2
      <4> HIDE DEF q, D
      <4>2. q = (CHOOSE k \in 2..r : D(k)) /\ \E k \in 2..r : D(k)
        BY <4>1
      <4>3. Y = q
        BY <1>1, <2>1, <4>2 DEF D
      <4> QED
        BY <3>2, <4>3 DEF q
    <3> QED
      BY <3>1, <3>2
  <2> HIDE DEF X, Y, c
  <2> QED
    BY <1>3, <2>4, <2>9, <2>10 DEF c
<1>6. ASSUME n + 1 \in 1..Len(s), LeadAt(s, n + 1) # "-", ~FieldIn(s, n + 1, "InUnion").ok
      PROVE  Codecs!codecOfFields(fs).codec = "errorCodec" /\ Codecs!codecOfFields(fs).elems = ReadKeys(ks)
  <2>1. n \in Nat /\ (n + 1) - 1 = n
    BY <1>6
  <2>2. Rank(s, n + 1) = r + 1 /\ r + 1 \leq m
    BY <1>1, <1>6, <2>1, FieldAt
  <2>3. Codecs!Unparsed(fs[r + 1])
    <3>1. r + 1 # 1
      BY <1>1, <1>2
    <3>2. ContextOf(s, r + 1) = "InUnion"
      <4> HIDE DEF r
      <4> QED
        BY <1>2, <3>1 DEF ContextOf
    <3>3. "InUnion" \in Contexts
      BY DEF Contexts
    <3> QED
      BY <1>6, <2>2, <3>2, <3>3, FieldInContext DEF Fs, fs
  <2> HIDE DEF r, m
  <2>4. Codecs!unionCodecOf(fs) = Codecs!errorCodec(AsArms(fs, r))
    <3>1. 1 \leq r /\ r \leq m /\ r # m
      BY <1>1, <1>2, <2>2
    <3>2. r < m => IsBad(fs, r + 1)
      BY <2>3 DEF IsBad
    <3> QED
      BY <1>1, <1>2, <2>3, <3>1, <3>2, UnionCodecFacts
  <2> QED
    BY <1>3, <1>4, <2>4, CodecFields
<1> QED
  BY <1>5, <1>6 DEF fs

(* An arm that repeats a label or a default ends a union.                   *)
LEMMA UnionRepeats ==
  ASSUME NEW s \in Struct, NEW n \in Nat, n + 1 \in 1..Len(s), LeadAt(s, n + 1) \in {"cases", "default"},
         NEW S, NEW ks \in Seq(S), NEW cs, NEW d, UnionFollows(s, n, ks, cs, d),
         NEW p, p = FieldIn(s, n + 1, "InUnion"), p.ok,
         NEW labels, labels = ArmLabels(s[n + 1].text),
         NEW key \in S, key = <<s[n + 1].type, NextTag(p.tag)>>,
         Seen(cs, labels) \/ (LeadAt(s, n + 1) = "default" /\ d # 0)
  PROVE  LET c == Codecs!codecOfFields(Fs(s))
         IN  c.codec = "errorCodec" /\ c.elems = ReadKeys(Append(ks, key))
<1> DEFINE r == Rank(s, n)
           m == Rank(s, Len(s))
           fs == Fs(s)
           ks2 == Append(ks, key)
<1>1. /\ Len(fs) = m /\ m \in Nat /\ (fs = <<>> <=> m = 0)
  BY FsFacts
<1>2. /\ Rank(s, n + 1) = r + 1 /\ r \in Nat /\ r # 0
      /\ ~Codecs!Unparsed(fs[r + 1])
      /\ Codecs!Repeats(fs, r + 1) <=> Seen(cs, labels) \/ (LeadAt(s, n + 1) = "default" /\ d # 0)
      /\ Len(ks2) = r + 1
      /\ \A k \in 1..(r + 1) : /\ ks2[k][1] = fs[k].type
                               /\ Entries(ks2[k][2]) = Codecs!TagNext(fs[k].tag)
  BY ArmFacts
<1>3. /\ Codecs!TagKind(fs[1].tag) = "UnionSwitch"
      /\ KindOf(fs[1].type) \in {"int32", "uint32", "bool"}
      /\ \A k \in 2..r : ~IsBad(fs, k)
  BY DEF UnionFollows
<1>4. r + 1 \in 1..m
  BY <1>2, FieldAt
<1>5. ks2 \in Seq(S)
  BY OneKeyMore
<1> HIDE DEF r, m, fs, ks2
<1>6. ReadKeys(ks2) = AsArms(fs, r + 1)
  BY <1>2, <1>5, ReadKeysFacts
<1>7. Codecs!codecOfFields(fs) = Codecs!unionCodecOf(fs)
  BY <1>1, <1>3, <1>4 DEF Codecs!codecOfFields
<1>8. Codecs!unionCodecOf(fs) = Codecs!errorCodec(AsArms(fs, r + 1))
  <2>1. 1 \leq r /\ r \leq m /\ r # m /\ (r < m => IsBad(fs, r + 1))
    BY <1>1, <1>2, <1>4 DEF IsBad
  <2> QED
    BY <1>1, <1>2, <1>3, <2>1, UnionCodecFacts
<1> QED
  BY <1>6, <1>7, <1>8, CodecFields DEF fs, ks2

-----------------------------------------------------------------------------
(* What the loop has done, in each of its phases.  The context of the field *)
(* that it is at is the one that the first field has decided.               *)
Decided(s, n, u, xt) ==
  /\ n \in 1..Len(s) /\ LeadAt(s, n) # "-" /\ AllSkipped(s, n - 1)
  /\ LET p == FieldIn(s, n, "Maybe") IN p.ok /\ p.tag = xt /\ p.isUnion = u
FollowsInv ==
  /\ phase = "deciding" =>
       /\ keys = <<>> /\ cases = <<>> /\ defaultCase = 0
       /\ isUnion # "Maybe" => Decided(struct, i - 1, isUnion, tag)
  /\ phase = "struct" =>
       isUnion = "NotInUnion" /\ Rank(struct, i - 1) # 0 /\ StructFollows(struct, i - 1, keys)
  /\ phase = "union" =>
       isUnion = "InUnion" /\ UnionFollows(struct, i - 1, keys, cases, defaultCase)

(* The codec returned, and the codecs looked up until then.                 *)
Built(s, name, ks, cs, d) ==
  LET c == Codecs!codecOfFields(Fs(s))
  IN  /\ c.codec = name /\ c.elems = ReadKeys(ks)
      /\ name = "unionCodec" => /\ c.cases = [v \in DOMAIN cs |-> Rank(s, cs[v])]
                                /\ c.default = IF d = 0 THEN 0 ELSE Rank(s, d)
ReturnedInv == phase = "done" => Built(struct, codec, keys, cases, defaultCase)
BuildInv == FollowsInv /\ ReturnedInv

(* Nothing has been read when all fields so far are skipped.                *)
LEMMA NothingRead ==
  ASSUME NEW s, NEW n \in Nat, AllSkipped(s, n)
  PROVE  Rank(s, n) = 0 /\ StructFollows(s, n, <<>>) /\ ContextOf(s, Rank(s, n) + 1) = "Maybe"
<1>1. Rank(s, n) = 0 /\ 0 + 1 = 1 /\ Len(<<>>) = 0 /\ \A k : k \notin 1..0
  BY RankSteps
<1>2. StructFollows(s, n, <<>>)
  BY <1>1 DEF StructFollows
<1>3. ContextOf(s, Rank(s, n) + 1) = "Maybe"
  BY <1>1 DEF ContextOf
<1> QED
  BY <1>1, <1>2, <1>3

(* The context of the fields of a struct after the first.                   *)
LEMMA StructContext ==
  ASSUME NEW s, NEW n \in Nat, NEW ks, StructFollows(s, n, ks), Rank(s, n) # 0
  PROVE  ContextOf(s, Rank(s, n) + 1) = "NotInUnion"
<1> DEFINE r == Rank(s, n)
<1>1. r \in Nat
  BY RankSteps
<1>2. Unskipped(s)[1].text.lead # "switch"
  BY DEF StructFollows
<1> HIDE DEF r
<1>3. r + 1 # 1
  BY <1>1 DEF r
<1> QED
  BY <1>2, <1>3 DEF ContextOf, r

(* A field that is skipped changes nothing of what has been read.           *)
LEMMA SkippedFollows ==
  ASSUME NEW s, NEW n \in Nat, LeadAt(s, n + 1) = "-", NEW ks, NEW cs, NEW d
  PROVE  /\ Rank(s, n + 1) = Rank(s, n)
         /\ StructFollows(s, n, ks) => StructFollows(s, n + 1, ks)
         /\ UnionFollows(s, n, ks, cs, d) => UnionFollows(s, n + 1, ks, cs, d)
<1>1. Rank(s, n + 1) = Rank(s, n)
  BY RankSteps
<1> QED
  BY <1>1, Zenon DEF StructFollows, UnionFollows, Entered

(* What the first field decides.                                            *)
LEMMA DecidedLead ==
  ASSUME NEW s \in Struct, NEW n, NEW u, NEW xt, Decided(s, n, u, xt), u = "NotInUnion"
  PROVE  LeadAt(s, n) # "switch"
<1>1. n \in 1..Len(s) /\ LeadAt(s, n) # "-" /\ FieldIn(s, n, "Maybe").ok
      /\ FieldIn(s, n, "Maybe").isUnion = u
  BY DEF Decided
<1>2. s[n].type \in Types /\ IsText(s[n].text) /\ "Maybe" \in Contexts /\ s[n].text.lead # "-"
  BY <1>1, StructFacts DEF Contexts, LeadAt
<1>3. u = ContextAfter(s[n].text.lead, "Maybe")
  BY <1>1, <1>2, ParseTagFacts DEF FieldIn
<1> QED
  BY <1>3 DEF ContextAfter, LeadAt

(* A struct of which nothing has been read.                                 *)
LEMMA InitBuild == Init => BuildInv
BY DEF Init, BuildInv, FollowsInv, ReturnedInv

(* A field that is skipped.                                                 *)
LEMMA SkipFieldBuild == IInv /\ BuildInv /\ SkipField => BuildInv'
<1> SUFFICES ASSUME IInv, BuildInv, SkipField PROVE BuildInv'
  OBVIOUS
<1>1. /\ Reading /\ Field.ok /\ Skipped(Field)
      /\ i' = i + 1 /\ isUnion' = Field.isUnion
      /\ struct' = struct /\ phase' = phase /\ keys' = keys /\ cases' = cases
      /\ defaultCase' = defaultCase /\ codec' = codec
  BY DEF SkipField
<1>2. /\ i \in Nat /\ i - 1 \in Nat /\ (i + 1) - 1 = i /\ (i - 1) + 1 = i
      /\ FieldSeen(Field, LeadAt(struct, i), struct[i].text)
  BY <1>1, FieldNow DEF IInv
<1>3. LeadAt(struct, i) = "-" /\ isUnion' = isUnion
  BY <1>1, <1>2 DEF FieldSeen
<1>4. phase # "done" /\ (phase = "deciding" => isUnion = "Maybe")
  BY <1>1 DEF Reading
<1> DEFINE n == i - 1
<1>5. n \in Nat /\ n + 1 = i /\ i' - 1 = n + 1
  BY <1>1, <1>2
<1>6. /\ phase = "deciding" => keys = <<>> /\ cases = <<>> /\ defaultCase = 0
      /\ phase = "struct" =>
           isUnion = "NotInUnion" /\ Rank(struct, n) # 0 /\ StructFollows(struct, n, keys)
      /\ phase = "union" =>
           isUnion = "InUnion" /\ UnionFollows(struct, n, keys, cases, defaultCase)
  BY DEF BuildInv, FollowsInv
<1> HIDE DEF n
<1>7. /\ Rank(struct, n + 1) = Rank(struct, n)
      /\ StructFollows(struct, n, keys) => StructFollows(struct, n + 1, keys)
      /\ UnionFollows(struct, n, keys, cases, defaultCase)
           => UnionFollows(struct, n + 1, keys, cases, defaultCase)
  BY <1>3, <1>5, SkippedFollows
<1>8. FollowsInv'
  BY <1>1, <1>3, <1>4, <1>5, <1>6, <1>7, Zenon DEF FollowsInv
<1>9. ReturnedInv'
  BY <1>1, <1>4 DEF ReturnedInv
<1> QED
  BY <1>8, <1>9 DEF BuildInv

(* The first field that is not skipped.                                     *)
LEMMA DecidingFieldBuild == IInv /\ BuildInv /\ DecidingField => BuildInv'
<1> SUFFICES ASSUME IInv, BuildInv, DecidingField PROVE BuildInv'
  OBVIOUS
<1>1. /\ Reading /\ phase = "deciding" /\ Field.ok /\ ~Skipped(Field)
      /\ i' = i + 1 /\ isUnion' = Field.isUnion /\ tag' = Field.tag
      /\ IF Field.isUnion = "Maybe" THEN Return("unreachable") ELSE UNCHANGED <<phase, codec>>
      /\ struct' = struct /\ keys' = keys /\ cases' = cases /\ defaultCase' = defaultCase
  BY DEF DecidingField
<1>2. /\ i \in 1..Len(struct) /\ i \in Nat /\ (i + 1) - 1 = i
      /\ FieldSeen(Field, LeadAt(struct, i), struct[i].text)
  BY <1>1, FieldNow DEF IInv
<1>3. isUnion = "Maybe" /\ AllSkipped(struct, i - 1)
  BY <1>1 DEF Reading, IInv, DecidingInv
<1>4. LeadAt(struct, i) # "-" /\ Field.isUnion # "Maybe"
  BY <1>1, <1>2, <1>3 DEF FieldSeen
<1>5. phase' = phase
  BY <1>1, <1>4
<1>6. Field = FieldIn(struct, i, "Maybe")
  BY <1>3 DEF Field, FieldIn
<1>7. Decided(struct, i, Field.isUnion, Field.tag)
  BY <1>1, <1>2, <1>3, <1>4, <1>6 DEF Decided
<1>8. keys = <<>> /\ cases = <<>> /\ defaultCase = 0
  BY <1>1 DEF BuildInv, FollowsInv
<1>9. i' - 1 = i
  BY <1>1, <1>2
<1>10. FollowsInv'
  BY <1>1, <1>5, <1>7, <1>8, <1>9, Zenon DEF FollowsInv
<1>11. ReturnedInv'
  BY <1>1, <1>5 DEF ReturnedInv
<1> QED
  BY <1>10, <1>11 DEF BuildInv

(* The keys are what the lemmas above take them for.                        *)
LEMMA StructNow ==
  ASSUME IInv
  PROVE  /\ struct \in Struct /\ keys \in Seq(Types \X KeyBytes)
         /\ Len(struct) \in Nat /\ i \in 1..(Len(struct) + 1)
         /\ \A k \in 1..Len(struct) : struct[k].type \in Types
BY StructFacts DEF IInv, TypeInv

(* A field that is illegal in its context.                                  *)
LEMMA ParseErrorBuild == IInv /\ BuildInv /\ ParseError => BuildInv'
<1> SUFFICES ASSUME IInv, BuildInv, ParseError PROVE BuildInv'
  OBVIOUS
<1> USE StructNow
<1>1. /\ Reading /\ ~Field.ok /\ phase' = "done" /\ codec' = "errorCodec"
      /\ struct' = struct /\ keys' = keys /\ cases' = cases /\ defaultCase' = defaultCase
  BY DEF ParseError, Return
<1>2. /\ i \in 1..Len(struct) /\ i \in Nat /\ i - 1 \in Nat /\ (i - 1) + 1 = i
      /\ FieldSeen(Field, LeadAt(struct, i), struct[i].text)
  BY <1>1, FieldNow DEF IInv
<1> DEFINE n == i - 1
<1>3. n \in Nat /\ n + 1 = i /\ n \in 0..Len(struct) /\ n # Len(struct) /\ n + 1 \in 1..Len(struct)
  BY <1>2
<1>4. LeadAt(struct, n + 1) # "-"
  BY <1>1, <1>2, <1>3 DEF FieldSeen
<1>5. phase # "done" /\ (phase = "deciding" => isUnion = "Maybe" /\ AllSkipped(struct, n))
  BY <1>1 DEF Reading, IInv, DecidingInv
<1>6. /\ phase = "deciding" => keys = <<>> /\ cases = <<>> /\ defaultCase = 0
      /\ phase = "struct" =>
           isUnion = "NotInUnion" /\ Rank(struct, n) # 0 /\ StructFollows(struct, n, keys)
      /\ phase = "union" =>
           isUnion = "InUnion" /\ UnionFollows(struct, n, keys, cases, defaultCase)
  BY DEF BuildInv, FollowsInv
<1> HIDE DEF n
<1>7. ~FieldIn(struct, n + 1, isUnion).ok
  BY <1>1, <1>3 DEF Field, FieldIn
<1>8. ASSUME phase \in {"deciding", "struct"}
      PROVE  Codecs!codecOfFields(Fs(struct)).codec = "errorCodec"
             /\ Codecs!codecOfFields(Fs(struct)).elems = ReadKeys(keys)
  <2>1. StructFollows(struct, n, keys) /\ ContextOf(struct, Rank(struct, n) + 1) = isUnion
    <3>1. CASE phase = "deciding"
      BY <1>3, <1>5, <1>6, <3>1, NothingRead
    <3>2. CASE phase = "struct"
      BY <1>3, <1>6, <3>2, StructContext
    <3> QED
      BY <1>8, <3>1, <3>2
  <2>2. StructStops(struct, n)
    BY <1>3, <1>4, <1>7, <2>1 DEF StructStops
  <2> QED
    BY <1>3, <2>1, <2>2, StructEnds
<1>9. ASSUME phase = "union"
      PROVE  Codecs!codecOfFields(Fs(struct)).codec = "errorCodec"
             /\ Codecs!codecOfFields(Fs(struct)).elems = ReadKeys(keys)
  BY <1>3, <1>4, <1>6, <1>7, <1>9, UnionEnds
<1>10. phase \in Phases
  BY DEF IInv, TypeInv
<1>11. Built(struct, "errorCodec", keys, cases, defaultCase)
  BY <1>5, <1>8, <1>9, <1>10 DEF Built, Phases
<1>12. ReturnedInv' /\ FollowsInv'
  BY <1>1, <1>11 DEF ReturnedInv, FollowsInv
<1> QED
  BY <1>12 DEF BuildInv

(* The context is settled: a struct without fields, a struct or a union.    *)
LEMMA SettleBuild == IInv /\ BuildInv /\ Settle => BuildInv'
<1> SUFFICES ASSUME IInv, BuildInv, Settle PROVE BuildInv'
  OBVIOUS
<1> USE StructNow
<1>1. /\ phase = "deciding" /\ (isUnion # "Maybe" \/ i > Len(struct))
      /\ struct' = struct /\ i' = i /\ isUnion' = isUnion /\ tag' = tag /\ cases' = cases
      /\ defaultCase' = defaultCase
  BY DEF Settle
<1>2. keys = <<>> /\ cases = <<>> /\ defaultCase = 0
  BY <1>1 DEF BuildInv, FollowsInv
<1>3. CASE isUnion = "Maybe"
  <2>1. phase' = "done" /\ codec' = "structCodec" /\ keys' = keys
    BY <1>3 DEF Settle, Return
  <2>2. AllSkipped(struct, i - 1)
    BY <1>1, <1>3 DEF IInv, DecidingInv
  <2> DEFINE n == i - 1
  <2>3. n = Len(struct) /\ n \in Nat /\ n \in 0..Len(struct)
    BY <1>1, <1>3
  <2>4. AllSkipped(struct, n)
    BY <2>2
  <2> HIDE DEF n
  <2>5. StructFollows(struct, n, keys) /\ StructStops(struct, n)
    BY <1>2, <2>3, <2>4, NothingRead DEF StructStops
  <2>6. Built(struct, "structCodec", keys, cases, defaultCase)
    BY <2>3, <2>5, StructEnds DEF Built
  <2>7. ReturnedInv' /\ FollowsInv'
    BY <1>1, <2>1, <2>6 DEF ReturnedInv, FollowsInv
  <2> QED
    BY <2>7 DEF BuildInv
<1>4. ASSUME isUnion # "Maybe"
      PROVE  LET n == i - 2
                 p == FieldIn(struct, n + 1, "Maybe")
             IN  /\ n \in Nat /\ n + 1 = i - 1 /\ n + 1 \in 1..Len(struct)
                 /\ LeadAt(struct, n + 1) # "-" /\ AllSkipped(struct, n)
                 /\ p.ok /\ p.tag = tag /\ IsTagBytes(tag)
                 /\ isUnion = "NotInUnion" => LeadAt(struct, n + 1) # "switch"
  <2>1. Decided(struct, i - 1, isUnion, tag) /\ IsTagBytes(tag)
    BY <1>1, <1>4 DEF BuildInv, FollowsInv, IInv, DecidingInv
  <2>2. i - 1 \in 1..Len(struct)
    BY <2>1 DEF Decided
  <2> DEFINE n == i - 2
  <2>3. n \in Nat /\ n + 1 = i - 1 /\ (i - 1) - 1 = n
    BY <2>2
  <2>4. isUnion = "NotInUnion" => LeadAt(struct, i - 1) # "switch"
    BY <2>1, DecidedLead
  <2>5. /\ LeadAt(struct, i - 1) # "-" /\ AllSkipped(struct, n)
        /\ FieldIn(struct, i - 1, "Maybe").ok /\ FieldIn(struct, i - 1, "Maybe").tag = tag
    BY <2>1, <2>3 DEF Decided
  <2> HIDE DEF n
  <2>6. /\ LeadAt(struct, n + 1) # "-" /\ (isUnion = "NotInUnion" => LeadAt(struct, n + 1) # "switch")
        /\ FieldIn(struct, n + 1, "Maybe").ok /\ FieldIn(struct, n + 1, "Maybe").tag = tag
    BY <2>3, <2>4, <2>5
  <2> QED
    BY <2>1, <2>2, <2>3, <2>5, <2>6 DEF n
<1> DEFINE n == i - 2
           p == FieldIn(struct, n + 1, "Maybe")
<1>5. CASE isUnion = "NotInUnion"
  <2> DEFINE key == makeField(struct[i - 1], tag)
  <2>1. phase' = "struct" /\ keys' = <<key>>
    BY <1>5 DEF Settle
  <2>2. /\ n \in Nat /\ n + 1 = i - 1 /\ n + 1 \in 1..Len(struct)
        /\ LeadAt(struct, n + 1) # "-" /\ AllSkipped(struct, n)
        /\ p.ok /\ p.tag = tag /\ IsTagBytes(tag) /\ LeadAt(struct, n + 1) # "switch"
    BY <1>4, <1>5
  <2>3. key \in Types \X KeyBytes /\ key = <<struct[n + 1].type, p.tag>>
    BY <2>2, KeyFacts DEF makeField, ByteString
  <2> HIDE DEF n, p, key
  <2>4. /\ Rank(struct, n) = 0 /\ StructFollows(struct, n, <<>>)
        /\ ContextOf(struct, Rank(struct, n) + 1) = "Maybe"
    BY <2>2, NothingRead
  <2>5. p = FieldIn(struct, n + 1, ContextOf(struct, Rank(struct, n) + 1))
    BY <2>4 DEF p
  <2>6. <<>> \in Seq(Types \X KeyBytes) /\ Append(<<>>, key) = <<key>>
    BY AppendProperties
  <2>7. StructFollows(struct, n + 1, <<key>>)
    BY <2>2, <2>3, <2>4, <2>5, <2>6, StructGrows
  <2>8. Rank(struct, n + 1) # 0
    BY <2>2, FieldAt
  <2>9. FollowsInv'
    BY <1>1, <1>5, <2>1, <2>2, <2>7, <2>8 DEF FollowsInv
  <2>10. ReturnedInv'
    BY <2>1 DEF ReturnedInv
  <2> QED
    BY <2>9, <2>10 DEF BuildInv
<1>6. CASE isUnion = "InUnion"
  <2> DEFINE key == makeField(struct[i - 1], NextTag(tag))
             t == struct[n + 1].type
  <2>1. /\ n \in Nat /\ n + 1 = i - 1 /\ n + 1 \in 1..Len(struct) /\ AllSkipped(struct, n)
        /\ p.ok /\ p.tag = tag
    BY <1>4, <1>6
  <2>2. LeadAt(struct, n + 1) = "switch" /\ Kind(tag) = KindByte.UnionSwitch
    BY <1>1, <1>6, <2>1 DEF IInv, DecidingInv
  <2>3. key = <<t, NextTag(p.tag)>>
    BY <2>1 DEF makeField, ByteString
  <2> HIDE DEF n, p
  <2>4. /\ KindOf(t) \in {"int32", "uint32", "bool"} =>
             UnionFollows(struct, n + 1, << <<t, NextTag(p.tag)>> >>, <<>>, 0)
        /\ KindOf(t) \notin {"int32", "uint32", "bool"} =>
             /\ Codecs!codecOfFields(Fs(struct)).codec = "panic"
             /\ Codecs!codecOfFields(Fs(struct)).elems = ReadKeys(<<>>)
    BY <2>1, <2>2, UnionBegins DEF p
  <2>5. CASE KindOf(t) \notin {"int32", "uint32", "bool"}
    <3>1. phase' = "done" /\ codec' = "panic" /\ keys' = keys
      BY <1>6, <2>1, <2>2, <2>5 DEF Settle, Return
    <3>2. Built(struct, "panic", keys, cases, defaultCase)
      BY <1>2, <2>4, <2>5 DEF Built
    <3>3. ReturnedInv' /\ FollowsInv'
      BY <1>1, <3>1, <3>2 DEF ReturnedInv, FollowsInv
    <3> QED
      BY <3>3 DEF BuildInv
  <2>6. CASE KindOf(t) \in {"int32", "uint32", "bool"}
    <3>1. phase' = "union" /\ keys' = <<key>>
      BY <1>6, <2>1, <2>2, <2>6 DEF Settle
    <3> HIDE DEF key, t
    <3>2. UnionFollows(struct, n + 1, keys', cases, defaultCase)
      BY <1>2, <2>3, <2>4, <2>6, <3>1
    <3>3. i' - 1 = n + 1
      BY <1>1, <2>1
    <3>4. FollowsInv'
      BY <1>1, <1>6, <3>1, <3>2, <3>3 DEF FollowsInv
    <3>5. ReturnedInv'
      BY <3>1 DEF ReturnedInv
    <3> QED
      BY <3>4, <3>5 DEF BuildInv
  <2> QED
    BY <2>5, <2>6
<1>7. isUnion \in Contexts
  BY DEF IInv, TypeInv
<1> QED
  BY <1>3, <1>5, <1>6, <1>7 DEF Contexts

(* A field of a struct.                                                     *)
LEMMA StructFieldBuild == IInv /\ BuildInv /\ StructField => BuildInv'
<1> SUFFICES ASSUME IInv, BuildInv, StructField PROVE BuildInv'
  OBVIOUS
<1> USE StructNow
<1> DEFINE key == makeField(struct[i], Field.tag)
<1>1. /\ Reading /\ phase = "struct" /\ Field.ok /\ ~Skipped(Field)
      /\ i' = i + 1 /\ isUnion' = Field.isUnion /\ keys' = Append(keys, key)
      /\ struct' = struct /\ phase' = phase
  BY DEF StructField
<1>2. /\ i \in 1..Len(struct) /\ i \in Nat /\ i - 1 \in Nat /\ (i + 1) - 1 = i /\ (i - 1) + 1 = i
      /\ struct[i].type \in Types
      /\ FieldSeen(Field, LeadAt(struct, i), struct[i].text)
  BY <1>1, FieldNow DEF IInv
<1> DEFINE n == i - 1
<1>3. n \in Nat /\ n + 1 = i /\ i' - 1 = n + 1
  BY <1>1, <1>2
<1>4. isUnion = "NotInUnion" /\ Rank(struct, n) # 0 /\ StructFollows(struct, n, keys)
  BY <1>1 DEF BuildInv, FollowsInv
<1>5. IsTagBytes(Field.tag) /\ LeadAt(struct, i) # "-" /\ Field.isUnion = "NotInUnion"
  BY <1>1, <1>2, <1>4 DEF FieldSeen
<1>6. key \in Types \X KeyBytes
  BY <1>2, <1>5, KeyFacts
<1>7. key = <<struct[i].type, Field.tag>>
  BY DEF makeField, ByteString
<1>8. Field = FieldIn(struct, i, "NotInUnion")
  BY <1>4 DEF Field, FieldIn
<1> HIDE DEF n, key
<1>9. Field = FieldIn(struct, n + 1, ContextOf(struct, Rank(struct, n) + 1))
  BY <1>3, <1>4, <1>8, StructContext
<1> DEFINE p == Field
<1>10. p.ok /\ p = FieldIn(struct, n + 1, ContextOf(struct, Rank(struct, n) + 1))
       /\ key = <<struct[n + 1].type, p.tag>> /\ LeadAt(struct, n + 1) # "-" /\ n + 1 \in 1..Len(struct)
  BY <1>1, <1>2, <1>3, <1>5, <1>7, <1>9
<1>11. p.isUnion = "NotInUnion"
  BY <1>5
<1>12. isUnion' = "NotInUnion"
  BY <1>1, <1>11
<1> HIDE DEF p
<1>13. StructFollows(struct, n + 1, Append(keys, key))
  BY <1>3, <1>4, <1>6, <1>10, StructGrows
<1>14. Rank(struct, n + 1) # 0
  BY <1>3, <1>10, FieldAt
<1>15. FollowsInv'
  BY <1>1, <1>3, <1>12, <1>13, <1>14 DEF FollowsInv
<1>16. ReturnedInv'
  BY <1>1 DEF ReturnedInv
<1> QED
  BY <1>15, <1>16 DEF BuildInv

(* An arm of a union: it is entered, or it repeats a label or the default.  *)
LEMMA UnionArmBuild == IInv /\ BuildInv /\ UnionArm => BuildInv'
<1> SUFFICES ASSUME IInv, BuildInv, UnionArm PROVE BuildInv'
  OBVIOUS
<1> USE StructNow
<1> DEFINE labels == LabelsOf(Field.tag)
           isDefault == Kind(Field.tag) = KindByte.UnionDefault
           key == makeField(struct[i], NextTag(Field.tag))
<1>1. /\ Reading /\ phase = "union" /\ Field.ok /\ ~Skipped(Field)
      /\ i' = i + 1 /\ isUnion' = Field.isUnion /\ keys' = Append(keys, key)
      /\ struct' = struct
  BY DEF UnionArm
<1>2. /\ i \in 1..Len(struct) /\ i \in Nat /\ i - 1 \in Nat /\ (i + 1) - 1 = i /\ (i - 1) + 1 = i
      /\ struct[i].type \in Types
      /\ FieldSeen(Field, LeadAt(struct, i), struct[i].text)
  BY <1>1, FieldNow DEF IInv
<1> DEFINE n == i - 1
<1>3. n \in Nat /\ n + 1 = i /\ i' - 1 = n + 1
  BY <1>1, <1>2
<1>4. isUnion = "InUnion" /\ UnionFollows(struct, n, keys, cases, defaultCase)
  BY <1>1 DEF BuildInv, FollowsInv
<1>5. /\ IsTagBytes(Field.tag) /\ Field.isUnion = "InUnion" /\ LeadAt(struct, i) \in {"cases", "default"}
      /\ labels = ArmLabels(struct[i].text) /\ (isDefault <=> LeadAt(struct, i) = "default")
  BY <1>1, <1>2, <1>4 DEF FieldSeen
<1>6. key \in Types \X KeyBytes
  BY <1>2, <1>5, KeyFacts
<1>7. key = <<struct[i].type, NextTag(Field.tag)>>
  BY DEF makeField, ByteString
<1> DEFINE p == FieldIn(struct, n + 1, "InUnion")
<1>8. Field = p
  BY <1>3, <1>4 DEF Field, FieldIn
<1> HIDE DEF n, key, p, labels
<1>9. /\ n + 1 \in 1..Len(struct) /\ LeadAt(struct, n + 1) \in {"cases", "default"} /\ p.ok
      /\ key = <<struct[n + 1].type, NextTag(p.tag)>> /\ labels = ArmLabels(struct[n + 1].text)
      /\ (isDefault <=> LeadAt(struct, n + 1) = "default")
  BY <1>1, <1>2, <1>3, <1>5, <1>7, <1>8
<1>10. SomeSeen(labels) <=> Seen(cases, labels)
  BY DEF SomeSeen, Seen
<1>11. CASE SomeSeen(labels) \/ (isDefault /\ defaultCase # 0)
  <2>1. phase' = "done" /\ codec' = "errorCodec" /\ UNCHANGED <<cases, defaultCase>>
    BY <1>11 DEF UnionArm, Return, labels
  <2>2. Seen(cases, labels) \/ (LeadAt(struct, n + 1) = "default" /\ defaultCase # 0)
    BY <1>9, <1>10, <1>11
  <2> HIDE DEF isDefault
  <2>3. LET c == Codecs!codecOfFields(Fs(struct))
        IN  c.codec = "errorCodec" /\ c.elems = ReadKeys(Append(keys, key))
    <3> DEFINE again == Seen(cases, labels) \/ (LeadAt(struct, n + 1) = "default" /\ defaultCase # 0)
               ks2 == Append(keys, key)
    <3>1. p = FieldIn(struct, n + 1, "InUnion") /\ keys \in Seq(Types \X KeyBytes) /\ struct \in Struct
      BY DEF p
    <3>2. again => /\ Codecs!codecOfFields(Fs(struct)).codec = "errorCodec"
                   /\ Codecs!codecOfFields(Fs(struct)).elems = ReadKeys(ks2)
      BY <1>3, <1>4, <1>6, <1>9, <3>1, UnionRepeats
    <3> QED
      BY <2>2, <3>2
  <2>4. Built(struct, "errorCodec", keys', cases', defaultCase')
    BY <1>1, <2>3 DEF Built
  <2>5. ReturnedInv' /\ FollowsInv'
    BY <1>1, <2>1, <2>4 DEF ReturnedInv, FollowsInv
  <2> QED
    BY <2>5 DEF BuildInv
<1>12. CASE ~(SomeSeen(labels) \/ (isDefault /\ defaultCase # 0))
  <2>1. /\ cases' = [v \in DOMAIN cases \cup Range(labels) |-> IF v \in DOMAIN cases THEN cases[v] ELSE i]
        /\ defaultCase' = IF isDefault THEN i ELSE defaultCase
        /\ UNCHANGED <<phase, codec>>
    BY <1>12 DEF UnionArm, labels
  <2>2. /\ cases' = [v \in DOMAIN cases \cup Range(labels) |-> IF v \in DOMAIN cases THEN cases[v] ELSE n + 1]
        /\ defaultCase' = IF LeadAt(struct, n + 1) = "default" THEN n + 1 ELSE defaultCase
    BY <1>3, <1>9, <2>1
  <2>3. ~Seen(cases, labels) /\ (LeadAt(struct, n + 1) = "default" => defaultCase = 0)
    BY <1>9, <1>10, <1>12
  <2> HIDE DEF isDefault
  <2>4. UnionFollows(struct, n + 1, Append(keys, key), cases', defaultCase')
    BY <1>3, <1>4, <1>6, <1>9, <2>2, <2>3, UnionGrows, ZenonT(60) DEF p
  <2>5. isUnion' = "InUnion"
    BY <1>1, <1>5
  <2>6. FollowsInv'
    BY <1>1, <1>3, <2>1, <2>4, <2>5 DEF FollowsInv
  <2>7. ReturnedInv'
    BY <1>1, <2>1 DEF ReturnedInv
  <2> QED
    BY <2>6, <2>7 DEF BuildInv
<1> QED
  BY <1>11, <1>12

(* The end of the fields.                                                   *)
LEMMA FinishBuild == IInv /\ BuildInv /\ Finish => BuildInv'
<1> SUFFICES ASSUME IInv, BuildInv, Finish PROVE BuildInv'
  OBVIOUS
<1> USE StructNow
<1>1. /\ phase \in {"struct", "union"} /\ i > Len(struct) /\ phase' = "done"
      /\ codec' = IF phase = "struct" THEN "structCodec" ELSE "unionCodec"
      /\ struct' = struct /\ keys' = keys /\ cases' = cases /\ defaultCase' = defaultCase
  BY DEF Finish, Return
<1> DEFINE n == i - 1
<1>2. n = Len(struct) /\ n \in 0..Len(struct)
  BY <1>1
<1>3. /\ phase = "struct" => StructFollows(struct, n, keys)
      /\ phase = "union" => UnionFollows(struct, n, keys, cases, defaultCase)
  BY DEF BuildInv, FollowsInv
<1> HIDE DEF n
<1>4. CASE phase = "struct"
  <2>1. StructStops(struct, n)
    BY <1>2 DEF StructStops
  <2>2. Built(struct, "structCodec", keys, cases, defaultCase)
    BY <1>2, <1>3, <1>4, <2>1, StructEnds DEF Built
  <2> QED
    BY <1>1, <1>4, <2>2 DEF BuildInv, ReturnedInv, FollowsInv
<1>5. CASE phase = "union"
  <2>1. Built(struct, "unionCodec", keys, cases, defaultCase)
    BY <1>2, <1>3, <1>5, UnionEnds DEF Built
  <2> QED
    BY <1>1, <1>5, <2>1 DEF BuildInv, ReturnedInv, FollowsInv
<1> QED
  BY <1>1, <1>4, <1>5

(* Every step of the loop.                                                  *)
LEMMA StepBuild == IInv /\ BuildInv /\ [Next]_vars => BuildInv'
<1> SUFFICES ASSUME IInv, BuildInv, [Next]_vars PROVE BuildInv'
  OBVIOUS
<1>1. CASE UNCHANGED vars
  BY <1>1 DEF vars, BuildInv, FollowsInv, ReturnedInv
<1>2. CASE Next
  BY <1>2, ParseErrorBuild, SkipFieldBuild, DecidingFieldBuild, SettleBuild, StructFieldBuild,
     UnionArmBuild, FinishBuild DEF Next
<1> QED
  BY <1>1, <1>2

(* The loop never loses what it has read: at every field the keys, the      *)
(* cases and the context are those of the fields before it.                 *)
THEOREM LoopFollows == Spec => []BuildInv
<1>1. Init => BuildInv
  BY InitBuild
<1>2. IInv /\ BuildInv /\ [Next]_vars => BuildInv'
  BY StepBuild
<1> QED
  BY <1>1, <1>2, Invariance, PTL DEF Spec

-----------------------------------------------------------------------------
(* Whatever the struct, the loop of makeStructCodec returns what TypeCodecs *)
(* says of all its fields at once: the same codec, with the same codecs of  *)
(* the fields and the same cases, or an error or a panic at the same field. *)
THEOREM LoopBuildsTheCodec == Spec => []BuildsAsTypeCodecsSays
<1>1. BuildInv => BuildsAsTypeCodecsSays
  <2> SUFFICES ASSUME phase = "done", Built(struct, codec, keys, cases, defaultCase)
               PROVE  BuildsAsTypeCodecsSays
    BY DEF BuildInv, ReturnedInv, BuildsAsTypeCodecsSays
  <2> DEFINE c == Codecs!codecOfFields(EntriesInContext(struct))
  <2>1. /\ c.codec = codec /\ c.elems = [k \in DOMAIN keys |-> <<keys[k][1], Entries(keys[k][2])>>]
        /\ codec = "unionCodec" =>
             /\ c.cases = [v \in DOMAIN cases |-> Rank(struct, cases[v])]
             /\ c.default = IF defaultCase = 0 THEN 0 ELSE Rank(struct, defaultCase)
    BY DEF Built, Fs, ReadKeys
  <2> HIDE DEF c
  <2>2. /\ codec = c.codec
        /\ [k \in DOMAIN keys |-> <<keys[k][1], Entries(keys[k][2])>>] = c.elems
        /\ codec = "unionCodec" =>
             /\ [v \in DOMAIN cases |-> Rank(struct, cases[v])] = c.cases
             /\ (IF defaultCase = 0 THEN 0 ELSE Rank(struct, defaultCase)) = c.default
    BY <2>1
  <2> QED
    BY <2>2 DEF BuildsAsTypeCodecsSays, c
<1> QED
  BY <1>1, LoopFollows, PTL

-----------------------------------------------------------------------------
(* The layers of a type do not depend on how many are asked for, and those  *)
(* of its elements are its own without the first.                           *)
LEMMA LayersPrefix ==
  ASSUME NEW t \in Types, NEW m \in Nat, NEW n \in Nat, m \leq n
  PROVE  \A k \in 1..m : LayersOf(t, n)[k] = LayersOf(t, m)[k]
<1> DEFINE S == {d \in Nat : \A k \in 1..m : LayersOf(t, m + d)[k] = LayersOf(t, m)[k]}
<1>1. 0 \in S
  <2>1. m + 0 = m
    OBVIOUS
  <2> QED
    BY <2>1
<1>2. ASSUME NEW d \in Nat, d \in S PROVE d + 1 \in S
  <2>1. m + d \in Nat /\ m + (d + 1) = (m + d) + 1 /\ \A k \in 1..m : k \in 1..(m + d)
    OBVIOUS
  <2>2. \A k \in 1..(m + d) : LayersOf(t, (m + d) + 1)[k] = LayersOf(t, m + d)[k]
    BY <2>1, LayersAgree
  <2>3. \A k \in 1..m : LayersOf(t, m + (d + 1))[k] = LayersOf(t, m)[k]
    BY <1>2, <2>1, <2>2
  <2> QED
    BY <2>3
<1> HIDE DEF S
<1>3. Nat \subseteq S
  BY <1>1, <1>2, InductionOnNat
<1>4. n - m \in Nat /\ m + (n - m) = n
  OBVIOUS
<1>5. n - m \in S
  BY <1>3, <1>4
<1> QED
  BY <1>4, <1>5 DEF S

(* Without the first layer.                                                 *)
LEMMA LayersShift ==
  ASSUME NEW t \in Types, Descends(t), NEW n \in Nat
  PROVE  \A k \in 1..n : LayersOf(TypeDef[t].elem, n)[k] = LayersOf(t, n + 1)[k + 1]
<1> DEFINE e == TypeDef[t].elem
           L == LayersOf(e, n)
           M == LayersOf(t, n + 1)
           Below(x) == IF x # "none" /\ Descends(x) THEN TypeDef[x].elem ELSE "none"
           S == {k \in Nat : k + 1 \in 1..n => L[k + 1] = M[k + 2]}
<1>1. e \in Types /\ t # "none"
  BY ElemFacts, StructAssumption DEF Types
<1>2. /\ n # 0 => L[1] = e
      /\ \A k \in 1..(n - 1) : L[k + 1] = Below(L[k])
  BY <1>1, LayersFacts
<1>3. /\ M[1] = t
      /\ \A k \in 1..n : M[k + 1] = Below(M[k])
  <2>1. n + 1 \in Nat /\ n + 1 # 0 /\ (n + 1) - 1 = n
    OBVIOUS
  <2>2. /\ n + 1 # 0 => M[1] = t
        /\ \A k \in 1..((n + 1) - 1) : M[k + 1] = Below(M[k])
    BY <2>1, LayersFacts
  <2> HIDE DEF M, Below
  <2> QED
    BY <2>1, <2>2
<1>4. Below(t) = e
  BY <1>1
<1> HIDE DEF L, M, Below, e
<1>5. 0 \in S
  <2> SUFFICES ASSUME 0 + 1 \in 1..n PROVE L[0 + 1] = M[0 + 2]
    OBVIOUS
  <2>1. 1 \in 1..n /\ 1 + 1 = 2 /\ n # 0
    OBVIOUS
  <2>2. M[1 + 1] = Below(M[1])
    BY <1>3, <2>1
  <2> QED
    BY <1>2, <1>3, <1>4, <2>1, <2>2
<1>6. ASSUME NEW k \in Nat, k \in S PROVE k + 1 \in S
  <2> SUFFICES ASSUME (k + 1) + 1 \in 1..n PROVE L[(k + 1) + 1] = M[(k + 1) + 2]
    OBVIOUS
  <2>1. k + 1 \in 1..n /\ k + 1 \in 1..(n - 1) /\ k + 2 \in 1..n /\ (k + 1) + 2 = (k + 2) + 1
    OBVIOUS
  <2>2. L[k + 1] = M[k + 2]
    BY <1>6, <2>1
  <2> QED
    BY <1>2, <1>3, <2>1, <2>2
<1>7. Nat \subseteq S
  <2> HIDE DEF S
  <2> QED
    BY <1>5, <1>6, InductionOnNat
<1>8. ASSUME NEW k \in 1..n PROVE L[k] = M[k + 1]
  <2>1. k - 1 \in Nat /\ (k - 1) + 1 = k /\ (k - 1) + 2 = k + 1
    OBVIOUS
  <2>2. k - 1 \in S
    BY <1>7, <2>1
  <2> QED
    BY <2>1, <2>2
<1> QED
  BY <1>8 DEF L, M, e

(* An option that fits is an entry, and names no part of a union.           *)
LEMMA OptionIsEntry ==
  ASSUME NEW t, NEW x, OptionFits(t, x)
  PROVE  x \in TagEntry /\ x.kind \in PartKinds /\ t # "none"
<1>1. /\ x = [kind |-> x.kind, values |-> x.values] /\ AreWords(x.values)
      /\ Len(x.values) = (IF x.kind \in Single THEN 1 ELSE 0)
  BY DEF OptionFits, Codecs!EntryWith, Single
<1>2. x.kind \in PartKinds /\ t # "none"
  BY DEF OptionFits, PartKinds
<1>3. x.values \in Seq(Number) /\ Len(x.values) \in Number
  BY <1>1, WordsOf
<1>4. x.kind \in KindNames /\ x.kind # "UnionCases"
  BY <1>2, KindFacts DEF PartKinds
<1>5. x.kind \notin Single => x.values = <<>>
  BY <1>1, <1>3, EmptySeq
<1>6. IsWord(Len(x.values))
  BY <1>3, WordsAreNumbers
<1>7. x \in [kind : KindNames, values : Seq(Number)]
  BY <1>1, <1>3, <1>4
<1> QED
  BY <1>1, <1>2, <1>5, <1>6, <1>7 DEF TagEntry

(* What a legal key is, in the terms of the lemmas on tags.                 *)
Fitting(t, e) == \A n \in 1..Len(e) : OptionFits(LayersOf(t, Len(e))[n], e[n])
LEMMA LegalMeans ==
  ASSUME NEW t, NEW e
  PROVE  IsLegal(<<t, e>>) <=> t \in Types /\ e \in Seq(TagEntry) /\ IsTrimmed(e) /\ Fitting(t, e)
<1>1. IsLegal(<<t, e>>) <=>
        /\ t \in Types /\ e \in Seq(Range(e)) /\ Codecs!Trimmed(e) = e
        /\ \A n \in DOMAIN e : OptionFits(LayersOf(t, Len(e))[n], e[n])
  BY DEF IsLegal, Types
<1>2. ASSUME e \in Seq(Range(e)), \A n \in DOMAIN e : OptionFits(LayersOf(t, Len(e))[n], e[n])
      PROVE  e \in Seq(TagEntry) /\ Fitting(t, e)
  <2> DEFINE m == Len(e)
  <2>1. m \in Nat /\ e \in [1..m -> Range(e)] /\ DOMAIN e = 1..m
    BY <1>2, LenProperties
  <2>2. \A n \in 1..m : e[n] \in TagEntry
    BY <1>2, <2>1, OptionIsEntry
  <2>3. Fitting(t, e)
    BY <1>2, <2>1 DEF Fitting
  <2> HIDE DEF m
  <2>4. e \in [1..m -> TagEntry]
    BY <2>1, <2>2
  <2>5. e \in Seq(TagEntry)
    BY <2>1, <2>4
  <2> QED
    BY <2>3, <2>5
<1>3. ASSUME e \in Seq(TagEntry), Fitting(t, e)
      PROVE  e \in Seq(Range(e)) /\ \A n \in DOMAIN e : OptionFits(LayersOf(t, Len(e))[n], e[n])
  <2> DEFINE m == Len(e)
  <2>1. m \in Nat /\ DOMAIN e = 1..m /\ e \in [1..m -> TagEntry]
    BY <1>3, LenProperties
  <2>2. \A n \in DOMAIN e : OptionFits(LayersOf(t, Len(e))[n], e[n])
    BY <1>3, <2>1 DEF Fitting
  <2> HIDE DEF m
  <2>3. e \in [1..m -> Range(e)]
    BY <2>1 DEF Range
  <2>4. e \in Seq(Range(e))
    BY <2>1, <2>3
  <2> QED
    BY <2>2, <2>4
<1>4. e \in Seq(TagEntry) => (Codecs!Trimmed(e) = e <=> IsTrimmed(e))
  BY TrimmedEntries DEF IsTrimmed
<1> QED
  BY <1>1, <1>2, <1>3, <1>4

(* A tag that begins with options that fit is the tag of a legal key.       *)
LEMMA PrefixLegal ==
  ASSUME NEW t \in Types, NEW es \in Seq(TagEntry), Fitting(t, es),
         NEW b, IsTrimmed(b), Len(b) \leq Len(es), \A k \in 1..Len(b) : b[k] = es[k]
  PROVE  IsLegal(<<t, b>>)
<1> DEFINE m == Len(b)
           n == Len(es)
<1>1. b \in Seq(TagEntry) /\ m \in Nat /\ n \in Nat /\ m \leq n /\ \A k \in 1..m : b[k] = es[k]
  BY LenProperties DEF IsTrimmed
<1>2. \A k \in 1..n : OptionFits(LayersOf(t, n)[k], es[k])
  BY DEF Fitting
<1> HIDE DEF m, n
<1>3. \A k \in 1..m : k \in 1..n
  BY <1>1
<1>4. \A k \in 1..m : LayersOf(t, n)[k] = LayersOf(t, m)[k]
  BY <1>1, LayersPrefix
<1>5. \A k \in 1..m : OptionFits(LayersOf(t, m)[k], b[k])
  BY <1>1, <1>2, <1>3, <1>4
<1>6. Fitting(t, b)
  BY <1>5 DEF Fitting, m
<1> QED
  BY <1>1, <1>6, LegalMeans

(* So is that tag without the Noops at its end.                             *)
LEMMA TrimLegal ==
  ASSUME NEW t \in Types, NEW es \in Seq(TagEntry), Fitting(t, es)
  PROVE  IsLegal(<<t, Trim(es)>>)
<1> DEFINE b == Trim(es)
           m == Len(b)
           n == Len(es)
<1>1. m \in 0..n /\ IsTrimmed(b) /\ \A k \in 1..m : b[k] = es[k]
  BY TrimFacts, TrimTwice
<1>2. m \leq n
  <2>1. n \in Nat
    BY LenProperties
  <2> HIDE DEF b, m, n
  <2> QED
    BY <1>1, <2>1
<1> QED
  BY <1>1, <1>2, PrefixLegal

(* What a codec hands on to that of the elements is legal again.            *)
LEMMA NextLegal ==
  ASSUME NEW t, NEW e, IsLegal(<<t, e>>), Descends(t)
  PROVE  IsLegal(<<TypeDef[t].elem, Codecs!TagNext(e)>>)
<1> DEFINE r == Codecs!TagNext(e)
           x == TypeDef[t].elem
<1>1. t \in Types /\ e \in Seq(TagEntry) /\ IsTrimmed(e) /\ Fitting(t, e)
  BY LegalMeans
<1>2. x \in Types
  BY <1>1, ElemFacts
<1>3. CASE e = <<>>
  <2>1. r = <<>> /\ Len(<<>>) = 0
    BY <1>3 DEF Codecs!TagNext
  <2>2. r = e
    BY <1>3, <2>1
  <2> HIDE DEF r
  <2>3. Fitting(x, r)
    <3>1. \A n : n \notin 1..0
      OBVIOUS
    <3> QED
      BY <2>1, <3>1 DEF Fitting
  <2> QED
    BY <1>1, <1>2, <2>2, <2>3, LegalMeans DEF r
<1>4. CASE e # <<>>
  <2> DEFINE n == Len(r)
  <2>1. r = Tail(e)
    BY <1>4 DEF Codecs!TagNext
  <2>2. /\ r \in Seq(TagEntry) /\ n \in Nat /\ Len(e) = n + 1
        /\ \A k \in 1..n : r[k] = e[k + 1]
    <3>1. Len(e) \in Nat /\ Len(Tail(e)) = Len(e) - 1 /\ Tail(e) \in Seq(TagEntry)
          /\ Len(Tail(e)) \in Nat /\ \A k \in 1..Len(Tail(e)) : Tail(e)[k] = e[k + 1]
      BY <1>1, <1>4, HeadTailProperties, LenProperties
    <3> QED
      BY <2>1, <3>1
  <2>3. IsTrimmed(r)
    BY <1>1, <1>4, <2>1, TailTrimmed
  <2> HIDE DEF n, r
  <2>4. \A k \in 1..n : LayersOf(x, n)[k] = LayersOf(t, n + 1)[k + 1]
    BY <1>1, <2>2, LayersShift DEF x
  <2>5. \A k \in 1..(n + 1) : OptionFits(LayersOf(t, n + 1)[k], e[k])
    BY <1>1, <2>2 DEF Fitting
  <2> HIDE DEF x
  <2>6. ASSUME NEW k \in 1..n PROVE OptionFits(LayersOf(x, n)[k], r[k])
    <3>1. k + 1 \in 1..(n + 1)
      BY <2>2
    <3>2. OptionFits(LayersOf(t, n + 1)[k + 1], e[k + 1])
      BY <2>5, <3>1
    <3> QED
      BY <2>2, <2>4, <3>2
  <2>7. Fitting(x, r)
    BY <2>6 DEF Fitting, n
  <2> QED
    BY <1>2, <2>2, <2>3, <2>7, LegalMeans DEF r, x
<1> QED
  BY <1>3, <1>4

(* And so is what stripping `opt` leaves of a key.                          *)
LEMMA StripLegal ==
  ASSUME NEW t, NEW e, IsLegal(<<t, e>>), e # <<>>
  PROVE  IsLegal(<<t, Codecs!Trimmed(<<Codecs!Entry("Noop")>> \o Codecs!TagNext(e))>>)
<1> DEFINE r == Tail(e)
           y == <<Noop>>
           z == y \o r
           n == Len(e)
<1>1. t \in Types /\ e \in Seq(TagEntry) /\ Fitting(t, e)
  BY LegalMeans
<1>2. Codecs!TagNext(e) = r
  BY DEF Codecs!TagNext
<1>3. /\ r \in Seq(TagEntry) /\ n \in Nat /\ n # 0 /\ Len(r) = n - 1 /\ Len(r) \in Nat
      /\ \A k \in 1..Len(r) : r[k] = e[k + 1]
  BY <1>1, HeadTailProperties, LenProperties, EmptySeq
<1>4. y \in Seq(TagEntry) /\ Len(y) = 1 /\ y[1] = Noop
  BY NoopFacts
<1> HIDE DEF r, y
<1>5. /\ z \in Seq(TagEntry) /\ Len(z) = 1 + (n - 1)
      /\ \A k \in 1..(1 + Len(r)) : z[k] = IF k \leq 1 THEN y[k] ELSE r[k - 1]
  <2>1. /\ z \in Seq(TagEntry) /\ Len(z) = Len(y) + Len(r)
        /\ \A k \in 1..(Len(y) + Len(r)) : z[k] = IF k \leq Len(y) THEN y[k] ELSE r[k - Len(y)]
    <3>1. y \in Seq(TagEntry) /\ r \in Seq(TagEntry)
      BY <1>3, <1>4
    <3> QED
      BY <3>1, ConcatProperties
  <2> HIDE DEF z
  <2> QED
    BY <1>3, <1>4, <2>1
<1> HIDE DEF n
<1>6. Len(z) = n
  BY <1>3, <1>5
<1> HIDE DEF z
<1>7. \A k \in 1..n : OptionFits(LayersOf(t, n)[k], e[k])
  BY <1>1 DEF Fitting, n
<1>8. ASSUME NEW k \in 1..n PROVE OptionFits(LayersOf(t, n)[k], z[k])
  <2>1. CASE k = 1
    <3>1. 1 \in 1..(1 + Len(r)) /\ 1 \leq 1 /\ 1 \in 1..n
      BY <1>3
    <3>2. z[k] = Noop
      BY <1>4, <1>5, <2>1, <3>1
    <3>3. LayersOf(t, n)[k] # "none"
      BY <1>7, OptionIsEntry
    <3>4. Noop = [kind |-> "Noop", values |-> <<>>]
      BY DEF Noop, Codecs!Entry
    <3>5. /\ Noop.kind = "Noop" /\ Noop.values = <<>> /\ Noop = Codecs!EntryWith(Noop.kind, Noop.values)
      BY <3>4 DEF Codecs!EntryWith
    <3>6. AreWords(<<>>) /\ Len(<<>>) = 0
      <4>1. <<>> \in Seq(Range(<<>>)) /\ Len(<<>>) = 0 /\ \A v : v \notin Range(<<>>)
        BY DEF Range
      <4> QED
        BY <4>1, WordsAreNumbers DEF AreWords
    <3> QED
      BY <3>2, <3>3, <3>5, <3>6 DEF OptionFits
  <2>2. CASE k # 1
    <3>1. k \in 1..(1 + Len(r)) /\ ~(k \leq 1) /\ k - 1 \in 1..Len(r) /\ (k - 1) + 1 = k
      BY <1>3, <2>2
    <3>2. z[k] = e[k]
      BY <1>3, <1>5, <3>1
    <3> QED
      BY <1>7, <3>2
  <2> QED
    BY <2>1, <2>2
<1>9. Fitting(t, z)
  BY <1>6, <1>8 DEF Fitting
<1>10. IsLegal(<<t, Trim(z)>>) /\ Codecs!Trimmed(z) = Trim(z)
  BY <1>1, <1>5, <1>9, TrimLegal, TrimmedEntries
<1>11. z = <<Codecs!Entry("Noop")>> \o Codecs!TagNext(e)
  BY <1>2 DEF z, y, Noop
<1> QED
  BY <1>10, <1>11

-----------------------------------------------------------------------------
(* What the first entry of a legal tag says, and that there is no second    *)
(* where the type has no second layer.                                      *)
LEMMA FirstOption ==
  ASSUME NEW t, NEW e, IsLegal(<<t, e>>)
  PROVE  LET k == Codecs!TagKind(e)
         IN  /\ t \in Types /\ k \in PartKinds /\ (e = <<>> => k = "Noop")
             /\ k = "Opt" => canBeOpt(t)
             /\ k = "Opaque" => IsByte(t)
             /\ k \in {"Len", "MaxLen"} => Limitable(t)
             /\ ~Descends(t) => Codecs!TagNext(e) = <<>> /\ (e # <<>> => k # "Noop")
<1> DEFINE k == Codecs!TagKind(e)
           n == Len(e)
           L == LayersOf(t, n)
<1>1. t \in Types /\ e \in Seq(TagEntry) /\ IsTrimmed(e) /\ Fitting(t, e)
  BY LegalMeans
<1>2. CASE e = <<>>
  <2>1. k = "Noop" /\ Codecs!TagNext(e) = <<>>
    BY <1>2 DEF Codecs!TagKind, Codecs!TagNext
  <2> QED
    BY <1>1, <1>2, <2>1 DEF PartKinds
<1>3. CASE e # <<>>
  <2>1. n \in Nat /\ n # 0 /\ Head(e) = e[1]
    BY <1>1, <1>3, LenProperties, EmptySeq, HeadFacts
  <2>2. L[1] = t /\ \A j \in 1..(n - 1) : L[j + 1] = IF L[j] # "none" /\ Descends(L[j])
                                                    THEN TypeDef[L[j]].elem ELSE "none"
    BY <1>1, <2>1, LayersFacts
  <2>3. \A j \in 1..n : OptionFits(L[j], e[j])
    BY <1>1 DEF Fitting
  <2>4. k = e[1].kind /\ Codecs!TagNext(e) = Tail(e)
    BY <1>3, <2>1 DEF Codecs!TagKind, Codecs!TagNext
  <2>5. Len(Tail(e)) = n - 1 /\ Tail(e) \in Seq(TagEntry) /\ e[n].kind # "Noop"
    BY <1>1, <1>3, HeadTailProperties, TrimTwice
  <2> HIDE DEF n, L, k
  <2>6. 1 \in 1..n
    BY <2>1
  <2>7. OptionFits(t, e[1])
    BY <2>2, <2>3, <2>6
  <2>8. ASSUME ~Descends(t) PROVE n = 1
    <3> SUFFICES ASSUME n # 1 PROVE FALSE
      OBVIOUS
    <3>1. 1 \in 1..(n - 1) /\ 2 \in 1..n /\ 1 + 1 = 2
      BY <2>1
    <3>2. L[2] = "none"
      BY <2>2, <2>8, <3>1
    <3> QED
      BY <2>3, <3>1, <3>2, OptionIsEntry
  <2>9. ~Descends(t) => Tail(e) = <<>> /\ k # "Noop"
    BY <2>4, <2>5, <2>8, EmptySeq
  <2>10. k \in PartKinds /\ (k = "Opt" => canBeOpt(t)) /\ (k = "Opaque" => IsByte(t))
         /\ (k \in {"Len", "MaxLen"} => Limitable(t))
    BY <2>4, <2>7 DEF OptionFits, PartKinds
  <2> QED
    BY <1>1, <1>3, <2>4, <2>9, <2>10 DEF k
<1> QED
  BY <1>2, <1>3

(* A codec with parameters, part by part.                                   *)
LEMMA ParameterFields ==
  ASSUME NEW name, NEW ks, NEW x
  PROVE  /\ [Codecs!codecOf(name, ks) EXCEPT !.len = x].codec = name
         /\ [Codecs!codecOf(name, ks) EXCEPT !.len = x].elems = ks
         /\ Codecs!Limited(Codecs!codecOf(name, ks), x).codec = name
         /\ Codecs!Limited(Codecs!codecOf(name, ks), x).elems = ks
BY DEF Codecs!codecOf, Codecs!Limited

(* buildCodec on a legal key: an error just where the parser and it         *)
(* disagree, no panic, and what it looks up is legal again.                 *)
Agrees(k, c) ==
  /\ c.codec # "panic"
  /\ c.codec = "errorCodec" <=> Disagree(k)
  /\ \A n \in DOMAIN c.elems : IsLegal(c.elems[n])

(* With no lookup, or one, or two.                                          *)
LEMMA AgreesWith ==
  ASSUME NEW k, NEW c, NEW name, c.codec = name, NEW ks, c.elems = ks, name # "panic",
         name = "errorCodec" <=> Disagree(k)
  PROVE  /\ ks = <<>> => Agrees(k, c)
         /\ \A x : ks = <<x>> /\ IsLegal(x) => Agrees(k, c)
         /\ \A x, y : ks = <<x, y>> /\ IsLegal(x) /\ IsLegal(y) => Agrees(k, c)
<1>1. ks = <<>> => Agrees(k, c)
  <2>1. DOMAIN <<>> = {}
    OBVIOUS
  <2> QED
    BY <2>1 DEF Agrees
<1>2. ASSUME NEW x, ks = <<x>>, IsLegal(x) PROVE Agrees(k, c)
  <2>1. DOMAIN <<x>> = {1} /\ <<x>>[1] = x
    OBVIOUS
  <2>2. \A n \in DOMAIN c.elems : c.elems[n] = x
    BY <1>2, <2>1
  <2> QED
    BY <1>2, <2>2 DEF Agrees
<1>3. ASSUME NEW x, NEW y, ks = <<x, y>>, IsLegal(x), IsLegal(y) PROVE Agrees(k, c)
  <2>1. DOMAIN <<x, y>> = {1, 2} /\ <<x, y>>[1] = x /\ <<x, y>>[2] = y
    OBVIOUS
  <2>2. \A n \in DOMAIN c.elems : c.elems[n] = x \/ c.elems[n] = y
    BY <1>3, <2>1
  <2> QED
    BY <1>3, <2>2 DEF Agrees
<1> QED
  BY <1>1, <1>2, <1>3

(* Where the parser and buildCodec disagree, by the kind of the type.       *)
LEMMA DisagreeFacts ==
  ASSUME NEW t, NEW e
  PROVE  LET k == Codecs!TagKind(e)
         IN  /\ k = "Opt" => ~Disagree(<<t, e>>)
             /\ KindOf(t) \in {"ptr", "array", "map"} => ~Disagree(<<t, e>>)
             /\ KindOf(t) = "slice" => (Disagree(<<t, e>>) <=> k = "Len")
             /\ KindOf(t) = "string" =>
                  (Disagree(<<t, e>>) <=> k = "Len" /\ Codecs!OnlyValue(e) > MaxInt)
             /\ KindOf(t) \notin {"string", "slice"} =>
                  (Disagree(<<t, e>>) <=> IsByte(t) /\ k = "Opaque")
<1> DEFINE k == Codecs!TagKind(e)
           v == Codecs!OnlyValue(e) > MaxInt
<1>1. Disagree(<<t, e>>) <=> \/ KindOf(t) = "slice" /\ k = "Len"
                             \/ IsByte(t) /\ k = "Opaque"
                             \/ KindOf(t) = "string" /\ k = "Len" /\ v
  BY DEF Disagree
<1>2. IsByte(t) <=> KindOf(t) \in {"int8", "uint8"}
  BY DEF IsByte
<1> HIDE DEF k, v
<1> QED
  BY <1>1, <1>2 DEF k, v

(* An optional type.                                                        *)
LEMMA OptAgrees ==
  ASSUME NEW t, NEW e, IsLegal(<<t, e>>), Codecs!TagKind(e) = "Opt"
  PROVE  Agrees(<<t, e>>, Codecs!buildCodec(t, e))
<1> DEFINE x == <<t, Codecs!Trimmed(<<Codecs!Entry("Noop")>> \o Codecs!TagNext(e))>>
<1>1. e # <<>>
  BY DEF Codecs!TagKind
<1>2. IsLegal(x)
  BY <1>1, StripLegal
<1>3. Codecs!buildCodec(t, e) = Codecs!codecOf("optCodec", <<x>>)
  BY DEF Codecs!buildCodec, Codecs!makeOptCodec
<1> HIDE DEF x
<1> QED
  BY <1>2, <1>3, CodecFields, DisagreeFacts, AgreesWith

(* Pointers, arrays, slices and maps hand the rest of the tag on.           *)
LEMMA PtrAgrees ==
  ASSUME NEW t, NEW e, IsLegal(<<t, e>>), Codecs!TagKind(e) # "Opt", KindOf(t) = "ptr"
  PROVE  Agrees(<<t, e>>, Codecs!buildCodec(t, e))
<1> DEFINE x == <<TypeDef[t].elem, Codecs!TagNext(e)>>
<1>1. IsLegal(x)
  BY NextLegal DEF Descends
<1>2. Codecs!buildCodec(t, e) = Codecs!codecOf("ptrCodec", <<x>>)
  BY DEF Codecs!buildCodec, Codecs!makePtrCodec, KindOf
<1> HIDE DEF x
<1> QED
  BY <1>1, <1>2, CodecFields, DisagreeFacts, AgreesWith

(* An array.                                                                *)
LEMMA ArrayAgrees ==
  ASSUME NEW t, NEW e, IsLegal(<<t, e>>), Codecs!TagKind(e) # "Opt", KindOf(t) = "array"
  PROVE  Agrees(<<t, e>>, Codecs!buildCodec(t, e))
<1> DEFINE x == <<TypeDef[t].elem, Codecs!TagNext(e)>>
           c == Codecs!buildCodec(t, e)
           ks == <<x>>
<1>1. IsLegal(x)
  BY NextLegal DEF Descends
<1>2. Codecs!TagKind(e) = "Noop"
  BY FirstOption DEF PartKinds, IsByte, Limitable
<1>3. c = Codecs!makeArrayCodec(t, e)
  BY DEF Codecs!buildCodec, KindOf
<1> HIDE DEF x
<1>4. CASE Codecs!TagKind(Codecs!TagNext(e)) = "Opaque"
  <2>1. c = [Codecs!codecOf("opaqueArrayCodec", <<>>) EXCEPT !.len = TypeDef[t].len]
    BY <1>2, <1>3, <1>4 DEF Codecs!makeArrayCodec
  <2> HIDE DEF c
  <2>2. c.codec = "opaqueArrayCodec" /\ c.elems = <<>>
    BY <2>1, ParameterFields
  <2> QED
    BY <2>2, DisagreeFacts, AgreesWith DEF c
<1>5. CASE Codecs!TagKind(Codecs!TagNext(e)) # "Opaque"
  <2>1. c = [Codecs!codecOf("arrayCodec", ks) EXCEPT !.len = TypeDef[t].len]
    BY <1>2, <1>3, <1>5 DEF Codecs!makeArrayCodec, x
  <2> HIDE DEF c
  <2>2. c.codec = "arrayCodec" /\ c.elems = ks
    <3> HIDE DEF ks
    <3> QED
      BY <2>1, ParameterFields
  <2> QED
    BY <1>1, <2>2, DisagreeFacts, AgreesWith DEF c
<1> QED
  BY <1>4, <1>5

(* A slice, which may have a limit and no length.                           *)
LEMMA SliceAgrees ==
  ASSUME NEW t, NEW e, IsLegal(<<t, e>>), Codecs!TagKind(e) # "Opt", KindOf(t) = "slice"
  PROVE  Agrees(<<t, e>>, Codecs!buildCodec(t, e))
<1> DEFINE x == <<TypeDef[t].elem, Codecs!TagNext(e)>>
           c == Codecs!buildCodec(t, e)
           k == Codecs!TagKind(e)
           ks == <<x>>
           max == Codecs!TagLimit(e)
<1>1. IsLegal(x)
  BY NextLegal DEF Descends
<1>2. k \in {"Noop", "Len", "MaxLen"}
  BY FirstOption DEF PartKinds, IsByte
<1>3. c = Codecs!makeSliceCodec(t, e)
  BY DEF Codecs!buildCodec, KindOf
<1> HIDE DEF x, k
<1>4. CASE k = "Len"
  <2>1. c = Codecs!errorCodec(<<>>)
    BY <1>3, <1>4 DEF Codecs!makeSliceCodec, k
  <2> HIDE DEF c
  <2>2. c.codec = "errorCodec" /\ c.elems = <<>>
    BY <2>1, CodecFields
  <2> QED
    BY <1>4, <2>2, DisagreeFacts, AgreesWith DEF c, k
<1>5. CASE k # "Len" /\ Codecs!TagKind(Codecs!TagNext(e)) = "Opaque"
  <2>1. c = Codecs!Limited(Codecs!codecOf("opaqueSliceCodec", <<>>), max)
    BY <1>2, <1>3, <1>5 DEF Codecs!makeSliceCodec, k
  <2> HIDE DEF c, max
  <2>2. c.codec = "opaqueSliceCodec" /\ c.elems = <<>>
    BY <2>1, ParameterFields
  <2> QED
    BY <1>5, <2>2, DisagreeFacts, AgreesWith DEF c, k
<1>6. CASE k # "Len" /\ Codecs!TagKind(Codecs!TagNext(e)) # "Opaque"
  <2>1. c = Codecs!Limited(Codecs!codecOf("sliceCodec", ks), max)
    BY <1>2, <1>3, <1>6 DEF Codecs!makeSliceCodec, k, x
  <2> HIDE DEF c, max
  <2>2. c.codec = "sliceCodec" /\ c.elems = ks
    <3> HIDE DEF ks
    <3> QED
      BY <2>1, ParameterFields
  <2> QED
    BY <1>1, <1>6, <2>2, DisagreeFacts, AgreesWith DEF c, k
<1> QED
  BY <1>4, <1>5, <1>6

(* A map, whose keys are built without a tag.                               *)
LEMMA MapAgrees ==
  ASSUME TypesBuild, NEW t, NEW e, IsLegal(<<t, e>>), Codecs!TagKind(e) # "Opt", KindOf(t) = "map"
  PROVE  Agrees(<<t, e>>, Codecs!buildCodec(t, e))
<1> DEFINE x == <<TypeDef[t].key, <<>>>>
           y == <<TypeDef[t].elem, Codecs!TagNext(e)>>
           c == Codecs!buildCodec(t, e)
           ks == <<x, y>>
           max == Codecs!TagLimit(e)
<1>1. IsLegal(y)
  BY NextLegal DEF Descends
<1>2. Codecs!TagKind(e) = "Noop" /\ t \in Types
  BY FirstOption DEF PartKinds, IsByte, Limitable
<1>3. IsLegal(x)
  <2>1. TypeDef[t].key \in Types
    BY <1>2 DEF TypesBuild, Types
  <2>2. <<>> \in Seq(TagEntry) /\ IsTrimmed(<<>>)
    <3>1. <<>> \in Seq(TagEntry)
      OBVIOUS
    <3> QED
      BY <3>1, TrimTwice
  <2>3. Fitting(TypeDef[t].key, <<>>)
    <3>1. Len(<<>>) = 0 /\ \A n : n \notin 1..0
      OBVIOUS
    <3> QED
      BY <3>1 DEF Fitting
  <2> QED
    BY <2>1, <2>2, <2>3, LegalMeans
<1>4. c = Codecs!makeMapCodec(t, e)
  BY DEF Codecs!buildCodec, KindOf
<1>5. c = Codecs!Limited(Codecs!codecOf("mapCodec", ks), max)
  BY <1>2, <1>4 DEF Codecs!makeMapCodec
<1> HIDE DEF c, max, x, y
<1>6. c.codec = "mapCodec" /\ c.elems = ks
  <2> HIDE DEF ks
  <2> QED
    BY <1>5, ParameterFields
<1> QED
  BY <1>1, <1>3, <1>6, DisagreeFacts, AgreesWith DEF c

(* A string, which has no second layer.                                     *)
LEMMA StringAgrees ==
  ASSUME NEW t, NEW e, IsLegal(<<t, e>>), Codecs!TagKind(e) # "Opt", KindOf(t) = "string"
  PROVE  Agrees(<<t, e>>, Codecs!buildCodec(t, e))
<1> DEFINE c == Codecs!buildCodec(t, e)
           k == Codecs!TagKind(e)
           v == Codecs!OnlyValue(e) > MaxInt
           max == Codecs!TagLimit(e)
<1>1. Codecs!TagNext(e) = <<>> /\ k \in {"Noop", "Len", "MaxLen"}
  BY FirstOption DEF PartKinds, IsByte, Descends
<1>2. c = Codecs!makeStringCodec(e)
  BY DEF Codecs!buildCodec, KindOf
<1> HIDE DEF k
<1>3. CASE k = "Len" /\ v
  <2>1. c = Codecs!errorCodec(<<>>)
    BY <1>1, <1>2, <1>3 DEF Codecs!makeStringCodec, k
  <2> HIDE DEF c, v
  <2>2. c.codec = "errorCodec" /\ c.elems = <<>>
    BY <2>1, CodecFields
  <2> QED
    BY <1>3, <2>2, DisagreeFacts, AgreesWith DEF c, k, v
<1>4. CASE k = "Len" /\ ~v
  <2>1. c = [Codecs!codecOf("fixedStringCodec", <<>>) EXCEPT !.len = Codecs!OnlyValue(e)]
    BY <1>1, <1>2, <1>4 DEF Codecs!makeStringCodec, k
  <2> HIDE DEF c, v
  <2>2. c.codec = "fixedStringCodec" /\ c.elems = <<>>
    BY <2>1, ParameterFields
  <2> QED
    BY <1>4, <2>2, DisagreeFacts, AgreesWith DEF c, k, v
<1>5. CASE k # "Len"
  <2>1. c = Codecs!Limited(Codecs!codecOf("varStringCodec", <<>>), max)
    BY <1>1, <1>2, <1>5 DEF Codecs!makeStringCodec, k
  <2> HIDE DEF c, max
  <2>2. c.codec = "varStringCodec" /\ c.elems = <<>>
    BY <2>1, ParameterFields
  <2> QED
    BY <1>5, <2>2, DisagreeFacts, AgreesWith DEF c, k
<1> QED
  BY <1>3, <1>4, <1>5

(* A type of which no tag speaks, but for `opaque` on a byte.               *)
LEMMA OtherAgrees ==
  ASSUME TypesBuild, NEW t, NEW e, IsLegal(<<t, e>>), Codecs!TagKind(e) # "Opt",
         KindOf(t) \notin {"array", "map", "ptr", "slice", "string"}
  PROVE  Agrees(<<t, e>>, Codecs!buildCodec(t, e))
<1> DEFINE c == Codecs!buildCodec(t, e)
           k == Codecs!TagKind(e)
           s == Codecs!makeStructCodec(t)
<1>1. t \in Types /\ (e = <<>> => k = "Noop") /\ (e # <<>> => k = "Opaque" /\ IsByte(t))
  BY FirstOption DEF PartKinds, Limitable, Descends
<1>2. /\ e # <<>> => c = Codecs!errorCodec(<<>>)
      /\ e = <<>> =>
           /\ TypeDef[t].marshals => c = Codecs!codecOf("marshalerCodec", <<>>)
           /\ ~TypeDef[t].marshals /\ KindOf(t) \in Codecs!PrimitiveKinds =>
                c = Codecs!codecOf(KindOf(t), <<>>)
           /\ ~TypeDef[t].marshals /\ KindOf(t) = "struct" => c = s
  BY DEF Codecs!buildCodec, KindOf, Codecs!PrimitiveKinds
<1>3. BuildsUntagged(t)
  BY <1>1 DEF TypesBuild, Types
<1>4. Disagree(<<t, e>>) <=> IsByte(t) /\ k = "Opaque"
  BY DisagreeFacts
<1> HIDE DEF c, k, s
<1>5. CASE e # <<>>
  <2>1. c.codec = "errorCodec" /\ c.elems = <<>>
    BY <1>2, <1>5, CodecFields
  <2> QED
    BY <1>1, <1>4, <1>5, <2>1, AgreesWith DEF c
<1>6. CASE e = <<>>
  <2>1. ~Disagree(<<t, e>>)
    BY <1>1, <1>4, <1>6
  <2>2. CASE TypeDef[t].marshals
    <3>1. c.codec = "marshalerCodec" /\ c.elems = <<>>
      BY <1>2, <1>6, <2>2, CodecFields
    <3> QED
      BY <2>1, <3>1, AgreesWith DEF c
  <2>3. CASE ~TypeDef[t].marshals /\ KindOf(t) \in Codecs!PrimitiveKinds
    <3>1. c.codec = KindOf(t) /\ c.elems = <<>>
      BY <1>2, <1>6, <2>3, CodecFields
    <3>2. KindOf(t) \notin {"panic", "errorCodec"}
      BY <2>3 DEF Codecs!PrimitiveKinds
    <3> QED
      BY <2>1, <3>1, <3>2, AgreesWith DEF c
  <2>4. CASE ~TypeDef[t].marshals /\ KindOf(t) \notin Codecs!PrimitiveKinds
    <3>1. /\ KindOf(t) = "struct" /\ s.codec \in {"structCodec", "unionCodec"}
          /\ \A x \in Range(s.elems) : IsLegal(x)
      BY <1>3, <2>4 DEF BuildsUntagged, s
    <3>2. c = s
      BY <1>2, <1>6, <2>4, <3>1
    <3>3. \A n \in DOMAIN c.elems : IsLegal(c.elems[n])
      BY <3>1, <3>2 DEF Range
    <3> QED
      BY <2>1, <3>1, <3>2, <3>3 DEF Agrees, c
  <2> QED
    BY <2>2, <2>3, <2>4
<1> QED
  BY <1>5, <1>6

(* Every legal key.                                                         *)
LEMMA LegalBuilds ==
  ASSUME TypesBuild, NEW k, IsLegal(k)
  PROVE  /\ Codecs!OutcomeOf(k) # "codec" <=> Disagree(k)
         /\ \A n \in DOMAIN Codecs!LookupsOf(k) : IsLegal(Codecs!LookupsOf(k)[n])
<1> DEFINE t == k[1]
           e == k[2]
           c == Codecs!buildCodec(t, e)
<1>1. IsLegal(<<t, e>>) /\ <<t, e>> = k
  <2>1. k \in Types \X Seq(Range(e))
    BY DEF IsLegal, Types
  <2>2. <<t, e>> = k
    BY <2>1
  <2> QED
    BY <2>2
<1>2. /\ Codecs!OutcomeOf(k) = CASE c.codec = "panic" -> "panic"
                                 [] c.codec = "errorCodec" -> "errorCodec"
                                 [] OTHER -> "codec"
      /\ Codecs!LookupsOf(k) = c.elems
  BY DEF Codecs!OutcomeOf, Codecs!LookupsOf
<1> HIDE DEF t, e
<1>3. Agrees(<<t, e>>, c)
  BY <1>1, OptAgrees, PtrAgrees, ArrayAgrees, SliceAgrees, MapAgrees, StringAgrees, OtherAgrees, Zenon
<1> HIDE DEF c
<1>4. c.codec # "panic" /\ (c.codec = "errorCodec" <=> Disagree(k))
      /\ \A n \in DOMAIN c.elems : IsLegal(c.elems[n])
  BY <1>1, <1>3 DEF Agrees
<1> QED
  BY <1>2, <1>4

(* From legal keys only legal keys are reached.                             *)
LegalKeys == {k \in Types \X Seq(TagEntry) : IsLegal(k)}
Lookups(k) == {Codecs!LookupsOf(k)[n] : n \in DOMAIN Codecs!LookupsOf(k)}
Wider(S) == S \cup UNION {Lookups(k) : k \in S}

(* As a set.                                                                *)
LEMMA LegalKeysFacts ==
  /\ \A k : IsLegal(k) <=> k \in LegalKeys
  /\ TypesBuild => \A S \in SUBSET LegalKeys : Wider(S) \in SUBSET LegalKeys
<1>1. ASSUME NEW k, IsLegal(k) PROVE k \in LegalKeys
  <2> DEFINE t == k[1]
             e == k[2]
  <2>1. k \in Types \X Seq(Range(e))
    BY <1>1 DEF IsLegal, Types
  <2>2. k = <<t, e>>
    BY <2>1
  <2> HIDE DEF t, e
  <2>3. t \in Types /\ e \in Seq(TagEntry)
    BY <1>1, <2>2, LegalMeans
  <2>4. k \in Types \X Seq(TagEntry)
    BY <2>2, <2>3
  <2> QED
    BY <1>1, <2>4 DEF LegalKeys
<1>2. ASSUME TypesBuild, NEW S \in SUBSET LegalKeys PROVE Wider(S) \in SUBSET LegalKeys
  <2>1. ASSUME NEW k \in S, NEW x \in Lookups(k) PROVE x \in LegalKeys
    <3>1. IsLegal(k)
      BY DEF LegalKeys
    <3>2. \A n \in DOMAIN Codecs!LookupsOf(k) : IsLegal(Codecs!LookupsOf(k)[n])
      BY <1>2, <3>1, LegalBuilds
    <3>3. IsLegal(x)
      BY <3>2 DEF Lookups
    <3> QED
      BY <1>1, <3>3
  <2> QED
    BY <2>1 DEF Wider
<1> QED
  BY <1>1, <1>2 DEF LegalKeys

(* However deep.                                                            *)
LEMMA KeysFromLegal ==
  ASSUME TypesBuild, NEW start, start \subseteq LegalKeys, NEW N \in Nat
  PROVE  Codecs!KeysFrom(start, N) \subseteq LegalKeys
<1> DEFINE D == SUBSET LegalKeys
           G == [x \in Nat \X D |-> Wider(x[2])]
           Round(f) == [n \in 0..N |-> IF n = 0 THEN start ELSE Wider(f[n - 1])]
           R == CHOOSE f : f = Round(f)
<1>1. start \in D /\ \A S \in D : Wider(S) \in D
  BY LegalKeysFacts
<1> HIDE DEF D
<1>2. \E f : f = Round(f)
  <2>1. G \in [Nat \X D -> D]
    BY <1>1
  <2>2. PICK out \in [0..N -> D] : out[0] = start /\ \A n \in 1..N : out[n] = G[<<n, out[n - 1]>>]
    <3> HIDE DEF G
    <3>1. Iterations(D, start, G, N) # {}
      BY <1>1, <2>1, IterateExists, Zenon
    <3> QED
      BY <3>1 DEF Iterations
  <2>3. ASSUME NEW n \in 0..N PROVE out[n] = IF n = 0 THEN start ELSE Wider(out[n - 1])
    <3>1. CASE n = 0
      BY <2>2, <3>1
    <3>2. CASE n # 0
      <4>1. n \in 1..N /\ n \in Nat /\ n - 1 \in 0..N
        BY <3>2
      <4>2. <<n, out[n - 1]>> \in Nat \X D
        BY <4>1
      <4>3. out[n] = Wider(out[n - 1])
        BY <2>2, <4>1, <4>2
      <4> QED
        BY <3>2, <4>3
    <3> QED
      BY <3>1, <3>2
  <2>4. out = [n \in 0..N |-> out[n]]
    OBVIOUS
  <2>5. out = Round(out)
    BY <2>3, <2>4
  <2> HIDE DEF Round
  <2> QED
    BY <2>5
<1>3. R = Round(R)
  <2> HIDE DEF Round
  <2> QED
    BY <1>2
<1>4. Codecs!KeysFrom(start, N) = R[N]
  BY Zenon DEF Codecs!KeysFrom, Wider, Lookups
<1> HIDE DEF R
<1>5. \A n \in 0..N : R[n] = IF n = 0 THEN start ELSE Wider(R[n - 1])
  <2>1. \A f : f = Round(f) => \A n \in 0..N : f[n] = IF n = 0 THEN start ELSE Wider(f[n - 1])
    OBVIOUS
  <2> HIDE DEF Round
  <2> QED
    BY <1>3, <2>1
<1> DEFINE S == {n \in Nat : n \in 0..N => R[n] \in D}
<1>6. 0 \in S
  BY <1>1, <1>5
<1>7. ASSUME NEW n \in Nat, n \in S PROVE n + 1 \in S
  <2> SUFFICES ASSUME n + 1 \in 0..N PROVE R[n + 1] \in D
    OBVIOUS
  <2>1. n \in 0..N /\ n + 1 # 0 /\ (n + 1) - 1 = n
    OBVIOUS
  <2>2. R[n + 1] = Wider(R[n])
    BY <1>5, <2>1
  <2> QED
    BY <1>1, <1>7, <2>1, <2>2
<1>8. Nat \subseteq S
  <2> HIDE DEF S
  <2> QED
    BY <1>6, <1>7, InductionOnNat
<1>9. R[N] \in D
  BY <1>8
<1> QED
  BY <1>4, <1>9 DEF D

-----------------------------------------------------------------------------
(* The keys that the loop looks up are legal.                               *)

(* What fits a part of a tag fits the entry it is parsed into.              *)
LEMMA PartsFit ==
  ASSUME NEW t \in Types, NEW parts, AllFit(t, parts), Len(parts) \in Nat,
         DOMAIN parts = 1..Len(parts), \A k \in 1..Len(parts) : IsPart(parts[k])
  PROVE  Fitting(t, PartEntries(parts))
<1> DEFINE n == Len(parts)
           pe == PartEntries(parts)
<1>1. n \in Nat /\ DOMAIN parts = 1..n /\ \A k \in 1..n : IsPart(parts[k])
  OBVIOUS
<1>2. Len(pe) = n /\ \A k \in 1..n : pe[k] = PartEntry(parts[k])
  <2> HIDE DEF n
  <2>1. pe = [k \in 1..n |-> PartEntry(parts[k])]
    BY <1>1 DEF PartEntries
  <2> QED
    BY <1>1, <2>1
<1>3. \A k \in 1..n : Fits(LayersOf(t, n)[k], parts[k])
  BY <1>1 DEF AllFit
<1> HIDE DEF n, pe
<1>4. ASSUME NEW x, NEW p, IsPart(p), Fits(x, p) PROVE OptionFits(x, PartEntry(p))
  <2>1. /\ x # "none" /\ p.name \in {"", "opt", "opaque", "len", "maxlen"}
        /\ p.name = "opt" => canBeOpt(x)
        /\ p.name = "opaque" => IsByte(x)
        /\ p.name \in {"len", "maxlen"} => Limitable(x) /\ p.values # <<>>
    BY <1>4 DEF Fits, canBeOpt, Limitable
  <2>2. AreWords(p.values) /\ Len(p.values) \leq 1 /\ (p.name \notin {"len", "maxlen"} => p.values = <<>>)
    BY <1>4 DEF IsPart
  <2>3. IF p.name \in {"len", "maxlen"} THEN Len(p.values) = 1 ELSE Len(p.values) = 0
    <3> DEFINE vs == p.values
               m == Len(vs)
    <3>1. m \in Nat /\ m \leq 1 /\ (vs # <<>> => m # 0) /\ (vs = <<>> => m = 0)
      BY <2>2, WordsOf, EmptySeq
    <3>2. p.name \in {"len", "maxlen"} => vs # <<>>
      BY <2>1
    <3>3. p.name \notin {"len", "maxlen"} => vs = <<>>
      BY <2>2
    <3> HIDE DEF vs, m
    <3>4. (vs # <<>> => m = 1) /\ (vs = <<>> => m = 0)
      BY <3>1
    <3>5. IF p.name \in {"len", "maxlen"} THEN m = 1 ELSE m = 0
      BY <3>2, <3>3, <3>4
    <3> QED
      BY <3>5 DEF m, vs
  <2> DEFINE y == PartEntry(p)
  <2>4. CASE p.name = ""
    <3>1. y = [kind |-> "Noop", values |-> <<>>]
      BY <2>4 DEF PartEntry, Codecs!Entry
    <3>2. p.values = <<>>
      BY <2>2, <2>4
    <3> DEFINE vs == p.values
    <3>3. y = [kind |-> "Noop", values |-> vs]
      BY <3>1, <3>2
    <3> HIDE DEF y, vs
    <3>4. y.kind = "Noop" /\ y.values = vs
      BY <3>3
    <3>5. y = Codecs!EntryWith(y.kind, y.values)
      BY <3>3, <3>4 DEF Codecs!EntryWith
    <3>6. AreWords(vs) /\ Len(vs) = 0
      BY <2>2, <2>3, <2>4 DEF vs
    <3>7. OptionFits(x, y)
      BY <2>1, <3>4, <3>5, <3>6 DEF OptionFits
    <3> QED
      BY <3>7 DEF y
  <2>5. CASE p.name # ""
    <3>1. y = [kind |-> PartKind[p.name], values |-> p.values]
      BY <2>5 DEF PartEntry, Codecs!EntryWith
    <3>2. y.kind = PartKind[p.name] /\ y.values = p.values /\ y = Codecs!EntryWith(y.kind, y.values)
      BY <3>1 DEF Codecs!EntryWith
    <3>3. /\ p.name = "opt" => y.kind = "Opt"
          /\ p.name = "opaque" => y.kind = "Opaque"
          /\ p.name = "len" => y.kind = "Len"
          /\ p.name = "maxlen" => y.kind = "MaxLen"
      BY <3>2 DEF PartKind
    <3> HIDE DEF y
    <3>4. Len(y.values) = IF y.kind \in {"Len", "MaxLen"} THEN 1 ELSE 0
      BY <2>1, <2>2, <2>3, <2>5, <3>2, <3>3
    <3>5. OptionFits(x, y)
      BY <2>1, <2>2, <2>5, <3>2, <3>3, <3>4 DEF OptionFits
    <3> QED
      BY <3>5 DEF y
  <2> QED
    BY <2>4, <2>5
<1>5. \A k \in 1..n : OptionFits(LayersOf(t, n)[k], pe[k])
  BY <1>1, <1>2, <1>3, <1>4
<1> QED
  BY <1>2, <1>5 DEF Fitting, pe

(* And the parts of a tag, spelled out, are parts.                          *)
LEMMA SpelledParts ==
  ASSUME NEW t \in Types, NEW parts, AreParts(parts)
  PROVE  LET sp == Spelled(t, parts)
         IN  /\ Len(sp) \in Nat /\ DOMAIN sp = 1..Len(sp)
             /\ \A k \in 1..Len(sp) : IsPart(sp[k])
<1> DEFINE sp == Spelled(t, parts)
           n == Len(parts)
           short == n # 0 /\ LayersOf(t, n)[n] \in Types /\ Shortened(LayersOf(t, n)[n], parts[n])
<1>1. n \in Nat /\ DOMAIN parts = 1..n /\ \A k \in 1..n : IsPart(parts[k])
  <2>1. parts \in Seq(Range(parts)) /\ \A p \in Range(parts) : IsPart(p)
    BY DEF AreParts
  <2> QED
    BY <2>1, LenProperties
<1>2. CASE short
  <2>1. /\ Len(sp) = n + 1 /\ DOMAIN sp = 1..(n + 1)
        /\ \A k \in 1..(n + 1) :
             sp[k] = IF k \leq n - 1 THEN parts[k] ELSE IF k = n THEN NoPart ELSE parts[n]
    BY <1>2, SpelledShort
  <2>2. IsPart(NoPart) /\ n # 0
    <3>1. Len(<<>>) = 0 /\ <<>> \in Seq(Range(<<>>)) /\ \A v : v \notin Range(<<>>)
      BY DEF Range
    <3>2. AreWords(<<>>)
      BY <3>1, WordsAreNumbers DEF AreWords
    <3>3. NoPart.name = "" /\ NoPart.values = <<>>
      BY DEF NoPart
    <3> DEFINE vs == NoPart.values
    <3>4. vs = <<>> /\ NoPart.name \notin {"len", "maxlen"}
      BY <3>3
    <3> HIDE DEF vs
    <3>5. AreWords(vs) /\ Len(vs) = 0
      BY <3>1, <3>2, <3>4, Zenon
    <3>6. Len(vs) \leq 1
      BY <3>5
    <3>7. IsPart(NoPart)
      BY <3>4, <3>5, <3>6 DEF IsPart, vs
    <3> QED
      BY <1>2, <3>7
  <2> HIDE DEF n, sp
  <2>3. \A k \in 1..(n + 1) : IsPart(sp[k])
    <3> SUFFICES ASSUME NEW k \in 1..(n + 1) PROVE IsPart(sp[k])
      OBVIOUS
    <3>1. n \in 1..n /\ (k \leq n - 1 => k \in 1..n)
      BY <1>1, <2>2
    <3> QED
      BY <1>1, <2>1, <2>2, <3>1
  <2> QED
    BY <1>1, <2>1, <2>3 DEF sp
<1>3. CASE ~short
  <2>1. sp = parts
    <3>1. CASE n = 0
      BY <3>1 DEF Spelled
    <3>2. CASE n # 0
      BY <1>3, <3>2, SpelledLong
    <3> QED
      BY <3>1, <3>2
  <2> QED
    BY <1>1, <2>1
<1> QED
  BY <1>2, <1>3

(* What makeField looks up for a field is legal: the codec of the whole tag *)
(* of a field of a struct, of all but the first option of one of a union.   *)
LEMMA FieldLegal ==
  ASSUME NEW t \in Types, NEW text, IsText(text), text.lead # "-", NEW u \in Contexts,
         NEW p, p = ParseTag(t, text, u), p.ok
  PROVE  /\ text.lead = "none" => IsLegal(<<t, Entries(p.tag)>>)
         /\ text.lead # "none" => IsLegal(<<t, Entries(NextTag(p.tag))>>)
         /\ p.isUnion = "NotInUnion" => text.lead = "none"
<1> DEFINE le == LeadEntries(text)
           sp == Spelled(t, text.parts)
           pe == PartEntries(sp)
           es == Spelt(t, text)
           e == Entries(p.tag)
<1>1. /\ LeadFits(t, text, u) /\ AllFit(t, sp)
      /\ p.isUnion = ContextAfter(text.lead, u) /\ text.lead \in Leads
      /\ le \in Seq(TagEntry) /\ pe \in Seq(TagEntry) /\ es \in Seq(TagEntry)
      /\ es = le \o pe /\ p.tag = BytesOf(Trim(es))
  BY ParseTagFacts DEF Legal, Spelt
<1>2. Fitting(t, pe)
  <2>1. AreParts(text.parts)
    BY DEF IsText, AreParts, IsPart
  <2>2. Len(sp) \in Nat /\ DOMAIN sp = 1..Len(sp) /\ \A k \in 1..Len(sp) : IsPart(sp[k])
    BY <2>1, SpelledParts
  <2> HIDE DEF sp
  <2> QED
    BY <1>1, <2>2, PartsFit
<1>3. /\ IsTrimmed(e) /\ Entries(NextTag(p.tag)) = Codecs!TagNext(e)
  BY EntriesOfField
<1>4. p.isUnion = "NotInUnion" => text.lead = "none"
  BY <1>1 DEF ContextAfter, LeadFits, Leads
<1>5. e = Trim(es)
  BY <1>1, TrimFacts, EntriesFacts
<1>6. /\ text.lead = "none" => le = <<>>
      /\ text.lead # "none" => le = <<[kind |-> LeadKind(text.lead), values |-> text.values]>>
  <2>1. Lead(t, text, u).ok
    BY <1>1, LeadFacts
  <2> QED
    BY <1>1, <2>1, LeadBytes, Zenon
<1> HIDE DEF le, sp, pe, es, e
<1>7. CASE text.lead = "none"
  <2>1. es = pe
    BY <1>1, <1>6, <1>7, ConcatEmptySeq
  <2>2. IsLegal(<<t, e>>)
    BY <1>1, <1>2, <1>5, <2>1, TrimLegal
  <2> QED
    BY <1>7, <2>2 DEF e
<1>8. CASE text.lead # "none"
  <2> DEFINE r == Tail(e)
             m == Len(e)
             n == Len(pe)
             x == [kind |-> LeadKind(text.lead), values |-> text.values]
  <2>1. /\ Len(le) = 1 /\ n \in Nat /\ Len(es) = 1 + n /\ le[1] = x /\ x.kind # "Noop"
        /\ \A k \in 1..(1 + n) : es[k] = IF k \leq 1 THEN le[k] ELSE pe[k - 1]
    <3>1. Len(<<x>>) = 1 /\ <<x>>[1] = x /\ x.kind = LeadKind(text.lead)
      OBVIOUS
    <3>2. Len(le) = 1 /\ le[1] = x
      BY <1>6, <1>8, <3>1
    <3>3. x.kind # "Noop"
      BY <3>1 DEF LeadKind
    <3> HIDE DEF x
    <3>4. /\ Len(le \o pe) = Len(le) + Len(pe) /\ Len(pe) \in Nat
          /\ \A k \in 1..(Len(le) + Len(pe)) :
               (le \o pe)[k] = IF k \leq Len(le) THEN le[k] ELSE pe[k - Len(le)]
      BY <1>1, ConcatProperties, LenProperties
    <3> QED
      BY <1>1, <3>2, <3>3, <3>4
  <2> HIDE DEF x
  <2>2. es # <<>> /\ es[1].kind # "Noop"
    <3>1. 1 \in 1..(1 + n) /\ 1 \leq 1 /\ 1 + n # 0
      BY <2>1
    <3>2. es[1] = le[1]
      BY <2>1, <3>1
    <3>3. es # <<>>
      BY <1>1, <2>1, <3>1, EmptySeq
    <3> QED
      BY <2>1, <3>2, <3>3
  <2>3. e # <<>> /\ e \in Seq(TagEntry)
    BY <1>1, <1>3, <1>5, <2>2, FirstKind DEF IsTrimmed
  <2>4. /\ m \in 0..(1 + n) /\ \A k \in 1..m : e[k] = es[k]
    BY <1>1, <1>5, <2>1, TrimFacts
  <2>5. /\ Len(r) = m - 1 /\ m \in Nat /\ m # 0 /\ \A k \in 1..(m - 1) : r[k] = e[k + 1]
    BY <2>3, HeadTailProperties, LenProperties, EmptySeq
  <2>6. IsTrimmed(r) /\ Codecs!TagNext(e) = r
    BY <1>3, <2>3, TailTrimmed DEF Codecs!TagNext
  <2> HIDE DEF r, m, n
  <2>7. Len(r) \leq n /\ \A k \in 1..Len(r) : r[k] = pe[k]
    <3>1. Len(r) \leq n
      BY <2>1, <2>4, <2>5
    <3>2. ASSUME NEW k \in 1..Len(r) PROVE r[k] = pe[k]
      <4>1. k \in 1..(m - 1) /\ k + 1 \in 1..m /\ k + 1 \in 1..(1 + n) /\ ~(k + 1 \leq 1)
            /\ (k + 1) - 1 = k
        BY <2>1, <2>4, <2>5
      <4> QED
        BY <2>1, <2>4, <2>5, <4>1
    <3> QED
      BY <3>1, <3>2
  <2>8. IsLegal(<<t, r>>)
    BY <1>1, <1>2, <2>6, <2>7, PrefixLegal DEF n
  <2>9. Entries(NextTag(p.tag)) = r
    BY <1>3, <2>6
  <2> QED
    BY <1>4, <1>8, <2>8, <2>9
<1> QED
  BY <1>4, <1>7, <1>8

-----------------------------------------------------------------------------
(* All the keys that the loop looks up are legal, and it panics at no other *)
(* switch than one that is not 32 bits wide.                                *)
LegalKey(key) == IsLegal(<<key[1], Entries(key[2])>>)
AllLegal(ks) == \A k \in 1..Len(ks) : LegalKey(ks[k])
PanicsAtSwitch(s) ==
  /\ Unskipped(s)[1].text.lead = "switch"
  /\ KindOf(Unskipped(s)[1].type) \notin {"bool", "int32", "uint32"}
LegalInv == AllLegal(keys) /\ (codec = "panic" => PanicsAtSwitch(struct))

(* One key more, or the first.                                              *)
LEMMA LegalKeyMore ==
  ASSUME NEW ks \in Seq(Types \X KeyBytes), NEW key \in Types \X KeyBytes, LegalKey(key)
  PROVE  AllLegal(<<>>) /\ AllLegal(<<key>>) /\ (AllLegal(ks) => AllLegal(Append(ks, key)))
<1>1. AllLegal(<<>>)
  <2>1. Len(<<>>) = 0 /\ \A k : k \notin 1..0
    OBVIOUS
  <2> QED
    BY <2>1 DEF AllLegal
<1>2. ASSUME NEW s \in Seq(Types \X KeyBytes), AllLegal(s) PROVE AllLegal(Append(s, key))
  <2> DEFINE n == Len(s)
             b == Append(s, key)
  <2>1. /\ n \in Nat /\ Len(b) = n + 1 /\ b[n + 1] = key /\ \A k \in 1..n : b[k] = s[k]
    <3>1. n \in Nat /\ Len(Append(s, key)) = n + 1 /\ Append(s, key)[n + 1] = key
          /\ \A k \in 1..n : Append(s, key)[k] = s[k]
      BY <1>2, OneKeyMore
    <3> QED
      BY <3>1
  <2>2. \A k \in 1..n : LegalKey(s[k])
    BY <1>2 DEF AllLegal
  <2> HIDE DEF n, b
  <2>3. ASSUME NEW k \in 1..(n + 1) PROVE LegalKey(b[k])
    <3>1. k = n + 1 \/ k \in 1..n
      BY <2>1
    <3> QED
      BY <2>1, <2>2, <3>1
  <2> QED
    BY <2>1, <2>3 DEF AllLegal, b
<1>3. <<>> \in Seq(Types \X KeyBytes) /\ Append(<<>>, key) = <<key>>
  BY AppendProperties
<1> QED
  BY <1>1, <1>2, <1>3

(* The key of a field that is parsed in the context u.                      *)
LEMMA KeyLegal ==
  ASSUME NEW s \in Struct, NEW k \in 1..Len(s), LeadAt(s, k) # "-", NEW u \in Contexts,
         NEW p, p = FieldIn(s, k, u), p.ok
  PROVE  /\ LeadAt(s, k) = "none" => LegalKey(makeField(s[k], p.tag))
         /\ LeadAt(s, k) # "none" => LegalKey(makeField(s[k], NextTag(p.tag)))
         /\ p.isUnion = "NotInUnion" => LeadAt(s, k) = "none"
         /\ makeField(s[k], p.tag) \in Types \X KeyBytes
         /\ makeField(s[k], NextTag(p.tag)) \in Types \X KeyBytes
<1> DEFINE t == s[k].type
           text == s[k].text
<1>1. t \in Types /\ IsText(text) /\ text.lead # "-" /\ p = ParseTag(t, text, u)
      /\ LeadAt(s, k) = text.lead
  BY StructFacts DEF LeadAt, FieldIn
<1>2. IsTagBytes(p.tag)
  BY <1>1, FieldFacts
<1>3. /\ makeField(s[k], p.tag) \in Types \X KeyBytes
      /\ makeField(s[k], NextTag(p.tag)) \in Types \X KeyBytes
  BY <1>1, <1>2, KeyFacts
<1>4. \A xt : makeField(s[k], xt)[1] = t /\ makeField(s[k], xt)[2] = xt
  BY DEF makeField, ByteString
<1> HIDE DEF t, text
<1>5. /\ text.lead = "none" => IsLegal(<<t, Entries(p.tag)>>)
      /\ text.lead # "none" => IsLegal(<<t, Entries(NextTag(p.tag))>>)
      /\ p.isUnion = "NotInUnion" => text.lead = "none"
  BY <1>1, FieldLegal
<1> QED
  BY <1>1, <1>3, <1>4, <1>5 DEF LegalKey

(* The context is settled.                                                  *)
LEMMA SettleLegal == IInv /\ BuildInv /\ LegalInv /\ Settle => LegalInv'
<1> SUFFICES ASSUME IInv, BuildInv, LegalInv, Settle PROVE LegalInv'
  OBVIOUS
<1> USE StructNow
<1>1. phase = "deciding" /\ struct' = struct /\ codec = "none"
  BY DEF Settle, IInv, CodecInv
<1>2. isUnion \in Contexts
  BY DEF IInv, TypeInv
<1>3. CASE isUnion = "Maybe"
  <2>1. codec' = "structCodec" /\ keys' = keys
    BY <1>3 DEF Settle, Return
  <2> QED
    BY <2>1 DEF LegalInv
<1>4. CASE isUnion # "Maybe"
  <2> DEFINE n == i - 1
             p == FieldIn(struct, n, "Maybe")
  <2>1. n \in 1..Len(struct) /\ LeadAt(struct, n) # "-" /\ AllSkipped(struct, n - 1)
        /\ p.ok /\ p.tag = tag /\ p.isUnion = isUnion
    BY <1>1, <1>4 DEF BuildInv, FollowsInv, Decided
  <2> HIDE DEF n, p
  <2>2. "Maybe" \in Contexts /\ p = FieldIn(struct, n, "Maybe")
    BY DEF Contexts, p
  <2>3. /\ LeadAt(struct, n) = "none" => LegalKey(makeField(struct[n], tag))
        /\ LeadAt(struct, n) # "none" => LegalKey(makeField(struct[n], NextTag(tag)))
        /\ isUnion = "NotInUnion" => LeadAt(struct, n) = "none"
        /\ makeField(struct[n], tag) \in Types \X KeyBytes
        /\ makeField(struct[n], NextTag(tag)) \in Types \X KeyBytes
    BY <2>1, <2>2, KeyLegal
  <2>4. CASE isUnion = "NotInUnion"
    <3> DEFINE key == makeField(struct[n], tag)
    <3>1. keys' = <<key>> /\ codec' = codec
      BY <2>4 DEF Settle, n
    <3>2. key \in Types \X KeyBytes /\ LegalKey(key)
      BY <2>3, <2>4
    <3> HIDE DEF key
    <3>3. AllLegal(keys')
      BY <3>1, <3>2, LegalKeyMore
    <3> QED
      BY <1>1, <3>1, <3>3 DEF LegalInv
  <2>5. CASE isUnion = "InUnion"
    <3> DEFINE key == makeField(struct[n], NextTag(tag))
               t == struct[n].type
    <3>1. LeadAt(struct, n) = "switch" /\ Kind(tag) = KindByte.UnionSwitch
      BY <1>1, <2>5 DEF IInv, DecidingInv, n
    <3>2. key \in Types \X KeyBytes /\ LegalKey(key)
      BY <2>3, <3>1
    <3>3. CASE KindOf(t) \in {"int32", "uint32", "bool"}
      <4>1. keys' = <<key>> /\ codec' = codec
        BY <2>5, <3>1, <3>3 DEF Settle, n
      <4> HIDE DEF key
      <4>2. AllLegal(keys')
        BY <3>2, <4>1, LegalKeyMore
      <4> QED
        BY <1>1, <4>1, <4>2 DEF LegalInv
    <3>4. CASE KindOf(t) \notin {"int32", "uint32", "bool"}
      <4>1. keys' = keys
        BY <2>5, <3>1, <3>4 DEF Settle, n
      <4>2. Unskipped(struct)[1] = struct[n]
        <5> DEFINE m == n - 1
        <5>1. m \in Nat /\ m + 1 = n
          BY <2>1
        <5>2. AllSkipped(struct, m)
          BY <2>1
        <5> HIDE DEF m
        <5>3. p = FieldIn(struct, m + 1, "Maybe") /\ LeadAt(struct, m + 1) = "switch"
              /\ m + 1 \in 1..Len(struct)
          BY <2>1, <2>2, <3>1, <5>1
        <5>4. Unskipped(struct)[1] = struct[m + 1]
          BY <2>1, <5>1, <5>2, <5>3, SwitchFacts
        <5> QED
          BY <5>1, <5>4
      <4>3. PanicsAtSwitch(struct')
        BY <1>1, <3>1, <3>4, <4>2 DEF PanicsAtSwitch, LeadAt
      <4> QED
        BY <4>1, <4>3 DEF LegalInv
    <3> QED
      BY <3>3, <3>4
  <2> QED
    BY <1>2, <1>4, <2>4, <2>5 DEF Contexts
<1> QED
  BY <1>3, <1>4

(* A field of a struct.                                                     *)
LEMMA StructFieldLegal == IInv /\ BuildInv /\ LegalInv /\ StructField => LegalInv'
<1> SUFFICES ASSUME IInv, BuildInv, LegalInv, StructField PROVE LegalInv'
  OBVIOUS
<1> USE StructNow
<1> DEFINE key == makeField(struct[i], Field.tag)
           p == Field
<1>1. /\ Reading /\ phase = "struct" /\ p.ok /\ ~Skipped(p)
      /\ keys' = Append(keys, key) /\ struct' = struct /\ codec' = codec
  BY DEF StructField
<1>2. i \in 1..Len(struct) /\ FieldSeen(p, LeadAt(struct, i), struct[i].text)
  BY <1>1, FieldNow DEF IInv
<1>3. isUnion = "NotInUnion" /\ isUnion \in Contexts
  BY <1>1 DEF BuildInv, FollowsInv, Contexts
<1>4. LeadAt(struct, i) # "-" /\ p.isUnion = "NotInUnion"
  BY <1>1, <1>2, <1>3 DEF FieldSeen
<1>5. p = FieldIn(struct, i, isUnion)
  BY DEF Field, FieldIn
<1>6. LegalKey(makeField(struct[i], p.tag)) /\ makeField(struct[i], p.tag) \in Types \X KeyBytes
  <2> HIDE DEF p
  <2> QED
    BY <1>1, <1>2, <1>3, <1>4, <1>5, KeyLegal
<1> HIDE DEF key
<1>7. AllLegal(keys')
  BY <1>1, <1>6, LegalKeyMore DEF LegalInv, key
<1> QED
  BY <1>1, <1>7 DEF LegalInv

(* An arm of a union.                                                       *)
LEMMA UnionArmLegal == IInv /\ BuildInv /\ LegalInv /\ UnionArm => LegalInv'
<1> SUFFICES ASSUME IInv, BuildInv, LegalInv, UnionArm PROVE LegalInv'
  OBVIOUS
<1> USE StructNow
<1> DEFINE key == makeField(struct[i], NextTag(Field.tag))
           p == Field
<1>1. /\ Reading /\ phase = "union" /\ p.ok /\ ~Skipped(p)
      /\ keys' = Append(keys, key) /\ struct' = struct /\ codec' \in {codec, "errorCodec"}
  BY DEF UnionArm, Return
<1>2. i \in 1..Len(struct) /\ FieldSeen(p, LeadAt(struct, i), struct[i].text)
  BY <1>1, FieldNow DEF IInv
<1>3. isUnion = "InUnion" /\ isUnion \in Contexts
  BY <1>1 DEF BuildInv, FollowsInv, Contexts
<1>4. LeadAt(struct, i) \in {"cases", "default"}
  BY <1>1, <1>2, <1>3 DEF FieldSeen
<1>5. p = FieldIn(struct, i, isUnion)
  BY DEF Field, FieldIn
<1>6. LegalKey(makeField(struct[i], NextTag(p.tag)))
      /\ makeField(struct[i], NextTag(p.tag)) \in Types \X KeyBytes
  <2>1. LeadAt(struct, i) # "-" /\ LeadAt(struct, i) # "none"
    BY <1>4
  <2> HIDE DEF p
  <2> QED
    BY <1>1, <1>2, <1>3, <1>5, <2>1, KeyLegal
<1> HIDE DEF key
<1>7. AllLegal(keys')
  BY <1>1, <1>6, LegalKeyMore DEF LegalInv, key
<1> QED
  BY <1>1, <1>7 DEF LegalInv

(* Every step of the loop.                                                  *)
LEMMA StepLegal == IInv /\ BuildInv /\ LegalInv /\ [Next]_vars => LegalInv'
<1> SUFFICES ASSUME IInv, BuildInv, LegalInv, [Next]_vars PROVE LegalInv'
  OBVIOUS
<1>1. CASE UNCHANGED vars
  BY <1>1 DEF vars, LegalInv
<1>2. CASE ParseError \/ SkipField \/ DecidingField \/ Finish
  <2>1. keys' = keys /\ struct' = struct /\ (codec' = "panic" => codec = "panic")
    BY <1>2 DEF ParseError, SkipField, DecidingField, Finish, Return
  <2> QED
    BY <2>1 DEF LegalInv
<1> QED
  BY <1>1, <1>2, SettleLegal, StructFieldLegal, UnionArmLegal DEF Next

(* Every key that the loop looks up is that of a legal tag of its type, and *)
(* the loop panics at a switch of the wrong width and at nothing else.      *)
THEOREM KeysAreLegal == Spec => []LegalInv
<1>1. Init => LegalInv
  <2>1. Len(<<>>) = 0 /\ \A k : k \notin 1..0
    OBVIOUS
  <2>2. AllLegal(<<>>)
    BY <2>1 DEF AllLegal
  <2> QED
    BY <2>2 DEF Init, LegalInv
<1>2. IInv /\ BuildInv /\ LegalInv /\ [Next]_vars => LegalInv'
  BY StepLegal
<1> QED
  BY <1>1, <1>2, Invariance, LoopFollows, PTL DEF Spec

(* buildCodec makes a codec of every key that the loop looks up, and of all *)
(* that is looked up for it, but for the disagreements that Disagree names. *)
(* A type that no tag speaks of, a channel say, has no codec whatever the   *)
(* tags: TypesBuild leaves such types out.                                  *)
THEOREM LegalTagsAgree ==
  ASSUME TypesBuild
  PROVE  Spec => []LegalTagsBuild
<1>1. IInv /\ LegalInv => LegalTagsBuild
  <2> SUFFICES ASSUME IInv, LegalInv PROVE LegalTagsBuild
    OBVIOUS
  <2> DEFINE start == {<<keys[j][1], Entries(keys[j][2])>> : j \in DOMAIN keys}
             all == Codecs!KeysFrom(start, LayersBelow)
  <2>1. start \subseteq LegalKeys
    <3>1. DOMAIN keys = 1..Len(keys)
      BY StructNow, LenProperties
    <3>2. \A j \in DOMAIN keys : IsLegal(<<keys[j][1], Entries(keys[j][2])>>)
      BY <3>1 DEF LegalInv, AllLegal, LegalKey
    <3> QED
      BY <3>2, LegalKeysFacts
  <2> HIDE DEF start
  <2>2. LayersBelow \in Nat
    BY DEF LayersBelow
  <2>3. all \subseteq LegalKeys
    BY <2>1, <2>2, KeysFromLegal
  <2> HIDE DEF all
  <2>4. \A k \in all : Codecs!OutcomeOf(k) # "codec" <=> Disagree(k)
    BY <2>3, LegalKeysFacts, LegalBuilds
  <2>5. codec = "panic" => PanicsAtSwitch(struct)
    BY DEF LegalInv
  <2> QED
    BY <2>4, <2>5 DEF LegalTagsBuild, PanicsAtSwitch, all, start
<1> QED
  BY <1>1, KeysAreLegal, Invariance, PTL
=============================================================================
