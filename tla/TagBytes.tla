------------------------------- MODULE TagBytes -------------------------------
(***************************************************************************)
(* Parsed struct tags as the bytes they are kept in (internal/tags/tags.go,*)
(* XDRTag): one entry after the other, outermost layer first.  An entry is *)
(* a kind byte; from 0x80 on a 32-bit value follows it, from 0xC0 on the   *)
(* number of its values and the values.  Nothing separates entries, and    *)
(* the bytes, as a string, are half of the key of a codec.                 *)
(***************************************************************************)
EXTENDS Naturals, SequencesExt

(* The kinds and their bytes, as iota numbers them.                         *)
KindByte ==
  [Noop |-> 0, Skip |-> 1, Opt |-> 2, Opaque |-> 3, UnionSwitch |-> 4,
   UnionDefault |-> 5, Len |-> 128 + 6, MaxLen |-> 128 + 7, UnionCases |-> 192 + 8]
KindNames == DOMAIN KindByte
KindNamed(b) == CHOOSE k \in KindNames : KindByte[k] = b

Valueless(b) == b < 128
SingleValued(b) == 128 \leq b /\ b < 192

(* A 32-bit number, most significant byte first, and the number at an       *)
(* offset, which counts from 0.                                             *)
Unreduced(v) ==                          \* a mutant of Word
  <<v \div 16777216, v \div 65536, v \div 256, v>>
Word(v) ==
  <<(v \div 16777216) % 256, (v \div 65536) % 256, (v \div 256) % 256, v % 256>>
valAt(t, offs) ==
  t[offs + 1] * 16777216 + t[offs + 2] * 65536 + t[offs + 3] * 256 + t[offs + 4]

Kind(t) == IF t = <<>> THEN KindByte.Noop ELSE t[1]

thisLen(t) ==
  CASE t = <<>> -> 0
    [] t # <<>> -> IF Valueless(t[1]) THEN 1
                   ELSE IF SingleValued(t[1]) THEN 5 ELSE 5 + valAt(t, 1) * 4

NextTag(t) == SubSeq(t, thisLen(t) + 1, Len(t))

(* OnlyValue, and Value for each index of ValueRange.                       *)
Values(t) ==
  IF Valueless(t[1]) THEN <<>>
  ELSE IF SingleValued(t[1]) THEN <<valAt(t, 1)>>
  ELSE [n \in 1..valAt(t, 1) |-> valAt(t, 1 + 4 * n)]

(* Append, for each of the three forms of an entry.                         *)
EntryBytes(k, values) ==
  LET b == KindByte[k]
      words == [i \in 1..(4 * Len(values)) |->
                  Word(values[(i + 3) \div 4])[((i - 1) % 4) + 1]]
  IN  <<b>> \o (IF Valueless(b) THEN <<>>
                ELSE IF SingleValued(b) THEN Word(values[1])
                ELSE Word(Len(values)) \o words)
AppendTag(t, k, values) == t \o EntryBytes(k, values)
Prepend(t, k, values) == EntryBytes(k, values) \o t

(* mark is where the last entry that is not a Noop ends; a 0 byte inside    *)
(* the value of an entry is none.                                           *)
Untrimmed(t) == t                        \* a mutant of TrimmedTag
TrimmedTag(t) ==
  LET loop[n \in 0..Len(t)] ==
        IF n = 0 THEN [ct |-> t, e |-> 0, mark |-> 0]
        ELSE LET l == loop[n - 1]
                 e == l.e + thisLen(l.ct)
             IN  IF l.ct = <<>> THEN l
                 ELSE [ct |-> NextTag(l.ct), e |-> e,
                       mark |-> IF Kind(l.ct) # KindByte.Noop THEN e ELSE l.mark]
  IN  SubSeq(t, 1, loop[Len(t)].mark)

(* The entries that Kind, Values and Next find in a tag, one by one, and    *)
(* the bytes of a sequence of entries.                                      *)
Entries(t) ==
  LET loop[n \in 0..Len(t)] ==
        IF n = 0 THEN [ct |-> t, found |-> <<>>]
        ELSE LET l == loop[n - 1]
             IN  IF l.ct = <<>> THEN l
                 ELSE [ct |-> NextTag(l.ct),
                       found |-> Append(l.found, [kind |-> KindNamed(Kind(l.ct)),
                                                  values |-> Values(l.ct)])]
  IN  loop[Len(t)].found
BytesOf(es) == FlattenSeq([k \in DOMAIN es |-> EntryBytes(es[k].kind, es[k].values)])

ByteString(t) == t
=============================================================================
