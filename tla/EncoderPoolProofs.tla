------------------------- MODULE EncoderPoolProofs -------------------------
(***************************************************************************)
(* What EncoderPool guarantees for any number of goroutines, coders, types *)
(* and pooled objects.  The argument: whatever an operation has taken from *)
(* a pool is in its frame and in no other, so that an encoder stays as     *)
(* reset has set it up until the operation has returned.                   *)
(***************************************************************************)
EXTENDS EncoderPool, SequenceFacts

-----------------------------------------------------------------------------
(* The inductive invariant.                                                 *)
Chunk == ([coder : Coder, type : Type] \X Nat) \cup {Nothing}
Items == [do : {"write", "string", "encode", "marshal", "fail", "panic"},
          type : Type \cup {Nothing}, chunk : Chunk]
Item == {x \in Items : x.do \in {"encode", "marshal"} => x.type \in Type}

Entry == [type : Type \cup {Nothing}, codec : [coder : Coder, type : Type] \cup {Nothing}]
Object ==
  [place : {"free", "pooled", "held"}, cr : Coder \cup {Nothing},
   w : Sink \cup {Nothing}, ws : Sink \cup {Nothing},
   cache : [Slots -> Entry], slot : Slots]
FrameSet ==
  [op : {"Marshal", "Write", "NewEncoder"}, cr : Coder, enc : Encoder \cup {Nothing},
   buf : BufWriter \cup {Nothing}, dst : Sink, types : Seq(Type), work : Seq(Item),
   status : {"run", "flush", "failed", "error", "panic"}]

Typed ==
  /\ encoder \in [Encoder -> Object]
  /\ bufio \in [BufWriter -> [place : {"free", "pooled", "held"}, dst : Writer \cup {Nothing}]]
  /\ data \in [Sink -> Seq(Chunk)]
  /\ \A b \in BufWriter : Len(data[b]) \leq BufSize
  /\ stack \in [Goroutine -> Seq(FrameSet)]
  /\ begun \in 0..MaxBegun

(* What an operation has, by its kind and its progress.                     *)
KindOK(f) ==
  /\ f.op = "Marshal" => f.enc \in MarshalEnc /\ f.dst = f.enc
  /\ f.op # "Marshal" => f.enc \in Enc \cup {Nothing} /\ f.dst \in Writer
  /\ f.op # "Write" => f.buf = Nothing
  /\ f.enc = Nothing <=> f.status \in {"flush", "failed"}
  /\ f.status \in {"flush", "failed"} => f.op = "Write"

(* An operation that called another is in a MarshalXDR method.              *)
CallsMarshal(f) == f.status = "run" /\ f.work # <<>> /\ Head(f.work).do = "marshal"

FramesOK ==
  \A g \in Goroutine : \A i \in DOMAIN stack[g] :
    KindOK(stack[g][i]) /\ (i < Len(stack[g]) => CallsMarshal(stack[g][i]))

(* The encoder of an operation is the way reset has set it up, and so is    *)
(* its bufio.Writer.                                                        *)
Target(f) == IF f.buf = Nothing THEN f.dst ELSE f.buf
EncoderIsOf(f) ==
  f.enc # Nothing =>
    LET obj == encoder[f.enc]
    IN  obj.place = "held" /\ obj.cr = f.cr /\ obj.w = Target(f) /\ obj.ws \in {Target(f), Nothing}
BufioIsOf(f) == f.buf # Nothing => bufio[f.buf] = [place |-> "held", dst |-> f.dst]

ObjectsOK ==
  \A g \in Goroutine : \A i \in DOMAIN stack[g] :
    EncoderIsOf(stack[g][i]) /\ BufioIsOf(stack[g][i])

(* Two operations share nothing, and what is in use is used by one.         *)
Apart(f1, f2) ==
  /\ f1.enc = f2.enc => f1.enc = Nothing
  /\ f1.buf = f2.buf => f1.buf = Nothing
  /\ f1.dst # f2.dst
AllApart ==
  \A g, h \in Goroutine : \A i \in DOMAIN stack[g], j \in DOMAIN stack[h] :
    g # h \/ i # j => Apart(stack[g][i], stack[h][j])

HeldByOne ==
  /\ \A e \in Encoder : encoder[e].place = "held" =>
       \E g \in Goroutine : \E i \in DOMAIN stack[g] : stack[g][i].enc = e
  /\ \A b \in BufWriter : bufio[b].place = "held" =>
       \E g \in Goroutine : \E i \in DOMAIN stack[g] : stack[g][i].buf = b

(* A marshalEncoder writes to its own buffer, which is empty between uses.  *)
MarshalEncodersOK ==
  \A e \in MarshalEnc :
    /\ encoder[e].w = e /\ encoder[e].ws = e
    /\ encoder[e].place # "held" => data[e] = <<>>

(* Every operation has been begun.                                          *)
StacksBounded == \A g \in Goroutine : Len(stack[g]) \leq begun

FramesInv == FramesOK /\ ObjectsOK /\ AllApart /\ HeldByOne

IInv == Typed /\ FramesInv /\ MarshalEncodersOK /\ StacksBounded /\ CacheIsCurrent

-----------------------------------------------------------------------------
(* How the stacks of frames change.                                         *)
LEMMA TopFacts ==
  ASSUME Typed, NEW g \in Goroutine
  PROVE  /\ stack[g] \in Seq(FrameSet) /\ Len(stack[g]) \in Nat
         /\ DOMAIN stack[g] = 1..Len(stack[g])
         /\ \A i \in DOMAIN stack[g] : stack[g][i] \in FrameSet
         /\ Busy(g) => /\ Len(stack[g]) \in DOMAIN stack[g]
                       /\ Top(g) = stack[g][Len(stack[g])] /\ Top(g) \in FrameSet
<1>1. stack[g] \in Seq(FrameSet)
  BY DEF Typed
<1>2. /\ Len(stack[g]) \in Nat /\ DOMAIN stack[g] = 1..Len(stack[g])
      /\ \A i \in DOMAIN stack[g] : stack[g][i] \in FrameSet
  BY <1>1, LenProperties
<1>3. Busy(g) => /\ Len(stack[g]) \in DOMAIN stack[g]
                 /\ Top(g) = stack[g][Len(stack[g])] /\ Top(g) \in FrameSet
  BY <1>1, FrontFacts DEF Busy, Top
<1> QED
  BY <1>1, <1>2, <1>3

(* The innermost operation of g goes on.                                    *)
LEMMA WithTopFacts ==
  ASSUME Typed, NEW g \in Goroutine, Busy(g), NEW f \in FrameSet, stack' = WithTop(g, f)
  PROVE  /\ stack' \in [Goroutine -> Seq(FrameSet)]
         /\ \A h \in Goroutine :
              /\ Len(stack'[h]) = Len(stack[h]) /\ DOMAIN stack'[h] = DOMAIN stack[h]
              /\ \A i \in DOMAIN stack[h] :
                   stack'[h][i] = IF h = g /\ i = Len(stack[g]) THEN f ELSE stack[h][i]
<1> DEFINE s == Append(Front(stack[g]), f)
<1>1. /\ s \in Seq(FrameSet) /\ Len(s) = Len(stack[g]) /\ DOMAIN s = DOMAIN stack[g]
      /\ \A i \in DOMAIN stack[g] : s[i] = IF i = Len(stack[g]) THEN f ELSE stack[g][i]
  BY TopFacts, ReplaceLast DEF Busy
<1>2. stack' = [stack EXCEPT ![g] = s] /\ stack \in [Goroutine -> Seq(FrameSet)]
  BY DEF WithTop, Typed
<1> HIDE DEF s
<1> QED
  BY <1>1, <1>2

(* An operation is begun.                                                   *)
LEMMA PushFacts ==
  ASSUME Typed, NEW g \in Goroutine, NEW f \in FrameSet,
         stack' = [stack EXCEPT ![g] = Append(@, f)]
  PROVE  /\ stack' \in [Goroutine -> Seq(FrameSet)]
         /\ \A h \in Goroutine : h # g => stack'[h] = stack[h]
         /\ Len(stack'[g]) = Len(stack[g]) + 1
         /\ DOMAIN stack'[g] = 1..(Len(stack[g]) + 1)
         /\ \A i \in 1..Len(stack[g]) : stack'[g][i] = stack[g][i]
         /\ stack'[g][Len(stack[g]) + 1] = f
<1> DEFINE s == Append(stack[g], f)
<1>1. /\ s \in Seq(FrameSet) /\ Len(s) = Len(stack[g]) + 1
      /\ \A i \in 1..Len(stack[g]) : s[i] = stack[g][i]
      /\ s[Len(stack[g]) + 1] = f
  BY TopFacts, AppendProperties
<1>2. DOMAIN s = 1..Len(s)
  BY <1>1, LenProperties
<1>3. stack' = [stack EXCEPT ![g] = s] /\ stack \in [Goroutine -> Seq(FrameSet)]
  BY DEF Typed
<1> HIDE DEF s
<1> QED
  BY <1>1, <1>2, <1>3

(* The frame of the caller, when what it has called returns.                *)
Resumed(f, status) ==
  IF status = "panic" THEN [f EXCEPT !.status = "panic"] ELSE [f EXCEPT !.work = Tail(@)]

(* A resumed operation has what it had before.                              *)
LEMMA ResumedFacts ==
  ASSUME NEW f \in FrameSet, CallsMarshal(f), NEW status
  PROVE  /\ Resumed(f, status) \in FrameSet
         /\ KindOK(f) => KindOK(Resumed(f, status))
         /\ Resumed(f, status).op = f.op /\ Resumed(f, status).cr = f.cr
         /\ Resumed(f, status).enc = f.enc /\ Resumed(f, status).buf = f.buf
         /\ Resumed(f, status).dst = f.dst /\ Resumed(f, status).types = f.types
<1>1. f.work \in Seq(Item) /\ Tail(f.work) \in Seq(Item)
  BY HeadTailProperties DEF FrameSet, CallsMarshal
<1> QED
  BY <1>1 DEF FrameSet, Resumed, KindOK, CallsMarshal

(* An operation returns, and the one that called it is resumed.             *)
LEMMA ReturnFacts ==
  ASSUME Typed, FramesOK, NEW g \in Goroutine, Busy(g), NEW status, NEW out,
         ReturnTo(g, Top(g), status, out)
  PROVE  LET n == Len(stack[g]) - 1
         IN  /\ stack' \in [Goroutine -> Seq(FrameSet)]
             /\ \A h \in Goroutine : h # g => stack'[h] = stack[h]
             /\ n \in Nat /\ Len(stack'[g]) = n /\ DOMAIN stack'[g] = 1..n
             /\ \A i \in 1..n :
                  stack'[g][i] = IF i = n THEN Resumed(stack[g][n], status) ELSE stack[g][i]
<1> DEFINE n == Len(stack[g]) - 1
           callers == Front(stack[g])
<1>1. /\ n \in Nat /\ callers \in Seq(FrameSet) /\ Len(callers) = n
      /\ \A i \in 1..n : callers[i] = stack[g][i]
  BY TopFacts, FrontFacts DEF Busy
<1>0. n + 1 = Len(stack[g]) /\ DOMAIN stack[g] = 1..(n + 1)
      /\ \A i \in 1..(n + 1) : stack[g][i] \in FrameSet
  BY <1>1, TopFacts
<1>2. stack \in [Goroutine -> Seq(FrameSet)]
  BY DEF Typed
<1>3. CASE n = 0
  <2>1. callers = <<>>
    BY <1>1, <1>3, EmptySeq
  <2>2. stack' = [stack EXCEPT ![g] = <<>>]
    BY <2>1 DEF ReturnTo
  <2>3. <<>> \in Seq(FrameSet) /\ Len(<<>>) = 0 /\ DOMAIN <<>> = {}
    OBVIOUS
  <2> QED
    BY <1>1, <1>2, <1>3, <2>2, <2>3
<1>4. CASE n # 0
  <2> DEFINE c == Resumed(stack[g][n], status)
             s == Append(Front(callers), c)
  <2>1. callers # <<>>
    BY <1>1, <1>4
  <2> HIDE DEF n
  <2>2. Last(callers) = stack[g][n]
    <3> HIDE DEF callers
    <3>1. Last(callers) = callers[n]
      BY <1>1, <2>1, FrontFacts
    <3> QED
      BY <1>1, <1>4, <3>1
  <2>3. n \in DOMAIN stack[g] /\ n < Len(stack[g]) /\ stack[g][n] \in FrameSet
    BY <1>0, <1>1, <1>4
  <2>4. c \in FrameSet
    BY <2>3, ResumedFacts DEF FramesOK
  <2>5. stack' = [stack EXCEPT ![g] = s]
    BY <2>1, <2>2 DEF ReturnTo, Resumed
  <2>6. /\ s \in Seq(FrameSet) /\ Len(s) = n /\ DOMAIN s = 1..n
        /\ \A i \in 1..n : s[i] = IF i = n THEN c ELSE callers[i]
    BY <1>1, <2>1, <2>4, ReplaceLast
  <2> HIDE DEF c, s
  <2> QED
    BY <1>0, <1>1, <1>2, <2>5, <2>6 DEF c, n
<1> QED
  BY <1>3, <1>4

-----------------------------------------------------------------------------
(* What the frames have, after a step of the innermost operation.           *)
(* The operation goes on, with what it has, or without its encoder, which   *)
(* has been put back then.                                                  *)
LEMMA TopStep ==
  ASSUME Typed, FramesInv, NEW g \in Goroutine, Busy(g),
         NEW f \in FrameSet, stack' = WithTop(g, f), KindOK(f),
         f.cr = Top(g).cr, f.buf = Top(g).buf, f.dst = Top(g).dst,
         f.enc \in {Top(g).enc, Nothing},
         bufio' = bufio,
         \A e \in Encoder :
           IF e = Top(g).enc /\ f.enc = Nothing
           THEN encoder'[e].place # "held"
           ELSE /\ encoder'[e].place = encoder[e].place /\ encoder'[e].cr = encoder[e].cr
                /\ encoder'[e].w = encoder[e].w /\ encoder'[e].ws = encoder[e].ws
  PROVE  FramesInv'
<1> DEFINE n == Len(stack[g])
<1>1. /\ n \in DOMAIN stack[g] /\ Top(g) = stack[g][n] /\ Top(g) \in FrameSet
      /\ n \in Nat /\ DOMAIN stack[g] = 1..n
  BY TopFacts
<1>2. /\ stack' \in [Goroutine -> Seq(FrameSet)]
      /\ \A h \in Goroutine :
           /\ Len(stack'[h]) = Len(stack[h]) /\ DOMAIN stack'[h] = DOMAIN stack[h]
           /\ \A i \in DOMAIN stack[h] :
                stack'[h][i] = IF h = g /\ i = n THEN f ELSE stack[h][i]
  BY WithTopFacts
<1>3. \A h \in Goroutine : \A i \in DOMAIN stack[h] :
        /\ stack'[h][i].cr = stack[h][i].cr /\ stack'[h][i].buf = stack[h][i].buf
        /\ stack'[h][i].dst = stack[h][i].dst
        /\ stack'[h][i].enc \in {stack[h][i].enc, Nothing}
        /\ h # g \/ i # n => stack'[h][i] = stack[h][i]
  BY <1>1, <1>2
<1>4. \A h \in Goroutine : \A i \in DOMAIN stack[h] : stack[h][i] \in FrameSet
  BY TopFacts
<1>5. stack'[g][n] = f
  BY <1>1, <1>2
<1> HIDE DEF n
<1>6. FramesOK'
  <2> SUFFICES ASSUME NEW h \in Goroutine, NEW i \in DOMAIN stack'[h]
               PROVE  KindOK(stack'[h][i]) /\ (i < Len(stack'[h]) => CallsMarshal(stack'[h][i]))
    BY DEF FramesOK, KindOK, CallsMarshal
  <2>1. CASE h = g /\ i = n
    BY <1>1, <1>2, <2>1 DEF n
  <2>2. CASE ~(h = g /\ i = n)
    BY <1>2, <2>2 DEF FramesInv, FramesOK
  <2> QED
    BY <2>1, <2>2
<1>7. AllApart'
  <2> SUFFICES ASSUME NEW h1 \in Goroutine, NEW h2 \in Goroutine,
                      NEW i \in DOMAIN stack[h1], NEW j \in DOMAIN stack[h2], h1 # h2 \/ i # j
               PROVE  Apart(stack'[h1][i], stack'[h2][j])
    BY <1>2 DEF AllApart, Apart
  <2>1. Apart(stack[h1][i], stack[h2][j])
    BY DEF FramesInv, AllApart
  <2> QED
    BY <1>3, <2>1 DEF Apart
<1>8. ObjectsOK'
  <2> SUFFICES ASSUME NEW h \in Goroutine, NEW i \in DOMAIN stack[h]
               PROVE  EncoderIsOf(stack[h][i])' /\ BufioIsOf(stack[h][i])'
    BY <1>2 DEF ObjectsOK, EncoderIsOf, BufioIsOf, Target
  <2>1. EncoderIsOf(stack[h][i]) /\ BufioIsOf(stack[h][i])
    BY DEF FramesInv, ObjectsOK
  <2>2. BufioIsOf(stack[h][i])'
    BY <1>3, <2>1 DEF BufioIsOf
  <2>3. ASSUME stack'[h][i].enc # Nothing
        PROVE  ~(stack'[h][i].enc = Top(g).enc /\ f.enc = Nothing)
    <3>1. CASE h = g /\ i = n
      BY <1>5, <2>3, <3>1
    <3>2. CASE h # g \/ i # n
      <4>1. Apart(stack[h][i], stack[g][n])
        BY <1>1, <3>2 DEF FramesInv, AllApart
      <4> QED
        BY <1>1, <1>3, <2>3, <3>2, <4>1 DEF Apart
    <3> QED
      BY <3>1, <3>2
  <2>4. EncoderIsOf(stack[h][i])'
    BY <1>3, <1>4, <2>1, <2>3, SMTT(30) DEF EncoderIsOf, Target, FrameSet
  <2> QED
    BY <2>2, <2>4
<1>9. HeldByOne'
  <2>1. ASSUME NEW e \in Encoder, encoder'[e].place = "held"
        PROVE  \E h \in Goroutine : \E i \in DOMAIN stack'[h] : stack'[h][i].enc = e
    <3>1. ~(e = Top(g).enc /\ f.enc = Nothing) /\ encoder[e].place = "held"
      BY <2>1
    <3>2. PICK h \in Goroutine : \E i \in DOMAIN stack[h] : stack[h][i].enc = e
      BY <3>1 DEF FramesInv, HeldByOne
    <3>3. PICK i \in DOMAIN stack[h] : stack[h][i].enc = e
      BY <3>2
    <3>4. stack'[h][i].enc = e
      BY <1>1, <1>2, <3>1, <3>3
    <3> QED
      BY <1>2, <3>4
  <2>2. ASSUME NEW b \in BufWriter, bufio'[b].place = "held"
        PROVE  \E h \in Goroutine : \E i \in DOMAIN stack'[h] : stack'[h][i].buf = b
    <3>1. PICK h \in Goroutine : \E i \in DOMAIN stack[h] : stack[h][i].buf = b
      BY <2>2 DEF FramesInv, HeldByOne
    <3> QED
      BY <1>2, <1>3, <3>1
  <2> QED
    BY <2>1, <2>2 DEF HeldByOne
<1> QED
  BY <1>6, <1>7, <1>8, <1>9 DEF FramesInv

(* An operation begins, with an encoder and a bufio.Writer nobody had.      *)
LEMMA BeginStep ==
  ASSUME Typed, FramesInv, NEW g \in Goroutine, NEW f \in FrameSet,
         stack' = [stack EXCEPT ![g] = Append(@, f)],
         Busy(g) => CallsMarshal(Top(g)), KindOK(f),
         \A h \in Goroutine : \A i \in DOMAIN stack[h] : Apart(stack[h][i], f),
         EncoderIsOf(f)', BufioIsOf(f)',
         \A e \in Encoder : e # f.enc => encoder'[e] = encoder[e],
         \A b \in BufWriter : b # f.buf => bufio'[b] = bufio[b]
  PROVE  FramesInv'
<1> DEFINE n == Len(stack[g])
<1>1. /\ n \in Nat /\ DOMAIN stack[g] = 1..n
      /\ Busy(g) => n \in DOMAIN stack[g] /\ Top(g) = stack[g][n]
  BY TopFacts
<1>2. /\ stack' \in [Goroutine -> Seq(FrameSet)]
      /\ \A h \in Goroutine : h # g => stack'[h] = stack[h]
      /\ Len(stack'[g]) = n + 1 /\ DOMAIN stack'[g] = 1..(n + 1)
      /\ \A i \in 1..n : stack'[g][i] = stack[g][i]
      /\ stack'[g][n + 1] = f
  BY PushFacts
<1>3. n = 0 \/ Busy(g)
  BY <1>1, EmptySeq DEF Busy
<1>9. Len(stack[g]) = n
  OBVIOUS
<1> HIDE DEF n
(* A frame is the new one or it was there before.                           *)
<1>4. \A h \in Goroutine : \A i \in DOMAIN stack'[h] :
        \/ h = g /\ i = n + 1 /\ stack'[h][i] = f
        \/ i \in DOMAIN stack[h] /\ stack'[h][i] = stack[h][i] /\ ~(h = g /\ i = n + 1)
  BY <1>1, <1>2
<1>5. \A h \in Goroutine : \A i \in DOMAIN stack[h] :
        i \in DOMAIN stack'[h] /\ stack'[h][i] = stack[h][i] /\ stack[h][i] \in FrameSet
  <2>1. \A h \in Goroutine : \A i \in DOMAIN stack[h] : stack[h][i] \in FrameSet
    BY TopFacts
  <2> QED
    BY <1>1, <1>2, <2>1
<1>6. FramesOK'
  <2> SUFFICES ASSUME NEW h \in Goroutine, NEW i \in DOMAIN stack'[h]
               PROVE  KindOK(stack'[h][i]) /\ (i < Len(stack'[h]) => CallsMarshal(stack'[h][i]))
    BY DEF FramesOK, KindOK, CallsMarshal
  <2>1. CASE h = g /\ i = n + 1 /\ stack'[h][i] = f
    BY <1>1, <1>2, <2>1
  <2>2. CASE i \in DOMAIN stack[h] /\ stack'[h][i] = stack[h][i] /\ ~(h = g /\ i = n + 1)
    <3>1. KindOK(stack[h][i]) /\ (i < Len(stack[h]) => CallsMarshal(stack[h][i]))
      BY <2>2 DEF FramesInv, FramesOK
    <3>2. CASE h # g
      BY <1>2, <2>2, <3>1, <3>2
    <3>3. CASE h = g
      <4>1. i \in 1..n /\ n # 0
        BY <1>1, <2>2, <3>3
      <4>2. Busy(g) /\ CallsMarshal(stack[g][n])
        BY <1>1, <1>3, <4>1
      <4> QED
        BY <1>1, <1>9, <2>2, <3>1, <3>3, <4>1, <4>2
    <3> QED
      BY <3>2, <3>3
  <2> QED
    BY <1>4, <2>1, <2>2
<1>7. AllApart'
  <2> SUFFICES ASSUME NEW h1 \in Goroutine, NEW h2 \in Goroutine,
                      NEW i \in DOMAIN stack'[h1], NEW j \in DOMAIN stack'[h2], h1 # h2 \/ i # j
               PROVE  Apart(stack'[h1][i], stack'[h2][j])
    BY DEF AllApart, Apart
  <2> QED
    BY <1>4 DEF FramesInv, AllApart, Apart
<1>8. ObjectsOK'
  <2> SUFFICES ASSUME NEW h \in Goroutine, NEW i \in DOMAIN stack'[h]
               PROVE  EncoderIsOf(stack[h][i])' /\ BufioIsOf(stack[h][i])'
    BY DEF ObjectsOK
  <2>1. CASE h = g /\ i = n + 1 /\ stack'[h][i] = f
    BY <2>1 DEF EncoderIsOf, BufioIsOf, Target
  <2>2. CASE i \in DOMAIN stack[h] /\ stack'[h][i] = stack[h][i]
    <3>1. EncoderIsOf(stack[h][i]) /\ BufioIsOf(stack[h][i]) /\ Apart(stack[h][i], f)
      BY <2>2 DEF FramesInv, ObjectsOK
    <3>2. stack[h][i].enc \in Encoder \cup {Nothing} /\ stack[h][i].buf \in BufWriter \cup {Nothing}
      BY <1>5, <2>2 DEF FrameSet
    <3> QED
      BY <2>2, <3>1, <3>2, ZenonT(40) DEF EncoderIsOf, BufioIsOf, Target, Apart
  <2> QED
    BY <1>4, <2>1, <2>2
<1>10. HeldByOne'
  <2>1. ASSUME NEW e \in Encoder, encoder'[e].place = "held"
        PROVE  \E h \in Goroutine : \E i \in DOMAIN stack'[h] : stack'[h][i].enc = e
    <3>1. CASE e = f.enc
      BY <1>1, <1>2, <3>1
    <3>2. CASE e # f.enc
      <4>1. PICK h \in Goroutine : \E i \in DOMAIN stack[h] : stack[h][i].enc = e
        BY <2>1, <3>2 DEF FramesInv, HeldByOne
      <4> QED
        BY <1>5, <4>1
    <3> QED
      BY <3>1, <3>2
  <2>2. ASSUME NEW b \in BufWriter, bufio'[b].place = "held"
        PROVE  \E h \in Goroutine : \E i \in DOMAIN stack'[h] : stack'[h][i].buf = b
    <3>1. CASE b = f.buf
      BY <1>1, <1>2, <3>1
    <3>2. CASE b # f.buf
      <4>1. PICK h \in Goroutine : \E i \in DOMAIN stack[h] : stack[h][i].buf = b
        BY <2>2, <3>2 DEF FramesInv, HeldByOne
      <4> QED
        BY <1>5, <4>1
    <3> QED
      BY <3>1, <3>2
  <2> QED
    BY <2>1, <2>2 DEF HeldByOne
<1> QED
  BY <1>6, <1>7, <1>8, <1>10 DEF FramesInv

(* An operation returns, and nobody has any more what it had.               *)
LEMMA ReturnStep ==
  ASSUME Typed, FramesInv, NEW g \in Goroutine, Busy(g), NEW status, NEW out,
         ReturnTo(g, Top(g), status, out),
         \A e \in Encoder : IF e = Top(g).enc THEN encoder'[e].place # "held"
                                              ELSE encoder'[e] = encoder[e],
         \A b \in BufWriter : IF b = Top(g).buf THEN bufio'[b].place # "held"
                                                ELSE bufio'[b] = bufio[b]
  PROVE  FramesInv'
<1> DEFINE n == Len(stack[g]) - 1
           r == Resumed(stack[g][n], status)
<1>1. /\ stack' \in [Goroutine -> Seq(FrameSet)]
      /\ \A h \in Goroutine : h # g => stack'[h] = stack[h]
      /\ n \in Nat /\ Len(stack'[g]) = n /\ DOMAIN stack'[g] = 1..n
      /\ \A i \in 1..n : stack'[g][i] = IF i = n THEN r ELSE stack[g][i]
  BY ReturnFacts DEF FramesInv
<1>2. /\ n + 1 = Len(stack[g]) /\ DOMAIN stack[g] = 1..(n + 1) /\ Top(g) = stack[g][n + 1]
  BY <1>1, TopFacts
<1>3. \A h \in Goroutine : \A i \in DOMAIN stack[h] : stack[h][i] \in FrameSet
  BY TopFacts
<1>4. n # 0 => /\ CallsMarshal(stack[g][n]) /\ KindOK(stack[g][n]) /\ stack[g][n] \in FrameSet
  <2> HIDE DEF n
  <2>1. n # 0 => n \in DOMAIN stack[g] /\ n < Len(stack[g])
    BY <1>1, <1>2
  <2> QED
    BY <1>3, <2>1 DEF FramesInv, FramesOK
<1>5. n # 0 => /\ KindOK(r)
               /\ r.cr = stack[g][n].cr /\ r.enc = stack[g][n].enc
               /\ r.buf = stack[g][n].buf /\ r.dst = stack[g][n].dst
  BY <1>4, ResumedFacts
<1> HIDE DEF n, r
<1>6. \A h \in Goroutine : \A i \in DOMAIN stack'[h] :
        /\ i \in DOMAIN stack[h] /\ (h # g \/ i # n + 1)
        /\ KindOK(stack'[h][i])
        /\ stack'[h][i].cr = stack[h][i].cr /\ stack'[h][i].enc = stack[h][i].enc
        /\ stack'[h][i].buf = stack[h][i].buf /\ stack'[h][i].dst = stack[h][i].dst
        /\ i < Len(stack'[h]) => i < Len(stack[h]) /\ stack'[h][i] = stack[h][i]
  <2> SUFFICES ASSUME NEW h \in Goroutine, NEW i \in DOMAIN stack'[h]
               PROVE  /\ i \in DOMAIN stack[h] /\ (h # g \/ i # n + 1)
                      /\ KindOK(stack'[h][i])
                      /\ stack'[h][i].cr = stack[h][i].cr /\ stack'[h][i].enc = stack[h][i].enc
                      /\ stack'[h][i].buf = stack[h][i].buf /\ stack'[h][i].dst = stack[h][i].dst
                      /\ i < Len(stack'[h]) => i < Len(stack[h]) /\ stack'[h][i] = stack[h][i]
    OBVIOUS
  <2>1. CASE h # g
    BY <1>1, <2>1 DEF FramesInv, FramesOK
  <2>2. CASE h = g
    <3>1. i \in 1..n /\ i \in DOMAIN stack[g]
      BY <1>1, <1>2, <2>2
    <3>2. CASE i = n
      BY <1>1, <1>2, <1>5, <2>2, <3>1, <3>2
    <3>3. CASE i # n
      BY <1>1, <1>2, <2>2, <3>1, <3>3 DEF FramesInv, FramesOK
    <3> QED
      BY <3>2, <3>3
  <2> QED
    BY <2>1, <2>2
<1>7. FramesOK'
  <2> SUFFICES ASSUME NEW h \in Goroutine, NEW i \in DOMAIN stack'[h]
               PROVE  KindOK(stack'[h][i]) /\ (i < Len(stack'[h]) => CallsMarshal(stack'[h][i]))
    BY DEF FramesOK, KindOK, CallsMarshal
  <2> QED
    BY <1>6 DEF FramesInv, FramesOK
<1>8. AllApart'
  <2> SUFFICES ASSUME NEW h1 \in Goroutine, NEW h2 \in Goroutine,
                      NEW i \in DOMAIN stack'[h1], NEW j \in DOMAIN stack'[h2], h1 # h2 \/ i # j
               PROVE  Apart(stack'[h1][i], stack'[h2][j])
    BY DEF AllApart, Apart
  <2>1. Apart(stack[h1][i], stack[h2][j])
    BY <1>6 DEF FramesInv, AllApart
  <2> QED
    BY <1>6, <2>1 DEF Apart
<1>9. ObjectsOK'
  <2> SUFFICES ASSUME NEW h \in Goroutine, NEW i \in DOMAIN stack'[h]
               PROVE  EncoderIsOf(stack[h][i])' /\ BufioIsOf(stack[h][i])'
    BY DEF ObjectsOK
  <2>1. EncoderIsOf(stack[h][i]) /\ BufioIsOf(stack[h][i])
    BY <1>6 DEF FramesInv, ObjectsOK
  <2>2. Apart(stack[h][i], Top(g))
    BY <1>1, <1>2, <1>6 DEF FramesInv, AllApart
  <2>3. stack[h][i].enc \in Encoder \cup {Nothing} /\ stack[h][i].buf \in BufWriter \cup {Nothing}
    BY <1>3, <1>6 DEF FrameSet
  <2> QED
    BY <1>6, <2>1, <2>2, <2>3 DEF EncoderIsOf, BufioIsOf, Target, Apart
<1>10. HeldByOne'
  <2> DEFINE Same(h, i) == i \in DOMAIN stack'[h] /\ stack'[h][i].enc = stack[h][i].enc
                                                  /\ stack'[h][i].buf = stack[h][i].buf
  <2>0. \A h \in Goroutine : \A i \in DOMAIN stack[h] : Same(h, i) \/ (h = g /\ i = n + 1)
    BY <1>1, <1>2, <1>6
  <2>1. ASSUME NEW e \in Encoder, encoder'[e].place = "held"
        PROVE  \E h \in Goroutine : \E i \in DOMAIN stack'[h] : stack'[h][i].enc = e
    <3>1. e # Top(g).enc /\ encoder'[e] = encoder[e]
      BY <2>1
    <3>2. PICK h \in Goroutine : \E i \in DOMAIN stack[h] : stack[h][i].enc = e
      BY <2>1, <3>1 DEF FramesInv, HeldByOne
    <3> QED
      BY <1>2, <2>0, <3>1, <3>2
  <2>2. ASSUME NEW b \in BufWriter, bufio'[b].place = "held"
        PROVE  \E h \in Goroutine : \E i \in DOMAIN stack'[h] : stack'[h][i].buf = b
    <3>1. b # Top(g).buf /\ bufio'[b] = bufio[b]
      BY <2>2
    <3>2. PICK h \in Goroutine : \E i \in DOMAIN stack[h] : stack[h][i].buf = b
      BY <2>2, <3>1 DEF FramesInv, HeldByOne
    <3> QED
      BY <1>2, <2>0, <3>1, <3>2
  <2> QED
    BY <2>1, <2>2 DEF HeldByOne
<1> QED
  BY <1>7, <1>8, <1>9, <1>10 DEF FramesInv

-----------------------------------------------------------------------------
(* The encoders.                                                            *)
Current(obj) ==
  \A i \in Slots : obj.cache[i].type # Nothing =>
    /\ obj.cache[i].codec = codecFor(obj.cr, obj.cache[i].type)
    /\ \A j \in Slots : obj.cache[j].type = obj.cache[i].type => j = i

(* CacheIsCurrent, encoder by encoder.                                      *)
LEMMA CacheIsCurrentByObject == CacheIsCurrent <=> \A e \in Encoder : Current(encoder[e])
BY DEF CacheIsCurrent, Current

(* What newEncoder, encoder.reset and marshalEncoder.reset leave behind.    *)
LEMMA ObjectFacts ==
  ASSUME NEW e \in Encoder, NEW obj \in Object, NEW cr \in Coder, NEW w \in Sink
  PROVE  /\ NewObject(e) \in Object /\ Current(NewObject(e))
         /\ ResetEncoder(obj, cr, w) \in Object /\ ResetMarshalEncoder(obj, cr) \in Object
         /\ Current(obj) => /\ Current(ResetEncoder(obj, cr, w))
                            /\ Current(ResetMarshalEncoder(obj, cr))
<1> DEFINE none == [i \in Slots |-> NoEntry]
<1>1. none \in [Slots -> Entry] /\ \A i \in Slots : none[i].type = Nothing
  BY DEF Entry, NoEntry
<1>2. CacheSize - 1 \in Slots
  BY PoolAssumption DEF Slots
<1>3. CacheFor(obj, cr) = IF obj.cr # cr THEN none ELSE obj.cache
  BY DEF CacheFor
<1>4. NewObject(e).cache = none
  BY DEF NewObject
<1>5. NewObject(e) \in Object
  BY <1>1, <1>2 DEF NewObject, Object, Sink
<1> HIDE DEF none
<1>6. CacheFor(obj, cr) \in [Slots -> Entry]
  BY <1>1, <1>3 DEF Object
<1>7. /\ ResetEncoder(obj, cr, w) \in Object
      /\ ResetEncoder(obj, cr, w).cr = cr /\ ResetEncoder(obj, cr, w).cache = CacheFor(obj, cr)
  BY <1>6 DEF ResetEncoder, Object
<1>8. /\ ResetMarshalEncoder(obj, cr) \in Object
      /\ ResetMarshalEncoder(obj, cr).cr = cr
      /\ ResetMarshalEncoder(obj, cr).cache = CacheFor(obj, cr)
  BY <1>6 DEF ResetMarshalEncoder, Object
<1>9. Current(NewObject(e))
  BY <1>1, <1>4 DEF Current
<1>10. ASSUME NEW o \in Object, Current(obj), o.cr = cr, o.cache = CacheFor(obj, cr)
       PROVE  Current(o)
  BY <1>1, <1>3, <1>10 DEF Current
<1> QED
  BY <1>5, <1>7, <1>8, <1>9, <1>10

(* An operation that runs has an encoder of its own, set up for it: what it *)
(* writes goes to its own buffer or to its own writer.                      *)
LEMMA RunningFacts ==
  ASSUME IInv, NEW g \in Goroutine, Running(g)
  PROVE  /\ Busy(g) /\ Top(g) \in FrameSet /\ KindOK(Top(g))
         /\ Top(g).status = "run" /\ Top(g).enc \in Encoder
         /\ EncoderIsOf(Top(g)) /\ BufioIsOf(Top(g))
         /\ Target(Top(g)) \in Sink
         /\ \A kind : SinkOf(encoder[Top(g).enc], kind) = Target(Top(g))
<1>1. /\ Busy(g) /\ Top(g).status = "run" /\ Top(g) \in FrameSet
      /\ KindOK(Top(g)) /\ EncoderIsOf(Top(g)) /\ BufioIsOf(Top(g))
  BY TopFacts DEF Running, IInv, FramesInv, FramesOK, ObjectsOK
<1>2. Target(Top(g)) \in Sink /\ Top(g).enc \in Encoder
  BY <1>1 DEF FrameSet, KindOK, Target, Sink
<1>3. Target(Top(g)) # Nothing /\ Top(g).enc # Nothing
  BY <1>2, PoolAssumption
<1> QED
  BY <1>1, <1>2, <1>3 DEF EncoderIsOf, SinkOf

(* The next instruction of a running operation.                             *)
LEMMA ItemFacts ==
  ASSUME IInv, NEW g \in Goroutine, NEW kinds, AtItem(g, kinds)
  PROVE  /\ Running(g) /\ NextItem(g) \in Item /\ NextItem(g).do \in kinds
         /\ Tail(Top(g).work) \in Seq(Item)
         /\ Top(g).work = <<NextItem(g)>> \o Tail(Top(g).work)
<1>1. Top(g).work \in Seq(Item) /\ Top(g).work # <<>>
  BY RunningFacts DEF AtItem, FrameSet
<1> QED
  BY <1>1, HeadFacts DEF AtItem, NextItem

(* A chunk reaches the operation's own writers, and nobody else's.          *)
LEMMA EmitFacts ==
  ASSUME IInv, NEW g \in Goroutine, Running(g), NEW chunk \in Chunk,
         Accept(Target(Top(g)), chunk) \/ Refuse(Target(Top(g)))
  PROVE  /\ data' \in [Sink -> Seq(Chunk)] /\ \A b \in BufWriter : Len(data'[b]) \leq BufSize
         /\ \A s \in Sink : s # Target(Top(g)) /\ s # Top(g).dst => data'[s] = data[s]
<1> DEFINE f == Top(g)
           s == Target(f)
<1>1. /\ f \in FrameSet /\ KindOK(f) /\ f.enc \in Encoder /\ s \in Sink
      /\ BufioIsOf(f)
  BY RunningFacts
<1>2. f.dst \in Sink /\ f.dst \notin BufWriter
  BY <1>1, PoolAssumption DEF FrameSet, KindOK
<1>3. s \in BufWriter => f.buf = s /\ bufio[s].dst = f.dst
  BY <1>1, <1>2, PoolAssumption DEF Target, BufioIsOf
<1>4. data \in [Sink -> Seq(Chunk)] /\ \A b \in BufWriter : Len(data[b]) \leq BufSize
  BY DEF IInv, Typed
<1>5. BufSize \in Nat \ {0}
  BY PoolAssumption
<1>6. \A b \in BufWriter : b \in Sink
  BY DEF Sink
<1> HIDE DEF f, s
<1>7. \A n \in 0..BufSize : s \in BufWriter => Flushed(s, n) \in Seq(Chunk)
                                \/ ~(n \in 0..Len(data[s]))
  <2> SUFFICES ASSUME NEW n \in 0..BufSize, s \in BufWriter, n \in 0..Len(data[s])
               PROVE  Flushed(s, n) \in Seq(Chunk)
    OBVIOUS
  <2>1. data[s] \in Seq(Chunk) /\ data[f.dst] \in Seq(Chunk)
    BY <1>1, <1>2, <1>4
  <2>2. SubSeq(data[s], 1, n) \in Seq(Chunk)
    <3>1. \A i \in 1..n : data[s][i] \in Chunk
      BY <2>1
    <3> QED
      BY <2>1, <3>1, SubSeqProperties
  <2> QED
    BY <1>3, <2>1, <2>2, ConcatProperties DEF Flushed
<1>8. CASE Accept(s, chunk)
  <2>1. CASE Full(s)
    <3>1. s \in BufWriter /\ Len(data[s]) = BufSize /\ Flushed(s, BufSize) \in Seq(Chunk)
      BY <1>5, <1>7, <2>1 DEF Full
    <3>2. data' = [data EXCEPT ![f.dst] = Flushed(s, BufSize), ![s] = <<chunk>>]
      BY <1>3, <1>8, <2>1, <3>1 DEF Accept
    <3>3. <<chunk>> \in Seq(Chunk) /\ Len(<<chunk>>) = 1
      OBVIOUS
    <3>4. /\ data' \in [Sink -> Seq(Chunk)] /\ (s # f.dst => data'[s] = <<chunk>>)
          /\ \A x \in Sink : x # s /\ x # f.dst => data'[x] = data[x]
      BY <1>1, <1>2, <1>4, <3>1, <3>2, <3>3
    <3>5. \A b \in BufWriter : Len(data'[b]) \leq BufSize
      <4> SUFFICES ASSUME NEW b \in BufWriter PROVE Len(data'[b]) \leq BufSize
        OBVIOUS
      <4>1. CASE b = s
        <5>1. data'[b] = <<chunk>> /\ Len(data'[b]) = 1
          BY <1>2, <3>3, <3>4, <4>1
        <5>2. 1 \leq BufSize
          BY <1>5
        <5> QED
          BY <5>1, <5>2
      <4>2. CASE b # s
        BY <1>2, <1>4, <1>6, <3>4, <4>2
      <4> QED
        BY <4>1, <4>2
    <3> QED
      BY <3>4, <3>5 DEF f, s
  <2>2. CASE ~Full(s)
    <3>1. data' = [data EXCEPT ![s] = Append(data[s], chunk)]
      BY <1>8, <2>2 DEF Accept
    <3>2. Append(data[s], chunk) \in Seq(Chunk) /\ Len(Append(data[s], chunk)) = Len(data[s]) + 1
      BY <1>1, <1>4, AppendProperties
    <3>3. s \in BufWriter => Len(data[s]) + 1 \leq BufSize
      <4>1. s \in BufWriter => Len(data[s]) \leq BufSize /\ Len(data[s]) # BufSize /\ Len(data[s]) \in Nat
        BY <1>1, <1>4, <2>2, LenProperties DEF Full
      <4> QED
        BY <1>5, <4>1
    <3>4. data' \in [Sink -> Seq(Chunk)] /\ \A x \in Sink : x # s => data'[x] = data[x]
      BY <1>1, <1>4, <3>1, <3>2
    <3>5. \A b \in BufWriter : Len(data'[b]) \leq BufSize
      <4> SUFFICES ASSUME NEW b \in BufWriter PROVE Len(data'[b]) \leq BufSize
        OBVIOUS
      <4>1. CASE b = s
        BY <1>1, <1>4, <3>1, <3>2, <3>3, <4>1
      <4>2. CASE b # s
        BY <1>4, <1>6, <3>4, <4>2
      <4> QED
        BY <4>1, <4>2
    <3> QED
      BY <3>4, <3>5 DEF f, s
  <2> QED
    BY <2>1, <2>2
<1>9. CASE Refuse(s)
  <2>1. CASE UNCHANGED data
    BY <1>4, <2>1
  <2>2. CASE Full(s) /\ \E n \in 0..BufSize : data' = [data EXCEPT ![bufio[s].dst] = Flushed(s, n)]
    <3>1. PICK n \in 0..BufSize : data' = [data EXCEPT ![f.dst] = Flushed(s, n)]
      BY <1>3, <2>2 DEF Full
    <3>2. Flushed(s, n) \in Seq(Chunk)
      BY <1>7, <2>2 DEF Full
    <3> QED
      BY <1>2, <1>4, <1>6, <3>1, <3>2 DEF f, s
  <2> QED
    BY <1>9, <2>1, <2>2 DEF Refuse
<1> QED
  BY <1>8, <1>9 DEF f, s

(* What a codec has to do.                                                  *)
LEMMA WorkFacts ==
  ASSUME NEW cr \in Coder, NEW t \in Type
  PROVE  /\ Work(codecFor(cr, t)) \in Seq(Item) /\ Root(t) \in Seq(Item)
         /\ Len(Work(codecFor(cr, t))) = Len(Body[t]) /\ Len(Body[t]) \in Nat
         /\ DOMAIN Body[t] = 1..Len(Body[t])
         /\ \A i \in 1..Len(Body[t]) :
              Work(codecFor(cr, t))[i] =
                [do |-> Body[t][i].do, type |-> Body[t][i].type, chunk |-> <<codecFor(cr, t), i>>]
<1> DEFINE B == [do : {"write", "string", "encode", "marshal", "fail", "panic"},
                 type : Type \cup {Nothing}]
           w == Work(codecFor(cr, t))
<1>1. Body[t] \in Seq(B)
  BY PoolAssumption
<1>2. /\ Len(Body[t]) \in Nat /\ DOMAIN Body[t] = 1..Len(Body[t])
      /\ \A i \in 1..Len(Body[t]) : Body[t][i] \in B
  <2> HIDE DEF B
  <2> QED
    BY <1>1, LenProperties
<1>3. codecFor(cr, t) \in [coder : Coder, type : Type] /\ codecFor(cr, t).type = t
  BY DEF codecFor
<1>4. w = [i \in 1..Len(Body[t]) |->
             [do |-> Body[t][i].do, type |-> Body[t][i].type, chunk |-> <<codecFor(cr, t), i>>]]
  BY <1>2, <1>3 DEF Work
<1>5. \A i \in 1..Len(Body[t]) :
        [do |-> Body[t][i].do, type |-> Body[t][i].type, chunk |-> <<codecFor(cr, t), i>>] \in Item
  <2> SUFFICES ASSUME NEW i \in 1..Len(Body[t])
               PROVE  [do |-> Body[t][i].do, type |-> Body[t][i].type,
                       chunk |-> <<codecFor(cr, t), i>>] \in Item
    OBVIOUS
  <2>1. <<codecFor(cr, t), i>> \in Chunk
    BY <1>3 DEF Chunk
  <2>2. Body[t][i].do \in {"encode", "marshal"} => Body[t][i].type \in Type
    BY <1>2, PoolAssumption
  <2> QED
    BY <1>2, <2>1, <2>2 DEF Item, Items
<1>6. Root(t) \in Seq(Item)
  <2>1. [do |-> "encode", type |-> t, chunk |-> Nothing] \in Item
    BY DEF Item, Items, Chunk
  <2> QED
    BY <2>1 DEF Root
<1> HIDE DEF w
<1>7. w \in [1..Len(Body[t]) -> Item] /\ w \in Seq(Item) /\ Len(w) = Len(Body[t])
  BY <1>2, <1>4, <1>5
<1> QED
  BY <1>2, <1>4, <1>6, <1>7 DEF w

-----------------------------------------------------------------------------
(* Every action preserves the invariant.                                    *)

(* What is the same for the steps that only change the top frame.           *)
LEMMA LocalStep ==
  ASSUME IInv, NEW g \in Goroutine, Running(g),
         NEW f \in FrameSet, stack' = WithTop(g, f), f.status \in {"run", "error", "panic"},
         f.op = Top(g).op, f.cr = Top(g).cr, f.enc = Top(g).enc, f.buf = Top(g).buf,
         f.dst = Top(g).dst, bufio' = bufio, begun' \in {begun, begun + 1},
         \A e \in Encoder :
           /\ encoder'[e].place = encoder[e].place /\ encoder'[e].cr = encoder[e].cr
           /\ encoder'[e].w = encoder[e].w /\ encoder'[e].ws = encoder[e].ws
  PROVE  FramesInv' /\ StacksBounded' /\ stack' \in [Goroutine -> Seq(FrameSet)]
<1>1. /\ Typed /\ FramesInv /\ Busy(g) /\ Top(g).status = "run" /\ KindOK(Top(g))
      /\ StacksBounded /\ Top(g).enc \in Encoder
  BY RunningFacts DEF IInv
<1>2. KindOK(f)
  BY <1>1 DEF KindOK
<1>3. ~(f.enc = Nothing)
  BY <1>1, PoolAssumption
<1>4. FramesInv'
  BY <1>1, <1>2, <1>3, TopStep
<1>5. /\ stack' \in [Goroutine -> Seq(FrameSet)]
      /\ \A h \in Goroutine : Len(stack'[h]) = Len(stack[h]) /\ Len(stack[h]) \in Nat
  BY <1>1, WithTopFacts, TopFacts
<1>6. begun \in Nat
  BY <1>1 DEF Typed
<1> QED
  BY <1>1, <1>4, <1>5, <1>6 DEF StacksBounded

(* The codec of EncodeValue is the one of the operation's coder, whether it *)
(* comes from the encoder's cache or from the coder.                        *)
LEMMA EncodeFacts ==
  ASSUME IInv, NEW g \in Goroutine, EncodeValue(g)
  PROVE  LET f == Top(g)
             obj == encoder[f.enc]
             t == NextItem(g).type
             c == codecFor(f.cr, t)
         IN  /\ Running(g) /\ t \in Type /\ f.cr \in Coder
             /\ \/ stack' = WithTop(g, [f EXCEPT !.status = "panic"]) /\ encoder' = encoder
                \/ /\ stack' = WithTop(g, [f EXCEPT !.work = Work(c) \o Tail(@)])
                   /\ \/ encoder' = encoder
                      \/ /\ \A i \in Slots : obj.cache[i].type # t
                         /\ encoder' = [encoder EXCEPT
                              ![f.enc].slot = NextSlot(obj),
                              ![f.enc].cache[NextSlot(obj)] = [type |-> t, codec |-> c]]
             /\ UNCHANGED <<bufio, data, begun>>
<1> DEFINE f == Top(g)
           obj == encoder[f.enc]
           t == NextItem(g).type
           c == codecFor(f.cr, t)
           i0 == CHOOSE i \in Cached(obj, t) : \A j \in Cached(obj, t) : i \leq j
           codec == IF Cached(obj, t) # {} THEN obj.cache[i0].codec ELSE codecFor(obj.cr, t)
<1>1. AtItem(g, {"encode"})
  BY DEF EncodeValue
<1>2. /\ Running(g) /\ f \in FrameSet /\ f.enc \in Encoder /\ EncoderIsOf(f)
      /\ NextItem(g) \in Item /\ NextItem(g).do = "encode"
  <2>1. Running(g) /\ NextItem(g).do = "encode"
    BY <1>1 DEF AtItem
  <2>2. NextItem(g) \in Item
    BY <1>1, ItemFacts
  <2> QED
    BY <2>1, <2>2, RunningFacts
<1>3. t \in Type /\ t # Nothing /\ f.cr \in Coder
  BY <1>2, PoolAssumption DEF Item, FrameSet
<1>4. obj.cr = f.cr /\ Current(obj)
  BY <1>2, CacheIsCurrentByObject, PoolAssumption DEF EncoderIsOf, IInv
<1> HIDE DEF f, obj, t
<1>5. Cached(obj, t) # {} => i0 \in Cached(obj, t)
  <2> SUFFICES ASSUME Cached(obj, t) # {}
               PROVE  \E i \in Cached(obj, t) : \A j \in Cached(obj, t) : i \leq j
    OBVIOUS
  <2>1. PICK i \in Slots : obj.cache[i].type = t
    BY DEF Cached
  <2>2. \A j \in Cached(obj, t) : j = i
    BY <1>3, <1>4, <2>1 DEF Current, Cached
  <2>3. i \in Cached(obj, t) /\ i \leq i
    BY <2>1 DEF Cached, Slots
  <2> QED
    BY <2>2, <2>3
<1>6. codec = c
  BY <1>3, <1>4, <1>5 DEF Current, Cached
<1>7. /\ IF Cached(obj, t) = {} /\ t \in Unbuildable
         THEN /\ stack' = WithTop(g, [f EXCEPT !.status = "panic"])
              /\ UNCHANGED encoder
         ELSE /\ encoder' = IF Cached(obj, t) # {} THEN encoder
                            ELSE [encoder EXCEPT
                                    ![f.enc].slot = NextSlot(obj),
                                    ![f.enc].cache[NextSlot(obj)] = [type |-> t, codec |-> codec]]
              /\ stack' = WithTop(g, [f EXCEPT !.work = Work(codec) \o Tail(@)])
      /\ UNCHANGED <<bufio, data, begun>>
  BY DEF EncodeValue, f, obj, t
<1> HIDE DEF c, codec
<1>8. Cached(obj, t) = {} => \A i \in Slots : obj.cache[i].type # t
  BY DEF Cached
<1> QED
  BY <1>2, <1>3, <1>6, <1>7, <1>8 DEF f, obj, t, c

(* encoder.EncodeValue: the cached codec is that of the type.               *)
LEMMA EncodeValueStep ==
  ASSUME IInv, NEW g \in Goroutine, EncodeValue(g)
  PROVE  IInv'
<1> DEFINE f == Top(g)
           obj == encoder[f.enc]
           t == NextItem(g).type
           c == codecFor(f.cr, t)
           cached == [encoder EXCEPT ![f.enc].slot = NextSlot(obj),
                                     ![f.enc].cache[NextSlot(obj)] = [type |-> t, codec |-> c]]
           filled == [obj EXCEPT !.slot = NextSlot(obj),
                                 !.cache[NextSlot(obj)] = [type |-> t, codec |-> c]]
<1>1. /\ Running(g) /\ t \in Type /\ f.cr \in Coder
      /\ \/ stack' = WithTop(g, [f EXCEPT !.status = "panic"]) /\ encoder' = encoder
         \/ /\ stack' = WithTop(g, [f EXCEPT !.work = Work(c) \o Tail(@)])
            /\ encoder' = encoder \/ (encoder' = cached /\ \A i \in Slots : obj.cache[i].type # t)
      /\ UNCHANGED <<bufio, data, begun>>
  BY EncodeFacts
<1>2. /\ f \in FrameSet /\ f.enc \in Encoder /\ EncoderIsOf(f) /\ f.status = "run"
      /\ Tail(f.work) \in Seq(Item)
  BY RunningFacts, ItemFacts DEF EncodeValue
<1>3. encoder \in [Encoder -> Object] /\ obj \in Object /\ obj.cr = f.cr /\ Current(obj)
  BY <1>2, CacheIsCurrentByObject, PoolAssumption DEF EncoderIsOf, IInv, Typed
<1>4. Work(c) \o Tail(f.work) \in Seq(Item)
  BY <1>1, <1>2, WorkFacts, ConcatProperties
<1>5. c \in [coder : Coder, type : Type] /\ t # Nothing
  BY <1>1, PoolAssumption DEF codecFor
<1>6. NextSlot(obj) \in Slots
  BY <1>3, PoolAssumption DEF NextSlot, Slots, Object
<1>7. [type |-> t, codec |-> c] \in Entry
  BY <1>1, <1>5 DEF Entry
<1>8. cached = [encoder EXCEPT ![f.enc] = filled]
  BY <1>2, <1>3
<1> HIDE DEF cached
<1>9. /\ filled \in Object
      /\ filled.place = obj.place /\ filled.cr = obj.cr /\ filled.w = obj.w /\ filled.ws = obj.ws
      /\ filled.cache = [obj.cache EXCEPT ![NextSlot(obj)] = [type |-> t, codec |-> c]]
  BY <1>3, <1>6, <1>7 DEF Object
<1>10. (\A i \in Slots : obj.cache[i].type # t) => Current(filled)
  <2>1. /\ obj.cache \in [Slots -> Entry] /\ filled.cache[NextSlot(obj)] = [type |-> t, codec |-> c]
        /\ \A i \in Slots : i # NextSlot(obj) => filled.cache[i] = obj.cache[i]
    BY <1>3, <1>6, <1>9 DEF Object
  <2> HIDE DEF filled
  <2> QED
    BY <1>3, <1>6, <1>9, <2>1 DEF Current
<1> HIDE DEF filled
<1>11. /\ encoder' \in [Encoder -> Object]
       /\ \A e \in Encoder :
            /\ encoder'[e].place = encoder[e].place /\ encoder'[e].cr = encoder[e].cr
            /\ encoder'[e].w = encoder[e].w /\ encoder'[e].ws = encoder[e].ws
            /\ Current(encoder'[e])
  <2>1. CASE encoder' = encoder
    BY <1>3, <2>1, CacheIsCurrentByObject DEF IInv
  <2>2. CASE encoder' = cached /\ \A i \in Slots : obj.cache[i].type # t
    BY <1>2, <1>3, <1>8, <1>9, <1>10, <2>2, CacheIsCurrentByObject DEF IInv
  <2> QED
    BY <1>1, <2>1, <2>2
<1>12. PICK f1 \in FrameSet :
         /\ stack' = WithTop(g, f1) /\ f1.status \in {"run", "error", "panic"}
         /\ f1.op = f.op /\ f1.cr = f.cr /\ f1.enc = f.enc /\ f1.buf = f.buf /\ f1.dst = f.dst
  <2>1. CASE stack' = WithTop(g, [f EXCEPT !.status = "panic"])
    <3>1. [f EXCEPT !.status = "panic"] \in FrameSet
      BY <1>2 DEF FrameSet
    <3> QED
      BY <1>2, <2>1, <3>1 DEF FrameSet
  <2>2. CASE stack' = WithTop(g, [f EXCEPT !.work = Work(c) \o Tail(@)])
    <3> DEFINE f2 == [f EXCEPT !.work = Work(c) \o Tail(f.work)]
    <3>1. f2 \in FrameSet /\ f2.status = "run"
      BY <1>2, <1>4 DEF FrameSet
    <3>2. stack' = WithTop(g, f2)
      BY <2>2
    <3> QED
      BY <1>2, <3>1, <3>2 DEF FrameSet
  <2> QED
    BY <1>1, <2>1, <2>2
<1>13. FramesInv' /\ StacksBounded' /\ stack' \in [Goroutine -> Seq(FrameSet)]
  BY <1>1, <1>11, <1>12, LocalStep
<1>14. Typed'
  BY <1>1, <1>11, <1>13 DEF IInv, Typed
<1>15. MarshalEncodersOK'
  BY <1>1, <1>11 DEF IInv, MarshalEncodersOK, Encoder
<1>16. CacheIsCurrent'
  BY <1>11 DEF CacheIsCurrent, Current
<1> QED
  BY <1>13, <1>14, <1>15, <1>16 DEF IInv

(* A codec writes a chunk.                                                  *)
LEMMA EmitChunkStep ==
  ASSUME IInv, NEW g \in Goroutine, EmitChunk(g)
  PROVE  IInv'
<1> DEFINE f == Top(g)
           s == SinkOf(encoder[f.enc], NextItem(g).do)
<1>1. /\ AtItem(g, {"write", "string"}) /\ UNCHANGED <<encoder, bufio, begun>>
      /\ \/ Accept(s, NextItem(g).chunk) /\ stack' = WithTop(g, [f EXCEPT !.work = Tail(@)])
         \/ Refuse(s) /\ stack' = WithTop(g, [f EXCEPT !.status = "error"])
  BY DEF EmitChunk
<1>2. Running(g) /\ NextItem(g) \in Item /\ Tail(f.work) \in Seq(Item)
  BY <1>1, ItemFacts
<1>3. /\ f \in FrameSet /\ KindOK(f) /\ f.enc \in Encoder /\ EncoderIsOf(f) /\ f.status = "run"
      /\ s = Target(f) /\ Target(f) \in Sink
  BY <1>2, RunningFacts
<1>4. /\ data' \in [Sink -> Seq(Chunk)] /\ \A b \in BufWriter : Len(data'[b]) \leq BufSize
      /\ \A x \in Sink : x # Target(f) /\ x # f.dst => data'[x] = data[x]
  <2>1. NextItem(g).chunk \in Chunk
    BY <1>2 DEF Item, Items
  <2> QED
    BY <1>1, <1>2, <1>3, <2>1, EmitFacts
<1>5. PICK f1 \in FrameSet :
         /\ stack' = WithTop(g, f1) /\ f1.status \in {"run", "error"}
         /\ f1.op = f.op /\ f1.cr = f.cr /\ f1.enc = f.enc /\ f1.buf = f.buf /\ f1.dst = f.dst
  <2>1. CASE stack' = WithTop(g, [f EXCEPT !.status = "error"])
    <3>1. [f EXCEPT !.status = "error"] \in FrameSet
      BY <1>3 DEF FrameSet
    <3> QED
      BY <1>3, <2>1, <3>1 DEF FrameSet
  <2>2. CASE stack' = WithTop(g, [f EXCEPT !.work = Tail(@)])
    <3>1. [f EXCEPT !.work = Tail(@)] \in FrameSet
      BY <1>2, <1>3 DEF FrameSet
    <3> QED
      BY <1>3, <2>2, <3>1 DEF FrameSet
  <2> QED
    BY <1>1, <2>1, <2>2
<1>6. FramesInv' /\ StacksBounded' /\ stack' \in [Goroutine -> Seq(FrameSet)]
  BY <1>1, <1>2, <1>5, LocalStep
<1>7. Typed' /\ CacheIsCurrent'
  BY <1>1, <1>4, <1>6 DEF IInv, Typed, CacheIsCurrent
<1>8. MarshalEncodersOK'
  <2> SUFFICES ASSUME NEW e \in MarshalEnc, encoder[e].place # "held"
               PROVE  data'[e] = data[e]
    BY <1>1 DEF IInv, MarshalEncodersOK
  <2>1. e \in Sink /\ e # f.enc
    BY <1>3, PoolAssumption DEF Sink, EncoderIsOf
  <2>2. e # Target(f) /\ e # f.dst
    BY <1>3, <2>1, PoolAssumption DEF KindOK, Target, FrameSet
  <2> QED
    BY <1>4, <2>1, <2>2
<1> QED
  BY <1>6, <1>7, <1>8 DEF IInv

(* A codec returns an error or panics.                                      *)
LEMMA FailStep ==
  ASSUME IInv, NEW g \in Goroutine, Fail(g)
  PROVE  IInv'
<1> DEFINE f == Top(g)
           status == IF NextItem(g).do = "fail" THEN "error" ELSE "panic"
<1>1. /\ Running(g) /\ stack' = WithTop(g, [f EXCEPT !.status = status])
      /\ UNCHANGED <<encoder, bufio, data, begun>>
  BY DEF Fail, AtItem
<1>2. f \in FrameSet
  BY <1>1, RunningFacts
<1>3. /\ [f EXCEPT !.status = status] \in FrameSet
      /\ [f EXCEPT !.status = status].status \in {"error", "panic"}
  BY <1>2 DEF FrameSet
<1>4. FramesInv' /\ StacksBounded' /\ stack' \in [Goroutine -> Seq(FrameSet)]
  BY <1>1, <1>2, <1>3, LocalStep DEF FrameSet
<1> QED
  BY <1>1, <1>4, ZenonT(40) DEF IInv, Typed, CacheIsCurrent, MarshalEncodersOK

(* The user of an encoder of his own encodes another value.                 *)
LEMMA EncodeNextStep ==
  ASSUME IInv, NEW g \in Goroutine, NEW t \in Type, EncodeNext(g, t)
  PROVE  IInv'
<1> DEFINE f == Top(g)
           f1 == [f EXCEPT !.types = Append(@, t), !.work = Root(t)]
<1>1. /\ Running(g) /\ stack' = WithTop(g, f1) /\ begun < MaxBegun /\ begun' = begun + 1
      /\ UNCHANGED <<encoder, bufio, data>>
  BY DEF EncodeNext
<1>2. f \in FrameSet /\ f.status = "run"
  BY <1>1, RunningFacts
<1>3. Append(f.types, t) \in Seq(Type) /\ Root(t) \in Seq(Item)
  <2>1. PICK cr \in Coder : cr = f.cr
    BY <1>2 DEF FrameSet
  <2> QED
    BY <1>2, <2>1, WorkFacts, AppendProperties DEF FrameSet
<1>4. f1 \in FrameSet /\ f1.status = "run"
  BY <1>2, <1>3 DEF FrameSet
<1>5. FramesInv' /\ StacksBounded' /\ stack' \in [Goroutine -> Seq(FrameSet)]
  BY <1>1, <1>2, <1>4, LocalStep DEF FrameSet
<1>6. begun' \in 0..MaxBegun
  BY <1>1, PoolAssumption DEF IInv, Typed
<1> QED
  BY <1>1, <1>5, <1>6 DEF IInv, Typed, CacheIsCurrent, MarshalEncodersOK

(* Write puts its encoder back before it flushes its buffer.                *)
LEMMA ReleaseEncoderStep ==
  ASSUME IInv, NEW g \in Goroutine, ReleaseEncoder(g)
  PROVE  IInv'
<1> DEFINE f == Top(g)
           f1 == [f EXCEPT !.enc = Nothing,
                           !.status = IF f.status = "run" THEN "flush" ELSE "failed"]
           released == [encoder[f.enc] EXCEPT !.w = Nothing, !.place = "pooled"]
<1>1. /\ Busy(g) /\ f.op = "Write" /\ f.status \in {"run", "error"} /\ stack' = WithTop(g, f1)
      /\ encoder' = [encoder EXCEPT ![f.enc].w = Nothing, ![f.enc].place = "pooled"]
      /\ UNCHANGED <<bufio, data, begun>>
  BY DEF ReleaseEncoder, Ended
<1>2. Typed /\ FramesInv /\ StacksBounded
  BY DEF IInv
<1>3. f \in FrameSet /\ KindOK(f)
  BY <1>1, <1>2, TopFacts DEF FramesInv, FramesOK
<1>4. f.enc \in Enc /\ f.enc \in Encoder /\ f.enc \notin MarshalEnc
  BY <1>1, <1>3, PoolAssumption DEF KindOK, Encoder
<1>5. f1 \in FrameSet /\ KindOK(f1) /\ f1.enc = Nothing
  BY <1>1, <1>3 DEF FrameSet, KindOK
<1>6. encoder \in [Encoder -> Object] /\ \A e \in Encoder : Current(encoder[e])
  BY <1>2, CacheIsCurrentByObject DEF Typed, IInv
<1>7. /\ released \in Object /\ released.cache = encoder[f.enc].cache
      /\ released.cr = encoder[f.enc].cr /\ released.place = "pooled"
  BY <1>4, <1>6 DEF Object
<1>8. encoder' = [encoder EXCEPT ![f.enc] = released]
  BY <1>1, <1>4, <1>6
<1> HIDE DEF released
<1>9. /\ encoder' \in [Encoder -> Object] /\ encoder'[f.enc] = released
      /\ \A e \in Encoder : e # f.enc => encoder'[e] = encoder[e]
  BY <1>4, <1>6, <1>7, <1>8
<1>10. FramesInv'
  BY <1>1, <1>2, <1>3, <1>4, <1>5, <1>7, <1>9, TopStep DEF FrameSet
<1>11. /\ stack' \in [Goroutine -> Seq(FrameSet)]
       /\ \A h \in Goroutine : Len(stack'[h]) = Len(stack[h])
  BY <1>1, <1>2, <1>5, WithTopFacts
<1>12. Typed' /\ StacksBounded'
  BY <1>1, <1>2, <1>9, <1>11 DEF Typed, StacksBounded
<1>13. \A e \in Encoder : Current(encoder'[e])
  BY <1>4, <1>6, <1>7, <1>9 DEF Current
<1>14. CacheIsCurrent'
  BY <1>13 DEF CacheIsCurrent, Current
<1>15. MarshalEncodersOK'
  <2>1. \A e \in MarshalEnc : encoder'[e] = encoder[e]
    BY <1>4, <1>9 DEF Encoder
  <2> QED
    BY <1>1, <2>1 DEF IInv, MarshalEncodersOK
<1> QED
  BY <1>10, <1>12, <1>14, <1>15 DEF IInv

(* The frame of an operation that begins.                                   *)
LEMMA FrameFacts ==
  ASSUME NEW op \in {"Marshal", "Write", "NewEncoder"}, NEW cr \in Coder, NEW t \in Type,
         NEW e \in Encoder, NEW b \in BufWriter \cup {Nothing}, NEW dst \in Sink
  PROVE  LET f == Frame(op, cr, e, b, dst, t)
         IN  /\ f \in FrameSet /\ f.op = op /\ f.cr = cr /\ f.enc = e /\ f.buf = b /\ f.dst = dst
             /\ f.types = <<t>> /\ f.work = Root(t) /\ f.status = "run"
<1>1. Root(t) \in Seq(Item) /\ <<t>> \in Seq(Type)
  BY WorkFacts
<1> QED
  BY <1>1 DEF Frame, FrameSet

(* The frame of an operation that begins.                                   *)
LEMMA CallFacts ==
  ASSUME IInv, NEW g \in Goroutine, NEW f \in FrameSet, Call(g, f)
  PROVE  /\ stack' = [stack EXCEPT ![g] = Append(@, f)]
         /\ stack' \in [Goroutine -> Seq(FrameSet)] /\ begun' \in 0..MaxBegun
         /\ StacksBounded'
<1>1. stack' = [stack EXCEPT ![g] = Append(@, f)] /\ begun < MaxBegun /\ begun' = begun + 1
  BY DEF Call
<1>2. Typed /\ StacksBounded /\ begun \in Nat
  BY DEF IInv, Typed
<1>3. /\ stack' \in [Goroutine -> Seq(FrameSet)]
      /\ \A h \in Goroutine : h # g => stack'[h] = stack[h]
      /\ Len(stack'[g]) = Len(stack[g]) + 1
  BY <1>1, <1>2, PushFacts
<1>4. \A h \in Goroutine : Len(stack[h]) \in Nat
  BY <1>2, TopFacts
<1>5. begun' \in 0..MaxBegun
  BY <1>1, <1>2, PoolAssumption DEF Typed
<1>6. StacksBounded'
  <2> SUFFICES ASSUME NEW h \in Goroutine PROVE Len(stack'[h]) \leq begun'
    BY DEF StacksBounded
  <2>1. Len(stack[h]) \leq begun
    BY <1>2 DEF StacksBounded
  <2> QED
    BY <1>1, <1>2, <1>3, <1>4, <2>1
<1> QED
  BY <1>1, <1>3, <1>5, <1>6

(* Who has an encoder, or a bufio.Writer, that is available?  Nobody.       *)
LEMMA AvailableFacts ==
  ASSUME IInv, NEW h \in Goroutine, NEW i \in DOMAIN stack[h]
  PROVE  /\ stack[h][i] \in FrameSet /\ KindOK(stack[h][i])
         /\ \A e \in Encoder : Available(encoder[e]) => stack[h][i].enc # e
         /\ \A b \in BufWriter : Available(bufio[b]) => stack[h][i].buf # b
<1>1. stack[h][i] \in FrameSet /\ KindOK(stack[h][i])
  BY TopFacts DEF IInv, FramesInv, FramesOK
<1>2. EncoderIsOf(stack[h][i]) /\ BufioIsOf(stack[h][i])
  BY DEF IInv, FramesInv, ObjectsOK
<1>3. Nothing \notin Encoder /\ Nothing \notin BufWriter
  BY PoolAssumption DEF Sink
<1> QED
  BY <1>1, <1>2, <1>3 DEF EncoderIsOf, BufioIsOf, Available

(* Marshal: a marshalEncoder from the pool is reset for the coder.          *)
LEMMA MarshalStep ==
  ASSUME IInv, NEW g \in Goroutine, NEW cr \in Coder, NEW t \in Type, Marshal(g, cr, t)
  PROVE  IInv'
<1>1. /\ Busy(g) => AtItem(g, {"marshal"})
      /\ UNCHANGED <<bufio, data>>
  BY DEF Marshal
<1>2. PICK e \in MarshalEnc :
         /\ Available(encoder[e])
         /\ encoder' = [encoder EXCEPT ![e] = ResetMarshalEncoder(@, cr)]
         /\ Call(g, Frame("Marshal", cr, e, Nothing, e, t))
  BY DEF Marshal
<1> DEFINE f == Frame("Marshal", cr, e, Nothing, e, t)
           reset == ResetMarshalEncoder(encoder[e], cr)
<1>3. e \in Encoder /\ e \in Sink /\ e # Nothing
  BY PoolAssumption DEF Encoder, Sink
<1>4. /\ f \in FrameSet /\ f.op = "Marshal" /\ f.cr = cr /\ f.enc = e /\ f.buf = Nothing
      /\ f.dst = e /\ f.status = "run"
  BY <1>3, FrameFacts
<1>5. KindOK(f) /\ Call(g, f)
  BY <1>2, <1>3, <1>4 DEF KindOK
<1>6. /\ Typed /\ FramesInv /\ MarshalEncodersOK /\ encoder \in [Encoder -> Object]
      /\ \A x \in Encoder : Current(encoder[x])
  BY CacheIsCurrentByObject DEF IInv, Typed
<1>7. /\ reset \in Object /\ Current(reset)
      /\ reset.place = "held" /\ reset.cr = cr
      /\ reset.w = e /\ reset.ws = e
  <2>1. reset \in Object /\ Current(reset)
    BY <1>3, <1>6, ObjectFacts
  <2>2. encoder[e] \in Object /\ encoder[e].w = e /\ encoder[e].ws = e
    BY <1>3, <1>6 DEF MarshalEncodersOK
  <2> QED
    BY <2>1, <2>2 DEF ResetMarshalEncoder, Object
<1>8. encoder' = [encoder EXCEPT ![e] = reset]
  BY <1>2
<1> HIDE DEF f, reset
<1>9. /\ encoder' \in [Encoder -> Object] /\ encoder'[e] = reset
      /\ \A x \in Encoder : x # e => encoder'[x] = encoder[x]
  BY <1>3, <1>6, <1>7, <1>8
<1>10. EncoderIsOf(f)' /\ BufioIsOf(f)'
  BY <1>4, <1>7, <1>9 DEF EncoderIsOf, BufioIsOf, Target
<1>11. \A h \in Goroutine : \A i \in DOMAIN stack[h] : Apart(stack[h][i], f)
  <2> SUFFICES ASSUME NEW h \in Goroutine, NEW i \in DOMAIN stack[h]
               PROVE  Apart(stack[h][i], f)
    OBVIOUS
  <2>1. stack[h][i] \in FrameSet /\ KindOK(stack[h][i]) /\ stack[h][i].enc # e
    BY <1>2, <1>3, AvailableFacts
  <2>2. stack[h][i].dst # e
    BY <2>1, PoolAssumption DEF KindOK, FrameSet
  <2> QED
    BY <1>4, <2>1, <2>2 DEF Apart
<1>12. Busy(g) => CallsMarshal(Top(g))
  BY <1>1 DEF AtItem, Running, NextItem, CallsMarshal
<1>13. /\ stack' = [stack EXCEPT ![g] = Append(@, f)]
       /\ stack' \in [Goroutine -> Seq(FrameSet)] /\ begun' \in 0..MaxBegun
       /\ StacksBounded'
  BY <1>4, <1>5, CallFacts
<1>14. FramesInv'
  BY <1>1, <1>4, <1>5, <1>6, <1>9, <1>10, <1>11, <1>12, <1>13, BeginStep
<1>15. Typed'
  BY <1>1, <1>6, <1>9, <1>13 DEF Typed
<1>16. MarshalEncodersOK'
  BY <1>1, <1>3, <1>6, <1>7, <1>9 DEF MarshalEncodersOK, Encoder
<1>17. CacheIsCurrent'
  <2>1. \A x \in Encoder : Current(encoder'[x])
    BY <1>6, <1>7, <1>9
  <2> QED
    BY <2>1 DEF CacheIsCurrent, Current
<1> QED
  BY <1>13, <1>14, <1>15, <1>16, <1>17 DEF IInv

(* Write and NewEncoder: an encoder from the pool is reset to write to w,   *)
(* or to a bufio.Writer from the pool that is reset to write to w.          *)
LEMMA BeginEncoderStep ==
  ASSUME IInv, NEW g \in Goroutine, NEW cr \in Coder, NEW t \in Type, NEW w \in Writer,
         NEW op \in {"Write", "NewEncoder"}, NEW e \in Enc, NEW b \in BufWriter \cup {Nothing},
         ~Busy(g), ~InUse(w), Available(encoder[e]),
         Call(g, Frame(op, cr, e, b, w, t)),
         encoder' = [encoder EXCEPT ![e] = ResetEncoder(@, cr, IF b = Nothing THEN w ELSE b)],
         IF b = Nothing
         THEN bufio' = bufio /\ data' = [data EXCEPT ![w] = <<>>]
         ELSE /\ op = "Write" /\ Available(bufio[b])
              /\ bufio' = [bufio EXCEPT ![b] = [place |-> "held", dst |-> w]]
              /\ data' = [data EXCEPT ![w] = <<>>, ![b] = <<>>]
  PROVE  IInv'
<1> DEFINE f == Frame(op, cr, e, b, w, t)
           s == IF b = Nothing THEN w ELSE b
           reset == ResetEncoder(encoder[e], cr, s)
<1>1. /\ e \in Encoder /\ e \notin MarshalEnc /\ e # Nothing /\ w \in Sink /\ s \in Sink
      /\ w \notin MarshalEnc /\ w \notin BufWriter /\ s \notin MarshalEnc
  BY PoolAssumption DEF Encoder, Sink
<1>2. /\ f \in FrameSet /\ f.op = op /\ f.cr = cr /\ f.enc = e /\ f.buf = b
      /\ f.dst = w /\ f.status = "run"
  BY <1>1, FrameFacts
<1>3. KindOK(f) /\ Target(f) = s
  BY <1>1, <1>2 DEF KindOK, Target
<1>4. /\ Typed /\ FramesInv /\ MarshalEncodersOK /\ encoder \in [Encoder -> Object]
      /\ \A x \in Encoder : Current(encoder[x])
  BY CacheIsCurrentByObject DEF IInv, Typed
<1>5. /\ reset \in Object /\ Current(reset)
      /\ reset.place = "held" /\ reset.cr = cr /\ reset.w = s /\ reset.ws \in {s, Nothing}
  <2>1. reset \in Object /\ Current(reset) /\ encoder[e] \in Object
    BY <1>1, <1>4, ObjectFacts
  <2> QED
    BY <2>1 DEF ResetEncoder, Object
<1>6. encoder' = [encoder EXCEPT ![e] = reset]
  OBVIOUS
<1>7. Call(g, f)
  OBVIOUS
<1> HIDE DEF f, reset, s
<1>8. /\ encoder' \in [Encoder -> Object] /\ encoder'[e] = reset
      /\ \A x \in Encoder : x # e => encoder'[x] = encoder[x]
  BY <1>1, <1>4, <1>5, <1>6
<1>9. /\ bufio' \in [BufWriter -> [place : {"free", "pooled", "held"}, dst : Writer \cup {Nothing}]]
      /\ b # Nothing => bufio'[b] = [place |-> "held", dst |-> w]
      /\ \A x \in BufWriter : x # b => bufio'[x] = bufio[x]
  BY <1>4 DEF Typed
<1>10. EncoderIsOf(f)' /\ BufioIsOf(f)'
  BY <1>2, <1>3, <1>5, <1>8, <1>9 DEF EncoderIsOf, BufioIsOf, Target
<1>11. \A h \in Goroutine : \A i \in DOMAIN stack[h] : Apart(stack[h][i], f)
  <2> SUFFICES ASSUME NEW h \in Goroutine, NEW i \in DOMAIN stack[h]
               PROVE  Apart(stack[h][i], f)
    OBVIOUS
  <2>1. stack[h][i].enc # e /\ stack[h][i].dst # w
    BY <1>1, AvailableFacts DEF InUse
  <2>2. b # Nothing => stack[h][i].buf # b
    BY AvailableFacts
  <2> QED
    BY <1>2, <2>1, <2>2 DEF Apart
<1>12. /\ stack' = [stack EXCEPT ![g] = Append(@, f)]
       /\ stack' \in [Goroutine -> Seq(FrameSet)] /\ begun' \in 0..MaxBegun
       /\ StacksBounded'
  BY <1>2, <1>7, CallFacts
<1>13. FramesInv'
  BY <1>2, <1>3, <1>4, <1>8, <1>9, <1>10, <1>11, <1>12, BeginStep
<1>14. /\ data' \in [Sink -> Seq(Chunk)]
       /\ \A x \in Sink : data'[x] \in {<<>>, data[x]}
       /\ \A x \in MarshalEnc : data'[x] = data[x]
  <2>1. data \in [Sink -> Seq(Chunk)] /\ <<>> \in Seq(Chunk)
    BY <1>4 DEF Typed
  <2>2. (b # Nothing => b \in Sink /\ b \notin MarshalEnc) /\ \A x \in MarshalEnc : x \in Sink
    BY PoolAssumption DEF Sink
  <2> QED
    BY <1>1, <2>1, <2>2
<1>15. \A x \in BufWriter : Len(data'[x]) \leq BufSize
  <2>1. Len(<<>>) \leq BufSize
    BY PoolAssumption
  <2> QED
    BY <1>4, <1>14, <2>1 DEF Typed, Sink
<1>16. Typed'
  BY <1>8, <1>9, <1>12, <1>14, <1>15 DEF Typed
<1>17. MarshalEncodersOK'
  <2>1. \A x \in MarshalEnc : encoder'[x] = encoder[x]
    BY <1>1, <1>8 DEF Encoder
  <2> QED
    BY <1>4, <1>14, <2>1 DEF MarshalEncodersOK
<1>18. CacheIsCurrent'
  <2>1. \A x \in Encoder : Current(encoder'[x])
    BY <1>4, <1>5, <1>8
  <2> QED
    BY <2>1 DEF CacheIsCurrent, Current
<1> QED
  BY <1>12, <1>13, <1>16, <1>17, <1>18 DEF IInv

(* Write, with a pooled bufio.Writer or without.                            *)
LEMMA WriteStep ==
  ASSUME IInv, NEW g \in Goroutine, NEW cr \in Coder, NEW t \in Type, NEW w \in Writer,
         Write(g, cr, w, t)
  PROVE  IInv'
<1>1. PICK e \in Enc :
         /\ Available(encoder[e])
         /\ \/ /\ encoder' = [encoder EXCEPT ![e] = ResetEncoder(@, cr, w)]
               /\ Call(g, Frame("Write", cr, e, Nothing, w, t))
               /\ data' = [data EXCEPT ![w] = <<>>]
               /\ UNCHANGED bufio
            \/ \E b \in BufWriter :
               /\ Available(bufio[b])
               /\ bufio' = [bufio EXCEPT ![b] = [place |-> "held", dst |-> w]]
               /\ encoder' = [encoder EXCEPT ![e] = ResetEncoder(@, cr, b)]
               /\ Call(g, Frame("Write", cr, e, b, w, t))
               /\ data' = [data EXCEPT ![w] = <<>>, ![b] = <<>>]
  BY DEF Write
<1>2. ~Busy(g) /\ ~InUse(w)
  BY DEF Write
<1>3. Nothing \notin BufWriter
  BY PoolAssumption DEF Sink
<1>4. CASE /\ encoder' = [encoder EXCEPT ![e] = ResetEncoder(@, cr, w)]
           /\ Call(g, Frame("Write", cr, e, Nothing, w, t))
           /\ data' = [data EXCEPT ![w] = <<>>]
           /\ UNCHANGED bufio
  <2> DEFINE b == Nothing
  <2>1. /\ b \in BufWriter \cup {Nothing} /\ b = Nothing
        /\ encoder' = [encoder EXCEPT ![e] = ResetEncoder(@, cr, IF b = Nothing THEN w ELSE b)]
        /\ Call(g, Frame("Write", cr, e, b, w, t))
    BY <1>4
  <2> HIDE DEF b
  <2> QED
    BY <1>1, <1>2, <1>4, <2>1, BeginEncoderStep
<1>5. ASSUME NEW b \in BufWriter,
             Available(bufio[b]),
             bufio' = [bufio EXCEPT ![b] = [place |-> "held", dst |-> w]],
             encoder' = [encoder EXCEPT ![e] = ResetEncoder(@, cr, b)],
             Call(g, Frame("Write", cr, e, b, w, t)),
             data' = [data EXCEPT ![w] = <<>>, ![b] = <<>>]
      PROVE  IInv'
  <2>1. /\ b \in BufWriter \cup {Nothing} /\ b # Nothing
        /\ encoder' = [encoder EXCEPT ![e] = ResetEncoder(@, cr, IF b = Nothing THEN w ELSE b)]
    BY <1>3, <1>5
  <2> QED
    BY <1>1, <1>2, <1>5, <2>1, BeginEncoderStep
<1> QED
  BY <1>1, <1>4, <1>5

(* NewEncoder: an encoder from the pool that is never put back.             *)
LEMMA NewEncoderStep ==
  ASSUME IInv, NEW g \in Goroutine, NEW cr \in Coder, NEW t \in Type, NEW w \in Writer,
         NewEncoder(g, cr, w, t)
  PROVE  IInv'
<1>1. PICK e \in Enc :
         /\ Available(encoder[e])
         /\ encoder' = [encoder EXCEPT ![e] = ResetEncoder(@, cr, w)]
         /\ Call(g, Frame("NewEncoder", cr, e, Nothing, w, t))
  BY DEF NewEncoder
<1>2. ~Busy(g) /\ ~InUse(w) /\ data' = [data EXCEPT ![w] = <<>>] /\ bufio' = bufio
  BY DEF NewEncoder
<1> DEFINE b == Nothing
<1>3. /\ b \in BufWriter \cup {Nothing} /\ b = Nothing
      /\ encoder' = [encoder EXCEPT ![e] = ResetEncoder(@, cr, IF b = Nothing THEN w ELSE b)]
      /\ Call(g, Frame("NewEncoder", cr, e, b, w, t))
  BY <1>1
<1> HIDE DEF b
<1> QED
  BY <1>1, <1>2, <1>3, BeginEncoderStep

(* What holds of the operation that returns, and of the stacks after it.    *)
LEMMA EndFacts ==
  ASSUME IInv, NEW g \in Goroutine, Busy(g)
  PROVE  /\ Top(g) \in FrameSet /\ KindOK(Top(g)) /\ EncoderIsOf(Top(g)) /\ BufioIsOf(Top(g))
         /\ \A status, out : ReturnTo(g, Top(g), status, out) /\ begun' = begun =>
              stack' \in [Goroutine -> Seq(FrameSet)] /\ StacksBounded'
<1>1. Typed /\ FramesInv /\ StacksBounded
  BY DEF IInv
<1>2. Len(stack[g]) \in DOMAIN stack[g] /\ Top(g) = stack[g][Len(stack[g])] /\ Top(g) \in FrameSet
  BY <1>1, TopFacts
<1>3. KindOK(Top(g)) /\ EncoderIsOf(Top(g)) /\ BufioIsOf(Top(g))
  BY <1>1, <1>2 DEF FramesInv, FramesOK, ObjectsOK
<1>4. ASSUME NEW status, NEW out, ReturnTo(g, Top(g), status, out), begun' = begun
      PROVE  stack' \in [Goroutine -> Seq(FrameSet)] /\ StacksBounded'
  <2>1. /\ stack' \in [Goroutine -> Seq(FrameSet)]
        /\ \A h \in Goroutine : h # g => stack'[h] = stack[h]
        /\ Len(stack[g]) - 1 \in Nat /\ Len(stack'[g]) = Len(stack[g]) - 1
    BY <1>1, <1>4, ReturnFacts DEF FramesInv
  <2>2. begun \in Nat /\ Len(stack[g]) \in Nat
    BY <1>1, TopFacts DEF Typed
  <2>3. Len(stack'[g]) \leq begun'
    BY <1>1, <1>4, <2>1, <2>2 DEF StacksBounded
  <2> QED
    BY <1>1, <1>4, <2>1, <2>3 DEF StacksBounded
<1> QED
  BY <1>2, <1>3, <1>4

(* Marshal copies its buffer, empties it and puts the encoder back.         *)
LEMMA EndMarshalStep ==
  ASSUME IInv, NEW g \in Goroutine, EndMarshal(g)
  PROVE  IInv'
<1> DEFINE f == Top(g)
           pooled == [encoder[f.enc] EXCEPT !.place = "pooled"]
<1>1. /\ Busy(g) /\ f.op = "Marshal" /\ Ended(f)
      /\ ReturnTo(g, f, Status(f), data[f.enc])
      /\ data' = [data EXCEPT ![f.enc] = <<>>]
      /\ encoder' = [encoder EXCEPT ![f.enc].place = "pooled"]
      /\ bufio' = bufio /\ begun' = begun
  BY DEF EndMarshal, ResetBuffer, PutBack
<1>2. f \in FrameSet /\ KindOK(f)
  BY <1>1, EndFacts
<1>3. f.enc \in MarshalEnc /\ f.enc \in Encoder /\ f.enc \in Sink /\ f.buf = Nothing
  BY <1>1, <1>2 DEF KindOK, Encoder, Sink
<1>4. stack' \in [Goroutine -> Seq(FrameSet)] /\ StacksBounded'
  BY <1>1, EndFacts
<1>5. /\ Typed /\ FramesInv /\ MarshalEncodersOK /\ encoder \in [Encoder -> Object]
      /\ \A e \in Encoder : Current(encoder[e])
  BY CacheIsCurrentByObject DEF IInv, Typed
<1>6. /\ pooled \in Object /\ Current(pooled) /\ pooled.place = "pooled"
      /\ pooled.w = encoder[f.enc].w /\ pooled.ws = encoder[f.enc].ws
  <2>1. /\ pooled \in Object /\ pooled.cache = encoder[f.enc].cache /\ pooled.place = "pooled"
        /\ pooled.cr = encoder[f.enc].cr
        /\ pooled.w = encoder[f.enc].w /\ pooled.ws = encoder[f.enc].ws
    BY <1>3, <1>5 DEF Object
  <2> HIDE DEF pooled
  <2> QED
    BY <1>3, <1>5, <2>1 DEF Current
<1>7. encoder' = [encoder EXCEPT ![f.enc] = pooled]
  BY <1>1, <1>3, <1>5
<1> HIDE DEF pooled
<1>8. /\ encoder' \in [Encoder -> Object] /\ encoder'[f.enc] = pooled
      /\ \A x \in Encoder : x # f.enc => encoder'[x] = encoder[x]
  BY <1>3, <1>5, <1>6, <1>7
<1>9. FramesInv'
  <2>1. \A b \in BufWriter : b # f.buf
    BY <1>3, PoolAssumption DEF Sink
  <2> QED
    BY <1>1, <1>5, <1>6, <1>8, <2>1, ReturnStep
<1>10. Typed'
  <2>1. data \in [Sink -> Seq(Chunk)] /\ <<>> \in Seq(Chunk)
    BY <1>5 DEF Typed
  <2>2. data' \in [Sink -> Seq(Chunk)]
    BY <1>1, <1>3, <2>1
  <2>3. \A b \in BufWriter : data'[b] = data[b]
    BY <1>1, <1>3, <2>1, PoolAssumption DEF Sink
  <2> QED
    BY <1>1, <1>4, <1>5, <1>8, <2>2, <2>3 DEF Typed
<1>11. MarshalEncodersOK'
  <2> SUFFICES ASSUME NEW e \in MarshalEnc
               PROVE  /\ encoder'[e].w = e /\ encoder'[e].ws = e
                      /\ encoder'[e].place # "held" => data'[e] = <<>>
    BY DEF MarshalEncodersOK
  <2>1. CASE e = f.enc
    BY <1>1, <1>3, <1>5, <1>6, <1>8, <2>1 DEF Typed, MarshalEncodersOK
  <2>2. CASE e # f.enc
    BY <1>1, <1>3, <1>5, <1>8, <2>2 DEF Typed, MarshalEncodersOK, Encoder, Sink
  <2> QED
    BY <2>1, <2>2
<1>12. CacheIsCurrent'
  <2>1. \A x \in Encoder : Current(encoder'[x])
    BY <1>3, <1>5, <1>6, <1>8
  <2> QED
    BY <2>1 DEF CacheIsCurrent, Current
<1> QED
  BY <1>4, <1>9, <1>10, <1>11, <1>12 DEF IInv

(* A bufio.Writer with nothing to write, in its pool.                       *)
LEMMA FlushedFacts ==
  ASSUME IInv, NEW b \in BufWriter, NEW dst \in Writer, bufio[b].dst = dst,
         NEW n \in 0..Len(data[b])
  PROVE  /\ Flushed(b, n) = data[dst] \o SubSeq(data[b], 1, n)
         /\ SubSeq(data[b], 1, n) \in Seq(Chunk) /\ Flushed(b, n) \in Seq(Chunk)
<1>1. data[b] \in Seq(Chunk) /\ data[dst] \in Seq(Chunk)
  BY DEF IInv, Typed, Sink
<1>2. SubSeq(data[b], 1, n) \in Seq(Chunk)
  <2>1. \A i \in 1..n : data[b][i] \in Chunk
    BY <1>1
  <2> QED
    BY <1>1, <2>1, SubSeqProperties
<1> QED
  BY <1>1, <1>2, ConcatProperties DEF Flushed

(* Write flushes its buffer and puts it back.                               *)
LEMMA EndWriteStep ==
  ASSUME IInv, NEW g \in Goroutine, EndWrite(g)
  PROVE  IInv'
<1> DEFINE f == Top(g)
           b == f.buf
<1>1. Busy(g)
  BY DEF EndWrite
<1>2. f \in FrameSet /\ KindOK(f) /\ BufioIsOf(f)
  BY <1>1, EndFacts
<1>3. PICK status, n : /\ ReturnWrite(g, status, n)
                       /\ b # Nothing => n \in 0..Len(data[b])
                       /\ f.status \in {"flush", "failed"}
  <2>1. b # Nothing => Len(data[b]) \in Nat
    BY <1>2 DEF FrameSet, IInv, Typed, Sink
  <2> QED
    BY <2>1 DEF EndWrite
<1>4. f.enc = Nothing /\ f.op = "Write" /\ f.dst \in Writer
  BY <1>2, <1>3 DEF KindOK
<1>5. b # Nothing => b \in BufWriter /\ bufio[b].dst = f.dst
  BY <1>2 DEF FrameSet, BufioIsOf
<1> DEFINE out == IF b = Nothing THEN data[f.dst] ELSE Flushed(b, n)
<1>6. /\ ReturnTo(g, f, status, out) /\ encoder' = encoder /\ begun' = begun
      /\ IF b = Nothing
         THEN data' = data /\ bufio' = bufio
         ELSE /\ data' = [data EXCEPT ![f.dst] = out, ![b] = <<>>]
              /\ bufio' = [bufio EXCEPT ![b] = [NewBufio EXCEPT !.place = "pooled"]]
  BY <1>3 DEF ReturnWrite
<1>7. stack' \in [Goroutine -> Seq(FrameSet)] /\ StacksBounded'
  BY <1>1, <1>6, EndFacts
<1>8. Typed /\ FramesInv /\ MarshalEncodersOK /\ CacheIsCurrent
  BY DEF IInv
<1>9. b # Nothing => out \in Seq(Chunk)
  BY <1>3, <1>4, <1>5, FlushedFacts
<1> HIDE DEF f, b, out
<1>10. /\ data' \in [Sink -> Seq(Chunk)]
       /\ \A x \in BufWriter : data'[x] \in {<<>>, data[x]}
       /\ \A x \in MarshalEnc : data'[x] = data[x]
  <2>1. data \in [Sink -> Seq(Chunk)] /\ <<>> \in Seq(Chunk)
    BY <1>8 DEF Typed
  <2>2. f.dst \in Sink /\ f.dst \notin BufWriter /\ f.dst \notin MarshalEnc
    BY <1>4, PoolAssumption DEF Sink
  <2>3. b # Nothing => b \in Sink /\ b \notin MarshalEnc
    BY <1>5, PoolAssumption DEF Sink
  <2> QED
    BY <1>6, <1>9, <2>1, <2>2, <2>3 DEF Sink
<1>11. /\ bufio' \in [BufWriter -> [place : {"free", "pooled", "held"}, dst : Writer \cup {Nothing}]]
       /\ \A x \in BufWriter : IF x = b THEN bufio'[x].place # "held" ELSE bufio'[x] = bufio[x]
  <2>1. Nothing \notin BufWriter
    BY PoolAssumption DEF Sink
  <2>2. [NewBufio EXCEPT !.place = "pooled"] = [place |-> "pooled", dst |-> Nothing]
    BY DEF NewBufio
  <2> QED
    BY <1>5, <1>6, <1>8, <2>1, <2>2, ZenonT(40) DEF Typed
<1>12. FramesInv'
  <2>1. \A e \in Encoder : e # Top(g).enc
    BY <1>4, PoolAssumption DEF f
  <2>2. ReturnTo(g, Top(g), status, out)
    BY <1>6 DEF f
  <2>3. \A x \in BufWriter : IF x = Top(g).buf THEN bufio'[x].place # "held"
                                               ELSE bufio'[x] = bufio[x]
    BY <1>11 DEF f, b
  <2> QED
    BY <1>1, <1>6, <1>8, <2>1, <2>2, <2>3, ReturnStep
<1>13. Typed'
  <2>1. Len(<<>>) \leq BufSize
    BY PoolAssumption
  <2>2. \A x \in BufWriter : Len(data'[x]) \leq BufSize
    BY <1>8, <1>10, <2>1 DEF Typed
  <2> QED
    BY <1>6, <1>7, <1>8, <1>10, <1>11, <2>2 DEF Typed
<1>14. MarshalEncodersOK' /\ CacheIsCurrent'
  BY <1>6, <1>8, <1>10 DEF MarshalEncodersOK, CacheIsCurrent
<1> QED
  BY <1>7, <1>12, <1>13, <1>14 DEF IInv

(* A panic in Write, or a user, leaves an encoder to the collector.         *)
LEMMA AbandonStep ==
  ASSUME IInv, NEW g \in Goroutine, Abandon(g)
  PROVE  IInv'
<1> DEFINE f == Top(g)
           b == f.buf
<1>1. /\ Busy(g) /\ Ended(f) /\ f.op \in {"NewEncoder", "Write"}
      /\ ReturnTo(g, f, Status(f), data[f.dst])
      /\ encoder' = [encoder EXCEPT ![f.enc] = NewObject(f.enc)]
      /\ IF b = Nothing
         THEN data' = data /\ bufio' = bufio
         ELSE /\ data' = [data EXCEPT ![b] = <<>>]
              /\ bufio' = [bufio EXCEPT ![b] = NewBufio]
      /\ begun' = begun
  BY DEF Abandon
<1>2. f \in FrameSet /\ KindOK(f)
  BY <1>1, EndFacts
<1>3. f.enc \in Enc /\ f.enc \in Encoder /\ f.enc \notin MarshalEnc
  BY <1>1, <1>2, PoolAssumption DEF KindOK, Ended, Encoder
<1>4. b # Nothing => b \in BufWriter
  BY <1>2 DEF FrameSet
<1>5. stack' \in [Goroutine -> Seq(FrameSet)] /\ StacksBounded'
  BY <1>1, EndFacts
<1>6. /\ Typed /\ FramesInv /\ MarshalEncodersOK /\ encoder \in [Encoder -> Object]
      /\ \A e \in Encoder : Current(encoder[e])
  BY CacheIsCurrentByObject DEF IInv, Typed
<1>7. NewObject(f.enc) \in Object /\ Current(NewObject(f.enc)) /\ NewObject(f.enc).place = "free"
  <2>1. f.cr \in Coder /\ f.dst \in Sink /\ encoder[f.enc] \in Object
    BY <1>2, <1>3, <1>6 DEF FrameSet
  <2>2. NewObject(f.enc).place = "free"
    BY DEF NewObject
  <2> HIDE DEF f
  <2> QED
    BY <1>3, <2>1, <2>2, ObjectFacts
<1>8. /\ encoder' \in [Encoder -> Object] /\ encoder'[f.enc] = NewObject(f.enc)
      /\ \A x \in Encoder : x # f.enc => encoder'[x] = encoder[x]
  BY <1>1, <1>3, <1>6, <1>7
<1>9. /\ data' \in [Sink -> Seq(Chunk)]
      /\ \A x \in BufWriter : data'[x] \in {<<>>, data[x]}
      /\ \A x \in MarshalEnc : data'[x] = data[x]
  <2>1. data \in [Sink -> Seq(Chunk)] /\ <<>> \in Seq(Chunk)
    BY <1>6 DEF Typed
  <2>2. b # Nothing => b \in Sink /\ b \notin MarshalEnc
    BY <1>4, PoolAssumption DEF Sink
  <2> QED
    BY <1>1, <2>1, <2>2 DEF Sink
<1>10. /\ bufio' \in [BufWriter -> [place : {"free", "pooled", "held"}, dst : Writer \cup {Nothing}]]
       /\ \A x \in BufWriter : IF x = b THEN bufio'[x].place # "held" ELSE bufio'[x] = bufio[x]
  <2>1. Nothing \notin BufWriter
    BY PoolAssumption DEF Sink
  <2> QED
    BY <1>1, <1>4, <1>6, <2>1 DEF Typed, NewBufio
<1>11. FramesInv'
  BY <1>1, <1>6, <1>7, <1>8, <1>10, ReturnStep
<1>12. Typed'
  <2>1. Len(<<>>) \leq BufSize
    BY PoolAssumption
  <2>2. \A x \in BufWriter : Len(data'[x]) \leq BufSize
    BY <1>6, <1>9, <2>1 DEF Typed
  <2> QED
    BY <1>1, <1>5, <1>6, <1>8, <1>9, <1>10, <2>2 DEF Typed
<1>13. MarshalEncodersOK'
  <2>1. \A x \in MarshalEnc : encoder'[x] = encoder[x]
    BY <1>3, <1>8 DEF Encoder
  <2> QED
    BY <1>6, <1>9, <2>1 DEF MarshalEncodersOK
<1>14. CacheIsCurrent'
  <2>1. \A x \in Encoder : Current(encoder'[x])
    BY <1>3, <1>6, <1>7, <1>8
  <2> QED
    BY <2>1 DEF CacheIsCurrent, Current
<1> QED
  BY <1>5, <1>11, <1>12, <1>13, <1>14 DEF IInv

(* sync.Pool: the garbage collector empties a pool.                         *)
LEMMA DropFromPoolStep ==
  ASSUME IInv, DropFromPool
  PROVE  IInv'
<1>1. /\ Typed /\ FramesInv /\ MarshalEncodersOK /\ StacksBounded
      /\ encoder \in [Encoder -> Object] /\ data \in [Sink -> Seq(Chunk)]
      /\ \A e \in Encoder : Current(encoder[e])
  BY CacheIsCurrentByObject DEF IInv, Typed
<1>2. UNCHANGED <<stack, begun>>
  BY DEF DropFromPool
(* Only what nobody has changes, and then nobody has it.                    *)
<1> DEFINE Kept ==
      /\ \A e \in Encoder : encoder'[e] = encoder[e] \/
           (encoder[e].place = "pooled" /\ encoder'[e].place = "free")
      /\ \A b \in BufWriter : bufio'[b] = bufio[b] \/
           (bufio[b].place = "pooled" /\ bufio'[b].place = "free")
<1>3. Kept => FramesInv'
  <2> SUFFICES ASSUME Kept PROVE FramesInv'
    OBVIOUS
  <2>1. FramesOK' /\ AllApart'
    BY <1>1, <1>2 DEF FramesInv, FramesOK, KindOK, CallsMarshal, AllApart, Apart
  <2>2. ObjectsOK'
    <3> SUFFICES ASSUME NEW h \in Goroutine, NEW i \in DOMAIN stack[h]
                 PROVE  EncoderIsOf(stack[h][i])' /\ BufioIsOf(stack[h][i])'
      BY <1>2 DEF ObjectsOK
    <3>1. /\ EncoderIsOf(stack[h][i]) /\ BufioIsOf(stack[h][i]) /\ stack[h][i] \in FrameSet
      BY <1>1, TopFacts DEF FramesInv, ObjectsOK
    <3> QED
      BY <1>2, <3>1 DEF EncoderIsOf, BufioIsOf, Target, FrameSet
  <2>3. HeldByOne'
    BY <1>1, <1>2 DEF FramesInv, HeldByOne
  <2> QED
    BY <2>1, <2>2, <2>3 DEF FramesInv
<1>4. Len(<<>>) \leq BufSize /\ <<>> \in Seq(Chunk)
  BY PoolAssumption
<1>5. ASSUME NEW e \in Encoder, encoder[e].place = "pooled",
             encoder' = [encoder EXCEPT ![e] = NewObject(e)],
             data' = IF e \in MarshalEnc THEN [data EXCEPT ![e] = <<>>] ELSE data,
             bufio' = bufio
      PROVE  IInv'
  <2>1. NewObject(e) \in Object /\ Current(NewObject(e))
    <3>1. CacheSize - 1 \in Slots
      BY PoolAssumption DEF Slots
    <3>2. [i \in Slots |-> NoEntry] \in [Slots -> Entry]
      BY DEF Entry, NoEntry
    <3> QED
      BY <3>1, <3>2 DEF NewObject, Object, Sink, Current, NoEntry
  <2>2. NewObject(e).place = "free" /\ (e \in MarshalEnc => NewObject(e).w = e /\ NewObject(e).ws = e)
    BY DEF NewObject
  <2>3. /\ encoder' \in [Encoder -> Object] /\ encoder'[e] = NewObject(e)
        /\ \A x \in Encoder : x # e => encoder'[x] = encoder[x]
    BY <1>1, <1>5, <2>1
  <2>4. /\ data' \in [Sink -> Seq(Chunk)]
        /\ \A b \in BufWriter : data'[b] = data[b]
        /\ \A x \in MarshalEnc : data'[x] = IF x = e THEN <<>> ELSE data[x]
    BY <1>1, <1>4, <1>5, PoolAssumption DEF Sink
  <2>5. FramesInv'
    BY <1>3, <1>5, <2>2, <2>3
  <2>6. Typed' /\ StacksBounded'
    BY <1>1, <1>2, <1>5, <2>3, <2>4 DEF Typed, StacksBounded
  <2>7. MarshalEncodersOK'
    BY <1>1, <2>2, <2>3, <2>4 DEF MarshalEncodersOK, Encoder
  <2>8. CacheIsCurrent'
    <3>1. \A x \in Encoder : Current(encoder'[x])
      BY <1>1, <2>1, <2>3
    <3> QED
      BY <3>1 DEF CacheIsCurrent, Current
  <2> QED
    BY <2>5, <2>6, <2>7, <2>8 DEF IInv
<1>6. ASSUME NEW b \in BufWriter, bufio[b].place = "pooled",
             bufio' = [bufio EXCEPT ![b] = NewBufio], data' = [data EXCEPT ![b] = <<>>],
             encoder' = encoder
      PROVE  IInv'
  <2>1. /\ bufio' \in [BufWriter -> [place : {"free", "pooled", "held"}, dst : Writer \cup {Nothing}]]
        /\ bufio'[b].place = "free" /\ \A x \in BufWriter : x # b => bufio'[x] = bufio[x]
    BY <1>1, <1>6 DEF Typed, NewBufio
  <2>2. /\ data' \in [Sink -> Seq(Chunk)]
        /\ \A x \in BufWriter : data'[x] \in {<<>>, data[x]}
        /\ \A x \in MarshalEnc : data'[x] = data[x]
    BY <1>1, <1>4, <1>6, PoolAssumption DEF Sink
  <2>3. FramesInv'
    BY <1>3, <1>6, <2>1
  <2>4. \A x \in BufWriter : Len(data'[x]) \leq BufSize
    BY <1>1, <1>4, <2>2 DEF Typed
  <2>5. Typed' /\ StacksBounded'
    BY <1>1, <1>2, <1>6, <2>1, <2>2, <2>4 DEF Typed, StacksBounded
  <2>6. MarshalEncodersOK' /\ CacheIsCurrent'
    BY <1>1, <1>6, <2>2 DEF IInv, MarshalEncodersOK, CacheIsCurrent
  <2> QED
    BY <2>3, <2>5, <2>6 DEF IInv
<1> QED
  BY <1>5, <1>6 DEF DropFromPool

(* At first all objects are in nobody's hands.                              *)
LEMMA InitIInv == Init => IInv
<1> SUFFICES ASSUME Init PROVE IInv
  OBVIOUS
<1>1. \A e \in Encoder : /\ encoder[e] = NewObject(e)
                         /\ NewObject(e) \in Object /\ Current(NewObject(e))
                         /\ NewObject(e).place = "free"
                         /\ e \in MarshalEnc => NewObject(e).w = e /\ NewObject(e).ws = e
  <2> SUFFICES ASSUME NEW e \in Encoder
               PROVE  /\ encoder[e] = NewObject(e)
                      /\ NewObject(e) \in Object /\ Current(NewObject(e))
                      /\ NewObject(e).place = "free"
                      /\ e \in MarshalEnc => NewObject(e).w = e /\ NewObject(e).ws = e
    OBVIOUS
  <2>1. CacheSize - 1 \in Slots
    BY PoolAssumption DEF Slots
  <2>2. [i \in Slots |-> NoEntry] \in [Slots -> Entry]
    BY DEF Entry, NoEntry
  <2>3. NewObject(e) \in Object /\ Current(NewObject(e))
    BY <2>1, <2>2 DEF NewObject, Object, Sink, Current, NoEntry
  <2> QED
    BY <2>3 DEF Init, NewObject
<1>2. \A g \in Goroutine : stack[g] = <<>> /\ DOMAIN stack[g] = {} /\ Len(stack[g]) = 0
  BY DEF Init
<1>3. \A s \in Sink : data[s] = <<>> /\ data[s] \in Seq(Chunk)
  BY DEF Init
<1>4. Typed
  <2>1. encoder \in [Encoder -> Object]
    BY <1>1 DEF Init
  <2>2. bufio \in [BufWriter -> [place : {"free", "pooled", "held"}, dst : Writer \cup {Nothing}]]
    BY DEF Init, NewBufio
  <2>3. data \in [Sink -> Seq(Chunk)] /\ \A b \in BufWriter : Len(data[b]) \leq BufSize
    BY <1>3, PoolAssumption DEF Init, Sink
  <2>4. stack \in [Goroutine -> Seq(FrameSet)]
    BY DEF Init
  <2>5. begun \in 0..MaxBegun
    BY PoolAssumption DEF Init
  <2> QED
    BY <2>1, <2>2, <2>3, <2>4, <2>5 DEF Typed
<1>5. FramesInv
  <2>1. FramesOK /\ ObjectsOK /\ AllApart
    BY <1>2 DEF FramesOK, ObjectsOK, AllApart
  <2>2. \A b \in BufWriter : bufio[b].place = "free"
    BY DEF Init, NewBufio
  <2> QED
    BY <1>1, <2>1, <2>2 DEF FramesInv, HeldByOne
<1>6. MarshalEncodersOK /\ StacksBounded
  <2>1. MarshalEncodersOK
    BY <1>1, <1>3 DEF MarshalEncodersOK, Encoder, Sink
  <2>2. begun = 0
    BY DEF Init
  <2> QED
    BY <1>2, <2>1, <2>2 DEF StacksBounded
<1>7. CacheIsCurrent
  BY <1>1, CacheIsCurrentByObject
<1> QED
  BY <1>4, <1>5, <1>6, <1>7 DEF IInv

(* A step that changes nothing keeps the invariant.                         *)
LEMMA StutterIInv == ASSUME IInv, UNCHANGED vars PROVE IInv'
BY DEF vars, IInv, Typed, FramesInv, FramesOK, KindOK, CallsMarshal, ObjectsOK, EncoderIsOf,
       BufioIsOf, Target, AllApart, Apart, HeldByOne, MarshalEncodersOK, StacksBounded,
       CacheIsCurrent

(* Every step keeps the invariant.                                          *)
LEMMA NextIInv == ASSUME IInv, [Next]_vars PROVE IInv'
<1>1. CASE DropFromPool
  BY <1>1, DropFromPoolStep
<1>2. ASSUME NEW g \in Goroutine, Step(g) PROVE IInv'
  BY <1>2, EncodeValueStep, EmitChunkStep, FailStep, EndMarshalStep, ReleaseEncoderStep,
     EndWriteStep, AbandonStep DEF Step
<1>3. ASSUME NEW g \in Goroutine, NEW cr \in Coder, NEW t \in Type, Marshal(g, cr, t)
      PROVE  IInv'
  BY <1>3, MarshalStep
<1>4. ASSUME NEW g \in Goroutine, NEW cr \in Coder, NEW t \in Type, NEW w \in Writer,
             Write(g, cr, w, t) \/ NewEncoder(g, cr, w, t)
      PROVE  IInv'
  BY <1>4, WriteStep, NewEncoderStep
<1>5. ASSUME NEW g \in Goroutine, NEW t \in Type, EncodeNext(g, t) PROVE IInv'
  BY <1>5, EncodeNextStep
<1>6. CASE UNCHANGED vars
  BY <1>6, StutterIInv
<1> QED
  BY <1>1, <1>2, <1>3, <1>4, <1>5, <1>6 DEF Next

(* In every reachable state an operation has its pooled objects to itself,  *)
(* and finds them the way encoder.reset and marshalEncoder.reset have set   *)
(* them up.                                                                 *)
THEOREM Inductive == Spec => []IInv
<1>1. IInv /\ [Next]_vars => IInv'
  BY NextIInv
<1> QED
  BY <1>1, InitIInv, PTL DEF Spec

-----------------------------------------------------------------------------
(* What follows.                                                            *)

(* The fields of the encoders, of the bufio.Writers and their buffers are   *)
(* of the types that encoder.reset and marshalEncoder.reset give them.      *)
THEOREM TypeCorrect == Spec => []TypeOK
<1>1. IInv => TypeOK
  <2> SUFFICES ASSUME IInv PROVE TypeOK
    OBVIOUS
  <2>1. Typed /\ encoder \in [Encoder -> Object]
    BY DEF IInv, Typed
  <2>2. ASSUME NEW e \in Encoder
        PROVE  /\ encoder[e].place \in {"free", "pooled", "held"}
               /\ encoder[e].cr \in Coder \cup {Nothing}
               /\ encoder[e].w \in Sink \cup {Nothing} /\ encoder[e].ws \in Sink \cup {Nothing}
               /\ encoder[e].slot \in Slots
               /\ encoder[e].cache \in [Slots -> [type : Type \cup {Nothing},
                    codec : [coder : Coder, type : Type] \cup {Nothing}]]
    BY <2>1 DEF Object, Entry
  <2> QED
    BY <2>1, <2>2 DEF TypeOK, Typed
<1> QED
  BY <1>1, Inductive, PTL

(* The codecs an encoder has cached are those of the coder it works for,    *)
(* and each type is cached once, whoever had the encoder before.            *)
THEOREM CachesAreCurrent == Spec => []CacheIsCurrent
<1>1. IInv => CacheIsCurrent
  BY DEF IInv
<1> QED
  BY <1>1, Inductive, PTL

(* An encoder or a bufio.Writer is held by one operation, or by none and    *)
(* then the pool or the garbage collector has it.                           *)
THEOREM PooledObjectsHeldOnce == Spec => []HeldOnce
<1>1. ASSUME IInv PROVE HeldOnce
  <2>1. /\ Typed /\ ObjectsOK /\ AllApart /\ HeldByOne /\ StacksBounded
    BY <1>1 DEF IInv, FramesInv
  <2>2. \A g \in Goroutine : \A i \in DOMAIN stack[g] :
          /\ <<g, i>> \in Frames /\ FrameAt(<<g, i>>) = stack[g][i]
    <3> SUFFICES ASSUME NEW g \in Goroutine, NEW i \in DOMAIN stack[g]
                 PROVE  <<g, i>> \in Frames /\ FrameAt(<<g, i>>) = stack[g][i]
      OBVIOUS
    <3>1. Len(stack[g]) \in Nat /\ DOMAIN stack[g] = 1..Len(stack[g]) /\ Len(stack[g]) \leq begun
      BY <2>1, TopFacts DEF StacksBounded
    <3>2. begun \in 0..MaxBegun /\ MaxBegun \in Nat
      BY <2>1, PoolAssumption DEF Typed
    <3>3. i \in 1..MaxBegun
      BY <3>1, <3>2
    <3> QED
      BY <3>3 DEF Frames, FrameAt
  <2>3. \A p \in Frames : /\ p = <<p[1], p[2]>> /\ p[1] \in Goroutine /\ p[2] \in DOMAIN stack[p[1]]
                          /\ FrameAt(p) = stack[p[1]][p[2]]
    BY DEF Frames, FrameAt
  <2>4. \A p, q \in Frames : p # q => Apart(FrameAt(p), FrameAt(q))
    <3> SUFFICES ASSUME NEW p \in Frames, NEW q \in Frames, p # q
                 PROVE  Apart(FrameAt(p), FrameAt(q))
      OBVIOUS
    <3>1. p[1] # q[1] \/ p[2] # q[2]
      BY <2>3
    <3> QED
      BY <2>1, <2>3, <3>1 DEF AllApart
  <2>5. Nothing \notin Encoder /\ Nothing \notin BufWriter
    BY PoolAssumption DEF Sink
  <2>6. ASSUME NEW e \in Encoder
        PROVE  Cardinality({p \in Frames : FrameAt(p).enc = e}) =
                 IF encoder[e].place = "held" THEN 1 ELSE 0
    <3> DEFINE H == {p \in Frames : FrameAt(p).enc = e}
    <3>1. CASE encoder[e].place = "held"
      <4>1. PICK g \in Goroutine : \E i \in DOMAIN stack[g] : stack[g][i].enc = e
        BY <2>1, <3>1 DEF HeldByOne
      <4>2. PICK i \in DOMAIN stack[g] : stack[g][i].enc = e
        BY <4>1
      <4>3. <<g, i>> \in H
        BY <2>2, <4>2
      <4>4. \A p, q \in H : p = q
        BY <2>4, <2>5 DEF Apart
      <4> HIDE DEF H
      <4>5. H = {<<g, i>>}
        BY <4>3, <4>4
      <4> QED
        BY <3>1, <4>5, FS_Singleton DEF H
    <3>2. CASE encoder[e].place # "held"
      <4>1. H = {}
        BY <2>1, <2>3, <2>5, <3>2 DEF ObjectsOK, EncoderIsOf
      <4> QED
        BY <3>2, <4>1, FS_EmptySet
    <3> QED
      BY <3>1, <3>2
  <2>7. ASSUME NEW b \in BufWriter
        PROVE  Cardinality({p \in Frames : FrameAt(p).buf = b}) =
                 IF bufio[b].place = "held" THEN 1 ELSE 0
    <3> DEFINE H == {p \in Frames : FrameAt(p).buf = b}
    <3>1. CASE bufio[b].place = "held"
      <4>1. PICK g \in Goroutine : \E i \in DOMAIN stack[g] : stack[g][i].buf = b
        BY <2>1, <3>1 DEF HeldByOne
      <4>2. PICK i \in DOMAIN stack[g] : stack[g][i].buf = b
        BY <4>1
      <4>3. <<g, i>> \in H
        BY <2>2, <4>2
      <4>4. \A p, q \in H : p = q
        BY <2>4, <2>5 DEF Apart
      <4> HIDE DEF H
      <4>5. H = {<<g, i>>}
        BY <4>3, <4>4
      <4> QED
        BY <3>1, <4>5, FS_Singleton DEF H
    <3>2. CASE bufio[b].place # "held"
      <4>1. ASSUME NEW p \in H PROVE FALSE
        <5>1. BufioIsOf(FrameAt(p)) /\ FrameAt(p).buf = b
          BY <2>1, <2>3 DEF ObjectsOK
        <5> QED
          BY <2>5, <3>2, <5>1 DEF BufioIsOf
      <4>2. H = {}
        BY <4>1
      <4> QED
        BY <3>2, <4>2, FS_EmptySet
    <3> QED
      BY <3>1, <3>2
  <2> QED
    BY <2>6, <2>7 DEF HeldOnce
<1> QED
  BY <1>1, Inductive, PTL

(* What an operation has is in use.                                         *)
LEMMA TopInUse == ASSUME Typed, NEW g \in Goroutine, Busy(g) PROVE InUse(Top(g).dst)
BY TopFacts DEF InUse

(* The writer of an operation that begins is in use.                        *)
LEMMA BegunInUse ==
  ASSUME IInv, NEW g \in Goroutine, NEW f \in FrameSet, Call(g, f)
  PROVE  InUse(f.dst)'
<1>1. /\ DOMAIN stack'[g] = 1..(Len(stack[g]) + 1) /\ Len(stack[g]) \in Nat
      /\ stack'[g][Len(stack[g]) + 1] = f
  BY PushFacts, TopFacts DEF IInv, Call
<1>2. Len(stack[g]) + 1 \in DOMAIN stack'[g]
  BY <1>1
<1> QED
  BY <1>1, <1>2 DEF InUse

(* What is written to a user's writer is written by its operation.          *)
LEMMA WriterStep ==
  ASSUME IInv, [Next]_vars, NEW w \in Writer, data'[w] # data[w]
  PROVE  InUse(w) \/ InUse(w)'
<1>1. /\ w \in Sink /\ w \notin MarshalEnc /\ w \notin BufWriter
      /\ data \in [Sink -> Seq(Chunk)] /\ Typed
  BY PoolAssumption DEF Sink, IInv, Typed
<1>2. CASE DropFromPool
  BY <1>1, <1>2 DEF DropFromPool
<1>3. ASSUME NEW g \in Goroutine, Step(g) PROVE InUse(w)
  <2>1. CASE EncodeValue(g) \/ Fail(g) \/ ReleaseEncoder(g)
    BY <2>1 DEF EncodeValue, Fail, ReleaseEncoder
  <2>2. CASE EmitChunk(g)
    <3> DEFINE f == Top(g)
    <3>1. /\ Running(g) /\ NextItem(g).chunk \in Chunk
          /\ Accept(Target(f), NextItem(g).chunk) \/ Refuse(Target(f))
      <4>1. AtItem(g, {"write", "string"})
        BY <2>2 DEF EmitChunk
      <4>2. Running(g) /\ NextItem(g) \in Item
        BY <4>1, ItemFacts
      <4>3. SinkOf(encoder[f.enc], NextItem(g).do) = Target(f)
        BY <4>2, RunningFacts
      <4> QED
        BY <2>2, <4>2, <4>3 DEF EmitChunk, Item, Items
    <3>2. Busy(g) /\ f \in FrameSet
      BY <3>1, RunningFacts
    <3>3. w = Target(f) \/ w = f.dst
      BY <1>1, <3>1, EmitFacts
    <3>4. w = f.dst
      BY <1>1, <3>2, <3>3 DEF Target, FrameSet
    <3> QED
      BY <1>1, <3>2, <3>4, TopInUse
  <2>3. CASE EndMarshal(g)
    <3>1. Busy(g) /\ Top(g).op = "Marshal" /\ data' = [data EXCEPT ![Top(g).enc] = <<>>]
      BY <2>3 DEF EndMarshal, ResetBuffer
    <3>2. Top(g).enc \in MarshalEnc
      BY <3>1, EndFacts DEF KindOK
    <3> QED
      BY <1>1, <3>1, <3>2
  <2>4. CASE EndWrite(g)
    <3> DEFINE f == Top(g)
    <3>1. Busy(g) /\ \E status, n : ReturnWrite(g, status, n)
      BY <2>4 DEF EndWrite
    <3>2. PICK out : \/ data' = data
                     \/ f.buf # Nothing /\ data' = [data EXCEPT ![f.dst] = out, ![f.buf] = <<>>]
      BY <3>1 DEF ReturnWrite
    <3>3. f \in FrameSet /\ (f.buf # Nothing => f.buf \in BufWriter)
      BY <3>1, EndFacts DEF FrameSet
    <3>4. w = f.dst
      BY <1>1, <3>2, <3>3
    <3> QED
      BY <1>1, <3>1, <3>4, TopInUse
  <2>5. CASE Abandon(g)
    <3>1. Busy(g) /\ (data' = data \/ (Top(g).buf # Nothing /\ data' = [data EXCEPT ![Top(g).buf] = <<>>]))
      BY <2>5 DEF Abandon
    <3>2. Top(g).buf # Nothing => Top(g).buf \in BufWriter
      BY <3>1, EndFacts DEF FrameSet
    <3> QED
      BY <1>1, <3>1, <3>2
  <2> QED
    BY <1>3, <2>1, <2>2, <2>3, <2>4, <2>5 DEF Step
<1>4. ASSUME NEW g \in Goroutine, NEW cr \in Coder, NEW t \in Type,
             Marshal(g, cr, t) \/ EncodeNext(g, t)
      PROVE  FALSE
  BY <1>4 DEF Marshal, EncodeNext
<1>5. ASSUME NEW g \in Goroutine, NEW cr \in Coder, NEW t \in Type, NEW x \in Writer,
             Write(g, cr, x, t)
      PROVE  InUse(w)'
  <2>1. PICK e \in Enc, b \in BufWriter \cup {Nothing} :
          /\ Call(g, Frame("Write", cr, e, b, x, t))
          /\ IF b = Nothing THEN data' = [data EXCEPT ![x] = <<>>]
                            ELSE data' = [data EXCEPT ![x] = <<>>, ![b] = <<>>]
    <3>1. Nothing \notin BufWriter
      BY PoolAssumption DEF Sink
    <3> QED
      BY <1>5, <3>1 DEF Write
  <2>2. w = x
    BY <1>1, <2>1
  <2>3. e \in Encoder /\ x \in Sink
    BY DEF Encoder, Sink
  <2>4. /\ Frame("Write", cr, e, b, x, t) \in FrameSet
        /\ Frame("Write", cr, e, b, x, t).dst = x
    BY <2>3, FrameFacts
  <2> QED
    BY <2>1, <2>2, <2>4, BegunInUse
<1>6. ASSUME NEW g \in Goroutine, NEW cr \in Coder, NEW t \in Type, NEW x \in Writer,
             NewEncoder(g, cr, x, t)
      PROVE  InUse(w)'
  <2>1. PICK e \in Enc : /\ Call(g, Frame("NewEncoder", cr, e, Nothing, x, t))
                         /\ data' = [data EXCEPT ![x] = <<>>]
    BY <1>6 DEF NewEncoder
  <2>2. w = x
    BY <1>1, <2>1
  <2>3. e \in Encoder /\ x \in Sink
    BY DEF Encoder, Sink
  <2>4. /\ Frame("NewEncoder", cr, e, Nothing, x, t) \in FrameSet
        /\ Frame("NewEncoder", cr, e, Nothing, x, t).dst = x
    BY <2>3, FrameFacts
  <2> QED
    BY <2>1, <2>2, <2>4, BegunInUse
<1>7. CASE UNCHANGED vars
  BY <1>7 DEF vars
<1> QED
  <2>1. CASE \E g \in Goroutine, cr \in Coder, t \in Type : Marshal(g, cr, t)
    BY <1>4, <2>1
  <2>2. CASE \E g \in Goroutine, t \in Type : EncodeNext(g, t)
    BY <2>2 DEF EncodeNext
  <2>3. CASE \E g \in Goroutine, cr \in Coder, t \in Type, x \in Writer :
               Write(g, cr, x, t) \/ NewEncoder(g, cr, x, t)
    BY <1>5, <1>6, <2>3
  <2> QED
    BY <1>2, <1>3, <1>7, <2>1, <2>2, <2>3 DEF Next

(* Nobody writes to a user's writer unless an operation on it is under way: *)
(* not the encoder, which Write has put back before it flushes, and not the *)
(* bufio.Writer that a later Write gets from the pool.                      *)
THEOREM WritersLeftAlone == Spec => WritersAreLeftAlone
<1>1. IInv /\ [Next]_vars => [\A w \in Writer : data'[w] # data[w] => InUse(w) \/ InUse(w)']_vars
  BY WriterStep
<1> QED
  BY <1>1, Inductive, PTL DEF Spec, WritersAreLeftAlone
=============================================================================
