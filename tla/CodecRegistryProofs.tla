------------------------ MODULE CodecRegistryProofs ------------------------
(***************************************************************************)
(* What CodecRegistry guarantees for any number of goroutines, any types   *)
(* and any nesting of values, proved with TLAPS.  The argument: whoever    *)
(* stores a placeholder for a key is the only one to build that key, it    *)
(* replaces the placeholder once, and everything that is handed out for    *)
(* the key stands for that one codec.  The properties follow from that     *)
(* invariant, and so does that the registry implements CodecBinding.       *)
(***************************************************************************)
EXTENDS CodecRegistry, SequenceTheorems, TLAPS

-----------------------------------------------------------------------------
(* The inductive invariant.                                                 *)

Looking == {"loadBase", "load", "claim"}
Published == {"publishBase", "resolve", "release"}
InBuild == {"build", "publish"} \cup Published

(* A goroutine is between operations, looking a key up, building, or        *)
(* calling a codec; it calls codecs only when it builds nothing.            *)
PhaseOK(g) ==
  /\ (phase[g] \in Looking) <=> (target[g] # NoKey)
  /\ phase[g] \in {"idle", "loadBase", "call", "wait"} => stack[g] = <<>>
  /\ phase[g] \in InBuild => stack[g] # <<>>
  /\ (phase[g] \in {"call", "wait"}) <=> (codec[g] # NoCodec)
  /\ phase[g] = "wait" => codec[g].kind = "deferred"

PhasesOK == \A g \in Goroutine : PhaseOK(g)

(* The maps and the placeholders hold codecs of the key they belong to.     *)
KeysOK ==
  /\ \A k \in Key : known[k] # NoCodec => known[k].key = k
  /\ \A k \in Key : base[k] # NoCodec => base[k] = known[k] /\ base[k].kind = "built"
  /\ \A k \in Key, g \in Goroutine :
       /\ real[k][g] # NoCodec => real[k][g] = Built(k, g) /\ known[k] = Built(k, g)
       /\ released[k][g] => real[k][g] # NoCodec

(* The map holds g's placeholder for the keys whose build is on g's stack,  *)
(* or, once it is published, the codec of the topmost one.                  *)
EntryOK(g, i) ==
  LET k == stack[g][i]
      published == i = Len(stack[g]) /\ phase[g] \in Published
  IN  /\ published => known[k] = Built(k, g)
      /\ ~published => known[k] = Deferred(k, g)
      /\ ~released[k][g]
      /\ i = Len(stack[g]) /\ phase[g] = "release" => real[k][g] = Built(k, g)
      /\ \A j \in DOMAIN stack[g] : stack[g][j] = k => j = i

StacksOK == \A g \in Goroutine : \A i \in DOMAIN stack[g] : EntryOK(g, i)

(* A build waits for the codec it looked up last: the key above it on the   *)
(* stack, or the key the goroutine is looking up now.                       *)
AwaitsLookup(g, i) ==
  LET k == stack[g][i]
      n == Len(elems[k][g])
  IN  /\ i < Len(stack[g]) =>
           n < Len(Lookups[k]) /\ stack[g][i + 1] = Lookups[k][n + 1]
      /\ i = Len(stack[g]) /\ phase[g] \in Looking =>
           n < Len(Lookups[k]) /\ target[g] = Lookups[k][n + 1]

LookupsOK == \A g \in Goroutine : \A i \in DOMAIN stack[g] : AwaitsLookup(g, i)

(* The parts of the codec g builds or has built for k, and the codec g      *)
(* calls, stand for what the map has for their keys.                        *)
PartsOK(k, g) ==
  /\ Len(elems[k][g]) \leq Len(Lookups[k])
  /\ \A i \in DOMAIN elems[k][g] :
       /\ elems[k][g][i].key = Lookups[k][i]
       /\ Final(elems[k][g][i]) = Final(known[Lookups[k][i]])

ElemsOK == \A k \in Key, g \in Goroutine : PartsOK(k, g)

CodecsOK ==
  \A g \in Goroutine :
    codec[g] # NoCodec => Final(codec[g]) = Final(known[codec[g].key])

IInv == TypeOK /\ PhasesOK /\ KeysOK /\ StacksOK /\ LookupsOK /\ ElemsOK /\ CodecsOK

-----------------------------------------------------------------------------
(* Codecs: the constructors are injective, and what a codec stands for is   *)
(* a codec of the same key that is not a placeholder.                       *)
LEMMA CodecFacts ==
  /\ NoCodec \notin Codec /\ Final(NoCodec) = NoCodec
  /\ \A k \in Key, g \in Goroutine :
       /\ Deferred(k, g) \in Codec /\ Built(k, g) \in Codec
       /\ Deferred(k, g).key = k /\ Deferred(k, g).by = g
       /\ Built(k, g).key = k /\ Built(k, g).by = g
       /\ Deferred(k, g).kind = "deferred" /\ Built(k, g).kind = "built"
       /\ Final(Deferred(k, g)) = Built(k, g) /\ Final(Built(k, g)) = Built(k, g)
  /\ \A k \in Key, c \in Custom :
       /\ Registered(k, c) \in Codec
       /\ Registered(k, c).key = k /\ Registered(k, c).kind = "custom"
       /\ Final(Registered(k, c)) = Registered(k, c)
  /\ \A c \in Codec :
       /\ c.key \in Key
       /\ Final(c) \in FinalCodec /\ Final(c) \in Codec /\ Final(c).key = c.key
       /\ c.kind \in {"deferred", "built", "custom"}
       /\ c.kind = "deferred" => c = Deferred(c.key, c.by) /\ c.by \in Goroutine
       /\ c.kind = "built" => c = Built(c.key, c.by) /\ c.by \in Goroutine
       /\ c.kind # "deferred" => Final(c) = c
<1>1. NoCodec \notin Codec /\ Final(NoCodec) = NoCodec
  <2>1. NoCodec.kind = "none"
    BY DEF NoCodec
  <2>2. \A c \in Codec : c.kind # "none"
    BY DEF Codec, FinalCodec, Built, Deferred, Registered
  <2> QED
    BY <2>1, <2>2 DEF Final
<1>2. \A k \in Key, g \in Goroutine :
       /\ Deferred(k, g) \in Codec /\ Built(k, g) \in Codec
       /\ Deferred(k, g).key = k /\ Deferred(k, g).by = g
       /\ Built(k, g).key = k /\ Built(k, g).by = g
       /\ Deferred(k, g).kind = "deferred" /\ Built(k, g).kind = "built"
       /\ Final(Deferred(k, g)) = Built(k, g) /\ Final(Built(k, g)) = Built(k, g)
  <2> SUFFICES ASSUME NEW k \in Key, NEW g \in Goroutine
               PROVE  /\ Deferred(k, g) \in Codec /\ Built(k, g) \in Codec
                      /\ Deferred(k, g).key = k /\ Deferred(k, g).by = g
                      /\ Built(k, g).key = k /\ Built(k, g).by = g
                      /\ Deferred(k, g).kind = "deferred" /\ Built(k, g).kind = "built"
                      /\ Final(Deferred(k, g)) = Built(k, g)
                      /\ Final(Built(k, g)) = Built(k, g)
    OBVIOUS
  <2>1. Deferred(k, g) \in Codec /\ Built(k, g) \in Codec
    BY DEF Codec, FinalCodec
  <2>2. /\ Deferred(k, g).key = k /\ Deferred(k, g).by = g
        /\ Deferred(k, g).kind = "deferred"
    BY DEF Deferred
  <2>3. /\ Built(k, g).key = k /\ Built(k, g).by = g /\ Built(k, g).kind = "built"
    BY DEF Built
  <2> QED
    BY <2>1, <2>2, <2>3 DEF Final
<1>3. \A k \in Key, c \in Custom :
       /\ Registered(k, c) \in Codec
       /\ Registered(k, c).key = k /\ Registered(k, c).kind = "custom"
       /\ Final(Registered(k, c)) = Registered(k, c)
  BY DEF Codec, FinalCodec, Final, Registered
<1>4. ASSUME NEW c \in Codec
      PROVE  /\ c.key \in Key
             /\ Final(c) \in FinalCodec /\ Final(c) \in Codec /\ Final(c).key = c.key
             /\ c.kind \in {"deferred", "built", "custom"}
             /\ c.kind = "deferred" => c = Deferred(c.key, c.by) /\ c.by \in Goroutine
             /\ c.kind = "built" => c = Built(c.key, c.by) /\ c.by \in Goroutine
             /\ c.kind # "deferred" => Final(c) = c
  <2>1. CASE \E k \in Key, g \in Goroutine : c = Deferred(k, g)
    BY <2>1 DEF Codec, FinalCodec, Final, Built, Deferred
  <2>2. CASE \E k \in Key, g \in Goroutine : c = Built(k, g)
    BY <2>2 DEF Codec, FinalCodec, Final, Built
  <2>3. CASE \E k \in Key, u \in Custom : c = Registered(k, u)
    BY <2>3 DEF Codec, FinalCodec, Final, Registered
  <2> QED
    BY <2>1, <2>2, <2>3 DEF Codec, FinalCodec
<1> QED
  BY <1>1, <1>2, <1>3, <1>4

(* Two builds of a codec are the same only if key and builder agree.        *)
LEMMA BuiltInjective ==
  ASSUME NEW k, NEW g, NEW l, NEW h, Built(k, g) = Built(l, h)
  PROVE  k = l /\ g = h
BY DEF Built

(* The build on top of a goroutine's stack, and the stack below it.         *)
LEMMA StackFacts ==
  ASSUME TypeOK, NEW g \in Goroutine
  PROVE  /\ Len(stack[g]) \in Nat
         /\ \A i \in DOMAIN stack[g] : stack[g][i] \in Key
         /\ DOMAIN stack[g] = 1..Len(stack[g])
         /\ stack[g] # <<>> => /\ Len(stack[g]) \in DOMAIN stack[g]
                               /\ Top(g) \in Key
                               /\ Pop(g) \in Seq(Key)
                               /\ Len(Pop(g)) = Len(stack[g]) - 1
                               /\ \A i \in 1..(Len(stack[g]) - 1) : Pop(g)[i] = stack[g][i]
<1>1. stack[g] \in Seq(Key)
  BY DEF TypeOK
<1>2. /\ Len(stack[g]) \in Nat
      /\ \A i \in DOMAIN stack[g] : stack[g][i] \in Key
      /\ DOMAIN stack[g] = 1..Len(stack[g])
  BY <1>1, LenProperties
<1>3. ASSUME stack[g] # <<>>
      PROVE  /\ Len(stack[g]) \in DOMAIN stack[g]
             /\ Top(g) \in Key
             /\ Pop(g) \in Seq(Key)
             /\ Len(Pop(g)) = Len(stack[g]) - 1
             /\ \A i \in 1..(Len(stack[g]) - 1) : Pop(g)[i] = stack[g][i]
  <2>1. Len(stack[g]) \in Nat \ {0}
    BY <1>1, <1>3, EmptySeq
  <2>2. Len(stack[g]) \in DOMAIN stack[g] /\ Top(g) \in Key
    BY <1>2, <2>1 DEF Top
  <2>3. /\ Pop(g) \in Seq(Key)
        /\ Len(Pop(g)) = Len(stack[g]) - 1
        /\ \A i \in 1..(Len(stack[g]) - 1) : Pop(g)[i] = stack[g][i]
    <3> DEFINE n == Len(stack[g]) - 1
    <3>1. n \in Int /\ \A i \in 1..n : stack[g][i] \in Key
      BY <1>2, <2>1
    <3>2. /\ SubSeq(stack[g], 1, n) \in Seq(Key)
          /\ Len(SubSeq(stack[g], 1, n)) = IF 1 \leq n THEN n - 1 + 1 ELSE 0
          /\ \A i \in 1..(n - 1 + 1) : SubSeq(stack[g], 1, n)[i] = stack[g][1 + i - 1]
      BY <3>1, SubSeqProperties
    <3> QED
      BY <3>2, <2>1 DEF Pop
  <2> QED
    BY <2>2, <2>3
<1> QED
  BY <1>2, <1>3

(* The bound on depth, the lookups of a key and the parts of a codec.       *)
LEMMA DepthFacts ==
  /\ 0 \in Depths /\ MaxDepth \in Depths
  /\ \A d \in Depths : d > 0 => d - 1 \in Depths
BY RegistryAssumption DEF Depths

LEMMA LookupFacts ==
  ASSUME NEW k \in Key
  PROVE  /\ Len(Lookups[k]) \in Nat
         /\ \A i \in 1..Len(Lookups[k]) : Lookups[k][i] \in Key
<1>1. Lookups[k] \in Seq(Key)
  BY RegistryAssumption
<1> QED
  BY <1>1, LenProperties

LEMMA ElemFacts ==
  ASSUME TypeOK, NEW k \in Key, NEW g \in Goroutine
  PROVE  /\ elems[k][g] \in Seq(Codec)
         /\ Len(elems[k][g]) \in Nat
         /\ DOMAIN elems[k][g] = 1..Len(elems[k][g])
         /\ \A i \in DOMAIN elems[k][g] : elems[k][g][i] \in Codec
<1>1. elems[k][g] \in Seq(Codec)
  BY DEF TypeOK
<1> QED
  BY <1>1, LenProperties

-----------------------------------------------------------------------------
(* What a step may do without disturbing a part of the invariant.           *)

(* A goroutine that stays where it is, or drops its stack.                  *)
LEMMA StacksKept ==
  ASSUME StacksOK, UNCHANGED <<known, real, released>>,
         \A h \in Goroutine :
           \/ stack'[h] = <<>>
           \/ /\ stack'[h] = stack[h]
              /\ phase'[h] \in Published <=> phase[h] \in Published
              /\ phase'[h] = "release" => phase[h] = "release"
  PROVE  StacksOK'
<1> SUFFICES ASSUME NEW h \in Goroutine, NEW i \in DOMAIN stack'[h]
             PROVE  EntryOK(h, i)'
  BY DEF StacksOK
<1>1. DOMAIN <<>> = {}
  OBVIOUS
<1>2. /\ stack'[h] = stack[h]
      /\ phase'[h] \in Published <=> phase[h] \in Published
      /\ phase'[h] = "release" => phase[h] = "release"
  BY <1>1
<1>3. EntryOK(h, i)
  BY <1>2 DEF StacksOK
<1> QED
  BY <1>2, <1>3 DEF EntryOK

LEMMA LookupsKept ==
  ASSUME LookupsOK, UNCHANGED elems,
         \A h \in Goroutine :
           \/ stack'[h] = <<>>
           \/ /\ stack'[h] = stack[h]
              /\ phase'[h] \in Looking => phase[h] \in Looking /\ target'[h] = target[h]
  PROVE  LookupsOK'
<1> SUFFICES ASSUME NEW h \in Goroutine, NEW i \in DOMAIN stack'[h]
             PROVE  AwaitsLookup(h, i)'
  BY DEF LookupsOK
<1>1. DOMAIN <<>> = {}
  OBVIOUS
<1>2. /\ stack'[h] = stack[h]
      /\ phase'[h] \in Looking => phase[h] \in Looking /\ target'[h] = target[h]
  BY <1>1
<1>3. AwaitsLookup(h, i)
  BY <1>2 DEF LookupsOK
<1> QED
  BY <1>2, <1>3 DEF AwaitsLookup

(* Codecs that are held stay right as long as no key gets another codec.    *)
LEMMA ElemsKept ==
  ASSUME TypeOK, ElemsOK, UNCHANGED elems,
         \A k \in Key : known[k] # NoCodec => Final(known'[k]) = Final(known[k])
  PROVE  ElemsOK'
<1> SUFFICES ASSUME NEW k \in Key, NEW g \in Goroutine
             PROVE  PartsOK(k, g)'
  BY DEF ElemsOK
<1>1. PartsOK(k, g)
  BY DEF ElemsOK
<1>2. ASSUME NEW i \in DOMAIN elems[k][g]
      PROVE  Final(elems[k][g][i]) = Final(known'[Lookups[k][i]])
  <2>1. Lookups[k][i] \in Key
    BY <1>1, ElemFacts, LookupFacts DEF PartsOK
  <2>2. Final(elems[k][g][i]) = Final(known[Lookups[k][i]])
    BY <1>1 DEF PartsOK
  <2>3. Final(elems[k][g][i]) \in Codec
    BY ElemFacts, CodecFacts
  <2>4. known[Lookups[k][i]] # NoCodec
    BY <2>2, <2>3, CodecFacts
  <2> QED
    BY <2>1, <2>2, <2>4
<1> QED
  BY <1>1, <1>2 DEF PartsOK

LEMMA CodecsKept ==
  ASSUME TypeOK, CodecsOK, TypeOK',
         \A k \in Key : known[k] # NoCodec => Final(known'[k]) = Final(known[k]),
         \A h \in Goroutine :
           codec'[h] # NoCodec =>
             \/ Final(codec'[h]) = Final(known[codec'[h].key])
             \/ codec'[h] = codec[h]
  PROVE  CodecsOK'
<1> SUFFICES ASSUME NEW h \in Goroutine, codec'[h] # NoCodec
             PROVE  Final(codec'[h]) = Final(known'[codec'[h].key])
  BY DEF CodecsOK
<1>1. Final(codec'[h]) = Final(known[codec'[h].key])
  BY DEF CodecsOK
<1>2. codec'[h] \in Codec
  BY DEF TypeOK
<1>3. codec'[h].key \in Key /\ Final(codec'[h]) \in Codec
  BY <1>2, CodecFacts
<1>4. known[codec'[h].key] # NoCodec
  BY <1>1, <1>3, CodecFacts
<1> QED
  BY <1>1, <1>3, <1>4

(* An operation that ends, well or in a panic, leaves the invariant true.   *)
LEMMA FinishInv ==
  ASSUME IInv, NEW g \in Goroutine, NEW r \in Results, Finish(g, r),
         UNCHANGED <<known, base, real, released, elems>>
  PROVE  IInv'
<1> USE DEF IInv
<1>1. TypeOK'
  <2>1. <<>> \in Seq(Key)
    OBVIOUS
  <2> QED
    BY <2>1, DepthFacts DEF TypeOK, Finish, Phases
<1>2. PhasesOK'
  BY DEF PhasesOK, PhaseOK, Finish, TypeOK, Looking, InBuild, Published
<1>3. KeysOK'
  BY DEF KeysOK
<1>4. StacksOK'
  <2>1. \A h \in Goroutine : stack'[h] = <<>> \/ (stack'[h] = stack[h] /\ phase'[h] = phase[h])
    BY DEF Finish, TypeOK
  <2> QED
    BY <2>1, StacksKept
<1>5. LookupsOK'
  <2>1. \A h \in Goroutine :
          \/ stack'[h] = <<>>
          \/ stack'[h] = stack[h] /\ phase'[h] = phase[h] /\ target'[h] = target[h]
    BY DEF Finish, TypeOK
  <2> QED
    BY <2>1, LookupsKept
<1>6. ElemsOK'
  BY ElemsKept
<1>7. CodecsOK'
  <2>1. \A h \in Goroutine : codec'[h] # NoCodec => codec'[h] = codec[h]
    BY DEF Finish, TypeOK
  <2> QED
    BY <1>1, <2>1, CodecsKept
<1> QED
  BY <1>1, <1>2, <1>3, <1>4, <1>5, <1>6, <1>7

(* A step of one goroutine that writes nothing shared and keeps its stack.  *)
LEMMA LocalInv ==
  ASSUME IInv, NEW g \in Goroutine,
         UNCHANGED <<known, base, real, released, elems, stack>>,
         \A h \in Goroutine \ {g} :
           phase'[h] = phase[h] /\ target'[h] = target[h] /\ codec'[h] = codec[h],
         TypeOK', PhaseOK(g)',
         phase[g] \notin Published, phase'[g] \notin Published,
         \/ stack[g] = <<>>
         \/ phase'[g] \in Looking => phase[g] \in Looking /\ target'[g] = target[g],
         codec'[g] # NoCodec => Final(codec'[g]) = Final(known[codec'[g].key])
  PROVE  IInv'
<1> USE DEF IInv
<1>1. PhasesOK'
  BY DEF PhasesOK, PhaseOK
<1>2. KeysOK'
  BY DEF KeysOK
<1>3. StacksOK'
  <2>1. \A h \in Goroutine :
          /\ stack'[h] = stack[h]
          /\ phase'[h] \in Published <=> phase[h] \in Published
          /\ phase'[h] = "release" => phase[h] = "release"
    BY DEF Published
  <2> QED
    BY <2>1, StacksKept
<1>4. LookupsOK'
  <2>1. \A h \in Goroutine :
          \/ stack'[h] = <<>>
          \/ /\ stack'[h] = stack[h]
             /\ phase'[h] \in Looking => phase[h] \in Looking /\ target'[h] = target[h]
    OBVIOUS
  <2> QED
    BY <2>1, LookupsKept
<1>5. ElemsOK'
  BY ElemsKept
<1>6. CodecsOK'
  <2>1. \A h \in Goroutine :
          codec'[h] # NoCodec =>
            \/ Final(codec'[h]) = Final(known[codec'[h].key])
            \/ codec'[h] = codec[h]
    OBVIOUS
  <2> QED
    BY <2>1, CodecsKept
<1> QED
  BY <1>1, <1>2, <1>3, <1>4, <1>5, <1>6

-----------------------------------------------------------------------------
(* Operations begin.                                                        *)
LEMMA EncodeValueInv ==
  ASSUME IInv, NEW g \in Goroutine, NEW k \in Plain, EncodeValue(g, k)
  PROVE  IInv'
<1>1. UNCHANGED <<known, base, real, released, elems, stack, codec, result>>
  BY DEF EncodeValue, shared
<1>2. k \in Key /\ k # NoKey
  BY RegistryAssumption
<1>3. TypeOK'
  BY <1>1, <1>2, DepthFacts DEF EncodeValue, IInv, TypeOK, Phases
<1>4. phase[g] = "idle" /\ phase'[g] = "loadBase" /\ target'[g] = k
  BY DEF EncodeValue, IInv, TypeOK
<1>5. PhaseOK(g)'
  BY <1>1, <1>2, <1>4 DEF IInv, PhasesOK, PhaseOK, Looking, InBuild, Published
<1>6. stack[g] = <<>> /\ codec[g] = NoCodec
  BY <1>4 DEF IInv, PhasesOK, PhaseOK
<1>7. \A h \in Goroutine \ {g} : phase'[h] = phase[h] /\ target'[h] = target[h]
  BY DEF EncodeValue, IInv, TypeOK
<1> QED
  BY <1>1, <1>3, <1>4, <1>5, <1>6, <1>7, LocalInv DEF Published

LEMMA DecodeValueInv ==
  ASSUME IInv, NEW g \in Goroutine, NEW k \in Plain, DecodeValue(g, k)
  PROVE  IInv'
<1>1. UNCHANGED <<known, base, real, released, elems, stack, codec, result>>
  BY DEF DecodeValue, shared
<1>2. k \in Key /\ k # NoKey
  BY RegistryAssumption
<1>3. TypeOK'
  BY <1>1, <1>2, DepthFacts DEF DecodeValue, IInv, TypeOK, Phases
<1>4. phase[g] = "idle" /\ phase'[g] = "load" /\ target'[g] = k
  BY DEF DecodeValue, IInv, TypeOK
<1>5. PhaseOK(g)'
  BY <1>1, <1>2, <1>4 DEF IInv, PhasesOK, PhaseOK, Looking, InBuild, Published
<1>6. stack[g] = <<>> /\ codec[g] = NoCodec
  BY <1>4 DEF IInv, PhasesOK, PhaseOK
<1>7. \A h \in Goroutine \ {g} : phase'[h] = phase[h] /\ target'[h] = target[h]
  BY DEF DecodeValue, IInv, TypeOK
<1> QED
  BY <1>1, <1>3, <1>4, <1>5, <1>6, <1>7, LocalInv DEF Published

-----------------------------------------------------------------------------
(* A lookup that is answered: the codec goes to the build on top of the     *)
(* stack, or is called.                                                     *)
LEMMA FoundInv ==
  ASSUME IInv, NEW g \in Goroutine, phase[g] \in Looking,
         NEW c \in Codec, c.key = target[g], Final(c) = Final(known[target[g]]),
         Found(g, c), UNCHANGED shared
  PROVE  IInv'
<1>1. UNCHANGED <<known, base, real, released>>
  BY DEF shared
<1>2. CASE ~IsXCodec(c)
  <2>1. Finish(g, "assertion panic") /\ UNCHANGED elems
    BY <1>2 DEF Found
  <2>2. "assertion panic" \in Results
    BY DEF Results
  <2> QED
    BY <1>1, <2>1, <2>2, FinishInv
<1>3. Deliver(g, c, stack[g]) \/ ~IsXCodec(c)
  BY DEF Found
<1>4. CASE IsXCodec(c) /\ stack[g] = <<>>
  <2>1. /\ phase' = [phase EXCEPT ![g] = "call"]
        /\ codec' = [codec EXCEPT ![g] = c]
        /\ target' = [target EXCEPT ![g] = NoKey]
        /\ stack' = [stack EXCEPT ![g] = stack[g]]
        /\ UNCHANGED <<elems, depth, result>>
    BY <1>3, <1>4 DEF Deliver
  <2>2. UNCHANGED stack
    BY <2>1 DEF IInv, TypeOK
  <2>3. TypeOK'
    BY <1>1, <2>1, <2>2 DEF IInv, TypeOK, Phases
  <2>4. phase'[g] = "call" /\ codec'[g] = c /\ target'[g] = NoKey
    BY <2>1 DEF IInv, TypeOK
  <2>5. PhaseOK(g)'
    BY <1>4, <2>2, <2>4, CodecFacts DEF PhaseOK, Looking, InBuild, Published
  <2>6. \A h \in Goroutine \ {g} :
          phase'[h] = phase[h] /\ target'[h] = target[h] /\ codec'[h] = codec[h]
    BY <2>1 DEF IInv, TypeOK
  <2>7. phase[g] \notin Published /\ phase'[g] \notin Published
    BY <2>4 DEF Published, Looking
  <2>8. Final(codec'[g]) = Final(known[codec'[g].key])
    BY <2>4
  <2> QED
    BY <1>1, <1>4, <2>1, <2>2, <2>3, <2>5, <2>6, <2>7, <2>8, LocalInv
<1>5. CASE IsXCodec(c) /\ stack[g] # <<>>
  <2>1. /\ phase' = [phase EXCEPT ![g] = "build"]
        /\ elems' = [elems EXCEPT ![Top(g)][g] = Append(@, c)]
        /\ target' = [target EXCEPT ![g] = NoKey]
        /\ UNCHANGED <<stack, codec, depth, result>>
    BY <1>3, <1>5 DEF Deliver, Top, IInv, TypeOK
  <2>2. /\ Top(g) \in Key /\ Top(g) = stack[g][Len(stack[g])]
        /\ Len(stack[g]) \in DOMAIN stack[g]
    BY <1>5, StackFacts DEF IInv, Top
  <2> DEFINE e == elems[Top(g)][g]
  <2>3. /\ e \in Seq(Codec) /\ Len(e) \in Nat /\ DOMAIN e = 1..Len(e)
        /\ Append(e, c) \in Seq(Codec)
        /\ Len(Append(e, c)) = Len(e) + 1
        /\ Append(e, c)[Len(e) + 1] = c
        /\ \A i \in 1..Len(e) : Append(e, c)[i] = e[i]
        /\ DOMAIN Append(e, c) = 1..(Len(e) + 1)
    <3>1. e \in Seq(Codec) /\ Len(e) \in Nat /\ DOMAIN e = 1..Len(e)
      BY <2>2, ElemFacts DEF IInv
    <3>2. Append(e, c) \in Seq(Codec) /\ Len(Append(e, c)) = Len(e) + 1
      BY <3>1, AppendProperties
    <3>3. Append(e, c)[Len(e) + 1] = c /\ \A i \in 1..Len(e) : Append(e, c)[i] = e[i]
      BY <3>1, AppendProperties
    <3>4. DOMAIN Append(e, c) = 1..(Len(e) + 1)
      BY <3>2, LenProperties
    <3> QED
      BY <3>1, <3>2, <3>3, <3>4
  <2>4. elems'[Top(g)][g] = Append(e, c)
    BY <2>1, <2>2 DEF IInv, TypeOK
  <2>5. \A k \in Key, h \in Goroutine :
          <<k, h>> # <<Top(g), g>> => elems'[k][h] = elems[k][h]
    BY <2>1, <2>2 DEF IInv, TypeOK
  <2>6. TypeOK'
    <3>1. elems' \in [Key -> [Goroutine -> Seq(Codec)]]
      BY <2>1, <2>2, <2>3 DEF IInv, TypeOK
    <3> QED
      BY <1>1, <2>1, <3>1 DEF IInv, TypeOK, Phases
  <2>7. AwaitsLookup(g, Len(stack[g]))
    BY <2>2 DEF IInv, LookupsOK
  <2>8. Len(e) < Len(Lookups[Top(g)]) /\ target[g] = Lookups[Top(g)][Len(e) + 1]
    BY <2>2, <2>7 DEF AwaitsLookup
  <2>9. phase'[g] = "build" /\ target'[g] = NoKey
    BY <2>1 DEF IInv, TypeOK
  <2>10. \A h \in Goroutine \ {g} :
           phase'[h] = phase[h] /\ target'[h] = target[h]
    BY <2>1 DEF IInv, TypeOK
  <2>11. PhasesOK'
    BY <1>5, <2>1, <2>9, <2>10 DEF IInv, PhasesOK, PhaseOK, Looking, InBuild, Published
  <2>12. KeysOK'
    BY <1>1 DEF IInv, KeysOK
  <2>13. StacksOK'
    <3>1. \A h \in Goroutine :
            /\ stack'[h] = stack[h]
            /\ phase'[h] \in Published <=> phase[h] \in Published
            /\ phase'[h] = "release" => phase[h] = "release"
      BY <2>1, <2>9, <2>10 DEF Published, Looking
    <3> QED
      BY <1>1, <3>1, StacksKept DEF IInv
  <2>14. LookupsOK'
    <3> SUFFICES ASSUME NEW h \in Goroutine, NEW i \in DOMAIN stack[h]
                 PROVE  AwaitsLookup(h, i)'
      BY <2>1 DEF LookupsOK
    <3>1. AwaitsLookup(h, i) /\ stack[h][i] \in Key
      BY StackFacts DEF IInv, LookupsOK
    <3>2. CASE elems'[stack[h][i]][h] = elems[stack[h][i]][h]
      BY <2>1, <2>9, <2>10, <3>1, <3>2 DEF AwaitsLookup, Looking
    <3>3. CASE stack[h][i] = Top(g) /\ h = g
      <4>1. i = Len(stack[g])
        BY <2>2, <3>3 DEF IInv, StacksOK, EntryOK
      <4> QED
        BY <2>1, <2>9, <3>3, <4>1, StackFacts DEF AwaitsLookup, Looking, IInv
    <3> QED
      BY <2>5, <3>1, <3>2, <3>3
  <2>15. ElemsOK'
    <3> SUFFICES ASSUME NEW k \in Key, NEW h \in Goroutine
                 PROVE  PartsOK(k, h)'
      BY DEF ElemsOK
    <3>1. PartsOK(k, h)
      BY DEF IInv, ElemsOK
    <3>2. CASE elems'[k][h] = elems[k][h]
      BY <1>1, <3>1, <3>2 DEF PartsOK
    <3>3. CASE k = Top(g) /\ h = g
      <4>1. Len(elems'[k][h]) \leq Len(Lookups[k])
        <5>1. Len(Lookups[k]) \in Nat
          BY LookupFacts
        <5>2. Len(elems'[k][h]) = Len(e) + 1 /\ Len(e) \in Nat
          BY <2>3, <2>4, <3>3
        <5>3. Len(e) < Len(Lookups[k])
          BY <2>8, <3>3
        <5> HIDE DEF e
        <5> QED
          BY <5>1, <5>2, <5>3
      <4>2. ASSUME NEW i \in DOMAIN elems'[k][h]
            PROVE  /\ elems'[k][h][i].key = Lookups[k][i]
                   /\ Final(elems'[k][h][i]) = Final(known[Lookups[k][i]])
        <5>1. CASE i = Len(e) + 1
          BY <2>3, <2>4, <2>8, <3>3, <5>1
        <5>2. CASE i \in 1..Len(e)
          BY <2>3, <2>4, <3>1, <3>3, <5>2 DEF PartsOK
        <5> QED
          BY <2>3, <2>4, <3>3, <5>1, <5>2
      <4> QED
        BY <1>1, <4>1, <4>2 DEF PartsOK
    <3> QED
      BY <2>5, <3>2, <3>3
  <2>16. CodecsOK'
    BY <1>1, <2>1 DEF IInv, CodecsOK
  <2> QED
    BY <2>6, <2>11, <2>12, <2>13, <2>14, <2>15, <2>16 DEF IInv
<1> QED
  BY <1>2, <1>4, <1>5

(* The two maps are read ...                                                *)
LEMMA LoadInv ==
  ASSUME IInv, NEW g \in Goroutine, NEW map, map = known \/ map = base,
         phase[g] \in {"loadBase", "load"}, Load(g, map)
  PROVE  IInv'
<1>1. UNCHANGED shared /\ UNCHANGED <<known, base, real, released>>
  BY DEF Load, shared
<1>2. target[g] \in Key
  BY DEF IInv, TypeOK, PhasesOK, PhaseOK, Looking
<1>3. CASE map[target[g]] # NoCodec
  <2>1. map[target[g]] = known[target[g]]
    BY <1>2, <1>3 DEF IInv, KeysOK
  <2>2. known[target[g]] \in Codec /\ known[target[g]].key = target[g]
    BY <1>2, <1>3, <2>1 DEF IInv, KeysOK, TypeOK
  <2>3. Found(g, known[target[g]])
    BY <1>3, <2>1 DEF Load
  <2> QED
    BY <1>1, <2>2, <2>3, FoundInv DEF Looking
<1>4. CASE map[target[g]] = NoCodec
  <2>1. /\ phase' = [phase EXCEPT ![g] = "claim"]
        /\ UNCHANGED <<elems, stack, target, codec, depth, result>>
    BY <1>4 DEF Load
  <2>2. TypeOK'
    BY <1>1, <2>1 DEF IInv, TypeOK, Phases
  <2>3. phase'[g] = "claim" /\ \A h \in Goroutine \ {g} : phase'[h] = phase[h]
    BY <2>1 DEF IInv, TypeOK
  <2>4. PhaseOK(g)'
    BY <2>1, <2>3 DEF IInv, PhasesOK, PhaseOK, Looking, InBuild, Published
  <2>5. codec[g] = NoCodec
    BY DEF IInv, PhasesOK, PhaseOK
  <2> QED
    BY <1>1, <2>1, <2>2, <2>3, <2>4, <2>5, LocalInv DEF Looking, Published
<1> QED
  BY <1>3, <1>4

LEMMA getBaseCodecInv ==
  ASSUME IInv, NEW g \in Goroutine, getBaseCodec(g)
  PROVE  IInv'
BY LoadInv DEF getBaseCodec

LEMMA getCodecInv ==
  ASSUME IInv, NEW g \in Goroutine, getCodec(g)
  PROVE  IInv'
BY LoadInv DEF getCodec

(* ... and one LoadOrStore decides who builds.                              *)
LEMMA ClaimLostInv ==
  ASSUME IInv, NEW g \in Goroutine, ClaimLost(g)
  PROVE  IInv'
<1>1. target[g] \in Key
  BY DEF ClaimLost, IInv, TypeOK, PhasesOK, PhaseOK, Looking
<1>2. known[target[g]] \in Codec /\ known[target[g]].key = target[g]
  BY <1>1 DEF ClaimLost, Stores, IInv, KeysOK, TypeOK
<1> QED
  BY <1>2, FoundInv DEF ClaimLost, Looking

(* A key that has no codec yet appears nowhere.                             *)
LEMMA UnknownKey ==
  ASSUME IInv, NEW k \in Key, known[k] = NoCodec
  PROVE  /\ base[k] = NoCodec
         /\ \A g \in Goroutine : real[k][g] = NoCodec /\ ~released[k][g]
         /\ \A g \in Goroutine : \A i \in DOMAIN stack[g] : stack[g][i] # k
<1>1. base[k] = NoCodec
  BY DEF IInv, KeysOK
<1>2. \A g \in Goroutine : real[k][g] = NoCodec /\ ~released[k][g]
  BY CodecFacts DEF IInv, KeysOK
<1>3. ASSUME NEW g \in Goroutine, NEW i \in DOMAIN stack[g], stack[g][i] = k
      PROVE  FALSE
  BY <1>3, CodecFacts DEF IInv, StacksOK, EntryOK
<1> QED
  BY <1>1, <1>2, <1>3

LEMMA ClaimWonInv ==
  ASSUME IInv, NEW g \in Goroutine, ClaimWon(g)
  PROVE  IInv'
<1> DEFINE t == target[g]
<1>1. t \in Key /\ known[t] = NoCodec /\ phase[g] = "claim"
  BY DEF ClaimWon, Stores, IInv, TypeOK, PhasesOK, PhaseOK, Looking
<1>2. /\ known' = [known EXCEPT ![t] = Deferred(t, g)]
      /\ stack' = [stack EXCEPT ![g] = Append(stack[g], t)]
      /\ elems' = [elems EXCEPT ![t][g] = <<>>]
      /\ phase' = [phase EXCEPT ![g] = "build"]
      /\ target' = [target EXCEPT ![g] = NoKey]
      /\ UNCHANGED <<base, real, released, codec, depth, result>>
  BY DEF ClaimWon, IInv, TypeOK
<1>3. /\ base[t] = NoCodec
      /\ \A h \in Goroutine : real[t][h] = NoCodec /\ ~released[t][h]
      /\ \A h \in Goroutine : \A i \in DOMAIN stack[h] : stack[h][i] # t
  BY <1>1, UnknownKey
<1>4. /\ stack[g] \in Seq(Key) /\ Len(stack[g]) \in Nat
      /\ DOMAIN stack[g] = 1..Len(stack[g])
      /\ Append(stack[g], t) \in Seq(Key) /\ Append(stack[g], t) # <<>>
      /\ Len(Append(stack[g], t)) = Len(stack[g]) + 1
      /\ DOMAIN Append(stack[g], t) = 1..(Len(stack[g]) + 1)
      /\ \A i \in 1..Len(stack[g]) : Append(stack[g], t)[i] = stack[g][i]
      /\ Append(stack[g], t)[Len(stack[g]) + 1] = t
  <2>1. stack[g] \in Seq(Key) /\ Len(stack[g]) \in Nat
        /\ DOMAIN stack[g] = 1..Len(stack[g])
    BY StackFacts DEF IInv, TypeOK
  <2>2. /\ Append(stack[g], t) \in Seq(Key) /\ Append(stack[g], t) # <<>>
        /\ Len(Append(stack[g], t)) = Len(stack[g]) + 1
        /\ \A i \in 1..Len(stack[g]) : Append(stack[g], t)[i] = stack[g][i]
        /\ Append(stack[g], t)[Len(stack[g]) + 1] = t
    BY <1>1, <2>1, AppendProperties
  <2>3. DOMAIN Append(stack[g], t) = 1..(Len(stack[g]) + 1)
    BY <2>2, LenProperties
  <2> QED
    BY <2>1, <2>2, <2>3
<1>5. /\ known'[t] = Deferred(t, g) /\ \A k \in Key \ {t} : known'[k] = known[k]
      /\ stack'[g] = Append(stack[g], t)
      /\ \A h \in Goroutine \ {g} :
           stack'[h] = stack[h] /\ phase'[h] = phase[h] /\ target'[h] = target[h]
      /\ phase'[g] = "build" /\ target'[g] = NoKey
      /\ elems'[t][g] = <<>>
      /\ \A k \in Key, h \in Goroutine :
           <<k, h>> # <<t, g>> => elems'[k][h] = elems[k][h]
  BY <1>1, <1>2 DEF IInv, TypeOK
<1>6. TypeOK'
  <2>1. <<>> \in Seq(Codec) /\ Deferred(t, g) \in Codec
    BY <1>1, CodecFacts
  <2> HIDE DEF t
  <2>2. elems' \in [Key -> [Goroutine -> Seq(Codec)]]
    BY <1>1, <1>2, <2>1 DEF IInv, TypeOK
  <2> QED
    BY <1>1, <1>2, <1>4, <2>1, <2>2 DEF IInv, TypeOK, Phases
<1>7. PhasesOK'
  BY <1>1, <1>2, <1>4, <1>5 DEF IInv, PhasesOK, PhaseOK, Looking, InBuild, Published
<1>8. KeysOK'
  BY <1>1, <1>2, <1>3, <1>5, CodecFacts DEF IInv, KeysOK
<1>9. StacksOK'
  <2> SUFFICES ASSUME NEW h \in Goroutine, NEW i \in DOMAIN stack'[h]
               PROVE  EntryOK(h, i)'
    BY DEF StacksOK
  <2>1. CASE h # g
    <3>1. EntryOK(h, i) /\ stack[h][i] \in Key /\ stack[h][i] # t
      BY <1>3, <1>5, <2>1, StackFacts DEF IInv, StacksOK
    <3> QED
      BY <1>2, <1>5, <2>1, <3>1 DEF EntryOK
  <2>2. CASE h = g /\ i \in 1..Len(stack[g])
    <3>1. EntryOK(g, i) /\ stack[g][i] \in Key /\ stack[g][i] # t
      BY <1>3, <1>4, <2>2, StackFacts DEF IInv, StacksOK
    <3>2. known[stack[g][i]] = Deferred(stack[g][i], g)
      BY <1>1, <3>1 DEF EntryOK, Published
    <3>3. \A j \in 1..(Len(stack[g]) + 1) : stack'[g][j] = stack[g][i] => j = i
      BY <1>4, <1>5, <3>1, <2>2 DEF EntryOK
    <3> QED
      BY <1>2, <1>4, <1>5, <2>2, <3>1, <3>2, <3>3 DEF EntryOK, Published
  <2>3. CASE h = g /\ i = Len(stack[g]) + 1
    <3>1. \A j \in 1..(Len(stack[g]) + 1) : stack'[g][j] = t => j = i
      BY <1>3, <1>4, <1>5, <2>3
    <3> QED
      BY <1>2, <1>3, <1>4, <1>5, <2>3, <3>1 DEF EntryOK, Published
  <2> QED
    BY <1>4, <1>5, <2>1, <2>2, <2>3
<1>10. LookupsOK'
  <2> SUFFICES ASSUME NEW h \in Goroutine, NEW i \in DOMAIN stack'[h]
               PROVE  AwaitsLookup(h, i)'
    BY DEF LookupsOK
  <2>1. CASE h # g
    <3>1. AwaitsLookup(h, i) /\ stack[h][i] \in Key
      BY <1>5, <2>1, StackFacts DEF IInv, LookupsOK
    <3> QED
      BY <1>5, <2>1, <3>1, ZenonT(40) DEF AwaitsLookup
  <2>2. CASE h = g /\ i \in 1..Len(stack[g])
    <3>1. AwaitsLookup(g, i) /\ stack[g][i] \in Key /\ stack[g][i] # t
      BY <1>3, <1>4, <2>2, StackFacts DEF IInv, LookupsOK
    <3>2. elems'[stack[g][i]][g] = elems[stack[g][i]][g]
      BY <1>5, <3>1
    <3> HIDE DEF t
    <3>3. /\ stack'[g][i] = stack[g][i]
          /\ i < Len(stack'[g])
          /\ i = Len(stack[g]) => stack'[g][i + 1] = t
          /\ i < Len(stack[g]) => stack'[g][i + 1] = stack[g][i + 1]
      BY <1>4, <1>5, <2>2
    <3>4. /\ Len(elems[stack[g][i]][g]) < Len(Lookups[stack[g][i]])
          /\ stack'[g][i + 1] = Lookups[stack[g][i]][Len(elems[stack[g][i]][g]) + 1]
      <4>1. CASE i = Len(stack[g])
        BY <1>1, <3>1, <3>3, <4>1 DEF AwaitsLookup, Looking, t
      <4>2. CASE i < Len(stack[g])
        BY <3>1, <3>3, <4>2 DEF AwaitsLookup
      <4> QED
        BY <1>4, <2>2, <4>1, <4>2
    <3>5. i # Len(stack'[g])
      BY <1>4, <1>5, <2>2, <3>3
    <3> QED
      BY <2>2, <3>2, <3>3, <3>4, <3>5 DEF AwaitsLookup
  <2>3. CASE h = g /\ i = Len(stack[g]) + 1
    BY <1>4, <1>5, <2>3 DEF AwaitsLookup, Looking
  <2> QED
    BY <1>4, <1>5, <2>1, <2>2, <2>3
<1>11. \A k \in Key : known[k] # NoCodec => Final(known'[k]) = Final(known[k])
  BY <1>1, <1>5
<1>12. ElemsOK'
  <2> SUFFICES ASSUME NEW k \in Key, NEW h \in Goroutine
               PROVE  PartsOK(k, h)'
    BY DEF ElemsOK
  <2>1. CASE k = t /\ h = g
    <3>1. Len(<<>>) = 0 /\ DOMAIN <<>> = {} /\ Len(Lookups[t]) \in Nat
      BY <1>1, LookupFacts
    <3> QED
      BY <1>5, <2>1, <3>1 DEF PartsOK
  <2>2. CASE elems'[k][h] = elems[k][h]
    <3>1. PartsOK(k, h)
      BY DEF IInv, ElemsOK
    <3>2. ASSUME NEW i \in DOMAIN elems[k][h]
          PROVE  Final(elems[k][h][i]) = Final(known'[Lookups[k][i]])
      <4>1. Lookups[k][i] \in Key
        BY <3>1, ElemFacts, LookupFacts DEF PartsOK, IInv
      <4>2. Final(elems[k][h][i]) = Final(known[Lookups[k][i]])
        BY <3>1 DEF PartsOK
      <4>3. Final(elems[k][h][i]) \in Codec
        BY ElemFacts, CodecFacts DEF IInv
      <4>4. known[Lookups[k][i]] # NoCodec
        BY <4>2, <4>3, CodecFacts
      <4> QED
        BY <1>11, <4>1, <4>2, <4>4
    <3> QED
      BY <2>2, <3>1, <3>2 DEF PartsOK
  <2> QED
    BY <1>5, <2>1, <2>2
<1>13. CodecsOK'
  <2>1. \A h \in Goroutine : codec'[h] # NoCodec => codec'[h] = codec[h]
    BY <1>2
  <2> QED
    BY <1>6, <1>11, <2>1, CodecsKept DEF IInv
<1> QED
  BY <1>6, <1>7, <1>8, <1>9, <1>10, <1>12, <1>13 DEF IInv

-----------------------------------------------------------------------------
(* Building.                                                                *)
LEMMA BuildLookupInv ==
  ASSUME IInv, NEW g \in Goroutine, BuildLookup(g)
  PROVE  IInv'
<1> DEFINE k == Top(g)
           n == Len(elems[k][g])
<1>1. /\ phase[g] = "build" /\ n < Len(Lookups[k])
      /\ target' = [target EXCEPT ![g] = Lookups[k][n + 1]]
      /\ phase' = [phase EXCEPT ![g] = "load"]
      /\ UNCHANGED <<known, base, real, released, elems, stack, codec, depth, result>>
  BY DEF BuildLookup, shared
<1>2. stack[g] # <<>> /\ codec[g] = NoCodec
  BY <1>1 DEF IInv, PhasesOK, PhaseOK, InBuild
<1>3. k \in Key
  BY <1>2, StackFacts DEF IInv
<1>4. n \in Nat /\ Len(Lookups[k]) \in Nat /\ Lookups[k][n + 1] \in Key
  <2>1. n \in Nat /\ Len(Lookups[k]) \in Nat
    BY <1>3, ElemFacts, LookupFacts DEF IInv
  <2> HIDE DEF n, k
  <2>2. n + 1 \in 1..Len(Lookups[k])
    BY <1>1, <2>1
  <2> QED
    BY <1>3, <2>1, <2>2, LookupFacts
<1>5. Lookups[k][n + 1] # NoKey
  BY <1>4, RegistryAssumption
<1>6. /\ phase'[g] = "load" /\ target'[g] = Lookups[k][n + 1]
      /\ \A h \in Goroutine \ {g} : phase'[h] = phase[h] /\ target'[h] = target[h]
  BY <1>1 DEF IInv, TypeOK
<1> HIDE DEF n, k
<1>7. TypeOK'
  BY <1>1, <1>4 DEF IInv, TypeOK, Phases
<1>8. PhasesOK'
  BY <1>1, <1>2, <1>5, <1>6 DEF IInv, PhasesOK, PhaseOK, Looking, InBuild, Published
<1>9. KeysOK'
  BY <1>1 DEF IInv, KeysOK
<1>10. StacksOK'
  <2>1. \A h \in Goroutine :
          /\ stack'[h] = stack[h]
          /\ phase'[h] \in Published <=> phase[h] \in Published
          /\ phase'[h] = "release" => phase[h] = "release"
    BY <1>1, <1>6 DEF Published
  <2> QED
    BY <1>1, <2>1, StacksKept DEF IInv
<1>11. LookupsOK'
  <2> SUFFICES ASSUME NEW h \in Goroutine, NEW i \in DOMAIN stack[h]
               PROVE  AwaitsLookup(h, i)'
    BY <1>1 DEF LookupsOK
  <2>1. AwaitsLookup(h, i)
    BY DEF IInv, LookupsOK
  <2>2. CASE h # g
    BY <1>1, <1>6, <2>1, <2>2 DEF AwaitsLookup
  <2>3. CASE h = g /\ i # Len(stack[g])
    BY <1>1, <1>6, <2>1, <2>3 DEF AwaitsLookup
  <2>4. CASE h = g /\ i = Len(stack[g])
    BY <1>1, <1>6, <2>1, <2>4 DEF AwaitsLookup, k, n, Top
  <2> QED
    BY <2>2, <2>3, <2>4
<1>12. ElemsOK'
  BY <1>1, ElemsKept DEF IInv
<1>13. CodecsOK'
  BY <1>1 DEF IInv, CodecsOK
<1> QED
  BY <1>7, <1>8, <1>9, <1>10, <1>11, <1>12, <1>13 DEF IInv

LEMMA BuildEndInv ==
  ASSUME IInv, NEW g \in Goroutine, BuildEnd(g)
  PROVE  IInv'
<1>1. phase[g] = "build" /\ UNCHANGED <<known, base, real, released, elems>>
  BY DEF BuildEnd, shared
<1>2. CASE Finish(g, "build panic")
  BY <1>1, <1>2, FinishInv DEF Results
<1>3. CASE phase' = [phase EXCEPT ![g] = "publish"]
             /\ UNCHANGED <<stack, target, codec, depth, result>>
  <2>1. TypeOK'
    BY <1>1, <1>3 DEF IInv, TypeOK, Phases
  <2>2. phase'[g] = "publish" /\ \A h \in Goroutine \ {g} : phase'[h] = phase[h]
    BY <1>3 DEF IInv, TypeOK
  <2>3. PhaseOK(g)'
    BY <1>1, <1>3, <2>2 DEF IInv, PhasesOK, PhaseOK, Looking, InBuild, Published
  <2>4. codec'[g] = NoCodec
    BY <1>1, <1>3 DEF IInv, PhasesOK, PhaseOK
  <2> QED
    BY <1>1, <1>3, <2>1, <2>2, <2>3, <2>4, LocalInv DEF Published, Looking
<1> QED
  BY <1>2, <1>3 DEF BuildEnd

(* The key being published: its builder holds the only stack entry for it.  *)
LEMMA TopEntry ==
  ASSUME IInv, NEW g \in Goroutine, phase[g] \in InBuild
  PROVE  /\ stack[g] # <<>> /\ Top(g) \in Key
         /\ Len(stack[g]) \in DOMAIN stack[g] /\ stack[g][Len(stack[g])] = Top(g)
         /\ codec[g] = NoCodec /\ target[g] = NoKey
         /\ ~released[Top(g)][g]
         /\ phase[g] \in Published => known[Top(g)] = Built(Top(g), g)
         /\ phase[g] \notin Published => known[Top(g)] = Deferred(Top(g), g)
         /\ phase[g] = "release" => real[Top(g)][g] = Built(Top(g), g)
         /\ \A h \in Goroutine : \A i \in DOMAIN stack[h] :
              stack[h][i] = Top(g) => h = g /\ i = Len(stack[g])
<1>1. stack[g] # <<>> /\ codec[g] = NoCodec /\ target[g] = NoKey
  BY DEF IInv, PhasesOK, PhaseOK, InBuild, Published, Looking
<1>2. Top(g) \in Key /\ Len(stack[g]) \in DOMAIN stack[g] /\ stack[g][Len(stack[g])] = Top(g)
  BY <1>1, StackFacts DEF IInv, Top
<1>3. EntryOK(g, Len(stack[g]))
  BY <1>2 DEF IInv, StacksOK
<1>4. /\ ~released[Top(g)][g]
      /\ phase[g] \in Published => known[Top(g)] = Built(Top(g), g)
      /\ phase[g] \notin Published => known[Top(g)] = Deferred(Top(g), g)
      /\ phase[g] = "release" => real[Top(g)][g] = Built(Top(g), g)
  BY <1>2, <1>3 DEF EntryOK
<1>5. ASSUME NEW h \in Goroutine, NEW i \in DOMAIN stack[h], stack[h][i] = Top(g)
      PROVE  h = g /\ i = Len(stack[g])
  <2>1. EntryOK(h, i)
    BY DEF IInv, StacksOK
  <2>2. Final(known[Top(g)]) = Built(Top(g), h)
    BY <1>2, <1>5, <2>1, CodecFacts DEF EntryOK
  <2>3. Final(known[Top(g)]) = Built(Top(g), g)
    BY <1>2, <1>4, CodecFacts
  <2>4. h = g
    BY <2>2, <2>3, BuiltInjective
  <2> QED
    BY <1>2, <1>3, <1>5, <2>4 DEF EntryOK
<1> QED
  BY <1>1, <1>2, <1>4, <1>5

(* A step of a build on the way from its placeholder to its release.        *)
LEMMA PublishInv ==
  ASSUME IInv, NEW g \in Goroutine, Publish(g)
  PROVE  IInv'
<1> DEFINE k == Top(g)
<1>1. /\ phase[g] = "publish"
      /\ known' = [known EXCEPT ![k] = Built(k, g)]
      /\ phase' = [phase EXCEPT ![g] = IF k \in Plain THEN "publishBase" ELSE "resolve"]
      /\ UNCHANGED <<base, real, released, elems, stack, target, codec, depth, result>>
  BY DEF Publish
<1>2. /\ stack[g] # <<>> /\ k \in Key
      /\ Len(stack[g]) \in DOMAIN stack[g] /\ stack[g][Len(stack[g])] = k
      /\ codec[g] = NoCodec /\ target[g] = NoKey
      /\ known[k] = Deferred(k, g)
      /\ \A h \in Goroutine : \A i \in DOMAIN stack[h] :
           stack[h][i] = k => h = g /\ i = Len(stack[g])
  BY <1>1, TopEntry DEF InBuild, Published
<1>3. known'[k] = Built(k, g) /\ \A l \in Key \ {k} : known'[l] = known[l]
  BY <1>1, <1>2 DEF IInv, TypeOK
<1>4. /\ phase'[g] \in {"publishBase", "resolve"}
      /\ \A h \in Goroutine \ {g} : phase'[h] = phase[h]
  BY <1>1 DEF IInv, TypeOK
<1> HIDE DEF k
<1>5. TypeOK'
  <2>1. Built(k, g) \in Codec
    BY <1>2, CodecFacts
  <2> QED
    BY <1>1, <1>2, <2>1 DEF IInv, TypeOK, Phases
<1>6. \A l \in Key : known[l] # NoCodec => Final(known'[l]) = Final(known[l])
  BY <1>2, <1>3, CodecFacts
<1>7. PhasesOK'
  BY <1>1, <1>2, <1>4 DEF IInv, PhasesOK, PhaseOK, Looking, InBuild, Published
<1>8. KeysOK'
  <2>1. base[k] = NoCodec /\ \A h \in Goroutine : real[k][h] = NoCodec
    BY <1>2, CodecFacts DEF IInv, KeysOK
  <2> QED
    BY <1>1, <1>2, <1>3, <2>1, CodecFacts DEF IInv, KeysOK
<1>9. StacksOK'
  <2> SUFFICES ASSUME NEW h \in Goroutine, NEW i \in DOMAIN stack[h]
               PROVE  EntryOK(h, i)'
    BY <1>1 DEF StacksOK
  <2>1. EntryOK(h, i) /\ stack[h][i] \in Key
    BY StackFacts DEF IInv, StacksOK
  <2>2. CASE stack[h][i] # k
    <3>1. ~(h = g /\ i = Len(stack[g]))
      BY <1>2, <2>2
    <3> QED
      BY <1>1, <1>3, <1>4, <2>1, <2>2, <3>1 DEF EntryOK
  <2>3. CASE stack[h][i] = k
    BY <1>1, <1>2, <1>3, <1>4, <2>1, <2>3 DEF EntryOK, Published
  <2> QED
    BY <2>2, <2>3
<1>10. LookupsOK'
  BY <1>1, <1>4, LookupsKept DEF IInv, Looking
<1>11. ElemsOK'
  BY <1>1, <1>6, ElemsKept DEF IInv
<1>12. CodecsOK'
  BY <1>1, <1>5, <1>6, CodecsKept DEF IInv
<1> QED
  BY <1>5, <1>7, <1>8, <1>9, <1>10, <1>11, <1>12 DEF IInv

LEMMA PublishBaseInv ==
  ASSUME IInv, NEW g \in Goroutine, PublishBase(g)
  PROVE  IInv'
<1> DEFINE k == Top(g)
<1>1. /\ phase[g] = "publishBase"
      /\ base' = [base EXCEPT ![k] = Built(k, g)]
      /\ phase' = [phase EXCEPT ![g] = "resolve"]
      /\ UNCHANGED <<known, real, released, elems, stack, target, codec, depth, result>>
  BY DEF PublishBase
<1>2. k \in Key /\ known[k] = Built(k, g) /\ Built(k, g) \in Codec
  BY <1>1, TopEntry, CodecFacts DEF InBuild, Published
<1>3. phase'[g] = "resolve" /\ \A h \in Goroutine \ {g} : phase'[h] = phase[h]
  BY <1>1 DEF IInv, TypeOK
<1> HIDE DEF k
<1>4. TypeOK'
  BY <1>1, <1>2 DEF IInv, TypeOK, Phases
<1>5. PhasesOK'
  BY <1>1, <1>3 DEF IInv, PhasesOK, PhaseOK, Looking, InBuild, Published
<1>6. KeysOK'
  <2>1. \A l \in Key : base'[l] = IF l = k THEN Built(k, g) ELSE base[l]
    BY <1>1 DEF IInv, TypeOK
  <2> QED
    BY <1>1, <1>2, <2>1, CodecFacts DEF IInv, KeysOK
<1>7. StacksOK'
  BY <1>1, <1>3, StacksKept DEF IInv, Published
<1>8. LookupsOK'
  BY <1>1, <1>3, LookupsKept DEF IInv, Looking
<1>9. ElemsOK'
  BY <1>1, ElemsKept DEF IInv
<1>10. CodecsOK'
  BY <1>1 DEF IInv, CodecsOK
<1> QED
  BY <1>4, <1>5, <1>6, <1>7, <1>8, <1>9, <1>10 DEF IInv

LEMMA ResolveInv ==
  ASSUME IInv, NEW g \in Goroutine, Resolve(g)
  PROVE  IInv'
<1> DEFINE k == Top(g)
<1>1. /\ phase[g] = "resolve"
      /\ real' = [real EXCEPT ![k][g] = Built(k, g)]
      /\ phase' = [phase EXCEPT ![g] = "release"]
      /\ UNCHANGED <<known, base, released, elems, stack, target, codec, depth, result>>
  BY DEF Resolve
<1>2. /\ k \in Key /\ known[k] = Built(k, g) /\ Built(k, g) \in Codec
      /\ stack[g][Len(stack[g])] = k
      /\ \A h \in Goroutine : \A i \in DOMAIN stack[h] :
           stack[h][i] = k => h = g /\ i = Len(stack[g])
  BY <1>1, TopEntry, CodecFacts DEF InBuild, Published
<1>3. phase'[g] = "release" /\ \A h \in Goroutine \ {g} : phase'[h] = phase[h]
  BY <1>1 DEF IInv, TypeOK
<1> HIDE DEF k
<1>4. /\ real'[k][g] = Built(k, g)
      /\ \A l \in Key, h \in Goroutine :
           <<l, h>> # <<k, g>> => real'[l][h] = real[l][h]
  BY <1>1, <1>2 DEF IInv, TypeOK
<1>5. TypeOK'
  <2>1. real' \in [Key -> [Goroutine -> Codec \cup {NoCodec}]]
    BY <1>1, <1>2 DEF IInv, TypeOK
  <2> QED
    BY <1>1, <2>1 DEF IInv, TypeOK, Phases
<1>6. PhasesOK'
  BY <1>1, <1>3 DEF IInv, PhasesOK, PhaseOK, Looking, InBuild, Published
<1>7. KeysOK'
  BY <1>1, <1>2, <1>4, CodecFacts DEF IInv, KeysOK
<1>8. StacksOK'
  <2> SUFFICES ASSUME NEW h \in Goroutine, NEW i \in DOMAIN stack[h]
               PROVE  EntryOK(h, i)'
    BY <1>1 DEF StacksOK
  <2>1. EntryOK(h, i) /\ stack[h][i] \in Key
    BY StackFacts DEF IInv, StacksOK
  <2>2. CASE stack[h][i] # k
    <3>1. ~(h = g /\ i = Len(stack[g]))
      BY <1>2, <2>2
    <3> QED
      BY <1>1, <1>3, <1>4, <2>1, <2>2, <3>1 DEF EntryOK
  <2>3. CASE stack[h][i] = k
    BY <1>1, <1>2, <1>3, <1>4, <2>1, <2>3 DEF EntryOK, Published
  <2> QED
    BY <2>2, <2>3
<1>9. LookupsOK'
  BY <1>1, <1>3, LookupsKept DEF IInv, Looking
<1>10. ElemsOK'
  BY <1>1, ElemsKept DEF IInv
<1>11. CodecsOK'
  BY <1>1 DEF IInv, CodecsOK
<1> QED
  BY <1>5, <1>6, <1>7, <1>8, <1>9, <1>10, <1>11 DEF IInv

(* The wait group is released and the build returns to the one below it on  *)
(* the stack, or to the Encode or Decode that began it.                     *)
LEMMA ReleaseInv ==
  ASSUME IInv, NEW g \in Goroutine, Release(g)
  PROVE  IInv'
<1> DEFINE k == Top(g)
           st == Pop(g)
<1>1. /\ phase[g] = "release"
      /\ released' = [released EXCEPT ![k][g] = TRUE]
      /\ Deliver(g, Built(k, g), st)
      /\ UNCHANGED <<known, base, real>>
  BY DEF Release
<1>2. /\ stack[g] # <<>> /\ k \in Key
      /\ Len(stack[g]) \in DOMAIN stack[g] /\ stack[g][Len(stack[g])] = k
      /\ codec[g] = NoCodec /\ target[g] = NoKey
      /\ known[k] = Built(k, g) /\ real[k][g] = Built(k, g)
      /\ \A h \in Goroutine : \A i \in DOMAIN stack[h] :
           stack[h][i] = k => h = g /\ i = Len(stack[g])
  BY <1>1, TopEntry DEF InBuild, Published
<1>3. /\ Built(k, g) \in Codec /\ Built(k, g) # NoCodec
      /\ Built(k, g).key = k /\ Built(k, g).kind = "built"
      /\ Final(Built(k, g)) = Built(k, g)
  BY <1>2, CodecFacts
<1>4. /\ Len(stack[g]) \in Nat /\ DOMAIN stack[g] = 1..Len(stack[g])
      /\ st \in Seq(Key) /\ Len(st) = Len(stack[g]) - 1
      /\ \A i \in 1..(Len(stack[g]) - 1) : st[i] = stack[g][i]
  BY <1>2, StackFacts DEF IInv
<1>5. Len(st) \in Nat /\ DOMAIN st = 1..Len(st)
  BY <1>4, LenProperties
<1>6. stack' = [stack EXCEPT ![g] = st] /\ target' = [target EXCEPT ![g] = NoKey]
      /\ UNCHANGED <<depth, result>>
  BY <1>1 DEF Deliver
<1> HIDE DEF k, st
<1>7. /\ stack'[g] = st /\ target'[g] = NoKey
      /\ \A h \in Goroutine \ {g} : stack'[h] = stack[h] /\ target'[h] = target[h]
      /\ released'[k][g] = TRUE
      /\ \A l \in Key, h \in Goroutine :
           <<l, h>> # <<k, g>> => released'[l][h] = released[l][h]
  BY <1>1, <1>2, <1>6 DEF IInv, TypeOK
<1>8. released' \in [Key -> [Goroutine -> BOOLEAN]]
  BY <1>1, <1>2 DEF IInv, TypeOK
<1>9. KeysOK'
  BY <1>1, <1>2, <1>3, <1>7 DEF IInv, KeysOK
<1>10. \A h \in Goroutine : \A i \in DOMAIN stack'[h] :
         /\ i \in DOMAIN stack[h] /\ stack'[h][i] = stack[h][i]
         /\ stack[h][i] \in Key /\ stack[h][i] # k
  <2> SUFFICES ASSUME NEW h \in Goroutine, NEW i \in DOMAIN stack'[h]
               PROVE  /\ i \in DOMAIN stack[h] /\ stack'[h][i] = stack[h][i]
                      /\ stack[h][i] \in Key /\ stack[h][i] # k
    OBVIOUS
  <2>1. CASE h # g
    BY <1>2, <1>7, <2>1, StackFacts DEF IInv
  <2>2. CASE h = g
    <3>1. i \in 1..(Len(stack[g]) - 1)
      BY <1>4, <1>5, <1>7, <2>2
    <3>2. i \in DOMAIN stack[g] /\ stack'[g][i] = stack[g][i] /\ i # Len(stack[g])
      BY <1>4, <1>7, <3>1
    <3>3. stack[g][i] \in Key /\ stack[g][i] # k
      BY <1>2, <3>2, StackFacts DEF IInv
    <3> QED
      BY <2>2, <3>2, <3>3
  <2> QED
    BY <2>1, <2>2
<1>11. ASSUME phase'[g] \in {"build", "call"},
              \A h \in Goroutine \ {g} : phase'[h] = phase[h]
       PROVE  StacksOK'
  <2> SUFFICES ASSUME NEW h \in Goroutine, NEW i \in DOMAIN stack'[h]
               PROVE  EntryOK(h, i)'
    BY DEF StacksOK
  <2>1. /\ EntryOK(h, i) /\ stack'[h][i] = stack[h][i]
        /\ stack[h][i] \in Key /\ stack[h][i] # k
    BY <1>10 DEF IInv, StacksOK
  <2>2. ~released'[stack[h][i]][h]
    BY <1>7, <2>1 DEF EntryOK
  <2>3. \A j \in DOMAIN stack'[h] : stack'[h][j] = stack[h][i] => j = i
    BY <1>10, <2>1 DEF EntryOK
  <2>4. CASE h # g
    BY <1>1, <1>7, <1>11, <2>1, <2>2, <2>3, <2>4 DEF EntryOK
  <2>5. CASE h = g
    <3>1. i # Len(stack[g])
      BY <1>2, <2>1, <2>5
    <3>2. known[stack[g][i]] = Deferred(stack[g][i], g)
      BY <2>1, <2>5, <3>1 DEF EntryOK
    <3>3. phase'[g] \notin Published
      BY <1>11 DEF Published
    <3> QED
      BY <1>1, <2>1, <2>2, <2>3, <2>5, <3>2, <3>3 DEF EntryOK, Published
  <2> QED
    BY <2>4, <2>5
<1>12. CASE st = <<>>
  <2>1. /\ phase' = [phase EXCEPT ![g] = "call"]
        /\ codec' = [codec EXCEPT ![g] = Built(k, g)]
        /\ UNCHANGED elems
    BY <1>1, <1>12 DEF Deliver
  <2>2. /\ phase'[g] = "call" /\ codec'[g] = Built(k, g)
        /\ \A h \in Goroutine \ {g} : phase'[h] = phase[h] /\ codec'[h] = codec[h]
    BY <2>1 DEF IInv, TypeOK
  <2>3. TypeOK'
    BY <1>1, <1>3, <1>4, <1>6, <1>8, <2>1 DEF IInv, TypeOK, Phases
  <2>4. PhasesOK'
    BY <1>3, <1>7, <1>12, <2>2 DEF IInv, PhasesOK, PhaseOK, Looking, InBuild, Published
  <2>5. LookupsOK'
    BY <1>7, <1>12, <2>1, <2>2, LookupsKept DEF IInv
  <2>6. ElemsOK'
    BY <1>1, <2>1, ElemsKept DEF IInv
  <2>7. CodecsOK'
    BY <1>1, <1>2, <1>3, <2>2 DEF IInv, CodecsOK
  <2> QED
    BY <1>9, <1>11, <2>2, <2>3, <2>4, <2>5, <2>6, <2>7 DEF IInv
<1>13. CASE st # <<>>
  <2> DEFINE m == Len(st)
             l == st[m]
             e == elems[l][g]
  <2>1. /\ phase' = [phase EXCEPT ![g] = "build"]
        /\ elems' = [elems EXCEPT ![l][g] = Append(@, Built(k, g))]
        /\ UNCHANGED codec
    BY <1>1, <1>13 DEF Deliver
  <2>2. /\ m \in 1..Len(st) /\ m + 1 = Len(stack[g]) /\ m \in DOMAIN stack[g]
        /\ l = stack[g][m] /\ l \in Key /\ l # k
    <3>1. m \in Nat \ {0}
      BY <1>4, <1>13, EmptySeq
    <3>2. m \in 1..Len(st) /\ m + 1 = Len(stack[g]) /\ m \in DOMAIN stack[g]
      <4>1. \A a \in Nat, b \in Nat \ {0} :
              b = a - 1 => b \in 1..b /\ b + 1 = a /\ b \in 1..a
        OBVIOUS
      <4>2. Len(stack[g]) \in Nat /\ m = Len(stack[g]) - 1
        BY <1>4
      <4> HIDE DEF m
      <4>3. m \in 1..m /\ m + 1 = Len(stack[g]) /\ m \in 1..Len(stack[g])
        BY <3>1, <4>1, <4>2
      <4> QED
        BY <1>4, <4>3 DEF m
    <3>3. l = stack[g][m]
      BY <1>4, <3>1, <3>2
    <3> QED
      BY <1>5, <1>7, <1>10, <3>2, <3>3
  <2>3. Len(e) < Len(Lookups[l]) /\ k = Lookups[l][Len(e) + 1]
    <3>1. AwaitsLookup(g, m)
      BY <2>2 DEF IInv, LookupsOK
    <3>2. m < Len(stack[g]) /\ stack[g][m + 1] = k
      BY <1>2, <1>4, <2>2
    <3> QED
      BY <2>2, <3>1, <3>2 DEF AwaitsLookup
  <2>4. /\ e \in Seq(Codec) /\ Len(e) \in Nat /\ DOMAIN e = 1..Len(e)
        /\ Append(e, Built(k, g)) \in Seq(Codec)
        /\ Len(Append(e, Built(k, g))) = Len(e) + 1
        /\ Append(e, Built(k, g))[Len(e) + 1] = Built(k, g)
        /\ \A i \in 1..Len(e) : Append(e, Built(k, g))[i] = e[i]
        /\ DOMAIN Append(e, Built(k, g)) = 1..(Len(e) + 1)
    <3>1. e \in Seq(Codec) /\ Len(e) \in Nat /\ DOMAIN e = 1..Len(e)
      BY <2>2, ElemFacts DEF IInv
    <3>2. /\ Append(e, Built(k, g)) \in Seq(Codec)
          /\ Len(Append(e, Built(k, g))) = Len(e) + 1
          /\ Append(e, Built(k, g))[Len(e) + 1] = Built(k, g)
          /\ \A i \in 1..Len(e) : Append(e, Built(k, g))[i] = e[i]
      BY <1>3, <3>1, AppendProperties
    <3>3. DOMAIN Append(e, Built(k, g)) = 1..(Len(e) + 1)
      BY <3>2, LenProperties
    <3> QED
      BY <3>1, <3>2, <3>3
  <2>5. /\ phase'[g] = "build" /\ \A h \in Goroutine \ {g} : phase'[h] = phase[h]
        /\ elems'[l][g] = Append(e, Built(k, g))
        /\ \A x \in Key, h \in Goroutine :
             <<x, h>> # <<l, g>> => elems'[x][h] = elems[x][h]
    BY <2>1, <2>2 DEF IInv, TypeOK
  <2> HIDE DEF m, l
  <2>6. TypeOK'
    <3>1. elems' \in [Key -> [Goroutine -> Seq(Codec)]]
      BY <2>1, <2>2, <2>4 DEF IInv, TypeOK
    <3> QED
      BY <1>1, <1>4, <1>6, <1>8, <2>1, <3>1 DEF IInv, TypeOK, Phases
  <2>7. PhasesOK'
    BY <1>2, <1>7, <1>13, <2>1, <2>5 DEF IInv, PhasesOK, PhaseOK, Looking, InBuild, Published
  <2>8. LookupsOK'
    <3> SUFFICES ASSUME NEW h \in Goroutine, NEW i \in DOMAIN stack'[h]
                 PROVE  AwaitsLookup(h, i)'
      BY DEF LookupsOK
    <3>1. /\ AwaitsLookup(h, i) /\ i \in DOMAIN stack[h]
          /\ stack'[h][i] = stack[h][i] /\ stack[h][i] \in Key
      BY <1>10 DEF IInv, LookupsOK
    <3>2. CASE h # g
      BY <1>7, <2>5, <3>1, <3>2, ZenonT(40) DEF AwaitsLookup
    <3>3. CASE h = g
      <4>1. i \in 1..Len(st) /\ phase'[g] \notin Looking
        BY <1>5, <1>7, <2>5, <3>3 DEF Looking
      <4>2. CASE i = Len(st)
        BY <1>5, <1>7, <3>3, <4>1, <4>2 DEF AwaitsLookup
      <4>3. CASE i < Len(st)
        <5>1. stack[g][i] # l
          <6>1. EntryOK(g, m)
            BY <2>2 DEF IInv, StacksOK
          <6>2. i # m
            BY <1>5, <4>1, <4>3 DEF m
          <6> QED
            BY <2>2, <3>1, <3>3, <6>1, <6>2 DEF EntryOK
        <5>2. elems'[stack[g][i]][g] = elems[stack[g][i]][g]
          BY <2>5, <3>1, <3>3, <5>1
        <5>3. i < Len(stack[g]) /\ st[i + 1] = stack[g][i + 1]
          BY <1>4, <1>5, <4>1, <4>3
        <5>4. /\ Len(elems[stack[g][i]][g]) < Len(Lookups[stack[g][i]])
              /\ stack[g][i + 1] = Lookups[stack[g][i]][Len(elems[stack[g][i]][g]) + 1]
          BY <3>1, <3>3, <5>3 DEF AwaitsLookup
        <5> QED
          BY <1>7, <3>1, <3>3, <4>1, <5>2, <5>3, <5>4 DEF AwaitsLookup
      <4> QED
        BY <1>5, <4>1, <4>2, <4>3
    <3> QED
      BY <3>2, <3>3
  <2>9. ElemsOK'
    <3> SUFFICES ASSUME NEW x \in Key, NEW h \in Goroutine
                 PROVE  PartsOK(x, h)'
      BY DEF ElemsOK
    <3>1. PartsOK(x, h)
      BY DEF IInv, ElemsOK
    <3>2. CASE elems'[x][h] = elems[x][h]
      BY <1>1, <3>1, <3>2 DEF PartsOK
    <3>3. CASE x = l /\ h = g
      <4>1. Len(elems'[x][h]) \leq Len(Lookups[x])
        <5>1. Len(Lookups[x]) \in Nat
          BY LookupFacts
        <5>2. Len(elems'[x][h]) = Len(e) + 1 /\ Len(e) \in Nat
          BY <2>4, <2>5, <3>3
        <5>3. Len(e) < Len(Lookups[x])
          BY <2>3, <3>3
        <5> HIDE DEF e
        <5> QED
          BY <5>1, <5>2, <5>3
      <4>2. ASSUME NEW i \in DOMAIN elems'[x][h]
            PROVE  /\ elems'[x][h][i].key = Lookups[x][i]
                   /\ Final(elems'[x][h][i]) = Final(known[Lookups[x][i]])
        <5>1. CASE i = Len(e) + 1
          BY <1>2, <1>3, <2>3, <2>4, <2>5, <3>3, <5>1
        <5>2. CASE i \in 1..Len(e)
          BY <2>4, <2>5, <3>1, <3>3, <5>2, SMTT(30) DEF PartsOK
        <5> QED
          BY <2>4, <2>5, <3>3, <5>1, <5>2
      <4> QED
        BY <1>1, <4>1, <4>2 DEF PartsOK
    <3> QED
      BY <2>5, <3>2, <3>3
  <2>10. CodecsOK'
    BY <1>1, <2>1 DEF IInv, CodecsOK
  <2> QED
    BY <1>9, <1>11, <2>5, <2>6, <2>7, <2>8, <2>9, <2>10 DEF IInv
<1> QED
  BY <1>12, <1>13

(* A codec that is called has a key, and its goroutine builds nothing.     *)
LEMMA CalledCodec ==
  ASSUME IInv, NEW g \in Goroutine, phase[g] \in {"call", "wait"}
  PROVE  /\ codec[g] \in Codec /\ codec[g] # NoCodec /\ codec[g].key \in Key
         /\ codec[g].kind \in {"deferred", "built"} => codec[g].by \in Goroutine
         /\ stack[g] = <<>> /\ target[g] = NoKey
         /\ phase[g] = "wait" => codec[g].kind = "deferred"
<1>1. PhaseOK(g) /\ codec[g] \in Codec \cup {NoCodec}
  BY DEF IInv, PhasesOK, TypeOK
<1>2. codec[g] # NoCodec /\ stack[g] = <<>> /\ (phase[g] = "wait" => codec[g].kind = "deferred")
  BY <1>1 DEF PhaseOK
<1>3. target[g] = NoKey
  BY <1>1 DEF PhaseOK, Looking
<1> QED
  BY <1>1, <1>2, <1>3, CodecFacts

-----------------------------------------------------------------------------
(* Calls.                                                                   *)
LEMMA CallDeferredInv ==
  ASSUME IInv, NEW g \in Goroutine, CallDeferred(g)
  PROVE  IInv'
<1> DEFINE c == codec[g]
<1>1. /\ phase[g] = "call" /\ c.kind = "deferred"
      /\ UNCHANGED <<known, base, real, released, elems, stack, target, depth, result>>
  BY DEF CallDeferred, shared
<1>2. c \in Codec /\ c.key \in Key /\ c.by \in Goroutine /\ stack[g] = <<>>
      /\ target[g] = NoKey
  BY <1>1, CalledCodec
<1>3. CASE real[c.key][c.by] # NoCodec
  <2>1. codec' = [codec EXCEPT ![g] = real[c.key][c.by]] /\ UNCHANGED phase
    BY <1>3 DEF CallDeferred
  <2>2. /\ real[c.key][c.by] = Built(c.key, c.by) /\ known[c.key] = Built(c.key, c.by)
        /\ Built(c.key, c.by) \in Codec /\ Built(c.key, c.by).key = c.key
    BY <1>2, <1>3, CodecFacts DEF IInv, KeysOK
  <2> HIDE DEF c
  <2>3. codec'[g] = Built(c.key, c.by) /\ \A h \in Goroutine \ {g} : codec'[h] = codec[h]
    BY <2>1, <2>2 DEF IInv, TypeOK
  <2>4. TypeOK'
    BY <1>1, <2>1, <2>2 DEF IInv, TypeOK
  <2>5. PhaseOK(g)'
    BY <1>1, <1>2, <2>1, <2>2, <2>3, CodecFacts DEF PhaseOK, Looking, InBuild, Published
  <2> QED
    BY <1>1, <1>2, <2>1, <2>2, <2>3, <2>4, <2>5, LocalInv DEF Published
<1>4. CASE real[c.key][c.by] = NoCodec
  <2>1. phase' = [phase EXCEPT ![g] = "wait"] /\ UNCHANGED codec
    BY <1>4 DEF CallDeferred
  <2>2. phase'[g] = "wait" /\ \A h \in Goroutine \ {g} : phase'[h] = phase[h]
    BY <2>1 DEF IInv, TypeOK
  <2>3. TypeOK'
    BY <1>1, <2>1 DEF IInv, TypeOK, Phases
  <2>4. PhaseOK(g)'
    BY <1>1, <1>2, <2>1, <2>2, CodecFacts DEF PhaseOK, Looking, InBuild, Published
  <2>5. codec'[g] # NoCodec => Final(codec'[g]) = Final(known[codec'[g].key])
    BY <2>1 DEF IInv, CodecsOK
  <2> QED
    BY <1>1, <1>2, <2>1, <2>2, <2>3, <2>4, <2>5, LocalInv DEF Published
<1> QED
  BY <1>3, <1>4

LEMMA WakeInv ==
  ASSUME IInv, NEW g \in Goroutine, Wake(g)
  PROVE  IInv'
<1> DEFINE c == codec[g]
<1>1. /\ phase[g] = "wait" /\ released[c.key][c.by]
      /\ UNCHANGED <<known, base, real, released, elems>>
  BY DEF Wake, shared
<1>2. c \in Codec /\ c.key \in Key /\ c.by \in Goroutine /\ stack[g] = <<>>
      /\ target[g] = NoKey
  BY <1>1, CalledCodec
<1>3. /\ real[c.key][c.by] = Built(c.key, c.by) /\ known[c.key] = Built(c.key, c.by)
      /\ Built(c.key, c.by) \in Codec /\ Built(c.key, c.by).key = c.key
      /\ real[c.key][c.by] # NoCodec
  BY <1>1, <1>2, CodecFacts DEF IInv, KeysOK
<1>4. /\ codec' = [codec EXCEPT ![g] = real[c.key][c.by]]
      /\ phase' = [phase EXCEPT ![g] = "call"]
      /\ UNCHANGED <<stack, target, depth, result>>
  BY <1>3 DEF Wake
<1> HIDE DEF c
<1>5. /\ codec'[g] = Built(c.key, c.by) /\ phase'[g] = "call"
      /\ \A h \in Goroutine \ {g} : codec'[h] = codec[h] /\ phase'[h] = phase[h]
  BY <1>3, <1>4 DEF IInv, TypeOK
<1>6. TypeOK'
  BY <1>1, <1>3, <1>4 DEF IInv, TypeOK, Phases
<1>7. PhaseOK(g)'
  BY <1>2, <1>3, <1>4, <1>5, CodecFacts DEF PhaseOK, Looking, InBuild, Published
<1> QED
  BY <1>1, <1>2, <1>3, <1>4, <1>5, <1>6, <1>7, LocalInv DEF Published

(* The codecs inside a built codec were looked up while it was built.       *)
LEMMA CallElemInv ==
  ASSUME IInv, NEW g \in Goroutine, CallElem(g)
  PROVE  IInv'
<1> DEFINE c == codec[g]
<1>1. /\ phase[g] = "call" /\ c.kind = "built" /\ depth[g] > 0
      /\ depth' = [depth EXCEPT ![g] = @ - 1]
      /\ UNCHANGED <<known, base, real, released, elems, stack, phase, target, result>>
  BY DEF CallElem, shared
<1>2. PICK i \in DOMAIN Elems(c) : codec' = [codec EXCEPT ![g] = Elems(c)[i]]
  BY DEF CallElem
<1>3. c \in Codec /\ c.key \in Key /\ c.by \in Goroutine /\ stack[g] = <<>>
      /\ target[g] = NoKey
  BY <1>1, CalledCodec
<1>4. i \in DOMAIN elems[c.key][c.by] /\ Elems(c)[i] = elems[c.key][c.by][i]
  <2>1. DOMAIN <<>> = {}
    OBVIOUS
  <2> QED
    BY <1>2, <2>1 DEF Elems
<1> DEFINE d == elems[c.key][c.by][i]
<1>5. d \in Codec /\ d.key \in Key /\ Final(d) = Final(known[d.key])
  <2>1. PartsOK(c.key, c.by)
    BY <1>3 DEF IInv, ElemsOK
  <2>2. d \in Codec /\ d.key \in Key
    BY <1>3, <1>4, ElemFacts, CodecFacts DEF IInv
  <2> QED
    BY <1>4, <2>1, <2>2 DEF PartsOK
<1>6. codec' = [codec EXCEPT ![g] = d]
  BY <1>2, <1>4
<1> HIDE DEF c, d
<1>7. codec'[g] = d /\ \A h \in Goroutine \ {g} : codec'[h] = codec[h]
  BY <1>6 DEF IInv, TypeOK
<1>8. TypeOK'
  <2>1. depth' \in [Goroutine -> Depths]
    BY <1>1, DepthFacts DEF IInv, TypeOK
  <2> QED
    BY <1>1, <1>5, <1>6, <2>1 DEF IInv, TypeOK
<1>9. PhaseOK(g)'
  BY <1>1, <1>3, <1>5, <1>7, CodecFacts DEF PhaseOK, Looking, InBuild, Published
<1> QED
  BY <1>1, <1>3, <1>5, <1>7, <1>8, <1>9, LocalInv DEF Published

LEMMA CallBackInv ==
  ASSUME IInv, NEW g \in Goroutine, CallBack(g)
  PROVE  IInv'
<1>1. /\ phase[g] = "call" /\ depth[g] > 0
      /\ depth' = [depth EXCEPT ![g] = @ - 1]
      /\ phase' = [phase EXCEPT ![g] = "loadBase"]
      /\ codec' = [codec EXCEPT ![g] = NoCodec]
      /\ UNCHANGED <<known, base, real, released, elems, stack, result>>
  BY DEF CallBack, shared
<1>2. PICK k \in Plain : target' = [target EXCEPT ![g] = k]
  BY DEF CallBack
<1>3. k \in Key /\ k # NoKey
  BY RegistryAssumption
<1>4. stack[g] = <<>>
  BY <1>1 DEF IInv, PhasesOK, PhaseOK
<1>5. /\ codec'[g] = NoCodec /\ phase'[g] = "loadBase" /\ target'[g] = k
      /\ \A h \in Goroutine \ {g} :
           codec'[h] = codec[h] /\ phase'[h] = phase[h] /\ target'[h] = target[h]
  BY <1>1, <1>2 DEF IInv, TypeOK
<1>6. TypeOK'
  <2>1. depth' \in [Goroutine -> Depths]
    BY <1>1, DepthFacts DEF IInv, TypeOK
  <2> QED
    BY <1>1, <1>2, <1>3, <2>1 DEF IInv, TypeOK, Phases
<1>7. PhaseOK(g)'
  BY <1>1, <1>3, <1>4, <1>5 DEF PhaseOK, Looking, InBuild, Published
<1> QED
  BY <1>1, <1>4, <1>5, <1>6, <1>7, LocalInv DEF Published

LEMMA ReturnInv ==
  ASSUME IInv, NEW g \in Goroutine, Return(g)
  PROVE  IInv'
<1>1. Finish(g, "ok") /\ UNCHANGED <<known, base, real, released, elems>>
  BY DEF Return, shared
<1> QED
  BY <1>1, FinishInv DEF Results

-----------------------------------------------------------------------------
(* Registration binds a key that has no codec.                              *)
LEMMA RegisterCodecInv ==
  ASSUME IInv, NEW g \in Goroutine, NEW k \in Plain, NEW c \in Custom,
         RegisterCodec(g, k, c)
  PROVE  IInv'
<1>1. k \in Key
  BY RegistryAssumption
<1>2. UNCHANGED <<base, real, released, elems, stack, phase, target, codec, depth>>
  BY DEF RegisterCodec
<1>3. \/ UNCHANGED known
      \/ known[k] = NoCodec /\ known' = [known EXCEPT ![k] = Registered(k, c)]
  BY DEF RegisterCodec, Stores
<1>4. Registered(k, c) \in Codec /\ Registered(k, c).key = k
  BY <1>1, CodecFacts
<1>5. result' \in [Goroutine -> Results]
  BY DEF RegisterCodec, IInv, TypeOK, Results
<1>6. TypeOK'
  BY <1>1, <1>2, <1>3, <1>4, <1>5 DEF IInv, TypeOK
<1>7. \A l \in Key : known[l] # NoCodec => known'[l] = known[l]
  BY <1>1, <1>3 DEF IInv, TypeOK
<1>8. PhasesOK'
  BY <1>2 DEF IInv, PhasesOK, PhaseOK
<1>9. KeysOK'
  <2>1. \A l \in Key : known'[l] # NoCodec => known'[l].key = l
    BY <1>1, <1>3, <1>4 DEF IInv, TypeOK, KeysOK
  <2>2. \A l \in Key : base[l] # NoCodec => base[l] = known'[l] /\ base[l].kind = "built"
    BY <1>7 DEF IInv, KeysOK
  <2>3. \A l \in Key, h \in Goroutine :
          real[l][h] # NoCodec => real[l][h] = Built(l, h) /\ known'[l] = Built(l, h)
    BY <1>7, CodecFacts DEF IInv, KeysOK
  <2> QED
    BY <1>2, <2>1, <2>2, <2>3 DEF IInv, KeysOK
<1>10. StacksOK'
  <2> SUFFICES ASSUME NEW h \in Goroutine, NEW i \in DOMAIN stack[h]
               PROVE  EntryOK(h, i)'
    BY <1>2 DEF StacksOK
  <2>1. EntryOK(h, i) /\ stack[h][i] \in Key
    BY StackFacts DEF IInv, StacksOK
  <2>2. known[stack[h][i]] # NoCodec
    BY <2>1, CodecFacts DEF EntryOK
  <2>3. known'[stack[h][i]] = known[stack[h][i]]
    BY <1>7, <2>1, <2>2
  <2> QED
    BY <1>2, <2>1, <2>3 DEF EntryOK
<1>11. LookupsOK'
  BY <1>2, SMTT(30) DEF IInv, LookupsOK, AwaitsLookup
<1>12. \A l \in Key : known[l] # NoCodec => Final(known'[l]) = Final(known[l])
  BY <1>7
<1>13. ElemsOK'
  BY <1>2, <1>12, ElemsKept DEF IInv
<1>14. CodecsOK'
  BY <1>2, <1>6, <1>12, CodecsKept DEF IInv
<1> QED
  BY <1>6, <1>8, <1>9, <1>10, <1>11, <1>13, <1>14 DEF IInv

-----------------------------------------------------------------------------
LEMMA InitInv == Init => IInv
<1> SUFFICES ASSUME Init PROVE IInv
  OBVIOUS
<1>1. <<>> \in Seq(Codec) /\ <<>> \in Seq(Key) /\ Len(<<>>) = 0 /\ DOMAIN <<>> = {}
  OBVIOUS
<1>2. TypeOK
  BY <1>1, DepthFacts DEF Init, TypeOK, Phases, Results
<1>3. PhasesOK
  BY DEF Init, PhasesOK, PhaseOK, Looking, InBuild, Published
<1>4. KeysOK
  BY DEF Init, KeysOK
<1>5. StacksOK /\ LookupsOK
  BY <1>1 DEF Init, StacksOK, LookupsOK
<1>6. ElemsOK
  <2> SUFFICES ASSUME NEW k \in Key, NEW g \in Goroutine PROVE PartsOK(k, g)
    BY DEF ElemsOK
  <2>1. elems[k][g] = <<>>
    BY DEF Init
  <2>2. Len(Lookups[k]) \in Nat
    BY LookupFacts
  <2> QED
    BY <1>1, <2>1, <2>2 DEF PartsOK
<1>7. CodecsOK
  BY DEF Init, CodecsOK
<1> QED
  BY <1>2, <1>3, <1>4, <1>5, <1>6, <1>7 DEF IInv

LEMMA NextInv == IInv /\ [Next]_vars => IInv'
<1> SUFFICES ASSUME IInv, [Next]_vars PROVE IInv'
  OBVIOUS
<1>1. CASE UNCHANGED vars
  BY <1>1 DEF vars, shared, IInv, TypeOK, PhasesOK, PhaseOK, KeysOK, StacksOK, EntryOK,
         LookupsOK, AwaitsLookup, ElemsOK, PartsOK, CodecsOK
<1>2. ASSUME NEW g \in Goroutine, Step(g) PROVE IInv'
  BY <1>2, getBaseCodecInv, getCodecInv, ClaimLostInv, ClaimWonInv, BuildLookupInv,
     BuildEndInv, PublishInv, PublishBaseInv, ResolveInv, ReleaseInv, CallDeferredInv,
     WakeInv, CallElemInv, CallBackInv, ReturnInv DEF Step
<1>3. ASSUME NEW g \in Goroutine, NEW k \in Plain, EncodeValue(g, k) PROVE IInv'
  BY <1>3, EncodeValueInv
<1>4. ASSUME NEW g \in Goroutine, NEW k \in Plain, DecodeValue(g, k) PROVE IInv'
  BY <1>4, DecodeValueInv
<1>5. ASSUME NEW g \in Goroutine, NEW k \in Plain, NEW c \in Custom, RegisterCodec(g, k, c)
      PROVE  IInv'
  BY <1>5, RegisterCodecInv
<1> QED
  BY <1>1, <1>2, <1>3, <1>4, <1>5 DEF Next

(* The inductive invariant holds in every reachable state.                  *)
THEOREM Invariant == Spec => []IInv
BY InitInv, NextInv, PTL DEF Spec

(* Every variable keeps its type.                                           *)
THEOREM TypeCorrect == Spec => []TypeOK
<1>1. IInv => TypeOK
  BY DEF IInv
<1> QED
  BY Invariant, <1>1, PTL

-----------------------------------------------------------------------------
(* Safety.                                                                  *)

(* The base map, and the placeholders that are resolved, hold the codec     *)
(* that the map of all codecs holds (getNewCodec stores the one codec it    *)
(* built in all three places).                                              *)
THEOREM MapsAlwaysAgree == Spec => []MapsAgree
<1>1. IInv => MapsAgree
  BY DEF IInv, KeysOK, MapsAgree
<1> QED
  BY Invariant, <1>1, PTL

(* Whoever calls a codec, and every codec with others inside, has the one   *)
(* codec of each key, however the races of getNewCodec went.                *)
THEOREM OneCodecForEachKey == Spec => []OneCodecPerKey
<1>1. IInv => OneCodecPerKey
  BY DEF IInv, CodecsOK, ElemsOK, PartsOK, OneCodecPerKey
<1> QED
  BY Invariant, <1>1, PTL

(* The LoadOrStore of getNewCodec lets one goroutine build the codec of a   *)
(* key, once.                                                               *)
THEOREM BuildersAreAlone == Spec => []SoleBuilder
<1>1. ASSUME IInv, NEW g \in Goroutine, NEW h \in Goroutine,
             NEW i \in DOMAIN stack[g], NEW j \in DOMAIN stack[h],
             stack[g][i] = stack[h][j]
      PROVE  g = h /\ i = j
  <2> DEFINE k == stack[g][i]
  <2>1. k \in Key
    BY <1>1, StackFacts DEF IInv
  <2>2. EntryOK(g, i) /\ EntryOK(h, j)
    BY <1>1 DEF IInv, StacksOK
  <2>3. /\ known[k] = Built(k, g) \/ known[k] = Deferred(k, g)
        /\ known[k] = Built(k, h) \/ known[k] = Deferred(k, h)
        /\ g = h => i = j
    BY <1>1, <2>2 DEF EntryOK
  <2> HIDE DEF k
  <2>4. known[k].by = g /\ known[k].by = h
    BY <2>1, <2>3, CodecFacts
  <2> QED
    BY <2>3, <2>4
<1>2. IInv => SoleBuilder
  BY <1>1 DEF SoleBuilder, Building
<1> QED
  BY Invariant, <1>2, PTL

(* RegisterCodecReflect and getNewCodec decide by LoadOrStore on one map    *)
(* which of them has the key, in either build of the program: a type with a *)
(* registered codec is not built, nobody holds a placeholder for it, and    *)
(* the codecs of the types that contain it hold the registered one.         *)
THEOREM RegistrationsExcludeBuilds == Spec => []RegistrationExcludesBuild
<1>1. ASSUME IInv, NEW k \in Key, known[k].kind = "custom"
      PROVE  /\ base[k] = NoCodec
             /\ \A g \in Goroutine : k \notin Building(g) /\ real[k][g] = NoCodec
             /\ \A g \in Goroutine :
                  codec[g] # NoCodec /\ codec[g].key = k => codec[g] = known[k]
             /\ \A j \in Key, g \in Goroutine : \A i \in DOMAIN elems[j][g] :
                  elems[j][g][i].key = k => elems[j][g][i] = known[k]
  <2>1. known[k] \in Codec
    <3>1. NoCodec.kind # "custom"
      BY DEF NoCodec
    <3> QED
      BY <1>1, <3>1 DEF IInv, TypeOK
  <2>2. \A g \in Goroutine : known[k] # Built(k, g) /\ known[k] # Deferred(k, g)
    BY <1>1, CodecFacts
  <2>3. ASSUME NEW c \in Codec, Final(c) = Final(known[k])
        PROVE  c = known[k]
    <3>1. Final(known[k]) = known[k]
      BY <1>1, <2>1, CodecFacts
    <3>2. c.kind # "deferred"
      <4>1. SUFFICES ASSUME c.kind = "deferred" PROVE FALSE
        OBVIOUS
      <4>2. c.by \in Goroutine /\ c.key \in Key /\ Final(c) = Built(c.key, c.by)
        BY <4>1, CodecFacts DEF Final
      <4>3. Built(c.key, c.by).kind = "built"
        BY <4>2, CodecFacts
      <4> QED
        BY <1>1, <2>3, <3>1, <4>2, <4>3
    <3> QED
      BY <2>3, <3>1, <3>2, CodecFacts
  <2>4. base[k] = NoCodec
    BY <1>1 DEF IInv, KeysOK
  <2>5. ASSUME NEW g \in Goroutine
        PROVE  k \notin Building(g) /\ real[k][g] = NoCodec
    <3>1. ASSUME NEW i \in DOMAIN stack[g], stack[g][i] = k
          PROVE  FALSE
      <4>1. EntryOK(g, i)
        BY <1>1 DEF IInv, StacksOK
      <4> QED
        BY <2>2, <3>1, <4>1 DEF EntryOK
    <3>2. real[k][g] = NoCodec
      BY <1>1, <2>2 DEF IInv, KeysOK
    <3> QED
      BY <3>1, <3>2 DEF Building
  <2>6. ASSUME NEW g \in Goroutine, codec[g] # NoCodec, codec[g].key = k
        PROVE  codec[g] = known[k]
    <3>1. codec[g] \in Codec /\ Final(codec[g]) = Final(known[k])
      BY <1>1, <2>6 DEF IInv, TypeOK, CodecsOK
    <3> QED
      BY <2>3, <3>1
  <2>7. ASSUME NEW j \in Key, NEW g \in Goroutine, NEW i \in DOMAIN elems[j][g],
               elems[j][g][i].key = k
        PROVE  elems[j][g][i] = known[k]
    <3>1. elems[j][g] \in Seq(Codec)
      BY <1>1 DEF IInv, TypeOK
    <3>2. elems[j][g][i] \in Codec
      BY <3>1
    <3>3. Final(elems[j][g][i]) = Final(known[k])
      BY <1>1, <2>7 DEF IInv, ElemsOK, PartsOK
    <3> QED
      BY <2>3, <3>2, <3>3
  <2> QED
    BY <2>4, <2>5, <2>6, <2>7
<1>2. IInv => RegistrationExcludesBuild
  BY <1>1 DEF RegistrationExcludesBuild
<1> QED
  BY Invariant, <1>2, PTL

(* deferredCodec.resolve stores the real codec before it lets anybody       *)
(* through, so that a call that has waited never meets a nil codec.         *)
THEOREM NeverNilCodec == Spec => []NoNilCodec
<1>1. Init => NoNilCodec
  BY DEF Init, NoNilCodec
<1>2. ASSUME IInv, NoNilCodec, [Next]_vars
      PROVE  NoNilCodec'
  <2> SUFFICES ASSUME NEW h \in Goroutine PROVE result'[h] # "nil codec"
    BY DEF NoNilCodec
  <2>1. result \in [Goroutine -> Results] /\ result[h] # "nil codec"
    BY <1>2 DEF IInv, TypeOK, NoNilCodec
  <2>2. ASSUME NEW g \in Goroutine, NEW r \in Results \ {"nil codec"}, Finish(g, r)
        PROVE  result'[h] # "nil codec"
    BY <2>1, <2>2 DEF Finish
  <2>3. ASSUME NEW g \in Goroutine, NEW c, Found(g, c)
        PROVE  result'[h] # "nil codec"
    BY <2>1, <2>2, <2>3 DEF Found, Deliver, Results
  <2>4. ASSUME NEW g \in Goroutine, getBaseCodec(g) \/ getCodec(g) \/ ClaimLost(g)
        PROVE  result'[h] # "nil codec"
    BY <2>1, <2>3, <2>4 DEF getBaseCodec, getCodec, ClaimLost, Load
  <2>5. ASSUME NEW g \in Goroutine, BuildEnd(g) \/ Return(g)
        PROVE  result'[h] # "nil codec"
    BY <2>1, <2>2, <2>5 DEF BuildEnd, Return, Results
  <2>6. ASSUME NEW g \in Goroutine, Wake(g)
        PROVE  result'[h] # "nil codec"
    <3> DEFINE c == codec[g]
    <3>1. phase[g] = "wait" /\ released[c.key][c.by]
      BY <2>6 DEF Wake
    <3>2. c.key \in Key /\ c.by \in Goroutine
      BY <1>2, <3>1, CalledCodec
    <3>3. real[c.key][c.by] # NoCodec
      BY <1>2, <3>1, <3>2 DEF IInv, KeysOK
    <3> QED
      BY <2>1, <2>6, <3>3 DEF Wake
  <2>7. ASSUME NEW g \in Goroutine, NEW k \in Plain, NEW c \in Custom,
               RegisterCodec(g, k, c)
        PROVE  result'[h] # "nil codec"
    BY <2>1, <2>7 DEF RegisterCodec
  <2>8. ASSUME NEW g \in Goroutine,
               \/ ClaimWon(g) \/ BuildLookup(g) \/ Publish(g) \/ PublishBase(g)
               \/ Resolve(g) \/ Release(g) \/ CallDeferred(g) \/ CallElem(g)
               \/ CallBack(g) \/ \E k \in Plain : EncodeValue(g, k) \/ DecodeValue(g, k)
        PROVE  UNCHANGED result
    BY <2>8 DEF ClaimWon, BuildLookup, Publish, PublishBase, Resolve, Release, Deliver,
         CallDeferred, CallElem, CallBack, EncodeValue, DecodeValue
  <2> QED
    BY <1>2, <2>1, <2>4, <2>5, <2>6, <2>7, <2>8 DEF Next, Step, vars
<1> QED
  BY Invariant, <1>1, <1>2, PTL DEF Spec
-----------------------------------------------------------------------------
(* Without registered codecs, or with the xCodec of the nounsafe build,     *)
(* every codec of the maps is an xCodec.                                    *)
LEMMA AllXCodecs ==
  ASSUME Unsafe => Custom = {}, NEW c \in Codec
  PROVE  IsXCodec(c)
<1>1. CASE c.kind = "custom"
  <2>1. \E k \in Key, u \in Custom : c = Registered(k, u)
    BY <1>1 DEF Codec, FinalCodec, Built, Deferred
  <2> QED
    BY <2>1 DEF IsXCodec
<1> QED
  BY <1>1 DEF IsXCodec

-----------------------------------------------------------------------------
(* Nobody waits for ever for a placeholder, if no build can panic.  A step  *)
(* that neither leaves a stack nor stores a codec keeps the placeholders    *)
(* that are not resolved under construction.                                *)
LEMMA PlaceholdersKept ==
  ASSUME PlaceholdersAreBuilt, UNCHANGED released,
         \A k \in Key : Final(known'[k]) = Final(known[k]),
         \A g \in Goroutine : Building(g) \subseteq Building(g)'
  PROVE  PlaceholdersAreBuilt'
BY DEF PlaceholdersAreBuilt

(* A codec that is delivered pops nothing but what st leaves out.           *)
LEMMA FoundKeepsBuilds ==
  ASSUME IInv, PanicFree, NEW g \in Goroutine, NEW c \in Codec, Found(g, c)
  PROVE  UNCHANGED stack
<1>1. IsXCodec(c)
  BY AllXCodecs DEF PanicFree
<1> QED
  BY <1>1 DEF Found, Deliver, IInv, TypeOK

LEMMA PlaceholdersInv ==
  ASSUME IInv, PanicFree, PlaceholdersAreBuilt, [Next]_vars
  PROVE  PlaceholdersAreBuilt'
<1>1. ASSUME UNCHANGED <<known, released, stack>>
      PROVE  PlaceholdersAreBuilt'
  BY <1>1, PlaceholdersKept DEF Building
<1>2. ASSUME NEW g \in Goroutine, getBaseCodec(g) \/ getCodec(g) \/ ClaimLost(g)
      PROVE  PlaceholdersAreBuilt'
  <2>1. target[g] \in Key
    BY <1>2 DEF getBaseCodec, getCodec, ClaimLost, IInv, TypeOK, PhasesOK, PhaseOK, Looking
  <2>2. ASSUME NEW map \in [Key -> Codec \cup {NoCodec}], Load(g, map)
        PROVE  UNCHANGED <<known, released, stack>>
    BY <2>1, <2>2, FoundKeepsBuilds DEF Load, shared
  <2>3. CASE ClaimLost(g)
    BY <1>1, <2>1, <2>3, FoundKeepsBuilds DEF ClaimLost, Stores, shared, IInv, TypeOK
  <2> QED
    BY <1>1, <1>2, <2>2, <2>3 DEF getBaseCodec, getCodec, IInv, TypeOK
<1>3. ASSUME NEW g \in Goroutine, ClaimWon(g)
      PROVE  PlaceholdersAreBuilt'
  <2> DEFINE t == target[g]
  <2>1. /\ t \in Key /\ UNCHANGED released
        /\ known' = [known EXCEPT ![t] = Deferred(t, g)]
        /\ stack' = [stack EXCEPT ![g] = Append(stack[g], t)]
    BY <1>3 DEF ClaimWon, IInv, TypeOK, PhasesOK, PhaseOK, Looking
  <2>2. /\ stack[g] \in Seq(Key) /\ stack \in [Goroutine -> Seq(Key)]
        /\ known \in [Key -> Codec \cup {NoCodec}]
    BY DEF IInv, TypeOK
  <2>3. stack'[g] = Append(stack[g], t) /\ \A h \in Goroutine \ {g} : stack'[h] = stack[h]
    BY <2>1, <2>2
  <2>4. /\ Len(stack[g]) \in Nat /\ DOMAIN stack[g] = 1..Len(stack[g])
        /\ DOMAIN Append(stack[g], t) = 1..(Len(stack[g]) + 1)
        /\ \A i \in 1..Len(stack[g]) : Append(stack[g], t)[i] = stack[g][i]
        /\ Append(stack[g], t)[Len(stack[g]) + 1] = t
    BY <2>1, <2>2, AppendProperties, LenProperties
  <2>5. Building(g)' = Building(g) \cup {t}
    BY <2>3, <2>4 DEF Building
  <2>6. known'[t] = Deferred(t, g) /\ \A k \in Key \ {t} : known'[k] = known[k]
    BY <2>1, <2>2
  <2>7. Final(known'[t]) = Built(t, g)
    BY <2>1, <2>6, CodecFacts
  <2> HIDE DEF t
  <2>8. ASSUME NEW k \in Key, NEW h \in Goroutine,
               Final(known'[k]) = Built(k, h), ~released'[k][h]
        PROVE  k \in Building(h)'
    <3>1. CASE k = t
      BY <2>5, <2>7, <2>8, <3>1, BuiltInjective
    <3>2. CASE k # t
      <4>1. k \in Building(h)
        BY <2>1, <2>6, <2>8, <3>2 DEF PlaceholdersAreBuilt
      <4> QED
        BY <2>3, <2>5, <4>1 DEF Building
    <3> QED
      BY <3>1, <3>2
  <2> QED
    BY <2>8 DEF PlaceholdersAreBuilt
<1>4. ASSUME NEW g \in Goroutine, BuildEnd(g)
      PROVE  PlaceholdersAreBuilt'
  <2>1. Top(g) \in Key
    BY <1>4, StackFacts DEF BuildEnd, IInv, PhasesOK, PhaseOK, InBuild
  <2> QED
    BY <1>1, <1>4, <2>1 DEF BuildEnd, PanicFree, shared
<1>5. ASSUME NEW g \in Goroutine, Publish(g)
      PROVE  PlaceholdersAreBuilt'
  <2>1. /\ Top(g) \in Key /\ known[Top(g)] = Deferred(Top(g), g)
        /\ known' = [known EXCEPT ![Top(g)] = Built(Top(g), g)]
        /\ UNCHANGED <<released, stack>>
    BY <1>5, TopEntry DEF Publish, InBuild, Published
  <2>2. \A k \in Key : Final(known'[k]) = Final(known[k])
    BY <2>1, CodecFacts DEF IInv, TypeOK
  <2> QED
    BY <2>1, <2>2, PlaceholdersKept DEF Building
<1>6. ASSUME NEW g \in Goroutine, Release(g)
      PROVE  PlaceholdersAreBuilt'
  <2> DEFINE t == Top(g)
  <2>1. /\ UNCHANGED known
        /\ released' = [released EXCEPT ![t][g] = TRUE]
        /\ stack' = [stack EXCEPT ![g] = Pop(g)]
    BY <1>6 DEF Release, Deliver
  <2>2. stack[g] # <<>> /\ t \in Key
    BY <1>6, TopEntry DEF Release, InBuild, Published
  <2>3. /\ \A k \in Key, h \in Goroutine :
             <<k, h>> # <<t, g>> => released'[k][h] = released[k][h]
        /\ released'[t][g]
    BY <2>1, <2>2 DEF IInv, TypeOK
  <2>4. stack'[g] = Pop(g) /\ \A h \in Goroutine \ {g} : stack'[h] = stack[h]
    BY <2>1 DEF IInv, TypeOK
  <2>5. /\ Len(stack[g]) \in Nat /\ DOMAIN stack[g] = 1..Len(stack[g])
        /\ Pop(g) \in Seq(Key) /\ Len(Pop(g)) = Len(stack[g]) - 1
        /\ \A i \in 1..(Len(stack[g]) - 1) : Pop(g)[i] = stack[g][i]
        /\ stack[g][Len(stack[g])] = t
    BY <2>2, StackFacts DEF IInv, Top
  <2>6. Building(g) \subseteq Building(g)' \cup {t}
    <3>1. DOMAIN Pop(g) = 1..(Len(stack[g]) - 1)
      BY <2>5, LenProperties
    <3>2. ASSUME NEW i \in DOMAIN stack[g], stack[g][i] # t
          PROVE  stack[g][i] \in Building(g)'
      <4>1. i \in 1..(Len(stack[g]) - 1)
        BY <2>5, <3>2
      <4> QED
        BY <2>4, <2>5, <3>1, <4>1 DEF Building
    <3> QED
      BY <3>2 DEF Building
  <2> HIDE DEF t
  <2>7. ASSUME NEW k \in Key, NEW h \in Goroutine,
               Final(known'[k]) = Built(k, h), ~released'[k][h]
        PROVE  k \in Building(h)'
    <3>1. k \in Building(h) /\ <<k, h>> # <<t, g>>
      BY <2>1, <2>3, <2>7 DEF PlaceholdersAreBuilt
    <3>2. CASE h = g
      BY <2>6, <3>1, <3>2
    <3>3. CASE h # g
      BY <2>4, <3>1, <3>3 DEF Building
    <3> QED
      BY <3>2, <3>3
  <2> QED
    BY <2>7 DEF PlaceholdersAreBuilt
<1>7. ASSUME NEW g \in Goroutine, Wake(g) \/ Return(g)
      PROVE  PlaceholdersAreBuilt'
  <2>1. stack[g] = <<>>
    BY <1>7, CalledCodec DEF Wake, Return
  <2>2. UNCHANGED <<known, released>>
    BY <1>7 DEF Wake, Return, shared
  <2>3. UNCHANGED stack \/ stack' = [stack EXCEPT ![g] = <<>>]
    BY <1>7 DEF Wake, Return, Finish
  <2>4. stack \in [Goroutine -> Seq(Key)]
    BY DEF IInv, TypeOK
  <2>5. UNCHANGED stack
    BY <2>1, <2>3, <2>4
  <2> QED
    BY <1>1, <2>2, <2>5
<1>8. ASSUME NEW g \in Goroutine, NEW t \in Plain, NEW c \in Custom,
             RegisterCodec(g, t, c)
      PROVE  PlaceholdersAreBuilt'
  <2>1. t \in Key /\ UNCHANGED <<released, stack>>
    BY <1>8, RegistryAssumption DEF RegisterCodec
  <2>2. CASE UNCHANGED known
    BY <1>1, <2>1, <2>2
  <2>3. CASE known' = [known EXCEPT ![t] = Registered(t, c)]
    <3>1. /\ known'[t] = Registered(t, c)
          /\ \A k \in Key \ {t} : known'[k] = known[k]
      BY <2>1, <2>3 DEF IInv, TypeOK
    <3>2. \A h \in Goroutine : Final(known'[t]) # Built(t, h)
      BY <2>1, <3>1, CodecFacts
    <3> QED
      BY <2>1, <3>1, <3>2 DEF PlaceholdersAreBuilt, Building
  <2> QED
    BY <1>8, <2>2, <2>3 DEF RegisterCodec
<1>9. ASSUME NEW g \in Goroutine,
             \/ BuildLookup(g) \/ PublishBase(g) \/ Resolve(g) \/ CallDeferred(g)
             \/ CallElem(g) \/ CallBack(g)
             \/ \E k \in Plain : EncodeValue(g, k) \/ DecodeValue(g, k)
      PROVE  UNCHANGED <<known, released, stack>>
  BY <1>9 DEF BuildLookup, PublishBase, Resolve, CallDeferred, CallElem, CallBack,
       EncodeValue, DecodeValue, shared
<1> QED
  BY <1>1, <1>2, <1>3, <1>4, <1>5, <1>6, <1>7, <1>8, <1>9 DEF Next, Step, vars, shared

(* A placeholder that is not resolved is on the stack of the goroutine that *)
(* stored it, as long as no build panics: getNewCodec always reaches the    *)
(* call of resolve.                                                         *)
THEOREM PlaceholdersUnderConstruction ==
  ASSUME PanicFree
  PROVE  Spec => []PlaceholdersAreBuilt
<1>1. Init => PlaceholdersAreBuilt
  <2> SUFFICES ASSUME Init, NEW k \in Key, NEW g \in Goroutine
               PROVE  Final(known[k]) # Built(k, g)
    BY DEF PlaceholdersAreBuilt
  <2>1. Final(known[k]) = NoCodec
    BY CodecFacts DEF Init
  <2> QED
    BY <2>1, CodecFacts
<1>2. IInv /\ PlaceholdersAreBuilt /\ [Next]_vars => PlaceholdersAreBuilt'
  BY PlaceholdersInv
<1> QED
  BY Invariant, <1>1, <1>2, PTL DEF Spec

(* A call blocked in deferredCodec.Encode or Decode waits for a goroutine   *)
(* that is building, which itself never waits.                              *)
THEOREM NobodyWaitsInACircle ==
  ASSUME PanicFree
  PROVE  Spec => []NoCircularWait
<1>1. IInv /\ PlaceholdersAreBuilt => NoCircularWait
  <2> SUFFICES ASSUME IInv, PlaceholdersAreBuilt, NEW g \in Goroutine,
                      phase[g] = "wait", ~released[codec[g].key][codec[g].by]
               PROVE  phase[codec[g].by] \notin {"idle", "call", "wait"}
    BY DEF NoCircularWait
  <2> DEFINE c == codec[g]
  <2>1. c \in Codec /\ c # NoCodec /\ c.key \in Key /\ c.by \in Goroutine
        /\ c.kind = "deferred"
    BY CalledCodec
  <2>2. Final(c) = Built(c.key, c.by)
    BY <2>1 DEF Final
  <2>3. Final(known[c.key]) = Built(c.key, c.by)
    BY <2>1, <2>2 DEF IInv, CodecsOK
  <2>4. c.key \in Building(c.by)
    BY <2>1, <2>3 DEF PlaceholdersAreBuilt
  <2>5. DOMAIN <<>> = {}
    OBVIOUS
  <2>6. stack[c.by] # <<>>
    BY <2>4, <2>5 DEF Building
  <2> QED
    BY <2>1, <2>6 DEF IInv, PhasesOK, PhaseOK
<1> QED
  BY Invariant, PlaceholdersUnderConstruction, <1>1, PTL

-----------------------------------------------------------------------------
(* Refinement.  What the steps of CodecRegistry do to the binding of keys   *)
(* to codecs and to the codecs in use.                                      *)
LEMMA BindStep ==
  ASSUME TypeOK, NEW k \in Key, NEW c \in Codec, known[k] = NoCodec,
         known' = [known EXCEPT ![k] = c], UNCHANGED codec
  PROVE  Binding!Next
<1> DEFINE b == [j \in Key |-> Final(known[j])]
           u == [g \in Goroutine |-> Final(codec[g])]
<1>1. b[k] = NoCodec
  BY CodecFacts
<1>2. known'[k] = c /\ \A j \in Key \ {k} : known'[j] = known[j]
  BY DEF TypeOK
<1>3. b' = [b EXCEPT ![k] = Final(c)]
  <2>1. \A j \in Key : Final(known'[j]) = IF j = k THEN Final(c) ELSE b[j]
    BY <1>2
  <2>2. b' = [j \in Key |-> IF j = k THEN Final(c) ELSE b[j]]
    BY <2>1
  <2> QED
    BY <2>2
<1>4. u' = u
  OBVIOUS
<1>5. Final(c) \in FinalCodec
  BY CodecFacts
<1>6. Binding!Bind(k, Final(c))
  BY <1>1, <1>3, <1>4 DEF Binding!Bind
<1> QED
  BY <1>5, <1>6 DEF Binding!Next

LEMMA UseStep ==
  ASSUME TypeOK, UNCHANGED known, NEW g \in Goroutine, NEW c \in Codec,
         codec' = [codec EXCEPT ![g] = c], Final(c) = Final(known[c.key])
  PROVE  Binding!Next
<1> DEFINE b == [j \in Key |-> Final(known[j])]
           u == [h \in Goroutine |-> Final(codec[h])]
<1>1. c.key \in Key /\ Final(c) # NoCodec
  BY CodecFacts
<1>2. b[c.key] = Final(c)
  BY <1>1
<1>3. codec'[g] = c /\ \A h \in Goroutine \ {g} : codec'[h] = codec[h]
  BY DEF TypeOK
<1>4. u' = [u EXCEPT ![g] = b[c.key]]
  <2>1. \A h \in Goroutine : Final(codec'[h]) = IF h = g THEN b[c.key] ELSE u[h]
    BY <1>2, <1>3
  <2>2. u' = [h \in Goroutine |-> IF h = g THEN b[c.key] ELSE u[h]]
    BY <2>1
  <2> QED
    BY <2>2, ZenonT(40)
<1>5. b' = b
  OBVIOUS
<1>6. Binding!Use(g, c.key)
  BY <1>1, <1>2, <1>4, <1>5 DEF Binding!Use
<1> QED
  BY <1>1, <1>6 DEF Binding!Next

LEMMA LeaveStep ==
  ASSUME TypeOK, UNCHANGED known, NEW g \in Goroutine, codec' = [codec EXCEPT ![g] = NoCodec]
  PROVE  Binding!Next
<1> DEFINE b == [j \in Key |-> Final(known[j])]
           u == [h \in Goroutine |-> Final(codec[h])]
<1>1. codec'[g] = NoCodec /\ \A h \in Goroutine \ {g} : codec'[h] = codec[h]
  BY DEF TypeOK
<1>2. u' = [u EXCEPT ![g] = NoCodec]
  <2>1. \A h \in Goroutine : Final(codec'[h]) = IF h = g THEN NoCodec ELSE u[h]
    BY <1>1, CodecFacts
  <2>2. u' = [h \in Goroutine |-> IF h = g THEN NoCodec ELSE u[h]]
    BY <2>1
  <2> QED
    BY <2>2
<1>3. b' = b
  OBVIOUS
<1>4. Binding!Leave(g)
  BY <1>2, <1>3 DEF Binding!Leave
<1> QED
  BY <1>4 DEF Binding!Next

LEMMA SilentStep ==
  ASSUME \A k \in Key : Final(known'[k]) = Final(known[k]),
         \A g \in Goroutine : Final(codec'[g]) = Final(codec[g])
  PROVE  UNCHANGED Binding!vars
<1>1. [k \in Key |-> Final(known[k])]' = [k \in Key |-> Final(known[k])]
  OBVIOUS
<1>2. [g \in Goroutine |-> Final(codec[g])]' = [g \in Goroutine |-> Final(codec[g])]
  OBVIOUS
<1> QED
  BY <1>1, <1>2 DEF Binding!vars

LEMMA BindingInit == Init => Binding!Init
<1> SUFFICES ASSUME Init PROVE Binding!Init
  OBVIOUS
<1>1. \A k \in Key : Final(known[k]) = NoCodec
  BY CodecFacts DEF Init
<1>2. \A g \in Goroutine : Final(codec[g]) = NoCodec
  BY CodecFacts DEF Init
<1> QED
  BY <1>1, <1>2 DEF Binding!Init

(* A lookup that returns a codec makes its caller use it, or only records   *)
(* it in the build it was for.                                              *)
LEMMA DeliverBinding ==
  ASSUME IInv, NEW g \in Goroutine, NEW c \in Codec, NEW st, Deliver(g, c, st),
         UNCHANGED known, Final(c) = Final(known[c.key])
  PROVE  [Binding!Next]_(Binding!vars)
<1>1. CASE st = <<>>
  BY <1>1, UseStep DEF Deliver, IInv
<1>2. CASE st # <<>>
  BY <1>2, SilentStep DEF Deliver
<1> QED
  BY <1>1, <1>2

LEMMA FoundBinding ==
  ASSUME IInv, NEW g \in Goroutine, NEW c \in Codec, Found(g, c),
         UNCHANGED known, Final(c) = Final(known[c.key])
  PROVE  [Binding!Next]_(Binding!vars)
<1>1. CASE IsXCodec(c)
  BY <1>1, DeliverBinding DEF Found
<1>2. CASE ~IsXCodec(c)
  BY <1>2, LeaveStep DEF Found, Finish, IInv
<1> QED
  BY <1>1, <1>2

LEMMA BindingNext == IInv /\ [Next]_vars => [Binding!Next]_(Binding!vars)
<1> SUFFICES ASSUME IInv, [Next]_vars
             PROVE  [Binding!Next]_(Binding!vars)
  OBVIOUS
<1> USE DEF IInv
<1>1. ASSUME UNCHANGED <<known, codec>>
      PROVE  UNCHANGED Binding!vars
  BY <1>1, SilentStep
<1>2. ASSUME NEW g \in Goroutine, getBaseCodec(g) \/ getCodec(g) \/ ClaimLost(g)
      PROVE  [Binding!Next]_(Binding!vars)
  <2>1. target[g] \in Key
    BY <1>2 DEF getBaseCodec, getCodec, ClaimLost, TypeOK, PhasesOK, PhaseOK, Looking
  <2>2. ASSUME known[target[g]] # NoCodec, Found(g, known[target[g]]), UNCHANGED known
        PROVE  [Binding!Next]_(Binding!vars)
    <3>1. known[target[g]] \in Codec /\ known[target[g]].key = target[g]
      BY <2>1, <2>2 DEF KeysOK, TypeOK
    <3> HIDE DEF IInv
    <3> QED
      BY <2>2, <3>1, FoundBinding
  <2>3. ASSUME NEW map, map = known \/ map = base, Load(g, map)
        PROVE  [Binding!Next]_(Binding!vars)
    <3>1. UNCHANGED known
      BY <2>3 DEF Load, shared
    <3>2. CASE map[target[g]] = NoCodec
      BY <1>1, <2>3, <3>1, <3>2 DEF Load
    <3>3. CASE map[target[g]] # NoCodec
      <4>1. map[target[g]] = known[target[g]]
        BY <2>1, <2>3, <3>3 DEF KeysOK
      <4> QED
        BY <2>2, <2>3, <3>1, <3>3, <4>1 DEF Load
    <3> QED
      BY <3>2, <3>3
  <2>4. CASE ClaimLost(g)
    BY <2>2, <2>4 DEF ClaimLost, Stores, shared
  <2> QED
    BY <1>2, <2>3, <2>4 DEF getBaseCodec, getCodec
<1>3. ASSUME NEW g \in Goroutine, ClaimWon(g)
      PROVE  Binding!Next
  <2>1. target[g] \in Key
    BY <1>3 DEF ClaimWon, TypeOK, PhasesOK, PhaseOK, Looking
  <2>2. Deferred(target[g], g) \in Codec
    BY <2>1, CodecFacts
  <2> QED
    BY <1>3, <2>1, <2>2, BindStep DEF ClaimWon, Stores
<1>4. ASSUME NEW g \in Goroutine, BuildEnd(g) \/ Return(g)
      PROVE  [Binding!Next]_(Binding!vars)
  BY <1>1, <1>4, LeaveStep DEF BuildEnd, Return, Finish, shared
<1>5. ASSUME NEW g \in Goroutine, Publish(g)
      PROVE  UNCHANGED Binding!vars
  <2>1. /\ Top(g) \in Key /\ known[Top(g)] = Deferred(Top(g), g)
        /\ known' = [known EXCEPT ![Top(g)] = Built(Top(g), g)]
        /\ UNCHANGED codec
    BY <1>5, TopEntry DEF Publish, InBuild, Published
  <2>2. \A k \in Key : Final(known'[k]) = Final(known[k])
    BY <2>1, CodecFacts DEF TypeOK
  <2> QED
    BY <2>1, <2>2, SilentStep
<1>6. ASSUME NEW g \in Goroutine, Release(g)
      PROVE  [Binding!Next]_(Binding!vars)
  <2>1. /\ Top(g) \in Key /\ known[Top(g)] = Built(Top(g), g)
        /\ Deliver(g, Built(Top(g), g), Pop(g)) /\ UNCHANGED known
    BY <1>6, TopEntry DEF Release, InBuild, Published
  <2>2. Built(Top(g), g) \in Codec /\ Built(Top(g), g).key = Top(g)
    BY <2>1, CodecFacts
  <2> QED
    BY <2>1, <2>2, DeliverBinding
<1>7. ASSUME NEW g \in Goroutine, CallDeferred(g) \/ Wake(g)
      PROVE  [Binding!Next]_(Binding!vars)
  <2> DEFINE c == codec[g]
  <2>1. phase[g] \in {"call", "wait"} /\ c.kind = "deferred" /\ UNCHANGED known
    BY <1>7, CalledCodec DEF CallDeferred, Wake, shared
  <2>2. c \in Codec /\ c.key \in Key /\ c.by \in Goroutine
    BY <2>1, CalledCodec
  <2>3. CASE codec' = [codec EXCEPT ![g] = real[c.key][c.by]] /\ real[c.key][c.by] # NoCodec
    <3>1. codec' = [codec EXCEPT ![g] = Built(c.key, c.by)]
      BY <2>2, <2>3 DEF KeysOK
    <3>2. Final(Built(c.key, c.by)) = Final(c)
      BY <2>1, <2>2, CodecFacts
    <3>3. \A h \in Goroutine : Final(codec'[h]) = Final(codec[h])
      BY <3>1, <3>2 DEF TypeOK
    <3> QED
      BY <2>1, <3>3, SilentStep
  <2>4. CASE codec' = [codec EXCEPT ![g] = NoCodec]
    BY <2>1, <2>4, LeaveStep
  <2>5. CASE UNCHANGED codec
    BY <1>1, <2>1, <2>5
  <2> QED
    BY <1>7, <2>3, <2>4, <2>5 DEF CallDeferred, Wake, Finish
<1>8. ASSUME NEW g \in Goroutine, CallElem(g)
      PROVE  Binding!Next
  <2> DEFINE c == codec[g]
  <2>1. phase[g] = "call" /\ c.kind = "built" /\ UNCHANGED known
    BY <1>8 DEF CallElem, shared
  <2>2. c.key \in Key /\ c.by \in Goroutine
    BY <2>1, CalledCodec
  <2>3. PICK i \in DOMAIN Elems(c) : codec' = [codec EXCEPT ![g] = Elems(c)[i]]
    BY <1>8 DEF CallElem
  <2>4. DOMAIN <<>> = {}
    OBVIOUS
  <2>5. i \in DOMAIN elems[c.key][c.by] /\ Elems(c)[i] = elems[c.key][c.by][i]
    BY <2>3, <2>4 DEF Elems
  <2> DEFINE d == elems[c.key][c.by][i]
  <2>6. d \in Codec
    BY <2>2, <2>5, ElemFacts
  <2>7. PartsOK(c.key, c.by)
    BY <2>2 DEF ElemsOK
  <2>8. Final(d) = Final(known[d.key])
    BY <2>5, <2>7 DEF PartsOK
  <2>9. codec' = [codec EXCEPT ![g] = d]
    BY <2>3, <2>5
  <2> QED
    BY <2>1, <2>6, <2>8, <2>9, UseStep
<1>9. ASSUME NEW g \in Goroutine, CallBack(g)
      PROVE  Binding!Next
  BY <1>9, LeaveStep DEF CallBack, shared
<1>10. ASSUME NEW g \in Goroutine, NEW k \in Plain, NEW c \in Custom,
              RegisterCodec(g, k, c)
       PROVE  [Binding!Next]_(Binding!vars)
  <2>1. k \in Key /\ Registered(k, c) \in Codec
    BY RegistryAssumption, CodecFacts
  <2>2. CASE known[k] = NoCodec /\ known' = [known EXCEPT ![k] = Registered(k, c)]
    BY <1>10, <2>1, <2>2, BindStep DEF RegisterCodec, Stores
  <2>3. CASE UNCHANGED known
    BY <1>1, <1>10, <2>3 DEF RegisterCodec
  <2> QED
    BY <1>10, <2>2, <2>3 DEF RegisterCodec, Stores
<1>11. ASSUME NEW g \in Goroutine,
              \/ BuildLookup(g) \/ PublishBase(g) \/ Resolve(g)
              \/ \E k \in Plain : EncodeValue(g, k) \/ DecodeValue(g, k)
       PROVE  UNCHANGED <<known, codec>>
  BY <1>11 DEF BuildLookup, PublishBase, Resolve, EncodeValue, DecodeValue, shared
<1> QED
  BY <1>1, <1>2, <1>3, <1>4, <1>5, <1>6, <1>7, <1>8, <1>9, <1>10, <1>11
  DEF Next, Step, vars, shared

(* The registry implements CodecBinding: the LoadOrStore of getNewCodec or  *)
(* RegisterCodecReflect binds a key once and for all, and every Encode and  *)
(* Decode uses the codec its key is bound to.                               *)
THEOREM RegistryImplementsBinding == Spec => BindingSpec
<1> QED
  BY Invariant, BindingInit, BindingNext, PTL DEF Spec, BindingSpec, Binding!Spec
=============================================================================
