--------------------------- MODULE CodecRegistry ---------------------------
(***************************************************************************)
(* The codec registry of a Coder (internal/coder/coder.go) and the         *)
(* placeholder codecs that tie it together (codec_special.go), used by     *)
(* several goroutines at once.                                             *)
(*                                                                         *)
(* A goroutine that needs the codec of a key looks it up, and builds it    *)
(* when nobody has.  Building a codec looks up the codecs of the types     *)
(* inside it, so builds nest; a type that contains itself finds the        *)
(* placeholder ("deferred codec") its own build has stored.  No lock is    *)
(* held anywhere: each step below is one access to a sync.Map, an          *)
(* atomic.Value or a sync.WaitGroup.                                       *)
(***************************************************************************)
EXTENDS Naturals, Sequences

CONSTANTS
  Goroutine,    \* the goroutines that share the coder
  Key,          \* the codec keys: a Go type with an encoded struct tag
  NoKey,        \* no codec key
  Plain,        \* the keys whose tag is empty
  Lookups,      \* Lookups[k]: the keys buildCodec(k) looks up, in order
  Outcome,      \* Outcome[k]: how buildCodec(k) ends after those lookups
  Marshaler,    \* the keys of types that marshal themselves, calling back
  Registrable,  \* the plain keys RegisterCodec does not prohibit
  Custom,       \* the codecs users register
  Unsafe,       \* the build: TRUE for the default one, FALSE for `nounsafe`
  MaxDepth      \* bound: how deep the values passed to Encode are nested

ASSUME RegistryAssumption ==
  /\ NoKey \notin Key
  /\ Plain \subseteq Key
  /\ Registrable \subseteq Plain
  /\ Marshaler \subseteq Key
  /\ Lookups \in [Key -> Seq(Key)]
  /\ Outcome \in [Key -> {"codec", "errorCodec", "panic"}]
  /\ Unsafe \in BOOLEAN
  /\ MaxDepth \in Nat

VARIABLES
  known,    \* Coder.knownCodecs
  base,     \* Coder.knownBaseCodecs
  real,     \* real[k][g]: deferredCodec.real of the placeholder g made for k
  released, \* released[k][g]: that placeholder's wait group is down to zero
  elems,    \* elems[k][g]: the codecs g's build of k has looked up so far
  stack,    \* stack[g]: the keys whose build is on g's call stack
  phase,    \* phase[g]: the step g takes next
  target,   \* target[g]: the key g is looking up, or NoKey
  codec,    \* codec[g]: the codec g calls
  depth,    \* depth[g]: how many more levels of calls g's value can hold
  result    \* result[g]: how g's last operation on the coder ended

shared == <<known, base, real, released>>
vars == <<shared, elems, stack, phase, target, codec, depth, result>>

-----------------------------------------------------------------------------
(* The codecs.  A placeholder and the codec that replaces it carry the key  *)
(* and the goroutine that builds it; a registered codec carries its key.    *)

NoCodec == [kind |-> "none"]
Deferred(k, g) == [kind |-> "deferred", key |-> k, by |-> g]
Built(k, g) == [kind |-> "built", key |-> k, by |-> g]
Registered(k, c) == [kind |-> "custom", key |-> k, by |-> c]

FinalCodec ==
  {Built(k, g) : k \in Key, g \in Goroutine}
    \cup {Registered(k, c) : k \in Key, c \in Custom}
Codec == FinalCodec \cup {Deferred(k, g) : k \in Key, g \in Goroutine}

(* The type assertion c.(xCodec): the unsafe build's xCodec has unexported  *)
(* methods, which RegisterCodecReflect stores a user's codec without.       *)
IsXCodec(c) == Unsafe => c.kind # "custom"

(* The codecs a built codec calls.  An errorCodec calls none.               *)
Elems(c) == IF Outcome[c.key] = "codec" THEN elems[c.key][c.by] ELSE <<>>

Top(g) == stack[g][Len(stack[g])]
Pop(g) == SubSeq(stack[g], 1, Len(stack[g]) - 1)

-----------------------------------------------------------------------------
Phases == {"idle", "loadBase", "load", "claim", "build", "publish",
           "publishBase", "resolve", "release", "call", "wait"}
Results == {"none", "ok", "build panic", "assertion panic", "nil codec",
            "prohibited", "already registered"}
Depths == 0..MaxDepth

TypeOK ==
  /\ known \in [Key -> Codec \cup {NoCodec}]
  /\ base \in [Key -> Codec \cup {NoCodec}]
  /\ real \in [Key -> [Goroutine -> Codec \cup {NoCodec}]]
  /\ released \in [Key -> [Goroutine -> BOOLEAN]]
  /\ elems \in [Key -> [Goroutine -> Seq(Codec)]]
  /\ stack \in [Goroutine -> Seq(Key)]
  /\ phase \in [Goroutine -> Phases]
  /\ target \in [Goroutine -> Key \cup {NoKey}]
  /\ codec \in [Goroutine -> Codec \cup {NoCodec}]
  /\ depth \in [Goroutine -> Depths]
  /\ result \in [Goroutine -> Results]

Init ==
  /\ known = [k \in Key |-> NoCodec]
  /\ base = [k \in Key |-> NoCodec]
  /\ real = [k \in Key |-> [g \in Goroutine |-> NoCodec]]
  /\ released = [k \in Key |-> [g \in Goroutine |-> FALSE]]
  /\ elems = [k \in Key |-> [g \in Goroutine |-> <<>>]]
  /\ stack = [g \in Goroutine |-> <<>>]
  /\ phase = [g \in Goroutine |-> "idle"]
  /\ target = [g \in Goroutine |-> NoKey]
  /\ codec = [g \in Goroutine |-> NoCodec]
  /\ depth = [g \in Goroutine |-> 0]
  /\ result = [g \in Goroutine |-> "none"]

-----------------------------------------------------------------------------
(* The end of an operation: a panic unwinds every build on the stack, and   *)
(* leaves the placeholders those builds have stored where they are.         *)
Finish(g, r) ==
  /\ stack' = [stack EXCEPT ![g] = <<>>]
  /\ phase' = [phase EXCEPT ![g] = "idle"]
  /\ target' = [target EXCEPT ![g] = NoKey]
  /\ codec' = [codec EXCEPT ![g] = NoCodec]
  /\ depth' = [depth EXCEPT ![g] = 0]
  /\ result' = [result EXCEPT ![g] = r]

(* A lookup returns c: to the build on top of st, or, when g is not         *)
(* building anything, to the Encode or Decode that asked for it.            *)
Deliver(g, c, st) ==
  /\ stack' = [stack EXCEPT ![g] = st]
  /\ IF st = <<>>
     THEN /\ phase' = [phase EXCEPT ![g] = "call"]
          /\ codec' = [codec EXCEPT ![g] = c]
          /\ UNCHANGED elems
     ELSE /\ phase' = [phase EXCEPT ![g] = "build"]
          /\ elems' = [elems EXCEPT ![st[Len(st)]][g] = Append(@, c)]
          /\ UNCHANGED codec
  /\ target' = [target EXCEPT ![g] = NoKey]
  /\ UNCHANGED <<depth, result>>

(* A lookup has found c in one of the maps.                                 *)
Found(g, c) ==
  IF IsXCodec(c)
  THEN Deliver(g, c, stack[g])
  ELSE /\ Finish(g, "assertion panic")
       /\ UNCHANGED elems

(* An Encode or Decode of a value of type k begins.  The encoder looks in   *)
(* the base map, the decoder in the map of all codecs.                      *)
EncodeValue(g, k) ==
  /\ phase[g] = "idle"
  /\ phase' = [phase EXCEPT ![g] = "loadBase"]
  /\ target' = [target EXCEPT ![g] = k]
  /\ depth' = [depth EXCEPT ![g] = MaxDepth]
  /\ UNCHANGED <<shared, elems, stack, codec, result>>

DecodeValue(g, k) ==
  /\ phase[g] = "idle"
  /\ phase' = [phase EXCEPT ![g] = "load"]
  /\ target' = [target EXCEPT ![g] = k]
  /\ depth' = [depth EXCEPT ![g] = MaxDepth]
  /\ UNCHANGED <<shared, elems, stack, codec, result>>

(* getBaseCodec and getCodec: load from the map, and go on to getNewCodec   *)
(* when the key is not there.                                               *)
Load(g, map) ==
  /\ IF map[target[g]] # NoCodec
     THEN Found(g, map[target[g]])
     ELSE /\ phase' = [phase EXCEPT ![g] = "claim"]
          /\ UNCHANGED <<elems, stack, target, codec, depth, result>>
  /\ UNCHANGED shared

getBaseCodec(g) == phase[g] = "loadBase" /\ Load(g, base)
getCodecIgnoringMiss(g) ==             \* a mutant of getCodec
  phase[g] = "load" /\ Found(g, known[target[g]]) /\ UNCHANGED shared
getCodec(g) == phase[g] = "load" /\ Load(g, known)

(* getNewCodec: one LoadOrStore decides who builds the codec.               *)
StoreAlways(k) == TRUE                 \* a mutant of Stores
Stores(k) == known[k] = NoCodec

ClaimLost(g) ==
  /\ phase[g] = "claim"
  /\ ~Stores(target[g])
  /\ Found(g, known[target[g]])
  /\ UNCHANGED shared

ClaimWon(g) ==
  /\ phase[g] = "claim"
  /\ Stores(target[g])
  /\ known' = [known EXCEPT ![target[g]] = Deferred(target[g], g)]
  /\ stack' = [stack EXCEPT ![g] = Append(@, target[g])]
  /\ elems' = [elems EXCEPT ![target[g]][g] = <<>>]
  /\ phase' = [phase EXCEPT ![g] = "build"]
  /\ target' = [target EXCEPT ![g] = NoKey]
  /\ UNCHANGED <<base, real, released, codec, depth, result>>

(* buildCodec: look up the codec of the next type inside the one on top of  *)
(* the stack, or end the build.                                             *)
BuildLookup(g) ==
  LET k == Top(g)
      n == Len(elems[k][g])
  IN  /\ phase[g] = "build"
      /\ n < Len(Lookups[k])
      /\ target' = [target EXCEPT ![g] = Lookups[k][n + 1]]
      /\ phase' = [phase EXCEPT ![g] = "load"]
      /\ UNCHANGED <<shared, elems, stack, codec, depth, result>>

BuildEnd(g) ==
  LET k == Top(g)
  IN  /\ phase[g] = "build"
      /\ Len(elems[k][g]) = Len(Lookups[k])
      /\ IF Outcome[k] = "panic"
         THEN Finish(g, "build panic")
         ELSE /\ phase' = [phase EXCEPT ![g] = "publish"]
              /\ UNCHANGED <<stack, target, codec, depth, result>>
      /\ UNCHANGED <<shared, elems>>

(* The rest of getNewCodec: the finished codec replaces the placeholder in  *)
(* the map, then goes to the base map when the tag is empty, ...            *)
PublishNothing(g) ==                   \* a mutant of Publish
  /\ phase[g] = "publish"
  /\ phase' = [phase EXCEPT ![g] = IF Top(g) \in Plain THEN "publishBase"
                                                       ELSE "resolve"]
  /\ UNCHANGED <<shared, elems, stack, target, codec, depth, result>>
Publish(g) ==
  /\ phase[g] = "publish"
  /\ known' = [known EXCEPT ![Top(g)] = Built(Top(g), g)]
  /\ phase' = [phase EXCEPT ![g] = IF Top(g) \in Plain THEN "publishBase"
                                                       ELSE "resolve"]
  /\ UNCHANGED <<base, real, released, elems, stack, target, codec, depth, result>>

PublishBase(g) ==
  /\ phase[g] = "publishBase"
  /\ base' = [base EXCEPT ![Top(g)] = Built(Top(g), g)]
  /\ phase' = [phase EXCEPT ![g] = "resolve"]
  /\ UNCHANGED <<known, real, released, elems, stack, target, codec, depth, result>>

(* ... and deferredCodec.resolve hands it to those who hold the placeholder *)
(* and then wakes those who wait for it; getNewCodec returns.               *)
ResolveToNil(g) ==                     \* a mutant of Resolve
  /\ phase[g] = "resolve"
  /\ phase' = [phase EXCEPT ![g] = "release"]
  /\ UNCHANGED <<shared, elems, stack, target, codec, depth, result>>
Resolve(g) ==
  /\ phase[g] = "resolve"
  /\ real' = [real EXCEPT ![Top(g)][g] = Built(Top(g), g)]
  /\ phase' = [phase EXCEPT ![g] = "release"]
  /\ UNCHANGED <<known, base, released, elems, stack, target, codec, depth, result>>

ReleaseNobody(g) ==                    \* a mutant of Release
  /\ phase[g] = "release"
  /\ Deliver(g, Built(Top(g), g), Pop(g))
  /\ UNCHANGED shared
Release(g) ==
  /\ phase[g] = "release"
  /\ released' = [released EXCEPT ![Top(g)][g] = TRUE]
  /\ Deliver(g, Built(Top(g), g), Pop(g))
  /\ UNCHANGED <<known, base, real>>

-----------------------------------------------------------------------------
(* Calls.  A call to a placeholder loads the real codec, and waits for the  *)
(* wait group first when there is none yet.                                 *)
CallDeferred(g) ==
  LET c == codec[g]
  IN  /\ phase[g] = "call"
      /\ c.kind = "deferred"
      /\ IF real[c.key][c.by] # NoCodec
         THEN /\ codec' = [codec EXCEPT ![g] = real[c.key][c.by]]
              /\ UNCHANGED phase
         ELSE /\ phase' = [phase EXCEPT ![g] = "wait"]
              /\ UNCHANGED codec
      /\ UNCHANGED <<shared, elems, stack, target, depth, result>>

Wake(g) ==
  LET c == codec[g]
  IN  /\ phase[g] = "wait"
      /\ released[c.key][c.by]
      /\ IF real[c.key][c.by] # NoCodec
         THEN /\ codec' = [codec EXCEPT ![g] = real[c.key][c.by]]
              /\ phase' = [phase EXCEPT ![g] = "call"]
              /\ UNCHANGED <<stack, target, depth, result>>
         ELSE Finish(g, "nil codec")
      /\ UNCHANGED <<shared, elems>>

(* A built codec calls the codec of a type inside it, as long as the value  *)
(* is nested that deep; a path of such calls stands for the whole           *)
(* traversal of the value.                                                  *)
CallElem(g) ==
  /\ phase[g] = "call"
  /\ codec[g].kind = "built"
  /\ depth[g] > 0
  /\ \E i \in DOMAIN Elems(codec[g]) :
       codec' = [codec EXCEPT ![g] = Elems(codec[g])[i]]
  /\ depth' = [depth EXCEPT ![g] = @ - 1]
  /\ UNCHANGED <<shared, elems, stack, phase, target, result>>

(* A MarshalXDR method, or a registered codec, calls Encode for a value of  *)
(* some other type on the encoder it was given.                             *)
CallBack(g) ==
  /\ phase[g] = "call"
  /\ \/ codec[g].kind = "built" /\ codec[g].key \in Marshaler
     \/ codec[g].kind = "custom"
  /\ depth[g] > 0
  /\ \E k \in Plain : target' = [target EXCEPT ![g] = k]
  /\ phase' = [phase EXCEPT ![g] = "loadBase"]
  /\ codec' = [codec EXCEPT ![g] = NoCodec]
  /\ depth' = [depth EXCEPT ![g] = @ - 1]
  /\ UNCHANGED <<shared, elems, stack, result>>

(* The call is through and the operation returns.                           *)
Return(g) ==
  /\ phase[g] = "call"
  /\ codec[g].kind # "deferred"
  /\ Finish(g, "ok")
  /\ UNCHANGED <<shared, elems>>

-----------------------------------------------------------------------------
(* RegisterCodecReflect: one LoadOrStore, and a panic when the type may not *)
(* have a codec of the user's or already has another codec.                 *)
RegisterCodec(g, k, c) ==
  LET free == Stores(k)
      permitted == k \in Registrable
      verdict == CASE ~permitted -> "prohibited"
                   [] permitted /\ free -> "ok"
                   [] permitted /\ ~free /\ ~IsXCodec(known[k]) -> "assertion panic"
                   [] permitted /\ ~free /\ IsXCodec(known[k])
                        /\ known[k] = Registered(k, c) -> "ok"
                   [] OTHER -> "already registered"
  IN  /\ phase[g] = "idle"
      /\ known' = IF permitted /\ free
                  THEN [known EXCEPT ![k] = Registered(k, c)] ELSE known
      /\ result' = [result EXCEPT ![g] = verdict]
      /\ UNCHANGED <<base, real, released, elems, stack, phase, target, codec, depth>>

-----------------------------------------------------------------------------
(* What g does on its own once an operation has begun.                      *)
Step(g) ==
  \/ getBaseCodec(g) \/ getCodec(g) \/ ClaimLost(g) \/ ClaimWon(g)
  \/ BuildLookup(g) \/ BuildEnd(g)
  \/ Publish(g) \/ PublishBase(g) \/ Resolve(g) \/ Release(g)
  \/ CallDeferred(g) \/ Wake(g) \/ CallElem(g) \/ CallBack(g) \/ Return(g)

Next ==
  \E g \in Goroutine :
    \/ Step(g)
    \/ \E k \in Plain : EncodeValue(g, k)
    \/ \E k \in Plain : DecodeValue(g, k)
    \/ \E k \in Plain, c \in Custom : RegisterCodec(g, k, c)

Spec == Init /\ [][Next]_vars

(* The Go scheduler runs every goroutine that is not blocked; whether a     *)
(* goroutine begins another operation is up to the program.                 *)
FairSpec == Spec /\ \A g \in Goroutine : WF_vars(Step(g))
-----------------------------------------------------------------------------
(* The codec a codec stands for: what its placeholder will be replaced by.  *)
Final(c) == IF c.kind = "deferred" THEN Built(c.key, c.by) ELSE c

Building(g) == {stack[g][i] : i \in DOMAIN stack[g]}

(* Whoever holds a codec for a key, to call it or inside another codec,     *)
(* holds the one the coder has settled on for that key: losing the race of  *)
(* getNewCodec, or finding a placeholder, never yields a second codec.      *)
OneCodecPerKey ==
  /\ \A g \in Goroutine :
       codec[g] # NoCodec => Final(codec[g]) = Final(known[codec[g].key])
  /\ \A k \in Key, g \in Goroutine : \A i \in DOMAIN elems[k][g] :
       /\ elems[k][g][i].key = Lookups[k][i]
       /\ Final(elems[k][g][i]) = Final(known[Lookups[k][i]])

(* The base map and the placeholders never lead anywhere but to the codec   *)
(* the map of all codecs holds: the two maps are written one after the      *)
(* other and read without a lock.                                           *)
MapsAgree ==
  /\ \A k \in Key : base[k] # NoCodec => base[k] = known[k]
  /\ \A k \in Key, g \in Goroutine : real[k][g] # NoCodec => real[k][g] = known[k]

(* No two goroutines, and no two calls of one goroutine, build the codec of *)
(* the same key: building a recursive type ends.                            *)
SoleBuilder ==
  /\ \A g, h \in Goroutine : g # h => Building(g) \cap Building(h) = {}
  /\ \A g \in Goroutine : \A i, j \in DOMAIN stack[g] :
       stack[g][i] = stack[g][j] => i = j

(* Registering a codec and building one exclude each other.  Once a codec   *)
(* is registered for a type nobody is building another one, none is left in *)
(* a placeholder or the base map, and nobody holds a placeholder to wait    *)
(* for; so the Store that ends a build, which does not look, cannot         *)
(* overwrite a codec that was registered meanwhile.                         *)
RegistrationExcludesBuild ==
  \A k \in Key : known[k].kind = "custom" =>
    /\ base[k] = NoCodec
    /\ \A g \in Goroutine : k \notin Building(g) /\ real[k][g] = NoCodec
    /\ \A g \in Goroutine :
         codec[g] # NoCodec /\ codec[g].key = k => codec[g] = known[k]
    /\ \A j \in Key, g \in Goroutine : \A i \in DOMAIN elems[j][g] :
         elems[j][g][i].key = k => elems[j][g][i] = known[k]

(* A call that has waited for a placeholder finds the real codec there:     *)
(* resolve stores it before it wakes anybody.                               *)
NoNilCodec == \A g \in Goroutine : result[g] # "nil codec"

(* No build can panic, and no lookup can find a codec the build of the      *)
(* program cannot use.                                                      *)
PanicFree ==
  /\ \A k \in Key : Outcome[k] # "panic"
  /\ Unsafe => Custom = {}

(* A placeholder that is not resolved yet is being built right now.         *)
PlaceholdersAreBuilt ==
  \A k \in Key, g \in Goroutine :
    Final(known[k]) = Built(k, g) /\ ~released[k][g] => k \in Building(g)

(* Whoever waits for a placeholder waits for a goroutine that is building,  *)
(* and a goroutine that builds does not wait: no cycle of types, shared by  *)
(* any number of goroutines, makes them wait for each other.                *)
NoCircularWait ==
  \A g \in Goroutine :
    phase[g] = "wait" /\ ~released[codec[g].key][codec[g].by] =>
      phase[codec[g].by] \notin {"idle", "call", "wait"}

(* Every operation on the coder ends.                                       *)
OperationsEnd ==
  \A g \in Goroutine : phase[g] # "idle" ~> phase[g] = "idle"

(* A union whose switch is of a kind its codec cannot be built for is       *)
(* reported by tag parsing, so that building a codec never panics.          *)
UnionsAreValidated == \A g \in Goroutine : result[g] # "build panic"

(* Codecs that users register can be used.                                  *)
RegisteredCodecsWork == \A g \in Goroutine : result[g] # "assertion panic"

-----------------------------------------------------------------------------
(* The registry implements the binding of keys to codecs: the LoadOrStore   *)
(* that stores a placeholder is what binds the key.                         *)
Binding == INSTANCE CodecBinding WITH
  Codec <- FinalCodec,
  Unbound <- NoCodec,
  binding <- [k \in Key |-> Final(known[k])],
  inUse <- [g \in Goroutine |-> Final(codec[g])]

BindingSpec == Binding!Spec
=============================================================================
