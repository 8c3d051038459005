---------------------------- MODULE CodecBinding ----------------------------
(***************************************************************************)
(* What a Coder promises about its codecs, without saying how: every key   *)
(* (a Go type with its struct tag) is bound to a codec at most once, the   *)
(* binding never changes, and whoever uses a codec for a key uses the one  *)
(* the key is bound to.  CodecRegistry implements this specification with  *)
(* two concurrent maps, placeholder codecs and no lock.                    *)
(***************************************************************************)
CONSTANTS
  Key,        \* the codec keys
  Goroutine,  \* the users of the coder
  Codec,      \* the codecs a key may be bound to
  Unbound     \* no codec

VARIABLES
  binding,    \* binding[k]: the codec k is bound to, or Unbound
  inUse       \* inUse[g]: the codec g is encoding or decoding with, or Unbound

vars == <<binding, inUse>>

Init ==
  /\ binding = [k \in Key |-> Unbound]
  /\ inUse = [g \in Goroutine |-> Unbound]

(* A key without a codec gets one, once and for all. *)
Bind(k, c) ==
  /\ binding[k] = Unbound
  /\ binding' = [binding EXCEPT ![k] = c]
  /\ UNCHANGED inUse

(* A goroutine starts to use the codec of a key. *)
Use(g, k) ==
  /\ binding[k] # Unbound
  /\ inUse' = [inUse EXCEPT ![g] = binding[k]]
  /\ UNCHANGED binding

(* A goroutine is through with the codec it used. *)
Leave(g) ==
  /\ inUse' = [inUse EXCEPT ![g] = Unbound]
  /\ UNCHANGED binding

Next ==
  \/ \E k \in Key, c \in Codec : Bind(k, c)
  \/ \E g \in Goroutine, k \in Key : Use(g, k)
  \/ \E g \in Goroutine : Leave(g)

Spec == Init /\ [][Next]_vars
=============================================================================
