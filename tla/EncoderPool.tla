---------------------------- MODULE EncoderPool ----------------------------
(***************************************************************************)
(* Encoders and the pools they come from: Coder.Marshal, Write and         *)
(* NewEncoder (internal/coder/coder.go), the encoder with its small cache  *)
(* of codecs and the marshalEncoder with its buffer (encoder.go), and the  *)
(* pooled bufio.Writer of Write.  The pools are shared by all coders and   *)
(* all goroutines; whatever an operation leaves behind in a pooled object  *)
(* is there for the next operation that gets it.                           *)
(*                                                                         *)
(* What an encoder writes is a sequence of chunks, each named by the codec *)
(* that writes it and its place in what that codec does.  Body[t] is what  *)
(* encoding a value of type t does, one instruction after the other.       *)
(***************************************************************************)
EXTENDS Naturals, FiniteSets, SequencesExt

CONSTANTS
  Goroutine,       \* the goroutines that use the coders
  Coder,           \* the coders
  Type,            \* the Go types of the values that are encoded
  Body,            \* Body[t]: the instructions encoding a t consists of
  Unbuildable,     \* the types whose codec panics when it is built
  Enc,             \* the encoders that may exist at a time
  MarshalEnc,      \* the marshalEncoders that may exist at a time
  BufWriter,       \* the pooled bufio.Writers that may exist at a time
  Writer,          \* the writers users pass to Write and NewEncoder
  StringWriter,    \* those that are io.StringWriters too
  Buffered,        \* those that are a *bytes.Buffer or a *bufio.Writer
  CacheSize,       \* the number of entries of an encoder's codec cache
  BufSize,         \* how many chunks a bufio.Writer holds
  Nothing,         \* nil
  MaxBegun         \* bound: how many operations are begun

Encoder == Enc \cup MarshalEnc
Sink == MarshalEnc \cup BufWriter \cup Writer
Slots == 0..(CacheSize - 1)

ASSUME PoolAssumption ==
  /\ CacheSize \in Nat \ {0} /\ BufSize \in Nat \ {0} /\ MaxBegun \in Nat
  /\ Unbuildable \subseteq Type
  /\ StringWriter \subseteq Writer /\ Buffered \subseteq StringWriter
  /\ Body \in [Type -> Seq([do : {"write", "string", "encode", "marshal", "fail", "panic"},
                            type : Type \cup {Nothing}])]
  /\ \A t \in Type : \A i \in DOMAIN Body[t] :
       Body[t][i].do \in {"encode", "marshal"} => Body[t][i].type # Nothing
  /\ Enc \cap MarshalEnc = {} /\ MarshalEnc \cap BufWriter = {}
  /\ Writer \cap (MarshalEnc \cup BufWriter) = {}
  /\ Nothing \notin Coder \cup Type \cup Encoder \cup Sink

(* No value contains itself: what encoding a t encodes in turn is smaller.  *)
ASSUME NestingAssumption ==
  /\ IsFiniteSet(Type)
  /\ \E rank \in [Type -> 0..(Cardinality(Type) - 1)] :
       \A t \in Type : \A i \in DOMAIN Body[t] :
         Body[t][i].do = "encode" => rank[Body[t][i].type] < rank[t]

VARIABLES
  encoder,   \* encoder[e]: the fields of encoder e, and where it is
  bufio,     \* bufio[b]: the fields of the bufio.Writer b, and where it is
  data,      \* data[s]: the chunks in a buffer, or that a writer was given
  stack,     \* stack[g]: the operations g is in, the innermost one last
  outcome,   \* the operation that has returned in the last step, if one has
  begun      \* how many operations have begun

vars == <<encoder, bufio, data, stack, outcome, begun>>

-----------------------------------------------------------------------------
codecFor(cr, t) == [coder |-> cr, type |-> t]
NoEntry == [type |-> Nothing, codec |-> Nothing]

(* A new encoder, as the pools' New functions make it.                      *)
NewObject(e) ==
  [place |-> "free", cr |-> Nothing,
   w  |-> IF e \in MarshalEnc THEN e ELSE Nothing,
   ws |-> IF e \in MarshalEnc THEN e ELSE Nothing,
   cache |-> [i \in Slots |-> NoEntry], slot |-> CacheSize - 1]

NewBufio == [place |-> "free", dst |-> Nothing]

(* What a codec has to do, as the work of the operation that calls it.      *)
Work(c) ==
  [i \in DOMAIN Body[c.type] |->
     [do |-> Body[c.type][i].do, type |-> Body[c.type][i].type, chunk |-> <<c, i>>]]
Root(t) == <<[do |-> "encode", type |-> t, chunk |-> Nothing]>>

Frame(op, cr, e, b, dst, t) ==
  [op |-> op, cr |-> cr, enc |-> e, buf |-> b, dst |-> dst, types |-> <<t>>,
   work |-> Root(t), status |-> "run"]

NoOutcome == [op |-> "none", cr |-> Nothing, types |-> <<>>, status |-> "ok", out |-> <<>>]

Init ==
  /\ encoder = [e \in Encoder |-> NewObject(e)]
  /\ bufio = [b \in BufWriter |-> NewBufio]
  /\ data = [s \in Sink |-> <<>>]
  /\ stack = [g \in Goroutine |-> <<>>]
  /\ outcome = NoOutcome
  /\ begun = 0

(* The innermost operation of g, and the next instruction of its codecs.    *)
Top(g) == Last(stack[g])
WithTop(g, f) == [stack EXCEPT ![g] = Append(Front(@), f)]
Busy(g) == stack[g] # <<>>
Running(g) == Busy(g) /\ Top(g).status = "run"
NextItem(g) == Head(Top(g).work)
AtItem(g, kinds) ==
  Running(g) /\ Top(g).work # <<>> /\ NextItem(g).do \in kinds

-----------------------------------------------------------------------------
(* sync.Pool: Get returns an object somebody has put there or a new one,    *)
(* and the garbage collector may empty the pool at any time.                *)
Available(object) == object.place # "held"

DropFromPool ==
  \/ \E e \in Encoder :
       /\ encoder[e].place = "pooled"
       /\ encoder' = [encoder EXCEPT ![e] = NewObject(e)]
       /\ data' = IF e \in MarshalEnc THEN [data EXCEPT ![e] = <<>>] ELSE data
       /\ outcome' = NoOutcome /\ UNCHANGED <<bufio, stack, begun>>
  \/ \E b \in BufWriter :
       /\ bufio[b].place = "pooled"
       /\ bufio' = [bufio EXCEPT ![b] = NewBufio]
       /\ data' = [data EXCEPT ![b] = <<>>]
       /\ outcome' = NoOutcome /\ UNCHANGED <<encoder, stack, begun>>

(* The cache is emptied when the encoder served another coder before.       *)
CacheKept(obj, cr) == obj.cache  \* a mutant of CacheFor
CacheFor(obj, cr) ==
  IF obj.cr # cr THEN [i \in Slots |-> NoEntry] ELSE obj.cache

(* encoder.reset and marshalEncoder.reset.                                  *)
ResetWithStaleWs(obj, cr, w) ==  \* a mutant of ResetEncoder
  [obj EXCEPT !.place = "held", !.cr = cr, !.w = w,
              !.ws = IF w \in StringWriter \cup BufWriter THEN w ELSE @,
              !.cache = CacheFor(obj, cr)]
ResetEncoder(obj, cr, w) ==
  [obj EXCEPT !.place = "held", !.cr = cr, !.w = w,
              !.ws = IF w \in StringWriter \cup BufWriter THEN w ELSE Nothing,
              !.cache = CacheFor(obj, cr)]
ResetMarshalEncoder(obj, cr) ==
  [obj EXCEPT !.place = "held", !.cr = cr, !.cache = CacheFor(obj, cr)]

(* A goroutine calls the coder when it is in no operation, and its          *)
(* MarshalXDR methods may call Marshal in the middle of one.                *)
Call(g, f) ==
  /\ begun < MaxBegun
  /\ begun' = begun + 1
  /\ stack' = [stack EXCEPT ![g] = Append(@, f)]

Marshal(g, cr, t) ==
  /\ Busy(g) => AtItem(g, {"marshal"}) /\ NextItem(g).type = t
  /\ \E e \in MarshalEnc :
       /\ Available(encoder[e])
       /\ encoder' = [encoder EXCEPT ![e] = ResetMarshalEncoder(@, cr)]
       /\ Call(g, Frame("Marshal", cr, e, Nothing, e, t))
  /\ outcome' = NoOutcome /\ UNCHANGED <<bufio, data>>

(* Users do not share a writer between operations.                          *)
InUse(w) == \E g \in Goroutine : \E i \in DOMAIN stack[g] : stack[g][i].dst = w

Write(g, cr, w, t) ==
  /\ ~Busy(g) /\ ~InUse(w)
  /\ \E e \in Enc :
       /\ Available(encoder[e])
       /\ IF w \in Buffered
          THEN /\ encoder' = [encoder EXCEPT ![e] = ResetEncoder(@, cr, w)]
               /\ Call(g, Frame("Write", cr, e, Nothing, w, t))
               /\ data' = [data EXCEPT ![w] = <<>>]
               /\ UNCHANGED bufio
          ELSE \E b \in BufWriter :
               /\ Available(bufio[b])
               /\ bufio' = [bufio EXCEPT ![b] = [place |-> "held", dst |-> w]]
               /\ encoder' = [encoder EXCEPT ![e] = ResetEncoder(@, cr, b)]
               /\ Call(g, Frame("Write", cr, e, b, w, t))
               /\ data' = [data EXCEPT ![w] = <<>>, ![b] = <<>>]
  /\ outcome' = NoOutcome

(* An encoder of the user's own: it encodes any number of values, and is    *)
(* never put back.                                                          *)
NewEncoder(g, cr, w, t) ==
  /\ ~Busy(g) /\ ~InUse(w)
  /\ \E e \in Enc :
       /\ Available(encoder[e])
       /\ encoder' = [encoder EXCEPT ![e] = ResetEncoder(@, cr, w)]
       /\ Call(g, Frame("NewEncoder", cr, e, Nothing, w, t))
  /\ data' = [data EXCEPT ![w] = <<>>]
  /\ outcome' = NoOutcome /\ UNCHANGED bufio

EncodeNext(g, t) ==
  /\ Running(g) /\ Top(g).op = "NewEncoder" /\ Top(g).work = <<>>
  /\ begun < MaxBegun
  /\ begun' = begun + 1
  /\ stack' = WithTop(g, [Top(g) EXCEPT !.types = Append(@, t), !.work = Root(t)])
  /\ outcome' = NoOutcome /\ UNCHANGED <<encoder, bufio, data>>

-----------------------------------------------------------------------------
(* encoder.EncodeValue: the codec of the type comes from the encoder's      *)
(* cache, or from its coder and then replaces the oldest entry.  The entry  *)
(* is there before the codec is called and encodes values of its own.       *)
Cached(obj, t) == {i \in Slots : obj.cache[i].type = t}
NextSlotUnmasked(obj) == obj.slot + 1  \* a mutant of NextSlot
NextSlot(obj) == (obj.slot + 1) % CacheSize

EncodeValue(g) ==
  LET f == Top(g)
      obj == encoder[f.enc]
      t == NextItem(g).type
      next == NextSlot(obj)
      codec == IF Cached(obj, t) # {}
               THEN obj.cache[CHOOSE i \in Cached(obj, t) :
                                \A j \in Cached(obj, t) : i \leq j].codec
               ELSE codecFor(obj.cr, t)
  IN  /\ AtItem(g, {"encode"})
      /\ IF Cached(obj, t) = {} /\ t \in Unbuildable
         THEN /\ stack' = WithTop(g, [f EXCEPT !.status = "panic"])
              /\ UNCHANGED encoder
         ELSE /\ encoder' = IF Cached(obj, t) # {} THEN encoder
                            ELSE [encoder EXCEPT
                                    ![f.enc].slot = next,
                                    ![f.enc].cache[next] = [type |-> t, codec |-> codec]]
              /\ stack' = WithTop(g, [f EXCEPT !.work = Work(codec) \o Tail(@)])
      /\ outcome' = NoOutcome /\ UNCHANGED <<bufio, data, begun>>

(* The writer an encoder writes a chunk to.  Strings go to the encoder's    *)
(* StringWriter when it has one.                                            *)
SinkOf(obj, kind) ==
  IF kind = "string" /\ obj.ws # Nothing THEN obj.ws ELSE obj.w

(* bufio.Writer: chunks are kept until there is no room, or until Flush.    *)
Full(s) == s \in BufWriter /\ Len(data[s]) = BufSize
Flushed(b, n) == data[bufio[b].dst] \o SubSeq(data[b], 1, n)

Accept(s, chunk) ==
  data' = IF Full(s)
          THEN [data EXCEPT ![bufio[s].dst] = Flushed(s, BufSize), ![s] = <<chunk>>]
          ELSE [data EXCEPT ![s] = Append(@, chunk)]

(* The user's writer fails, when it is given the chunk or, by a full        *)
(* bufio.Writer, the chunks before it.                                      *)
Refuse(s) ==
  \/ s \in Writer /\ UNCHANGED data
  \/ /\ Full(s)
     /\ \E n \in 0..BufSize : data' = [data EXCEPT ![bufio[s].dst] = Flushed(s, n)]

EmitChunk(g) ==
  LET f == Top(g)
      s == SinkOf(encoder[f.enc], NextItem(g).do)
  IN  /\ AtItem(g, {"write", "string"})
      /\ \/ Accept(s, NextItem(g).chunk) /\ stack' = WithTop(g, [f EXCEPT !.work = Tail(@)])
         \/ Refuse(s) /\ stack' = WithTop(g, [f EXCEPT !.status = "error"])
      /\ outcome' = NoOutcome /\ UNCHANGED <<encoder, bufio, begun>>

(* A codec, or the user's MarshalXDR, returns an error or panics.           *)
Fail(g) ==
  /\ AtItem(g, {"fail", "panic"})
  /\ stack' = WithTop(g, [Top(g) EXCEPT
                !.status = IF NextItem(g).do = "fail" THEN "error" ELSE "panic"])
  /\ outcome' = NoOutcome /\ UNCHANGED <<encoder, bufio, data, begun>>

-----------------------------------------------------------------------------
(* The operation g is in has encoded its values, or stopped early.          *)
Ended(f) == f.status \in {"error", "panic"} \/ (f.status = "run" /\ f.work = <<>>)
Status(f) == IF f.status \in {"error", "panic"} THEN f.status ELSE "ok"

(* The operation returns to its caller.  A panic goes on in the MarshalXDR  *)
(* method that called Marshal; a result is the method's to use.             *)
ReturnTo(g, f, status, out) ==
  /\ outcome' = [op |-> f.op, cr |-> f.cr, types |-> f.types,
                 status |-> status, out |-> out]
  /\ LET callers == Front(stack[g])
     IN  stack' = [stack EXCEPT ![g] =
           IF callers = <<>> THEN <<>>
           ELSE IF status = "panic"
                THEN Append(Front(callers), [Last(callers) EXCEPT !.status = "panic"])
                ELSE Append(Front(callers), [Last(callers) EXCEPT !.work = Tail(@)])]

(* marshalEncoder.release.                                                  *)
KeepBuffer(e) == data                  \* a mutant of ResetBuffer
ResetBuffer(e) == [data EXCEPT ![e] = <<>>]
PutBackUnlessPanic(f) ==               \* a mutant of PutBack
  IF f.status = "panic" THEN encoder ELSE [encoder EXCEPT ![f.enc].place = "pooled"]
PutBack(f) == [encoder EXCEPT ![f.enc].place = "pooled"]

(* Marshal returns a copy of its buffer, and puts the encoder back however  *)
(* it ends.                                                                 *)
EndMarshal(g) ==
  LET f == Top(g)
  IN  /\ Busy(g) /\ f.op = "Marshal" /\ Ended(f)
      /\ ReturnTo(g, f, Status(f), data[f.enc])
      /\ data' = ResetBuffer(f.enc)
      /\ encoder' = PutBack(f)
      /\ UNCHANGED <<bufio, begun>>

(* Write puts the encoder back first, ...                                   *)
ReleaseEncoder(g) ==
  LET f == Top(g)
  IN  /\ Busy(g) /\ f.op = "Write" /\ Ended(f) /\ f.status # "panic"
      /\ encoder' = [encoder EXCEPT ![f.enc].w = Nothing, ![f.enc].place = "pooled"]
      /\ stack' = WithTop(g, [f EXCEPT !.enc = Nothing,
                                       !.status = IF f.status = "run" THEN "flush"
                                                                      ELSE "failed"])
      /\ outcome' = NoOutcome /\ UNCHANGED <<bufio, data, begun>>

(* ... then flushes its buffer if nothing has gone wrong, and puts it back. *)
(* What the buffer still holds by then is lost.                             *)
ReturnWrite(g, status, n) ==
  LET f == Top(g)
      b == f.buf
      out == IF b = Nothing THEN data[f.dst] ELSE Flushed(b, n)
  IN  /\ ReturnTo(g, f, status, out)
      /\ IF b = Nothing
         THEN UNCHANGED <<data, bufio>>
         ELSE /\ data' = [data EXCEPT ![f.dst] = out, ![b] = <<>>]
              /\ bufio' = [bufio EXCEPT ![b] = [NewBufio EXCEPT !.place = "pooled"]]
      /\ UNCHANGED <<encoder, begun>>

EndWrite(g) ==
  LET f == Top(g)
  IN  /\ Busy(g)
      /\ \/ f.status = "failed" /\ ReturnWrite(g, "error", 0)
         \/ f.status = "flush" /\ f.buf = Nothing /\ ReturnWrite(g, "ok", 0)
         \/ /\ f.status = "flush" /\ f.buf # Nothing
            /\ \/ ReturnWrite(g, "ok", Len(data[f.buf]))
               \/ \E n \in 0..Len(data[f.buf]) : ReturnWrite(g, "error", n)

(* A panic in Write leaves its encoder and its buffer to the garbage        *)
(* collector, and so does a user with an encoder of his own.                *)
Abandon(g) ==
  LET f == Top(g)
  IN  /\ Busy(g) /\ Ended(f)
      /\ f.op = "NewEncoder" \/ (f.op = "Write" /\ f.status = "panic")
      /\ ReturnTo(g, f, Status(f), data[f.dst])
      /\ encoder' = [encoder EXCEPT ![f.enc] = NewObject(f.enc)]
      /\ IF f.buf = Nothing
         THEN UNCHANGED <<data, bufio>>
         ELSE /\ data' = [data EXCEPT ![f.buf] = <<>>]
              /\ bufio' = [bufio EXCEPT ![f.buf] = NewBufio]
      /\ UNCHANGED begun

Step(g) ==
  \/ EncodeValue(g) \/ EmitChunk(g) \/ Fail(g)
  \/ EndMarshal(g) \/ ReleaseEncoder(g) \/ EndWrite(g) \/ Abandon(g)

Next ==
  \/ DropFromPool
  \/ \E g \in Goroutine :
       \/ Step(g)
       \/ \E cr \in Coder, t \in Type : Marshal(g, cr, t)
       \/ \E cr \in Coder, t \in Type, w \in Writer : Write(g, cr, w, t)
       \/ \E cr \in Coder, t \in Type, w \in Writer : NewEncoder(g, cr, w, t)
       \/ \E t \in Type : EncodeNext(g, t)

Spec == Init /\ [][Next]_vars

-----------------------------------------------------------------------------
TypeOK ==
  /\ \A e \in Encoder :
       /\ encoder[e].place \in {"free", "pooled", "held"}
       /\ encoder[e].cr \in Coder \cup {Nothing}
       /\ encoder[e].w \in Sink \cup {Nothing} /\ encoder[e].ws \in Sink \cup {Nothing}
       /\ encoder[e].slot \in Slots
       /\ encoder[e].cache \in [Slots -> [type : Type \cup {Nothing},
             codec : [coder : Coder, type : Type] \cup {Nothing}]]
  /\ bufio \in [BufWriter -> [place : {"free", "pooled", "held"},
                              dst : Writer \cup {Nothing}]]
  /\ \A b \in BufWriter : Len(data[b]) \leq BufSize
  /\ begun \in 0..MaxBegun

(* What encoding a value of type t with coder cr writes, when encoding a    *)
(* value of type u within it writes o[u].                                   *)
Part(cr, t, o, i) ==
  CASE Body[t][i].do \in {"write", "string"} -> << <<codecFor(cr, t), i>> >>
    [] Body[t][i].do = "encode" -> o[Body[t][i].type]
    [] OTHER -> <<>>
Parts(cr, t, o) == [i \in DOMAIN Body[t] |-> Part(cr, t, o, i)]

Encoding(cr, t) ==
  LET out[n \in 0..Cardinality(Type)] ==
        IF n = 0 THEN [u \in Type |-> <<>>]
        ELSE [u \in Type |-> FlattenSeq(Parts(cr, u, out[n - 1]))]
  IN  out[Cardinality(Type)][t]

Expected(o) == FlattenSeq([i \in DOMAIN o.types |-> Encoding(o.cr, o.types[i])])

(* An operation that succeeds has handed over the encoding of its own       *)
(* values by its own coder, all of it, and nothing else; one that fails, a  *)
(* beginning of it.  Nothing that another operation left in the encoder     *)
(* (cached codecs of another coder, another operation's StringWriter, bytes *)
(* in a buffer) shows, even after errors and panics.                        *)
OutputIsOwn ==
  /\ outcome.status = "ok" => outcome.out = Expected(outcome)
  /\ IsPrefix(outcome.out, Expected(outcome))

(* An encoder finds in its cache only codecs of the coder it works for, and *)
(* each type once: EncodeValue caches a codec before it calls it, and the   *)
(* call may encode values of the same type.                                 *)
CacheIsCurrent ==
  \A e \in Encoder :
    LET cache == encoder[e].cache
    IN  \A i \in Slots : cache[i].type # Nothing =>
          /\ cache[i].codec = codecFor(encoder[e].cr, cache[i].type)
          /\ \A j \in Slots : cache[j].type = cache[i].type => j = i

(* An encoder, and a bufio.Writer, is in the hands of one operation or in   *)
(* its pool, never both and never twice.                                    *)
Frames == {p \in Goroutine \X (1..MaxBegun) : p[2] \in DOMAIN stack[p[1]]}
FrameAt(p) == stack[p[1]][p[2]]
HeldOnce ==
  /\ \A e \in Encoder :
       Cardinality({p \in Frames : FrameAt(p).enc = e}) =
         IF encoder[e].place = "held" THEN 1 ELSE 0
  /\ \A b \in BufWriter :
       Cardinality({p \in Frames : FrameAt(p).buf = b}) =
         IF bufio[b].place = "held" THEN 1 ELSE 0

(* Nobody writes to a writer whose operation has returned.                  *)
WritersAreLeftAlone ==
  [][\A w \in Writer : data'[w] # data[w] => InUse(w) \/ InUse(w)']_vars
=============================================================================
