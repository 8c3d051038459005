# go-onc/xdr in TLA+

`go.e43.eu/xdr` encodes Go values as XDR (RFC 4506) and decodes them, by
reflection and, in its default build, by unsafe pointers. What to do with a Go
type is worked out once, kept as a *codec*, and shared by every goroutine that
uses the same `Coder`. This directory holds TLA+ modules that model the library,
TLC configurations that check them on small instances, and proofs, checked by
TLAPS, of the properties of the codec registry, of encoders and their pools, of the
stream of bytes and of struct tags for instances of any size.

## The system

| part | source | state it keeps | operations |
|---|---|---|---|
| codec registry | `internal/coder/coder.go`, `codec_special.go`, `codec_unsafe.go`, `codec_nounsafe.go` | two `sync.Map`s per coder; an `atomic.Value` and a `sync.WaitGroup` per placeholder | `getBaseCodec`, `getCodec`, `getNewCodec`, `RegisterCodec`, calls to placeholders |
| choice of codecs | `coder.go` (`buildCodec`), `codec_*.go` (`make...Codec`) | none | from a type and a tag to a codec |
| encoders and pools | `encoder.go`, `coder.go` | pooled encoders (writer, string writer, coder, codec cache), pooled buffers and `bufio.Writer`s | `Marshal`, `Write`, `NewEncoder`, `EncodeValue` |
| decoders | `decoder.go`, `coder.go` | pooled decoders (reader, coder) | `Unmarshal`, `Read`, `NewDecoder`, the `Decode...` primitives |
| wire format | `encoder.go`, `decoder.go`, `opaquereader.go` | position in the stream, open opaque reader | the `Encode...` and `Decode...` primitives, `OpaqueReader`, `Close` |
| composite codecs | `codec_struct.go`, `codec_array.go`, `codec_map.go`, `codec_ptr.go`, `codec_string.go` and their unsafe and nounsafe files | the codecs inside them, limits, union cases | `Encode`, `Decode` |
| primitive codecs | `codec_primitive.go`, `codec_primitive_unsafe.go` | none | one primitive each |
| tags | `internal/tags/tags.go` | none | `ParseTag` and access to parsed tags |
| public interface, errors | `interface.go`, `interfaces`, `utils.go`, `internal/errors` | the default coder | one-line calls |

An operation such as `Marshal` takes an encoder from a pool, asks the coder for
the codec of the value's type, and calls it; the codec calls the codecs inside
it, and writes through the encoder's primitives. A type's own `MarshalXDR`, or a
codec that a user registered, calls back into the encoder, and may start another
operation.

### What is hard

- *Races for a codec.* No lock is held anywhere. A goroutine that misses in the
  map stores a placeholder with `LoadOrStore` and builds; others that come by
  use the placeholder, inside codecs of their own too. A type that contains
  itself finds its own placeholder. The finished codec is stored in three places
  one after the other. Right means: one codec per type and tag, whoever asks;
  waiting for a placeholder ends, whatever types goroutines build together.
- *Panics in a build.* A panic leaves `getNewCodec` in the middle.
- *Registration.* `RegisterCodec` competes with the first use of a type.
- *Pooled objects.* What an encoder, a buffer or a `bufio.Writer` is left with
  after success, error or panic is there for the next operation that gets it.
  Right means: the output of an operation depends on nothing but its own value
  and coder.
- *Re-entrancy.* `EncodeValue` changes the encoder's cache before it calls a
  codec, and the codec may call `EncodeValue` again, or `Marshal`.
- *Alignment.* Nothing on the wire marks where an item begins; padding has to
  agree in six places. Streams end early; opaques are read in part.
- *Tags.* One walk over a tag descends through the layers of a type; whether the
  struct around it is a union shows only on the way, and changes what is legal.
  The parsed tag is a string of bytes that serves as a key, so equal options have
  to be equal bytes.
- *Several codecs for one value.* With and without an address, by reflection and by
  pointers, in two builds, on platforms with narrow and wide ints: all have to write
  the same bytes, read the same value, and report the same errors, also into a
  variable in which an earlier message, or an earlier error, has left something.

`PROJECT.json` lists each of these under `hazards` at the line where it bites.

## Modules

| module | what it is |
|---|---|
| `CodecBinding` | abstract: a key is bound to a codec once and for all, and whoever uses a codec uses the bound one |
| `CodecRegistry` | the registry: one action per access to a map, an atomic value or a wait group |
| `CodecRegistryProofs` | the inductive invariant `IInv` of `CodecRegistry`, the properties as consequences of it, and the refinement of `CodecBinding` |
| `SequenceFacts` | induction over numbers, functions defined from their previous value, and sequences: lemmas for the proofs below |
| `TypeCodecs` | `buildCodec` and the `make...Codec` functions as operators |
| `EncoderPool` | operations on encoders, the codec cache, the pools |
| `EncoderPoolProofs` | the inductive invariant `IInv` of `EncoderPool`, and what it says of encoders, buffers, caches and writers |
| `EncoderPoolOutput` | the proof that the output of an operation is its own |
| `TagBytes` | parsed tags as bytes, and the operations on them |
| `StructTags` | `ParseTag`, and the loop of `makeStructCodec` over the fields of a struct or a union |
| `StructTagsProofs` | tags written and read back, what `ParseTag` accepts, and the inductive invariant `IInv` of `StructTags` |
| `StructTagsBuild` | the loop over a struct against `TypeCodecs`: the codec it returns, and that legal tags have codecs |
| `XDRBytes` | the primitives of encoder and decoder on bytes |
| `XDRBytesFacts` | what the bytes of each item are, and what the decoder makes of them |
| `XDRStream` | a stream of bytes, the decoder and opaque readers |
| `XDRStreamProofs` | the inductive invariant `IInv` of `XDRStream` and its consequences |
| `CodecValues` | `Encode` and `Decode` of every codec on values, in both builds, and messages between a sender and a receiver |
| `MCCodecRegistry` | `CodecRegistry` on Go types, through `TypeCodecs` |
| `MCEncoderPool`, `MCXDRStream` | the types and the messages of the runs |
| `MCStructTags` | structs, with the texts of their tags |
| `MCCodecValues` | pairs of Go types, through `TypeCodecs`, and values to send |

`CodecRegistry` says which codec a type gets and when, `StructTags` how the text of tags
becomes the entries that `TypeCodecs` builds from, `TypeCodecs` what the codec is,
`CodecValues` what it does with values, on the bytes of `XDRBytes`; `XDRStream` and
`EncoderPool` are what lies below.

Operators that begin with a comment "a mutant of" are faulty versions of the
definition that follows them. No specification uses them; they show that the
property they break would notice the fault.

### CodecRegistry

A *key* (`xType`) is a Go type with an encoded tag. `known` and `base` are the two
maps; `base` holds keys whose tag is empty. `real[k][g]` and `released[k][g]` are
the fields of the placeholder that goroutine `g` made for key `k`; a goroutine makes
at most one for a key that it comes to store. `elems[k][g]` are the codecs that
`g`'s build of `k` has looked up. `stack[g]` holds the keys whose `getNewCodec` is
under way in `g`, because builds nest. `phase[g]` is the next step, `codec[g]` the
codec `g` calls.

The steps of `getNewCodec` are `ClaimLost`/`ClaimWon` (the `LoadOrStore`),
`BuildLookup` and `BuildEnd` (`buildCodec`: for each type inside, a `getCodec`),
`Publish`, `PublishBase`, `Resolve`, `Release`. `CallDeferred` and `Wake` are a call to
a placeholder; `CallElem` is a codec that calls one inside it, along one path
through the value; `CallBack` is a `MarshalXDR` method, or a registered codec, that
encodes something else. `Finish` is a return or a panic that unwinds every build.
What the keys look up and how their builds end are constants, `Lookups` and
`Outcome`; `MCCodecRegistry` computes them from Go types with `TypeCodecs`.

Abstracted: the bytes; what a codec does besides calling others; errors other than
that a codec ends early. External: `sync.Map`, `atomic.Value` and `sync.WaitGroup` are
linearizable, each call one step.

`IsXCodec` is the type assertion `c.(xCodec)`. In the default build `xCodec` has
unexported methods, so it fails for a user's codec, which `RegisterCodecReflect`
stores unwrapped; with the `nounsafe` build tag every codec is an `xCodec`. So that
registered codecs do something, `registered_codecs` runs the nounsafe build, where no
assertion can fail; that they fail in the default build is what the violation run
`registered_unsafe` shows, the only one that checks `RegisteredCodecsWork`.

### EncoderPool

`encoder[e]` is an object of `encoderPool` or `marshalEncoderPool` with its fields `w`,
`ws`, `cr`, `codecCache` and `codecCacheSlot`, and whether an operation holds it. What
is written are *chunks*, named by the codec that writes them (so by its coder) and
their place in it. `Body[t]` is what encoding a `t` does: write a chunk or a string,
encode or marshal another value, fail, panic. `stack[g]` holds the operations `g` is
in, a `Marshal` called from `MarshalXDR` on top of the outer one.

`NestingAssumption` says that no value contains itself: a value that does would be encoded
until the stack of the goroutine is full. `PoolAssumption` says what the constants are.
Assumed of users: a writer belongs to one operation at a time, and `MarshalXDR`
returns the errors it gets. A user's encoder that failed is not used again. Not
modelled: `Write` or `NewEncoder` called inside `MarshalXDR` (`Marshal` is); large writes
that go past a `bufio.Writer`'s buffer. External: `sync.Pool` returns an object that
was put back or a new one, and may drop what it holds; `bufio.Writer` keeps chunks
until it is full or flushed.

### XDRStream

The encoder is a set of operators from a value to a sequence of bytes (`XDRBytes`), the
decoder consumes `input` one call at a time, `reader` is the opaque reader that is open.
`Base` is the number of values of a byte. `MessageAssumption`: messages are sequences of
items that a method of the encoder takes (numbers of the width, opaques and strings of
bytes, bools 0 or 1). `Power` is `Base^n` as a recursive function, which can be proved about. The stream may miss its last `missing`
bytes. Users close a reader before they go on, as the interface demands, and close
it once. Floats are not items of their own: `math.Float32bits` and `Float64bits` make them
integers. Lengths do not overflow here; `CodecValues` has that.

### TagBytes and StructTags

A tag is a sequence of bytes: a kind, and for some kinds a value or a count and that
many values. `Kind`, `NextTag`, `Values`, `AppendTag`, `Prepend` and `TrimmedTag` are the methods
of `XDRTag` on those bytes; `Entries` reads a tag back into the entries of `TypeCodecs`, and
`BytesOf` are the bytes of such entries. The loops over a tag are recursive functions that go
through it from the front, as the code does, and stay where they are at its end.

The text of a tag is given split at its slashes (`lead` for a `union:` part, `parts` with
a name and a number); splitting strings and parsing numbers are left out, a number
that does not parse is a part without a value. `StructAssumption` says what texts come out
of that splitting (`IsText`): in particular numbers and their count have 32 bits, and what
takes no number has none. `ParseTag` goes through the parts
and down the layers of the type. The state machine is the loop of `makeStructCodec`:
`DecidingField` and `SkipField` until a field that is not skipped settles whether this is a
union (`Settle`, which is the `switch` with its panics), then `StructField` or `UnionArm` for
each field, `ParseError` where a tag is refused, `Finish`. `isUnion`, `i`, `tag`, `cases` and
`defaultCase` are the variables of that function; `keys` are the codecs that `makeField`
has looked up. `codec` is the kind of codec returned, or `"panic"`, or `"unreachable"` for the
two panics that the code says cannot happen.

`Unskipped` are the fields of a struct that are not skipped, `Rank` the number of them up to
a field, and `EntriesInContext` gives each the tag that it has when the first of them alone
decides the context: this is what `TypeCodecs` is applied to, to compare the loop with it.
`IsLegal` is a type with a tag each option of which fits its layer. `TypesBuild`, which
`LegalTagsBuild` presupposes, says that the types inside which no tag speaks (numbers, structs, types that
marshal themselves) have codecs of their own and look up legal keys; `MCStructTags` assumes it of
its types, so TLC evaluates it. A `chan` has no codec whatever its tag, and the structs among
the types are described by the entries of their tags, which `StructTags` produces one struct at a time.

### CodecValues

`Encode(k, v, m)` is what the codec of key `k` writes for the value `v` and the error;
`Decode(k, v, w, m)` is what a variable that held `v` holds afterwards, what is left of the
bytes `w`, and the error. The mode `m` says how the codec is called: in the default
build or with `nounsafe`, on which platform, on a `reflect.Value` (with an address or
without) or on a pointer. `Entered` and `ByPointer` are the places where a call changes
from one to the other: structs and unions that have an address, and everything
behind a pointer, go on by pointer in the default build; `unsafeCodecWrapper` goes back
to reflection for maps, Marshalers and error codecs. The codecs themselves come from
`TypeCodecs`.

A panic is an error of kind `"panic"`, which nothing adds to. There are three:
an optional interface that holds nothing to decode into, or that reflection has
cleared; opaques of `int8`, whose bytes reflection refuses; and, on a platform with
small ints, an opaque whose length is an int but not with its padding.

In the state machine, `Send` marshals a value of the sender's type, `Lose` cuts its end
off, and `Receive` decodes what arrives, once in each build, into `dest[build]`, the
variable that the receiver uses for every message. The types of sender and receiver
differ in limits, in arms, or in the width of their integers, as two versions of a
schema do. `"small"` is a platform whose largest int, `MaxInt`, is less than what a length
may be (32 bits in the program), `"wide"` one where it is more.

Abstracted: floats are their bits, none of them a signalling NaN (which a conversion
through `float64` in the reflection codec would quieten); slices are their elements, nil
and empty ones alike; a map's keys are integers, so that `order`, the order of
`MapRange`, is up or down; field errors are paths of types and fields, not text. There is
one Marshaler. The deferred codec of a type that contains itself passes every call
on, as `CodecRegistry` shows, and is left out. External: `reflect`, user's Marshalers.

## Runs

| run | question | bounds |
|---|---|---|
| `registry_list` | a linked list (pointer with `opt`): a builder, a loser of the race and a waiter at once | 3 goroutines, symmetric, values nested 1 deep |
| `registry_mutual` | two mutually recursive types; liveness; refinement | 2 goroutines, 3 deep |
| `registered_codecs` | `RegisterCodec` against builds of the same type (nounsafe), a build that panics; `IInv` itself | 2 goroutines, 2 codecs, 2 deep |
| `pool_cache` | the codec cache with two coders | 3 operations, 2 cache slots, one encoder of each sort |
| `pool_failures` | failing writers, errors and panics, `Marshal` inside `Marshal`; `IInv` and `ProgressOK` themselves | 3 operations, 2 writers, 2 encoders of each sort, symmetric |
| `stream_cut` | every number of a small base; padding and limits; a stream cut off anywhere; `IInv` itself | bytes of 4 values (256 ints, hypers at the edges); 3 items, lengths 0 to 7, limit 6 |
| `struct_tags` | tags of every form on every kind of layer, fields skipped, repeated and out of order | every tag of up to 3 parts on one field; every struct of up to 3 fields of 15 sorts, unions of 4; 16 types, up to 3 layers deep, one a struct that contains itself |
| `values` | every codec in both directions; two messages into one variable; messages cut off | bytes of 4 values, 15 pairs of types, lengths on both sides of every limit, 2 messages |

These runs pass. Four more show where the code and what is said of it part:

| run | what it shows |
|---|---|
| `registered_unsafe` | in the default build, using a type with a registered codec panics |
| `stuck_placeholder` | after a build that panics, the next use of the type blocks for ever |
| `switch_kind` | a union switch of a kind tag parsing accepts makes the build panic |
| `opaque_cut` | a truncated opaque decodes without an error |

`stream_cut` reads opaques and strings with `DecodeOpaque` and `DecodeString` only from
streams that are complete, and through readers from all; `opaque_cut` does so from
all (`Trusting`). `RegisterCodec` with the very codec that is registered already
returns normally in the nounsafe build, where the interface's documentation
speaks of a panic; the model follows the code.

*Why the bounds are enough.* The races of the registry are between one builder and
one other goroutine; a third covers a loser that meets a waiter. Types of two or
three keys already nest, recur and meet from both ends; once the codecs of a path
are known, calling deeper repeats the same calls, so a depth of one round through
the cycle plus one meets every codec both as a placeholder and resolved. A cache of
two slots wraps and evicts with three types, as the four of the code do with five.
Three operations suffice for one that leaves something behind, one that works with
another coder or writer, and one that is under way at the same time. `BufSize` 1 or 2
makes a buffer flush early. A base of 4 keeps all the carries and signs of the
8-bit one; `Base` is a parameter of every operator. Lengths 0 to 7 leave every padding
on both sides of a word. `MaxInt` 7 is like a real one in that only lengths of the last
word overflow with their padding; limits and lengths in `values` lie below, between and
above `MaxInt` and the limits of the schema. One message suffices to leave a value or an
error behind, a second to find it. Unsigned words of `TagBytes` are kept below 2^31.

`CHECK_DEADLOCK FALSE` stands in the runs of pools, streams, values and struct tags, which
end when no operation is left to begin, no item left to read, no message left to send
or the codec is built, and in the two runs in which a
panic leaves goroutines blocked, which is the subject of `stuck_placeholder`.

*Fairness.* `FairSpec` of `CodecRegistry` has weak fairness on `Step(g)` of each goroutine:
the Go scheduler keeps running a goroutine that is not blocked, and a step waits
only in `Wake`, which stays enabled once the placeholder is released. Beginning an
operation or registering a codec is not fair: a program may stop at any time. The
values a goroutine encodes are finite (`MaxDepth`), which is what ends a call. Pools
and streams need no fairness: their properties are about safety.

## Properties

*Registry.* `OneCodecPerKey`: every codec in use, or held in a build, is the one the
coder settled on for its key. `MapsAgree`: the base map and resolved placeholders
hold what the map of all codecs holds. `SoleBuilder`: no key is on two stacks, or
twice on one. `RegistrationExcludesBuild`: once a codec is registered for a type, nobody
is building another, none is in the base map or in a placeholder, and nobody holds a
placeholder for it; the `Store` that ends a build (`coder.go:152`) does not look at what is
there, and it is the `LoadOrStore` at the beginning that keeps it from overwriting
a codec registered meanwhile. `NoNilCodec`: a waiter finds a codec. `PlaceholdersAreBuilt`,
`NoCircularWait`: an unresolved placeholder is on its builder's stack, and its builder
does not wait. `OperationsEnd`: every operation ends. `BindingSpec`: the registry
implements `CodecBinding`, with `known`, each placeholder read as the codec it will
become, as the binding.

*Pools.* `OutputIsOwn`: the output of an operation is the encoding of its own values
by its own coder, or after an error a beginning of it. `CacheIsCurrent`, `HeldOnce`,
`WritersAreLeftAlone`: the cache holds codecs of the encoder's coder, each type once;
an object is held by one operation or pooled; no writer is written to after its
operation has returned. `ProgressOK`: what an operation has written so far, with what waits
in its buffer, followed by what its codecs still have to write is the encoding of its values.

*Stream.* `Aligned`: between items the decoder is where the encoder began an item.
`ReadsWhatWasSent`, `FailsForAReason`: what is returned without an error was sent, and
what was sent whole and within the limits is returned without an error.

*Tags.* `EveryLayerGetsItsOption`: which options are legal, and which layer of the type each
belongs to, as a definition layer by layer gives it. `KeysAreCanonical`: the bytes of a key
are the only ones for its options, and taking `opt` off them gives the key that
`TypeCodecs` says. `BuildsAsTypeCodecsSays`: the loop over the fields, with what it carries
along, builds what `TypeCodecs` says of all fields at once, so that what the other modules
say of codecs holds for the texts of tags. `NoImpossiblePanic`, `UnionShape`: as the comments
and the documentation of unions say. `LegalTagsBuild`: the parser and the functions that
build codecs agree on what is legal, with a list of the exceptions: `len:` on a slice
(which the package's own example `opt/len:4` uses), `opaque` on a single byte, strings of a
fixed length no int holds, and switches that are not 32 bits wide.

*Values.* `ArrivesAsSent`: what arrives whole and decodes without an error encodes to the same
bytes, and nothing of the message is left over; a narrower integer keeps its low
bits. `LimitsAgree`: a type's decoder refuses exactly what its encoder refuses, with the
same error at the same place. `DecodesAsFresh`: what the variable held does not show.
`BuildsAgree`, `EncodersAgree`: nor does the build, or whether a pointer is marshalled.
`PanicsAreKnown`: no message makes a decoder panic but in the cases above.
`LengthErrorsTellWhy`: on a platform with small ints, `errors.Is` tells a limit of the schema from one
of the platform. Opaques are an exception: `opaqueSliceCodec.Decode` leaves the limit that
it has capped in the error (`codec_array.go:168`), where `varStringCodec` puts the schema's back, so
that `ErrLengthExceedsMax` matches where the comment at `errors.go:34-42` says the other one does.

## Proofs

Four components are proved about, each for every value of its constants: the registry, the
encoders with their pools, the stream of bytes, and the parser of tags with the loop over a
struct that drives it. What is assumed of the constants is in
the `ASSUME`s of the modules, which TLC evaluates in every run: `RegistryAssumption`,
`PoolAssumption`, `NestingAssumption`, `StreamAssumption`, `MessageAssumption` and
`StructAssumption`. A theorem that needs more states it as a hypothesis, named below.

In each component the properties are not inductive as they stand. An invariant `IInv` is, and
the properties follow from it; runs check `IInv` too (`registered_codecs`,
`pool_failures`, `stream_cut`; that of tags speaks of all sequences of entries, which TLC
cannot enumerate). There is a lemma per action that it preserves `IInv`.

### Registry: CodecRegistryProofs

Any set of goroutines, keys and registered codecs, any types, both builds.

That one codec per key is in use depends on who may still store what. `IInv` adds to
the type invariant these parts:

- `KeysOK`: the maps and the placeholders hold codecs of their own key, the base map
  and the placeholders none but the finished codec of `known`, and a placeholder is
  released only after it holds one;
- `StacksOK`: `known` holds `g`'s placeholder for each key on `g`'s stack, or the finished
  codec for the topmost one that is published; no key is there twice, and none of
  them is released;
- `LookupsOK`: a build waits for the key above it on the stack, or for the one its
  goroutine is looking up, which is the next of its `Lookups`;
- `PhasesOK`: the phase of a goroutine fits its stack, target and codec (a goroutine
  that calls or waits builds nothing; one that publishes has looked up everything);
- `ElemsOK` and `CodecsOK`: every codec held in a build or called stands for the codec of
  its key.

`MapsAlwaysAgree`, `OneCodecForEachKey` and `BuildersAreAlone` follow from `IInv`, and so does
`RegistrationsExcludeBuilds`: were `k` on a stack or `g`'s codec of `k` in a placeholder,
`StacksOK` and `KeysOK` would put `Deferred(k, g)` or `Built(k, g)` where the registered codec is,
and a placeholder for `k` in anybody's hands does not stand for it, as `CodecsOK` and `ElemsOK`
demand. It assumes nothing of the build, so it covers the default one with registered
codecs too, in which `registered_unsafe` shows that using them panics: the panic leaves the
registration in place and no build of the type behind.
`NeverNilCodec` needs a further induction on `result`, in which `Wake` uses that `real` is set
before `released`. `PlaceholdersUnderConstruction` and `NobodyWaitsInACircle` assume
`PanicFree` (no build panics, and no registered codecs in the unsafe build):
without it they are false, as `stuck_placeholder` shows. `RegistryImplementsBinding` maps
`ClaimWon` and a successful `RegisterCodec` to `Bind`, delivering or calling a codec to `Use`,
the end of an operation to `Leave`, and everything else to a stutter; in particular
replacing a placeholder by the codec it stands for is invisible.

### Encoders and pools: EncoderPoolProofs, EncoderPoolOutput

Any number of goroutines, operations, coders, types, writers and pooled objects, any size of
cache and buffers; writers fail and codecs panic as they like.

`IInv` says what an operation, a *frame* on its goroutine's stack, can rely on:

- `FramesOK`: the fields of a frame fit its kind, and a frame below another waits
  in a `MarshalXDR` that has called `Marshal`;
- `ObjectsOK`: its encoder is held, is of its coder, and writes where it shall write; its
  `bufio.Writer` is held and goes to its writer;
- `AllApart`, `HeldByOne`: two frames have no encoder, `bufio.Writer` or writer in
  common, and what is held is in a frame;
- `MarshalEncodersOK`: a `marshalEncoder` writes to its own buffer, which is empty between uses;
- `StacksBounded`, `CacheIsCurrent`, and the types (`Typed`).

`AllApart` is what makes the rest inductive: a step changes objects of its own frame only, so
every other frame finds its objects as they were. `PooledObjectsHeldOnce` and
`CachesAreCurrent` follow. The cache survives between operations, so `CacheIsCurrent`
depends on `reset`, which clears it exactly when the coder changes. `WritersLeftAlone` is an
action property: who writes, holds the writer.

`OutputsAreOwn` needs the contents as well. `ProgressOK` says that data written (and
buffered), followed by `Todo`, the encodings of the items still to write, is the encoding of
the operation's values. Encoding a value moves the boundary between the two: the first item of
`Todo` is replaced by the body of its type, which by definition has the same encoding. A write
that fails leaves a prefix. The encoding itself is defined in rounds over the depth of
types; `NestingAssumption` makes the last round a fixed point.

### Bytes and stream: XDRBytesFacts, XDRStreamProofs

Bytes of any `Base` of two or more, messages of any length, every limit, streams
complete or not.

`XDRBytesFacts` proves that a number is read back from its bytes (`NumberOfBytes`: quotients by
powers of the base, by induction over the digits), signs with it, and that padding makes every
item a multiple of the word. `DecodeFacts` combines these for the methods of the decoder:
on the bytes of an item, of which only the first may arrive, it returns the value that was
sent and consumes exactly the item, or fails for one of the known reasons.

`IInv` of `XDRStream` is the type invariant with `Aligned`, `FailsForAReason` and

- `MidItem`: while a reader is open, the opaque is what was read followed by what is left
  to read, and the input is what is left to read, the padding and the rest of the message,
  as far as they arrive (`Arriving`);
- `Honest`: what was returned without an error was sent, unless the decoder trusts the
  length of an opaque (`Trusting`) in a truncated stream.

`Close` then skips what makes the decoder aligned again, and this is why `MidItem` has to
relate the four sequences. `StaysAligned` and `ErrorsHaveReasons` hold without
conditions. `ReturnsWhatWasSent` has the hypothesis `Trusting => ~Truncated`, which
`opaque_cut` shows to be needed: `DecodeOpaque` and `DecodeString` of a truncated stream
return bytes that never came.

### Tags: StructTagsProofs, StructTagsBuild

Structs of any length, any types, any text that `IsText` allows: labels of all 32 bits, as
many of them as can be counted.

The properties are about bytes, and the reasoning is about entries. So the first half shows that
the one stands for the other. `EntryRead`: an entry at the beginning of a tag is read
back as it was written, and `Next` returns the rest; the zeros in a number are no `Noop`s.
`EntriesFacts`: hence any sequence of entries is read back. `TrimFacts`: `Trimmed`, a loop over
bytes, does to them what it should do to the entries. `TagBytesFacts`: a trimmed tag without
its first entry is trimmed, which is why `makeField` may look up what `Next` leaves of the tag.
`StripFacts` is the same for `opt`, which `makeOptCodec` takes off with `Next` and a `Noop`.

Then the parser. `ReadUpTo` follows the loop over the parts of a tag: after k parts it goes on if and
only if each fits its layer, stands on the next layer and has appended one entry for each. The
last part is the exception, because of `opaque` on an array or a slice (`SpelledShort`).
`ParseTagFacts` puts it together: which tags are accepted in which context, what
context they leave, and the bytes they are. `LayersGetTheirOptions` and `KeysCanonical` follow.

The loop over the fields carries `isUnion`, `tag`, `cases` and `defaultCase` from field to
field, and none of the properties is inductive without what these say of the fields before.
`IInv` has

- `TypeInv`: in particular every key has the bytes of a trimmed sequence of entries;
- `DecidingInv`: as long as nothing is decided all fields were skipped, and when a union has
  been entered the field before is the switch, and its tag says so;
- `UnionInv`: the first field of a union that is not skipped is its switch, and every arm after it is
  entered in `cases` with all its labels, or is the default. No label is overwritten: an arm whose
  label is taken already ends the loop (`OneArm`);
- `CodecInv`: no codec yet while fields are left, and never the one of an impossible panic.

`PanicsUnreachable`, `UnionsHaveTheirShape` and `TypeCorrect` follow from it.

`StructTagsBuild` compares the loop with `TypeCodecs`, which looks at all fields at once.
`BuildInv` says how far the loop has got in what `TypeCodecs` computes: in a struct the keys so
far are the fields so far, in their order (`StructFollows`); in a union they are the switch and the
arms so far, and `cases` and `defaultCase` lead to the field with each label (`UnionFollows`);
skipped fields do not count, which is what `Rank` is for. The context of the loop at a field is the
one that the first field has decided (`Decided`). `StructEnds`, `UnionEnds` and
`UnionRepeats` then show that the first field at which `TypeCodecs` finds a fault, a tag that is not
legal, a label or a default that is there already, is the one at which the loop ends, so that the
two have looked up the same codecs. The repeated label is the hard part: the loop compares a label
with those in `cases` and those before it in its list, `TypeCodecs` asks whether a field has fewer
different labels than labels, or shares one with an earlier field (`CountsRepeats`, `RepeatsFacts`). `LoopBuildsTheCodec` proves `BuildsAsTypeCodecsSays`.

`LegalTagsAgree` proves `LegalTagsBuild`, in two halves. `LegalInv`, again inductive, says
that all keys of the loop are legal (`FieldLegal`: a parsed tag without the
option of the enclosing union has options that fit their layers) and that it panics only at a switch. And
`LegalBuilds` goes through `buildCodec`, kind by kind: on a legal key it fails exactly where
`Disagree` says, never panics, and what it looks up is legal again (`NextLegal`, and
`StripLegal` for `opt`). By induction over the rounds of lookups this holds however deep
(`KeysFromLegal`). `KeysAreLegal` has no hypothesis; `LegalTagsAgree` assumes `TypesBuild`.

### Induction

The induction theorems of the library take a predicate, which these provers cannot instantiate.
`SequenceFacts` therefore has `InductionOnNat` for a set of numbers, and `IterateExists`
for the existence of a function on `0..n` that is given by its first value and a step, which is
what turns a recursive function (`CHOOSE` of one that satisfies its equation) into that equation.

### Only model-checked

- `OperationsEnd`: liveness under fairness is out of the prover's reach;
  `NobodyWaitsInACircle` is the safety half of it.
- `CodecValues`: it follows the structure of types with recursive operators, about which
  nothing can be proved with these provers.

## Not modelled, and what comes next

1. Decoders: `Read` and `Unmarshal` with the decoder pool, and `UnmarshalXDR` calling back into
   the decoder. The pool is simpler than that of the encoders: `newDecoder` sets both fields
   of a decoder, and nothing of an earlier user can be left.
2. Proofs: every invariant that a passing run checks is proved, under the hypotheses named above, but
   those of `CodecValues`. To prove that what
   arrives is what was sent, its recursion over types would have to become one over a depth, as in
   `EncoderPool`, and the proof an induction over that number.

Left out for good: pointer arithmetic of the unsafe codecs (only its effect is a
subject), error wording, splitting tags into words, the one-line calls of `utils.go`.
A second `Close` of an opaque reader, which skips the padding once more, is left to the
contract of `io.Closer`.

Seen on the way, and not the subject of a run: a type whose methods have pointer
receivers, so that only its pointer is a Marshaler, is never asked; named byte types in opaque slices
make the reflection decoder panic, as unexported fields do; the message for an undefined
arm of a union prints the index -1 and not the switch; `maxlen:` on a map is refused with
a message that says maps are legal.
