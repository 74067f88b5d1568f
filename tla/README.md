# Verification of ondewo-client-utils-python

TLA+ models of `ondewo.utils`, the base library of the ONDEWO gRPC clients,
checked with TLC on small instances and, for the theorems listed below, proved
with TLAPS for every value of the constants.

## The system

A concrete client subclasses `BaseClient` or `AsyncBaseClient`. Its
`_initialize_services` builds a *container*: a dataclass with one field per gRPC
service. Every service subclasses `BaseServicesInterface` (or the async twin) and
holds a `grpc_channel`, its own or one shared with other services.

| component | state it keeps | operations | hard because | correct when |
|---|---|---|---|---|
| `AsyncBaseClient` | `self.services` | `__init__`, `connect`, `disconnect` | `disconnect` suspends at every `await channel.close()`; close may fail or be cancelled; several tasks share the client | no channel is lost, none is closed twice by one sweep, the first error comes out, a disconnect ends |
| `BaseClient` | `self.services` | the same, blocking | threads are preempted anywhere; KeyboardInterrupt strikes anywhere | the same |
| `BaseServicesContainer` | none | none | channels shared by fields, fields without a channel, inherited fields | (in the clients) |
| `grpc_retry_policy` | two `lru_cache`s | `service_config_json_for`, `service_config_json_for_classes`, `build_service_config_json`, `is_idempotent_method` | discovery looks at one module after the other while threads import; the caches hold no lock over a miss; the result stays for the life of the process | its configs retry no method that acts; one that may be repeated is, if its service was known; grpc-core accepts every config it builds; staleness only costs retries |
| service interfaces | one `lru_cache` of default options each | `__init__`, `build_shared_channel`, `_get_grpc_channel`, `get_secure_channel` | merging caller options over cached defaults, a service config of the caller's own among them; grpc core aborts the process on half a TLS identity | defaults stay the class's; channels present what the config was given |
| `BaseClientConfig` | frozen fields | construction, `dataclasses.replace`, `to_dict`/`to_json`, `from_dict`/`from_json` | `str`, `bytes`, empty and absent PEMs mix through copies and serialization; the constructor checks no types; readers are of other versions and use other JSON libraries | contents survive; half an identity is never accepted; what is read has its types; absent is not falsy |
| gRPC engine (external) | attempts, connections | one RPC | connections that break or silently die, late requests, retries | on the package's configs an RPC that acts is executed at most once; it ends unless it waits for what no ping can notice |
| `helpers`, `text` | none | pure functions | - | not modelled (below) |
| packaging, hooks, CI | none | build tooling | - | not modelled |

Interactions: a client calls `_initialize_services`, which constructs services
with a `BaseClientConfig`; a service asks its option cache, which asks the
policy's cache, which scans the namespaces of already imported modules; the
channel then carries the service config, and gRPC obeys it on every RPC. The
client's `disconnect` closes the channels of whatever container it finds.

## Modules

| module | models | state and actions |
|---|---|---|
| `Connection` | the promise of a client: open a set of channels, release them one by one, clear only when none is left; only an interrupt may give channels up | `connected`, `open`, `interrupts`; `Open`, `Release`, `Clear`, `Interrupt` |
| `AsyncClient` | `async_base_client.py` | `services` is None or the number of the container; `layout[g][f]` is the id of the channel field `f` of container `g` carries; `call[t]` is the frame of task `t`'s `disconnect` (its locals `closed`, `first_error`, `channel`, its place in the loop). One action is what a task does between two suspensions: `Disconnect` runs to the first awaited close, `CloseReturns` / `CloseRaises` from one close to the next (`RunOn`), ending in the `finally` (`Finish`). |
| `SyncClient` | `base_client.py` | the same variables, with a `pc` per thread: every read or write of `self.services` is a step of its own, also between the read that finds None and the `finally` (`Connect`, `ConnectPopulates`, `Disconnect`, `ReadFields`, `Visit`, `CloseEnds`, `Leave`); `InterruptClose/Visit/Loop/Entry` deliver KeyboardInterrupt to the main thread at the places the bytecode allows |
| `RetryPolicy` | the pure part of `grpc_retry_policy.py` | operators; a method name is its leading verb and whether a word ends there |
| `ServiceConfigCache` | discovery and the caches of `grpc_retry_policy.py` and the two interface modules | `namespace` (what modules refer to so far), the three caches, `miss[t]` (the frame of the cache miss thread `t` is in: the modules it has still to look at, what it found), the `channels` opened; `Import`; `Ask`, `OptionsMiss`, `SharedMiss` begin a miss; `Scan` looks at one module, `ScanRaises` is an import that breaks the iteration off; `StoreConfig`, `OpenBuilt`, `OpenSharedBuilt` end it; `OpenCached`, `OpenSharedCached` are hits |
| `RpcCall` | one RPC on a channel, a component | external engine actions (`Start`, `Reject`, `Execute`, `Error`, `GoDead`, `Ping`, `PingTimeout`, `Refused`, `Retry`, ...); what is retried is `RetryPolicy`'s and the options' |
| `ServiceCalls` | imports, caches, channels and a call together | `ServiceConfigCache` (EXTENDS) and `RpcCall` (INSTANCE, its `config` the one of the channel `on`); `Prepare`, `StartCall`, `OnChannel` |
| `ClientConfig` | the PEM fields of `base_client_config.py`, the TLS decisions of the interface modules | `config`, the caller's intent `given`, the last `channel`, `aborted`; `Construct`, `Replace`, `RoundTrip`, `OpenSecure`, `OpenInsecure`, `OpenDirect` |
| `ConfigCodec` | the writers and readers of `base_client_config.py` for fields of every kind | `config` or `document`, whichever is under way; `Construct` / `Author`, then `to_dict`, `to_dict_encode_json`, `to_json`, `from_dict`, `from_json` in turn; a reader that raises leaves the document to the next |
| `MC*` | instances for TLC | |
| `*_proofs` | theorems about the module they are named for | |
| `DataLemmas` | facts about sequences and sets, and induction, for these proofs | |

`RetryPolicy` is used by `ServiceConfigCache` and `RpcCall` (EXTENDS), and these two
are composed by `ServiceCalls`; `Connection` is the abstract specification both
clients are checked against. `ClientConfig` follows the PEM fields into channels,
with the identity check; `ConfigCodec` follows every kind of field between clients.
The async and the sync interface modules have the same text up to the kind of
channel; one action stands for both. A class is sync or async, so the keys of
their two option caches are apart and `itemsFor` holds both.
Definitions whose names end in `_Something` after the name of a definition, under
a comment "A mutant", are single plausible bugs: each makes TLC report the
property it is paired with in `PROJECT.json`, and nothing else uses them.

### Abstractions

* An `id()` is a small value. A new container's channels never get the id of a
  channel some frame still refers to (`Held`), and may get any other: ids of
  collected channels are reused.
* `_initialize_services` belongs to the subclass: it builds any container of
  `Layouts`, builds none, or raises.
* In `RunOn`, a row of fields without a channel adds one entry to the history
  `met`; what is kept as the first error is the same.
* A channel's `close()` ends in any way at any time. It takes a step of its own:
  real `grpc.aio` channels close without suspending when `grace` is `None`, but
  channels are whatever the subclass puts in the container, and the tests'
  suspend.
* A class is sync or async; `Alone` are the classes that open channels of their
  own, the others are only ever in a tuple for a shared channel.
* A caller may pass a service config through the public
  `build_service_config_json` (of one of `CallerLists`), or one written by hand
  (`CallerConfigs`), which may retry any method, those that act included, or name a
  path twice and be rejected. A config is what it says of which methods: the attempts
  and codes of one written by hand are taken to be the package's. The properties
  promise nothing of a call on a channel with a hand-written config (`OfPackage`);
  they do promise that it changes nothing for the other channels.
* A connection may break visibly (`Error("UNAVAILABLE")`) or die silently (`GoDead`).
  A waiting call pings, at most twice without data (`MaxPings`); a ping that nobody
  answers ends the attempt (`PingTimeout`). Once the pings are used up nothing tells a
  silent server from a dead connection, as the comment at
  `base_services_interface.py:65-71` says, and no deadline is set by default.
* CPython raises when a dictionary changes while it is iterated; which
  imports of other threads hit the iteration is left open (`ScanRaises`).
* Histories: `raced` (classes two threads built options for at once), `due` (what
  was visible when a lookup began), `known` (what was visible before any lookup),
  `first` and `kept` (what a field was first given, and the fields every client so
  far has had), `hops` (whether a reader came before). No action reads one.
* A Python value is its type, its text and, for a collection or a dataclass, its
  items. A field may hold any of `Values`, which are given by the depth of their
  nesting (`Levels`) and closed under what the conversions make of them
  (`ClosureAssumption`); what recurses over a value in the code (`_to_plain`,
  `_encode_json_type`, `_decode_dataclass`) is a recursive function on them.
  An instance is one its constructor has built, so it holds no half identity.
* The keys of a mapping are strs, or stand for keys that JSON text renders as one
  (`KeyText`: the key `1` becomes `"1"`); no two keys of a mapping render alike.
  orjson writes NaN and the infinities as null and refuses their literals,
  `json.dumps` writes them and `json.loads` takes them.
* A field is one its constructor takes: no class of the package declares one with
  `init=False`, which `_decode_dataclass` would skip (276-277) and `Schema` leaves out.
* Callers pass no collection for a PEM, and `bytes` that `decode()` accepts: what
  happens to others is up to `ClientConfig`, which has a PEM that is not text.
  What `int`, `bool`, `str` and an `Enum` make of a value is a table
  (`Builtins`) of what CPython does with the values of the instance. Declared
  types are the same in every version (`SchemaAssumption`).
* Which PEMs are well-formed is not modelled: a PEM is its type and its content.
* The methods of `MethodsAssumption` are *audited*: what the authors state of
  their protos (a method that acts declares no idempotency, and is listed if it
  is named like a read) is an assumption, and `ActsAtMostOnce` says what follows
  from it. The package cannot know it of other people's protos.

## Runs

Bounds are constants of each module; what they must allow is in parentheses.

| run | instance | shows |
|---|---|---|
| `AsyncClient_overlap` | 3 tasks, 3 fields, 2 ids, 2 containers, all layouts, callers reconnect at will (two disconnects that outlive a reconnect; a shared channel next to another; a field without channel anywhere) | `TypeOK`, `SweptSoFar`, `FirstErrorReRaised`, `OwnDisconnectReleasesAll`, `SharedClosedOnce` |
| `AsyncClient_awaited` | 2 tasks, the rest the same, callers await disconnects (`Early = FALSE`) | `NoOrphan`, refinement of `Connection`, `DisconnectEnds`, `BegunIsReleased` under fairness |
| `AsyncClient_reconnect` | 2 tasks, 2 fields | violation, finding 1 |
| `SyncClient_races` | 2 threads, 2 fields, 2 containers, 1 interrupt, all races (connect with connect, connect with disconnect) | `TypeOK`, `OwnDisconnectReleasesAll`, `SharedClosedOnce`; `DisconnectEnds`, `BegunIsLetGo` under fairness |
| `SyncClient_interrupts` | 2 threads, 3 fields, 2 interrupts, connect kept apart | `LostOnlyByInterrupt`, `FirstInterruptReRaised`, refinement of `Connection` |
| `SyncClient_ctrl_c` | 1 thread, 2 fields, 1 interrupt | violation, finding 2 |
| `ServiceConfigCache_caches` | 2 threads, a class that opens channels of its own, derived from one that only shares them, 2 services with methods of every kind, one tuple for shared channels (two misses of one key, and of two keys, with imports and broken iterations at every place between them); callers pass a config built of a service listed twice, and one of their own that names every path twice, those of actions too | `TypeOK`, `NeverRetriesAnAction`, `AlwaysAccepted`, `StaleLosesOnlyRetries`, `LookupIsWhole`, `OneClassOnePolicy` |
| `ServiceConfigCache_shared` | one class whose module does not name its generated module | violation, finding 3 |
| `ServiceCalls_calls` | 1 thread, a class whose base is of another module, 2 channels, 5 attempts, 2 pings; callers pass configs of their own, one that retries everything and one that is rejected (every order of imports, lookups and openings, a caller's options before the default ones of the same class and after, then every fate of a call of every method on either channel). One class is enough: what classes and threads do to each other is `ServiceConfigCache_caches`'s | `CallsTypeOK`, `ActsAtMostOnce`, `RetriedIfKnown`; `CallEnds` under fairness |
| `ClientConfig_pems` | 2 PEMs, one binary certificate, the empty one, as `str`, `bytes` or absent in each field; no bound on the length of a history | `TypeOK`, `NeverAborts`, `ChannelAsGiven`, `NoPlaintextWithIdentity`, `RoundTripKeeps` |
| `ClientConfig_equal` | the same | violation, finding 4 |
| `ConfigCodec_relay` | an older and a newer client; a mandatory `str`, the PEMs of an identity, a `bool` that defaults to `True`, an `Optional[int]`, an `Enum`, a nested dataclass that holds another and an `Any` that defaults to NaN; values each keeps, converts and refuses, an infinity, a mapping keyed by a number, `bytes`, an object JSON cannot hold; callers vary at most 3 fields at once (enough for both halves of an identity and a third field); no bound on the number of hops (the instance has finitely many configs) | `TypeOK`, `ReadIsTyped`, `CarriedUnchanged`, `SkewResetsToDefault`, `RefusedOnlyUnfit` |

Ids, tasks and worker threads are interchangeable in the properties, hence the
symmetry sets; the runs with liveness properties use none. `CHECK_DEADLOCK FALSE` appears where
the system stops by itself: a call that has ended and left nothing on the wire
(`ServiceCalls`), and the bounded number of channels and imports
(`ServiceConfigCache`).

### Fairness

* `AsyncClient`: weak fairness of `CloseEnds` per task. The event loop resumes a
  task whose awaited future is done, and every close is assumed to end somehow.
  Connecting, disconnecting and being cancelled are never forced.
* `SyncClient`: weak fairness of the steps of a running `disconnect` per thread:
  the operating system schedules every thread and every `close()` ends.
  Interrupts are not fair. `BegunIsLetGo` needs no more: once the sweep of a container has
  begun, that container is let go, whatever close() raises and whoever interrupts.
* `ServiceCalls`: weak fairness of `PingTimeout` and `Retry`, two timers of gRPC's.
  Nothing is assumed of the server, which may never answer, of the network, of
  imports and lookups, or of a deadline, which callers need not set. So a call may
  wait for ever, and `CallEnds` says when: on a live connection whose server is
  silent, or on one that died when the pings were used up (`Unnoticed`). However
  connections die otherwise, under one attempt after the other, the call ends.

## What TLC found

1. **A disconnect that outlives a reconnect clears the new container**
   (`ClearsOnlyReleased`, `async_base_client.py:157,167`). Two tasks disconnect
   one client; one ends; its caller connects again; the other goes on with the
   fields of the new container from where it was and then clears it. The
   channels of the fields it had passed are never closed. The docstring
   (131-135) says every channel is attempted. Callers who await every disconnect
   before they connect are safe: `NoOrphan` and `ConnSpec`, checked and proved.
2. **A Ctrl-C that follows another error is dropped** (`InterruptReRaised`,
   `base_client.py:161`). The loop keeps the first error only: if a close() or a
   lookup has raised before, a KeyboardInterrupt that the loop catches is forgotten
   and the earlier error comes out. The comment at 158-159 says of the interrupt
   that "it is re-raised after the loop"; the docstring (129-131), which promises the
   first error, agrees with the code. What holds: an interrupt that is the first
   thing to go wrong comes out, and a later one never leaves the call to return
   normally (`FirstInterruptReRaised`, checked and proved).
3. **A shared channel can change retry behaviour** (`SharedChangesNothing`,
   `grpc_retry_policy.py:271`, against the docstring at 257-259): services are
   pooled over the classes, so a class whose modules do not reveal its generated
   module gains the retries another class's module reveals. It gains them only
   for methods that are harmless to repeat (`NeverRetriesAnAction`).
4. **`b""` does not survive a round trip as an equal config** (`RoundTripEqual`,
   `base_client_config.py:361`, against 314-315): it comes back as `""`. The
   credentials a channel gets are the same (`ChannelAsGiven`), and equality holds
   but for empty PEMs (`RoundTripKeeps`).

No finding, since the docstring (`base_client.py:129-131`) speaks of an interrupt
*during* a close(): one that strikes elsewhere in `disconnect`, at the jump back to
the loop's head or between the recording of an id and the call of `close()`, does
leave channels open. `LostOnlyByInterrupt` says that nothing else loses any.

## What is proved

Every safety property the passing runs check is proved for every value of the
constants: the theorems of `PROJECT.json`, 32 in all.
They hold under the named assumptions of the modules:

* `Assumption` (both clients), `CacheAssumption`, `PemAssumption`: the constants
  have their types, and an id is never the absence of a channel. There may be any
  number of tasks, threads, fields, classes, modules and PEMs, and infinitely many.
* `MethodsAssumption`: the methods are audited (above), and there are finitely many,
  as there are descriptors in a process. That matters to `AlwaysAccepted` and to what
  a lookup retries: the code turns a set of services into a list.
* of `ConfigCodec`: a field is the same in all clients that have it and a class has both
  halves of an identity or neither (`SchemaAssumption`); the names of types are
  different (`TypeNameAssumption`); nesting ends, and the values there are include what
  is made of them (`ValueAssumption`, `ClosureAssumption`); a builtin makes a value of
  its type, `str` takes any, an `Enum` its members' values (`BuiltinsAssumption`);
  defaults have the types of their fields (`DefaultAssumption`); the text of a key is a
  str, and of one key of a mapping (`KeyAssumption`); callers pass fields of
  some client (`PassedAssumption`). Classes, fields, values and the depth of their
  nesting are any number. TLC evaluates all of them on the run's instance.

`~Early` (`AsyncClient`) and `~Races` (`SyncClient`) are hypotheses of the theorems
that need them: callers who await, or keep apart, what the code does not. Finding 1
and the runs with races show what is lost without them.

### Clients

* `AsyncClient_proofs`. `TypeCorrect` needs only that `RunOn` starts a close on a
  field whose lookup gave a channel (`LoopSteps`). `SweptSoFarHolds` and
  `OwnDisconnectReleases` rest on the invariant `IInv` (`TypeOK /\ SweptSoFar`):
  `OwnDisconnectReleasesAll` is about the last step only, and is not inductive;
  `SweptSoFar` says at each suspension that nothing is left behind the sweep and
  that every id in `closed` is of an attempted channel, the second because an id
  alone decides what is skipped. Containers are numbered in the order they are
  built, so a sweep whose container is in place is never looking at a later one.
  `RaisesTheFirst` and `ClosesEachOnce` rest on `History`: in every frame that waits,
  the error kept is the first one met (`Remembers`) and every channel closed has its
  id in `closed`. `NoOrphanIfAwaited` and `ImplementsConnection` assume `~Early`;
  `AwaitedInv` adds to `IInv` that all frames in flight are of the current container
  or there is none, and that let-go containers are attempted. `ImplementsConnection`
  maps `Disconnect` and `Close*` to `Release`, `Clear` or a stutter. It never takes
  `Connection`'s `Interrupt`: nothing interrupts between two steps of an event loop,
  so `interrupts` maps to 0.
* `SyncClient_proofs`. Here a read and the write that follows are two steps, so what
  one thread has passed may have been closed by it or by another. `Typed` adds to
  `TypeOK` what a frame may hold at each `pc`: a struck one has an error, the interrupt itself if
  nothing came before it, a closing one
  has a channel of the container it started on and its id (`FirstInterruptComesOut`,
  `ClosesEachOnce`). `AllSwept`: as long as the client holds the container a thread started on
  and no interrupt has struck it outside a close, all the thread has passed, and all
  it would skip, is attempted (`EveryChannelAttempted`, with `Unused`: nobody uses a
  client still in `__init__`). With `~Races`, `Careful` says that a connect past its
  check is alone and a loop runs over the client's container or one already cleared;
  from it follow `NothingElseLost` and `ImplementsConnection`, where the step that
  strikes a container outside a close() is `Connection`'s `Interrupt`.

### Retry policy and calls

* `RetryPolicy_proofs`. A config built from any list of services retries exactly the
  idempotent methods of those services and names no method path twice
  (`BuiltConfig`), whatever is listed how often; by `Audited`, no retried method acts.
* `ServiceConfigCache_proofs` has three inductive invariants, one on the other.
  `FitEverywhere`: every config in the three caches, in the frames of the misses
  under way and on channels with a config of the package's is whole, accepted and
  harmless; a hand-written one reaches no cache and no frame. The properties speak of
  channels, but a channel opened later gets what caches and
  frames hold now (`TypeCorrect`, `NoActionIsRetried`, `NoConfigIsRejected`).
  `NothingAhead`: none of them retries more than a fresh lookup would, and a lookup
  under way has found, or has still to look at, all that was due to it; both survive
  imports, since namespaces only grow (`StaleCostsOnlyRetries`, `LookupFindsAll`).
  `BuiltOnce`: of a class not raced, at most one thread builds the options, before
  they are cached (`ClassHasOnePolicy`).
* `ServiceCalls_proofs`. `EndToEnd` joins `FitEverywhere` with the call's own
  invariant: of a method the channel does not retry, executions and requests on the wire add up to
  at most one (`SentOnce`), and the call's channel stays open with the config it was
  opened with, since no step changes an open channel (`ActsAtMostOnceHolds`,
  `CallsTypeCorrect`). `RetriedIfKnownHolds` is the converse, that nothing known is lost
  on the way, and needs an invariant of its own, `KnownCovered`: every cache, every
  frame and every default channel covers what was known before anything was cached or
  looked up. A channel also shows that something is cached (`Traced`), so there is none
  while `known` still follows the imports.

### Client config

* `ClientConfig_proofs`. The invariant is that the config still holds the contents
  that were given, a truthy one as `bytes` (`HoldsWhatWasGiven`), through the encodings
  of construction and serialization. All four safety properties and `RoundTripKeeps` follow.
* `ConfigCodec_proofs`. Its writers and readers recurse over values of any depth.
  `ValueInduction` is induction over that depth for a *set* of values: a set that has
  every value whose items it has, has them all. With it `RecursionExists` shows that the
  recursive functions exist, so that each satisfies its own equation (`PlainDef`,
  `JsonDef`, `DecoderDef`, `PartsDef`). Five facts about the conversions are then proved
  by induction: `_to_plain` leaves no set and no instance (`PlainIsPlain`),
  the writers of JSON only what JSON has a type for, and of JSON text no key that is
  not a str (`JsonIsJson`), what is decoded for a
  field has its type (`DecodedTyped`), a typed value is never refused in whatever
  format it was written (`TypedReadsBack`), and a portable one is decoded to itself
  from each of its formats (`PortableComesBack`), an instance by being constructed anew.
  The properties speak of configs (`RefusedOnlyUnfit` also of the document refused), but
  a config may become a document and back: `IInv` says what a config holds in a field
  (`Held`: what it was meant to hold, if that is portable; what was first given, before
  any client has read it; a value of its type after) and that each entry of a document
  is a held value as some format writes it (`Sent`). It also says that no config, and no
  document written from one that was read, has half an identity: a PEM that was read is
  `None`, text or `bytes`, whose truth no writer changes (`WrittenPem`). TLC checked
  `IInv` on the run's instance before it was proved.

### Lemmas about data

`DataLemmas` proves what the provers and the installed libraries do not say of the
operators the models take from the community modules: `FlattenSeq` exists as the
recursive function it is defined to be (`FlattenSeqDef`), and its range is that of its parts
(`FlattenRange`); `SetToSeq` of a finite set lists each element once. The
libraries' induction theorems have operator parameters; `NatSetInduction` is
induction over the natural numbers for a *set*, derived from the well-foundedness of
`<`, which the provers can instantiate.

### Only model-checked

* All liveness (`DisconnectEnds`, `BegunIsReleased`, `BegunIsLetGo`, `CallEnds`): the
  provers have no rule for fairness and `ENABLED`.
* That the four findings are violations: a counterexample is TLC's.

## Not modelled

* `helpers.py`, `text.py`: pure functions that nothing else in the package calls
  with state at stake; packaging, hooks, CI.
* `host_and_port`: a pure function of one host; warnings, and the text of messages.
* A document that is no mapping (`from_dict` raises, or takes None for `{}` with
  `infer_missing`), an integer beyond 64 bits (what orjson makes of it is its own),
  and an infinite float for an `int` field: `int(inf)` raises OverflowError, which the
  `except (TypeError, ValueError)` at `base_client_config.py:240` does not turn into
  the ValueError that `from_dict` documents. The model has a conversion succeed or
  raise, not with what.
* Mappings with two keys of one text (JSON text then has both, and the reader takes
  the last), keys that a library refuses (an Enum's or a dataclass's for
  `json.dumps`), and text that is no UTF-8 (a lone surrogate, which orjson refuses).
* A field whose declared type differs between two versions of a client.
* The values of the remaining channel options; the gRPC engine beyond `RpcCall`.
* Resources `_initialize_services` opens before it raises: they belong to the
  subclass, and the client never sees them.

## Plan

What is modelled is the part of the package that has state or steps, and all of its
safety properties are proved. What would extend it, should the code change: new
channel options that interact with the service config (`ServiceConfigCache`), and
fields of new kinds in a config (`Coerced`, `_decode_value`), for which a lemma on the
new case under `DecodedTyped`, `TypedReadsBack` and `PortableComesBack` is enough.
