------------------------- MODULE ServiceConfigCache -------------------------
(***************************************************************************)
(* How a channel comes by its service config.  The services of a class are *)
(* discovered by looking for generated modules in the namespaces of the    *)
(* modules that define the class and its bases, one after the other; the   *)
(* results are cached for the life of the process, in layers:              *)
(* service_config_json_for, _grpc_options_items_for on top of it (one per  *)
(* interface module: a class is sync or async, so their keys are apart),   *)
(* and service_config_json_for_classes for shared channels.  Python        *)
(* imports go on meanwhile, and an lru_cache lets several threads miss the *)
(* same key at once: it holds no lock while it computes a value.           *)
(***************************************************************************)
EXTENDS RetryPolicy, SequencesExt

CONSTANTS
    Threads,      \* the threads that build services or channels
    Classes,      \* the concrete service-interface classes
    Alone,        \* those that also open channels of their own
    Modules,      \* the Python modules that define them and their bases
    Mro,          \* class -> the modules of the classes of its __mro__, in order
    Pb2,          \* the generated *_pb2 modules
    ServicesIn,   \* pb2 module -> the services its DESCRIPTOR lists
    StubOf,       \* class -> the service its stub talks to
    Imports,      \* module -> the pb2 modules its body imports
    Tuples,       \* the tuples of classes shared channels are built for
    CallerLists,  \* the lists of services callers build a config of their own from
    CallerConfigs, \* the configs callers write themselves, whatever these retry
    MaxChannels   \* bound: how many channels are opened

ASSUME CacheAssumption ==
    /\ Alone \subseteq Classes
    /\ Mro \in [Classes -> Seq(Modules)]
    /\ ServicesIn \in [Pb2 -> SUBSET Services]
    /\ StubOf \in [Classes -> Services]
    /\ Imports \in [Modules -> SUBSET Pb2]
    /\ Tuples \subseteq Seq(Classes)
    /\ CallerLists \subseteq Seq(Services)
    /\ CallerConfigs \subseteq Configs
    /\ MaxChannels \in Nat

Unset == [m \in {} |-> 0]        \* no cache entry: no config has an empty domain
Keys  == {<<c>> : c \in Classes} \cup Tuples

VARIABLES
    namespace,      \* module -> the pb2 modules its namespace refers to so far
    configFor,      \* lru_cache of service_config_json_for
    itemsFor,       \* lru_cache of _grpc_options_items_for
    configForAll,   \* lru_cache of service_config_json_for_classes
    miss,           \* the cache miss each thread is in
    channels,       \* the channels opened
    raced           \* history: classes two threads built the options of at once

caches == <<configFor, itemsFor, configForAll>>
vars == <<namespace, caches, miss, channels, raced>>

ModulesOf(classes) == FlattenSeq([i \in DOMAIN classes |-> Mro[classes[i]]])
Visible(modules) == UNION {namespace[m] : m \in Range(modules)}

\* A miss, for whom (`by`) and for which classes: "scanning", the modules still to
\* look at and the pb2 modules found so far, and, history, those `due` because
\* they were visible when it began; "caching", the config that is cached next.
Idle == [pc |-> "idle", by |-> "none", classes |-> <<>>, todo |-> <<>>,
         found |-> {}, due |-> {}, config |-> Unset]
Scanning(by, classes) ==
    [Idle EXCEPT !.pc = "scanning", !.by = by, !.classes = classes,
                 !.todo = ModulesOf(classes), !.due = Visible(ModulesOf(classes))]
Caching(c, config) ==
    [Idle EXCEPT !.pc = "caching", !.by = "own", !.classes = <<c>>, !.config = config]
At(t, pc) == miss[t].pc = pc

Init ==
    /\ namespace = [m \in Modules |-> {}]
    /\ configFor = [c \in Classes |-> Unset]
    /\ itemsFor = [c \in Classes |-> Unset]
    /\ configForAll = [ts \in Tuples |-> Unset]
    /\ miss = [t \in Threads |-> Idle]
    /\ channels = {}
    /\ raced = {}

-----------------------------------------------------------------------------
\* `[services[name] for name in sorted(services)]`: each service once.
ConfigOf(found) == build_service_config_json(SetToSeq(UNION {ServicesIn[p] : p \in found}))

\* What a lookup that nothing disturbs finds.
FreshConfig(classes) == ConfigOf(Visible(ModulesOf(classes)))

\* What a caller may pass as `grpc.service_config`: nothing, what the public
\* build_service_config_json makes of a list that may name a service twice, or any
\* JSON text, which is passed on as it is.
Built  == {build_service_config_json(services) : services \in CallerLists}
Passed == {Unset} \cup Built \cup CallerConfigs

\* Whether the config of a channel is one that the package made.
OfPackage(ch) == ch.default \/ ch.config \in Built

\* The defaults are merged with the caller's options; the caller's win.  Opening
\* may be refused after the caches were asked (see ClientConfig).
OpenChannel(by, classes, default, passed) ==
    \/ /\ Cardinality(channels) < MaxChannels
       /\ channels' = channels \cup {[by |-> by, classes |-> classes,
                                      config |-> IF passed = Unset THEN default ELSE passed,
                                      default |-> passed = Unset]}
    \/ UNCHANGED channels

\* A module's body, or a later import statement, binds a name of a pb2 module.
Import(m, p) ==
    /\ p \in Imports[m] \ namespace[m]
    /\ namespace' = [namespace EXCEPT ![m] = @ \cup {p}]
    /\ UNCHANGED <<caches, miss, channels, raced>>

-----------------------------------------------------------------------------
Go(t, f) == miss' = [miss EXCEPT ![t] = f]

\* A thread begins to build a value for a key no cache has an answer for.
Begin(t, f) ==
    /\ At(t, "idle")
    /\ Go(t, f)
    /\ UNCHANGED <<namespace, caches, channels>>

\* Whether this makes two threads that build the options of the class.
Race(c) ==
    raced' = IF \E u \in Threads : miss[u].by = "own" /\ miss[u].classes = <<c>>
             THEN raced \cup {c} ELSE raced

\* service_config_json_for misses for a caller of the public function.
Ask(t, c) ==
    /\ configFor[c] = Unset
    /\ Begin(t, Scanning("ask", <<c>>))
    /\ UNCHANGED raced

\* A mutant: the entry below is read, and not made when it is missing.
OptionsMiss_AssumesHit(t, c) ==
    /\ itemsFor[c] = Unset
    /\ Begin(t, Caching(c, configFor[c]))
    /\ Race(c)

\* A mutant: an empty config counts as no entry at all.
OptionsMiss_EmptyMisses(t, c) ==
    /\ ~(itemsFor[c] # Unset /\ Retried(itemsFor[c]) # {})
    /\ Begin(t, IF configFor[c] # Unset /\ Retried(configFor[c]) # {}
                THEN Caching(c, configFor[c]) ELSE Scanning("own", <<c>>))
    /\ Race(c)

\* __init__ without a channel of the caller's: _grpc_options_items_for misses, and
\* asks service_config_json_for, which hits or misses.
OptionsMiss(t, c) ==
    /\ itemsFor[c] = Unset
    /\ Begin(t, IF configFor[c] = Unset THEN Scanning("own", <<c>>) ELSE Caching(c, configFor[c]))
    /\ Race(c)

\* build_shared_channel: service_config_json_for_classes misses.
SharedMiss(t, ts) ==
    /\ configForAll[ts] = Unset
    /\ Begin(t, Scanning("shared", ts))
    /\ UNCHANGED raced

\* _services_for looks at the next module.
Scan(t) ==
    /\ At(t, "scanning")
    /\ miss[t].todo # <<>>
    /\ Go(t, [miss[t] EXCEPT !.found = @ \cup namespace[Head(miss[t].todo)], !.todo = Tail(@)])
    /\ UNCHANGED <<namespace, caches, channels, raced>>

\* A mutant: the error ends the loop, and what was found so far is cached.
ScanRaises_KeepsPart(t) ==
    /\ At(t, "scanning")
    /\ miss[t].todo # <<>>
    /\ Go(t, [miss[t] EXCEPT !.todo = <<>>])
    /\ UNCHANGED <<namespace, caches, channels, raced>>

\* Another thread binds a new name in the module while `vars(module).values()` is
\* iterated: "dictionary changed size during iteration" leaves the caller's call.
ScanRaises(t) ==
    /\ At(t, "scanning")
    /\ miss[t].todo # <<>>
    /\ Go(t, Idle)
    /\ UNCHANGED <<namespace, caches, channels, raced>>

\* The last module has been looked at: the config is ready to be cached.
Found(t, by) == At(t, "scanning") /\ miss[t].todo = <<>> /\ miss[t].by \in by

\* The lru_cache of service_config_json_for stores the value, over any other that
\* a thread stored meanwhile.
StoreConfig(t) ==
    LET c      == miss[t].classes[1]
        config == ConfigOf(miss[t].found)
    IN /\ Found(t, {"ask", "own"})
       /\ configFor' = [configFor EXCEPT ![c] = config]
       /\ Go(t, IF miss[t].by = "ask" THEN Idle ELSE Caching(c, config))
       /\ UNCHANGED <<namespace, itemsFor, configForAll, channels, raced>>

\* A mutant: the caller's options are merged into the cached list itself.
OpenBuilt_MergesInPlace(t, passed) ==
    LET c     == miss[t].classes[1]
        items == IF passed = Unset THEN miss[t].config ELSE passed
    IN /\ At(t, "caching")
       /\ itemsFor' = [itemsFor EXCEPT ![c] = items]
       /\ OpenChannel("own", {c}, items, passed)
       /\ Go(t, Idle)
       /\ UNCHANGED <<namespace, configFor, configForAll, raced>>

\* The options are cached, and __init__ opens a channel with them.
OpenBuilt(t, passed) ==
    LET c == miss[t].classes[1]
    IN /\ At(t, "caching")
       /\ itemsFor' = [itemsFor EXCEPT ![c] = miss[t].config]
       /\ OpenChannel("own", {c}, miss[t].config, passed)
       /\ Go(t, Idle)
       /\ UNCHANGED <<namespace, configFor, configForAll, raced>>

\* __init__ when the options of the class are cached.
OpenCached(c, passed) ==
    /\ itemsFor[c] # Unset
    /\ OpenChannel("own", {c}, itemsFor[c], passed)
    /\ UNCHANGED <<namespace, caches, miss, raced>>

OpenSharedBuilt(t, passed) ==
    LET config == ConfigOf(miss[t].found)
    IN /\ Found(t, {"shared"})
       /\ configForAll' = [configForAll EXCEPT ![miss[t].classes] = config]
       /\ OpenChannel("shared", Range(miss[t].classes), config, passed)
       /\ Go(t, Idle)
       /\ UNCHANGED <<namespace, configFor, itemsFor, raced>>

OpenSharedCached(ts, passed) ==
    /\ configForAll[ts] # Unset
    /\ OpenChannel("shared", Range(ts), configForAll[ts], passed)
    /\ UNCHANGED <<namespace, caches, miss, raced>>

Next ==
    \/ \E m \in Modules, p \in Pb2 : Import(m, p)
    \/ \E t \in Threads :
        \/ \E c \in Alone : Ask(t, c) \/ OptionsMiss(t, c)
        \/ \E ts \in Tuples : SharedMiss(t, ts)
        \/ Scan(t) \/ ScanRaises(t) \/ StoreConfig(t)
        \/ \E passed \in Passed : OpenBuilt(t, passed) \/ OpenSharedBuilt(t, passed)
    \/ \E passed \in Passed :
        \/ \E c \in Alone : OpenCached(c, passed)
        \/ \E ts \in Tuples : OpenSharedCached(ts, passed)

Spec == Init /\ [][Next]_vars

-----------------------------------------------------------------------------
\* Every variable has its type, and a cached config is a whole config.
TypeOK ==
    /\ namespace \in [Modules -> SUBSET Pb2]
    /\ configFor \in [Classes -> Configs \cup {Unset}]
    /\ itemsFor \in [Classes -> Configs \cup {Unset}]
    /\ configForAll \in [Tuples -> Configs \cup {Unset}]
    /\ miss \in [Threads -> [pc : {"idle", "scanning", "caching"},
                             by : {"none", "ask", "own", "shared"}, classes : Keys \cup {<<>>},
                             todo : Seq(Modules), found : SUBSET Pb2, due : SUBSET Pb2,
                             config : Configs \cup {Unset}]]
    /\ channels \subseteq [by : {"own", "shared"}, classes : SUBSET Classes,
                        config : Configs, default : BOOLEAN]
    /\ raced \subseteq Classes

\* Module docstring: a non-idempotent RPC is never re-sent by policy.  Whatever
\* was imported when, whichever cache answered, and whatever configs of their own
\* callers passed for other channels of the class, no channel with a config that the
\* package made retries a method whose repetition acts twice.
NeverRetriesAnAction ==
    \A ch \in channels : OfPackage(ch) => \A m \in Retried(ch.config) : ~m.acts

\* build_service_config_json(): grpc-core "rejects a config that names a method
\* path twice, and then fails every RPC on the channel".  It accepts every config
\* that the package made, of services listed or found any number of times, also
\* when others that it rejects were passed for the same class.
AlwaysAccepted == \A ch \in channels : OfPackage(ch) => Accepted(ch.config)

\* service_config_json_for(): what is not found costs "fewer retries, never a
\* duplicated side effect".  A config cached before an import went through
\* retries a subset of what a fresh one would, also when threads overwrite each
\* other's entries.
StaleLosesOnlyRetries ==
    \A ch \in channels : ch.default =>
        \A classes \in Keys : Range(classes) = ch.classes =>
            Retried(ch.config) \subseteq Retried(FreshConfig(classes))

\* service_config_json_for(): the other half.  What is about to be cached is whole:
\* it holds all that was visible when the lookup began, although the namespaces
\* change under it and an import may break off the iteration.
LookupIsWhole ==
    \A t \in Threads : Found(t, {"ask", "own", "shared"}) => miss[t].due \subseteq miss[t].found

\* The channels opened for these classes with the default config.
DefaultsOf(by, classes) ==
    {ch \in channels : ch.default /\ ch.by = by /\ ch.classes = classes}

\* _grpc_options_items_for(): "built once per class".  All services of one class
\* get one default policy for the whole process, however imports fall between
\* their openings and whatever options other instances were given, unless two
\* threads built the options of the class at once.
OneClassOnePolicy ==
    \A c \in Classes \ raced : \A ch, dh \in DefaultsOf("own", {c}) : ch.config = dh.config

\* service_config_json_for_classes(): "a shared channel changes no method's
\* retry behaviour": it gives the methods of a class's own service the policy
\* the class's own channel gives them.  (It fails; see the README.)
SharedChangesNothing ==
    \A ts \in Tuples : \A ch \in DefaultsOf("shared", Range(ts)) :
        \A c \in Range(ts) : \A own \in DefaultsOf("own", {c}) :
            \A m \in Methods : m.service = StubOf[c] =>
                (m \in Retried(ch.config) <=> m \in Retried(own.config))
=============================================================================
