---------------------- MODULE ServiceConfigCache_proofs ----------------------
(***************************************************************************)
(* The promises of the service-config caches, for any classes, modules,    *)
(* generated modules, threads and import orders.                           *)
(***************************************************************************)
EXTENDS ServiceConfigCache, RetryPolicy_proofs

-----------------------------------------------------------------------------
(***************************************************************************)
(* What a lookup finds, and the config that is made of it.                 *)
(***************************************************************************)
LEMMA ServicesFinite == IsFiniteSet(Services)
<1> DEFINE f == [m \in Methods |-> m.service]
<1>1. f \in Surjection(Methods, Services)
  BY DEF Surjection, Services
<1>2. QED
  BY <1>1, MethodsAssumption, FS_Surjection

\* The services of the generated modules found.
ServicesOf(found) == UNION {ServicesIn[p] : p \in found}

LEMMA ServicesOfKnown ==
    ASSUME NEW found \in SUBSET Pb2
    PROVE  ServicesOf(found) \in SUBSET Services /\ IsFiniteSet(ServicesOf(found))
<1>1. ServicesOf(found) \in SUBSET Services
  BY CacheAssumption DEF ServicesOf
<1>2. QED
  BY <1>1, ServicesFinite, FS_Subset

\* The config retries the idempotent methods of the services found, and no other.
LEMMA FoundConfig ==
    ASSUME NEW found \in SUBSET Pb2
    PROVE  /\ ConfigOf(found) \in Configs
           /\ Accepted(ConfigOf(found))
           /\ Retried(ConfigOf(found)) =
                 {m \in Methods : is_idempotent_method(m) /\ m.service \in ServicesOf(found)}
<1> DEFINE services == SetToSeq(ServicesOf(found))
<1>1. services \in Seq(ServicesOf(found)) /\ Range(services) = ServicesOf(found)
  BY ServicesOfKnown, SetToSeqProperties
<1>2. ConfigOf(found) = build_service_config_json(services)
  BY DEF ConfigOf, ServicesOf
<1> HIDE DEF services
<1>3. QED
  BY <1>1, <1>2, BuiltConfig

LEMMA MoreFoundMoreRetried ==
    ASSUME NEW more \in SUBSET Pb2, NEW found \in SUBSET more
    PROVE  Retried(ConfigOf(found)) \subseteq Retried(ConfigOf(more))
<1>1. ServicesOf(found) \subseteq ServicesOf(more)
  BY DEF ServicesOf
<1>2. QED
  BY <1>1, FoundConfig

\* The modules of several classes are those of each of them.
LEMMA ModulesOfClasses ==
    ASSUME NEW classes \in Seq(Classes)
    PROVE  /\ ModulesOf(classes) \in Seq(Modules)
           /\ Range(ModulesOf(classes)) = UNION {Range(Mro[c]) : c \in Range(classes)}
<1> DEFINE parts == [i \in DOMAIN classes |-> Mro[classes[i]]]
<1>1. /\ Len(classes) \in Nat /\ DOMAIN classes = 1..Len(classes)
      /\ \A i \in 1..Len(classes) : classes[i] \in Classes
  BY LenProperties, ElementOfSeq
<1>2. \A i \in 1..Len(classes) : parts[i] \in Seq(Modules)
  BY <1>1, CacheAssumption
<1>3. parts \in [1..Len(classes) -> Seq(Modules)]
  BY <1>1, <1>2
<1>4. parts \in Seq(Seq(Modules)) /\ Len(parts) = Len(classes)
  <2> HIDE DEF parts
  <2>1. QED
    BY <1>1, <1>3
<1>5. /\ FlattenSeq(parts) \in Seq(Modules)
      /\ Range(FlattenSeq(parts)) = UNION {Range(parts[i]) : i \in 1..Len(parts)}
  <2> HIDE DEF parts
  <2>1. QED
    BY <1>4, FlattenRange
<1>6. UNION {Range(parts[i]) : i \in 1..Len(parts)} = UNION {Range(Mro[c]) : c \in Range(classes)}
  <2>1. Range(classes) = {classes[i] : i \in 1..Len(classes)}
    BY <1>1 DEF Range
  <2>2. \A i \in 1..Len(classes) : parts[i] = Mro[classes[i]]
    BY <1>1
  <2>3. \A i \in 1..Len(parts) : \E c \in Range(classes) : parts[i] = Mro[c]
    BY <1>4, <2>1, <2>2
  <2>4. \A c \in Range(classes) : \E i \in 1..Len(parts) : parts[i] = Mro[c]
    BY <1>4, <2>1, <2>2
  <2> HIDE DEF parts
  <2>5. QED
    BY <2>3, <2>4
<1>7. QED
  BY <1>5, <1>6 DEF ModulesOf

LEMMA KeysAreLists ==
    /\ \A c \in Classes : <<c>> \in Keys
    /\ Tuples \subseteq Keys
    /\ Keys \subseteq Seq(Classes)
    /\ \A classes \in Keys : Range(classes) \in SUBSET Classes
<1>1. \A c \in Classes : <<c>> \in Seq(Classes)
  OBVIOUS
<1>2. Keys \subseteq Seq(Classes)
  BY <1>1, CacheAssumption DEF Keys
<1>3. ASSUME NEW classes \in Seq(Classes)
      PROVE  Range(classes) \in SUBSET Classes
  <2>1. DOMAIN classes = 1..Len(classes) /\ \A i \in 1..Len(classes) : classes[i] \in Classes
    BY LenProperties, ElementOfSeq
  <2>2. QED
    BY <2>1 DEF Range
<1>4. QED
  BY <1>2, <1>3 DEF Keys

LEMMA OneClassList ==
    ASSUME NEW c
    PROVE  Range(<<c>>) = {c} /\ <<c>>[1] = c
BY DEF Range

Namespaces == [Modules -> SUBSET Pb2]

LEMMA VisibleIsPb2 ==
    ASSUME namespace \in Namespaces, NEW modules \in Seq(Modules)
    PROVE  Visible(modules) \in SUBSET Pb2
BY LenProperties, ElementOfSeq DEF Visible, Namespaces, Range

-----------------------------------------------------------------------------
(***************************************************************************)
(* The first inductive invariant: types, and that every config anywhere,   *)
(* but those that callers wrote, which are in no cache, is one the package *)
(* builds: whole, accepted by grpc-core, harmless.                         *)
(***************************************************************************)
Fit == {config \in Configs : Accepted(config) /\ \A m \in Retried(config) : ~m.acts}

\* A thread's miss, and whose it is.
Frames ==
    {f \in [pc : {"idle", "scanning", "caching"}, by : {"none", "ask", "own", "shared"},
            classes : Keys \cup {<<>>}, todo : Seq(Modules), found : SUBSET Pb2,
            due : SUBSET Pb2, config : Fit \cup {Unset}] :
        /\ f.by \in {"ask", "own"} => \E c \in Classes : f.classes = <<c>>
        /\ f.by = "shared" => f.classes \in Tuples
        /\ f.pc = "caching" => f.by = "own" /\ f.config \in Fit}

FitChannels ==
    {ch \in [by : {"own", "shared"}, classes : SUBSET Classes, config : Configs,
             default : BOOLEAN] :
        OfPackage(ch) => ch.config \in Fit}

FitEverywhere ==
    /\ namespace \in Namespaces
    /\ configFor \in [Classes -> Fit \cup {Unset}]
    /\ itemsFor \in [Classes -> Fit \cup {Unset}]
    /\ configForAll \in [Tuples -> Fit \cup {Unset}]
    /\ miss \in [Threads -> Frames]
    /\ channels \subseteq FitChannels
    /\ raced \subseteq Classes

LEMMA BuiltIsFit ==
    ASSUME NEW services \in Seq(Services)
    PROVE  build_service_config_json(services) \in Fit
BY BuiltConfig, BuiltRetriesNoAction DEF Fit

LEMMA FoundIsFit ==
    ASSUME NEW found \in SUBSET Pb2
    PROVE  ConfigOf(found) \in Fit
BY FoundConfig, BuiltRetriesNoAction DEF Fit, ConfigOf

\* What callers pass is a config; what they had the package build is a fit one.
LEMMA PassedIsConfig ==
    \A passed \in Passed : \/ passed = Unset
                           \/ passed \in Configs /\ (passed \in Built => passed \in Fit)
<1>1. \A passed \in Built : passed \in Fit
  BY BuiltIsFit, CacheAssumption DEF Built
<1>2. Fit \subseteq Configs
  BY DEF Fit
<1>3. QED
  BY <1>1, <1>2, CacheAssumption DEF Passed

LEMMA IdleFrame == Idle \in Frames /\ Idle.pc = "idle" /\ Idle.by = "none"
<1>1. <<>> \in Seq(Modules)
  OBVIOUS
<1>2. QED
  BY <1>1 DEF Frames, Idle

LEMMA CachingFrame ==
    ASSUME NEW c \in Classes, NEW config \in Fit
    PROVE  /\ Caching(c, config) \in Frames
           /\ Caching(c, config).pc = "caching" /\ Caching(c, config).by = "own"
           /\ Caching(c, config).classes = <<c>> /\ Caching(c, config).config = config
<1>1. <<>> \in Seq(Modules) /\ <<c>> \in Keys
  BY KeysAreLists
<1>2. QED
  BY <1>1 DEF Frames, Caching, Idle

LEMMA ScanningFrame ==
    ASSUME namespace \in Namespaces, NEW by, NEW classes,
           \/ by \in {"ask", "own"} /\ \E c \in Classes : classes = <<c>>
           \/ by = "shared" /\ classes \in Tuples
    PROVE  /\ Scanning(by, classes) \in Frames
           /\ Scanning(by, classes).pc = "scanning" /\ Scanning(by, classes).by = by
           /\ Scanning(by, classes).classes = classes
           /\ Scanning(by, classes).todo = ModulesOf(classes)
           /\ Scanning(by, classes).found = {}
           /\ Scanning(by, classes).due = Visible(ModulesOf(classes))
<1>1. classes \in Keys /\ classes \in Seq(Classes)
  BY KeysAreLists
<1>2. ModulesOf(classes) \in Seq(Modules) /\ Visible(ModulesOf(classes)) \in SUBSET Pb2
  BY <1>1, ModulesOfClasses, VisibleIsPb2
<1>3. QED
  BY <1>1, <1>2 DEF Frames, Scanning, Idle

\* Looking at one module more.
Scanned(f) ==
    [f EXCEPT !.found = @ \cup namespace[Head(f.todo)], !.todo = Tail(@)]

LEMMA ScannedFrame ==
    ASSUME namespace \in Namespaces, NEW f \in Frames, f.todo # <<>>
    PROVE  /\ Scanned(f) \in Frames
           /\ Scanned(f).pc = f.pc /\ Scanned(f).by = f.by /\ Scanned(f).classes = f.classes
           /\ Scanned(f).due = f.due /\ Scanned(f).config = f.config
           /\ Scanned(f).todo = Tail(f.todo)
           /\ Scanned(f).found = f.found \cup namespace[Head(f.todo)]
<1>1. f.todo \in Seq(Modules) /\ f.found \in SUBSET Pb2
  BY DEF Frames
<1>2. Head(f.todo) \in Modules /\ Tail(f.todo) \in Seq(Modules)
  BY <1>1, HeadTailProperties
<1>3. f.found \cup namespace[Head(f.todo)] \in SUBSET Pb2
  BY <1>1, <1>2 DEF Namespaces
<1>4. QED
  BY <1>2, <1>3 DEF Frames, Scanned

\* A thread goes on with another frame.
LEMMA GoFrames ==
    ASSUME FitEverywhere, NEW t \in Threads, NEW f \in Frames, Go(t, f)
    PROVE  miss' \in [Threads -> Frames]
BY DEF FitEverywhere, Go

\* The channel that is opened has the default config, which is fit, or the caller's.
LEMMA OpenFits ==
    ASSUME channels \subseteq FitChannels,
           NEW by \in {"own", "shared"}, NEW classes \in SUBSET Classes,
           NEW default \in Fit, NEW passed \in Passed,
           OpenChannel(by, classes, default, passed)
    PROVE  /\ channels' \subseteq FitChannels
           /\ \A ch \in channels' \ channels :
                 ch.default => /\ ch.by = by /\ ch.classes = classes
                               /\ ch.config = default
<1> DEFINE new == [by |-> by, classes |-> classes,
                   config |-> IF passed = Unset THEN default ELSE passed,
                   default |-> passed = Unset]
<1>1. channels' = channels \/ channels' = channels \cup {new}
  BY DEF OpenChannel
<1>2. new.default = (passed = Unset) /\ new.config = (IF passed = Unset THEN default ELSE passed)
  OBVIOUS
<1>3. new \in FitChannels
  <2>1. default \in Configs
    BY DEF Fit
  <2>2. new.config \in Configs
    BY <1>2, <2>1, PassedIsConfig
  <2>3. OfPackage(new) => new.config \in Fit
    BY <1>2, PassedIsConfig DEF OfPackage
  <2>4. new \in [by : {"own", "shared"}, classes : SUBSET Classes, config : Configs,
                default : BOOLEAN]
    BY <2>2
  <2> HIDE DEF new
  <2>5. QED
    BY <2>3, <2>4 DEF FitChannels
<1>4. new.default => new.by = by /\ new.classes = classes /\ new.config = default
  BY <1>2
<1> HIDE DEF new
<1>5. QED
  BY <1>1, <1>3, <1>4

LEMMA FitInductive == FitEverywhere /\ [Next]_vars => FitEverywhere'
<1> SUFFICES ASSUME FitEverywhere, [Next]_vars
             PROVE  FitEverywhere'
  OBVIOUS
<1>0. Alone \subseteq Classes /\ namespace \in Namespaces
  BY CacheAssumption DEF FitEverywhere
<1>1. ASSUME NEW m \in Modules, NEW p \in Pb2, Import(m, p)
      PROVE  FitEverywhere'
  <2>1. namespace' \in Namespaces
    BY <1>0, <1>1 DEF Import, Namespaces
  <2>2. QED
    BY <1>1, <2>1 DEF Import, FitEverywhere, caches
<1>2. ASSUME NEW t \in Threads, NEW f \in Frames, Begin(t, f), raced' \subseteq Classes
      PROVE  FitEverywhere'
  <2>1. miss' \in [Threads -> Frames]
    BY <1>2, GoFrames DEF Begin
  <2>2. QED
    BY <1>2, <2>1 DEF Begin, FitEverywhere, caches
<1>3. ASSUME NEW t \in Threads, NEW c \in Alone, Ask(t, c)
      PROVE  FitEverywhere'
  <2>1. Scanning("ask", <<c>>) \in Frames
    BY <1>0, ScanningFrame
  <2>2. QED
    BY <1>2, <1>3, <2>1 DEF Ask, FitEverywhere
<1>4. ASSUME NEW t \in Threads, NEW c \in Alone, OptionsMiss(t, c)
      PROVE  FitEverywhere'
  <2>1. raced' \subseteq Classes
    BY <1>0, <1>4 DEF OptionsMiss, Race, FitEverywhere
  <2>2. CASE configFor[c] = Unset
    <3>1. Begin(t, Scanning("own", <<c>>))
      BY <1>4, <2>2 DEF OptionsMiss
    <3>2. Scanning("own", <<c>>) \in Frames
      BY <1>0, ScanningFrame
    <3>3. QED
      BY <1>2, <2>1, <3>1, <3>2
  <2>3. CASE configFor[c] # Unset
    <3>1. Begin(t, Caching(c, configFor[c]))
      BY <1>4, <2>3 DEF OptionsMiss
    <3>2. configFor[c] \in Fit
      BY <1>0, <2>3 DEF FitEverywhere
    <3>3. Caching(c, configFor[c]) \in Frames
      BY <1>0, <3>2, CachingFrame
    <3>4. QED
      BY <1>2, <2>1, <3>1, <3>3
  <2>4. QED
    BY <2>2, <2>3
<1>5. ASSUME NEW t \in Threads, NEW ts \in Tuples, SharedMiss(t, ts)
      PROVE  FitEverywhere'
  <2>1. Scanning("shared", ts) \in Frames
    BY <1>0, ScanningFrame
  <2>2. QED
    BY <1>2, <1>5, <2>1 DEF SharedMiss, FitEverywhere
<1>6. ASSUME NEW t \in Threads, Scan(t) \/ ScanRaises(t)
      PROVE  FitEverywhere'
  <2>1. PICK f \in Frames : Go(t, f)
    <3>1. CASE Scan(t)
      <4>1. miss[t] \in Frames /\ miss[t].todo # <<>>
        BY <3>1 DEF Scan, FitEverywhere
      <4>2. Go(t, Scanned(miss[t]))
        BY <3>1 DEF Scan, Scanned
      <4>3. QED
        BY <1>0, <4>1, <4>2, ScannedFrame
    <3>2. CASE ScanRaises(t)
      BY <3>2, IdleFrame DEF ScanRaises
    <3>3. QED
      BY <1>6, <3>1, <3>2
  <2>2. miss' \in [Threads -> Frames]
    BY <2>1, GoFrames
  <2>3. UNCHANGED <<namespace, caches, channels, raced>>
    BY <1>6 DEF Scan, ScanRaises
  <2>4. QED
    BY <2>2, <2>3 DEF FitEverywhere, caches
<1>7. ASSUME NEW t \in Threads, StoreConfig(t)
      PROVE  FitEverywhere'
  <2>1. miss[t] \in Frames /\ miss[t].by \in {"ask", "own"}
    BY <1>7 DEF StoreConfig, Found, FitEverywhere
  <2>2. PICK c \in Classes : miss[t].classes = <<c>>
    BY <2>1 DEF Frames
  <2>3. miss[t].classes[1] = c
    BY <2>2
  <2>4. PICK config \in Fit : config = ConfigOf(miss[t].found)
    BY <2>1, FoundIsFit DEF Frames
  <2>5. /\ configFor' = [configFor EXCEPT ![c] = config]
        /\ Go(t, IF miss[t].by = "ask" THEN Idle ELSE Caching(c, config))
        /\ UNCHANGED <<namespace, itemsFor, configForAll, channels, raced>>
    BY <1>7, <2>3, <2>4 DEF StoreConfig
  <2>6. miss' \in [Threads -> Frames]
    BY <2>5, GoFrames, IdleFrame, CachingFrame
  <2>7. QED
    BY <2>5, <2>6 DEF FitEverywhere
<1>8. ASSUME NEW t \in Threads, NEW passed \in Passed, OpenBuilt(t, passed)
      PROVE  FitEverywhere'
  <2>1. miss[t] \in Frames /\ miss[t].pc = "caching"
    BY <1>8 DEF OpenBuilt, At, FitEverywhere
  <2>2. miss[t].config \in Fit /\ \E c \in Classes : miss[t].classes = <<c>>
    BY <2>1 DEF Frames
  <2>3. PICK c \in Classes : miss[t].classes = <<c>>
    BY <2>2
  <2>4. miss[t].classes[1] = c
    BY <2>3
  <2>5. /\ itemsFor' = [itemsFor EXCEPT ![c] = miss[t].config]
        /\ OpenChannel("own", {c}, miss[t].config, passed)
        /\ Go(t, Idle)
        /\ UNCHANGED <<namespace, configFor, configForAll, raced>>
    BY <1>8, <2>4 DEF OpenBuilt
  <2>6. channels' \subseteq FitChannels
    BY <2>2, <2>5, OpenFits DEF FitEverywhere
  <2>7. miss' \in [Threads -> Frames]
    BY <2>5, GoFrames, IdleFrame
  <2>8. QED
    BY <2>2, <2>5, <2>6, <2>7 DEF FitEverywhere
<1>9. ASSUME NEW c \in Alone, NEW passed \in Passed, OpenCached(c, passed)
      PROVE  FitEverywhere'
  <2>1. itemsFor[c] \in Fit
    BY <1>0, <1>9 DEF OpenCached, FitEverywhere
  <2>2. channels' \subseteq FitChannels
    BY <1>0, <1>9, <2>1, OpenFits DEF OpenCached, FitEverywhere
  <2>3. QED
    BY <1>9, <2>2 DEF OpenCached, FitEverywhere, caches
<1>10. ASSUME NEW t \in Threads, NEW passed \in Passed, OpenSharedBuilt(t, passed)
      PROVE  FitEverywhere'
  <2>1. miss[t] \in Frames /\ miss[t].by = "shared"
    BY <1>10 DEF OpenSharedBuilt, Found, FitEverywhere
  <2>2. miss[t].classes \in Tuples /\ Range(miss[t].classes) \in SUBSET Classes
    BY <2>1, KeysAreLists DEF Frames
  <2>3. PICK config \in Fit : config = ConfigOf(miss[t].found)
    BY <2>1, FoundIsFit DEF Frames
  <2>4. /\ configForAll' = [configForAll EXCEPT ![miss[t].classes] = config]
        /\ OpenChannel("shared", Range(miss[t].classes), config, passed)
        /\ Go(t, Idle)
        /\ UNCHANGED <<namespace, configFor, itemsFor, raced>>
    BY <1>10, <2>3 DEF OpenSharedBuilt
  <2>5. channels' \subseteq FitChannels
    BY <2>2, <2>4, OpenFits DEF FitEverywhere
  <2>6. miss' \in [Threads -> Frames]
    BY <2>4, GoFrames, IdleFrame
  <2>7. QED
    BY <2>2, <2>4, <2>5, <2>6 DEF FitEverywhere
<1>11. ASSUME NEW ts \in Tuples, NEW passed \in Passed, OpenSharedCached(ts, passed)
      PROVE  FitEverywhere'
  <2>1. configForAll[ts] \in Fit /\ Range(ts) \in SUBSET Classes
    BY <1>11, KeysAreLists DEF OpenSharedCached, FitEverywhere
  <2>2. channels' \subseteq FitChannels
    BY <1>11, <2>1, OpenFits DEF OpenSharedCached, FitEverywhere
  <2>3. QED
    BY <1>11, <2>2 DEF OpenSharedCached, FitEverywhere, caches
<1>12. CASE UNCHANGED vars
  BY <1>12 DEF vars, caches, FitEverywhere
<1>13. QED
  BY <1>1, <1>3, <1>4, <1>5, <1>6, <1>7, <1>8, <1>9, <1>10, <1>11, <1>12 DEF Next

LEMMA FitInitially == Init => FitEverywhere
BY IdleFrame DEF Init, FitEverywhere, Namespaces

LEMMA AlwaysFit == Spec => []FitEverywhere
BY FitInitially, FitInductive, PTL DEF Spec

\* Every variable has its type: also with imports between the steps of a lookup,
\* what is found is known modules, and a cached config is a whole config.
THEOREM TypeCorrect == Spec => []TypeOK
<1>1. FitEverywhere => TypeOK
  BY DEF FitEverywhere, TypeOK, Fit, Frames, FitChannels, Namespaces
<1>2. QED
  BY <1>1, AlwaysFit, PTL

\* No channel whose config the package made ever retries a method whose repetition
\* acts twice, in whatever order imports and first uses fall, whichever threads
\* overwrite each other's cache entries, whichever cache answers, and whatever
\* configs callers wrote for the other channels of the same classes.
THEOREM NoActionIsRetried == Spec => []NeverRetriesAnAction
<1>1. FitEverywhere => NeverRetriesAnAction
  BY DEF FitEverywhere, FitChannels, Fit, NeverRetriesAnAction
<1>2. QED
  BY <1>1, AlwaysFit, PTL

\* build_service_config_json(): no config that the package made for a channel ever
\* names a method path twice, also when a service is found in several modules, or
\* the caller lists it several times, or wrote a config that does for another
\* channel of the same class.
THEOREM NoConfigIsRejected == Spec => []AlwaysAccepted
<1>1. FitEverywhere => AlwaysAccepted
  BY DEF FitEverywhere, FitChannels, Fit, AlwaysAccepted
<1>2. QED
  BY <1>1, AlwaysFit, PTL

-----------------------------------------------------------------------------
(***************************************************************************)
(* The second inductive invariant: a config anywhere retries no more than  *)
(* a fresh lookup would make it, and a lookup under way has found, or has  *)
(* still to look at, all that was due to it.  It rests on imports only     *)
(* ever adding to a namespace.                                             *)
(***************************************************************************)
\* Visible and FreshConfig, for any state of the namespaces.
Seen(ns, modules) == UNION {ns[m] : m \in Range(modules)}
Within(ns, config, classes) == Retried(config) \subseteq Retried(ConfigOf(Seen(ns, ModulesOf(classes))))

Follows(ns, f) ==
    /\ f.pc = "scanning" => /\ f.found \subseteq Seen(ns, ModulesOf(f.classes))
                            /\ Range(f.todo) \subseteq Range(ModulesOf(f.classes))
                            /\ f.due \subseteq f.found \cup Seen(ns, f.todo)
    /\ f.pc = "caching" => Within(ns, f.config, f.classes)

\* A channel with a default config, whatever list its classes were given in.
Trails(ns, ch) ==
    ch.default => \A classes \in Keys :
                    Range(classes) = ch.classes => Within(ns, ch.config, classes)

NothingAhead ==
    /\ \A c \in Classes : configFor[c] # Unset => Within(namespace, configFor[c], <<c>>)
    /\ \A c \in Classes : itemsFor[c] # Unset => Within(namespace, itemsFor[c], <<c>>)
    /\ \A ts \in Tuples : configForAll[ts] # Unset => Within(namespace, configForAll[ts], ts)
    /\ \A t \in Threads : Follows(namespace, miss[t])
    /\ \A ch \in channels : Trails(namespace, ch)

LEMMA SeenIsPb2 ==
    ASSUME NEW ns \in Namespaces, NEW modules \in Seq(Modules)
    PROVE  Seen(ns, modules) \in SUBSET Pb2
BY LenProperties, ElementOfSeq DEF Seen, Namespaces, Range

LEMMA ModulesOfKey ==
    ASSUME NEW classes \in Keys
    PROVE  ModulesOf(classes) \in Seq(Modules)
BY KeysAreLists, ModulesOfClasses

\* Two lists of the same classes have the same modules.
LEMMA SameClassesSameModules ==
    ASSUME NEW classes \in Keys, NEW others \in Keys, Range(classes) = Range(others)
    PROVE  Range(ModulesOf(classes)) = Range(ModulesOf(others))
BY KeysAreLists, ModulesOfClasses

LEMMA SameClassesWithin ==
    ASSUME NEW ns, NEW config, NEW classes \in Keys, NEW others \in Keys,
           Range(classes) = Range(others), Within(ns, config, classes)
    PROVE  Within(ns, config, others)
BY SameClassesSameModules DEF Within, Seen

\* What is found among the visible modules makes no config beyond a fresh one.
LEMMA FoundWithin ==
    ASSUME NEW ns \in Namespaces, NEW classes \in Keys,
           NEW found, found \subseteq Seen(ns, ModulesOf(classes))
    PROVE  Within(ns, ConfigOf(found), classes)
<1>1. Seen(ns, ModulesOf(classes)) \in SUBSET Pb2
  BY ModulesOfKey, SeenIsPb2
<1>2. QED
  BY <1>1, MoreFoundMoreRetried DEF Within

\* Whatever a step does, no namespace loses a name.
Grows(ns, more) == \A m \in Modules : ns[m] \subseteq more[m]

LEMMA NamespacesGrow ==
    ASSUME FitEverywhere, [Next]_vars
    PROVE  /\ namespace \in Namespaces /\ namespace' \in Namespaces
           /\ Grows(namespace, namespace')
<1>1. namespace \in Namespaces /\ namespace' \in Namespaces
  BY FitInductive DEF FitEverywhere
<1>2. CASE \E m \in Modules, p \in Pb2 : Import(m, p)
  BY <1>1, <1>2 DEF Import, Namespaces, Grows
<1>3. CASE UNCHANGED namespace
  BY <1>1, <1>3 DEF Grows
<1>4. QED
  BY <1>1, <1>2, <1>3 DEF Next, vars, Begin, Ask, OptionsMiss, SharedMiss, Scan, ScanRaises,
     StoreConfig, OpenBuilt, OpenCached, OpenSharedBuilt, OpenSharedCached

LEMMA SeenGrows ==
    ASSUME NEW ns, NEW more, Grows(ns, more), NEW modules, Range(modules) \subseteq Modules
    PROVE  Seen(ns, modules) \subseteq Seen(more, modules)
BY DEF Seen, Grows

\* What trails a fresh lookup still trails it when the namespaces have grown.
LEMMA StillWithin ==
    ASSUME NEW ns \in Namespaces, NEW more \in Namespaces, Grows(ns, more)
    PROVE  /\ \A config : \A classes \in Keys :
                Within(ns, config, classes) => Within(more, config, classes)
           /\ \A f \in Frames : Follows(ns, f) => Follows(more, f)
           /\ \A ch : Trails(ns, ch) => Trails(more, ch)
<1>1. \A modules \in Seq(Modules) : Range(modules) \subseteq Modules
  BY LenProperties, ElementOfSeq DEF Range
<1>2. ASSUME NEW config, NEW classes \in Keys, Within(ns, config, classes)
      PROVE  Within(more, config, classes)
  <2>1. ModulesOf(classes) \in Seq(Modules)
    BY ModulesOfKey
  <2>2. Seen(ns, ModulesOf(classes)) \subseteq Seen(more, ModulesOf(classes))
    BY <1>1, <2>1, SeenGrows
  <2>3. Seen(more, ModulesOf(classes)) \in SUBSET Pb2
    BY <2>1, SeenIsPb2
  <2>4. QED
    BY <1>2, <2>2, <2>3, MoreFoundMoreRetried DEF Within
<1>3. ASSUME NEW f \in Frames, Follows(ns, f)
      PROVE  Follows(more, f)
  <2>1. CASE f.pc = "scanning"
    <3>1. Range(f.todo) \subseteq Range(ModulesOf(f.classes)) /\ f.todo \in Seq(Modules)
      BY <1>3, <2>1 DEF Follows, Frames
    <3>2. f.classes \in Keys \/ f.classes = <<>>
      BY DEF Frames
    <3>3. Range(ModulesOf(f.classes)) \subseteq Modules
      <4>1. <<>> \in Seq(Classes)
        OBVIOUS
      <4>2. ModulesOf(f.classes) \in Seq(Modules)
        BY <3>2, <4>1, ModulesOfKey, ModulesOfClasses
      <4>3. QED
        BY <1>1, <4>2
    <3>4. /\ Seen(ns, ModulesOf(f.classes)) \subseteq Seen(more, ModulesOf(f.classes))
          /\ Seen(ns, f.todo) \subseteq Seen(more, f.todo)
      BY <3>1, <3>3, SeenGrows
    <3>5. QED
      BY <1>3, <2>1, <3>4 DEF Follows
  <2>2. CASE f.pc = "caching"
    <3>1. f.classes \in Keys
      BY <2>2, KeysAreLists DEF Frames
    <3>2. QED
      BY <1>2, <1>3, <2>2, <3>1 DEF Follows
  <2>3. QED
    BY <2>1, <2>2 DEF Follows
<1>4. ASSUME NEW ch, Trails(ns, ch)
      PROVE  Trails(more, ch)
  BY <1>2, <1>4 DEF Trails
<1>5. QED
  BY <1>2, <1>3, <1>4

\* Opening a channel with a default config that trails a fresh lookup.
LEMMA OpenTrails ==
    ASSUME channels \subseteq FitChannels, \A ch \in channels : Trails(namespace, ch),
           NEW by \in {"own", "shared"}, NEW list \in Keys, NEW default \in Fit,
           Within(namespace, default, list),
           NEW passed \in Passed, OpenChannel(by, Range(list), default, passed)
    PROVE  \A ch \in channels' : Trails(namespace, ch)
<1>1. Range(list) \in SUBSET Classes
  BY KeysAreLists
<1>2. ASSUME NEW ch \in channels' \ channels
      PROVE  Trails(namespace, ch)
  <2>1. ch.default => ch.classes = Range(list) /\ ch.config = default
    BY <1>1, <1>2, OpenFits
  <2>2. QED
    BY <2>1, SameClassesWithin DEF Trails
<1>3. QED
  BY <1>2

\* A thread goes on with a frame that follows what is visible.
LEMMA GoFollows ==
    ASSUME FitEverywhere, \A t \in Threads : Follows(namespace, miss[t]),
           NEW t \in Threads, NEW f, Follows(namespace, f), Go(t, f)
    PROVE  \A u \in Threads : Follows(namespace, miss'[u])
<1>1. /\ miss'[t] = f
      /\ \A u \in Threads \ {t} : miss'[u] = miss[u]
  BY DEF Go, FitEverywhere
<1>2. QED
  BY <1>1

LEMMA IdleFollows == Follows(namespace, Idle)
BY IdleFrame DEF Follows

LEMMA ScanningFollows ==
    ASSUME namespace \in Namespaces, NEW by, NEW classes,
           \/ by \in {"ask", "own"} /\ \E c \in Classes : classes = <<c>>
           \/ by = "shared" /\ classes \in Tuples
    PROVE  Follows(namespace, Scanning(by, classes))
BY ScanningFrame DEF Follows, Visible, Seen

\* Looking at the next module moves what it shows from still due to found.
LEMMA ScannedFollows ==
    ASSUME namespace \in Namespaces, NEW f \in Frames, f.pc = "scanning", f.todo # <<>>,
           Follows(namespace, f)
    PROVE  Follows(namespace, Scanned(f))
<1>1. f.todo \in Seq(Modules) /\ Tail(f.todo) \in Seq(Modules)
  BY HeadTailProperties DEF Frames
<1>2. Range(f.todo) = {Head(f.todo)} \cup Range(Tail(f.todo))
  <2>1. /\ Len(f.todo) \in Nat \ {0} /\ DOMAIN f.todo = 1..Len(f.todo)
        /\ Len(Tail(f.todo)) = Len(f.todo) - 1
        /\ DOMAIN Tail(f.todo) = 1..(Len(f.todo) - 1)
        /\ \A i \in 1..(Len(f.todo) - 1) : Tail(f.todo)[i] = f.todo[i + 1]
        /\ Head(f.todo) = f.todo[1]
    BY <1>1, HeadTailProperties, LenProperties, EmptySeq
  <2>2. Range(f.todo) = {f.todo[i] : i \in 1..Len(f.todo)}
    BY <2>1 DEF Range
  <2>3. Range(Tail(f.todo)) = {f.todo[i + 1] : i \in 1..(Len(f.todo) - 1)}
    BY <2>1 DEF Range
  <2>4. ASSUME NEW i \in 1..Len(f.todo)
        PROVE  i = 1 \/ (i - 1 \in 1..(Len(f.todo) - 1) /\ (i - 1) + 1 = i)
    BY <2>1
  <2>5. /\ 1 \in 1..Len(f.todo)
        /\ \A i \in 1..(Len(f.todo) - 1) : i + 1 \in 1..Len(f.todo)
    BY <2>1
  <2>6. Range(f.todo) \subseteq {Head(f.todo)} \cup Range(Tail(f.todo))
    BY <2>1, <2>2, <2>3, <2>4
  <2>7. {Head(f.todo)} \cup Range(Tail(f.todo)) \subseteq Range(f.todo)
    BY <2>1, <2>2, <2>3, <2>5
  <2>8. QED
    BY <2>6, <2>7
<1>3. Seen(namespace, f.todo) = namespace[Head(f.todo)] \cup Seen(namespace, Tail(f.todo))
  BY <1>2 DEF Seen
<1>4. namespace[Head(f.todo)] \subseteq Seen(namespace, ModulesOf(f.classes))
  BY <1>2 DEF Follows, Seen
<1>5. QED
  BY <1>2, <1>3, <1>4, ScannedFrame DEF Follows

LEMMA NothingAheadInductive == FitEverywhere /\ NothingAhead /\ [Next]_vars => NothingAhead'
<1> SUFFICES ASSUME FitEverywhere, NothingAhead, [Next]_vars
             PROVE  NothingAhead'
  OBVIOUS
<1>0. /\ Alone \subseteq Classes
      /\ namespace \in Namespaces
      /\ channels \subseteq FitChannels
      /\ \A t \in Threads : miss[t] \in Frames /\ Follows(namespace, miss[t])
      /\ \A ch \in channels : Trails(namespace, ch)
  BY CacheAssumption DEF FitEverywhere, NothingAhead
<1>1. ASSUME NEW m \in Modules, NEW p \in Pb2, Import(m, p)
      PROVE  NothingAhead'
  <2>1. namespace' \in Namespaces /\ Grows(namespace, namespace')
    BY NamespacesGrow
  <2>2. UNCHANGED <<configFor, itemsFor, configForAll, miss, channels>>
    BY <1>1 DEF Import, caches
  <2>3. \A t \in Threads : Follows(namespace', miss[t])
    BY <1>0, <2>1, StillWithin
  <2>4. \A ch \in channels : Trails(namespace', ch)
    BY <1>0, <2>1, StillWithin
  <2>5. \A config : \A classes \in Keys :
            Within(namespace, config, classes) => Within(namespace', config, classes)
    BY <1>0, <2>1, StillWithin
  <2>6. QED
    BY <2>2, <2>3, <2>4, <2>5, KeysAreLists DEF NothingAhead
<1>2. ASSUME NEW t \in Threads, NEW f, Begin(t, f), Follows(namespace, f)
      PROVE  NothingAhead'
  <2>1. \A u \in Threads : Follows(namespace, miss'[u])
    BY <1>0, <1>2, GoFollows DEF Begin
  <2>2. QED
    BY <1>2, <2>1 DEF Begin, NothingAhead, caches
<1>3. ASSUME NEW t \in Threads, NEW c \in Alone, Ask(t, c)
      PROVE  NothingAhead'
  <2>1. Follows(namespace, Scanning("ask", <<c>>))
    BY <1>0, ScanningFollows
  <2>2. QED
    BY <1>2, <1>3, <2>1 DEF Ask
<1>4. ASSUME NEW t \in Threads, NEW c \in Alone, OptionsMiss(t, c)
      PROVE  NothingAhead'
  <2>1. CASE configFor[c] = Unset
    <3>1. Begin(t, Scanning("own", <<c>>))
      BY <1>4, <2>1 DEF OptionsMiss
    <3>2. Follows(namespace, Scanning("own", <<c>>))
      BY <1>0, ScanningFollows
    <3>3. QED
      BY <1>2, <3>1, <3>2
  <2>2. CASE configFor[c] # Unset
    <3>1. Begin(t, Caching(c, configFor[c]))
      BY <1>4, <2>2 DEF OptionsMiss
    <3>2. configFor[c] \in Fit /\ Within(namespace, configFor[c], <<c>>)
      BY <1>0, <2>2 DEF FitEverywhere, NothingAhead
    <3>3. Follows(namespace, Caching(c, configFor[c]))
      BY <1>0, <3>2, CachingFrame DEF Follows
    <3>4. QED
      BY <1>2, <3>1, <3>3
  <2>3. QED
    BY <2>1, <2>2
<1>5. ASSUME NEW t \in Threads, NEW ts \in Tuples, SharedMiss(t, ts)
      PROVE  NothingAhead'
  <2>1. Follows(namespace, Scanning("shared", ts))
    BY <1>0, ScanningFollows
  <2>2. QED
    BY <1>2, <1>5, <2>1 DEF SharedMiss
<1>6. ASSUME NEW t \in Threads, Scan(t) \/ ScanRaises(t)
      PROVE  NothingAhead'
  <2>1. PICK f : Follows(namespace, f) /\ Go(t, f)
    <3>1. CASE Scan(t)
      <4>1. miss[t].pc = "scanning" /\ miss[t].todo # <<>> /\ Go(t, Scanned(miss[t]))
        BY <3>1 DEF Scan, Scanned, At
      <4>2. QED
        BY <1>0, <4>1, ScannedFollows
    <3>2. CASE ScanRaises(t)
      BY <3>2, IdleFollows DEF ScanRaises
    <3>3. QED
      BY <1>6, <3>1, <3>2
  <2>2. \A u \in Threads : Follows(namespace, miss'[u])
    BY <1>0, <2>1, GoFollows
  <2>3. UNCHANGED <<namespace, caches, channels>>
    BY <1>6 DEF Scan, ScanRaises
  <2>4. QED
    BY <2>2, <2>3 DEF NothingAhead, caches
\* What a lookup that has looked at every module caches, or opens a channel with.
<1>7. ASSUME NEW t \in Threads, NEW by, Found(t, by), miss[t].classes \in Keys
      PROVE  Within(namespace, ConfigOf(miss[t].found), miss[t].classes)
  <2>1. miss[t].found \subseteq Seen(namespace, ModulesOf(miss[t].classes))
    BY <1>0, <1>7 DEF Found, At, Follows
  <2>2. QED
    BY <1>0, <1>7, <2>1, FoundWithin
<1>8. ASSUME NEW t \in Threads, StoreConfig(t)
      PROVE  NothingAhead'
  <2>1. miss[t] \in Frames /\ miss[t].by \in {"ask", "own"} /\ Found(t, {"ask", "own"})
    BY <1>0, <1>8 DEF StoreConfig, Found
  <2>2. PICK c \in Classes : miss[t].classes = <<c>>
    BY <2>1 DEF Frames
  <2>3. miss[t].classes[1] = c
    BY <2>2
  <2>4. PICK config \in Fit : config = ConfigOf(miss[t].found)
    BY <2>1, FoundIsFit DEF Frames
  <2>5. Within(namespace, config, <<c>>)
    BY <1>7, <2>1, <2>2, <2>4, KeysAreLists
  <2>6. /\ configFor' = [configFor EXCEPT ![c] = config]
        /\ Go(t, IF miss[t].by = "ask" THEN Idle ELSE Caching(c, config))
        /\ UNCHANGED <<namespace, itemsFor, configForAll, channels, raced>>
    BY <1>8, <2>3, <2>4 DEF StoreConfig
  <2>7. Follows(namespace, Caching(c, config))
    BY <2>5, CachingFrame DEF Follows
  <2>8. \A u \in Threads : Follows(namespace, miss'[u])
    BY <1>0, <2>6, <2>7, GoFollows, IdleFollows
  <2>9. \A d \in Classes : configFor'[d] # Unset => Within(namespace, configFor'[d], <<d>>)
    BY <2>5, <2>6 DEF FitEverywhere, NothingAhead
  <2>10. QED
    BY <2>6, <2>8, <2>9 DEF NothingAhead
<1>9. ASSUME NEW t \in Threads, NEW passed \in Passed, OpenBuilt(t, passed)
      PROVE  NothingAhead'
  <2>1. miss[t] \in Frames /\ miss[t].pc = "caching"
    BY <1>0, <1>9 DEF OpenBuilt, At
  <2>2. miss[t].config \in Fit /\ \E c \in Classes : miss[t].classes = <<c>>
    BY <2>1 DEF Frames
  <2>3. PICK c \in Classes : miss[t].classes = <<c>>
    BY <2>2
  <2>4. miss[t].classes[1] = c /\ Range(<<c>>) = {c} /\ <<c>> \in Keys
    BY <2>3, OneClassList, KeysAreLists
  <2>5. Within(namespace, miss[t].config, <<c>>)
    BY <1>0, <2>1, <2>3 DEF Follows
  <2>6. /\ itemsFor' = [itemsFor EXCEPT ![c] = miss[t].config]
        /\ OpenChannel("own", Range(<<c>>), miss[t].config, passed)
        /\ Go(t, Idle)
        /\ UNCHANGED <<namespace, configFor, configForAll, raced>>
    BY <1>9, <2>4 DEF OpenBuilt
  <2>7. \A ch \in channels' : Trails(namespace, ch)
    BY <1>0, <2>2, <2>4, <2>5, <2>6, OpenTrails
  <2>8. \A u \in Threads : Follows(namespace, miss'[u])
    BY <1>0, <2>6, GoFollows, IdleFollows
  <2>9. \A d \in Classes : itemsFor'[d] # Unset => Within(namespace, itemsFor'[d], <<d>>)
    BY <2>5, <2>6 DEF FitEverywhere, NothingAhead
  <2>10. QED
    BY <2>6, <2>7, <2>8, <2>9 DEF NothingAhead
<1>10. ASSUME NEW c \in Alone, NEW passed \in Passed, OpenCached(c, passed)
      PROVE  NothingAhead'
  <2>1. itemsFor[c] \in Fit /\ Within(namespace, itemsFor[c], <<c>>)
    BY <1>0, <1>10 DEF OpenCached, FitEverywhere, NothingAhead
  <2>2. Range(<<c>>) = {c} /\ <<c>> \in Keys
    BY <1>0, OneClassList, KeysAreLists
  <2>3. OpenChannel("own", Range(<<c>>), itemsFor[c], passed)
    BY <1>10, <2>2 DEF OpenCached
  <2>4. \A ch \in channels' : Trails(namespace, ch)
    BY <1>0, <2>1, <2>2, <2>3, OpenTrails
  <2>5. QED
    BY <1>10, <2>4 DEF OpenCached, NothingAhead, caches
<1>11. ASSUME NEW t \in Threads, NEW passed \in Passed, OpenSharedBuilt(t, passed)
      PROVE  NothingAhead'
  <2>1. miss[t] \in Frames /\ miss[t].by = "shared" /\ Found(t, {"shared"})
    BY <1>0, <1>11 DEF OpenSharedBuilt, Found
  <2>2. PICK ts \in Tuples : ts = miss[t].classes
    BY <2>1 DEF Frames
  <2>3. PICK config \in Fit : config = ConfigOf(miss[t].found)
    BY <2>1, FoundIsFit DEF Frames
  <2>4. Within(namespace, config, ts)
    BY <1>7, <2>1, <2>2, <2>3, KeysAreLists
  <2>5. /\ configForAll' = [configForAll EXCEPT ![ts] = config]
        /\ OpenChannel("shared", Range(ts), config, passed)
        /\ Go(t, Idle)
        /\ UNCHANGED <<namespace, configFor, itemsFor, raced>>
    BY <1>11, <2>2, <2>3 DEF OpenSharedBuilt
  <2>6. \A ch \in channels' : Trails(namespace, ch)
    BY <1>0, <2>4, <2>5, KeysAreLists, OpenTrails
  <2>7. \A u \in Threads : Follows(namespace, miss'[u])
    BY <1>0, <2>5, GoFollows, IdleFollows
  <2>8. \A us \in Tuples : configForAll'[us] # Unset => Within(namespace, configForAll'[us], us)
    BY <2>4, <2>5 DEF FitEverywhere, NothingAhead
  <2>9. QED
    BY <2>5, <2>6, <2>7, <2>8 DEF NothingAhead
<1>12. ASSUME NEW ts \in Tuples, NEW passed \in Passed, OpenSharedCached(ts, passed)
      PROVE  NothingAhead'
  <2>1. configForAll[ts] \in Fit /\ Within(namespace, configForAll[ts], ts)
    BY <1>12 DEF OpenSharedCached, FitEverywhere, NothingAhead
  <2>2. \A ch \in channels' : Trails(namespace, ch)
    BY <1>0, <1>12, <2>1, KeysAreLists, OpenTrails DEF OpenSharedCached
  <2>3. QED
    BY <1>12, <2>2 DEF OpenSharedCached, NothingAhead, caches
<1>13. CASE UNCHANGED vars
  BY <1>13 DEF vars, caches, NothingAhead
<1>14. QED
  BY <1>1, <1>3, <1>4, <1>5, <1>6, <1>8, <1>9, <1>10, <1>11, <1>12, <1>13 DEF Next

LEMMA NeverAhead == Spec => [](FitEverywhere /\ NothingAhead)
<1>1. Init => NothingAhead
  BY IdleFollows DEF Init, NothingAhead
<1>2. QED
  BY <1>1, FitInitially, FitInductive, NothingAheadInductive, PTL DEF Spec

\* service_config_json_for(): a cache entry from before an import costs retries
\* and adds none: whatever was imported since, and whichever thread's entry was
\* overwritten, a channel retries a subset of what a fresh lookup would make it.
THEOREM StaleCostsOnlyRetries == Spec => []StaleLosesOnlyRetries
<1>1. NothingAhead => StaleLosesOnlyRetries
  BY DEF NothingAhead, StaleLosesOnlyRetries, Trails, Within, FreshConfig, Visible, Seen
<1>2. QED
  BY <1>1, NeverAhead, PTL

\* _services_for(): a lookup that comes to its end has all that was visible when it
\* began, although namespaces grow under it; only an error cuts it short, and then
\* nothing is cached.
THEOREM LookupFindsAll == Spec => []LookupIsWhole
<1>1. NothingAhead => LookupIsWhole
  <2>1. Seen(namespace, <<>>) = {}
    BY DEF Seen, Range
  <2>2. QED
    BY <2>1 DEF NothingAhead, LookupIsWhole, Found, At, Follows
<1>2. QED
  BY <1>1, NeverAhead, PTL

-----------------------------------------------------------------------------
(***************************************************************************)
(* The third inductive invariant: of a class no two threads have built the *)
(* options of at once, at most one thread builds them, before they are     *)
(* cached, and every channel with the default config has the cached one.   *)
(***************************************************************************)
Builds(f, c) == f.by = "own" /\ f.classes = <<c>>

BuiltOnce ==
    \A c \in Classes \ raced :
        /\ \A ch \in DefaultsOf("own", {c}) : ch.config = itemsFor[c]
        /\ \A t \in Threads : Builds(miss[t], c) => itemsFor[c] = Unset
        /\ \A t, u \in Threads : Builds(miss[t], c) /\ Builds(miss[u], c) => t = u

\* No config is Unset, unless there are no methods, and then there is but one.
LEMMA UnsetIsNoConfig == Unset \in Fit => \A config \in Fit : config = Unset
<1> SUFFICES ASSUME Unset \in Fit, NEW config \in Fit
             PROVE  config = Unset
  OBVIOUS
<1>1. DOMAIN Unset = {} /\ DOMAIN Unset = Methods
  BY DEF Fit, Configs, Unset
<1>2. config \in [{} -> Nat] /\ Unset \in [{} -> Nat]
  BY <1>1 DEF Fit, Configs
<1>3. QED
  BY <1>2

\* A step that makes no thread begin to build options.
LEMMA GoBuildsNoMore ==
    ASSUME FitEverywhere, NEW t \in Threads, NEW f, Go(t, f),
           f.by = "own" => miss[t].by = "own" /\ miss[t].classes = f.classes
    PROVE  \A u \in Threads : \A c : Builds(miss'[u], c) => Builds(miss[u], c)
<1>1. /\ miss'[t] = f
      /\ \A u \in Threads \ {t} : miss'[u] = miss[u]
  BY DEF Go, FitEverywhere
<1>2. QED
  BY <1>1 DEF Builds

\* A step after which nobody builds who did not, and nothing is cached anew.
LEMMA BuildsNoMore ==
    ASSUME BuiltOnce, UNCHANGED <<itemsFor, raced>>,
           \A u \in Threads : \A c : Builds(miss'[u], c) => Builds(miss[u], c),
           \A ch \in channels' \ channels :
              ch.default /\ ch.by = "own" =>
                 \A c \in Classes : ch.classes = {c} => ch.config = itemsFor[c]
    PROVE  BuiltOnce'
<1> SUFFICES ASSUME NEW c \in Classes \ raced
             PROVE  /\ \A ch \in DefaultsOf("own", {c})' : ch.config = itemsFor[c]
                    /\ \A t \in Threads : Builds(miss'[t], c) => itemsFor[c] = Unset
                    /\ \A t, u \in Threads : Builds(miss'[t], c) /\ Builds(miss'[u], c) => t = u
  BY DEF BuiltOnce
<1>1. \A ch \in DefaultsOf("own", {c})' : ch.config = itemsFor[c]
  BY DEF DefaultsOf, BuiltOnce
<1>2. QED
  BY <1>1 DEF BuiltOnce

LEMMA BuiltOnceInductive == FitEverywhere /\ BuiltOnce /\ [Next]_vars => BuiltOnce'
<1> SUFFICES ASSUME FitEverywhere, BuiltOnce, [Next]_vars
             PROVE  BuiltOnce'
  OBVIOUS
<1>0. /\ Alone \subseteq Classes
      /\ namespace \in Namespaces
      /\ channels \subseteq FitChannels
      /\ \A t \in Threads : miss[t] \in Frames
  BY CacheAssumption DEF FitEverywhere
<1>1. CASE UNCHANGED <<itemsFor, miss, channels, raced>>
  BY <1>1, BuildsNoMore
<1>2. ASSUME NEW t \in Threads, NEW f, Go(t, f),
             f.by = "own" => miss[t].by = "own" /\ miss[t].classes = f.classes,
             UNCHANGED <<itemsFor, channels, raced>>
      PROVE  BuiltOnce'
  BY <1>2, GoBuildsNoMore, BuildsNoMore
<1>3. ASSUME NEW t \in Threads, NEW c \in Alone, Ask(t, c)
      PROVE  BuiltOnce'
  <2>1. Scanning("ask", <<c>>).by = "ask"
    BY <1>0, ScanningFrame
  <2>2. QED
    BY <1>2, <1>3, <2>1 DEF Ask, Begin, caches
<1>4. ASSUME NEW t \in Threads, NEW c \in Alone, OptionsMiss(t, c)
      PROVE  BuiltOnce'
  <2>1. PICK f : Go(t, f) /\ Builds(f, c)
    <3>1. CASE configFor[c] = Unset
      <4>1. Go(t, Scanning("own", <<c>>))
        BY <1>4, <3>1 DEF OptionsMiss, Begin
      <4>2. Builds(Scanning("own", <<c>>), c)
        BY <1>0, ScanningFrame DEF Builds
      <4>3. QED
        BY <4>1, <4>2
    <3>2. CASE configFor[c] # Unset
      <4>1. Go(t, Caching(c, configFor[c]))
        BY <1>4, <3>2 DEF OptionsMiss, Begin
      <4>2. configFor[c] \in Fit
        BY <1>0, <3>2 DEF FitEverywhere
      <4>3. Builds(Caching(c, configFor[c]), c)
        BY <1>0, <4>2, CachingFrame DEF Builds
      <4>4. QED
        BY <4>1, <4>3
    <3>3. QED
      BY <3>1, <3>2
  <2>2. /\ miss'[t] = f
        /\ \A u \in Threads \ {t} : miss'[u] = miss[u]
    BY <2>1 DEF Go, FitEverywhere
  <2>3. itemsFor[c] = Unset /\ UNCHANGED <<itemsFor, channels>>
    BY <1>4 DEF OptionsMiss, Begin, caches
  <2>4. /\ raced \subseteq raced'
        /\ c \notin raced' => \A u \in Threads : ~Builds(miss[u], c)
    BY <1>4 DEF OptionsMiss, Race, Builds
  <2>5. ASSUME NEW d \in Classes \ raced'
        PROVE  /\ \A ch \in DefaultsOf("own", {d})' : ch.config = itemsFor[d]
               /\ \A u \in Threads : Builds(miss'[u], d) => itemsFor[d] = Unset
               /\ \A u, v \in Threads : Builds(miss'[u], d) /\ Builds(miss'[v], d) => u = v
    <3>1. d \in Classes \ raced
      BY <2>4
    <3>2. \A ch \in DefaultsOf("own", {d})' : ch.config = itemsFor[d]
      BY <2>3, <3>1 DEF DefaultsOf, BuiltOnce
    <3>3. CASE d = c
      BY <2>2, <2>3, <2>4, <3>2, <3>3
    <3>4. CASE d # c
      <4>1. ~Builds(f, d)
        BY <2>1, <3>4 DEF Builds
      <4>2. \A u \in Threads : Builds(miss'[u], d) => Builds(miss[u], d)
        BY <2>2, <4>1
      <4>3. QED
        BY <3>1, <3>2, <4>2 DEF BuiltOnce
    <3>5. QED
      BY <3>3, <3>4
  <2>6. QED
    BY <2>3, <2>5 DEF BuiltOnce
<1>5. ASSUME NEW t \in Threads, NEW ts \in Tuples, SharedMiss(t, ts)
      PROVE  BuiltOnce'
  <2>1. Scanning("shared", ts).by = "shared"
    BY <1>0, ScanningFrame
  <2>2. QED
    BY <1>2, <1>5, <2>1 DEF SharedMiss, Begin, caches
<1>6. ASSUME NEW t \in Threads, Scan(t)
      PROVE  BuiltOnce'
  <2>1. miss[t].todo # <<>> /\ Go(t, Scanned(miss[t])) /\ UNCHANGED <<itemsFor, channels, raced>>
    BY <1>6 DEF Scan, Scanned, caches
  <2>2. Scanned(miss[t]).by = miss[t].by /\ Scanned(miss[t]).classes = miss[t].classes
    BY <1>0, <2>1, ScannedFrame
  <2>3. QED
    BY <1>2, <2>1, <2>2
<1>7. ASSUME NEW t \in Threads, ScanRaises(t)
      PROVE  BuiltOnce'
  BY <1>2, <1>7, IdleFrame DEF ScanRaises, caches
<1>8. ASSUME NEW t \in Threads, StoreConfig(t)
      PROVE  BuiltOnce'
  <2>1. miss[t] \in Frames /\ miss[t].by \in {"ask", "own"}
    BY <1>0, <1>8 DEF StoreConfig, Found
  <2>2. PICK c \in Classes : miss[t].classes = <<c>>
    BY <2>1 DEF Frames
  <2>3. miss[t].classes[1] = c
    BY <2>2
  <2>4. PICK config \in Fit : config = ConfigOf(miss[t].found)
    BY <2>1, FoundIsFit DEF Frames
  <2>5. /\ Go(t, IF miss[t].by = "ask" THEN Idle ELSE Caching(c, config))
        /\ UNCHANGED <<itemsFor, channels, raced>>
    BY <1>8, <2>3, <2>4 DEF StoreConfig
  <2>6. CASE miss[t].by = "ask"
    BY <1>2, <2>5, <2>6, IdleFrame
  <2>7. CASE miss[t].by = "own"
    <3>1. Go(t, Caching(c, config))
      BY <2>5, <2>7
    <3>2. Caching(c, config).classes = miss[t].classes
      BY <2>2, CachingFrame
    <3>3. QED
      BY <1>2, <2>5, <2>7, <3>1, <3>2
  <2>8. QED
    BY <2>1, <2>6, <2>7
<1>9. ASSUME NEW t \in Threads, NEW passed \in Passed, OpenBuilt(t, passed)
      PROVE  BuiltOnce'
  <2>1. miss[t] \in Frames /\ miss[t].pc = "caching"
    BY <1>0, <1>9 DEF OpenBuilt, At
  <2>2. /\ miss[t].config \in Fit /\ miss[t].by = "own"
        /\ \E c \in Classes : miss[t].classes = <<c>>
    BY <2>1 DEF Frames
  <2>3. PICK c \in Classes : miss[t].classes = <<c>>
    BY <2>2
  <2>4. miss[t].classes[1] = c /\ {c} \in SUBSET Classes /\ Builds(miss[t], c)
    BY <2>2, <2>3 DEF Builds
  <2>5. PICK config \in Fit : config = miss[t].config
    BY <2>2
  <2>6. /\ itemsFor' = [itemsFor EXCEPT ![c] = config]
        /\ OpenChannel("own", {c}, config, passed)
        /\ Go(t, Idle)
        /\ raced' = raced
    BY <1>9, <2>4, <2>5 DEF OpenBuilt
  <2>7. /\ miss'[t] = Idle /\ ~\E d : Builds(Idle, d)
        /\ \A u \in Threads \ {t} : miss'[u] = miss[u]
        /\ itemsFor'[c] = config
        /\ \A d \in Classes \ {c} : itemsFor'[d] = itemsFor[d]
    BY <2>6, IdleFrame DEF Go, FitEverywhere, Builds
  <2>8. \A ch \in channels' \ channels :
            ch.default => ch.by = "own" /\ ch.classes = {c} /\ ch.config = config
    BY <1>0, <2>4, <2>6, OpenFits
  <2>9. ASSUME NEW d \in Classes \ raced
        PROVE  /\ \A ch \in DefaultsOf("own", {d})' : ch.config = itemsFor'[d]
               /\ \A u \in Threads : Builds(miss'[u], d) => itemsFor'[d] = Unset
               /\ \A u, v \in Threads : Builds(miss'[u], d) /\ Builds(miss'[v], d) => u = v
    <3>1. \A u \in Threads : Builds(miss'[u], d) => u # t /\ Builds(miss[u], d)
      BY <2>7
    <3>2. CASE d # c
      <4>1. \A ch \in DefaultsOf("own", {d})' : ch \in DefaultsOf("own", {d})
        BY <2>8, <3>2 DEF DefaultsOf
      <4>2. QED
        BY <2>7, <3>1, <3>2, <4>1 DEF BuiltOnce
    <3>3. CASE d = c
      <4>1. itemsFor[c] = Unset /\ \A u \in Threads : Builds(miss[u], c) => u = t
        BY <2>4, <2>9, <3>3 DEF BuiltOnce
      <4>2. ASSUME NEW ch \in DefaultsOf("own", {c})
            PROVE  ch.config = config
        <5>1. ch.config = Unset /\ ch.config \in Fit
          BY <1>0, <2>9, <3>3, <4>1, <4>2 DEF BuiltOnce, DefaultsOf, FitChannels, OfPackage
        <5>2. QED
          BY <5>1, UnsetIsNoConfig
      <4>3. \A ch \in DefaultsOf("own", {c})' : ch.config = config
        BY <2>8, <4>2 DEF DefaultsOf
      <4>4. QED
        BY <2>7, <3>1, <3>3, <4>1, <4>3
    <3>4. QED
      BY <3>2, <3>3
  <2>10. QED
    BY <2>6, <2>9 DEF BuiltOnce
<1>10. ASSUME NEW c \in Alone, NEW passed \in Passed, OpenCached(c, passed)
      PROVE  BuiltOnce'
  <2>1. itemsFor[c] \in Fit /\ {c} \in SUBSET Classes
    BY <1>0, <1>10 DEF OpenCached, FitEverywhere
  <2>2. \A ch \in channels' \ channels :
            ch.default => ch.by = "own" /\ ch.classes = {c} /\ ch.config = itemsFor[c]
    BY <1>0, <1>10, <2>1, OpenFits DEF OpenCached
  <2>3. UNCHANGED <<itemsFor, miss, raced>>
    BY <1>10 DEF OpenCached, caches
  <2>4. QED
    BY <2>2, <2>3, BuildsNoMore
<1>11. ASSUME NEW t \in Threads, NEW passed \in Passed, OpenSharedBuilt(t, passed)
      PROVE  BuiltOnce'
  <2>1. miss[t] \in Frames /\ miss[t].by = "shared"
    BY <1>0, <1>11 DEF OpenSharedBuilt, Found
  <2>2. Range(miss[t].classes) \in SUBSET Classes
    BY <2>1, KeysAreLists DEF Frames
  <2>3. PICK config \in Fit : config = ConfigOf(miss[t].found)
    BY <2>1, FoundIsFit DEF Frames
  <2>4. /\ OpenChannel("shared", Range(miss[t].classes), config, passed)
        /\ Go(t, Idle)
        /\ UNCHANGED <<itemsFor, raced>>
    BY <1>11, <2>3 DEF OpenSharedBuilt
  <2>5. \A ch \in channels' \ channels : ch.default => ch.by = "shared"
    BY <1>0, <2>2, <2>4, OpenFits
  <2>6. \A u \in Threads : \A c : Builds(miss'[u], c) => Builds(miss[u], c)
    BY <2>4, IdleFrame, GoBuildsNoMore
  <2>7. QED
    BY <2>4, <2>5, <2>6, BuildsNoMore
<1>12. ASSUME NEW ts \in Tuples, NEW passed \in Passed, OpenSharedCached(ts, passed)
      PROVE  BuiltOnce'
  <2>1. configForAll[ts] \in Fit /\ Range(ts) \in SUBSET Classes
    BY <1>12, KeysAreLists DEF OpenSharedCached, FitEverywhere
  <2>2. \A ch \in channels' \ channels : ch.default => ch.by = "shared"
    BY <1>0, <1>12, <2>1, OpenFits DEF OpenSharedCached
  <2>3. UNCHANGED <<itemsFor, miss, raced>>
    BY <1>12 DEF OpenSharedCached, caches
  <2>4. QED
    BY <2>2, <2>3, BuildsNoMore
<1>13. ASSUME NEW m \in Modules, NEW p \in Pb2, Import(m, p)
      PROVE  BuiltOnce'
  BY <1>1, <1>13 DEF Import, caches
<1>14. CASE UNCHANGED vars
  BY <1>1, <1>14 DEF vars, caches
<1>15. QED
  BY <1>3, <1>4, <1>5, <1>6, <1>7, <1>8, <1>9, <1>10, <1>11, <1>12, <1>13, <1>14 DEF Next

\* _grpc_options_items_for(): all services of a class get one default config for
\* the life of the process, whatever is imported between their openings and
\* whatever options others are given, unless two threads raced to build it.
THEOREM ClassHasOnePolicy == Spec => []OneClassOnePolicy
<1>1. Init => BuiltOnce
  BY IdleFrame DEF Init, BuiltOnce, DefaultsOf, Builds
<1>2. BuiltOnce => OneClassOnePolicy
  BY DEF BuiltOnce, OneClassOnePolicy
<1>3. QED
  BY <1>1, <1>2, FitInitially, FitInductive, BuiltOnceInductive, PTL DEF Spec
=============================================================================
