------------------------- MODULE ServiceCalls_proofs -------------------------
(***************************************************************************)
(* From the imports to the server, for any classes, modules, imports,      *)
(* threads and methods: a method that acts is executed at most once per    *)
(* call, and one that does not is retried where its service was known.     *)
(***************************************************************************)
EXTENDS ServiceCalls, ServiceConfigCache_proofs

-----------------------------------------------------------------------------
(***************************************************************************)
(* The call.  Every attempt puts one request on the wire, and the server   *)
(* executes each at most once: wire, executions and attempts balance.      *)
(***************************************************************************)
Flags ==
    /\ resent \in BOOLEAN /\ answering \in BOOLEAN
    /\ committed \in BOOLEAN /\ lost \in BOOLEAN

CallTyped ==
    /\ method \in Methods
    /\ phase \in {"idle", "waiting", "backoff", "ended"}
    /\ attempts \in 0..Rpc!MaxAttempts
    /\ pings \in 0..Rpc!MaxPings
    /\ Flags

Balanced ==
    /\ wire \in Nat /\ executions \in Nat /\ attempts \in Nat
    /\ wire + executions = attempts
    /\ phase = "backoff" => attempts < Rpc!MaxAttempts
    /\ phase = "idle" => attempts = 0

\* A call of a method that acts, on a channel with a config of the package's, is not
\* retried there, so it never backs off, and the one request it sent is on the wire
\* or was executed.
SentOnce ==
    method.acts /\ OfPackage(on) =>
        /\ phase # "backoff"
        /\ attempts <= 1
        /\ phase # "idle" => method \notin Retried(on.config)

CallSound == CallTyped /\ Balanced /\ SentOnce

LEMMA CallStepFlags ==
    ASSUME Flags, Rpc!Next \/ Rpc!Start \/ Rpc!Reject
    PROVE  Flags'
<1> USE DEF Flags, Rpc!link, Rpc!Hush
<1>1. CASE Rpc!Execute
  BY <1>1, Zenon DEF Rpc!Execute
<1>2. CASE Rpc!Respond \/ Rpc!Refused
  BY <1>2, Zenon DEF Rpc!Respond, Rpc!Refused
<1>3. CASE Rpc!Succeed \/ Rpc!ClientDeadline
  BY <1>3, Zenon DEF Rpc!Succeed, Rpc!ClientDeadline
<1>4. CASE Rpc!GoDead \/ Rpc!Ping
  BY <1>4, Zenon DEF Rpc!GoDead, Rpc!Ping
<1>5. CASE Rpc!PingTimeout
  BY <1>5, Zenon DEF Rpc!PingTimeout, Rpc!Fail
<1>6. CASE Rpc!Retry
  BY <1>6, Zenon DEF Rpc!Retry
<1>7. ASSUME NEW code \in Rpc!Codes, Rpc!Error(code)
      PROVE  Flags'
  BY <1>7, Zenon DEF Rpc!Error, Rpc!Fail
<1>8. CASE Rpc!Start \/ Rpc!Reject
  BY <1>8, Zenon DEF Rpc!Start, Rpc!Reject
<1>9. QED
  BY <1>1, <1>2, <1>3, <1>4, <1>5, <1>6, <1>7, <1>8 DEF Rpc!Next

LEMMA CallStepTyped ==
    ASSUME CallTyped, Balanced, Rpc!Next \/ Rpc!Start \/ Rpc!Reject
    PROVE  CallTyped'
<1> USE DEF CallTyped, Balanced, Rpc!MaxAttempts, Rpc!MaxPings, Rpc!link, Rpc!Hush
<1>0. Flags'
  BY CallStepFlags
<1>1. CASE Rpc!Execute
  BY <1>0, <1>1 DEF Rpc!Execute
<1>2. CASE \/ Rpc!Respond \/ Rpc!Succeed \/ Rpc!GoDead \/ Rpc!Ping
            \/ Rpc!Refused \/ Rpc!ClientDeadline
  BY <1>0, <1>2 DEF Rpc!Respond, Rpc!Succeed, Rpc!GoDead, Rpc!Ping, Rpc!Refused,
                    Rpc!ClientDeadline
<1>3. CASE Rpc!Retry
  BY <1>0, <1>3 DEF Rpc!Retry
<1>4. ASSUME NEW code \in Rpc!Codes, Rpc!Error(code)
      PROVE  CallTyped'
  BY <1>0, <1>4 DEF Rpc!Error, Rpc!Fail
<1>5. CASE Rpc!PingTimeout
  BY <1>0, <1>5 DEF Rpc!PingTimeout, Rpc!Fail
<1>6. CASE Rpc!Start \/ Rpc!Reject
  BY <1>0, <1>6 DEF Rpc!Start, Rpc!Reject
<1>7. QED
  BY <1>1, <1>2, <1>3, <1>4, <1>5, <1>6 DEF Rpc!Next

LEMMA CallStepBalanced ==
    ASSUME Balanced, Rpc!Next \/ Rpc!Start \/ Rpc!Reject
    PROVE  Balanced'
<1> USE DEF Balanced, Rpc!MaxAttempts
<1>1. CASE Rpc!Execute
  BY <1>1 DEF Rpc!Execute
<1>2. CASE \/ Rpc!Respond \/ Rpc!Succeed \/ Rpc!GoDead \/ Rpc!Ping
            \/ Rpc!Refused \/ Rpc!ClientDeadline
  BY <1>2 DEF Rpc!Respond, Rpc!Succeed, Rpc!GoDead, Rpc!Ping, Rpc!Refused, Rpc!ClientDeadline
<1>3. CASE Rpc!Retry
  BY <1>3 DEF Rpc!Retry
<1>4. ASSUME NEW code \in Rpc!Codes, Rpc!Error(code)
      PROVE  Balanced'
  BY <1>4 DEF Rpc!Error, Rpc!Fail
<1>5. CASE Rpc!PingTimeout
  BY <1>5 DEF Rpc!PingTimeout, Rpc!Fail
<1>6. CASE Rpc!Start
  <2>1. wire = 0 /\ executions = 0
    BY <1>6 DEF Rpc!Start
  <2>2. QED
    BY <1>6, <2>1 DEF Rpc!Start
<1>7. CASE Rpc!Reject
  BY <1>7 DEF Rpc!Reject
<1>8. QED
  BY <1>1, <1>2, <1>3, <1>4, <1>5, <1>6, <1>7 DEF Rpc!Next

\* What a call does on its channel: only Fail leads to a backoff.
LEMMA CallStepSentOnce ==
    ASSUME SentOnce, UNCHANGED on, Rpc!Next
    PROVE  SentOnce'
<1> USE DEF SentOnce, OfPackage
<1>1. CASE \/ Rpc!Execute \/ Rpc!Respond \/ Rpc!Succeed \/ Rpc!GoDead \/ Rpc!Ping
            \/ Rpc!Refused \/ Rpc!ClientDeadline
  BY <1>1 DEF Rpc!Execute, Rpc!Respond, Rpc!Succeed, Rpc!GoDead, Rpc!Ping, Rpc!Refused,
              Rpc!ClientDeadline
<1>2. CASE Rpc!Retry
  BY <1>2 DEF Rpc!Retry
<1>3. ASSUME NEW code \in Rpc!Codes, Rpc!Error(code)
      PROVE  SentOnce'
  BY <1>3 DEF Rpc!Error, Rpc!Fail, Rpc!Retried, Retried
<1>4. CASE Rpc!PingTimeout
  BY <1>4 DEF Rpc!PingTimeout, Rpc!Fail, Rpc!Retried, Retried
<1>5. QED
  BY <1>1, <1>2, <1>3, <1>4 DEF Rpc!Next

\* A call begins on a channel whose config is harmless if the package made it.
LEMMA StartSendsOnce ==
    ASSUME channels \subseteq FitChannels, Balanced, NEW ch \in channels, StartCall(ch)
    PROVE  SentOnce'
<1>1. OfPackage(ch) => \A m \in Retried(ch.config) : ~m.acts
  BY DEF FitChannels, Fit
<1>2. on' = ch /\ method' = method /\ phase' \in {"waiting", "ended"} /\ attempts' \in {0, 1}
  BY DEF StartCall, Rpc!Start, Rpc!Reject, Balanced
<1>3. QED
  BY <1>1, <1>2 DEF SentOnce, OfPackage

LEMMA CallSoundInductive ==
    ASSUME FitEverywhere, CallSound, [SystemNext]_all
    PROVE  CallSound'
<1>1. CASE UNCHANGED <<on, call>>
  BY <1>1 DEF CallSound, CallTyped, Flags, Balanced, SentOnce, call
<1>2. ASSUME NEW ch \in channels, StartCall(ch)
      PROVE  CallSound'
  BY <1>2, CallStepTyped, CallStepBalanced, StartSendsOnce
     DEF StartCall, CallSound, FitEverywhere
<1>3. CASE OnChannel(Rpc!Next)
  BY <1>3, CallStepTyped, CallStepBalanced, CallStepSentOnce DEF OnChannel, CallSound
<1>4. QED
  BY <1>1, <1>2, <1>3 DEF SystemNext, Prepare, all

-----------------------------------------------------------------------------
(***************************************************************************)
(* The channel of the call: it stays open, with the config it got.         *)
(***************************************************************************)
OnOpened ==
    /\ on = NoChannel \/ on \in channels
    /\ phase # "idle" => on \in channels

LEMMA ChannelsStay ==
    ASSUME [Next]_vars
    PROVE  channels \subseteq channels'
BY DEF Next, vars, Import, Begin, Ask, OptionsMiss, SharedMiss, Scan, ScanRaises, StoreConfig,
       OpenBuilt, OpenCached, OpenSharedBuilt, OpenSharedCached, OpenChannel

LEMMA StepOfTheCaches ==
    ASSUME [SystemNext]_all
    PROVE  [Next]_vars
BY DEF SystemNext, Prepare, StartCall, OnChannel, all

LEMMA OnOpenedInductive ==
    ASSUME OnOpened, [SystemNext]_all
    PROVE  OnOpened'
<1>1. channels \subseteq channels'
  BY ChannelsStay, StepOfTheCaches
<1>2. CASE UNCHANGED <<on, call>>
  BY <1>1, <1>2 DEF OnOpened, call
<1>3. ASSUME NEW ch \in channels, StartCall(ch)
      PROVE  OnOpened'
  BY <1>1, <1>3 DEF StartCall, OnOpened
<1>4. ASSUME OnChannel(Rpc!Next)
      PROVE  OnOpened'
  <2>1. on' = on
    BY <1>4 DEF OnChannel
  <2>2. phase # "idle" \/ phase' = phase
    BY <1>4 DEF OnChannel, Rpc!Next, Rpc!Execute, Rpc!Respond, Rpc!Succeed, Rpc!GoDead,
                Rpc!Ping, Rpc!PingTimeout, Rpc!Refused, Rpc!Retry, Rpc!ClientDeadline, Rpc!Error
  <2>3. QED
    BY <1>1, <2>1, <2>2 DEF OnOpened
<1>5. QED
  BY <1>2, <1>3, <1>4 DEF SystemNext, Prepare, all

EndToEnd == FitEverywhere /\ CallSound /\ OnOpened

LEMMA EndToEndInductive == EndToEnd /\ [SystemNext]_all => EndToEnd'
BY StepOfTheCaches, FitInductive, CallSoundInductive, OnOpenedInductive DEF EndToEnd

LEMMA EndToEndInitially == SystemInit => EndToEnd
<1> SUFFICES ASSUME SystemInit
             PROVE  EndToEnd
  OBVIOUS
<1>1. FitEverywhere
  BY FitInitially DEF SystemInit
<1>2. CallSound
  <2>1. Flags
    BY Zenon DEF SystemInit, Rpc!Init, Flags
  <2>2. /\ method \in Methods /\ phase = "idle"
        /\ attempts = 0 /\ wire = 0 /\ executions = 0 /\ pings = 0
    BY DEF SystemInit, Rpc!Init
  <2>3. QED
    BY <2>1, <2>2 DEF Rpc!MaxAttempts, Rpc!MaxPings, CallSound, CallTyped, Balanced, SentOnce
<1>3. OnOpened
  BY DEF SystemInit, Rpc!Init, OnOpened
<1>4. QED
  BY <1>1, <1>2, <1>3 DEF EndToEnd

LEMMA AlwaysEndToEnd == SystemSpec => []EndToEnd
BY EndToEndInitially, EndToEndInductive, PTL DEF SystemSpec

\* A method whose repetition acts twice is executed at most once per call on a channel
\* whose config the package made, whatever was imported when, whichever cache the
\* config came from, whatever configs callers wrote for other channels, and whatever
\* the network loses or delays and the server answers.
THEOREM ActsAtMostOnceHolds == SystemSpec => []ActsAtMostOnce
<1>1. EndToEnd => ActsAtMostOnce
  BY DEF EndToEnd, CallSound, Balanced, SentOnce, ActsAtMostOnce
<1>2. QED
  BY <1>1, AlwaysEndToEnd, PTL

KnownTyped == known \in Namespaces

\* Every variable keeps its type, and the channel of a call stays open; the requests
\* on the wire and the executions never exceed the attempts.
THEOREM CallsTypeCorrect == SystemSpec => []CallsTypeOK
<1>1. SystemInit => KnownTyped
  BY FitInitially DEF SystemInit, FitEverywhere, KnownTyped
<1>2. EndToEnd /\ EndToEnd' /\ KnownTyped /\ [SystemNext]_all => KnownTyped'
  BY DEF EndToEnd, FitEverywhere, SystemNext, Prepare, StartCall, OnChannel, all, KnownTyped
<1>3. EndToEnd /\ KnownTyped => CallsTypeOK
  <2> SUFFICES ASSUME EndToEnd, KnownTyped
               PROVE  CallsTypeOK
    OBVIOUS
  <2>1. wire \in 0..Rpc!MaxAttempts /\ executions \in 0..Rpc!MaxAttempts
    <3>1. attempts \in 0..Rpc!MaxAttempts
      BY DEF EndToEnd, CallSound, CallTyped
    <3>2. QED
      BY <3>1 DEF EndToEnd, CallSound, Balanced, Rpc!MaxAttempts
  <2>2. Rpc!TypeOK
    <3>1. CallTyped
      BY DEF EndToEnd, CallSound
    <3>2. QED
      BY <2>1, <3>1, Zenon DEF CallTyped, Flags, Rpc!TypeOK
  <2>3. on \in [by : {"own", "shared"}, classes : SUBSET Classes,
                config : Configs \cup {Unset}, default : BOOLEAN]
    <3>1. CASE on = NoChannel
      BY <3>1 DEF NoChannel
    <3>2. CASE on \in channels
      <4>1. on \in FitChannels
        BY <3>2 DEF EndToEnd, FitEverywhere
      <4>2. QED
        BY <4>1 DEF FitChannels
    <3>3. QED
      BY <3>1, <3>2 DEF EndToEnd, OnOpened
  <2>4. QED
    BY <2>2, <2>3 DEF EndToEnd, OnOpened, CallsTypeOK, KnownTyped, Namespaces
<1>4. QED
  BY <1>1, <1>2, <1>3, EndToEndInitially, EndToEndInductive, PTL DEF SystemSpec

-----------------------------------------------------------------------------
(***************************************************************************)
(* What was known before any lookup began is in every config, to the       *)
(* method.  While nothing has been looked up, what is known is what is     *)
(* visible, and no channel is open.                                        *)
(***************************************************************************)
\* No channel is opened but with options that some cache holds.
Cached ==
    \/ \E c \in Classes : configFor[c] # Unset \/ itemsFor[c] # Unset
    \/ \E ts \in Tuples : configForAll[ts] # Unset

Traced == channels = {} \/ Methods = {} \/ Cached

LEMMA UnsetUnfit ==
    ASSUME Methods # {}
    PROVE  Unset \notin Fit
<1>1. DOMAIN Unset = {}
  BY DEF Unset
<1>2. QED
  BY <1>1 DEF Fit, Configs

LEMMA TracedInductive ==
    ASSUME FitEverywhere, Traced, [Next]_vars
    PROVE  Traced'
<1> SUFFICES ASSUME Methods # {}
             PROVE  Traced'
  BY DEF Traced
<1>0. Unset \notin Fit /\ Alone \subseteq Classes
  BY UnsetUnfit, CacheAssumption
<1>1. CASE UNCHANGED <<caches, channels>>
  BY <1>1 DEF Traced, Cached, caches
<1>2. CASE Cached /\ UNCHANGED caches
  BY <1>2 DEF Traced, Cached, caches
<1>3. ASSUME NEW t \in Threads, StoreConfig(t)
      PROVE  Traced'
  <2>1. miss[t] \in Frames /\ miss[t].by \in {"ask", "own"}
    BY <1>3 DEF StoreConfig, Found, FitEverywhere
  <2>2. PICK c \in Classes : miss[t].classes = <<c>>
    BY <2>1 DEF Frames
  <2>3. miss[t].classes[1] = c
    BY <2>2
  <2>4. PICK config \in Fit : config = ConfigOf(miss[t].found)
    BY <2>1, FoundIsFit DEF Frames
  <2>5. configFor' = [configFor EXCEPT ![c] = config]
    BY <1>3, <2>3, <2>4 DEF StoreConfig
  <2>6. configFor'[c] # Unset
    BY <1>0, <2>5 DEF FitEverywhere
  <2>7. QED
    BY <2>6 DEF Traced, Cached
<1>4. ASSUME NEW t \in Threads, NEW passed \in Passed, OpenBuilt(t, passed)
      PROVE  Traced'
  <2>1. miss[t] \in Frames /\ miss[t].pc = "caching"
    BY <1>4 DEF OpenBuilt, At, FitEverywhere
  <2>2. miss[t].config \in Fit /\ \E c \in Classes : miss[t].classes = <<c>>
    BY <2>1 DEF Frames
  <2>3. PICK c \in Classes : miss[t].classes = <<c>>
    BY <2>2
  <2>4. miss[t].classes[1] = c
    BY <2>3
  <2>5. itemsFor' = [itemsFor EXCEPT ![c] = miss[t].config]
    BY <1>4, <2>4 DEF OpenBuilt
  <2>6. itemsFor'[c] # Unset
    BY <1>0, <2>2, <2>5 DEF FitEverywhere
  <2>7. QED
    BY <2>6 DEF Traced, Cached
<1>5. ASSUME NEW c \in Alone, NEW passed \in Passed, OpenCached(c, passed)
      PROVE  Traced'
  BY <1>0, <1>2, <1>5 DEF OpenCached, Cached
<1>6. ASSUME NEW t \in Threads, NEW passed \in Passed, OpenSharedBuilt(t, passed)
      PROVE  Traced'
  <2>1. miss[t] \in Frames /\ miss[t].by = "shared"
    BY <1>6 DEF OpenSharedBuilt, Found, FitEverywhere
  <2>2. PICK ts \in Tuples : ts = miss[t].classes
    BY <2>1 DEF Frames
  <2>3. PICK config \in Fit : config = ConfigOf(miss[t].found)
    BY <2>1, FoundIsFit DEF Frames
  <2>4. configForAll' = [configForAll EXCEPT ![ts] = config]
    BY <1>6, <2>2, <2>3 DEF OpenSharedBuilt
  <2>5. configForAll'[ts] # Unset
    BY <1>0, <2>4 DEF FitEverywhere
  <2>6. QED
    BY <2>5 DEF Traced, Cached
<1>7. ASSUME NEW ts \in Tuples, NEW passed \in Passed, OpenSharedCached(ts, passed)
      PROVE  Traced'
  BY <1>2, <1>7 DEF OpenSharedCached, Cached
<1>8. QED
  BY <1>1, <1>3, <1>4, <1>5, <1>6, <1>7
     DEF Next, vars, Import, Begin, Ask, OptionsMiss, SharedMiss, Scan, ScanRaises

\* The converse of Within: a config retries all that a lookup for these classes
\* would, that found these names.
SeenOf(ns, cs) == UNION {ns[m] : m \in UNION {Range(Mro[c]) : c \in cs}}

Covers(ns, config, cs) == Retried(ConfigOf(SeenOf(ns, cs))) \subseteq Retried(config)

Seeks(ns, f) ==
    /\ f.pc = "scanning" => SeenOf(ns, Range(f.classes)) \subseteq f.due
    /\ f.pc = "caching" => Covers(ns, f.config, Range(f.classes))

CoveredBy(ns, ch) == ch.default => Covers(ns, ch.config, ch.classes)

AllCovered(ns) ==
    /\ \A c \in Classes : configFor[c] # Unset => Covers(ns, configFor[c], {c})
    /\ \A c \in Classes : itemsFor[c] # Unset => Covers(ns, itemsFor[c], {c})
    /\ \A ts \in Tuples : configForAll[ts] # Unset => Covers(ns, configForAll[ts], Range(ts))
    /\ \A t \in Threads : Seeks(ns, miss[t])
    /\ \A ch \in channels : CoveredBy(ns, ch)

\* The inductive invariant, with those of the caches.
KnownCovered ==
    /\ KnownTyped
    /\ Grows(known, namespace)
    /\ AllCovered(known)

LEMMA FoundCovers ==
    ASSUME NEW ns, NEW cs, NEW found \in SUBSET Pb2, SeenOf(ns, cs) \subseteq found
    PROVE  Covers(ns, ConfigOf(found), cs)
BY MoreFoundMoreRetried DEF Covers

\* A list of classes sees what its set of classes sees.
LEMMA SeenByList ==
    ASSUME NEW ns, NEW list \in Keys
    PROVE  Seen(ns, ModulesOf(list)) = SeenOf(ns, Range(list))
BY KeysAreLists, ModulesOfClasses DEF Seen, SeenOf

\* When nothing is cached or sought, only channels could lack what is known, and
\* there are none.
LEMMA UntouchedCovers ==
    ASSUME Traced', Untouched', NEW ns
    PROVE  AllCovered(ns)'
<1>1. \A t \in Threads : Seeks(ns, miss'[t])
  BY DEF Untouched, At, Seeks
<1>2. \A ch \in channels' : CoveredBy(ns, ch)
  BY DEF Traced, Untouched, Cached, CoveredBy, Covers, Retried
<1>3. QED
  BY <1>1, <1>2 DEF AllCovered, Untouched

\* The options a channel is opened with cover what is known.
LEMMA OpenCovers ==
    ASSUME channels \subseteq FitChannels, NEW ns, \A ch \in channels : CoveredBy(ns, ch),
           NEW by \in {"own", "shared"}, NEW classes \in SUBSET Classes,
           NEW default \in Fit, Covers(ns, default, classes),
           NEW passed \in Passed, OpenChannel(by, classes, default, passed)
    PROVE  \A ch \in channels' : CoveredBy(ns, ch)
<1>1. \A ch \in channels' \ channels :
        ch.default => ch.by = by /\ ch.classes = classes /\ ch.config = default
  BY OpenFits
<1>2. QED
  BY <1>1 DEF CoveredBy

LEMMA GoSeeks ==
    ASSUME FitEverywhere, NEW ns, \A t \in Threads : Seeks(ns, miss[t]),
           NEW t \in Threads, NEW f, Seeks(ns, f), Go(t, f)
    PROVE  \A u \in Threads : Seeks(ns, miss'[u])
<1>1. /\ miss'[t] = f
      /\ \A u \in Threads \ {t} : miss'[u] = miss[u]
  BY DEF Go, FitEverywhere
<1>2. QED
  BY <1>1

\* A lookup begins: it is due all that is visible, and so all that is known.
LEMMA ScanningSeeks ==
    ASSUME namespace \in Namespaces, NEW ns, Grows(ns, namespace), NEW by, NEW classes,
           \/ by \in {"ask", "own"} /\ \E c \in Classes : classes = <<c>>
           \/ by = "shared" /\ classes \in Tuples
    PROVE  Seeks(ns, Scanning(by, classes))
<1>1. classes \in Keys
  BY KeysAreLists
<1>2. Range(ModulesOf(classes)) \subseteq Modules
  BY <1>1, ModulesOfKey, LenProperties, ElementOfSeq DEF Range
<1>3. Seen(ns, ModulesOf(classes)) \subseteq Seen(namespace, ModulesOf(classes))
  BY <1>2, SeenGrows
<1>4. Seen(namespace, ModulesOf(classes)) = Visible(ModulesOf(classes))
  BY DEF Seen, Visible
<1>5. SeenOf(ns, Range(classes)) \subseteq Visible(ModulesOf(classes))
  BY <1>1, <1>3, <1>4, SeenByList
<1>6. /\ Scanning(by, classes).pc = "scanning"
      /\ Scanning(by, classes).classes = classes
      /\ Scanning(by, classes).due = Visible(ModulesOf(classes))
  BY ScanningFrame
<1>7. QED
  BY <1>5, <1>6 DEF Seeks

\* A lookup that has looked at every module has found all that is known.
LEMMA FoundAllKnown ==
    ASSUME FitEverywhere, NothingAhead, NEW ns, \A u \in Threads : Seeks(ns, miss[u]),
           NEW t \in Threads, NEW by, Found(t, by)
    PROVE  Covers(ns, ConfigOf(miss[t].found), Range(miss[t].classes))
<1>1. miss[t].due \subseteq miss[t].found
  <2>1. Seen(namespace, <<>>) = {}
    BY DEF Seen, Range
  <2>2. QED
    BY <2>1 DEF NothingAhead, Found, At, Follows
<1>2. SeenOf(ns, Range(miss[t].classes)) \subseteq miss[t].due
  BY DEF Found, At, Seeks
<1>3. miss[t].found \in SUBSET Pb2
  BY DEF FitEverywhere, Frames
<1>4. QED
  BY <1>1, <1>2, <1>3, FoundCovers

\* A step of the caches keeps covered what is covered and visible.
LEMMA StaysCovered ==
    ASSUME FitEverywhere, NothingAhead, NEW ns, Grows(ns, namespace), AllCovered(ns), Next
    PROVE  AllCovered(ns)'
<1>0. /\ Alone \subseteq Classes
      /\ namespace \in Namespaces
      /\ channels \subseteq FitChannels
      /\ \A t \in Threads : miss[t] \in Frames /\ Seeks(ns, miss[t])
      /\ \A ch \in channels : CoveredBy(ns, ch)
  BY CacheAssumption DEF FitEverywhere, AllCovered
<1>1. ASSUME NEW m \in Modules, NEW p \in Pb2, Import(m, p)
      PROVE  AllCovered(ns)'
  BY <1>1 DEF Import, caches, AllCovered
<1>2. ASSUME NEW t \in Threads, NEW f, Go(t, f), Seeks(ns, f), UNCHANGED <<caches, channels>>
      PROVE  AllCovered(ns)'
  <2>1. \A u \in Threads : Seeks(ns, miss'[u])
    BY <1>0, <1>2, GoSeeks
  <2>2. QED
    BY <1>2, <2>1 DEF AllCovered, caches
<1>3. ASSUME NEW t \in Threads, NEW c \in Alone, Ask(t, c)
      PROVE  AllCovered(ns)'
  <2>1. Seeks(ns, Scanning("ask", <<c>>))
    BY <1>0, ScanningSeeks
  <2>2. QED
    BY <1>2, <1>3, <2>1 DEF Ask, Begin
<1>4. ASSUME NEW t \in Threads, NEW c \in Alone, OptionsMiss(t, c)
      PROVE  AllCovered(ns)'
  <2>1. UNCHANGED <<caches, channels>>
    BY <1>4 DEF OptionsMiss, Begin
  <2>2. CASE configFor[c] = Unset
    <3>1. Go(t, Scanning("own", <<c>>))
      BY <1>4, <2>2 DEF OptionsMiss, Begin
    <3>2. Seeks(ns, Scanning("own", <<c>>))
      BY <1>0, ScanningSeeks
    <3>3. QED
      BY <1>2, <2>1, <3>1, <3>2
  <2>3. CASE configFor[c] # Unset
    <3>1. PICK config : config = configFor[c]
      OBVIOUS
    <3>2. c \in Classes /\ config \in Fit /\ Covers(ns, config, {c})
      BY <1>0, <2>3, <3>1 DEF FitEverywhere, AllCovered
    <3>3. Go(t, Caching(c, config))
      BY <1>4, <2>3, <3>1 DEF OptionsMiss, Begin
    <3>4. PICK f : f = Caching(c, config)
      OBVIOUS
    <3>5. f.pc = "caching" /\ f.classes = <<c>> /\ f.config = config
      BY <3>2, <3>4, CachingFrame
    <3>6. Range(f.classes) = {c}
      BY <3>5, OneClassList
    <3>7. Seeks(ns, f)
      BY <3>2, <3>5, <3>6 DEF Seeks
    <3>8. QED
      BY <1>2, <2>1, <3>3, <3>4, <3>7
  <2>4. QED
    BY <2>2, <2>3
<1>5. ASSUME NEW t \in Threads, NEW ts \in Tuples, SharedMiss(t, ts)
      PROVE  AllCovered(ns)'
  <2>1. Seeks(ns, Scanning("shared", ts))
    BY <1>0, ScanningSeeks
  <2>2. QED
    BY <1>2, <1>5, <2>1 DEF SharedMiss, Begin
<1>6. ASSUME NEW t \in Threads, Scan(t)
      PROVE  AllCovered(ns)'
  <2>1. miss[t].todo # <<>> /\ Go(t, Scanned(miss[t])) /\ UNCHANGED <<caches, channels>>
    BY <1>6 DEF Scan, Scanned
  <2>2. Seeks(ns, Scanned(miss[t]))
    BY <1>0, <2>1, ScannedFrame DEF Seeks
  <2>3. QED
    BY <1>2, <2>1, <2>2
<1>7. ASSUME NEW t \in Threads, ScanRaises(t)
      PROVE  AllCovered(ns)'
  <2>1. Seeks(ns, Idle)
    BY IdleFrame DEF Seeks
  <2>2. QED
    BY <1>2, <1>7, <2>1 DEF ScanRaises
<1>8. ASSUME NEW t \in Threads, StoreConfig(t)
      PROVE  AllCovered(ns)'
  <2>1. miss[t] \in Frames /\ miss[t].by \in {"ask", "own"} /\ Found(t, {"ask", "own"})
    BY <1>0, <1>8 DEF StoreConfig, Found
  <2>2. PICK c \in Classes : miss[t].classes = <<c>>
    BY <2>1 DEF Frames
  <2>3. miss[t].classes[1] = c /\ Range(<<c>>) = {c}
    BY <2>2, OneClassList
  <2>4. PICK config \in Fit : config = ConfigOf(miss[t].found)
    BY <2>1, FoundIsFit DEF Frames
  <2>5. Covers(ns, config, {c})
    BY <1>0, <2>1, <2>2, <2>3, <2>4, FoundAllKnown
  <2>6. /\ configFor' = [configFor EXCEPT ![c] = config]
        /\ Go(t, IF miss[t].by = "ask" THEN Idle ELSE Caching(c, config))
        /\ UNCHANGED <<itemsFor, configForAll, channels>>
    BY <1>8, <2>3, <2>4 DEF StoreConfig
  <2>7. Seeks(ns, Caching(c, config)) /\ Seeks(ns, Idle)
    BY <2>3, <2>5, CachingFrame, IdleFrame DEF Seeks
  <2>8. \A u \in Threads : Seeks(ns, miss'[u])
    BY <1>0, <2>6, <2>7, GoSeeks
  <2>9. \A d \in Classes : configFor'[d] # Unset => Covers(ns, configFor'[d], {d})
    BY <2>5, <2>6 DEF FitEverywhere, AllCovered
  <2>10. QED
    BY <2>6, <2>8, <2>9 DEF AllCovered
<1>9. ASSUME NEW t \in Threads, NEW passed \in Passed, OpenBuilt(t, passed)
      PROVE  AllCovered(ns)'
  <2>1. miss[t] \in Frames /\ miss[t].pc = "caching"
    BY <1>0, <1>9 DEF OpenBuilt, At
  <2>2. miss[t].config \in Fit /\ \E c \in Classes : miss[t].classes = <<c>>
    BY <2>1 DEF Frames
  <2>3. PICK c \in Classes : miss[t].classes = <<c>>
    BY <2>2
  <2>4. miss[t].classes[1] = c /\ Range(<<c>>) = {c} /\ {c} \in SUBSET Classes
    BY <2>3, OneClassList
  <2>5. PICK config \in Fit : config = miss[t].config
    BY <2>2
  <2>6. Covers(ns, config, {c})
    BY <1>0, <2>1, <2>3, <2>4, <2>5 DEF Seeks
  <2>7. /\ itemsFor' = [itemsFor EXCEPT ![c] = config]
        /\ OpenChannel("own", {c}, config, passed)
        /\ Go(t, Idle)
        /\ UNCHANGED <<configFor, configForAll>>
    BY <1>9, <2>4, <2>5 DEF OpenBuilt
  <2>8. \A ch \in channels' : CoveredBy(ns, ch)
    BY <1>0, <2>4, <2>6, <2>7, OpenCovers
  <2>9. \A u \in Threads : Seeks(ns, miss'[u])
    BY <1>0, <2>7, GoSeeks, IdleFrame DEF Seeks
  <2>10. \A d \in Classes : itemsFor'[d] # Unset => Covers(ns, itemsFor'[d], {d})
    BY <2>6, <2>7 DEF FitEverywhere, AllCovered
  <2>11. QED
    BY <2>7, <2>8, <2>9, <2>10 DEF AllCovered
<1>10. ASSUME NEW c \in Alone, NEW passed \in Passed, OpenCached(c, passed)
      PROVE  AllCovered(ns)'
  <2>1. itemsFor[c] \in Fit /\ Covers(ns, itemsFor[c], {c}) /\ {c} \in SUBSET Classes
    BY <1>0, <1>10 DEF OpenCached, FitEverywhere, AllCovered
  <2>2. \A ch \in channels' : CoveredBy(ns, ch)
    BY <1>0, <1>10, <2>1, OpenCovers DEF OpenCached
  <2>3. QED
    BY <1>10, <2>2 DEF OpenCached, AllCovered, caches
<1>11. ASSUME NEW t \in Threads, NEW passed \in Passed, OpenSharedBuilt(t, passed)
      PROVE  AllCovered(ns)'
  <2>1. miss[t] \in Frames /\ miss[t].by = "shared" /\ Found(t, {"shared"})
    BY <1>0, <1>11 DEF OpenSharedBuilt, Found
  <2>2. PICK ts \in Tuples : ts = miss[t].classes
    BY <2>1 DEF Frames
  <2>3. PICK config \in Fit : config = ConfigOf(miss[t].found)
    BY <2>1, FoundIsFit DEF Frames
  <2>4. Covers(ns, config, Range(ts)) /\ Range(ts) \in SUBSET Classes
    BY <1>0, <2>1, <2>2, <2>3, FoundAllKnown, KeysAreLists
  <2>5. /\ configForAll' = [configForAll EXCEPT ![ts] = config]
        /\ OpenChannel("shared", Range(ts), config, passed)
        /\ Go(t, Idle)
        /\ UNCHANGED <<configFor, itemsFor>>
    BY <1>11, <2>2, <2>3 DEF OpenSharedBuilt
  <2>6. \A ch \in channels' : CoveredBy(ns, ch)
    BY <1>0, <2>4, <2>5, OpenCovers
  <2>7. \A u \in Threads : Seeks(ns, miss'[u])
    BY <1>0, <2>5, GoSeeks, IdleFrame DEF Seeks
  <2>8. \A us \in Tuples : configForAll'[us] # Unset => Covers(ns, configForAll'[us], Range(us))
    BY <2>4, <2>5 DEF FitEverywhere, AllCovered
  <2>9. QED
    BY <2>5, <2>6, <2>7, <2>8 DEF AllCovered
<1>12. ASSUME NEW ts \in Tuples, NEW passed \in Passed, OpenSharedCached(ts, passed)
      PROVE  AllCovered(ns)'
  <2>1. /\ configForAll[ts] \in Fit /\ Covers(ns, configForAll[ts], Range(ts))
        /\ Range(ts) \in SUBSET Classes
    BY <1>12, KeysAreLists DEF OpenSharedCached, FitEverywhere, AllCovered
  <2>2. \A ch \in channels' : CoveredBy(ns, ch)
    BY <1>0, <1>12, <2>1, OpenCovers DEF OpenSharedCached
  <2>3. QED
    BY <1>12, <2>2 DEF OpenSharedCached, AllCovered, caches
<1>13. QED
  BY <1>1, <1>3, <1>4, <1>5, <1>6, <1>7, <1>8, <1>9, <1>10, <1>11, <1>12 DEF Next

WholeSystem == EndToEnd /\ NothingAhead /\ Traced /\ KnownCovered

LEMMA KnownCoveredInductive ==
    ASSUME WholeSystem, [SystemNext]_all
    PROVE  KnownCovered'
<1>0. /\ FitEverywhere /\ FitEverywhere' /\ NothingAhead /\ Traced'
      /\ KnownTyped /\ Grows(known, namespace) /\ AllCovered(known)
  BY StepOfTheCaches, FitInductive, TracedInductive DEF WholeSystem, EndToEnd, KnownCovered
<1>1. CASE UNCHANGED <<vars, known>>
  BY <1>0, <1>1 DEF KnownCovered, KnownTyped, AllCovered, vars, caches
<1>2. CASE Prepare
  <2>1. Grows(known, namespace')
    BY <1>0, StepOfTheCaches, NamespacesGrow DEF Grows
  <2>2. CASE Untouched'
    <3>1. known' = namespace'
      BY <1>2, <2>2 DEF Prepare
    <3>2. KnownTyped' /\ Grows(known', namespace')
      BY <1>0, <3>1 DEF KnownTyped, FitEverywhere, Grows
    <3>3. PICK ns : ns = known'
      OBVIOUS
    <3>4. AllCovered(ns)'
      BY <1>0, <2>2, UntouchedCovers
    <3>5. QED
      BY <3>2, <3>3, <3>4 DEF KnownCovered, AllCovered
  <2>3. CASE ~Untouched'
    <3>1. known' = known
      BY <1>2, <2>3 DEF Prepare
    <3>2. PICK ns : ns = known
      OBVIOUS
    <3>3. AllCovered(ns)'
      BY <1>0, <1>2, <3>2, StaysCovered DEF Prepare
    <3>4. QED
      BY <1>0, <2>1, <3>1, <3>2, <3>3 DEF KnownCovered, KnownTyped, AllCovered
  <2>4. QED
    BY <2>2, <2>3
<1>3. QED
  BY <1>1, <1>2 DEF SystemNext, StartCall, OnChannel, all

LEMMA WholeSystemInductive == WholeSystem /\ [SystemNext]_all => WholeSystem'
BY StepOfTheCaches, EndToEndInductive, NothingAheadInductive, TracedInductive,
   KnownCoveredInductive DEF WholeSystem, EndToEnd

LEMMA WholeSystemInitially == SystemInit => WholeSystem
<1> SUFFICES ASSUME SystemInit
             PROVE  WholeSystem
  OBVIOUS
<1>1. NothingAhead /\ Traced
  BY IdleFollows DEF SystemInit, Init, NothingAhead, Traced
<1>2. AllCovered(known)
  BY IdleFrame DEF SystemInit, Init, AllCovered, Seeks
<1>3. KnownTyped /\ Grows(known, namespace)
  BY FitInitially DEF SystemInit, FitEverywhere, KnownTyped, Grows
<1>4. QED
  BY <1>1, <1>2, <1>3, EndToEndInitially DEF WholeSystem, KnownCovered

\* The config of a default channel retries what may be repeated on it.
LEMMA RepeatableIsRetried ==
    ASSUME WholeSystem, Repeatable, phase # "idle"
    PROVE  method \in Retried(on.config)
<1>1. on \in channels /\ on.classes \in SUBSET Classes
  BY DEF WholeSystem, EndToEnd, OnOpened, FitEverywhere, FitChannels
<1>2. Covers(known, on.config, on.classes)
  BY <1>1 DEF WholeSystem, KnownCovered, AllCovered, CoveredBy, Repeatable
<1>3. SeenOf(known, on.classes) \in SUBSET Pb2
  <2>1. \A c \in Classes : Range(Mro[c]) \subseteq Modules
    BY CacheAssumption, LenProperties, ElementOfSeq DEF Range
  <2>2. known \in Namespaces
    BY DEF WholeSystem, KnownCovered, KnownTyped
  <2>3. QED
    BY <1>1, <2>1, <2>2 DEF SeenOf, Namespaces
<1>4. method.service \in ServicesOf(SeenOf(known, on.classes))
  BY DEF Repeatable, KnownServices, ServicesOf, SeenOf
<1>5. method \in Methods /\ is_idempotent_method(method)
  BY DEF WholeSystem, EndToEnd, CallSound, CallTyped, Repeatable
<1>6. method \in Retried(ConfigOf(SeenOf(known, on.classes)))
  BY <1>3, <1>4, <1>5, FoundConfig
<1>7. QED
  BY <1>2, <1>6 DEF Covers

\* Module docstring: an idempotent method is retried: a retryable failure on a
\* default channel whose classes revealed its service before any lookup began is
\* never the caller's, whatever was imported, looked up, broken off or overwritten
\* in between, unless the attempts are used up or a response has been received.
THEOREM RetriedIfKnownHolds == SystemSpec => RetriedIfKnown
<1>1. WholeSystem /\ [SystemNext]_all =>
        [(\E code \in Rpc!RetryableStatusCodes : Rpc!Error(code)) /\ Repeatable
            => phase' = "backoff" \/ attempts = 5 \/ committed]_all
  <2> SUFFICES ASSUME WholeSystem, Repeatable,
                      NEW code \in Rpc!RetryableStatusCodes, Rpc!Error(code)
               PROVE  phase' = "backoff" \/ attempts = 5 \/ committed
    OBVIOUS
  <2>1. phase = "waiting" /\ Rpc!Fail(code)
    BY DEF Rpc!Error
  <2>2. method \in Rpc!Retried(on.config)
    BY <2>1, RepeatableIsRetried DEF Rpc!Retried, Retried
  <2>3. attempts = 5 \/ attempts < Rpc!MaxAttempts
    BY DEF WholeSystem, EndToEnd, CallSound, CallTyped, Rpc!MaxAttempts
  <2>4. QED
    BY <2>1, <2>2, <2>3 DEF Rpc!Fail
<1>2. QED
  BY <1>1, WholeSystemInitially, WholeSystemInductive, PTL DEF SystemSpec, RetriedIfKnown
=============================================================================
