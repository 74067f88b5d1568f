---------------------------- MODULE ServiceCalls ----------------------------
(***************************************************************************)
(* From an import to a server: imports and lookups fill the caches         *)
(* (ServiceConfigCache), a channel is opened with what they answer, and a  *)
(* stub calls a method on it (RpcCall).  A service may be handed a channel *)
(* instead of opening one, so any method may be called on any channel.     *)
(***************************************************************************)
EXTENDS ServiceConfigCache

VARIABLES
    on,           \* the channel the call is made on
    known,        \* history: the namespaces when something was first cached or sought
    method, phase, attempts, resent, wire, answering, committed, lost, pings, executions

call == <<method, phase, attempts, resent, wire, answering, committed, lost, pings, executions>>
all  == <<vars, on, known, call>>

Rpc == INSTANCE RpcCall WITH config <- on.config

NoChannel == [by |-> "own", classes |-> {}, config |-> Unset, default |-> TRUE]

SystemInit ==
    /\ Init
    /\ Rpc!Init
    /\ on = NoChannel
    /\ known = namespace

Untouched ==
    /\ \A t \in Threads : At(t, "idle")
    /\ \A c \in Classes : configFor[c] = Unset /\ itemsFor[c] = Unset
    /\ \A ts \in Tuples : configForAll[ts] = Unset

\* A step of an import, a lookup or the opening of a channel.
Prepare ==
    /\ Next
    /\ known' = IF Untouched' THEN namespace' ELSE known
    /\ UNCHANGED <<on, call>>

\* A stub calls its method on the channel its service holds.
StartCall(ch) ==
    /\ on' = ch
    /\ Rpc!Start \/ Rpc!Reject
    /\ UNCHANGED <<vars, known>>

\* The call goes on; the channel keeps the config it was opened with.
OnChannel(A) == UNCHANGED <<vars, on, known>> /\ A

SystemNext ==
    \/ Prepare
    \/ \E ch \in channels : StartCall(ch)
    \/ OnChannel(Rpc!Next)

\* gRPC's timers fire: the backoff's, and, while pings are left, the keepalive's.
\* Nothing is assumed of the server, which may never answer, or of the caller, who
\* need not set a deadline.
Fairness == WF_all(OnChannel(Rpc!PingTimeout)) /\ WF_all(OnChannel(Rpc!Retry))

SystemSpec == SystemInit /\ [][SystemNext]_all /\ Fairness

-----------------------------------------------------------------------------
\* Every variable has its type; those of the caches are checked with them.
CallsTypeOK ==
    /\ Rpc!TypeOK
    /\ on \in [by : {"own", "shared"}, classes : SUBSET Classes,
               config : Configs \cup {Unset}, default : BOOLEAN]
    /\ phase # "idle" => on \in channels
    /\ known \in [Modules -> SUBSET Pb2]

\* Module docstring (the StartCallers batch deployed twice): a method whose
\* repetition acts twice is executed at most once, although connections are lost
\* mid-flight, requests arrive late, and the server answers retryable codes;
\* whatever was imported by when, on whichever channel with a config of the package's
\* the method is called, and whatever callers passed for the other channels.
ActsAtMostOnce == method.acts /\ OfPackage(on) => executions <= 1

\* The services of the classes of a channel that could be found before any lookup.
KnownServices(ch) ==
    UNION {ServicesIn[p] :
             p \in UNION {known[m] : m \in UNION {Range(Mro[c]) : c \in ch.classes}}}

\* The call was made on a default channel whose classes revealed its service before
\* any lookup began, and may be repeated.
Repeatable ==
    on.default /\ is_idempotent_method(method) /\ method.service \in KnownServices(on)

\* Module docstring: an idempotent method gets the retry policy.  "They are imported
\* by the time the class is instantiated" (_services_for): then a retryable failure
\* is not the caller's, whatever was imported, looked up or broken off in between,
\* unless the attempts are used up or a response has been received.
RetriedIfKnown ==
    [][(\E code \in Rpc!RetryableStatusCodes : Rpc!Error(code)) /\ Repeatable
          => phase' = "backoff" \/ attempts = 5 \/ committed]_all

\* What a call without a deadline may wait for in vain: a server that is silent on a
\* live connection, or a connection that went dead when the pings were used up.
Unnoticed == phase = "waiting" /\ (~lost \/ pings = Rpc!MaxPings)

\* _DEFAULT_GRPC_OPTIONS: keepalive "detects half-open connections".  However often
\* connections die under its attempts, a call ends in the end, unless it waits for
\* ever for what no ping can notice.
CallEnds == phase = "waiting" ~> phase = "ended" \/ []Unnoticed
=============================================================================
