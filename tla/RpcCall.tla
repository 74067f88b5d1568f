------------------------------ MODULE RpcCall ------------------------------
(***************************************************************************)
(* One RPC on a channel with a service config.  gRPC sends attempts, the   *)
(* network loses or delays them, the server executes them; the config      *)
(* decides which failures are answered by one more attempt, the keepalive  *)
(* options which losses are noticed.  The engine is gRPC's; the policy and *)
(* the options it obeys are the package's.  ServiceCalls says where the    *)
(* channel and its config come from.                                       *)
(***************************************************************************)
EXTENDS RetryPolicy

MaxAttempts == 5
MaxPings    == 2     \* grpc.http2.max_pings_without_data
RetryableStatusCodes == {"CANCELLED", "UNKNOWN", "DEADLINE_EXCEEDED", "RESOURCE_EXHAUSTED",
                         "ABORTED", "INTERNAL", "UNAVAILABLE"}
Codes == RetryableStatusCodes \cup {"NOT_FOUND", "DATA_LOSS"}

VARIABLES
    config,       \* the service config of the channel
    method,       \* the method called
    phase,        \* "idle", "waiting" for an answer, in "backoff", or "ended"
    attempts,     \* the attempts gRPC counts against MaxAttempts
    resent,       \* whether it has used its transparent retry
    wire,         \* requests the server may still execute
    answering,    \* whether the server has executed the current attempt
    committed,    \* whether a response message has been received
    lost,         \* whether the connection it waits on has gone dead without a word
    pings,        \* the keepalive pings it sent since data was
    executions    \* history: how often the server executed the call

vars == <<config, method, phase, attempts, resent, wire, answering, committed, lost, pings,
          executions>>
link == <<lost, pings>>

\* Nothing is sent, or waited for, on the connection any more.
Hush == lost' = FALSE /\ pings' = 0

Init ==
    /\ method \in Methods
    /\ phase = "idle"
    /\ attempts = 0
    /\ resent = FALSE
    /\ wire = 0
    /\ answering = FALSE
    /\ committed = FALSE
    /\ lost = FALSE
    /\ pings = 0
    /\ executions = 0

-----------------------------------------------------------------------------
\* The stub's method is called, on a channel whose config is `config` from now on.
Start ==
    /\ phase = "idle"
    /\ Accepted(config')
    /\ phase' = "waiting"
    /\ attempts' = 1
    /\ wire' = 1
    /\ UNCHANGED <<method, resent, answering, committed, link, executions>>

\* Every RPC fails, with nothing sent, on a channel whose config is rejected.
Reject ==
    /\ phase = "idle"
    /\ ~Accepted(config')
    /\ phase' = "ended"
    /\ UNCHANGED <<method, attempts, resent, wire, answering, committed, link, executions>>

\* A mutant: one attempt too many.
Fail_OffByOne(code) ==
    /\ phase' = IF /\ method \in Retried(config)
                   /\ code \in RetryableStatusCodes
                   /\ attempts <= MaxAttempts
                   /\ ~committed
                THEN "backoff" ELSE "ended"
    /\ Hush
    /\ UNCHANGED <<config, method, attempts, resent, committed, executions>>

\* The current attempt failed with a code: back off, or hand it to the caller.
Fail(code) ==
    /\ phase' = IF /\ method \in Retried(config)
                   /\ code \in RetryableStatusCodes
                   /\ attempts < MaxAttempts
                   /\ ~committed
                THEN "backoff" ELSE "ended"
    /\ Hush
    /\ UNCHANGED <<config, method, attempts, resent, committed, executions>>

\* The server takes a request off the wire, the current attempt's or, late, an
\* earlier one's: also after the client has given up on it.
Execute ==
    /\ wire > 0
    /\ wire' = wire - 1
    /\ executions' = executions + 1
    /\ answering' \in {answering, phase = "waiting"}
    /\ UNCHANGED <<config, method, phase, attempts, resent, committed, link>>

\* A streaming method receives a response; what the client sends for it (a window
\* update) may let it ping again.
Respond ==
    /\ phase = "waiting" /\ answering /\ ~lost
    /\ committed' = TRUE
    /\ pings' \in {0, pings}
    /\ UNCHANGED <<config, method, phase, attempts, resent, wire, answering, lost, executions>>

Succeed ==
    /\ phase = "waiting" /\ answering /\ ~lost
    /\ phase' = "ended"
    /\ Hush
    /\ UNCHANGED <<config, method, attempts, resent, wire, answering, committed, executions>>

\* The server answers with an error, or the connection breaks visibly while the
\* request is somewhere between the client and the end of its execution.
Error(code) ==
    /\ phase = "waiting"
    /\ (answering /\ ~lost) \/ code = "UNAVAILABLE"
    /\ answering' = FALSE
    /\ Fail(code)
    /\ UNCHANGED wire

\* The connection goes dead, and neither side is told.
GoDead ==
    /\ phase = "waiting" /\ ~lost
    /\ lost' = TRUE
    /\ UNCHANGED <<config, method, phase, attempts, resent, wire, answering, committed, pings,
                   executions>>

\* A keepalive ping of a call that waits, answered by the other end.
Ping ==
    /\ phase = "waiting" /\ ~lost
    /\ pings < MaxPings
    /\ pings' = pings + 1
    /\ UNCHANGED <<config, method, phase, attempts, resent, wire, answering, committed, lost,
                   executions>>

\* A mutant: the last ping is sent, and its answer not waited for.
PingTimeout_ButLast ==
    /\ phase = "waiting" /\ lost
    /\ pings + 1 < MaxPings
    /\ answering' = FALSE
    /\ Fail("UNAVAILABLE")
    /\ UNCHANGED wire

\* A ping that nobody answers; once the pings are used up none is sent.
PingTimeout ==
    /\ phase = "waiting" /\ lost
    /\ pings < MaxPings
    /\ answering' = FALSE
    /\ Fail("UNAVAILABLE")
    /\ UNCHANGED wire

\* The request provably never reached the server application (a refused stream,
\* one above a GOAWAY's last stream id): re-sent once, whatever the policy.
Refused ==
    /\ phase = "waiting" /\ ~answering /\ wire > 0 /\ ~lost
    /\ ~resent
    /\ resent' = TRUE
    /\ UNCHANGED <<config, method, phase, attempts, wire, answering, committed, link, executions>>

\* The next attempt, which reconnects where the connection was found dead.
Retry ==
    /\ phase = "backoff"
    /\ phase' = "waiting"
    /\ attempts' = attempts + 1
    /\ wire' = wire + 1
    /\ answering' = FALSE
    /\ UNCHANGED <<config, method, resent, committed, link, executions>>

\* The deadline of the caller spans every attempt; so does the closing of the channel
\* by a disconnect.
ClientDeadline ==
    /\ phase \in {"waiting", "backoff"}
    /\ phase' = "ended"
    /\ Hush
    /\ UNCHANGED <<config, method, attempts, resent, wire, answering, committed, executions>>

Next ==
    \/ Execute \/ Respond \/ Succeed \/ GoDead \/ Ping \/ PingTimeout
    \/ Refused \/ Retry \/ ClientDeadline
    \/ \E code \in Codes : Error(code)

-----------------------------------------------------------------------------
\* Every variable has its type.
TypeOK ==
    /\ method \in Methods
    /\ phase \in {"idle", "waiting", "backoff", "ended"}
    /\ attempts \in 0..MaxAttempts
    /\ resent \in BOOLEAN /\ answering \in BOOLEAN /\ committed \in BOOLEAN
    /\ lost \in BOOLEAN /\ pings \in 0..MaxPings
    /\ wire \in 0..MaxAttempts
    /\ executions \in 0..MaxAttempts
=============================================================================
