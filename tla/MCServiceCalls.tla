--------------------------- MODULE MCServiceCalls ---------------------------
(***************************************************************************)
(* Methods of each kind the policy tells apart, in two services, the one   *)
(* of a class and the one of its base.                                     *)
(***************************************************************************)
EXTENDS ServiceCalls

M(service, verb, level, listed, acts) ==
    [service |-> service, verb |-> verb, wordEnds |-> TRUE, level |-> level,
     listed |-> listed, acts |-> acts]

U == "IDEMPOTENCY_UNKNOWN"

MCMethods ==
    {M("calls", "List", U, FALSE, FALSE),                 \* ListCallers
     M("calls", "other", U, FALSE, TRUE),                 \* StartCallers
     M("sessions", "Get", U, TRUE, TRUE),                 \* GetSessionReview
     M("sessions", "other", "IDEMPOTENT", FALSE, FALSE)}

\* The Calls class derives from a class of the sessions module.
MCMro == [Calls |-> <<"calls.py", "sessions.py">>]
MCServicesIn == [session_pb2 |-> {"sessions"}, calls_pb2 |-> {"calls"}]
MCStubOf == [Calls |-> "calls"]
MCImports == [m \in {"sessions.py", "calls.py"} |->
                IF m = "calls.py" THEN {"calls_pb2"} ELSE {"session_pb2"}]

\* Callers' own configs: all is retried, and one that grpc-core rejects.
MCConfigs == {[m \in MCMethods |-> n] : n \in {1, 2}}
=============================================================================
