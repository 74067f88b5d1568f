------------------------ MODULE MCServiceConfigCache ------------------------
(***************************************************************************)
(* Two services: a reads-and-writes one, and one whose proto declares its  *)
(* levels.  Two classes with a module each, one class derived from the     *)
(* other.                                                                  *)
(***************************************************************************)
EXTENDS ServiceConfigCache, TLC

M(service, verb, wordEnds, level, listed, acts) ==
    [service |-> service, verb |-> verb, wordEnds |-> wordEnds, level |-> level,
     listed |-> listed, acts |-> acts]

U == "IDEMPOTENCY_UNKNOWN"

MCMethods ==
    {M("sessions", "Get", TRUE, U, FALSE, FALSE),              \* GetSession
     M("sessions", "Get", TRUE, U, TRUE, TRUE),                \* GetSessionReview
     M("sessions", "Get", FALSE, U, FALSE, TRUE),              \* Getaway
     M("sessions", "other", TRUE, U, FALSE, TRUE),             \* DetectIntent
     M("calls", "List", TRUE, U, FALSE, FALSE),                \* ListCallers
     M("calls", "other", TRUE, U, FALSE, TRUE),                \* StartCallers
     M("calls", "other", TRUE, "NO_SIDE_EFFECTS", FALSE, FALSE)}

\* The Calls class derives from the Sessions class.
MCMro == [Sessions |-> <<"sessions.py">>, Calls |-> <<"calls.py", "sessions.py">>]
MCServicesIn == [session_pb2 |-> {"sessions"}, calls_pb2 |-> {"calls"}]
MCStubOf == [Sessions |-> "sessions", Calls |-> "calls"]
MCTuples == {<<"Sessions", "Calls">>}
MCLists == {<<"calls", "calls">>}

\* A caller's own config names every path twice, those of actions too.
MCConfigs == {[m \in MCMethods |-> 2]}

MCImports == [m \in {"sessions.py", "calls.py"} |->
                IF m = "calls.py" THEN {"calls_pb2"} ELSE {"session_pb2"}]

\* sessions.py gets its stub from a module that is no *_pb2 and no *_pb2_grpc;
\* calls.py uses the messages of both.
MCIndirect == [m \in {"sessions.py", "calls.py"} |->
                IF m = "calls.py" THEN {"calls_pb2", "session_pb2"} ELSE {}]

Symmetry == Permutations(Threads)
=============================================================================
