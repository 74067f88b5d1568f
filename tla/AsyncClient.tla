---------------------------- MODULE AsyncClient ----------------------------
(***************************************************************************)
(* ondewo.utils.AsyncBaseClient: one client object shared by the tasks of  *)
(* one event loop.  asyncio runs a task until it suspends, and the only    *)
(* place a method of the client suspends is `await channel.close(...)`     *)
(* inside disconnect().  So one action is everything a task does from one  *)
(* suspension to the next.                                                 *)
(***************************************************************************)
EXTENDS Integers, Sequences

CONSTANTS
    Tasks,       \* the tasks that call the client
    NumFields,   \* the fields of the services dataclass, inherited ones included
    Ids,         \* the values id(channel) can take
    NoChannel,   \* a field whose value has no `grpc_channel` attribute
    Layouts,     \* the containers `_initialize_services` may build
    MaxGen,      \* bound: how many containers are ever built
    Early        \* whether callers connect while a disconnect is in flight

Fields == 1..NumFields
None   == 0                       \* `self.services is None`
Gens   == 1..MaxGen               \* the g-th container ever built
Allocs == [Fields -> Ids \cup {NoChannel}]

ASSUME Assumption ==
    /\ NumFields \in Nat
    /\ MaxGen \in Nat
    /\ NoChannel \notin Ids
    /\ Layouts \subseteq Allocs
    /\ Early \in BOOLEAN

VARIABLES
    built,       \* whether `__init__` has returned
    services,    \* self.services: None or the generation of the container
    gen,         \* how many containers have been built
    layout,      \* id of the channel each field of each container carries
    call,        \* the disconnect() frame of each task
    attempted,   \* history: the channels close() was called on
    outcome      \* history: how the last call that ended did

vars == <<built, services, gen, layout, call, attempted, outcome>>

NoError == "no error"
Errors  == {"AttributeError", "CloseError", "CancelledError", "ConnectionError",
            "ValueError", "InitError"}
Ended(m, e, h) == [of |-> m, raised |-> e, met |-> h]

\* A channel is the container that opened it and its id.  Ids are addresses:
\* a later container may be given the id of a channel that is gone.
Chans       == Gens \X Ids
ChannelsOf(g) == {<<g, layout[g][f]>> : f \in {k \in Fields : layout[g][k] # NoChannel}}

(***************************************************************************)
(* The locals of disconnect(): `at` is the field whose close is awaited (0 *)
(* outside disconnect), `closed` and `error` are the source's, `channel`   *)
(* the channel it holds a reference to.  History: `start`, the container   *)
(* it found; `tried`, the channels it called close() on; `met`, the errors *)
(* it met, in order.                                                       *)
(***************************************************************************)
Frame(g) == [at |-> 0, closed |-> {}, error |-> NoError,
             channel |-> <<None, NoChannel>>, start |-> g, tried |-> {}, met |-> <<>>]
NotRunning == Frame(None)

InFlight == {t \in Tasks : call[t].at # 0}
Held     == {call[t].channel[2] : t \in InFlight}

Init ==
    /\ built = FALSE
    /\ services = None
    /\ gen = 0
    /\ layout = [g \in Gens |-> [f \in Fields |-> NoChannel]]
    /\ call = [t \in Tasks |-> NotRunning]
    /\ attempted = {}
    /\ outcome = Ended("none", NoError, <<>>)

-----------------------------------------------------------------------------
\* `_initialize_services` of the subclass, when it builds a container: its
\* channels have ids that no living channel has.
Populate(l) ==
    /\ gen < MaxGen
    /\ \A f \in Fields : l[f] \notin Held
    /\ gen' = gen + 1
    /\ layout' = [layout EXCEPT ![gen + 1] = l]
    /\ services' = gen + 1

Return(m, e) ==
    /\ outcome' = Ended(m, e, <<>>)
    /\ UNCHANGED <<call, attempted>>

\* __init__: the client exists once the container is populated.
Construct(l) ==
    /\ ~built
    /\ Populate(l)
    /\ built' = TRUE
    /\ Return("__init__", NoError)

\* __init__ raises: the container was not populated, or populating it raised.
ConstructFails ==
    /\ ~built
    /\ \E e \in {"ValueError", "InitError"} : Return("__init__", e)
    /\ UNCHANGED <<built, services, gen, layout>>

\* The caller may connect: the client exists, the task is not inside
\* disconnect(), and a careful caller has awaited every disconnect.
MayConnect(t) == built /\ call[t].at = 0 /\ (Early \/ InFlight = {})

\* A mutant: connect() does not refuse while connected.
Connect_Unchecked(t, l) ==
    /\ MayConnect(t)
    /\ Populate(l)
    /\ Return("connect", NoError)
    /\ UNCHANGED built

Connect(t, l) ==
    /\ MayConnect(t)
    /\ services = None
    /\ Populate(l)
    /\ Return("connect", NoError)
    /\ UNCHANGED built

ConnectRefused(t) ==
    /\ MayConnect(t)
    /\ services # None
    /\ Return("connect", "ConnectionError")
    /\ UNCHANGED <<built, services, gen, layout>>

\* connect() does not look at what `_initialize_services` left behind.
ConnectLeavesUnset(t) ==
    /\ MayConnect(t)
    /\ services = None
    /\ \E e \in {NoError, "InitError"} : Return("connect", e)
    /\ UNCHANGED <<built, services, gen, layout>>

-----------------------------------------------------------------------------
\* A mutant: a value without a `grpc_channel` is closed like any other.
HasChannel_Unchecked(f) == services # None

\* The loop body reads self.services anew for every field.
HasChannel(f) == services # None /\ layout[services][f] # NoChannel
\* A mutant: a shared channel is closed once per field.
Closable_EveryField(f, closed) == HasChannel(f)

Closable(f, closed) == HasChannel(f) /\ layout[services][f] \notin closed
\* A mutant: the last error wins.
FirstError_Last(e, new) == new

FirstError(e, new) == IF e = NoError THEN new ELSE e

\* Call close() on the channel of field f and suspend.
BeginClose(t, c, f) ==
    LET channel == <<services, layout[services][f]>>
    IN /\ call' = [call EXCEPT ![t] =
                     [at |-> f, closed |-> c.closed \cup {layout[services][f]},
                      error |-> c.error, channel |-> channel, start |-> c.start,
                      tried |-> c.tried \cup {channel}, met |-> c.met]]
       /\ attempted' = attempted \cup {channel}
       /\ UNCHANGED <<services, outcome>>

\* The `finally` and the re-raise.
Finish(t, c) ==
    /\ services' = None
    /\ call' = [call EXCEPT ![t] = NotRunning]
    /\ outcome' = Ended("disconnect", c.error, c.met)
    /\ UNCHANGED attempted

\* `except BaseException`: keep the first error and go on.
Catch(c, e) == [at |-> c.at, closed |-> c.closed, error |-> FirstError(c.error, e),
                channel |-> c.channel, start |-> c.start, tried |-> c.tried,
                met |-> Append(c.met, e)]

\* Run the loop on from field f, in frame c: the fields before j are skipped
\* (already closed) or raise AttributeError (no channel; one entry in `met`
\* stands for a row of them).
RunOn(t, c, f) ==
    \E j \in f..(NumFields + 1) :
        LET missing == \E k \in f..(j - 1) : ~HasChannel(k)
            c2 == IF missing THEN Catch(c, "AttributeError") ELSE c
        IN /\ \A k \in f..(j - 1) : ~Closable(k, c.closed)
           /\ \/ j \in Fields /\ Closable(j, c.closed) /\ BeginClose(t, c2, j)
              \/ j = NumFields + 1 /\ Finish(t, c2)

DisconnectRefused(t) ==
    /\ built
    /\ call[t].at = 0
    /\ services = None
    /\ outcome' = Ended("disconnect", "AttributeError", <<"AttributeError">>)
    /\ UNCHANGED <<built, services, gen, layout, call, attempted>>

\* A mutant: the first, inherited, field is not among those visited.
Disconnect_OwnFieldsOnly(t) ==
    /\ built
    /\ call[t].at = 0
    /\ services # None
    /\ RunOn(t, Frame(services), 2)
    /\ UNCHANGED <<built, gen, layout>>

Disconnect(t) ==
    /\ built
    /\ call[t].at = 0
    /\ services # None
    /\ RunOn(t, Frame(services), 1)
    /\ UNCHANGED <<built, gen, layout>>

\* The awaited close() returns.
CloseReturns(t) ==
    /\ call[t].at # 0
    /\ RunOn(t, call[t], call[t].at + 1)
    /\ UNCHANGED <<built, gen, layout>>

\* A mutant: `except Exception`, which a cancellation escapes.
CloseRaises_CancelEscapes(t, e) ==
    /\ call[t].at # 0
    /\ IF e = "CancelledError" THEN Finish(t, Catch(call[t], e))
       ELSE RunOn(t, Catch(call[t], e), call[t].at + 1)
    /\ UNCHANGED <<built, gen, layout>>

\* A mutant: an error starts the sweep over.
CloseRaises_StartsOver(t, e) ==
    /\ call[t].at # 0
    /\ RunOn(t, Frame(call[t].start), 1)
    /\ UNCHANGED <<built, gen, layout>>

\* It raises, or the task is cancelled while it waits.
CloseRaises(t, e) ==
    /\ call[t].at # 0
    /\ RunOn(t, Catch(call[t], e), call[t].at + 1)
    /\ UNCHANGED <<built, gen, layout>>

CloseEnds(t) == CloseReturns(t) \/ \E e \in {"CloseError", "CancelledError"} : CloseRaises(t, e)

Next ==
    \/ (\E l \in Layouts : Construct(l)) \/ ConstructFails
    \/ \E t \in Tasks :
        \/ \E l \in Layouts : Connect(t, l)
        \/ ConnectRefused(t) \/ ConnectLeavesUnset(t)
        \/ DisconnectRefused(t) \/ Disconnect(t) \/ CloseEnds(t)

\* Every close() ends, with a result, an error or a cancellation, and the event
\* loop then resumes the task that awaits it.
Fairness == \A t \in Tasks : WF_vars(CloseEnds(t))

Spec     == Init /\ [][Next]_vars
FairSpec == Spec /\ Fairness
-----------------------------------------------------------------------------
Frames == [at : Fields, closed : SUBSET Ids, error : Errors \cup {NoError},
           channel : Chans, start : Gens, tried : SUBSET Chans,
           met : Seq(Errors)]

\* Every variable has its type: the frame of a running disconnect holds a real
\* channel of a real container.
TypeOK ==
    /\ built \in BOOLEAN
    /\ services \in {None} \cup Gens
    /\ gen \in 0..MaxGen
    /\ layout \in [Gens -> Allocs]
    /\ call \in [Tasks -> Frames \cup {NotRunning}]
    /\ attempted \subseteq Chans
    /\ outcome \in [of : {"none", "__init__", "connect", "disconnect"},
                    raised : Errors \cup {NoError}, met : Seq(Errors)]

\* disconnect() runs its `finally` in this step.
Finishes(t) == call[t].at # 0 /\ call'[t].at = 0

\* disconnect(): "every channel is attempted".  Whatever other tasks do, and
\* whatever its close() calls raise, a disconnect that clears the container it
\* started on has called close() on every channel of it, shared channels and
\* the channels after a field without one included.
OwnDisconnectReleasesAll ==
    [][\A t \in Tasks : Finishes(t) /\ services = call[t].start
                           => ChannelsOf(services) \subseteq attempted']_vars

\* disconnect(): "a channel shared by several services is closed exactly once".
\* No disconnect calls close() twice on one channel, even when the container is
\* replaced under it or a new channel is given the id of an old one.
SharedClosedOnce ==
    [][\A t \in Tasks : call'[t].at # 0 /\ call'[t] # call[t]
                           => call'[t].channel \notin call[t].tried]_vars

\* disconnect(): "the first error is re-raised".  A disconnect that met errors
\* (its own lookups, close() calls, a cancellation) ends by raising the first of
\* them, and one that returns met none: a cancelled disconnect never returns.
FirstErrorReRaised ==
    outcome.of = "disconnect"
        => outcome.raised = IF outcome.met = <<>> THEN NoError ELSE Head(outcome.met)

\* disconnect(): "does not leave the remaining channels open".  `services` is
\* cleared only when every channel of that container has been attempted.  (It
\* fails when callers reconnect under a second disconnect: see the README.)
ClearsOnlyReleased ==
    [][services # None /\ services' = None => ChannelsOf(services) \subseteq attempted']_vars

\* At every suspension of a disconnect whose container is still in place, all
\* fields up to the one it waits for have no channel or an attempted one, and so
\* has every id it will skip; its container is the last one built.
SweptSoFar ==
    \A t \in InFlight :
        LET c == call[t]
        IN /\ c.start \in 1..gen
           /\ services = c.start =>
                /\ \A f \in 1..c.at : layout[services][f] # NoChannel
                                       => <<services, layout[services][f]>> \in attempted
                /\ \A i \in c.closed : <<services, i>> \in attempted

\* No channel is lost: the channels of every container the client has let go of
\* were attempted.
NoOrphan == \A g \in 1..gen : g # services => ChannelsOf(g) \subseteq attempted

\* A disconnect ends, whatever its close() calls do.
DisconnectEnds == \A t \in Tasks : call[t].at # 0 ~> call[t].at = 0

\* A disconnect that has begun on a container ends up releasing all of it, also
\* when another task finishes first or its own task is cancelled.
BegunIsReleased ==
    \A t \in Tasks, g \in Gens :
        call[t].at # 0 /\ call[t].start = g ~> ChannelsOf(g) \subseteq attempted

-----------------------------------------------------------------------------
\* The client implements a connection: what is open are the channels of the
\* current container that have not been attempted.
OpenChannels == IF services = None THEN {} ELSE ChannelsOf(services) \ attempted

Conn == INSTANCE Connection WITH
            Channels <- Chans, connected <- services # None, open <- OpenChannels,
            interrupts <- 0

ConnSpec == Conn!Spec
=============================================================================
