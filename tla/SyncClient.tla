----------------------------- MODULE SyncClient -----------------------------
(***************************************************************************)
(* ondewo.utils.BaseClient: one client object shared by threads.  A thread *)
(* can be preempted between any two reads or writes of `self.services`,    *)
(* and Ctrl-C raises KeyboardInterrupt in the main thread wherever CPython *)
(* polls for signals: after a call and at the jump back to a loop's head.  *)
(***************************************************************************)
EXTENDS Integers

CONSTANTS
    Threads,       \* the threads that call the client
    Main,          \* the one signals are delivered to
    NumFields,     \* the fields of the services dataclass, inherited ones included
    Ids,           \* the values id(channel) can take
    NoChannel,     \* a field whose value has no `grpc_channel` attribute
    Layouts,       \* the containers `_initialize_services` may build
    MaxGen,        \* bound: how many containers are ever built
    MaxInterrupts, \* bound: how many times Ctrl-C is pressed
    Races          \* whether callers let connect() overlap other calls

Fields == 1..NumFields
None   == 0
Gens   == 1..MaxGen
Allocs == [Fields -> Ids \cup {NoChannel}]

ASSUME Assumption ==
    /\ Main \in Threads
    /\ NumFields \in Nat
    /\ MaxGen \in Nat
    /\ MaxInterrupts \in Nat
    /\ NoChannel \notin Ids
    /\ Layouts \subseteq Allocs
    /\ Races \in BOOLEAN

VARIABLES
    built,       \* whether `__init__` has returned
    services,    \* self.services: None or the generation of the container
    gen,         \* how many containers have been built
    layout,      \* id of the channel each field of each container carries
    call,        \* the frame of each thread
    interrupts,  \* how many interrupts have been delivered
    attempted,   \* history: the channels close() was called on
    struck,      \* history: containers whose disconnect was struck outside a close()
    outcome      \* history: how the last call that ended did

vars == <<built, services, gen, layout, call, interrupts, attempted, struck, outcome>>

NoError == "no error"
Errors  == {"AttributeError", "CloseError", "KeyboardInterrupt", "TypeError",
            "ConnectionError", "ValueError", "InitError"}
Chans   == Gens \X Ids
ChannelsOf(g) == {<<g, layout[g][f]>> : f \in {k \in Fields : layout[g][k] # NoChannel}}

(***************************************************************************)
(* Where a thread is: idle; "connecting", past the check of connect();     *)
(* "entering", past the check of disconnect() and before it reads the      *)
(* fields; "looping", at the loop's head about to visit field `at` (or to  *)
(* leave, when `at` is past the last); "closing", inside close().  History: *)
(* `start`, the container whose fields it read; `tried`, the channels it   *)
(* called close() on; `hit`, whether its loop caught an interrupt, and     *)
(* whether that was the "first" thing that went wrong in it, or "late".    *)
(***************************************************************************)
Frame(pc) == [pc |-> pc, at |-> 1, closed |-> {}, error |-> NoError,
              channel |-> <<None, NoChannel>>, start |-> None, tried |-> {}, hit |-> "no"]

Idle == Frame("idle")
At(t, pc) == call[t].pc = pc
Disconnecting(t) == call[t].pc \in {"entering", "looping", "closing"}
Held == {call[t].channel[2] : t \in Threads} \ {NoChannel}

Init ==
    /\ built = FALSE
    /\ services = None
    /\ gen = 0
    /\ layout = [g \in Gens |-> [f \in Fields |-> NoChannel]]
    /\ call = [t \in Threads |-> Idle]
    /\ interrupts = 0
    /\ attempted = {}
    /\ struck = {}
    /\ outcome = [of |-> "none", raised |-> NoError]

-----------------------------------------------------------------------------
Go(t, c) == call' = [call EXCEPT ![t] = c]

\* The call m of thread t ends, raising e unless it is NoError.
Return(t, m, e) ==
    /\ Go(t, Idle)
    /\ outcome' = [of |-> m, raised |-> e]

\* `_initialize_services` of the subclass, when it builds a container.  It
\* assigns whatever `self.services` is by then.
Populate(l) ==
    /\ gen < MaxGen
    /\ \A f \in Fields : l[f] \notin Held
    /\ gen' = gen + 1
    /\ layout' = [layout EXCEPT ![gen + 1] = l]
    /\ services' = gen + 1

\* __init__: nobody else has the client yet.
Construct(l) ==
    /\ ~built
    /\ Populate(l)
    /\ built' = TRUE
    /\ Return(Main, "__init__", NoError)
    /\ UNCHANGED <<interrupts, attempted, struck>>

ConstructFails ==
    /\ ~built
    /\ \E e \in {"ValueError", "InitError"} : Return(Main, "__init__", e)
    /\ UNCHANGED <<built, services, gen, layout, interrupts, attempted, struck>>

\* A thread may enter a call: careful callers keep connect() apart from every
\* other call; disconnect() may race with itself.
MayConnect(t) == built /\ At(t, "idle") /\ (Races \/ \A u \in Threads : At(u, "idle"))
MayDisconnect(t) ==
    built /\ At(t, "idle") /\ (Races \/ \A u \in Threads : ~At(u, "connecting"))

\* A mutant: connect() does not refuse while connected.
Connect_Unchecked(t) ==
    /\ MayConnect(t)
    /\ Go(t, Frame("connecting"))
    /\ UNCHANGED <<built, services, gen, layout, interrupts, attempted, struck, outcome>>

\* connect(): the check ...
Connect(t) ==
    /\ MayConnect(t)
    /\ IF services = None THEN Go(t, Frame("connecting")) /\ UNCHANGED outcome
       ELSE Return(t, "connect", "ConnectionError")
    /\ UNCHANGED <<built, services, gen, layout, interrupts, attempted, struck>>

\* ... and the container, which connect() does not look at again.
ConnectPopulates(t, l) ==
    /\ At(t, "connecting")
    /\ Populate(l)
    /\ Return(t, "connect", NoError)
    /\ UNCHANGED <<built, interrupts, attempted, struck>>

ConnectLeavesUnset(t) ==
    /\ At(t, "connecting")
    /\ \E e \in {NoError, "InitError"} : Return(t, "connect", e)
    /\ UNCHANGED <<built, services, gen, layout, interrupts, attempted, struck>>

-----------------------------------------------------------------------------
\* A mutant: the last error is kept.
FirstError_Last(e, new) == new

FirstError(e, new) == IF e = NoError THEN new ELSE e
\* A mutant: a value without a `grpc_channel` is closed like any other.
HasChannel_Unchecked(f) == services # None

HasChannel(f) == services # None /\ layout[services][f] # NoChannel

\* disconnect(): the check.
Disconnect(t) ==
    /\ MayDisconnect(t)
    /\ IF services = None THEN Return(t, "disconnect", "AttributeError")
       ELSE Go(t, Frame("entering")) /\ UNCHANGED outcome
    /\ UNCHANGED <<built, services, gen, layout, interrupts, attempted, struck>>

\* A mutant: no `finally`; the container is cleared on success only.
Finish_OnSuccess(t, e) ==
    /\ services' = IF e = NoError THEN None ELSE services
    /\ Return(t, "disconnect", e)
    /\ UNCHANGED <<built, gen, layout, attempted>>

\* The `finally`, with the exception (or none) that leaves disconnect().
Finish(t, e) ==
    /\ services' = None
    /\ Return(t, "disconnect", e)
    /\ UNCHANGED <<built, gen, layout, attempted>>

\* dataclasses.fields(self.services) reads it again, and rejects None: there is
\* no loop then, and a TypeError on its way to the `finally`.
ReadFields(t) ==
    /\ At(t, "entering")
    /\ \/ /\ services # None
          /\ Go(t, [call[t] EXCEPT !.pc = "looping", !.start = services])
       \/ /\ services = None
          /\ Go(t, [call[t] EXCEPT !.pc = "looping", !.at = NumFields + 1,
                                   !.error = "TypeError"])
    /\ UNCHANGED <<built, services, gen, layout, interrupts, attempted, struck, outcome>>

\* Visit field `at`: read self.services anew; the lookup raises, or the channel
\* is one already closed, or close() is called on it.
Visit(t) ==
    LET c == call[t]
        channel == <<services, layout[services][c.at]>>
    IN /\ At(t, "looping")
       /\ c.at \in Fields
       /\ \/ /\ ~HasChannel(c.at)
             /\ Go(t, [c EXCEPT !.error = FirstError(@, "AttributeError"), !.at = @ + 1])
             /\ UNCHANGED attempted
          \/ /\ HasChannel(c.at)
             /\ channel[2] \in c.closed
             /\ Go(t, [c EXCEPT !.channel = channel, !.at = @ + 1])
             /\ UNCHANGED attempted
          \/ /\ HasChannel(c.at)
             /\ channel[2] \notin c.closed
             /\ Go(t, [c EXCEPT !.pc = "closing", !.channel = channel,
                                !.closed = @ \cup {channel[2]},
                                !.tried = @ \cup {channel}])
             /\ attempted' = attempted \cup {channel}
       /\ UNCHANGED <<built, services, gen, layout, interrupts, struck, outcome>>

\* A mutant: `closed` is made anew for every field.
Resume_Forgets(c) == [c EXCEPT !.pc = "looping", !.at = @ + 1, !.closed = {}]

\* close() returns or raises; either way the loop goes on.
Resume(c) == [c EXCEPT !.pc = "looping", !.at = @ + 1]
\* A mutant: an error of close() leaves the loop.
CloseEnds_ErrorEscapes(t) ==
    /\ At(t, "closing")
    /\ \/ Go(t, Resume(call[t])) /\ UNCHANGED <<built, services, gen, layout, attempted, outcome>>
       \/ Finish(t, FirstError(call[t].error, "CloseError"))
    /\ UNCHANGED <<interrupts, struck>>

\* A mutant: an error starts the sweep over.
CloseEnds_StartsOver(t) ==
    /\ At(t, "closing")
    /\ \/ Go(t, Resume(call[t]))
       \/ Go(t, [Frame("looping") EXCEPT !.start = call[t].start])
    /\ UNCHANGED <<built, services, gen, layout, interrupts, attempted, struck, outcome>>

CloseEnds(t) ==
    /\ At(t, "closing")
    /\ \/ Go(t, Resume(call[t]))
       \/ Go(t, Resume([call[t] EXCEPT !.error = FirstError(@, "CloseError")]))
    /\ UNCHANGED <<built, services, gen, layout, interrupts, attempted, struck, outcome>>

Leave(t) ==
    /\ At(t, "looping")
    /\ call[t].at > NumFields
    /\ Finish(t, call[t].error)
    /\ UNCHANGED <<interrupts, struck>>

-----------------------------------------------------------------------------
\* KeyboardInterrupt reaches the main thread.
Interrupt == interrupts < MaxInterrupts /\ interrupts' = interrupts + 1

\* The loop catches it, like any other error.
Strike(c) == [c EXCEPT !.error = FirstError(@, "KeyboardInterrupt"),
                       !.hit = IF @ # "no" THEN @
                               ELSE IF c.error = NoError THEN "first" ELSE "late"]

\* Inside close().
InterruptClose ==
    /\ Interrupt
    /\ At(Main, "closing")
    /\ Go(Main, Resume(Strike(call[Main])))
    /\ UNCHANGED <<built, services, gen, layout, attempted, struck, outcome>>

\* Inside the inner `try` but before close() is called: the field is passed over;
\* its channel may have been looked up, and its id may be among the closed ones.
InterruptVisit ==
    LET c == call[Main]
        channel == <<services, layout[services][c.at]>>
        passed  == [Strike(c) EXCEPT !.at = @ + 1]
    IN /\ Interrupt
       /\ At(Main, "looping")
       /\ c.at \in Fields
       /\ \/ Go(Main, passed)
          \/ /\ HasChannel(c.at)
             /\ \E new \in {{}, {channel[2]}} :
                  Go(Main, [passed EXCEPT !.channel = channel, !.closed = @ \cup new])
       /\ struck' = struck \cup {c.start}
       /\ UNCHANGED <<built, services, gen, layout, attempted, outcome>>

\* Outside the inner `try` but inside the outer: at the jump back to the head
\* of the loop, or where the fields are read.  The `finally` runs, the first error
\* is forgotten.
InterruptLoop ==
    /\ Interrupt
    /\ At(Main, "looping")
    /\ struck' = struck \cup ({call[Main].start} \ {None})
    /\ Finish(Main, "KeyboardInterrupt")

\* Before the `try`: disconnect() has done nothing.
InterruptEntry ==
    /\ Interrupt
    /\ At(Main, "entering")
    /\ Return(Main, "disconnect", "KeyboardInterrupt")
    /\ UNCHANGED <<built, services, gen, layout, attempted, struck>>

Interrupted == InterruptClose \/ InterruptVisit \/ InterruptLoop \/ InterruptEntry

Next ==
    \/ (\E l \in Layouts : Construct(l)) \/ ConstructFails
    \/ \E t \in Threads :
        \/ Connect(t) \/ ConnectLeavesUnset(t)
        \/ \E l \in Layouts : ConnectPopulates(t, l)
        \/ Disconnect(t) \/ ReadFields(t) \/ Visit(t) \/ CloseEnds(t) \/ Leave(t)
    \/ Interrupted

\* The operating system schedules every thread, and every close() ends.
Fairness ==
    \A t \in Threads : WF_vars(ReadFields(t) \/ Visit(t) \/ CloseEnds(t) \/ Leave(t))

Spec     == Init /\ [][Next]_vars
FairSpec == Spec /\ Fairness
-----------------------------------------------------------------------------
\* Every variable has its type.
TypeOK ==
    /\ built \in BOOLEAN
    /\ services \in {None} \cup Gens
    /\ gen \in 0..MaxGen
    /\ layout \in [Gens -> Allocs]
    /\ call \in [Threads -> [pc : {"idle", "connecting", "entering", "looping", "closing"},
                             at : 1..(NumFields + 1), closed : SUBSET Ids,
                             error : Errors \cup {NoError},
                             channel : Chans \cup {<<None, NoChannel>>},
                             start : {None} \cup Gens, tried : SUBSET Chans,
                             hit : {"no", "first", "late"}]]
    /\ interrupts \in 0..MaxInterrupts
    /\ attempted \subseteq Chans
    /\ struck \subseteq Gens
    /\ outcome \in [of : {"none", "__init__", "connect", "disconnect"},
                    raised : Errors \cup {NoError}]

\* A disconnect past its reading of the fields ends in this step.
Finishes(t) == call[t].start # None /\ At(t, "idle")'

\* disconnect(): "every channel is attempted".  A thread that clears the
\* container it started on has called close() on every channel of it, whatever
\* the other threads and the close() calls did, unless an interrupt struck a
\* disconnect of that container outside a close().
OwnDisconnectReleasesAll ==
    [][\A t \in Threads : Finishes(t) /\ services = call[t].start
            => ChannelsOf(services) \subseteq attempted' \/ services \in struck']_vars

\* disconnect(): a shared channel "is closed exactly once": never twice by one
\* disconnect, even if the container is replaced under it.
SharedClosedOnce ==
    [][\A t \in Threads : At(t, "looping") /\ At(t, "closing")'
                             => call'[t].channel \notin call[t].tried]_vars

\* disconnect(): "the first error is re-raised", an interrupt as much as an error.
\* An interrupt that the loop caught before anything else went wrong comes out of
\* disconnect(), whatever later close() calls and interrupts raise; a later one
\* never lets the call return as if nothing had happened.
FirstInterruptReRaised ==
    [][\A t \in Threads : Disconnecting(t) /\ At(t, "idle")'
         => /\ call[t].hit = "first" => outcome'.raised = "KeyboardInterrupt"
            /\ call[t].hit = "late"  => outcome'.raised # NoError]_vars

\* disconnect(): "`services` is cleared regardless".  Once some disconnect has read
\* the fields of a container the client lets go of it, whatever the close() calls
\* and interrupts do, and whichever thread finishes or reconnects in between.
BegunIsLetGo == \A g \in Gens : (\E t \in Threads : call[t].start = g) ~> services # g

\* No channel is lost when connect() is kept apart from other calls, except to
\* an interrupt that strikes outside a close(): disconnects that race each other
\* leave no channel of a container the client has let go of unattempted.
LostOnlyByInterrupt ==
    \A g \in 1..gen : g # services => ChannelsOf(g) \subseteq attempted \/ g \in struck

\* The comment in disconnect(): a KeyboardInterrupt that the loop catches "is
\* re-raised after the loop".  (It fails for one that follows another error.)
InterruptReRaised ==
    [][\A t \in Threads : Disconnecting(t) /\ At(t, "idle")' /\ call[t].hit # "no"
                             => outcome'.raised = "KeyboardInterrupt"]_vars

\* A disconnect ends, whatever its close() calls and other threads do.
DisconnectEnds == \A t \in Threads : Disconnecting(t) ~> At(t, "idle")

-----------------------------------------------------------------------------
\* With connect() kept apart, the client implements a connection: what is open are
\* the unattempted channels of the container, unless it has been struck.
Conn == INSTANCE Connection WITH
            Channels  <- Chans,
            connected <- services # None,
            open      <- IF services = None \/ services \in struck THEN {}
                         ELSE ChannelsOf(services) \ attempted

ConnSpec == Conn!Spec
=============================================================================
