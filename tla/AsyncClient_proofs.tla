------------------------- MODULE AsyncClient_proofs -------------------------
(***************************************************************************)
(* Proofs about AsyncClient, for any tasks, fields, ids, containers and    *)
(* any number of generations.                                              *)
(***************************************************************************)
EXTENDS AsyncClient, TLAPS

USE Assumption DEF None

\* The frame a task runs the loop in: just entered, or resumed.
RawFrames == [at : 0..NumFields, closed : SUBSET Ids, error : Errors \cup {NoError},
              channel : Chans \cup {<<None, NoChannel>>}, start : Gens,
              tried : SUBSET Chans, met : Seq(Errors)]

Outcomes == [of : {"none", "__init__", "connect", "disconnect"},
             raised : Errors \cup {NoError}, met : Seq(Errors)]

\* Catching an error keeps the frame's type and everything but its errors.
LEMMA CatchFrame ==
    ASSUME NEW c \in RawFrames, NEW e \in Errors
    PROVE  /\ Catch(c, e) \in RawFrames
           /\ Catch(c, e).closed = c.closed
           /\ Catch(c, e).start = c.start
<1>1. FirstError(c.error, e) \in Errors \cup {NoError}
  BY DEF FirstError, RawFrames
<1>2. Append(c.met, e) \in Seq(Errors)
  BY DEF RawFrames
<1>3. QED
  BY <1>1, <1>2 DEF Catch, RawFrames

\* What running the loop on from field f does, whatever it skips: it suspends
\* in the close of the next closable field, or it finds none and finishes.
Suspends(t, c, f, j, d) ==
    /\ j >= f
    /\ Closable(j, c.closed)
    /\ \A k \in f..(j - 1) : ~Closable(k, c.closed)
    /\ d.at = j /\ d.start = c.start
    /\ d.closed = c.closed \cup {layout[services][j]}
    /\ call' = [call EXCEPT ![t] = d]
    /\ attempted' = attempted \cup {<<services, layout[services][j]>>}
    /\ UNCHANGED <<services, outcome>>

Completes(t, c, f) ==
    /\ \A k \in f..NumFields : ~Closable(k, c.closed)
    /\ services' = None
    /\ call' = [call EXCEPT ![t] = NotRunning]
    /\ outcome' \in Outcomes
    /\ UNCHANGED attempted

LEMMA RunOnCases ==
    ASSUME TypeOK, NEW t \in Tasks, NEW c \in RawFrames,
           NEW f \in 1..(NumFields + 1), RunOn(t, c, f)
    PROVE  \/ \E j \in Fields, d \in Frames : Suspends(t, c, f, j, d)
           \/ Completes(t, c, f)
<1> DEFINE missing(j) == \E k \in f..(j - 1) : ~HasChannel(k)
           c2(j) == IF missing(j) THEN Catch(c, "AttributeError") ELSE c
<1>1. PICK j \in f..(NumFields + 1) :
        /\ \A k \in f..(j - 1) : ~Closable(k, c.closed)
        /\ \/ j \in Fields /\ Closable(j, c.closed) /\ BeginClose(t, c2(j), j)
           \/ j = NumFields + 1 /\ Finish(t, c2(j))
  BY DEF RunOn
<1>2. /\ c2(j) \in RawFrames
      /\ c2(j).closed = c.closed
      /\ c2(j).start = c.start
  BY CatchFrame DEF Errors
<1>3. CASE j \in Fields /\ Closable(j, c.closed) /\ BeginClose(t, c2(j), j)
  <2> DEFINE id == layout[services][j]
             channel == <<services, id>>
             d == [at |-> j, closed |-> c2(j).closed \cup {id}, error |-> c2(j).error,
                   channel |-> channel, start |-> c2(j).start,
                   tried |-> c2(j).tried \cup {channel}, met |-> c2(j).met]
  <2>1. services \in Gens /\ id \in Ids
    BY <1>3 DEF TypeOK, Closable, HasChannel, Allocs, Fields
  <2>2. channel \in Chans
    BY <2>1 DEF Chans
  <2>3. d \in Frames
    <3> HIDE DEF c2, channel, id
    <3>1. QED
      BY <1>2, <1>3, <2>1, <2>2 DEF RawFrames, Frames
  <2>4. Suspends(t, c, f, j, d)
    <3>1. /\ call' = [call EXCEPT ![t] = d]
          /\ attempted' = attempted \cup {channel}
          /\ UNCHANGED <<services, outcome>>
      BY <1>3 DEF BeginClose
    <3> HIDE DEF c2
    <3>2. QED
      BY <1>1, <1>2, <1>3, <3>1 DEF Suspends
  <2>5. QED
    BY <1>3, <2>3, <2>4
<1>4. CASE j = NumFields + 1 /\ Finish(t, c2(j))
  <2> HIDE DEF c2
  <2>1. outcome' \in Outcomes
    BY <1>2, <1>4 DEF Finish, Ended, Outcomes, RawFrames
  <2>2. QED
    BY <1>1, <1>4, <2>1 DEF Finish, Completes
<1>5. QED
  BY <1>1, <1>3, <1>4

-----------------------------------------------------------------------------
\* The two ways a task runs the loop: it has just entered, or it resumes.
Enters(t, c, f) ==
    call[t].at = 0 /\ services # None /\ f = 1 /\ c.closed = {} /\ c.start = services

Resumes(t, c, f) ==
    /\ t \in InFlight
    /\ f = call[t].at + 1
    /\ c.closed = call[t].closed
    /\ c.start = call[t].start

\* Every step inside disconnect() runs the loop on in a frame of one of the two.
LEMMA LoopSteps ==
    ASSUME TypeOK, NEW t \in Tasks, Disconnect(t) \/ CloseEnds(t)
    PROVE  /\ UNCHANGED <<built, gen, layout>>
           /\ \E c \in RawFrames, f \in 1..(NumFields + 1) :
                /\ RunOn(t, c, f)
                /\ Enters(t, c, f) \/ Resumes(t, c, f)
<1>1. CASE Disconnect(t)
  <2> DEFINE c == Frame(services)
  <2>1. services \in Gens
    BY <1>1 DEF Disconnect, TypeOK
  <2>2. c \in RawFrames
    BY <2>1 DEF RawFrames, Frame
  <2>3. Enters(t, c, 1)
    BY <1>1 DEF Disconnect, Enters, Frame
  <2>4. RunOn(t, c, 1) /\ UNCHANGED <<built, gen, layout>>
    BY <1>1 DEF Disconnect
  <2> HIDE DEF c
  <2>5. QED
    BY <2>2, <2>3, <2>4
<1>2. ASSUME call[t].at # 0
      PROVE  /\ call[t] \in RawFrames
             /\ call[t].at + 1 \in 1..(NumFields + 1)
             /\ t \in InFlight
  BY <1>2 DEF TypeOK, Frames, RawFrames, NotRunning, Frame, Fields, InFlight
<1>3. CASE CloseReturns(t)
  BY <1>2, <1>3 DEF CloseReturns, Resumes
<1>4. ASSUME NEW e \in {"CloseError", "CancelledError"}, CloseRaises(t, e)
      PROVE  /\ UNCHANGED <<built, gen, layout>>
             /\ \E c \in RawFrames, f \in 1..(NumFields + 1) :
                  RunOn(t, c, f) /\ (Enters(t, c, f) \/ Resumes(t, c, f))
  <2> DEFINE c == Catch(call[t], e)
  <2>1. e \in Errors
    BY DEF Errors
  <2>2. call[t].at # 0
    BY <1>4 DEF CloseRaises
  <2>3. c \in RawFrames /\ c.closed = call[t].closed /\ c.start = call[t].start
    BY <1>2, <2>1, <2>2, CatchFrame
  <2>4. /\ RunOn(t, c, call[t].at + 1)
        /\ UNCHANGED <<built, gen, layout>>
    BY <1>4 DEF CloseRaises
  <2> HIDE DEF c
  <2>5. Resumes(t, c, call[t].at + 1)
    BY <1>2, <2>2, <2>3 DEF Resumes
  <2>6. QED
    BY <1>2, <2>2, <2>3, <2>4, <2>5
<1>5. QED
  BY <1>1, <1>3, <1>4 DEF CloseEnds

\* What the loop closes is a channel of the current container.
LEMMA ClosableId ==
    ASSUME TypeOK, NEW f \in Fields, NEW cl, Closable(f, cl)
    PROVE  services \in Gens /\ layout[services][f] \in Ids /\ layout[services][f] \notin cl
BY DEF TypeOK, Closable, HasChannel, Allocs

LEMMA TypeInductive == TypeOK /\ [Next]_vars => TypeOK'
<1> SUFFICES ASSUME TypeOK, [Next]_vars
             PROVE  TypeOK'
  OBVIOUS
<1> USE DEF TypeOK
<1>1. ASSUME NEW l \in Layouts, Populate(l)
      PROVE  /\ services' \in {None} \cup Gens
             /\ gen' \in 0..MaxGen
             /\ layout' \in [Gens -> Allocs]
  <2>1. gen + 1 \in Gens /\ l \in Allocs
    BY <1>1 DEF Populate, Gens
  <2>2. QED
    BY <1>1, <2>1 DEF Populate
<1>2. ASSUME NEW m \in {"__init__", "connect"},
             NEW e \in {NoError, "ValueError", "InitError", "ConnectionError"}, Return(m, e)
      PROVE  /\ outcome' \in Outcomes
             /\ UNCHANGED <<call, attempted>>
  BY <1>2 DEF Return, Ended, Outcomes, Errors
<1>3. ASSUME NEW l \in Layouts, Construct(l)
      PROVE  TypeOK'
  BY <1>1, <1>2, <1>3 DEF Construct, Outcomes
<1>4. CASE ConstructFails
  BY <1>2, <1>4 DEF ConstructFails, Outcomes
<1>5. ASSUME NEW t \in Tasks, NEW l \in Layouts, Connect(t, l)
      PROVE  TypeOK'
  BY <1>1, <1>2, <1>5 DEF Connect, Outcomes
<1>6. ASSUME NEW t \in Tasks, ConnectRefused(t)
      PROVE  TypeOK'
  BY <1>2, <1>6 DEF ConnectRefused, Outcomes
<1>7. ASSUME NEW t \in Tasks, ConnectLeavesUnset(t)
      PROVE  TypeOK'
  BY <1>2, <1>7 DEF ConnectLeavesUnset, Outcomes
<1>8. ASSUME NEW t \in Tasks, DisconnectRefused(t)
      PROVE  TypeOK'
  <2>1. <<"AttributeError">> \in Seq(Errors)
    BY DEF Errors
  <2>2. outcome' \in Outcomes
    BY <1>8, <2>1 DEF DisconnectRefused, Ended, Outcomes, Errors
  <2>3. QED
    BY <1>8, <2>2 DEF DisconnectRefused, Outcomes
<1>9. ASSUME NEW t \in Tasks, Disconnect(t) \/ CloseEnds(t)
      PROVE  TypeOK'
  <2>1. PICK c \in RawFrames, f \in 1..(NumFields + 1) : RunOn(t, c, f)
    BY <1>9, LoopSteps
  <2>2. UNCHANGED <<built, gen, layout>>
    BY <1>9, LoopSteps
  <2>3. CASE \E j \in Fields, d \in Frames : Suspends(t, c, f, j, d)
    <3>1. PICK j \in Fields, d \in Frames : Suspends(t, c, f, j, d)
      BY <2>3
    <3>2. <<services, layout[services][j]>> \in Chans
      BY <3>1, ClosableId DEF Suspends, Chans
    <3>3. call' \in [Tasks -> Frames \cup {NotRunning}]
      BY <3>1 DEF Suspends
    <3>4. QED
      BY <2>2, <3>1, <3>2, <3>3 DEF Suspends
  <2>4. CASE Completes(t, c, f)
    <3>1. call' \in [Tasks -> Frames \cup {NotRunning}]
      BY <2>4 DEF Completes
    <3>2. QED
      BY <2>2, <2>4, <3>1 DEF Completes, Outcomes
  <2>5. QED
    BY <2>1, <2>3, <2>4, RunOnCases
<1>10. CASE UNCHANGED vars
  BY <1>10 DEF vars
<1>11. QED
  BY <1>3, <1>4, <1>5, <1>6, <1>7, <1>8, <1>9, <1>10 DEF Next

LEMMA TypeInit == Init => TypeOK
<1>1. <<>> \in Seq(Errors)
  OBVIOUS
<1>2. [f \in Fields |-> NoChannel] \in Allocs
  BY DEF Allocs
<1>3. 0 \in 0..MaxGen
  OBVIOUS
<1>4. Init => outcome \in Outcomes
  BY <1>1 DEF Init, Outcomes, Ended
<1>5. QED
  BY <1>2, <1>3, <1>4 DEF Init, TypeOK, Outcomes

\* TypeOK is an invariant: every variable keeps its type.
THEOREM TypeCorrect == Spec => []TypeOK
BY TypeInit, TypeInductive, PTL DEF Spec

-----------------------------------------------------------------------------
\* The inductive invariant: types, the sweep of every running disconnect, and
\* the current container is the last one built.
IInv ==
    /\ TypeOK
    /\ SweptSoFar
    /\ services \in {None, gen}
    /\ ~built => gen = 0

\* Building a container disturbs no running disconnect: its number is new.
LEMMA PopulateSwept ==
    ASSUME IInv, NEW l \in Layouts, Populate(l), UNCHANGED <<call, attempted>>
    PROVE  SweptSoFar' /\ services' = gen'
<1>1. /\ gen' = gen + 1 /\ services' = gen + 1 /\ gen \in Nat
      /\ call' = call
  BY DEF Populate, IInv, TypeOK
<1>2. InFlight' = InFlight
  BY <1>1 DEF InFlight
<1>3. \A t \in InFlight : call'[t].start \in 1..gen' /\ call'[t].start # services'
  BY <1>1 DEF IInv, SweptSoFar
<1>4. QED
  BY <1>1, <1>2, <1>3 DEF SweptSoFar

\* The container a loop step of t works through.
Own(t) == IF call[t].at = 0 THEN services ELSE call[t].start

Passed(f) ==
    layout[services][f] # NoChannel => <<services, layout[services][f]>> \in attempted

\* Running the loop on keeps the sweep: while the container is the one the
\* disconnect started on, what it passes over is attempted or has no channel.
LEMMA LoopSwept ==
    ASSUME IInv, NEW t \in Tasks, Disconnect(t) \/ CloseEnds(t)
    PROVE  /\ UNCHANGED <<built, gen, layout>>
           /\ SweptSoFar'
           /\ \A u \in Tasks \ {t} : call'[u] = call[u]
           /\ \/ services' = services /\ call'[t].at # 0
              \/ /\ services' = None
                 /\ UNCHANGED attempted
                 /\ services = Own(t) => \A f \in Fields : Passed(f)
<1>1. PICK c \in RawFrames, f \in 1..(NumFields + 1) :
        RunOn(t, c, f) /\ (Enters(t, c, f) \/ Resumes(t, c, f))
  BY LoopSteps DEF IInv
<1>2. UNCHANGED <<built, gen, layout>>
  BY LoopSteps DEF IInv
<1>3. TypeOK
  BY DEF IInv
<1>4. /\ c.start \in 1..gen
      /\ c.start = Own(t)
      /\ services = c.start =>
           /\ \A k \in 1..(f - 1) : Passed(k)
           /\ \A i \in c.closed : <<services, i>> \in attempted
  <2>1. CASE Enters(t, c, f)
    BY <1>3, <2>1 DEF Enters, IInv, Own, TypeOK, Gens
  <2>2. CASE Resumes(t, c, f)
    <3>1. call[t].at \in 1..NumFields
      BY <1>3, <2>2 DEF Resumes, InFlight, TypeOK, Frames, NotRunning, Frame, Fields
    <3>2. QED
      BY <2>2, <3>1 DEF Resumes, IInv, SweptSoFar, Own, Passed, InFlight
  <2>3. QED
    BY <1>1, <2>1, <2>2
<1>5. ASSUME NEW k \in Fields, services = c.start, ~Closable(k, c.closed)
      PROVE  Passed(k)
  BY <1>4, <1>5 DEF Closable, HasChannel, Passed
<1>6. ASSUME NEW u \in InFlight, u # t, call'[u] = call[u], attempted \subseteq attempted',
             services' \in {None, services}
      PROVE  /\ call'[u].start \in 1..gen'
             /\ services' = call'[u].start =>
                  /\ \A k \in 1..call'[u].at : layout'[services'][k] # NoChannel
                       => <<services', layout'[services'][k]>> \in attempted'
                  /\ \A i \in call'[u].closed : <<services', i>> \in attempted'
  <2>1. call[u].start \in 1..gen /\ gen \in Nat
    BY <1>3 DEF IInv, SweptSoFar, TypeOK
  <2>2. call[u].start # None
    BY <2>1
  <2>3. QED
    BY <1>2, <1>6, <2>1, <2>2 DEF IInv, SweptSoFar
<1>7. ASSUME NEW j \in Fields, NEW d \in Frames, Suspends(t, c, f, j, d)
      PROVE  SweptSoFar' /\ services' = services /\ call'[t].at # 0
             /\ \A u \in Tasks \ {t} : call'[u] = call[u]
  <2>1. /\ call'[t] = d
        /\ \A u \in Tasks \ {t} : call'[u] = call[u]
        /\ services' = services
        /\ attempted' = attempted \cup {<<services, layout[services][j]>>}
    BY <1>3, <1>7 DEF Suspends, TypeOK
  <2>2. d.at = j /\ d.start = c.start /\ d.closed = c.closed \cup {layout[services][j]}
    BY <1>7 DEF Suspends
  <2>3. ASSUME services = c.start, NEW k \in 1..j
        PROVE  Passed(k) \/ k = j
    <3>1. CASE k \in 1..(f - 1)
      BY <1>4, <2>3, <3>1
    <3>2. CASE k \in f..(j - 1)
      BY <1>5, <1>7, <2>3, <3>2 DEF Suspends, Fields
    <3>3. QED
      BY <1>7, <3>1, <3>2 DEF Suspends, Fields
  <2>4. /\ call'[t].start \in 1..gen'
        /\ services' = call'[t].start =>
             /\ \A k \in 1..call'[t].at : layout'[services'][k] # NoChannel
                  => <<services', layout'[services'][k]>> \in attempted'
             /\ \A i \in call'[t].closed : <<services', i>> \in attempted'
    BY <1>2, <1>4, <2>1, <2>2, <2>3 DEF Passed
  <2>5. \A u \in InFlight' : u = t \/ (u \in InFlight /\ u # t)
    BY <2>1 DEF InFlight
  <2>6. SweptSoFar'
    BY <1>6, <2>1, <2>4, <2>5 DEF SweptSoFar, InFlight
  <2>7. QED
    BY <2>1, <2>2, <2>6 DEF Fields
<1>8. ASSUME Completes(t, c, f)
      PROVE  /\ SweptSoFar'
             /\ \A u \in Tasks \ {t} : call'[u] = call[u]
             /\ services' = None
             /\ UNCHANGED attempted
             /\ services = Own(t) => \A k \in Fields : Passed(k)
  <2>1. /\ call'[t] = NotRunning
        /\ \A u \in Tasks \ {t} : call'[u] = call[u]
        /\ services' = None
        /\ attempted' = attempted
    BY <1>3, <1>8 DEF Completes, TypeOK
  <2>2. \A u \in InFlight' : u \in InFlight /\ u # t
    BY <2>1 DEF InFlight, NotRunning, Frame
  <2>3. SweptSoFar'
    BY <1>6, <2>1, <2>2 DEF SweptSoFar, InFlight
  <2>4. ASSUME services = Own(t), NEW k \in Fields
        PROVE  Passed(k)
    <3>1. CASE k \in 1..(f - 1)
      BY <1>4, <2>4, <3>1
    <3>2. CASE k \in f..NumFields
      BY <1>4, <1>5, <1>8, <2>4, <3>2 DEF Completes
    <3>3. QED
      BY <3>1, <3>2 DEF Fields
  <2>5. QED
    BY <2>1, <2>3, <2>4
<1>9. QED
  BY <1>1, <1>2, <1>3, <1>7, <1>8, RunOnCases

\* What the loop has passed are all the channels of the container.
LEMMA PassedAll ==
    ASSUME \A f \in Fields : Passed(f)
    PROVE  ChannelsOf(services) \subseteq attempted
BY DEF ChannelsOf, Passed

LEMMA InitIInv == Init => IInv
<1>1. Init => TypeOK
  BY TypeInit
<1>2. QED
  BY <1>1 DEF Init, IInv, SweptSoFar, InFlight, NotRunning, Frame

LEMMA IInvInductive == IInv /\ [Next]_vars => IInv'
<1> SUFFICES ASSUME IInv, [Next]_vars
             PROVE  IInv'
  OBVIOUS
<1>1. TypeOK /\ TypeOK'
  BY TypeInductive DEF IInv
<1>2. ASSUME NEW l \in Layouts, Populate(l), UNCHANGED <<call, attempted>>, built'
      PROVE  IInv'
  BY <1>1, <1>2, PopulateSwept DEF IInv
<1>3. ASSUME UNCHANGED <<built, services, gen, layout, call, attempted>>
      PROVE  IInv'
  BY <1>1, <1>3 DEF IInv, SweptSoFar, InFlight
<1>4. ASSUME NEW l \in Layouts, Construct(l)
      PROVE  IInv'
  BY <1>2, <1>4 DEF Construct, Return
<1>5. CASE ConstructFails
  BY <1>3, <1>5 DEF ConstructFails, Return
<1>6. ASSUME NEW t \in Tasks, NEW l \in Layouts, Connect(t, l)
      PROVE  IInv'
  BY <1>2, <1>6 DEF Connect, MayConnect, Return
<1>7. ASSUME NEW t \in Tasks, ConnectRefused(t)
      PROVE  IInv'
  BY <1>3, <1>7 DEF ConnectRefused, Return
<1>8. ASSUME NEW t \in Tasks, ConnectLeavesUnset(t)
      PROVE  IInv'
  BY <1>3, <1>8 DEF ConnectLeavesUnset, Return
<1>9. ASSUME NEW t \in Tasks, DisconnectRefused(t)
      PROVE  IInv'
  BY <1>3, <1>9 DEF DisconnectRefused
<1>10. ASSUME NEW t \in Tasks, Disconnect(t) \/ CloseEnds(t)
       PROVE  IInv'
  BY <1>1, <1>10, LoopSwept DEF IInv
<1>11. CASE UNCHANGED vars
  BY <1>3, <1>11 DEF vars
<1>12. QED
  BY <1>4, <1>5, <1>6, <1>7, <1>8, <1>9, <1>10, <1>11 DEF Next

\* SweptSoFar is an invariant: at every suspension of a disconnect whose
\* container is in place, all the fields it has passed are released.
THEOREM SweptSoFarHolds == Spec => []SweptSoFar
<1>1. IInv => SweptSoFar
  BY DEF IInv
<1>2. QED
  BY <1>1, InitIInv, IInvInductive, PTL DEF Spec

\* A disconnect that clears the container it started on has called close() on
\* every channel of it: the first half of disconnect()'s promise, whatever the
\* other tasks do and whatever its close() calls raise.
THEOREM OwnDisconnectReleases == Spec => OwnDisconnectReleasesAll
<1>1. IInv /\ [Next]_vars =>
        [\A t \in Tasks : Finishes(t) /\ services = call[t].start
                             => ChannelsOf(services) \subseteq attempted']_vars
  <2> SUFFICES ASSUME IInv, [Next]_vars, NEW t \in Tasks, Finishes(t),
                      services = call[t].start
               PROVE  ChannelsOf(services) \subseteq attempted'
    OBVIOUS
  <2>1. PICK u \in Tasks : Disconnect(u) \/ CloseEnds(u)
    BY DEF Finishes, Next, vars, Construct, ConstructFails, Connect, ConnectRefused,
           ConnectLeavesUnset, DisconnectRefused, Return
  <2>2. u = t
    BY <2>1, LoopSwept DEF Finishes
  <2>3. /\ UNCHANGED attempted
        /\ \A f \in Fields : Passed(f)
    BY <2>1, <2>2, LoopSwept DEF Finishes, Own
  <2>4. QED
    BY <2>3, PassedAll
<1>2. QED
  BY <1>1, InitIInv, IInvInductive, PTL DEF Spec, OwnDisconnectReleasesAll

-----------------------------------------------------------------------------
\* When callers await every disconnect before they connect, a disconnect in
\* flight works on the last container built, and nothing else is unreleased.
AwaitedInv ==
    /\ IInv
    /\ NoOrphan
    /\ \A t \in InFlight : call[t].start = gen

\* A container is built only while no disconnect is in flight.
LEMMA PopulateAwaited ==
    ASSUME AwaitedInv, NEW l \in Layouts, Populate(l), InFlight = {}, services = None,
           UNCHANGED <<call, attempted>>, IInv'
    PROVE  AwaitedInv'
<1>1. /\ gen' = gen + 1 /\ services' = gen + 1 /\ gen \in Nat
      /\ layout' = [layout EXCEPT ![gen + 1] = l]
  BY DEF Populate, AwaitedInv, IInv, TypeOK
<1>2. InFlight' = {}
  BY DEF InFlight
<1>3. NoOrphan'
  <2> SUFFICES ASSUME NEW g \in 1..gen', g # services'
               PROVE  ChannelsOf(g)' \subseteq attempted'
    BY DEF NoOrphan
  <2>1. g \in 1..gen /\ g # services
    BY <1>1
  <2>2. layout'[g] = layout[g]
    BY <1>1, <2>1 DEF AwaitedInv, IInv, TypeOK, Gens
  <2>3. ChannelsOf(g)' = ChannelsOf(g)
    BY <2>2 DEF ChannelsOf
  <2>4. QED
    BY <2>1, <2>3 DEF AwaitedInv, NoOrphan
<1>4. QED
  BY <1>2, <1>3 DEF AwaitedInv

\* A disconnect, from its entry to its end, leaves no channel behind.
LEMMA LoopAwaited ==
    ASSUME AwaitedInv, NEW t \in Tasks, Disconnect(t) \/ CloseEnds(t), IInv'
    PROVE  AwaitedInv'
<1>1. UNCHANGED <<built, gen, layout>>
  BY LoopSwept DEF AwaitedInv
<1>2. \A g \in 1..gen : ChannelsOf(g)' = ChannelsOf(g)
  BY <1>1 DEF ChannelsOf
<1>3. attempted \subseteq attempted'
  <2>1. PICK c \in RawFrames, f \in 1..(NumFields + 1) : RunOn(t, c, f)
    BY LoopSteps DEF AwaitedInv, IInv
  <2>2. QED
    BY <2>1, RunOnCases DEF Suspends, Completes, AwaitedInv, IInv
<1>4. \A u \in InFlight' : call'[u].start = gen'
  <2>1. SUFFICES ASSUME t \in InFlight'
                 PROVE  call'[t].start = gen'
    BY <1>1, LoopSwept DEF AwaitedInv, InFlight
  <2>2. PICK c \in RawFrames, f \in 1..(NumFields + 1) :
          RunOn(t, c, f) /\ (Enters(t, c, f) \/ Resumes(t, c, f))
    BY LoopSteps DEF AwaitedInv, IInv
  <2>3. c.start = gen
    BY <2>2 DEF Enters, Resumes, AwaitedInv, IInv
  <2>4. CASE \E j \in Fields, d \in Frames : Suspends(t, c, f, j, d)
    <3>1. call'[t].start = c.start
      BY <2>4 DEF Suspends, AwaitedInv, IInv, TypeOK
    <3>2. QED
      BY <1>1, <2>3, <3>1
  <2>5. CASE Completes(t, c, f)
    <3>1. call'[t] = NotRunning
      BY <2>5 DEF Completes, AwaitedInv, IInv, TypeOK
    <3>2. QED
      BY <2>1, <3>1 DEF InFlight, NotRunning, Frame
  <2>6. QED
    BY <2>2, <2>4, <2>5, RunOnCases DEF AwaitedInv, IInv
<1>5. NoOrphan'
  <2> SUFFICES ASSUME NEW g \in 1..gen, g # services'
               PROVE  ChannelsOf(g) \subseteq attempted'
    BY <1>1, <1>2 DEF NoOrphan
  <2>1. CASE g # services
    BY <1>3, <2>1 DEF AwaitedInv, NoOrphan
  <2>2. CASE g = services
    <3>1. services = Own(t)
      BY <2>2 DEF Own, AwaitedInv, IInv, TypeOK, InFlight
    <3>2. /\ \A f \in Fields : Passed(f)
          /\ UNCHANGED attempted
      BY <2>2, <3>1, LoopSwept DEF AwaitedInv
    <3>3. QED
      BY <2>2, <3>2, PassedAll
  <2>3. QED
    BY <2>1, <2>2
<1>6. QED
  BY <1>4, <1>5 DEF AwaitedInv

LEMMA AwaitedInductive ==
    ASSUME ~Early
    PROVE  AwaitedInv /\ [Next]_vars => AwaitedInv'
<1> SUFFICES ASSUME AwaitedInv, [Next]_vars
             PROVE  AwaitedInv'
  OBVIOUS
<1>1. IInv /\ IInv'
  BY IInvInductive DEF AwaitedInv
<1>2. ASSUME UNCHANGED <<built, services, gen, layout, call, attempted>>
      PROVE  AwaitedInv'
  BY <1>1, <1>2 DEF AwaitedInv, NoOrphan, InFlight, ChannelsOf
<1>3. ASSUME NEW l \in Layouts, Construct(l)
      PROVE  AwaitedInv'
  <2>1. gen = 0 /\ services = None
    BY <1>1, <1>3 DEF IInv, Construct
  <2>2. InFlight = {}
    BY <1>1, <2>1 DEF IInv, SweptSoFar
  <2>3. QED
    BY <1>1, <1>3, <2>1, <2>2, PopulateAwaited DEF Construct, Return
<1>4. CASE ConstructFails
  BY <1>2, <1>4 DEF ConstructFails, Return
<1>5. ASSUME NEW t \in Tasks, NEW l \in Layouts, Connect(t, l)
      PROVE  AwaitedInv'
  BY <1>1, <1>5, PopulateAwaited DEF Connect, MayConnect, Return
<1>6. ASSUME NEW t \in Tasks, ConnectRefused(t) \/ ConnectLeavesUnset(t)
      PROVE  AwaitedInv'
  BY <1>2, <1>6 DEF ConnectRefused, ConnectLeavesUnset, Return
<1>7. ASSUME NEW t \in Tasks, DisconnectRefused(t)
      PROVE  AwaitedInv'
  BY <1>2, <1>7 DEF DisconnectRefused
<1>8. ASSUME NEW t \in Tasks, Disconnect(t) \/ CloseEnds(t)
      PROVE  AwaitedInv'
  BY <1>1, <1>8, LoopAwaited
<1>9. CASE UNCHANGED vars
  BY <1>2, <1>9 DEF vars
<1>10. QED
  BY <1>3, <1>4, <1>5, <1>6, <1>7, <1>8, <1>9 DEF Next

LEMMA AwaitedInit == Init => AwaitedInv
BY InitIInv DEF Init, AwaitedInv, NoOrphan, InFlight, NotRunning, Frame

\* No channel is lost, if callers await every disconnect before they connect.
THEOREM NoOrphanIfAwaited ==
    ASSUME ~Early
    PROVE  Spec => []NoOrphan
<1>1. AwaitedInv => NoOrphan
  BY DEF AwaitedInv
<1>2. QED
  BY <1>1, AwaitedInit, AwaitedInductive, PTL DEF Spec

-----------------------------------------------------------------------------
\* The client implements the connection it promises, if callers await every
\* disconnect: building a container opens, a close() releases or changes
\* nothing, the `finally` clears or changes nothing.
LEMMA OpenUnchanged ==
    ASSUME UNCHANGED <<services, layout, attempted>>
    PROVE  UNCHANGED Conn!vars
BY DEF Conn!vars, OpenChannels, ChannelsOf

LEMMA PopulateOpens ==
    ASSUME TypeOK, TypeOK', NEW l \in Layouts, Populate(l), services = None
    PROVE  Conn!Open
<1>1. services' # None
  BY DEF Populate, TypeOK
<1>2. OpenChannels' \in SUBSET Chans
  BY DEF TypeOK, OpenChannels, ChannelsOf, Chans, Allocs
<1>3. QED
  BY <1>1, <1>2 DEF Conn!Open

LEMMA LoopRefines ==
    ASSUME AwaitedInv, NEW t \in Tasks, Disconnect(t) \/ CloseEnds(t)
    PROVE  [Conn!Next]_Conn!vars
<1>1. PICK c \in RawFrames, f \in 1..(NumFields + 1) : RunOn(t, c, f)
  BY LoopSteps DEF AwaitedInv, IInv
<1>2. UNCHANGED layout
  BY LoopSteps DEF AwaitedInv, IInv
<1>3. CASE \E j \in Fields, d \in Frames : Suspends(t, c, f, j, d)
  <2>1. PICK j \in Fields, d \in Frames : Suspends(t, c, f, j, d)
    BY <1>3
  <2> DEFINE ch == <<services, layout[services][j]>>
  <2>2. /\ services \in Gens
        /\ ch \in Chans
        /\ ch \in ChannelsOf(services)
    BY <2>1, ClosableId
       DEF Suspends, AwaitedInv, IInv, Chans, ChannelsOf, Closable, HasChannel
  <2>3. services' = services /\ attempted' = attempted \cup {ch}
    BY <2>1 DEF Suspends
  <2>4. ChannelsOf(services)' = ChannelsOf(services)
    BY <1>2, <2>3 DEF ChannelsOf
  <2>5. OpenChannels' = OpenChannels \ {ch}
    BY <2>2, <2>3, <2>4 DEF OpenChannels
  <2> HIDE DEF ch
  <2>6. CASE ch \in OpenChannels
    <3>1. Conn!Release(ch)
      BY <2>3, <2>5, <2>6 DEF Conn!Release
    <3>2. QED
      BY <2>2, <3>1 DEF Conn!Next
  <2>7. CASE ch \notin OpenChannels
    BY <2>3, <2>5, <2>7 DEF Conn!vars
  <2>8. QED
    BY <2>6, <2>7
<1>4. CASE Completes(t, c, f)
  <2>1. services' = None /\ UNCHANGED attempted /\ OpenChannels' = {}
    BY <1>4 DEF Completes, OpenChannels
  <2>2. CASE services = None
    BY <2>1, <2>2 DEF Conn!vars, OpenChannels
  <2>3. CASE services # None
    <3>1. NoOrphan'
      BY LoopAwaited, IInvInductive DEF AwaitedInv, Next
    <3>2. ChannelsOf(services) \subseteq attempted
      <4>1. services \in 1..gen'
        BY <2>3, LoopSteps DEF AwaitedInv, IInv, TypeOK, Gens
      <4>2. \A g \in 1..gen' : ChannelsOf(g)' = ChannelsOf(g)
        BY <1>2 DEF ChannelsOf
      <4>3. QED
        BY <2>1, <2>3, <3>1, <4>1, <4>2 DEF NoOrphan
    <3>3. OpenChannels = {}
      BY <2>3, <3>2 DEF OpenChannels
    <3>4. Conn!Clear
      BY <2>1, <2>3, <3>3 DEF Conn!Clear
    <3>5. QED
      BY <3>4 DEF Conn!Next
  <2>4. QED
    BY <2>2, <2>3
<1>5. QED
  BY <1>1, <1>3, <1>4, RunOnCases DEF AwaitedInv, IInv

\* If callers await every disconnect before they connect, the client implements
\* Connection: disconnect() releases channels and clears the container when none
\* of it is left.
THEOREM ImplementsConnection ==
    ASSUME ~Early
    PROVE  Spec => ConnSpec
<1>1. Init => Conn!Init
  BY DEF Init, Conn!Init, OpenChannels
<1>2. AwaitedInv /\ [Next]_vars => [Conn!Next]_Conn!vars
  <2> SUFFICES ASSUME AwaitedInv, [Next]_vars
               PROVE  [Conn!Next]_Conn!vars
    OBVIOUS
  <2>1. TypeOK /\ TypeOK'
    BY TypeInductive DEF AwaitedInv, IInv
  <2>2. ASSUME NEW l \in Layouts, Construct(l)
        PROVE  Conn!Next
    <3>1. services = None
      BY <2>2 DEF Construct, AwaitedInv, IInv
    <3>2. QED
      BY <2>1, <2>2, <3>1, PopulateOpens DEF Construct, Conn!Next
  <2>3. ASSUME NEW t \in Tasks, NEW l \in Layouts, Connect(t, l)
        PROVE  Conn!Next
    BY <2>1, <2>3, PopulateOpens DEF Connect, Conn!Next
  <2>4. ASSUME NEW t \in Tasks,
               ConnectRefused(t) \/ ConnectLeavesUnset(t) \/ DisconnectRefused(t)
        PROVE  UNCHANGED Conn!vars
    BY <2>4, OpenUnchanged
       DEF ConnectRefused, ConnectLeavesUnset, DisconnectRefused, Return
  <2>5. CASE ConstructFails
    BY <2>5, OpenUnchanged DEF ConstructFails, Return
  <2>6. CASE UNCHANGED vars
    BY <2>6, OpenUnchanged DEF vars
  <2>7. QED
    BY <2>2, <2>3, <2>4, <2>5, <2>6, LoopRefines DEF Next
<1>3. QED
  BY <1>1, <1>2, AwaitedInit, AwaitedInductive, PTL DEF Spec, ConnSpec, Conn!Spec

-----------------------------------------------------------------------------
(***************************************************************************)
(* What a disconnect remembers: the error it will raise is the first one   *)
(* it met, and it skips the id of every channel it has called close() on.  *)
(***************************************************************************)
FirstMet(met) == IF met = <<>> THEN NoError ELSE Head(met)

Remembers(c) ==
    /\ c.error = FirstMet(c.met)
    /\ \A ch \in c.tried : ch[2] \in c.closed

History == FirstErrorReRaised /\ \A t \in Tasks : Remembers(call[t])

\* `except BaseException` keeps the first error first.
LEMMA CatchRemembers ==
    ASSUME NEW c \in RawFrames, NEW e \in Errors, Remembers(c)
    PROVE  Remembers(Catch(c, e)) /\ Catch(c, e).tried = c.tried
<1> DEFINE met == Append(c.met, e)
<1>1. c.met \in Seq(Errors)
  BY DEF RawFrames
<1>2. met # <<>>
  BY <1>1
<1>3. c.met = <<>> => Head(met) = e
  BY <1>1
<1>4. c.met # <<>> => Head(met) = Head(c.met) /\ Head(c.met) \in Errors
  BY <1>1
<1>5. NoError \notin Errors
  BY DEF NoError, Errors
<1>6. FirstError(c.error, e) = FirstMet(met)
  BY <1>2, <1>3, <1>4, <1>5 DEF FirstError, FirstMet, Remembers
<1>7. /\ Catch(c, e).error = FirstError(c.error, e) /\ Catch(c, e).met = met
      /\ Catch(c, e).tried = c.tried /\ Catch(c, e).closed = c.closed
  BY DEF Catch
<1> HIDE DEF met
<1>8. QED
  BY <1>6, <1>7 DEF Remembers

\* Running the loop on from a frame that remembers: into a close() it has not
\* called yet, or out of disconnect() with the first error it met.
LEMMA RunOnRemembers ==
    ASSUME TypeOK, NEW t \in Tasks, NEW c \in RawFrames, Remembers(c),
           NEW f \in 1..(NumFields + 1), RunOn(t, c, f)
    PROVE  \/ /\ \E d : /\ call' = [call EXCEPT ![t] = d] /\ Remembers(d)
                        /\ d.channel \notin c.tried
              /\ outcome' = outcome
           \/ /\ call' = [call EXCEPT ![t] = NotRunning]
              /\ \E e, m : outcome' = Ended("disconnect", e, m) /\ e = FirstMet(m)
<1> DEFINE missing(j) == \E k \in f..(j - 1) : ~HasChannel(k)
           c2(j) == IF missing(j) THEN Catch(c, "AttributeError") ELSE c
<1>1. PICK j \in f..(NumFields + 1) :
        \/ j \in Fields /\ Closable(j, c.closed) /\ BeginClose(t, c2(j), j)
        \/ j = NumFields + 1 /\ Finish(t, c2(j))
  BY DEF RunOn
<1>2. /\ c2(j) \in RawFrames /\ Remembers(c2(j))
      /\ c2(j).closed = c.closed /\ c2(j).tried = c.tried
  BY CatchFrame, CatchRemembers DEF Errors
<1> HIDE DEF c2
<1>3. CASE j \in Fields /\ Closable(j, c.closed) /\ BeginClose(t, c2(j), j)
  <2> DEFINE id == layout[services][j]
             channel == <<services, id>>
             d == [at |-> j, closed |-> c2(j).closed \cup {id}, error |-> c2(j).error,
                   channel |-> channel, start |-> c2(j).start,
                   tried |-> c2(j).tried \cup {channel}, met |-> c2(j).met]
  <2>1. call' = [call EXCEPT ![t] = d] /\ outcome' = outcome
    BY <1>3 DEF BeginClose
  <2>2. /\ d.error = c2(j).error /\ d.met = c2(j).met /\ d.channel = channel
        /\ d.tried = c.tried \cup {channel} /\ d.closed = c.closed \cup {id}
    BY <1>2
  <2>3. channel[2] = id /\ id \notin c.closed
    BY <1>3 DEF Closable
  <2>4. \A ch \in c.tried : ch[2] \in c.closed
    BY DEF Remembers
  <2>5. channel \notin c.tried
    BY <2>3, <2>4
  <2> HIDE DEF d, id, channel
  <2>6. Remembers(d)
    BY <1>2, <2>2, <2>3, <2>4 DEF Remembers
  <2>7. QED
    BY <2>1, <2>2, <2>5, <2>6
<1>4. CASE j = NumFields + 1 /\ Finish(t, c2(j))
  <2>1. c2(j).error = FirstMet(c2(j).met)
    BY <1>2 DEF Remembers
  <2>2. QED
    BY <1>4, <2>1 DEF Finish
<1>5. QED
  BY <1>1, <1>3, <1>4

\* The frame a loop step of a task starts from.
LEMMA LoopFrames ==
    ASSUME TypeOK, History, NEW t \in Tasks, Disconnect(t) \/ CloseEnds(t)
    PROVE  \E c \in RawFrames, f \in 1..(NumFields + 1) :
             RunOn(t, c, f) /\ Remembers(c) /\ c.tried = call[t].tried
<1>1. CASE Disconnect(t)
  <2> DEFINE c == Frame(services)
  <2>1. services \in Gens
    BY <1>1 DEF Disconnect, TypeOK
  <2>2. c \in RawFrames
    BY <2>1 DEF RawFrames, Frame
  <2>3. Remembers(c) /\ c.tried = {}
    BY DEF Remembers, FirstMet, Frame
  <2>4. call[t] = NotRunning
    BY <1>1 DEF Disconnect, TypeOK, Frames, Fields
  <2>5. call[t].tried = {}
    BY <2>4 DEF NotRunning, Frame
  <2>6. RunOn(t, c, 1)
    BY <1>1 DEF Disconnect
  <2> HIDE DEF c
  <2>7. QED
    BY <2>2, <2>3, <2>5, <2>6
<1>2. ASSUME call[t].at # 0
      PROVE  /\ call[t] \in RawFrames
             /\ call[t].at + 1 \in 1..(NumFields + 1)
  BY <1>2 DEF TypeOK, Frames, RawFrames, NotRunning, Frame, Fields
<1>3. Remembers(call[t])
  BY DEF History
<1>4. CASE CloseReturns(t)
  BY <1>2, <1>3, <1>4 DEF CloseReturns
<1>5. ASSUME NEW e \in {"CloseError", "CancelledError"}, CloseRaises(t, e)
      PROVE  \E c \in RawFrames, f \in 1..(NumFields + 1) :
               RunOn(t, c, f) /\ Remembers(c) /\ c.tried = call[t].tried
  <2>1. e \in Errors
    BY DEF Errors
  <2>2. call[t].at # 0 /\ RunOn(t, Catch(call[t], e), call[t].at + 1)
    BY <1>5 DEF CloseRaises
  <2>3. /\ Catch(call[t], e) \in RawFrames /\ Remembers(Catch(call[t], e))
        /\ Catch(call[t], e).tried = call[t].tried
    BY <1>2, <1>3, <2>1, <2>2, CatchFrame, CatchRemembers
  <2>4. QED
    BY <1>2, <2>2, <2>3
<1>6. QED
  BY <1>1, <1>4, <1>5 DEF CloseEnds

LEMMA HistoryInit == Init => History
<1>1. Remembers(NotRunning)
  BY DEF Remembers, FirstMet, NotRunning, Frame
<1>2. Init => FirstErrorReRaised
  BY DEF Init, FirstErrorReRaised, Ended
<1>3. QED
  BY <1>1, <1>2 DEF Init, History

\* Outside the loop no frame changes.
LEMMA FramesUnchanged ==
    ASSUME [Next]_vars, ~\E t \in Tasks : Disconnect(t) \/ CloseEnds(t)
    PROVE  call' = call
  BY DEF Next, vars, Construct, ConstructFails, Connect, ConnectRefused,
         ConnectLeavesUnset, DisconnectRefused, Return

LEMMA HistoryStep == TypeOK /\ History /\ [Next]_vars => History'
<1> SUFFICES ASSUME TypeOK, History, [Next]_vars
             PROVE  History'
  OBVIOUS
<1>1. ASSUME NEW t \in Tasks, Disconnect(t) \/ CloseEnds(t)
      PROVE  History'
  <2>1. PICK c \in RawFrames, f \in 1..(NumFields + 1) : RunOn(t, c, f) /\ Remembers(c)
    BY <1>1, LoopFrames
  <2>2. call \in [Tasks -> Frames \cup {NotRunning}]
    BY DEF TypeOK
  <2>3. Remembers(NotRunning)
    BY DEF Remembers, FirstMet, NotRunning, Frame
  <2>4. ASSUME NEW d, call' = [call EXCEPT ![t] = d], Remembers(d)
        PROVE  \A u \in Tasks : Remembers(call'[u])
    BY <2>2, <2>4 DEF History
  <2>5. ASSUME NEW e, NEW m, outcome' = Ended("disconnect", e, m), e = FirstMet(m)
        PROVE  FirstErrorReRaised'
    BY <2>5 DEF FirstErrorReRaised, Ended, FirstMet
  <2>6. ASSUME outcome' = outcome
        PROVE  FirstErrorReRaised'
    BY <2>6 DEF FirstErrorReRaised, History
  <2>7. FirstErrorReRaised' /\ \A u \in Tasks : Remembers(call'[u])
    BY <2>1, <2>3, <2>4, <2>5, <2>6, RunOnRemembers
  <2>8. QED
    BY <2>7 DEF History, Remembers
<1>2. CASE ~\E t \in Tasks : Disconnect(t) \/ CloseEnds(t)
  <2>1. call' = call
    BY <1>2, FramesUnchanged
  <2>2. ASSUME NEW m \in {"__init__", "connect"}, NEW e, Return(m, e)
        PROVE  FirstErrorReRaised'
    BY <2>2 DEF Return, Ended, FirstErrorReRaised
  <2>3. ASSUME NEW t \in Tasks, DisconnectRefused(t)
        PROVE  FirstErrorReRaised'
    BY <2>3 DEF DisconnectRefused, Ended, FirstErrorReRaised
  <2>4. ASSUME UNCHANGED vars
        PROVE  FirstErrorReRaised'
    BY <2>4 DEF vars, FirstErrorReRaised, History
  <2>5. FirstErrorReRaised'
    <3>1. CASE (\E l \in Layouts : Construct(l)) \/ ConstructFails
      BY <2>2, <3>1 DEF Construct, ConstructFails
    <3>2. ASSUME NEW t \in Tasks, NEW l \in Layouts, Connect(t, l)
          PROVE  FirstErrorReRaised'
      BY <2>2, <3>2 DEF Connect
    <3>3. ASSUME NEW t \in Tasks, ConnectRefused(t)
          PROVE  FirstErrorReRaised'
      BY <2>2, <3>3 DEF ConnectRefused
    <3>4. ASSUME NEW t \in Tasks, ConnectLeavesUnset(t)
          PROVE  FirstErrorReRaised'
      BY <2>2, <3>4 DEF ConnectLeavesUnset
    <3>5. QED
      BY <1>2, <2>3, <2>4, <3>1, <3>2, <3>3, <3>4 DEF Next
  <2>6. QED
    BY <2>1, <2>5 DEF History, Remembers
<1>3. QED
  BY <1>1, <1>2

\* A disconnect raises the first error it met, of its own lookups, its close()
\* calls and its cancellations, and returns only if it met none.
THEOREM RaisesTheFirst == Spec => []FirstErrorReRaised
<1>1. TypeOK /\ History => FirstErrorReRaised
  BY DEF History
<1>2. QED
  BY <1>1, TypeInit, TypeInductive, HistoryInit, HistoryStep, PTL DEF Spec

\* One disconnect never calls close() twice on a channel, also when the container
\* is replaced under it and a new channel has the id of an old one.
THEOREM ClosesEachOnce == Spec => SharedClosedOnce
<1>1. TypeOK /\ History /\ [Next]_vars
        => [\A t \in Tasks : call'[t].at # 0 /\ call'[t] # call[t]
              => call'[t].channel \notin call[t].tried]_vars
  <2> SUFFICES ASSUME TypeOK, History, Next,
                      NEW t \in Tasks, call'[t].at # 0, call'[t] # call[t]
               PROVE  call'[t].channel \notin call[t].tried
    OBVIOUS
  <2>1. PICK u \in Tasks : Disconnect(u) \/ CloseEnds(u)
    BY FramesUnchanged
  <2>2. PICK c \in RawFrames, f \in 1..(NumFields + 1) :
          RunOn(u, c, f) /\ Remembers(c) /\ c.tried = call[u].tried
    BY <2>1, LoopFrames
  <2>3. call \in [Tasks -> Frames \cup {NotRunning}]
    BY DEF TypeOK
  <2>4. ASSUME NEW d, call' = [call EXCEPT ![u] = d]
        PROVE  u = t /\ call'[t] = d
    BY <2>3, <2>4
  <2>5. NotRunning.at = 0
    BY DEF NotRunning, Frame
  <2>6. QED
    BY <2>2, <2>4, <2>5, RunOnRemembers
<1>2. QED
  BY <1>1, TypeInit, TypeInductive, HistoryInit, HistoryStep, PTL DEF Spec, SharedClosedOnce
=============================================================================
