-------------------------- MODULE SyncClient_proofs --------------------------
(***************************************************************************)
(* Proofs about SyncClient, for any threads, fields, ids, containers and   *)
(* any number of generations and interrupts.                               *)
(***************************************************************************)
EXTENDS SyncClient, TLAPS

USE Assumption DEF None

Pcs       == {"idle", "connecting", "entering", "looping", "closing"}
Places    == 1..(NumFields + 1)
IdSets    == SUBSET Ids
Raisable  == Errors \cup {NoError}
Channels  == Chans \cup {<<None, NoChannel>>}
Starts    == {None} \cup Gens
ChanSets  == SUBSET Chans
Hits      == {"no", "first", "late"}
Frames    == [pc : Pcs, at : Places, closed : IdSets, error : Raisable,
              channel : Channels, start : Starts, tried : ChanSets, hit : Hits]

LEMMA FirstErrorTyped ==
    ASSUME NEW e \in Errors \cup {NoError}, NEW new \in Errors
    PROVE  /\ FirstError(e, new) \in Errors \cup {NoError}
           /\ FirstError(e, new) # NoError
  BY DEF FirstError, Errors, NoError

\* What a loop that goes on to the next field leaves of its frame.
Onward(c, d) ==
    /\ d.pc = "looping" /\ d.at = c.at + 1
    /\ d.start = c.start /\ d.tried = c.tried

\* A frame that caught an interrupt has an error to raise, and the interrupt itself
\* if nothing came before it.
HitOK(c) ==
    /\ c.hit # "no" => c.error # NoError
    /\ c.hit = "first" => c.error = "KeyboardInterrupt"

LEMMA ResumeFrame ==
    ASSUME NEW c \in Frames, c.at \in Fields
    PROVE  /\ Resume(c) \in Frames
           /\ Onward(c, Resume(c))
           /\ Resume(c).closed = c.closed
           /\ HitOK(c) => HitOK(Resume(c))
<1>1. "looping" \in Pcs /\ c.at + 1 \in Places
  BY DEF Pcs, Places, Fields
<1>2. QED
  BY <1>1 DEF Frames, Resume, Onward, HitOK

LEMMA RaisedFrame ==
    ASSUME NEW c \in Frames, NEW e \in Errors
    PROVE  LET d == [c EXCEPT !.error = FirstError(@, e)]
           IN  /\ d \in Frames
               /\ HitOK(c) => HitOK(d)
               /\ d.pc = c.pc /\ d.at = c.at /\ d.closed = c.closed
               /\ d.start = c.start /\ d.tried = c.tried
<1>1. FirstError(c.error, e) \in Raisable /\ FirstError(c.error, e) # NoError
  BY FirstErrorTyped DEF Frames, Raisable
<1>2. c.error # NoError => FirstError(c.error, e) = c.error
  BY DEF FirstError
<1>3. QED
  BY <1>1, <1>2 DEF Frames, HitOK

LEMMA StruckFrame ==
    ASSUME NEW c \in Frames
    PROVE  /\ Strike(c) \in Frames
           /\ HitOK(c) => HitOK(Strike(c))
           /\ Strike(c).pc = c.pc /\ Strike(c).at = c.at /\ Strike(c).closed = c.closed
           /\ Strike(c).start = c.start /\ Strike(c).tried = c.tried
<1> DEFINE error == FirstError(c.error, "KeyboardInterrupt")
           hit   == IF c.hit # "no" THEN c.hit
                    ELSE IF c.error = NoError THEN "first" ELSE "late"
<1>1. error \in Raisable /\ error # NoError
  BY FirstErrorTyped DEF Frames, Raisable, Errors
<1>2. /\ c.error # NoError => error = c.error
      /\ c.error = NoError => error = "KeyboardInterrupt"
  BY DEF FirstError
<1>3. hit \in Hits
  BY DEF Frames, Hits
<1>4. HitOK(c) => (hit = "first" => error = "KeyboardInterrupt")
  BY <1>2 DEF HitOK
<1>5. Strike(c) = [c EXCEPT !.error = error, !.hit = hit]
  BY DEF Strike
<1> HIDE DEF error, hit
<1>6. QED
  BY <1>1, <1>3, <1>4, <1>5 DEF Frames, HitOK

LEMMA PassedOverFrame ==
    ASSUME NEW c \in Frames, c.at \in Fields, c.pc = "looping", NEW e \in Errors
    PROVE  LET d == [c EXCEPT !.error = FirstError(@, e), !.at = @ + 1]
           IN  /\ d \in Frames
               /\ HitOK(c) => HitOK(d)
               /\ Onward(c, d)
               /\ d.closed = c.closed
<1>1. FirstError(c.error, e) \in Raisable /\ FirstError(c.error, e) # NoError
  BY FirstErrorTyped DEF Frames, Raisable
<1>2. c.error # NoError => FirstError(c.error, e) = c.error
  BY DEF FirstError
<1>3. c.at + 1 \in Places
  BY DEF Places, Fields
<1>4. QED
  BY <1>1, <1>2, <1>3 DEF Frames, Onward, HitOK

LEMMA SkippedFrame ==
    ASSUME NEW c \in Frames, c.at \in Fields, c.pc = "looping", NEW ch \in Channels
    PROVE  LET d == [c EXCEPT !.channel = ch, !.at = @ + 1]
           IN  /\ d \in Frames
               /\ Onward(c, d)
               /\ d.closed = c.closed
               /\ HitOK(c) => HitOK(d)
<1>1. c.at + 1 \in Places
  BY DEF Places, Fields
<1>2. QED
  BY <1>1 DEF Frames, Onward, HitOK

\* The frame of a visit that calls close() on channel ch.
ClosingOf(c, ch) == [c EXCEPT !.pc = "closing", !.channel = ch,
                              !.closed = @ \cup {ch[2]}, !.tried = @ \cup {ch}]

LEMMA ClosingFrame ==
    ASSUME NEW c \in Frames, NEW ch \in Chans
    PROVE  LET d == ClosingOf(c, ch)
           IN  /\ d \in Frames
               /\ d.pc = "closing" /\ d.channel = ch
               /\ d.closed = c.closed \cup {ch[2]} /\ d.tried = c.tried \cup {ch}
               /\ d.at = c.at /\ d.start = c.start
               /\ HitOK(c) => HitOK(d)
<1>1. c.closed \cup {ch[2]} \in IdSets
  BY DEF IdSets, Chans, Frames
<1>2. c.tried \cup {ch} \in ChanSets
  BY DEF ChanSets, Frames
<1>3. "closing" \in Pcs /\ ch \in Channels
  BY DEF Pcs, Channels
<1>4. QED
  BY <1>1, <1>2, <1>3 DEF Frames, ClosingOf, HitOK

LEMMA StruckVisitFrame ==
    ASSUME NEW c \in Frames, c.at \in Fields, c.pc = "looping"
    PROVE  LET d == [Strike(c) EXCEPT !.at = @ + 1]
           IN  /\ d \in Frames
               /\ Onward(c, d)
               /\ HitOK(c) => HitOK(d)
               /\ d.closed = c.closed
<1>1. PICK b \in Frames : b = Strike(c)
  BY StruckFrame
<1>2. /\ b.pc = "looping" /\ b.at = c.at /\ b.closed = c.closed
      /\ b.start = c.start /\ b.tried = c.tried
  BY <1>1, StruckFrame
<1>3. HitOK(c) => HitOK(b)
  BY <1>1, StruckFrame
<1>4. c.at + 1 \in Places
  BY DEF Places, Fields
<1>5. QED
  BY <1>1, <1>2, <1>3, <1>4 DEF Frames, Onward, HitOK

\* A frame whose lookup found a channel, and marked its id closed or not.
LookedUp(b, channel, new) == [b EXCEPT !.channel = channel, !.closed = @ \cup new]

LEMMA LookedUpFrame ==
    ASSUME NEW b \in Frames, NEW channel \in Channels, NEW new \in SUBSET Ids
    PROVE  /\ LookedUp(b, channel, new) \in Frames
           /\ LookedUp(b, channel, new).pc = b.pc
           /\ LookedUp(b, channel, new).at = b.at
           /\ LookedUp(b, channel, new).start = b.start
           /\ LookedUp(b, channel, new).tried = b.tried
           /\ LookedUp(b, channel, new).closed = b.closed \cup new
           /\ HitOK(b) => HitOK(LookedUp(b, channel, new))
<1> DEFINE d == LookedUp(b, channel, new)
<1>1. b.closed \cup new \in IdSets
  BY DEF Frames, IdSets
<1>2. /\ d \in Frames
      /\ d.pc = b.pc /\ d.at = b.at /\ d.start = b.start /\ d.tried = b.tried
      /\ d.error = b.error /\ d.hit = b.hit /\ d.closed = b.closed \cup new
  BY <1>1 DEF Frames, LookedUp
<1> HIDE DEF d
<1>3. HitOK(b) => HitOK(d)
  BY <1>2 DEF HitOK
<1>4. QED
  BY <1>2, <1>3 DEF d

LEMMA NewFrame ==
    ASSUME NEW pc \in {"idle", "connecting", "entering"}
    PROVE  Frame(pc) \in Frames
  BY DEF Frame, Frames, Pcs, Places, IdSets, Raisable, Channels, Starts, ChanSets, Hits

-----------------------------------------------------------------------------
(***************************************************************************)
(* The inductive invariant of the type: what a frame holds at each point   *)
(* of disconnect(), in any container the client has had so far; a loop     *)
(* that has none, because it read None, has no field left to visit.        *)
(***************************************************************************)
FrameOK(c) ==
    /\ c.pc \in {"idle", "connecting", "entering"} => c = Frame(c.pc)
    /\ c.pc \in {"looping", "closing"} =>
            c.start \in 1..gen \/ (c.start = None /\ c.at \notin Fields)
    /\ c.pc = "closing" => c.at \in Fields
    /\ \A ch \in c.tried : ch[2] \in c.closed
    /\ HitOK(c)

Typed ==
    /\ TypeOK
    /\ services \in {None} \cup 1..gen
    /\ \A t \in Threads : FrameOK(call[t])

LEMMA TypedCalls ==
    /\ TypeOK  <=> /\ built \in BOOLEAN
                   /\ services \in {None} \cup Gens
                   /\ gen \in 0..MaxGen
                   /\ layout \in [Gens -> Allocs]
                   /\ call \in [Threads -> Frames]
                   /\ interrupts \in 0..MaxInterrupts
                   /\ attempted \subseteq Chans
                   /\ struck \subseteq Gens
                   /\ outcome \in [of : {"none", "__init__", "connect", "disconnect"},
                                   raised : Errors \cup {NoError}]
    /\ TypeOK' <=> /\ built' \in BOOLEAN
                   /\ services' \in {None} \cup Gens
                   /\ gen' \in 0..MaxGen
                   /\ layout' \in [Gens -> Allocs]
                   /\ call' \in [Threads -> Frames]
                   /\ interrupts' \in 0..MaxInterrupts
                   /\ attempted' \subseteq Chans
                   /\ struck' \subseteq Gens
                   /\ outcome' \in [of : {"none", "__init__", "connect", "disconnect"},
                                    raised : Errors \cup {NoError}]
  BY DEF TypeOK, Frames, Pcs, Places, IdSets, Raisable, Channels, Starts, ChanSets, Hits

\* A thread moves to a frame that fits the containers built so far.
LEMMA GoesTyped ==
    ASSUME Typed, NEW t \in Threads, NEW d \in Frames, Go(t, d),
           gen' \in Nat, gen' >= gen, FrameOK(d)'
    PROVE  /\ call' \in [Threads -> Frames]
           /\ \A u \in Threads : FrameOK(call[u])'
<1>1. call \in [Threads -> Frames]
  BY TypedCalls DEF Typed
<1>2. \A u \in Threads \ {t} : call'[u] = call[u]
  BY <1>1 DEF Go
<1>3. call'[t] = d /\ call' \in [Threads -> Frames]
  BY <1>1 DEF Go
<1>4. gen \in Nat
  BY DEF Typed, TypeOK
<1>5. ASSUME NEW u \in Threads \ {t}
      PROVE  FrameOK(call[u])'
  BY <1>2, <1>4 DEF Typed, FrameOK
<1>6. QED
  BY <1>3, <1>5

\* A thread outside disconnect(), or at its entry, holds no container.
LEMMA Outside ==
    ASSUME Typed, NEW t \in Threads, call[t].pc \in {"idle", "connecting", "entering"}
    PROVE  call[t].start = None /\ call[t].hit = "no"
<1>1. call[t] = Frame(call[t].pc)
  BY DEF Typed, FrameOK
<1>2. \A pc : Frame(pc).start = None /\ Frame(pc).hit = "no"
  BY DEF Frame
<1>3. QED
  BY <1>1, <1>2, Zenon

LEMMA NewFrameOK ==
    ASSUME NEW pc \in {"idle", "connecting", "entering"}
    PROVE  FrameOK(Frame(pc)) /\ FrameOK(Frame(pc))'
  BY DEF Frame, FrameOK, HitOK

LEMMA PopulateTyped ==
    ASSUME Typed, NEW l \in Layouts, Populate(l)
    PROVE  /\ gen' = gen + 1 /\ gen' \in 1..MaxGen
           /\ services' = gen'
           /\ layout' \in [Gens -> Allocs]
           /\ layout'[gen'] = l
           /\ \A g \in Gens \ {gen'} : layout'[g] = layout[g]
<1>1. gen' = gen + 1 /\ gen' \in 1..MaxGen /\ services' = gen'
  BY DEF Typed, TypeOK, Populate
<1>2. l \in Allocs /\ layout \in [Gens -> Allocs]
  BY DEF Typed, TypeOK
<1>3. layout' = [layout EXCEPT ![gen'] = l] /\ gen' \in Gens
  BY <1>1 DEF Populate, Gens
<1>4. QED
  BY <1>1, <1>2, <1>3

\* Everything a visit makes of its frame, in the three cases.
LEMMA VisitCases ==
    ASSUME Typed, NEW t \in Threads, Visit(t)
    PROVE  LET c == call[t]
               channel == <<services, layout[services][c.at]>>
           IN  /\ c \in Frames /\ c.pc = "looping" /\ c.at \in Fields
               /\ \E d \in Frames :
                    /\ Go(t, d)
                    /\ d.start = c.start
                    /\ HitOK(c) => HitOK(d)
                    /\ \/ /\ ~HasChannel(c.at) /\ Onward(c, d)
                          /\ d.closed = c.closed /\ attempted' = attempted
                       \/ /\ HasChannel(c.at) /\ Onward(c, d)
                          /\ channel[2] \in c.closed
                          /\ d.closed = c.closed /\ attempted' = attempted
                       \/ /\ HasChannel(c.at) /\ channel \in Chans
                          /\ channel[2] \notin c.closed
                          /\ d.pc = "closing" /\ d.at = c.at /\ d.channel = channel
                          /\ d.closed = c.closed \cup {channel[2]}
                          /\ d.tried = c.tried \cup {channel}
                          /\ attempted' = attempted \cup {channel}
<1> DEFINE c == call[t]
           channel == <<services, layout[services][c.at]>>
<1>1. c \in Frames /\ c.pc = "looping" /\ c.at \in Fields
  BY TypedCalls DEF Visit, Typed, At
<1>2. ASSUME HasChannel(c.at)
      PROVE  channel \in Chans
  <2>1. services \in Gens /\ layout[services] \in Allocs
    BY <1>2 DEF HasChannel, Typed, TypeOK
  <2>2. layout[services][c.at] \in Ids
    BY <1>1, <1>2, <2>1 DEF HasChannel, Allocs
  <2>3. QED
    BY <2>1, <2>2 DEF Chans
<1>3. CASE /\ ~HasChannel(c.at)
           /\ Go(t, [c EXCEPT !.error = FirstError(@, "AttributeError"), !.at = @ + 1])
           /\ UNCHANGED attempted
  <2> HIDE DEF c
  <2>1. "AttributeError" \in Errors
    BY DEF Errors
  <2> DEFINE d == [c EXCEPT !.error = FirstError(@, "AttributeError"), !.at = @ + 1]
  <2>2. /\ d \in Frames /\ Onward(c, d) /\ d.closed = c.closed
        /\ HitOK(c) => HitOK(d)
    BY <1>1, <2>1, PassedOverFrame
  <2>3. Go(t, d) /\ attempted' = attempted
    BY <1>3
  <2> HIDE DEF d
  <2>4. QED
    BY <1>1, <1>3, <2>2, <2>3 DEF c, Onward
<1>4. CASE /\ HasChannel(c.at)
           /\ channel[2] \in c.closed
           /\ Go(t, [c EXCEPT !.channel = channel, !.at = @ + 1])
           /\ UNCHANGED attempted
  <2> HIDE DEF c, channel
  <2> DEFINE d == [c EXCEPT !.channel = channel, !.at = @ + 1]
  <2>1. channel \in Channels
    BY <1>2, <1>4 DEF Channels
  <2>2. /\ d \in Frames /\ Onward(c, d) /\ d.closed = c.closed
        /\ HitOK(c) => HitOK(d)
    BY <1>1, <2>1, SkippedFrame
  <2>3. Go(t, d) /\ attempted' = attempted
    BY <1>4
  <2> HIDE DEF d
  <2>4. QED
    BY <1>1, <1>4, <2>2, <2>3 DEF c, channel, Onward
<1>5. CASE /\ HasChannel(c.at)
           /\ channel[2] \notin c.closed
           /\ Go(t, [c EXCEPT !.pc = "closing", !.channel = channel,
                              !.closed = @ \cup {channel[2]}, !.tried = @ \cup {channel}])
           /\ attempted' = attempted \cup {channel}
  <2> HIDE DEF c, channel
  <2> DEFINE d == ClosingOf(c, channel)
  <2>1. channel \in Chans
    BY <1>2, <1>5
  <2>2. /\ d \in Frames /\ d.pc = "closing" /\ d.channel = channel
        /\ d.closed = c.closed \cup {channel[2]} /\ d.tried = c.tried \cup {channel}
        /\ d.at = c.at /\ d.start = c.start
        /\ HitOK(c) => HitOK(d)
    BY <1>1, <2>1, ClosingFrame
  <2>3. Go(t, d) /\ attempted' = attempted \cup {channel}
    BY <1>5 DEF ClosingOf
  <2> HIDE DEF d
  <2>4. QED
    BY <1>1, <1>5, <2>1, <2>2, <2>3 DEF c, channel
<1>6. QED
  BY <1>3, <1>4, <1>5 DEF Visit

\* The ways a call to close() ends.
LEMMA CloseCases ==
    ASSUME Typed, NEW t \in Threads, CloseEnds(t) \/ (InterruptClose /\ t = Main)
    PROVE  LET c == call[t]
           IN  /\ c \in Frames /\ c.pc = "closing" /\ c.at \in Fields
               /\ UNCHANGED <<built, services, gen, layout, attempted, struck, outcome>>
               /\ interrupts' \in 0..MaxInterrupts
               /\ \E d \in Frames :
                    /\ Go(t, d) /\ Onward(c, d) /\ d.closed = c.closed
                    /\ HitOK(c) => HitOK(d)
<1> DEFINE c == call[t]
<1>1. /\ c \in Frames /\ c.pc = "closing" /\ c.at \in Fields
      /\ interrupts \in 0..MaxInterrupts
  BY TypedCalls DEF CloseEnds, InterruptClose, Typed, FrameOK, At
<1>2. "CloseError" \in Errors /\ "KeyboardInterrupt" \in Errors
  BY DEF Errors
<1> HIDE DEF c
<1>3. CASE CloseEnds(t)
  <2> DEFINE raised == [c EXCEPT !.error = FirstError(@, "CloseError")]
  <2>1. /\ raised \in Frames
        /\ HitOK(c) => HitOK(raised)
        /\ raised.pc = c.pc /\ raised.at = c.at /\ raised.closed = c.closed
        /\ raised.start = c.start /\ raised.tried = c.tried
    BY <1>1, <1>2, RaisedFrame
  <2>2. Go(t, Resume(c)) \/ Go(t, Resume(raised))
    BY <1>3 DEF CloseEnds, c
  <2>3. /\ UNCHANGED <<built, services, gen, layout, attempted, struck, outcome>>
        /\ interrupts' = interrupts
    BY <1>3 DEF CloseEnds
  <2> HIDE DEF raised
  <2>4. /\ Resume(raised) \in Frames /\ Onward(raised, Resume(raised))
        /\ Resume(raised).closed = c.closed
        /\ HitOK(c) => HitOK(Resume(raised))
    BY <1>1, <2>1, ResumeFrame
  <2>5. Onward(c, Resume(raised))
    BY <2>1, <2>4 DEF Onward
  <2>6. /\ Resume(c) \in Frames /\ Onward(c, Resume(c))
        /\ Resume(c).closed = c.closed
        /\ HitOK(c) => HitOK(Resume(c))
    BY <1>1, ResumeFrame
  <2>7. QED
    BY <1>1, <2>2, <2>3, <2>4, <2>5, <2>6 DEF c
<1>4. CASE InterruptClose /\ t = Main
  <2>1. PICK raised \in Frames : raised = Strike(c)
    BY <1>1, StruckFrame
  <2>2. /\ raised.pc = c.pc /\ raised.at = c.at /\ raised.closed = c.closed
        /\ raised.start = c.start /\ raised.tried = c.tried
        /\ HitOK(c) => HitOK(raised)
    BY <1>1, <2>1, StruckFrame
  <2>3. Go(t, Resume(raised))
    BY <1>4, <2>1 DEF InterruptClose, c
  <2>4. /\ UNCHANGED <<built, services, gen, layout, attempted, struck, outcome>>
        /\ interrupts' \in 0..MaxInterrupts
    BY <1>1, <1>4 DEF InterruptClose, Interrupt
  <2>5. /\ Resume(raised) \in Frames /\ Onward(raised, Resume(raised))
        /\ Resume(raised).closed = c.closed
        /\ HitOK(c) => HitOK(Resume(raised))
    BY <1>1, <2>1, <2>2, ResumeFrame
  <2>6. Onward(c, Resume(raised))
    BY <2>2, <2>5 DEF Onward
  <2>7. QED
    BY <1>1, <2>3, <2>4, <2>5, <2>6 DEF c
<1>5. QED
  BY <1>3, <1>4

\* An interrupt that strikes a visit before it calls close().
LEMMA StruckVisitCases ==
    ASSUME Typed, InterruptVisit
    PROVE  LET c == call[Main]
           IN  /\ c \in Frames /\ c.pc = "looping" /\ c.at \in Fields
               /\ UNCHANGED <<built, services, gen, layout, attempted, outcome>>
               /\ struck' = struck \cup {c.start}
               /\ interrupts' \in 0..MaxInterrupts
               /\ \E d \in Frames : /\ Go(Main, d) /\ Onward(c, d)
                                    /\ c.closed \subseteq d.closed
                                    /\ HitOK(c) => HitOK(d)
<1> DEFINE c == call[Main]
           channel == <<services, layout[services][c.at]>>
           passed  == [Strike(c) EXCEPT !.at = @ + 1]
<1>1. /\ c \in Frames /\ c.pc = "looping" /\ c.at \in Fields
      /\ interrupts \in 0..MaxInterrupts
  BY TypedCalls DEF InterruptVisit, Typed, At
<1>2. /\ UNCHANGED <<built, services, gen, layout, attempted, outcome>>
      /\ struck' = struck \cup {c.start}
      /\ interrupts' \in 0..MaxInterrupts
  BY <1>1 DEF InterruptVisit, Interrupt
<1>3. /\ passed \in Frames /\ Onward(c, passed) /\ passed.closed = c.closed
      /\ HitOK(c) => HitOK(passed)
  <2> HIDE DEF c
  <2>1. QED
    BY <1>1, StruckVisitFrame
<1>4. CASE Go(Main, passed)
  <2> HIDE DEF passed
  <2>1. QED
    BY <1>1, <1>2, <1>3, <1>4
<1>5. ASSUME HasChannel(c.at), NEW new \in {{}, {channel[2]}},
             Go(Main, [passed EXCEPT !.channel = channel, !.closed = @ \cup new])
      PROVE  \E d \in Frames : /\ Go(Main, d) /\ Onward(c, d)
                               /\ c.closed \subseteq d.closed
                               /\ HitOK(c) => HitOK(d)
  <2>1. services \in Gens /\ layout[services] \in Allocs
    BY <1>5 DEF HasChannel, Typed, TypeOK
  <2>2. layout[services][c.at] \in Ids
    BY <1>1, <1>5, <2>1 DEF HasChannel, Allocs
  <2>3. channel \in Channels /\ new \in SUBSET Ids
    BY <1>5, <2>1, <2>2 DEF Channels, Chans
  <2> HIDE DEF passed, channel, c
  <2> DEFINE d == LookedUp(passed, channel, new)
  <2>4. Go(Main, d)
    BY <1>5 DEF LookedUp
  <2>5. /\ d \in Frames
        /\ d.pc = passed.pc /\ d.at = passed.at /\ d.start = passed.start
        /\ d.tried = passed.tried /\ d.closed = passed.closed \cup new
        /\ HitOK(passed) => HitOK(d)
    BY <1>3, <2>3, LookedUpFrame
  <2> HIDE DEF d
  <2>6. QED
    BY <1>3, <2>4, <2>5 DEF Onward
<1>6. \/ Go(Main, passed)
      \/ /\ HasChannel(c.at)
         /\ \E new \in {{}, {channel[2]}} :
              Go(Main, [passed EXCEPT !.channel = channel, !.closed = @ \cup new])
  BY DEF InterruptVisit
<1>7. QED
  BY <1>1, <1>2, <1>4, <1>5, <1>6

\* A thread that reads the fields of the container, or finds none to read.
LEMMA ReadCases ==
    ASSUME Typed, NEW t \in Threads, ReadFields(t)
    PROVE  /\ call[t].pc = "entering"
           /\ UNCHANGED <<built, services, gen, layout, attempted, struck, outcome>>
           /\ \E d \in Frames :
                /\ Go(t, d)
                /\ d.pc = "looping" /\ d.start = services
                /\ d.at = (IF services = None THEN NumFields + 1 ELSE 1)
                /\ d.closed = {} /\ d.tried = {} /\ d.hit = "no"
<1>1. /\ call[t] = Frame("entering") /\ call[t].pc = "entering"
      /\ services \in {None} \cup Gens
  BY DEF ReadFields, Typed, TypeOK, FrameOK, At
<1>2. UNCHANGED <<built, services, gen, layout, attempted, struck, outcome>>
  BY DEF ReadFields
<1>3. PICK c \in Frames : c = Frame("entering")
  BY NewFrame
<1>4. c.at = 1 /\ c.closed = {} /\ c.tried = {} /\ c.hit = "no" /\ c.start = None
  BY <1>3 DEF Frame
<1>5. "looping" \in Pcs /\ services \in Starts /\ NumFields + 1 \in Places
  BY <1>1 DEF Pcs, Starts, Places
<1>6. CASE services # None
  <2>1. PICK d : d = [c EXCEPT !.pc = "looping", !.start = services]
    OBVIOUS
  <2>2. /\ d \in Frames /\ d.pc = "looping" /\ d.start = services
        /\ d.at = c.at /\ d.closed = c.closed /\ d.tried = c.tried /\ d.hit = c.hit
    BY <1>5, <2>1 DEF Frames
  <2>3. Go(t, d)
    BY <1>1, <1>3, <1>6, <2>1 DEF ReadFields
  <2>4. QED
    BY <1>1, <1>2, <1>4, <1>6, <2>2, <2>3
<1>7. CASE services = None
  <2>1. PICK d : d = [c EXCEPT !.pc = "looping", !.at = NumFields + 1, !.error = "TypeError"]
    OBVIOUS
  <2>2. "TypeError" \in Raisable
    BY DEF Raisable, Errors
  <2>3. /\ d \in Frames /\ d.pc = "looping" /\ d.start = c.start
        /\ d.at = NumFields + 1 /\ d.closed = c.closed /\ d.tried = c.tried
        /\ d.hit = c.hit
    BY <1>5, <2>1, <2>2 DEF Frames
  <2>4. Go(t, d)
    BY <1>1, <1>3, <1>7, <2>1 DEF ReadFields
  <2>5. QED
    BY <1>1, <1>2, <1>4, <1>7, <2>3, <2>4
<1>8. QED
  BY <1>6, <1>7

Outcomes == [of : {"none", "__init__", "connect", "disconnect"},
             raised : Errors \cup {NoError}]

LEMMA ReturnTyped ==
    ASSUME Typed, NEW t \in Threads, NEW m \in {"__init__", "connect", "disconnect"},
           NEW e \in Errors \cup {NoError}, Return(t, m, e)
    PROVE  /\ Go(t, Frame("idle")) /\ Frame("idle") \in Frames
           /\ outcome' \in Outcomes
  BY NewFrame DEF Return, Idle, Outcomes

LEMMA TypedStep ==
    ASSUME Typed, [Next]_vars
    PROVE  Typed'
<1> DEFINE Rest == /\ built' \in BOOLEAN
                   /\ gen' \in 0..MaxGen /\ gen' >= gen
                   /\ services' \in {None} \cup 1..gen'
                   /\ layout' \in [Gens -> Allocs]
                   /\ interrupts' \in 0..MaxInterrupts
                   /\ attempted' \subseteq Chans
                   /\ struck' \subseteq Gens
                   /\ outcome' \in Outcomes
<1>a. /\ built \in BOOLEAN /\ gen \in 0..MaxGen
      /\ services \in {None} \cup 1..gen /\ layout \in [Gens -> Allocs]
      /\ interrupts \in 0..MaxInterrupts /\ attempted \subseteq Chans
      /\ struck \subseteq Gens /\ outcome \in Outcomes
      /\ call \in [Threads -> Frames]
  BY TypedCalls DEF Typed, Outcomes
<1>b. ASSUME Rest, NEW t \in Threads, NEW d \in Frames, Go(t, d), FrameOK(d)'
      PROVE  Typed'
  <2>1. /\ call' \in [Threads -> Frames]
        /\ \A u \in Threads : FrameOK(call[u])'
    BY <1>a, <1>b, GoesTyped
  <2>2. services' \in {None} \cup Gens
    BY <1>b DEF Gens
  <2>3. TypeOK'
    BY <1>b, <2>1, <2>2, TypedCalls DEF Outcomes
  <2>4. QED
    BY <1>b, <2>1, <2>3 DEF Typed
<1>c. ASSUME Rest, NEW t \in Threads, NEW pc \in {"idle", "connecting", "entering"},
             Go(t, Frame(pc))
      PROVE  Typed'
  BY <1>b, <1>c, NewFrame, NewFrameOK
<1>1. ASSUME NEW l \in Layouts, Construct(l)
      PROVE  Typed'
  <2>1. Rest /\ Go(Main, Frame("idle"))
    BY <1>a, <1>1, PopulateTyped, ReturnTyped DEF Construct
  <2>2. QED
    BY <1>c, <2>1
<1>2. CASE ConstructFails
  <2>1. PICK e \in {"ValueError", "InitError"} : Return(Main, "__init__", e)
    BY <1>2 DEF ConstructFails
  <2>2. e \in Errors
    BY <2>1 DEF Errors
  <2>3. Rest /\ Go(Main, Frame("idle"))
    BY <1>a, <1>2, <2>1, <2>2, ReturnTyped DEF ConstructFails
  <2>4. QED
    BY <1>c, <2>3
<1>3. ASSUME NEW t \in Threads, Connect(t)
      PROVE  Typed'
  <2>1. CASE services = None
    <3>1. Rest /\ Go(t, Frame("connecting"))
      BY <1>a, <1>3, <2>1 DEF Connect
    <3>2. QED
      BY <1>c, <3>1
  <2>2. CASE services # None
    <3>1. "ConnectionError" \in Errors
      BY DEF Errors
    <3>2. Rest /\ Go(t, Frame("idle"))
      BY <1>a, <1>3, <2>2, <3>1, ReturnTyped DEF Connect
    <3>3. QED
      BY <1>c, <3>2
  <2>3. QED
    BY <2>1, <2>2
<1>4. ASSUME NEW t \in Threads, ConnectLeavesUnset(t)
      PROVE  Typed'
  <2>1. PICK e \in {NoError, "InitError"} : Return(t, "connect", e)
    BY <1>4 DEF ConnectLeavesUnset
  <2>2. e \in Errors \cup {NoError}
    BY <2>1 DEF Errors
  <2>3. Rest /\ Go(t, Frame("idle"))
    BY <1>a, <1>4, <2>1, <2>2, ReturnTyped DEF ConnectLeavesUnset
  <2>4. QED
    BY <1>c, <2>3
<1>5. ASSUME NEW t \in Threads, NEW l \in Layouts, ConnectPopulates(t, l)
      PROVE  Typed'
  <2>1. Rest /\ Go(t, Frame("idle"))
    BY <1>a, <1>5, PopulateTyped, ReturnTyped DEF ConnectPopulates
  <2>2. QED
    BY <1>c, <2>1
<1>6. ASSUME NEW t \in Threads, Disconnect(t)
      PROVE  Typed'
  <2>1. CASE services = None
    <3>1. "AttributeError" \in Errors
      BY DEF Errors
    <3>2. Rest /\ Go(t, Frame("idle"))
      BY <1>a, <1>6, <2>1, <3>1, ReturnTyped DEF Disconnect
    <3>3. QED
      BY <1>c, <3>2
  <2>2. CASE services # None
    <3>1. Rest /\ Go(t, Frame("entering"))
      BY <1>a, <1>6, <2>2 DEF Disconnect
    <3>2. QED
      BY <1>c, <3>1
  <2>3. QED
    BY <2>1, <2>2
<1>7. ASSUME NEW t \in Threads, ReadFields(t)
      PROVE  Typed'
  <2>1. /\ UNCHANGED <<built, services, gen, layout, attempted, struck, outcome>>
        /\ interrupts' = interrupts
    BY <1>7, ReadCases DEF ReadFields
  <2>2. PICK d \in Frames :
          /\ Go(t, d)
          /\ d.pc = "looping" /\ d.start = services
          /\ d.at = (IF services = None THEN NumFields + 1 ELSE 1)
          /\ d.closed = {} /\ d.tried = {} /\ d.hit = "no"
    BY <1>7, ReadCases
  <2>3. d.start \in 1..gen' \/ (d.start = None /\ d.at \notin Fields)
    BY <1>a, <2>1, <2>2 DEF Fields
  <2>4. FrameOK(d)'
    BY <2>2, <2>3 DEF FrameOK, HitOK
  <2>5. QED
    BY <1>a, <1>b, <2>1, <2>2, <2>4
<1>8. ASSUME NEW t \in Threads, Visit(t)
      PROVE  Typed'
  <2> DEFINE c == call[t]
             channel == <<services, layout[services][c.at]>>
  <2>1. /\ UNCHANGED <<built, services, gen, layout, struck, outcome>>
        /\ interrupts' = interrupts
    BY <1>8 DEF Visit
  <2>2. /\ c \in Frames /\ c.pc = "looping" /\ c.at \in Fields /\ FrameOK(c)
    BY <1>8, VisitCases DEF Typed
  <2>3. PICK d \in Frames :
          /\ Go(t, d)
          /\ d.start = c.start
          /\ HitOK(c) => HitOK(d)
          /\ \/ /\ ~HasChannel(c.at) /\ Onward(c, d)
                /\ d.closed = c.closed /\ attempted' = attempted
             \/ /\ HasChannel(c.at) /\ Onward(c, d)
                /\ channel[2] \in c.closed
                /\ d.closed = c.closed /\ attempted' = attempted
             \/ /\ HasChannel(c.at) /\ channel \in Chans
                /\ channel[2] \notin c.closed
                /\ d.pc = "closing" /\ d.at = c.at /\ d.channel = channel
                /\ d.closed = c.closed \cup {channel[2]}
                /\ d.tried = c.tried \cup {channel}
                /\ attempted' = attempted \cup {channel}
    BY <1>8, VisitCases
  <2> HIDE DEF c, channel
  <2>4. attempted' \subseteq Chans
    BY <1>a, <2>3
  <2>5. /\ d.pc \in {"looping", "closing"} /\ d.start \in 1..gen'
        /\ d.pc = "closing" => d.at \in Fields
        /\ \A ch \in d.tried : ch[2] \in d.closed
        /\ HitOK(d)
    BY <2>1, <2>2, <2>3 DEF FrameOK, Onward
  <2>6. FrameOK(d)'
    BY <2>5 DEF FrameOK, HitOK
  <2>7. QED
    BY <1>a, <1>b, <2>1, <2>3, <2>4, <2>6
<1>9. ASSUME NEW t \in Threads, CloseEnds(t) \/ (InterruptClose /\ t = Main)
      PROVE  Typed'
  <2> DEFINE c == call[t]
  <2>1. /\ c \in Frames /\ c.pc = "closing" /\ c.at \in Fields /\ FrameOK(c)
        /\ UNCHANGED <<built, services, gen, layout, attempted, struck, outcome>>
        /\ interrupts' \in 0..MaxInterrupts
    BY <1>9, CloseCases DEF Typed
  <2>2. PICK d \in Frames :
          /\ Go(t, d) /\ Onward(c, d) /\ d.closed = c.closed
          /\ HitOK(c) => HitOK(d)
    BY <1>9, CloseCases
  <2> HIDE DEF c
  <2>3. HitOK(d) /\ d.start \in 1..gen
    BY <2>1, <2>2 DEF FrameOK, Onward
  <2>4. FrameOK(d)'
    BY <2>1, <2>2, <2>3 DEF FrameOK, Onward, HitOK
  <2>5. QED
    BY <1>a, <1>b, <2>1, <2>2, <2>4
<1>10. ASSUME NEW t \in Threads, Leave(t)
       PROVE  Typed'
  <2>1. call[t].error \in Errors \cup {NoError}
    BY <1>a DEF Frames, Raisable
  <2>2. Rest /\ Go(t, Frame("idle"))
    BY <1>a, <1>10, <2>1, ReturnTyped DEF Leave, Finish
  <2>3. QED
    BY <1>c, <2>2
<1>11. CASE InterruptVisit
  <2> DEFINE c == call[Main]
  <2>1. /\ c \in Frames /\ c.pc = "looping" /\ c.at \in Fields /\ FrameOK(c)
        /\ UNCHANGED <<built, services, gen, layout, attempted, outcome>>
        /\ struck' = struck \cup {c.start}
        /\ interrupts' \in 0..MaxInterrupts
    BY <1>11, StruckVisitCases DEF Typed
  <2>2. PICK d \in Frames : /\ Go(Main, d) /\ Onward(c, d)
                            /\ c.closed \subseteq d.closed
                            /\ HitOK(c) => HitOK(d)
    BY <1>11, StruckVisitCases
  <2> HIDE DEF c
  <2>3. HitOK(d) /\ c.start \in 1..gen /\ c.start \in Gens
    BY <1>a, <2>1, <2>2 DEF FrameOK, Gens
  <2>4. FrameOK(d)'
    BY <2>1, <2>2, <2>3 DEF FrameOK, Onward, HitOK
  <2>5. QED
    BY <1>a, <1>b, <2>1, <2>2, <2>3, <2>4
<1>12. CASE InterruptLoop
  <2>1. "KeyboardInterrupt" \in Errors
    BY DEF Errors
  <2>2. {call[Main].start} \ {None} \subseteq Gens
    BY <1>a DEF Frames, Starts
  <2>3. Rest /\ Go(Main, Frame("idle"))
    BY <1>a, <1>12, <2>1, <2>2, ReturnTyped DEF InterruptLoop, Interrupt, Finish
  <2>4. QED
    BY <1>c, <2>3
<1>13. CASE InterruptEntry
  <2>1. "KeyboardInterrupt" \in Errors
    BY DEF Errors
  <2>2. Rest /\ Go(Main, Frame("idle"))
    BY <1>a, <1>13, <2>1, ReturnTyped DEF InterruptEntry, Interrupt
  <2>3. QED
    BY <1>c, <2>2
<1>14. CASE UNCHANGED vars
  <2>1. TypeOK'
    BY <1>14, <1>a, TypedCalls DEF vars, Outcomes, Gens
  <2>2. QED
    BY <1>14, <2>1 DEF Typed, vars, FrameOK, HitOK
<1>15. QED
  BY <1>1, <1>2, <1>3, <1>4, <1>5, <1>6, <1>7, <1>8, <1>9, <1>10, <1>11, <1>12,
     <1>13, <1>14 DEF Next, Interrupted

LEMMA TypedInit == Init => Typed
<1> SUFFICES ASSUME Init PROVE Typed
  OBVIOUS
<1>1. call \in [Threads -> Frames]
  BY NewFrame DEF Init, Idle
<1>2. \A t \in Threads : FrameOK(call[t])
  BY NewFrameOK DEF Init, Idle
<1>3. TypeOK
  <2>1. /\ built \in BOOLEAN /\ services \in {None} \cup Gens /\ gen \in 0..MaxGen
        /\ layout \in [Gens -> Allocs] /\ interrupts \in 0..MaxInterrupts
        /\ attempted \subseteq Chans /\ struck \subseteq Gens
    <3>1. [f \in Fields |-> NoChannel] \in Allocs
      BY DEF Allocs
    <3>2. layout \in [Gens -> Allocs]
      BY <3>1 DEF Init
    <3>3. /\ built = FALSE /\ services = None /\ gen = 0 /\ interrupts = 0
          /\ attempted = {} /\ struck = {}
      BY DEF Init
    <3>4. services \in {None} \cup Gens /\ gen \in 0..MaxGen /\ interrupts \in 0..MaxInterrupts
      BY <3>3
    <3>5. attempted \subseteq Chans /\ struck \subseteq Gens
      BY <3>3
    <3>6. built \in BOOLEAN
      BY <3>3
    <3>7. QED
      BY <3>2, <3>4, <3>5, <3>6
  <2>2. outcome \in [of : {"none", "__init__", "connect", "disconnect"},
                     raised : Errors \cup {NoError}]
    BY DEF Init
  <2>3. QED
    BY <1>1, <2>1, <2>2, TypedCalls
<1>4. QED
  BY <1>2, <1>3 DEF Typed, Init

\* Every variable keeps its type: the fields a loop is about to visit stay within
\* the dataclass, whatever threads, close() calls and interrupts do.
THEOREM TypeCorrect == Spec => []TypeOK
<1>1. Typed => TypeOK
  BY DEF Typed
<1>2. QED
  BY <1>1, TypedInit, TypedStep, PTL DEF Spec

-----------------------------------------------------------------------------
(***************************************************************************)
(* disconnect() attempts every channel.  What a thread has passed of the   *)
(* container it started on has been attempted, by itself or by another     *)
(* thread, as long as the client still holds that container; and so has    *)
(* every id the thread would skip.                                         *)
(***************************************************************************)
Passed(c) == {k \in Fields : k < c.at \/ (k = c.at /\ c.pc = "closing")}

Swept(c) ==
    c.start # None /\ services = c.start /\ c.start \notin struck =>
        /\ \A id \in c.closed : <<c.start, id>> \in attempted
        /\ \A k \in Passed(c) : layout[c.start][k] # NoChannel
                                    => <<c.start, layout[c.start][k]>> \in attempted

AllSwept == \A t \in Threads : Swept(call[t])

LEMMA SweptInit == Init => AllSwept
<1>1. Frame("idle").start = None
  BY DEF Frame
<1>2. QED
  BY <1>1 DEF Init, AllSwept, Swept, Idle

\* What every step does to the rest of the state: channels attempted and
\* containers struck stay so, and a container, once let go of, never returns.
Moves ==
    /\ attempted \subseteq attempted' /\ struck \subseteq struck'
    /\ \/ services' = services /\ layout' = layout
       \/ services' = None
       \/ services' = gen + 1

LEMMA NextMoves ==
    ASSUME Typed, [Next]_vars
    PROVE  Moves
<1>1. ASSUME NEW l \in Layouts, Populate(l)
      PROVE  services' = gen + 1
  BY <1>1 DEF Populate
<1>2. CASE (\E l \in Layouts : Construct(l)) \/ ConstructFails
  BY <1>1, <1>2 DEF Construct, ConstructFails, Moves
<1>3. ASSUME NEW t \in Threads, Connect(t) \/ ConnectLeavesUnset(t) \/ Disconnect(t)
      PROVE  Moves
  BY <1>3 DEF Connect, ConnectLeavesUnset, Disconnect, Moves
<1>4. ASSUME NEW t \in Threads, NEW l \in Layouts, ConnectPopulates(t, l)
      PROVE  Moves
  BY <1>1, <1>4 DEF ConnectPopulates, Moves
<1>5. ASSUME NEW t \in Threads, ReadFields(t) \/ CloseEnds(t) \/ Leave(t)
      PROVE  Moves
  BY <1>5 DEF ReadFields, CloseEnds, Leave, Finish, Moves
<1>6. ASSUME NEW t \in Threads, Visit(t)
      PROVE  Moves
  BY <1>6 DEF Visit, Moves
<1>7. CASE Interrupted
  BY <1>7 DEF Interrupted, InterruptClose, InterruptVisit, InterruptLoop, InterruptEntry,
              Finish, Moves
<1>8. CASE UNCHANGED vars
  BY <1>8 DEF vars, Moves
<1>9. QED
  BY <1>2, <1>3, <1>4, <1>5, <1>6, <1>7, <1>8 DEF Next

\* A frame that a step leaves alone stays swept.
LEMMA SweptStays ==
    ASSUME Typed, Moves, NEW c \in Frames, FrameOK(c), Swept(c)
    PROVE  Swept(c)'
<1> SUFFICES ASSUME c.start # None, services' = c.start, c.start \notin struck'
             PROVE  /\ \A id \in c.closed : <<c.start, id>> \in attempted'
                    /\ \A k \in Passed(c) : layout'[c.start][k] # NoChannel
                         => <<c.start, layout'[c.start][k]>> \in attempted'
  BY DEF Swept, Passed
<1>1. c.start \in 1..gen
  <2>1. CASE c.pc \in {"looping", "closing"}
    BY <2>1 DEF FrameOK
  <2>2. CASE c.pc \in {"idle", "connecting", "entering"}
    <3>1. c = Frame(c.pc)
      BY <2>2 DEF FrameOK
    <3>2. \A pc : Frame(pc).start = None
      BY DEF Frame
    <3>3. QED
      BY <3>1, <3>2, Zenon
  <2>3. QED
    BY <2>1, <2>2 DEF Frames, Pcs
<1>2. gen \in Nat
  BY DEF Typed, TypeOK
<1>3. services = c.start /\ layout' = layout
  BY <1>1, <1>2 DEF Moves
<1>4. QED
  BY <1>3 DEF Swept, Moves

\* A frame that a thread leaves for another one is the only one that changes.
LEMMA SweptGoes ==
    ASSUME Typed, AllSwept, Moves, NEW t \in Threads, NEW d, Go(t, d), Swept(d)'
    PROVE  AllSwept'
<1>1. call \in [Threads -> Frames] /\ \A u \in Threads : FrameOK(call[u])
  BY TypedCalls DEF Typed
<1>2. call'[t] = d
  BY <1>1 DEF Go
<1>3. ASSUME NEW u \in Threads \ {t}
      PROVE  Swept(call[u])'
  <2>1. PICK c \in Frames : c = call[u]
    BY <1>1
  <2>2. call'[u] = c /\ FrameOK(c) /\ Swept(c)
    BY <1>1, <2>1 DEF Go, AllSwept
  <2>3. Swept(c)'
    BY <2>2, SweptStays
  <2>4. QED
    BY <2>2, <2>3 DEF Swept, Passed
<1>4. Swept(call[t])'
  BY <1>2 DEF Swept, Passed
<1>5. QED
  BY <1>3, <1>4 DEF AllSwept

\* A thread that has no container, or has another than the client's, is swept.
LEMMA SweptAside ==
    ASSUME NEW d, d.start = None \/ services' # d.start
    PROVE  Swept(d)'
  BY DEF Swept

LEMMA SweptStep ==
    ASSUME Typed, AllSwept, [Next]_vars
    PROVE  AllSwept'
<1>a. Moves
  BY NextMoves
<1>b. ASSUME NEW t \in Threads, NEW pc, Go(t, Frame(pc))
      PROVE  AllSwept'
  <2>1. Frame(pc).start = None
    BY DEF Frame
  <2>2. PICK d : d = Frame(pc)
    OBVIOUS
  <2>3. Swept(d)'
    BY <2>1, <2>2, SweptAside
  <2>4. QED
    BY <1>a, <1>b, <2>2, <2>3, SweptGoes
<1>1. CASE (\E l \in Layouts : Construct(l)) \/ ConstructFails
  BY <1>1, <1>b DEF Construct, ConstructFails, Return, Idle
<1>2. ASSUME NEW t \in Threads, Connect(t) \/ ConnectLeavesUnset(t) \/ Disconnect(t)
      PROVE  AllSwept'
  BY <1>2, <1>b DEF Connect, ConnectLeavesUnset, Disconnect, Return, Idle
<1>3. ASSUME NEW t \in Threads, NEW l \in Layouts, ConnectPopulates(t, l)
      PROVE  AllSwept'
  BY <1>3, <1>b DEF ConnectPopulates, Return, Idle
<1>4. ASSUME NEW t \in Threads, ReadFields(t)
      PROVE  AllSwept'
  <2>1. PICK d \in Frames :
          /\ Go(t, d)
          /\ d.pc = "looping" /\ d.start = services
          /\ d.at = (IF services = None THEN NumFields + 1 ELSE 1)
          /\ d.closed = {} /\ d.tried = {} /\ d.hit = "no"
    BY <1>4, ReadCases
  <2>2. Swept(d)'
    <3>1. CASE services # None
      BY <2>1, <3>1 DEF Swept, Passed, Fields
    <3>2. CASE services = None
      BY <2>1, <3>2, SweptAside
    <3>3. QED
      BY <3>1, <3>2
  <2>3. QED
    BY <1>a, <2>1, <2>2, SweptGoes
<1>5. ASSUME NEW t \in Threads, Visit(t)
      PROVE  AllSwept'
  <2>1. UNCHANGED <<services, layout, struck>>
    BY <1>5 DEF Visit
  <2>2. PICK c \in Frames : c = call[t]
    BY <1>5, VisitCases
  <2> DEFINE channel == <<services, layout[services][c.at]>>
  <2>3. c.pc = "looping" /\ c.at \in Fields /\ Swept(c)
    BY <1>5, <2>2, VisitCases DEF AllSwept
  <2>4. PICK d \in Frames :
          /\ Go(t, d)
          /\ d.start = c.start
          /\ \/ /\ ~HasChannel(c.at) /\ Onward(c, d)
                /\ d.closed = c.closed /\ attempted' = attempted
             \/ /\ HasChannel(c.at) /\ Onward(c, d)
                /\ channel[2] \in c.closed
                /\ d.closed = c.closed /\ attempted' = attempted
             \/ /\ HasChannel(c.at) /\ channel \in Chans
                /\ channel[2] \notin c.closed
                /\ d.pc = "closing" /\ d.at = c.at
                /\ d.closed = c.closed \cup {channel[2]}
                /\ attempted' = attempted \cup {channel}
    BY <1>5, <2>2, VisitCases
  <2>5. ASSUME d.start # None, services = d.start, d.start \notin struck
        PROVE  /\ \A id \in d.closed : <<d.start, id>> \in attempted'
               /\ \A k \in Passed(d) : layout[d.start][k] # NoChannel
                    => <<d.start, layout[d.start][k]>> \in attempted'
    <3>1. /\ \A id \in c.closed : <<services, id>> \in attempted
          /\ \A k \in Passed(c) : layout[services][k] # NoChannel
               => <<services, layout[services][k]>> \in attempted
      BY <2>3, <2>4, <2>5 DEF Swept
    <3>2. Passed(c) = {k \in Fields : k < c.at}
      BY <2>3 DEF Passed
    <3>3. Passed(d) = Passed(c) \cup {c.at}
      BY <2>3, <2>4, <3>2 DEF Passed, Onward, Fields
    <3>4. layout[services][c.at] # NoChannel => channel \in attempted'
      BY <2>4, <2>5, <3>1 DEF HasChannel
    <3>5. \A id \in d.closed : <<services, id>> \in attempted'
      BY <2>4, <3>1
    <3>6. QED
      BY <2>4, <2>5, <3>1, <3>3, <3>4, <3>5
  <2>6. Swept(d)'
    BY <2>1, <2>5 DEF Swept, Passed
  <2>7. QED
    BY <1>a, <2>4, <2>6, SweptGoes
<1>6. ASSUME NEW t \in Threads, CloseEnds(t) \/ (InterruptClose /\ t = Main)
      PROVE  AllSwept'
  <2>1. UNCHANGED <<services, layout, attempted, struck>>
    BY <1>6, CloseCases
  <2>2. PICK c \in Frames : c = call[t]
    BY <1>6, CloseCases
  <2>3. c.pc = "closing" /\ c.at \in Fields /\ Swept(c)
    BY <1>6, <2>2, CloseCases DEF AllSwept
  <2>4. PICK d \in Frames : Go(t, d) /\ Onward(c, d) /\ d.closed = c.closed
    BY <1>6, <2>2, CloseCases
  <2>5. Passed(d) = Passed(c)
    BY <2>3, <2>4 DEF Passed, Onward, Fields
  <2>6. Swept(d)
    BY <2>3, <2>4, <2>5 DEF Swept, Onward
  <2>7. Swept(d)'
    BY <2>1, <2>6 DEF Swept, Passed
  <2>8. QED
    BY <1>a, <2>4, <2>7, SweptGoes
<1>7. ASSUME NEW t \in Threads, Leave(t)
      PROVE  AllSwept'
  BY <1>7, <1>b DEF Leave, Finish, Return, Idle
<1>8. CASE InterruptVisit
  <2>1. PICK c \in Frames : c = call[Main]
    BY <1>8, StruckVisitCases
  <2>2. struck' = struck \cup {c.start}
    BY <1>8, <2>1, StruckVisitCases
  <2>3. PICK d \in Frames : Go(Main, d) /\ Onward(c, d)
    BY <1>8, <2>1, StruckVisitCases
  <2>4. Swept(d)'
    BY <2>2, <2>3 DEF Swept, Onward
  <2>5. QED
    BY <1>a, <2>3, <2>4, SweptGoes
<1>9. CASE InterruptLoop \/ InterruptEntry
  BY <1>9, <1>b DEF InterruptLoop, InterruptEntry, Finish, Return, Idle
<1>10. CASE UNCHANGED vars
  BY <1>10 DEF vars, AllSwept, Swept, Passed
<1>11. QED
  BY <1>1, <1>2, <1>3, <1>4, <1>5, <1>6, <1>7, <1>8, <1>9, <1>10 DEF Next, Interrupted

-----------------------------------------------------------------------------
\* The actions of one thread.
Steps(t) ==
    \/ t = Main /\ ((\E l \in Layouts : Construct(l)) \/ ConstructFails \/ Interrupted)
    \/ Connect(t) \/ ConnectLeavesUnset(t) \/ (\E l \in Layouts : ConnectPopulates(t, l))
    \/ Disconnect(t) \/ ReadFields(t) \/ Visit(t) \/ CloseEnds(t) \/ Leave(t)

\* A step of another thread leaves a thread's frame alone.
LEMMA OneThreadSteps ==
    ASSUME Typed, Next, NEW t \in Threads, call'[t] # call[t]
    PROVE  Steps(t)
<1>a. call \in [Threads -> Frames]
  BY TypedCalls DEF Typed
<1>b. ASSUME NEW u \in Threads, NEW d, Go(u, d)
      PROVE  u = t
  BY <1>a, <1>b DEF Go
<1>1. CASE (\E l \in Layouts : Construct(l)) \/ ConstructFails
  BY <1>1, <1>b DEF Construct, ConstructFails, Return, Steps
<1>2. ASSUME NEW u \in Threads, Connect(u) \/ ConnectLeavesUnset(u) \/ Disconnect(u)
      PROVE  Steps(t)
  <2>1. \E d : Go(u, d)
    BY <1>2 DEF Connect, ConnectLeavesUnset, Disconnect, Return
  <2>2. u = t
    BY <1>b, <2>1
  <2>3. QED
    BY <1>2, <2>2 DEF Steps
<1>3. ASSUME NEW u \in Threads, NEW l \in Layouts, ConnectPopulates(u, l)
      PROVE  Steps(t)
  <2>1. u = t
    BY <1>3, <1>b DEF ConnectPopulates, Return
  <2>2. QED
    BY <1>3, <2>1 DEF Steps
<1>4. ASSUME NEW u \in Threads, ReadFields(u) \/ CloseEnds(u) \/ Leave(u)
      PROVE  Steps(t)
  <2>1. \E d : Go(u, d)
    BY <1>4 DEF ReadFields, CloseEnds, Leave, Finish, Return
  <2>2. u = t
    BY <1>b, <2>1
  <2>3. QED
    BY <1>4, <2>2 DEF Steps
<1>5. ASSUME NEW u \in Threads, Visit(u)
      PROVE  Steps(t)
  <2>1. u = t
    BY <1>5, <1>b, VisitCases
  <2>2. QED
    BY <1>5, <2>1 DEF Steps
<1>6. CASE Interrupted
  <2>1. \E d : Go(Main, d)
    BY <1>6 DEF Interrupted, InterruptClose, InterruptVisit, InterruptLoop, InterruptEntry,
                Finish, Return
  <2>2. Main = t
    BY <1>b, <2>1
  <2>3. QED
    BY <1>6, <2>2 DEF Steps
<1>7. QED
  BY <1>1, <1>2, <1>3, <1>4, <1>5, <1>6 DEF Next

\* Nobody uses a client that is still in `__init__`.
Unused == ~built => services = None /\ \A t \in Threads : At(t, "idle")

LEMMA UnusedInit == Init => Unused
<1>1. Frame("idle").pc = "idle"
  BY DEF Frame
<1>2. QED
  BY <1>1 DEF Init, Unused, At, Idle

LEMMA UnusedStep ==
    ASSUME Typed, Unused, [Next]_vars
    PROVE  Unused'
<1>a. call \in [Threads -> Frames]
  BY TypedCalls DEF Typed
<1>1. CASE \E l \in Layouts : Construct(l)
  BY <1>1 DEF Construct, Unused
<1>2. CASE ConstructFails
  <2>1. PICK e \in {"ValueError", "InitError"} : Return(Main, "__init__", e)
    BY <1>2 DEF ConstructFails
  <2>2. Frame("idle").pc = "idle"
    BY DEF Frame
  <2>3. \A u \in Threads : At(u, "idle") => At(u, "idle")'
    BY <1>a, <2>1, <2>2 DEF Return, Go, At, Idle
  <2>4. UNCHANGED <<built, services>>
    BY <1>2 DEF ConstructFails
  <2>5. QED
    BY <2>3, <2>4 DEF Unused
<1>3. ASSUME NEW t \in Threads,
             \/ Connect(t) \/ ConnectLeavesUnset(t)
             \/ \E l \in Layouts : ConnectPopulates(t, l)
             \/ Disconnect(t) \/ ReadFields(t) \/ CloseEnds(t) \/ Leave(t)
      PROVE  Unused'
  <2>1. built
    BY <1>3 DEF Connect, ConnectLeavesUnset, ConnectPopulates, Disconnect, ReadFields,
                CloseEnds, Leave, MayConnect, MayDisconnect, At, Unused
  <2>2. built' = built
    BY <1>3 DEF Connect, ConnectLeavesUnset, ConnectPopulates, Disconnect, ReadFields,
                CloseEnds, Leave, Finish
  <2>3. QED
    BY <2>1, <2>2 DEF Unused
<1>4. ASSUME NEW t \in Threads, Visit(t)
      PROVE  Unused'
  <2>1. built /\ built' = built
    BY <1>4 DEF Visit, At, Unused
  <2>2. QED
    BY <2>1 DEF Unused
<1>5. CASE Interrupted
  <2>1. built /\ built' = built
    BY <1>5 DEF Interrupted, InterruptClose, InterruptVisit, InterruptLoop, InterruptEntry,
                Finish, At, Unused
  <2>2. QED
    BY <2>1 DEF Unused
<1>6. CASE UNCHANGED vars
  BY <1>6 DEF vars, Unused, At
<1>7. QED
  BY <1>1, <1>2, <1>3, <1>4, <1>5, <1>6 DEF Next

\* The three ways a disconnect ends.
LEMMA DisconnectEnding ==
    ASSUME Typed, Unused, Next, NEW t \in Threads, Disconnecting(t), At(t, "idle")'
    PROVE  \/ Leave(t)
           \/ t = Main /\ (InterruptLoop \/ InterruptEntry)
<1>a. call \in [Threads -> Frames]
  BY TypedCalls DEF Typed
<1>b. Steps(t)
  <2>1. call'[t] # call[t]
    BY DEF Disconnecting, At
  <2>2. QED
    BY <2>1, OneThreadSteps
<1>c. ASSUME NEW d, Go(t, d)
      PROVE  d.pc = "idle"
  BY <1>a, <1>c DEF Go, At
<1>1. ~((\E l \in Layouts : Construct(l)) \/ ConstructFails)
  BY DEF Construct, ConstructFails, Unused, Disconnecting, At
<1>2. ~(\/ Connect(t) \/ ConnectLeavesUnset(t) \/ Disconnect(t)
        \/ \E l \in Layouts : ConnectPopulates(t, l))
  BY DEF Connect, ConnectLeavesUnset, Disconnect, ConnectPopulates, MayConnect,
         MayDisconnect, Disconnecting, At
<1>3. ASSUME ReadFields(t)
      PROVE  FALSE
  BY <1>3, <1>c, ReadCases
<1>4. ASSUME Visit(t)
      PROVE  FALSE
  <2>1. PICK d \in Frames : Go(t, d) /\ (Onward(call[t], d) \/ d.pc = "closing")
    BY <1>4, VisitCases
  <2>2. QED
    BY <1>c, <2>1 DEF Onward
<1>5. ASSUME CloseEnds(t) \/ (InterruptClose /\ t = Main)
      PROVE  FALSE
  <2>1. PICK d \in Frames : Go(t, d) /\ Onward(call[t], d)
    BY <1>5, CloseCases
  <2>2. QED
    BY <1>c, <2>1 DEF Onward
<1>6. ASSUME t = Main, InterruptVisit
      PROVE  FALSE
  <2>1. PICK d \in Frames : Go(Main, d) /\ Onward(call[Main], d)
    BY <1>6, StruckVisitCases
  <2>2. QED
    BY <1>6, <1>c, <2>1 DEF Onward
<1>7. QED
  BY <1>b, <1>1, <1>2, <1>3, <1>4, <1>5, <1>6 DEF Steps, Interrupted

\* A thread past its reading of the fields is in the loop.
LEMMA StartedLooping ==
    ASSUME Typed, NEW t \in Threads, call[t].start # None
    PROVE  /\ call[t].pc \in {"looping", "closing"}
           /\ call[t].start \in 1..gen
<1>1. call[t].pc \in Pcs
  BY TypedCalls DEF Typed, Frames
<1>2. call[t].pc \in {"looping", "closing"}
  BY <1>1, Outside DEF Pcs
<1>3. QED
  BY <1>2 DEF Typed, FrameOK

\* A sweep that has passed every field has attempted every channel.
LEMMA SweptAll ==
    ASSUME Typed, AllSwept, NEW t \in Threads, call[t].start # None,
           services = call[t].start, services \notin struck, call[t].at > NumFields
    PROVE  ChannelsOf(services) \subseteq attempted
<1>1. PICK c \in Frames : c = call[t]
  BY TypedCalls DEF Typed
<1>2. Fields \subseteq Passed(c)
  BY <1>1 DEF Passed, Fields, Frames, Places
<1>3. Swept(c)
  BY <1>1 DEF AllSwept
<1>4. QED
  BY <1>1, <1>2, <1>3 DEF ChannelsOf, Swept

\* A thread that clears the container it started on has had close() called on
\* every channel of it, whatever the other threads did meanwhile: entered and
\* left disconnect(), cleared the container, or connected anew.
THEOREM EveryChannelAttempted == Spec => OwnDisconnectReleasesAll
<1>1. Typed /\ AllSwept /\ Unused /\ [Next]_vars
        => [\A t \in Threads : Finishes(t) /\ services = call[t].start
              => ChannelsOf(services) \subseteq attempted' \/ services \in struck']_vars
  <2> SUFFICES ASSUME Typed, AllSwept, Unused, Next, NEW t \in Threads,
                      Finishes(t), services = call[t].start
               PROVE  ChannelsOf(services) \subseteq attempted' \/ services \in struck'
    OBVIOUS
  <2>1. call[t].start # None /\ call[t].pc \in {"looping", "closing"} /\ At(t, "idle")'
    BY StartedLooping DEF Finishes
  <2>2. Leave(t) \/ (t = Main /\ InterruptLoop)
    BY <2>1, DisconnectEnding DEF Disconnecting, InterruptEntry, At
  <2>3. CASE Leave(t)
    <3>1. call[t].at > NumFields /\ attempted' = attempted /\ struck' = struck
      BY <2>3 DEF Leave, Finish
    <3>2. QED
      BY <2>1, <3>1, SweptAll
  <2>4. CASE t = Main /\ InterruptLoop
    BY <2>1, <2>4 DEF InterruptLoop
  <2>5. QED
    BY <2>2, <2>3, <2>4
<1>2. QED
  BY <1>1, TypedInit, TypedStep, SweptInit, SweptStep, UnusedInit, UnusedStep,
     PTL DEF Spec, OwnDisconnectReleasesAll

\* One disconnect never calls close() twice on a channel, however many fields
\* share it and whatever the other threads do to the client.
THEOREM ClosesEachOnce == Spec => SharedClosedOnce
<1>1. Typed /\ [Next]_vars
        => [\A t \in Threads : At(t, "looping") /\ At(t, "closing")'
              => call'[t].channel \notin call[t].tried]_vars
  <2> SUFFICES ASSUME Typed, Next, NEW t \in Threads, At(t, "looping"), At(t, "closing")'
               PROVE  call'[t].channel \notin call[t].tried
    OBVIOUS
  <2>a. call \in [Threads -> Frames]
    BY TypedCalls DEF Typed
  <2>b. Steps(t)
    BY OneThreadSteps DEF At
  <2>c. ASSUME NEW d, Go(t, d)
        PROVE  d.pc = "closing" /\ call'[t] = d
    BY <2>a, <2>c DEF Go, At
  <2>1. ~ \E pc \in {"idle", "connecting", "entering"} : Go(t, Frame(pc))
    BY <2>c DEF Frame
  <2>2. Visit(t)
    <3>1. ~(CloseEnds(t) \/ ReadFields(t) \/ (InterruptClose /\ t = Main))
      BY DEF CloseEnds, ReadFields, InterruptClose, At
    <3>2. ASSUME t = Main, InterruptVisit
          PROVE  FALSE
      BY <2>c, <3>2, StruckVisitCases DEF Onward
    <3>3. ~(\/ Connect(t) \/ ConnectLeavesUnset(t) \/ Disconnect(t) \/ Leave(t)
            \/ \E l \in Layouts : ConnectPopulates(t, l))
      BY <2>1 DEF Connect, ConnectLeavesUnset, Disconnect, Leave, Finish, ConnectPopulates,
                  Return, Idle
    <3>4. ~(t = Main /\ (\/ (\E l \in Layouts : Construct(l)) \/ ConstructFails
                         \/ InterruptLoop \/ InterruptEntry))
      BY <2>1 DEF Construct, ConstructFails, InterruptLoop, InterruptEntry, Finish,
                  Return, Idle
    <3>5. QED
      BY <2>b, <3>1, <3>2, <3>3, <3>4 DEF Steps, Interrupted
  <2>3. PICK d \in Frames :
          /\ Go(t, d)
          /\ \/ Onward(call[t], d)
             \/ d.channel[2] \notin call[t].closed
    BY <2>2, VisitCases
  <2>4. call'[t].channel[2] \notin call[t].closed
    BY <2>c, <2>3 DEF Onward
  <2>5. QED
    BY <2>4 DEF Typed, FrameOK
<1>2. QED
  BY <1>1, TypedInit, TypedStep, PTL DEF Spec, SharedClosedOnce

\* An interrupt that the loop of a disconnect caught before anything else went wrong
\* is what disconnect() raises, whatever errors and interrupts come after it; one
\* that comes later never lets it return normally.
THEOREM FirstInterruptComesOut == Spec => FirstInterruptReRaised
<1>1. Typed /\ Unused /\ [Next]_vars
        => [\A t \in Threads : Disconnecting(t) /\ At(t, "idle")'
              => /\ call[t].hit = "first" => outcome'.raised = "KeyboardInterrupt"
                 /\ call[t].hit = "late"  => outcome'.raised # NoError]_vars
  <2> SUFFICES ASSUME Typed, Unused, Next, NEW t \in Threads,
                      Disconnecting(t), At(t, "idle")'
               PROVE  /\ call[t].hit = "first" => outcome'.raised = "KeyboardInterrupt"
                      /\ call[t].hit = "late"  => outcome'.raised # NoError
    OBVIOUS
  <2>1. HitOK(call[t])
    BY DEF Typed, FrameOK
  <2>2. "KeyboardInterrupt" # NoError
    BY DEF NoError
  <2>3. ASSUME NEW e, Return(t, "disconnect", e)
        PROVE  outcome'.raised = e
    BY <2>3 DEF Return
  <2>4. CASE Leave(t)
    <3>1. outcome'.raised = call[t].error
      BY <2>3, <2>4 DEF Leave, Finish
    <3>2. QED
      BY <2>1, <3>1 DEF HitOK
  <2>5. CASE t = Main /\ (InterruptLoop \/ InterruptEntry)
    <3>1. outcome'.raised = "KeyboardInterrupt"
      BY <2>3, <2>5 DEF InterruptLoop, InterruptEntry, Finish
    <3>2. QED
      BY <2>2, <3>1
  <2>6. QED
    BY <2>4, <2>5, DisconnectEnding
<1>2. QED
  BY <1>1, TypedInit, TypedStep, UnusedInit, UnusedStep, PTL DEF Spec, FirstInterruptReRaised

-----------------------------------------------------------------------------
(***************************************************************************)
(* Careful callers: connect() overlaps no other call.  A connect past its  *)
(* check is then alone, and still finds no container; a loop runs over the *)
(* client's container or over one another disconnect has cleared.          *)
(***************************************************************************)
Careful ==
    \A t \in Threads :
        /\ At(t, "connecting") =>
               services = None /\ \A u \in Threads \ {t} : At(u, "idle")
        /\ call[t].pc \in {"looping", "closing"} => services \in {None, call[t].start}

LEMMA CarefulInit == Init => Careful
<1>1. Frame("idle").pc = "idle" /\ Frame("idle").start = None
  BY DEF Frame
<1>2. QED
  BY <1>1 DEF Init, Careful, At, Idle

\* A new container takes the place of none, and no loop runs then.
LEMMA PopulatesFromNone ==
    ASSUME Typed, Unused, Careful, NEW l \in Layouts,
           Construct(l) \/ \E t \in Threads : ConnectPopulates(t, l)
    PROVE  /\ services = None
           /\ \A u \in Threads : call[u].start = None
           /\ \A u \in Threads : At(u, "idle")'
<1>a. call \in [Threads -> Frames]
  BY TypedCalls DEF Typed
<1>b. Frame("idle").pc = "idle"
  BY DEF Frame
<1>c. \A u \in Threads : At(u, "idle") \/ At(u, "connecting") => call[u].start = None
  BY Outside DEF At
<1>1. CASE Construct(l)
  <2>1. services = None /\ \A u \in Threads : At(u, "idle")
    BY <1>1 DEF Construct, Unused
  <2>2. Go(Main, Frame("idle"))
    BY <1>1 DEF Construct, Return, Idle
  <2>3. \A u \in Threads : At(u, "idle")'
    BY <1>a, <1>b, <2>1, <2>2 DEF Go, At
  <2>4. QED
    BY <1>c, <2>1, <2>3
<1>2. ASSUME NEW t \in Threads, ConnectPopulates(t, l)
      PROVE  /\ services = None
             /\ \A u \in Threads : call[u].start = None
             /\ \A u \in Threads : At(u, "idle")'
  <2>1. /\ services = None /\ At(t, "connecting")
        /\ \A u \in Threads \ {t} : At(u, "idle")
    BY <1>2 DEF ConnectPopulates, Careful
  <2>2. Go(t, Frame("idle"))
    BY <1>2 DEF ConnectPopulates, Return, Idle
  <2>3. \A u \in Threads : At(u, "idle")'
    BY <1>a, <1>b, <2>1, <2>2 DEF Go, At
  <2>4. QED
    BY <1>c, <2>1, <2>3
<1>3. QED
  BY <1>1, <1>2

\* A thread outside connect() that stays outside it, in the container it has.
LEMMA CarefulGoes ==
    ASSUME Typed, Careful, NEW t \in Threads, NEW d, Go(t, d),
           d.pc # "connecting",
           d.pc # "idle" => At(t, "entering") \/ At(t, "looping") \/ At(t, "closing"),
           services' \in {None, services},
           d.pc \in {"looping", "closing"} => services' \in {None, d.start}
    PROVE  Careful'
<1>a. call \in [Threads -> Frames]
  BY TypedCalls DEF Typed
<1>1. call'[t] = d /\ \A u \in Threads \ {t} : call'[u] = call[u]
  BY <1>a DEF Go
<1>2. ASSUME NEW u \in Threads
      PROVE  /\ At(u, "connecting")' =>
                  services' = None /\ \A v \in Threads \ {u} : At(v, "idle")'
             /\ call'[u].pc \in {"looping", "closing"} => services' \in {None, call'[u].start}
  <2>1. CASE u = t
    BY <1>1, <2>1 DEF At
  <2>2. CASE u # t
    <3>1. call'[u] = call[u]
      BY <1>1, <2>2
    <3>2. call[u].pc \in {"looping", "closing"} => services' \in {None, call[u].start}
      BY DEF Careful
    <3>3. ASSUME At(u, "connecting")
          PROVE  services' = None /\ \A v \in Threads \ {u} : At(v, "idle")'
      <4>1. services = None /\ \A v \in Threads \ {u} : At(v, "idle")
        BY <3>3 DEF Careful
      <4>2. d.pc = "idle"
        BY <2>2, <4>1 DEF At
      <4>3. QED
        BY <1>1, <4>1, <4>2 DEF At
    <3>4. QED
      BY <3>1, <3>2, <3>3 DEF At
  <2>3. QED
    BY <2>1, <2>2
<1>3. QED
  BY <1>2 DEF Careful

LEMMA CarefulStep ==
    ASSUME ~Races, Typed, Unused, Careful, [Next]_vars
    PROVE  Careful'
<1>a. call \in [Threads -> Frames]
  BY TypedCalls DEF Typed
<1>b. \A pc : Frame(pc).pc = pc /\ Frame(pc).start = None
  BY DEF Frame
<1>c. ASSUME NEW t \in Threads, Go(t, Frame("idle")), services' \in {None, services}
      PROVE  Careful'
  <2>1. PICK d : d = Frame("idle")
    OBVIOUS
  <2>2. Go(t, d) /\ d.pc = "idle" /\ d.start = None
    BY <1>b, <1>c, <2>1
  <2>3. QED
    BY <1>c, <2>2, CarefulGoes
<1>1. ASSUME NEW l \in Layouts, Construct(l) \/ \E t \in Threads : ConnectPopulates(t, l)
      PROVE  Careful'
  <2>1. /\ services = None
        /\ \A u \in Threads : call[u].start = None
        /\ \A u \in Threads : At(u, "idle")'
    BY <1>1, PopulatesFromNone
  <2>2. PICK t \in Threads : Go(t, Frame("idle"))
    BY <1>1 DEF Construct, ConnectPopulates, Return, Idle
  <2>3. \A u \in Threads : call'[u].start = None
    BY <1>a, <1>b, <2>1, <2>2 DEF Go
  <2>4. QED
    BY <2>1, <2>3 DEF Careful, At
<1>2. CASE ConstructFails
  BY <1>2, <1>c DEF ConstructFails, Return, Idle
<1>3. ASSUME NEW t \in Threads, Connect(t)
      PROVE  Careful'
  <2>1. CASE services = None
    <3>1. Go(t, Frame("connecting")) /\ services' = None
      BY <1>3, <2>1 DEF Connect
    <3>2. \A u \in Threads : At(u, "idle")
      BY <1>3 DEF Connect, MayConnect
    <3>3. call'[t] = Frame("connecting") /\ \A u \in Threads \ {t} : call'[u] = call[u]
      BY <1>a, <3>1 DEF Go
    <3>4. QED
      BY <1>b, <3>1, <3>2, <3>3 DEF Careful, At
  <2>2. CASE services # None
    BY <1>3, <1>c, <2>2 DEF Connect, Return, Idle
  <2>3. QED
    BY <2>1, <2>2
<1>4. ASSUME NEW t \in Threads, ConnectLeavesUnset(t)
      PROVE  Careful'
  BY <1>4, <1>c DEF ConnectLeavesUnset, Return, Idle
<1>5. ASSUME NEW t \in Threads, Disconnect(t)
      PROVE  Careful'
  <2>1. CASE services # None
    <3>1. Go(t, Frame("entering")) /\ services' = services
      BY <1>5, <2>1 DEF Disconnect
    <3>2. \A u \in Threads : ~At(u, "connecting")
      BY <1>5 DEF Disconnect, MayDisconnect
    <3>3. call'[t] = Frame("entering") /\ \A u \in Threads \ {t} : call'[u] = call[u]
      BY <1>a, <3>1 DEF Go
    <3>4. QED
      BY <1>b, <3>1, <3>2, <3>3 DEF Careful, At
  <2>2. CASE services = None
    BY <1>5, <1>c, <2>2 DEF Disconnect, Return, Idle
  <2>3. QED
    BY <2>1, <2>2
<1>6. ASSUME NEW t \in Threads, ReadFields(t)
      PROVE  Careful'
  <2>1. UNCHANGED services /\ At(t, "entering")
    BY <1>6 DEF ReadFields
  <2>2. PICK d \in Frames : Go(t, d) /\ d.pc = "looping" /\ d.start = services
    BY <1>6, ReadCases
  <2>3. QED
    BY <2>1, <2>2, CarefulGoes
<1>7. ASSUME NEW t \in Threads, Visit(t)
      PROVE  Careful'
  <2>1. UNCHANGED services /\ At(t, "looping")
    BY <1>7 DEF Visit
  <2>2. PICK d \in Frames :
          Go(t, d) /\ d.start = call[t].start /\ (Onward(call[t], d) \/ d.pc = "closing")
    BY <1>7, VisitCases
  <2>3. QED
    BY <2>1, <2>2, CarefulGoes DEF Onward, Careful, At
<1>8. ASSUME NEW t \in Threads, CloseEnds(t) \/ (InterruptClose /\ t = Main)
      PROVE  Careful'
  <2>1. UNCHANGED services /\ At(t, "closing")
    BY <1>8 DEF CloseEnds, InterruptClose
  <2>2. PICK d \in Frames : Go(t, d) /\ Onward(call[t], d)
    BY <1>8, CloseCases
  <2>3. QED
    BY <2>1, <2>2, CarefulGoes DEF Onward, Careful, At
<1>9. ASSUME NEW t \in Threads, Leave(t)
      PROVE  Careful'
  BY <1>9, <1>c DEF Leave, Finish, Return, Idle
<1>10. CASE InterruptVisit
  <2>1. UNCHANGED services /\ At(Main, "looping")
    BY <1>10 DEF InterruptVisit
  <2>2. PICK d \in Frames : Go(Main, d) /\ Onward(call[Main], d)
    BY <1>10, StruckVisitCases
  <2>3. QED
    BY <2>1, <2>2, CarefulGoes DEF Onward, Careful, At
<1>11. CASE InterruptLoop \/ InterruptEntry
  BY <1>11, <1>c DEF InterruptLoop, InterruptEntry, Finish, Return, Idle
<1>12. CASE UNCHANGED vars
  BY <1>12 DEF vars, Careful, At
<1>13. QED
  BY <1>1, <1>2, <1>3, <1>4, <1>5, <1>6, <1>7, <1>8, <1>9, <1>10, <1>11, <1>12
     DEF Next, Interrupted

\* A disconnect lets go of a container only when it has attempted every channel of
\* it, or an interrupt has struck.
LEMMA LetsGo ==
    ASSUME Typed, AllSwept, Careful, services # None, NEW t \in Threads,
           Leave(t) \/ (t = Main /\ InterruptLoop)
    PROVE  ChannelsOf(services) \subseteq attempted \/ services \in struck'
<1>1. At(t, "looping") /\ call[t].start = services
  <2>1. At(t, "looping")
    BY DEF Leave, InterruptLoop
  <2>2. QED
    BY <2>1 DEF At, Careful
<1>2. CASE Leave(t)
  BY <1>1, <1>2, SweptAll DEF Leave
<1>3. CASE t = Main /\ InterruptLoop
  BY <1>1, <1>3 DEF InterruptLoop
<1>4. QED
  BY <1>2, <1>3

LEMMA LostInit == Init => LostOnlyByInterrupt
  BY DEF Init, LostOnlyByInterrupt

LEMMA LostStep ==
    ASSUME ~Races, Typed, Unused, AllSwept, Careful, LostOnlyByInterrupt, [Next]_vars
    PROVE  LostOnlyByInterrupt'
<1>a. gen \in Nat /\ attempted \subseteq attempted' /\ struck \subseteq struck'
  BY NextMoves DEF Typed, TypeOK, Moves
<1>b. ASSUME UNCHANGED <<gen, layout>>,
             \/ services' = services
             \/ services' = None /\ (services # None => \/ ChannelsOf(services) \subseteq attempted
                                                        \/ services \in struck')
      PROVE  LostOnlyByInterrupt'
  BY <1>a, <1>b DEF LostOnlyByInterrupt, ChannelsOf
<1>1. ASSUME NEW l \in Layouts, Construct(l) \/ \E t \in Threads : ConnectPopulates(t, l)
      PROVE  LostOnlyByInterrupt'
  <2>1. Populate(l)
    BY <1>1 DEF Construct, ConnectPopulates
  <2>2. /\ gen' = gen + 1 /\ services' = gen'
        /\ \A g \in Gens \ {gen'} : layout'[g] = layout[g]
    BY <2>1, PopulateTyped
  <2>3. services = None
    BY <1>1, PopulatesFromNone
  <2>4. ASSUME NEW g \in 1..gen', g # services'
        PROVE  ChannelsOf(g)' \subseteq attempted' \/ g \in struck'
    <3>1. g \in 1..gen /\ g \in Gens \ {gen'}
      BY <1>a, <2>2, <2>4, PopulateTyped, <2>1 DEF Gens
    <3>2. ChannelsOf(g) \subseteq attempted \/ g \in struck
      BY <2>3, <3>1 DEF LostOnlyByInterrupt
    <3>3. layout'[g] = layout[g]
      BY <2>2, <3>1
    <3>4. QED
      BY <1>a, <3>2, <3>3 DEF ChannelsOf
  <2>5. QED
    BY <2>4 DEF LostOnlyByInterrupt
<1>2. ASSUME NEW t \in Threads, Connect(t) \/ ConnectLeavesUnset(t) \/ Disconnect(t)
      PROVE  LostOnlyByInterrupt'
  BY <1>2, <1>b DEF Connect, ConnectLeavesUnset, Disconnect
<1>3. ASSUME NEW t \in Threads, ReadFields(t) \/ Leave(t)
      PROVE  LostOnlyByInterrupt'
  BY <1>3, <1>b, LetsGo DEF ReadFields, Leave, Finish
<1>4. ASSUME NEW t \in Threads, Visit(t)
      PROVE  LostOnlyByInterrupt'
  BY <1>4, <1>b DEF Visit
<1>5. ASSUME NEW t \in Threads, CloseEnds(t)
      PROVE  LostOnlyByInterrupt'
  BY <1>5, <1>b DEF CloseEnds
<1>6. CASE InterruptClose \/ InterruptVisit \/ InterruptEntry \/ ConstructFails
  BY <1>6, <1>b DEF InterruptClose, InterruptVisit, InterruptEntry, ConstructFails
<1>7. CASE InterruptLoop
  BY <1>7, <1>b, LetsGo DEF InterruptLoop, Finish
<1>8. CASE UNCHANGED vars
  BY <1>8 DEF vars, LostOnlyByInterrupt, ChannelsOf
<1>9. QED
  BY <1>1, <1>2, <1>3, <1>4, <1>5, <1>6, <1>7, <1>8 DEF Next, Interrupted

\* If callers keep connect() apart from other calls, every channel of a container
\* the client has let go of has been attempted, however many disconnects raced
\* each other, unless an interrupt struck outside a close().
THEOREM NothingElseLost ==
    ASSUME ~Races
    PROVE  Spec => []LostOnlyByInterrupt
<1>1. Init => Typed /\ Unused /\ AllSwept /\ Careful /\ LostOnlyByInterrupt
  BY TypedInit, UnusedInit, SweptInit, CarefulInit, LostInit
<1>2. /\ Typed /\ Unused /\ AllSwept /\ Careful /\ LostOnlyByInterrupt
      /\ [Next]_vars
      => (Typed /\ Unused /\ AllSwept /\ Careful /\ LostOnlyByInterrupt)'
  BY TypedStep, UnusedStep, SweptStep, CarefulStep, LostStep
<1>3. QED
  BY <1>1, <1>2, PTL DEF Spec

-----------------------------------------------------------------------------
(***************************************************************************)
(* The client implements Connection: every step maps to a step of it or    *)
(* leaves the connection as it is.                                         *)
(***************************************************************************)
OpenChannels == IF services = None \/ services \in struck THEN {}
        ELSE ChannelsOf(services) \ attempted

LEMMA ConnectionStep ==
    ASSUME ~Races, Typed, Typed', Unused, AllSwept, Careful, [Next]_vars
    PROVE  \* Open
           \/ /\ services = None /\ services' # None /\ OpenChannels' \in SUBSET Chans
              /\ UNCHANGED interrupts
           \* Release
           \/ /\ \E ch \in Chans : ch \in OpenChannels /\ OpenChannels' = OpenChannels \ {ch}
              /\ UNCHANGED <<services, interrupts>>
           \* Clear
           \/ /\ services # None /\ OpenChannels = {} /\ OpenChannels' = {} /\ services' = None
              /\ UNCHANGED interrupts
           \* Interrupt
           \/ /\ interrupts' = interrupts + 1 /\ OpenChannels' \in {OpenChannels, {}}
              /\ \/ UNCHANGED services
                 \/ services' = None /\ OpenChannels' = {}
           \* stuttering
           \/ OpenChannels' = OpenChannels /\ UNCHANGED <<services, interrupts>>
<1>1. ASSUME NEW l \in Layouts, Construct(l) \/ \E t \in Threads : ConnectPopulates(t, l)
      PROVE  /\ services = None /\ services' # None /\ OpenChannels' \in SUBSET Chans
             /\ UNCHANGED interrupts
  <2>1. Populate(l) /\ UNCHANGED interrupts
    BY <1>1 DEF Construct, ConnectPopulates
  <2>2. services' # None
    BY <2>1, PopulateTyped
  <2>3. OpenChannels' \in SUBSET Chans
    <3>1. ASSUME services' # None
          PROVE  ChannelsOf(services)' \subseteq Chans
      <4>1. services' \in Gens /\ layout'[services'] \in Allocs
        BY <3>1 DEF Typed, TypeOK
      <4>2. QED
        BY <4>1 DEF ChannelsOf, Chans, Allocs
    <3>2. QED
      BY <3>1 DEF OpenChannels
  <2>4. QED
    BY <1>1, <2>1, <2>2, <2>3, PopulatesFromNone
<1>2. ASSUME UNCHANGED <<services, layout, attempted, struck>>
      PROVE  OpenChannels' = OpenChannels
  BY <1>2 DEF OpenChannels, ChannelsOf
<1>3. ASSUME NEW t \in Threads,
             \/ ConstructFails \/ Connect(t) \/ ConnectLeavesUnset(t) \/ Disconnect(t)
             \/ ReadFields(t) \/ CloseEnds(t)
      PROVE  OpenChannels' = OpenChannels /\ UNCHANGED <<services, interrupts>>
  BY <1>2, <1>3 DEF ConstructFails, Connect, ConnectLeavesUnset, Disconnect, ReadFields,
                    CloseEnds
<1>5. ASSUME NEW t \in Threads, Visit(t)
      PROVE  \/ /\ \E ch \in Chans : ch \in OpenChannels /\ OpenChannels' = OpenChannels \ {ch}
                /\ UNCHANGED <<services, interrupts>>
             \/ OpenChannels' = OpenChannels /\ UNCHANGED <<services, interrupts>>
  <2> DEFINE channel == <<services, layout[services][call[t].at]>>
  <2>1. UNCHANGED <<services, layout, struck, interrupts>>
    BY <1>5 DEF Visit
  <2>2. \/ attempted' = attempted
        \/ HasChannel(call[t].at) /\ channel \in Chans
           /\ attempted' = attempted \cup {channel}
    BY <1>5, VisitCases
  <2>3. ChannelsOf(services)' = ChannelsOf(services)
    BY <2>1 DEF ChannelsOf
  <2>4. CASE attempted' = attempted
    BY <1>2, <2>1, <2>4
  <2>5. CASE channel \in OpenChannels /\ channel \in Chans /\ attempted' = attempted \cup {channel}
    <3> HIDE DEF channel
    <3>1. OpenChannels' = OpenChannels \ {channel}
      BY <2>1, <2>3, <2>5 DEF OpenChannels
    <3>2. QED
      BY <2>1, <2>5, <3>1
  <2>6. CASE channel \notin OpenChannels /\ attempted' = attempted \cup {channel}
    <3> HIDE DEF channel
    <3>1. OpenChannels' = OpenChannels
      BY <2>1, <2>3, <2>6 DEF OpenChannels
    <3>2. QED
      BY <2>1, <3>1
  <2>7. QED
    BY <2>2, <2>4, <2>5, <2>6
<1>6. ASSUME NEW t \in Threads, Leave(t)
      PROVE  /\ OpenChannels = {} /\ OpenChannels' = {} /\ services' = None
             /\ UNCHANGED interrupts
  <2>1. services' = None /\ UNCHANGED <<interrupts, struck>>
    BY <1>6 DEF Leave, Finish
  <2>2. services # None => ChannelsOf(services) \subseteq attempted \/ services \in struck
    BY <1>6, <2>1, LetsGo
  <2>3. QED
    BY <2>1, <2>2 DEF OpenChannels
<1>7. CASE InterruptClose \/ InterruptEntry
  BY <1>2, <1>7 DEF InterruptClose, InterruptEntry, Interrupt
<1>8. CASE InterruptVisit
  <2>1. interrupts' = interrupts + 1 /\ UNCHANGED <<services, layout, attempted>>
    BY <1>8 DEF InterruptVisit, Interrupt
  <2>2. struck \subseteq struck'
    BY <1>8 DEF InterruptVisit
  <2>3. OpenChannels' \in {OpenChannels, {}}
    BY <2>1, <2>2 DEF OpenChannels, ChannelsOf
  <2>4. QED
    BY <2>1, <2>3
<1>9. CASE InterruptLoop
  BY <1>9 DEF InterruptLoop, Interrupt, Finish, OpenChannels
<1>10. CASE UNCHANGED vars
  BY <1>2, <1>10 DEF vars
<1>11. ASSUME NEW t \in Threads, Leave(t)
       PROVE  \/ /\ services # None /\ OpenChannels = {} /\ OpenChannels' = {} /\ services' = None
                 /\ UNCHANGED interrupts
              \/ OpenChannels' = OpenChannels /\ UNCHANGED <<services, interrupts>>
  BY <1>6, <1>11
<1>12. QED
  BY <1>1, <1>3, <1>5, <1>7, <1>8, <1>9, <1>10, <1>11 DEF Next, Interrupted

\* If callers keep connect() apart, the client implements Connection: channels are
\* released one by one and the container is cleared when none is left; only an
\* interrupt gives channels up, or clears it early.
THEOREM ImplementsConnection ==
    ASSUME ~Races
    PROVE  Spec => ConnSpec
<1>1. Init => Conn!Init
  BY DEF Init, Conn!Init
<1>2. Typed /\ Typed' /\ Unused /\ AllSwept /\ Careful /\ [Next]_vars
        => [Conn!Next]_Conn!vars
  <2> SUFFICES ASSUME Typed, Typed', Unused, AllSwept, Careful, [Next]_vars
               PROVE  [Conn!Next]_Conn!vars
    OBVIOUS
  <2>1. CASE /\ services = None /\ services' # None /\ OpenChannels' \in SUBSET Chans
             /\ UNCHANGED interrupts
    <3>1. Conn!Open
      BY <2>1 DEF Conn!Open, OpenChannels
    <3>2. QED
      BY <3>1 DEF Conn!Next
  <2>2. ASSUME NEW ch \in Chans, ch \in OpenChannels, OpenChannels' = OpenChannels \ {ch},
               UNCHANGED <<services, interrupts>>
        PROVE  [Conn!Next]_Conn!vars
    <3>1. Conn!Release(ch)
      BY <2>2 DEF Conn!Release, OpenChannels
    <3>2. QED
      BY <3>1 DEF Conn!Next
  <2>3. CASE /\ services # None /\ OpenChannels = {} /\ OpenChannels' = {} /\ services' = None
             /\ UNCHANGED interrupts
    <3>1. Conn!Clear
      BY <2>3 DEF Conn!Clear, OpenChannels
    <3>2. QED
      BY <3>1 DEF Conn!Next
  <2>4. CASE /\ interrupts' = interrupts + 1 /\ OpenChannels' \in {OpenChannels, {}}
             /\ \/ UNCHANGED services
                \/ services' = None /\ OpenChannels' = {}
    <3>1. Conn!Interrupt
      BY <2>4 DEF Conn!Interrupt, OpenChannels
    <3>2. QED
      BY <3>1 DEF Conn!Next
  <2>5. CASE OpenChannels' = OpenChannels /\ UNCHANGED <<services, interrupts>>
    BY <2>5 DEF Conn!vars, OpenChannels
  <2>6. QED
    BY <2>1, <2>2, <2>3, <2>4, <2>5, ConnectionStep
<1>3. Spec => [](Typed /\ Unused /\ AllSwept /\ Careful)
  <2>1. Init => Typed /\ Unused /\ AllSwept /\ Careful
    BY TypedInit, UnusedInit, SweptInit, CarefulInit
  <2>2. Typed /\ Unused /\ AllSwept /\ Careful /\ [Next]_vars
          => (Typed /\ Unused /\ AllSwept /\ Careful)'
    BY TypedStep, UnusedStep, SweptStep, CarefulStep
  <2>3. QED
    BY <2>1, <2>2, PTL DEF Spec
<1>4. QED
  BY <1>1, <1>2, <1>3, PTL DEF Spec, ConnSpec, Conn!Spec
==============================================================================
