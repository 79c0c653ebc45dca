------------------------ MODULE Supervision_proofs ------------------------
(***************************************************************************)
(* Proofs about Supervision, for every set of radios, every assignment of  *)
(* adapter classes to them and every capacity of the event queue.          *)
(***************************************************************************)
EXTENDS Supervision, TLAPS

Event == Radios \cup {Traffic}

\* What every operation on the event queue guarantees: no event is removed and
\* a drop is never forgotten.
Grows(p, q) == /\ q \in Pipe
               /\ p.dropped => q.dropped
               /\ \A e \in Event : Contains(p, e) => Contains(q, e)

\* Emitting keeps the queue within its capacity, and the event is in it
\* afterwards unless it was dropped.
LEMMA EmitGrows ==
  ASSUME NEW p \in Pipe, NEW e \in Event
  PROVE  Grows(p, Emit(p, e)) /\ (Emit(p, e).dropped \/ Contains(Emit(p, e), e))
<1>1. CASE Len(p.queue) < QueueMax
  <2> DEFINE q == [p EXCEPT !.queue = Append(@, e)]
  <2>1. Emit(p, e) = q
    BY <1>1 DEF Emit
  <2>2. /\ q \in [queue : Seq(Event), dropped : BOOLEAN]
        /\ q.queue = Append(p.queue, e) /\ q.dropped = p.dropped
        /\ Len(q.queue) = Len(p.queue) + 1
    BY DEF Pipe, Event
  <2>3. q \in Pipe
    BY <1>1, <2>2, BoundsAssumption DEF Pipe, Event
  <2>4. \A x \in Event : Contains(p, x) => Contains(q, x)
    BY <2>2 DEF Contains, Pipe, Event
  <2>5. Contains(q, e)
    <3>1. Len(p.queue) + 1 \in DOMAIN q.queue /\ q.queue[Len(p.queue) + 1] = e
      BY <2>2 DEF Pipe, Event
    <3>2. QED BY <3>1 DEF Contains
  <2>6. QED BY <2>1, <2>2, <2>3, <2>4, <2>5 DEF Grows
<1>2. CASE ~(Len(p.queue) < QueueMax)
  <2>1. Emit(p, e) = [p EXCEPT !.dropped = TRUE]
    BY <1>2 DEF Emit
  <2>2. QED BY <2>1 DEF Grows, Pipe, Contains
<1>3. QED BY <1>1, <1>2

LEMMA GrowsTransitive ==
  ASSUME NEW p \in Pipe, NEW q, NEW r, Grows(p, q), Grows(q, r)
  PROVE  Grows(p, r)
BY DEF Grows

\* set_state leaves an event for the radio behind whenever it changes the link.
LEMMA SetStateGrows ==
  ASSUME NEW p \in Pipe, NEW a \in Radios, NEW old, NEW new
  PROVE  /\ Grows(p, SetState(p, a, old, new))
         /\ old # new => \/ SetState(p, a, old, new).dropped
                         \/ Contains(SetState(p, a, old, new), a)
<1>1. a \in Event
  BY DEF Event
<1>2. CASE old = new
  BY <1>2 DEF SetState, Grows
<1>3. CASE old # new
  BY <1>1, <1>3, EmitGrows DEF SetState
<1>4. QED BY <1>2, <1>3

\* A burst of traffic drops what does not fit and keeps what was there.
LEMMA BurstGrows ==
  ASSUME NEW p \in Pipe, NEW n \in Nat
  PROVE  Grows(p, Burst(p, n))
<1> DEFINE room == QueueMax - Len(p.queue)
           fit  == IF n < room THEN n ELSE room
           more == [i \in 1..fit |-> Traffic]
<1>1. Len(p.queue) \in Nat /\ Len(p.queue) <= QueueMax /\ p.queue \in Seq(Event)
  BY DEF Pipe, Event
<1>2. fit \in Nat /\ Len(p.queue) + fit <= QueueMax
  <2>1. QueueMax \in Nat /\ room \in Nat
    BY <1>1, BoundsAssumption
  <2>2. CASE n < room
    BY <1>1, <2>1, <2>2
  <2>3. CASE ~(n < room)
    BY <1>1, <2>1, <2>3
  <2>4. QED BY <2>2, <2>3
<1>3. more \in Seq(Event) /\ Len(more) = fit
  BY <1>2 DEF Event
<1>4. /\ p.queue \o more \in Seq(Event)
      /\ Len(p.queue \o more) = Len(p.queue) + fit
      /\ \A i \in 1..Len(p.queue) : (p.queue \o more)[i] = p.queue[i]
  BY <1>1, <1>2, <1>3
<1>5. Burst(p, n) = [queue |-> p.queue \o more, dropped |-> IF fit < n THEN TRUE ELSE p.dropped]
  BY DEF Burst
<1> HIDE DEF room, fit, more
<1>6. /\ Burst(p, n).queue = p.queue \o more
      /\ Burst(p, n).dropped \in BOOLEAN
      /\ p.dropped => Burst(p, n).dropped
  <2>1. p.dropped \in BOOLEAN
    BY DEF Pipe
  <2>2. CASE fit < n
    BY <1>5, <2>2
  <2>3. CASE ~(fit < n)
    BY <1>5, <2>1, <2>3
  <2>4. QED BY <2>2, <2>3
<1>7. Burst(p, n) \in Pipe
  <2>1. Burst(p, n) \in [queue : Seq(Event), dropped : BOOLEAN]
    BY <1>4, <1>5, <1>6
  <2>2. Len(Burst(p, n).queue) <= QueueMax
    BY <1>2, <1>4, <1>6
  <2>3. QED BY <2>1, <2>2 DEF Pipe, Event
<1>8. \A e \in Event : Contains(p, e) => Contains(Burst(p, n), e)
  <2> SUFFICES ASSUME NEW e \in Event, NEW i \in 1..Len(p.queue), p.queue[i] = e
               PROVE  Contains(Burst(p, n), e)
    BY <1>1 DEF Contains
  <2>1. i \in 1..Len(p.queue \o more) /\ (p.queue \o more)[i] = e
    BY <1>1, <1>2, <1>4
  <2>2. DOMAIN (p.queue \o more) = 1..Len(p.queue \o more)
    BY <1>4
  <2>3. i \in DOMAIN Burst(p, n).queue /\ Burst(p, n).queue[i] = e
    BY <1>6, <2>1, <2>2
  <2>4. QED BY <2>3 DEF Contains
<1>9. QED BY <1>6, <1>7, <1>8 DEF Grows

\* Hearing the mesh puts a burst of traffic in the queue and does nothing else.
LEMMA HearsEffect ==
  ASSUME NEW a \in Radios, Hears(a)
  PROVE  /\ \E n \in 1..SeedMax : pipe' = Burst(pipe, n)
         /\ UNCHANGED <<supervisor, device, link, down, posted, lost, busy, stopping, shut,
                        running>>
         /\ pc' = pc
BY DEF Hears, PacketHeard, EventHeard, Chatter, Heard, supervisor

\* Named link statuses are link statuses; which of them count as down.
LEMMA LinkValues ==
  /\ Connecting \in LinkStatus /\ Up \in LinkStatus /\ Reported \in LinkStatus
  /\ Lost \in LinkStatus /\ Stopped \in LinkStatus /\ Error \in LinkStatus
  /\ Simulated \in LinkStatus /\ Unopened \in LinkStatus
BY DEF LinkStatus

LEMMA LinkDown ==
  /\ IsDown(Lost) /\ IsDown(Stopped) /\ IsDown(Error)
  /\ ~IsDown(Connecting) /\ ~IsDown(Up) /\ ~IsDown(Reported)
  /\ ~IsDown(Simulated) /\ ~IsDown(Unopened)
BY DEF IsDown, Lost, Stopped, Error, Connecting, Up, Reported, Simulated, Unopened

\* Taking the head of the queue removes that event only.
LEMMA TailShrinks ==
  ASSUME NEW p \in Pipe, p.queue # <<>>
  PROVE  /\ [p EXCEPT !.queue = Tail(@)] \in Pipe
         /\ Head(p.queue) \in Event
         /\ \A e \in Event : Contains(p, e) /\ e # Head(p.queue)
                               => Contains([p EXCEPT !.queue = Tail(@)], e)
<1> DEFINE q == [p EXCEPT !.queue = Tail(@)]
<1>1. /\ p.queue \in Seq(Event) /\ Len(p.queue) \in Nat /\ Len(p.queue) <= QueueMax
      /\ p.queue = <<>> <=> Len(p.queue) = 0
  BY DEF Pipe, Event
<1>2. /\ q.queue = Tail(p.queue) /\ q \in [queue : Seq(Event), dropped : BOOLEAN]
      /\ Len(q.queue) = Len(p.queue) - 1
  BY <1>1 DEF Pipe, Event
<1>3. q \in Pipe
  BY <1>1, <1>2, BoundsAssumption DEF Pipe, Event
<1>4. Head(p.queue) \in Event
  BY <1>1
<1>5. ASSUME NEW e \in Event, Contains(p, e), e # Head(p.queue)
      PROVE  Contains(q, e)
  <2>1. PICK i \in 1..Len(p.queue) : p.queue[i] = e
    BY <1>1, <1>5 DEF Contains
  <2>2. i # 1 /\ i - 1 \in 1..Len(q.queue)
    BY <1>1, <1>2, <1>5, <2>1
  <2>3. q.queue[i - 1] = e
    BY <1>1, <1>2, <2>1, <2>2
  <2>4. QED BY <1>2, <2>2, <2>3 DEF Contains
<1>6. QED BY <1>3, <1>4, <1>5

-----------------------------------------------------------------------------
\* What each kind of step does to the event queue: the supervisors, the
\* announcements, the environment and the stopping of an adapter only add to it.
Feeds(a) ==
  Supervise(a) \/ Announced(a) \/ Environment(a) \/ AdapterStop(a) \/ AdapterStopped(a)

\* A step that can emit leaves every waiting event in the queue, and announces
\* every change of the link that makes it report down.
LEMMA FeedGrows ==
  ASSUME pipe \in Pipe, link \in [Radios -> LinkStatus],
         NEW a \in Radios, Feeds(a) \/ Library(a)
  PROVE  /\ Grows(pipe, pipe')
         /\ link[a]' # link[a] /\ IsDown(link[a]') => pipe'.dropped \/ Contains(pipe', a)
         /\ \A b \in Radios \ {a} : link[b]' = link[b]
<1> DEFINE Good == /\ Grows(pipe, pipe')
                   /\ link[a]' # link[a] /\ IsDown(link[a]')
                        => pipe'.dropped \/ Contains(pipe', a)
                   /\ \A b \in Radios \ {a} : link[b]' = link[b]
<1>1. /\ Grows(pipe, pipe)
      /\ Traffic \in Event /\ a \in Event
      /\ \A n \in 0..SeedMax : n \in Nat
      /\ 0..1 \subseteq Nat
  BY BoundsAssumption DEF Grows, Event
<1>2. ASSUME NEW l, link' = [link EXCEPT ![a] = l],
             pipe' = SetState(pipe, a, link[a], l)
      PROVE  Good
  BY <1>2, SetStateGrows
<1>3. ASSUME NEW l, link' = [link EXCEPT ![a] = l], ~IsDown(l), Grows(pipe, pipe')
      PROVE  Good
  BY <1>3
<1>4. ASSUME link' = link, Grows(pipe, pipe')
      PROVE  Good
  BY <1>4
<1>5. CASE FirstOpen(a) \/ Retry(a)
  BY <1>2, <1>5 DEF FirstOpen, Retry, OpenSession
<1>6. CASE OpenFails(a)
  <2> DEFINE p1 == SetState(pipe, a, link[a], Error)
             p2 == SetState(p1, a, Error, Stopped)
             p3 == SetState(p2, a, Stopped, Error)
  <2>1. Grows(pipe, p1) /\ p1 \in Pipe
    BY SetStateGrows DEF Grows
  <2>2. CASE Kind[a] = "meshtastic"
    <3>1. Grows(p1, p2) /\ p2 \in Pipe
      BY <2>1, SetStateGrows DEF Grows
    <3>2. Grows(p2, p3) /\ (p3.dropped \/ Contains(p3, a))
      BY <3>1, SetStateGrows DEF Stopped, Error
    <3>3. Grows(pipe, p3)
      BY <2>1, <3>1, <3>2, GrowsTransitive
    <3>4. pipe' = p3 /\ link' = [link EXCEPT ![a] = Error]
      BY <1>6, <2>2 DEF OpenFails
    <3>5. QED BY <3>2, <3>3, <3>4
  <2>3. CASE Kind[a] # "meshtastic"
    <3>1. pipe' = p1 /\ link' = [link EXCEPT ![a] = Error]
      BY <1>6, <2>3 DEF OpenFails
    <3>2. QED BY <1>2, <3>1
  <2>4. QED BY <2>2, <2>3
<1>7. CASE MeshtasticUp(a)
  <2>1. PICK n \in 0..SeedMax : pipe' = SetState(Burst(pipe, n), a, link[a], Up)
    BY <1>7 DEF MeshtasticUp
  <2>2. Grows(pipe, Burst(pipe, n)) /\ Burst(pipe, n) \in Pipe
    BY <1>1, BurstGrows DEF Grows
  <2>3. Grows(pipe, pipe')
    BY <2>1, <2>2, SetStateGrows, GrowsTransitive
  <2>4. QED BY <1>3, <1>7, <2>3, LinkDown DEF MeshtasticUp, SessionUp
<1>8. CASE DemoUp(a)
  <2> DEFINE p1 == SetState(pipe, a, link[a], Simulated)
  <2>1. PICK n \in 0..SeedMax : pipe' = Burst(p1, n)
    BY <1>8 DEF DemoUp
  <2>2. Grows(pipe, p1) /\ p1 \in Pipe
    BY SetStateGrows DEF Grows
  <2>3. Grows(pipe, pipe')
    BY <1>1, <2>1, <2>2, BurstGrows, GrowsTransitive
  <2>4. QED BY <1>3, <1>8, <2>3, LinkDown DEF DemoUp
<1>9. CASE MeshCoreSubscribes(a) \/ ContactsLoaded(a)
  BY <1>1, <1>4, <1>9, BurstGrows DEF MeshCoreSubscribes, ContactsLoaded
<1>10. CASE MeshCoreUp(a)
  BY <1>2, <1>10 DEF MeshCoreUp, SessionUp
<1>11. CASE FetchingFails(a)
  BY <1>2, <1>11 DEF FetchingFails
<1>12. CASE Wake(a)
  BY <1>1, <1>4, <1>12 DEF Wake
<1>13. CASE Closed(a)
  <2> DEFINE ends == ShownAfterClose(a)
             p1 == SetState(pipe, a, link[a], Stopped)
             p2 == SetState(p1, a, Stopped, ends)
  <2>1. /\ Grows(pipe, p1) /\ p1 \in Pipe
        /\ link[a] # Stopped => p1.dropped \/ Contains(p1, a)
    BY SetStateGrows DEF Grows
  <2>2. /\ Grows(p1, p2)
        /\ Stopped # ends => p2.dropped \/ Contains(p2, a)
    BY <2>1, SetStateGrows
  <2>3. Grows(pipe, p2)
    BY <2>1, <2>2, GrowsTransitive
  <2>4. pipe' = p2 /\ link' = [link EXCEPT ![a] = ends]
    BY <1>13 DEF Closed
  <2>5. link[a] # ends => p2.dropped \/ Contains(p2, a)
    BY <1>1, <2>1, <2>2 DEF Grows
  <2>6. QED BY <2>3, <2>4, <2>5
<1>14. CASE Announced(a)
  BY <1>2, <1>14 DEF Announced
<1>15. CASE Hears(a)
  BY <1>1, <1>4, <1>15, HearsEffect, BurstGrows
<1>16. CASE Dies(a) \/ Library(a)
  BY <1>1, <1>4, <1>16
     DEF Dies, Library, DeviceOpens, OrphanCloses, AnnouncesLoss, AnnouncesConnection
<1>17. CASE AdapterStop(a)
  BY <1>1, <1>2, <1>4, <1>17 DEF AdapterStop, BeginClose, NothingToClose
<1>18. CASE AdapterStopped(a)
  BY <1>2, <1>18 DEF AdapterStopped
<1>19. QED
  BY <1>5, <1>6, <1>7, <1>8, <1>9, <1>10, <1>11, <1>12, <1>13, <1>14, <1>15, <1>16,
     <1>17, <1>18 DEF Feeds, Supervise, Environment
-----------------------------------------------------------------------------
(* Types.                                                                  *)

LEMMA DropQueue ==
  ASSUME NEW p \in Pipe
  PROVE  [p EXCEPT !.queue = <<>>] \in Pipe
<1> DEFINE q == [p EXCEPT !.queue = <<>>]
<1>1. q \in [queue : Seq(Event), dropped : BOOLEAN] /\ q.queue = <<>>
  <2>1. p \in [queue : Seq(Event), dropped : BOOLEAN] /\ <<>> \in Seq(Event)
    BY DEF Pipe, Event
  <2>2. QED BY <2>1
<1>2. Len(<<>>) <= QueueMax
  BY BoundsAssumption
<1>3. QED BY <1>1, <1>2 DEF Pipe, Event

\* The event queue never outgrows its capacity, whoever writes to it.
LEMMA PipeTyped ==
  ASSUME pipe \in Pipe, link \in [Radios -> LinkStatus], [Next]_vars
  PROVE  pipe' \in Pipe
<1>1. ASSUME NEW a \in Radios, Feeds(a) \/ Library(a)
      PROVE  pipe' \in Pipe
  BY <1>1, FeedGrows DEF Grows
<1>2. CASE DispatchLink \/ DispatchTraffic
  BY <1>2, TailShrinks DEF DispatchLink, DispatchTraffic
<1>3. CASE StopDispatcher
  BY <1>3, DropQueue DEF StopDispatcher
<1>4. CASE StoreWritten \/ Stop \/ UNCHANGED vars
  BY <1>4 DEF StoreWritten, Stop, vars
<1>5. QED
  BY <1>1, <1>2, <1>3, <1>4 DEF Next, Feeds, Dispatch, Shutdown

\* One step keeps the types of everything but the event queue.
LEMMA StepTyped == TypeOK /\ [Next]_vars => TypeOK'
<1> SUFFICES ASSUME TypeOK, [Next]_vars
             PROVE  TypeOK'
  OBVIOUS
<1>1. pipe' \in Pipe
  BY PipeTyped DEF TypeOK
<1> USE <1>1, LinkValues DEF TypeOK, supervisor, device
<1>2. ASSUME NEW a \in Radios, FirstOpen(a)
      PROVE  TypeOK'
  <2>1. OpenSession(a) /\ delay' = delay
    BY <1>2 DEF FirstOpen
  <2>2. QED BY <2>1 DEF OpenSession, ClearWakeup
<1>3. ASSUME NEW a \in Radios, Retry(a)
      PROVE  TypeOK'
  <2>1. delay' \in [Radios -> Nat]
    <3>1. 2 * delay[a] \in Nat /\ DelayMax \in Nat
      BY BoundsAssumption
    <3>2. QED BY <1>3, <3>1 DEF Retry
  <2>2. OpenSession(a)
    BY <1>3 DEF Retry
  <2>3. QED BY <2>1, <2>2 DEF OpenSession, ClearWakeup
<1>4. ASSUME NEW a \in Radios, DeviceOpens(a)
      PROVE  TypeOK'
  BY <1>4 DEF DeviceOpens
<1>5. ASSUME NEW a \in Radios, OrphanCloses(a)
      PROVE  TypeOK'
  BY <1>5 DEF OrphanCloses
<1>6. ASSUME NEW a \in Radios, MeshtasticUp(a)
      PROVE  TypeOK'
  BY <1>6, BoundsAssumption DEF MeshtasticUp, SessionUp
<1>7. ASSUME NEW a \in Radios, MeshCoreUp(a)
      PROVE  TypeOK'
  BY <1>7, BoundsAssumption DEF MeshCoreUp, SessionUp
<1>8. ASSUME NEW a \in Radios, DemoUp(a)
      PROVE  TypeOK'
  BY <1>8 DEF DemoUp, ClearWakeup, StartTask
<1>9. ASSUME NEW a \in Radios, MeshCoreSubscribes(a)
      PROVE  TypeOK'
  BY <1>9 DEF MeshCoreSubscribes
<1>10. ASSUME NEW a \in Radios, ContactsLoaded(a)
      PROVE  TypeOK'
  BY <1>10 DEF ContactsLoaded
<1>11. ASSUME NEW a \in Radios, OpenFails(a)
      PROVE  TypeOK'
  <2>1. attempts' \in [Radios -> 0..AttemptsCap]
    BY <1>11, BoundsAssumption DEF OpenFails, Bump
  <2>2. QED BY <1>11, <2>1 DEF OpenFails
<1>12. ASSUME NEW a \in Radios, FetchingFails(a)
      PROVE  TypeOK'
  BY <1>12 DEF FetchingFails, Release
<1>13. ASSUME NEW a \in Radios, Wake(a)
      PROVE  TypeOK'
  BY <1>13 DEF Wake, Release
<1>14. ASSUME NEW a \in Radios, Closed(a)
      PROVE  TypeOK'
  <2>1. attempts' \in [Radios -> 0..AttemptsCap]
    BY <1>14, BoundsAssumption DEF Closed, Bump
  <2>2. QED BY <1>14, <2>1 DEF Closed, ShownAfterClose
<1>15. ASSUME NEW a \in Radios, Dies(a)
      PROVE  TypeOK'
  <2>1. lossDue' \in [Radios -> BOOLEAN]
    BY <1>15 DEF Dies
  <2>2. QED BY <1>15, <2>1 DEF Dies
<1>16. ASSUME NEW a \in Radios, AnnouncesLoss(a)
      PROVE  TypeOK'
  <2>1. posted' \in [Radios -> Seq({"lost", "connected"})]
    BY <1>16 DEF AnnouncesLoss
  <2>2. QED BY <1>16, <2>1 DEF AnnouncesLoss
<1>17. ASSUME NEW a \in Radios, AnnouncesConnection(a)
      PROVE  TypeOK'
  <2>1. posted' \in [Radios -> Seq({"lost", "connected"})]
    BY <1>17 DEF AnnouncesConnection
  <2>2. QED BY <1>17, <2>1 DEF AnnouncesConnection
<1>18. ASSUME NEW a \in Radios, Announced(a)
      PROVE  TypeOK'
  <2>1. posted' \in [Radios -> Seq({"lost", "connected"})]
    BY <1>18 DEF Announced
  <2>2. lost' \in [Radios -> BOOLEAN]
    BY <1>18 DEF Announced
  <2>3. link' \in [Radios -> LinkStatus]
    BY <1>18 DEF Announced
  <2>4. QED BY <1>18, <2>1, <2>2, <2>3 DEF Announced
<1>19. ASSUME NEW a \in Radios, Hears(a)
      PROVE  TypeOK'
  BY <1>19, HearsEffect
<1>20. ASSUME NEW a \in Radios, AdapterStop(a)
      PROVE  TypeOK'
  <2>1. CASE BeginClose(a)
    BY <1>20, <2>1 DEF AdapterStop, BeginClose, Release
  <2>2. CASE NothingToClose(a)
    BY <1>20, <2>2 DEF AdapterStop, NothingToClose
  <2>3. QED BY <1>20, <2>1, <2>2 DEF AdapterStop
<1>21. ASSUME NEW a \in Radios, AdapterStopped(a)
      PROVE  TypeOK'
  BY <1>21 DEF AdapterStopped
<1>22. CASE DispatchLink
  <2>1. down' \in [Radios -> BOOLEAN]
    BY <1>22 DEF DispatchLink
  <2>2. QED BY <1>22, <2>1 DEF DispatchLink
<1>23. CASE DispatchTraffic
  BY <1>23 DEF DispatchTraffic
<1>24. CASE StoreWritten
  BY <1>24 DEF StoreWritten
<1>25. CASE Stop
  BY <1>25 DEF Stop
<1>26. CASE StopDispatcher
  BY <1>26 DEF StopDispatcher
<1>27. CASE UNCHANGED vars
  BY <1>27 DEF vars
<1>28. QED
  BY <1>2, <1>3, <1>4, <1>5, <1>6, <1>7, <1>8, <1>9, <1>10, <1>11, <1>12, <1>13,
     <1>14, <1>15, <1>16, <1>17, <1>18, <1>19, <1>20, <1>21, <1>22, <1>23, <1>24,
     <1>25, <1>26, <1>27
     DEF Next, Supervise, Library, Environment, Dispatch, Shutdown

\* Every variable keeps its type, and the queue its capacity, for ever.
THEOREM TypeCorrect == Spec => []TypeOK
<1>1. ASSUME Init PROVE TypeOK
  <2>1. [queue |-> <<>>, dropped |-> FALSE] \in Pipe
    <3>1. <<>> \in Seq(Event) /\ Len(<<>>) <= QueueMax
      BY BoundsAssumption
    <3>2. QED BY <3>1 DEF Pipe, Event
  <2>2. posted \in [Radios -> Seq({"lost", "connected"})]
    BY <1>1 DEF Init
  <2>3. /\ pipe \in Pipe
        /\ attempts \in [Radios -> 0..AttemptsCap] /\ delay \in [Radios -> Nat]
        /\ link \in [Radios -> LinkStatus]
    BY <1>1, <2>1, BoundsAssumption, LinkValues DEF Init
  <2>4. /\ failed \in [Radios -> BOOLEAN] /\ down \in [Radios -> BOOLEAN]
        /\ held \in [Radios -> BOOLEAN] /\ dev \in [Radios -> Int]
        /\ alive \in [Radios -> BOOLEAN] /\ lossDue \in [Radios -> BOOLEAN]
        /\ lost \in [Radios -> BOOLEAN]
    BY <1>1 DEF Init
  <2>5. /\ busy \in BOOLEAN /\ stopping \in BOOLEAN /\ running \in BOOLEAN
        /\ pc \in [Radios -> {"begin"}]
        /\ shut \in [Radios -> {"no"}]
    BY <1>1 DEF Init
  <2>6. QED BY <2>2, <2>3, <2>4, <2>5 DEF TypeOK
<1>2. QED BY <1>1, StepTyped, PTL DEF Spec

-----------------------------------------------------------------------------
(* Devices.                                                                *)

\* The device of radio a is accounted for: it is open exactly from the library's
\* open to the close of the supervisor or of the shutdown, and only the pc and
\* shut say which of the two has it.
Accounted(a) ==
  /\ held[a] <=> pc[a] \in Session /\ shut[a] = "no"
  /\ shut[a] = "closing" => pc[a] \in Session
  /\ shut[a] # "no" => stopping
  /\ dev[a] = IF \/ pc[a] \in {"opened", "closing"}
                 \/ pc[a] \in Session /\ shut[a] # "yes"
              THEN 1 ELSE 0

DeviceInv == /\ \A a \in Radios : Accounted(a)
             /\ ~running => stopping /\ \A a \in Radios : shut[a] = "yes"

\* Every step keeps the accounts.
LEMMA StepAccounted ==
  TypeOK /\ DeviceInv /\ [Next]_vars => DeviceInv'
<1> SUFFICES ASSUME TypeOK, DeviceInv, [Next]_vars
             PROVE  DeviceInv'
  OBVIOUS
<1> USE DEF supervisor, device, Session
<1>1. /\ pc \in [Radios -> {"begin", "opening", "opened", "contacts", "fetching",
                            "waiting", "closing", "closed", "backoff"}]
      /\ held \in [Radios -> BOOLEAN] /\ dev \in [Radios -> Int]
      /\ shut \in [Radios -> {"no", "closing", "yes"}]
      /\ stopping \in BOOLEAN /\ running \in BOOLEAN
  BY DEF TypeOK
<1>2. \A a \in Radios : Accounted(a)
  BY DEF DeviceInv
<1>3. ~running => stopping /\ \A a \in Radios : shut[a] = "yes"
  BY DEF DeviceInv
<1>4. ASSUME UNCHANGED <<pc, held, dev, shut, stopping, running>>
      PROVE  DeviceInv'
  BY <1>2, <1>3, <1>4 DEF DeviceInv, Accounted
<1>5. ASSUME NEW a \in Radios, FirstOpen(a)
      PROVE  DeviceInv'
  BY <1>5, <1>1, <1>2, <1>3 DEF DeviceInv, Accounted, FirstOpen, OpenSession
<1>6. ASSUME NEW a \in Radios, Retry(a)
      PROVE  DeviceInv'
  BY <1>6, <1>1, <1>2, <1>3 DEF DeviceInv, Accounted, Retry, OpenSession
<1>7. ASSUME NEW a \in Radios, DeviceOpens(a)
      PROVE  DeviceInv'
  BY <1>7, <1>1, <1>2, <1>3 DEF DeviceInv, Accounted, DeviceOpens
<1>8. ASSUME NEW a \in Radios, OrphanCloses(a)
      PROVE  DeviceInv'
  BY <1>8, <1>1, <1>2, <1>3 DEF DeviceInv, Accounted, OrphanCloses
<1>9. ASSUME NEW a \in Radios, MeshtasticUp(a)
      PROVE  DeviceInv'
  BY <1>9, <1>1, <1>2, <1>3 DEF DeviceInv, Accounted, MeshtasticUp, SessionUp
<1>10. ASSUME NEW a \in Radios, MeshCoreUp(a)
      PROVE  DeviceInv'
  BY <1>10, <1>1, <1>2, <1>3 DEF DeviceInv, Accounted, MeshCoreUp, SessionUp
<1>11. ASSUME NEW a \in Radios, DemoUp(a)
      PROVE  DeviceInv'
  <2>1. /\ pc' = [pc EXCEPT ![a] = "waiting"] /\ held' = [held EXCEPT ![a] = TRUE]
        /\ dev' = [dev EXCEPT ![a] = @ + 1] /\ UNCHANGED <<shut, stopping, running>>
        /\ pc[a] = "begin" /\ ~stopping
    BY <1>11 DEF DemoUp, StartTask
  <2>2. QED BY <1>1, <1>2, <1>3, <2>1 DEF DeviceInv, Accounted
<1>12. ASSUME NEW a \in Radios, MeshCoreSubscribes(a)
      PROVE  DeviceInv'
  BY <1>12, <1>1, <1>2, <1>3 DEF DeviceInv, Accounted, MeshCoreSubscribes
<1>13. ASSUME NEW a \in Radios, ContactsLoaded(a)
      PROVE  DeviceInv'
  BY <1>13, <1>1, <1>2, <1>3 DEF DeviceInv, Accounted, ContactsLoaded
<1>14. ASSUME NEW a \in Radios, OpenFails(a)
      PROVE  DeviceInv'
  BY <1>14, <1>1, <1>2, <1>3 DEF DeviceInv, Accounted, OpenFails
<1>15. ASSUME NEW a \in Radios, FetchingFails(a)
      PROVE  DeviceInv'
  BY <1>15, <1>1, <1>2, <1>3 DEF DeviceInv, Accounted, FetchingFails, Release
<1>16. ASSUME NEW a \in Radios, Wake(a)
      PROVE  DeviceInv'
  BY <1>16, <1>1, <1>2, <1>3 DEF DeviceInv, Accounted, Wake, Release
<1>17. ASSUME NEW a \in Radios, Closed(a)
      PROVE  DeviceInv'
  BY <1>17, <1>1, <1>2, <1>3 DEF DeviceInv, Accounted, Closed
<1>18. ASSUME NEW a \in Radios, AdapterStopped(a)
      PROVE  DeviceInv'
  BY <1>18, <1>1, <1>2, <1>3 DEF DeviceInv, Accounted, AdapterStopped
<1>19. ASSUME NEW a \in Radios, AdapterStop(a)
      PROVE  DeviceInv'
  <2>1. CASE BeginClose(a)
    BY <1>19, <1>1, <1>2, <1>3, <2>1 DEF DeviceInv, Accounted, AdapterStop, BeginClose, Release
  <2>2. CASE NothingToClose(a)
    BY <1>19, <1>1, <1>2, <1>3, <2>2 DEF DeviceInv, Accounted, AdapterStop, NothingToClose
  <2>3. QED BY <1>19, <2>1, <2>2 DEF AdapterStop
<1>20. CASE Stop \/ StopDispatcher
  <2>1. CASE Stop
    <3>1. UNCHANGED <<pc, held, dev, shut, running>> /\ stopping' /\ ~stopping
      BY <2>1 DEF Stop
    <3>2. QED BY <1>2, <1>3, <3>1 DEF DeviceInv, Accounted
  <2>2. CASE StopDispatcher
    <3>1. UNCHANGED <<pc, held, dev, shut, stopping>>
      BY <2>2 DEF StopDispatcher
    <3>2. stopping /\ \A a \in Radios : shut[a] = "yes"
      BY <2>2 DEF StopDispatcher
    <3>3. QED BY <1>2, <3>1, <3>2 DEF DeviceInv, Accounted
  <2>3. QED BY <1>20, <2>1, <2>2
<1>21. ASSUME NEW a \in Radios,
             Dies(a) \/ AnnouncesLoss(a) \/ AnnouncesConnection(a) \/ Announced(a) \/ Hears(a)
      PROVE  DeviceInv'
  BY <1>21, <1>4, HearsEffect DEF Dies, AnnouncesLoss, AnnouncesConnection, Announced
<1>22. CASE Dispatch \/ UNCHANGED vars
  BY <1>22, <1>4 DEF Dispatch, DispatchLink, DispatchTraffic, StoreWritten, vars
<1>23. QED
  BY <1>4, <1>5, <1>6, <1>7, <1>8, <1>9, <1>10, <1>11, <1>12, <1>13, <1>14,
     <1>15, <1>16, <1>17, <1>18, <1>19, <1>20, <1>21, <1>22
     DEF Next, Supervise, Library, Environment, Dispatch, Shutdown

LEMMA Accounts == Spec => []DeviceInv
<1>1. Init => DeviceInv
  BY DEF Init, DeviceInv, Accounted, Session
<1>2. QED BY <1>1, StepAccounted, TypeCorrect, PTL DEF Spec

\* No interleaving of opens, losses, failed starts, closes and the shutdown
\* leaves a radio with two open devices.
THEOREM AtMostOneDevice == Spec => []OneDevice
<1>1. DeviceInv => OneDevice
  BY DEF DeviceInv, Accounted, OneDevice
<1>2. QED BY <1>1, Accounts, PTL

\* After stop() the only devices that can still be open are those whose
\* supervisor the cancellation caught inside an open or inside a close.
THEOREM ShutdownReleases == Spec => []OnlyCancelledLeak
<1>1. DeviceInv => OnlyCancelledLeak
  BY DEF DeviceInv, Accounted, OnlyCancelledLeak
<1>2. QED BY <1>1, Accounts, PTL
-----------------------------------------------------------------------------
(* The ports are leased as PortLease says.                                 *)

\* A step that opens and closes nothing is no step of the leases.
LEMMA LeaseIdle ==
  ASSUME UNCHANGED <<dev, stopping, running>>,
         \A b \in Radios : stopping => (pc'[b] \in Session <=> pc[b] \in Session)
  PROVE  UNCHANGED Lease!vars
<1>1. \A b \in Radios : Holder(b)' = Holder(b)
  BY DEF Holder
<1>2. QED BY <1>1 DEF Lease!vars

\* The device of a is opened: a free port is taken.
LEMMA LeaseTaken ==
  ASSUME NEW a \in Radios, dev \in [Radios -> Int], dev[a] = 0,
         dev' = [dev EXCEPT ![a] = @ + 1],
         stopping => pc'[a] \notin Session,
         \A b \in Radios \ {a} : pc'[b] = pc[b],
         UNCHANGED <<stopping, running>>
  PROVE  Lease!Next
<1> DEFINE h == [b \in Radios |-> Holder(b)]
<1>1. dev'[a] = 1 /\ \A b \in Radios \ {a} : dev'[b] = dev[b]
  OBVIOUS
<1>2. Holder(a) = "free" /\ Holder(a)' = IF stopping THEN "abandoned" ELSE "session"
  BY <1>1 DEF Holder
<1>3. \A b \in Radios \ {a} : Holder(b)' = Holder(b)
  BY <1>1 DEF Holder
<1>4. h' = [h EXCEPT ![a] = IF stopping THEN "abandoned" ELSE "session"]
  BY <1>2, <1>3
<1>5. Lease!Acquire(a)
  BY <1>2, <1>4 DEF Lease!Acquire
<1>6. QED BY <1>5 DEF Lease!Next

\* The device of a is closed: its port is free again.
LEMMA LeaseGiven ==
  ASSUME NEW a \in Radios, dev \in [Radios -> Int], dev[a] = 1,
         dev' = [dev EXCEPT ![a] = @ - 1],
         ~running => stopping /\ pc[a] \notin Session,
         \A b \in Radios \ {a} : pc'[b] = pc[b],
         UNCHANGED <<stopping, running>>
  PROVE  Lease!Next
<1> DEFINE h == [b \in Radios |-> Holder(b)]
<1>1. dev'[a] = 0 /\ \A b \in Radios \ {a} : dev'[b] = dev[b]
  OBVIOUS
<1>2. /\ Holder(a) # "free" /\ Holder(a)' = "free"
      /\ ~running => Holder(a) = "abandoned"
  BY <1>1 DEF Holder
<1>3. \A b \in Radios \ {a} : Holder(b)' = Holder(b)
  BY <1>1 DEF Holder
<1>4. h' = [h EXCEPT ![a] = "free"]
  BY <1>2, <1>3
<1>5. Lease!Release(a)
  BY <1>2, <1>4 DEF Lease!Release
<1>6. QED BY <1>5 DEF Lease!Next

LEMMA StepLeases ==
  TypeOK /\ DeviceInv /\ [Next]_vars => [Lease!Next]_(Lease!vars)
<1> SUFFICES ASSUME TypeOK, DeviceInv, [Next]_vars
             PROVE  Lease!Next \/ UNCHANGED Lease!vars
  OBVIOUS
<1> USE DEF supervisor, device
<1>1. /\ pc \in [Radios -> {"begin", "opening", "opened", "contacts", "fetching",
                            "waiting", "closing", "closed", "backoff"}]
      /\ dev \in [Radios -> Int] /\ stopping \in BOOLEAN /\ running \in BOOLEAN
      /\ shut \in [Radios -> {"no", "closing", "yes"}]
  BY DEF TypeOK
<1>2. \A a \in Radios : Accounted(a)
  BY DEF DeviceInv
<1>3. ~running => stopping /\ \A a \in Radios : shut[a] = "yes"
  BY DEF DeviceInv
<1>4. ASSUME NEW a \in Radios, DeviceOpens(a)
      PROVE  Lease!Next
  <2>1. dev[a] = 0
    BY <1>2, <1>4 DEF Accounted, DeviceOpens, Session
  <2>2. pc'[a] \notin Session
    BY <1>1, <1>4 DEF DeviceOpens, Session
  <2>3. /\ dev' = [dev EXCEPT ![a] = @ + 1] /\ UNCHANGED <<stopping, running>>
        /\ \A b \in Radios \ {a} : pc'[b] = pc[b]
    BY <1>1, <1>4 DEF DeviceOpens
  <2>4. QED BY <1>1, <2>1, <2>2, <2>3, LeaseTaken
<1>5. ASSUME NEW a \in Radios, DemoUp(a)
      PROVE  Lease!Next
  <2>1. dev[a] = 0
    BY <1>2, <1>5 DEF Accounted, DemoUp, Session
  <2>2. /\ dev' = [dev EXCEPT ![a] = @ + 1] /\ UNCHANGED <<stopping, running>>
        /\ \A b \in Radios \ {a} : pc'[b] = pc[b]
        /\ ~stopping
    BY <1>1, <1>5 DEF DemoUp, StartTask
  <2>3. QED BY <1>1, <2>1, <2>2, LeaseTaken
<1>6. ASSUME NEW a \in Radios, Closed(a) \/ OrphanCloses(a)
      PROVE  Lease!Next
  <2>1. dev[a] = 1 /\ pc[a] \notin Session
    BY <1>2, <1>6 DEF Accounted, Closed, OrphanCloses, Session
  <2>2. /\ dev' = [dev EXCEPT ![a] = @ - 1] /\ UNCHANGED <<stopping, running>>
        /\ \A b \in Radios \ {a} : pc'[b] = pc[b]
    BY <1>1, <1>6 DEF Closed, OrphanCloses
  <2>3. QED BY <1>1, <1>3, <2>1, <2>2, LeaseGiven
<1>7. ASSUME NEW a \in Radios, AdapterStopped(a)
      PROVE  Lease!Next
  <2>1. dev[a] = 1 /\ running
    BY <1>2, <1>3, <1>7 DEF Accounted, AdapterStopped, Session
  <2>2. /\ dev' = [dev EXCEPT ![a] = @ - 1] /\ UNCHANGED <<stopping, running, pc>>
    BY <1>7 DEF AdapterStopped
  <2>3. QED BY <1>1, <2>1, <2>2, LeaseGiven
<1>8. ASSUME NEW a \in Radios,
             \/ FirstOpen(a) \/ Retry(a) \/ OpenFails(a) \/ MeshtasticUp(a)
             \/ MeshCoreSubscribes(a) \/ ContactsLoaded(a) \/ MeshCoreUp(a)
             \/ FetchingFails(a) \/ Wake(a)
      PROVE  UNCHANGED Lease!vars
  <2>1. ~stopping /\ UNCHANGED <<dev, stopping, running>>
    BY <1>8 DEF FirstOpen, Retry, OpenSession, OpenFails, MeshtasticUp, SessionUp,
       MeshCoreSubscribes, ContactsLoaded, MeshCoreUp, FetchingFails, Wake, Release
  <2>2. QED BY <2>1, LeaseIdle
<1>9. ASSUME NEW a \in Radios,
             \/ Dies(a) \/ AnnouncesLoss(a) \/ AnnouncesConnection(a) \/ Announced(a)
             \/ Hears(a) \/ AdapterStop(a)
      PROVE  UNCHANGED Lease!vars
  <2>1. UNCHANGED <<dev, pc, stopping, running>>
    BY <1>9, HearsEffect DEF Dies, AnnouncesLoss, AnnouncesConnection, Announced, AdapterStop
  <2>2. QED BY <2>1, LeaseIdle
<1>10. CASE Dispatch \/ UNCHANGED vars
  <2>1. UNCHANGED <<dev, pc, stopping, running>>
    BY <1>10 DEF Dispatch, DispatchLink, DispatchTraffic, StoreWritten, vars
  <2>2. QED BY <2>1, LeaseIdle
<1>11. CASE Stop
  <2> DEFINE h == [b \in Radios |-> Holder(b)]
  <2>1. ~stopping /\ stopping' = TRUE /\ UNCHANGED <<dev, pc, running>>
    BY <1>11 DEF Stop
  <2>2. \A b \in Radios : dev[b] \in {0, 1}
    BY <1>2 DEF Accounted
  <2>3. \A b \in Radios : /\ Holder(b)' \in Lease!Holders
                          /\ IF Holder(b) = "session"
                             THEN Holder(b)' \in {"shutdown", "abandoned"}
                             ELSE Holder(b)' = Holder(b)
    BY <2>1, <2>2 DEF Holder, Lease!Holders
  <2>4. Lease!TakeOver
    BY <2>1, <2>3 DEF Lease!TakeOver
  <2>5. QED BY <2>4 DEF Lease!Next
<1>12. CASE StopDispatcher
  <2>1. /\ running /\ stopping /\ running' = FALSE
        /\ UNCHANGED <<dev, pc, stopping>>
        /\ \A b \in Radios : shut[b] = "yes"
    BY <1>12 DEF StopDispatcher
  <2>2. \A b \in Radios : Holder(b) # "shutdown" /\ Holder(b)' = Holder(b)
    BY <1>2, <2>1 DEF Accounted, Holder, Session
  <2>3. Lease!End
    BY <2>1, <2>2 DEF Lease!End
  <2>4. QED BY <2>3 DEF Lease!Next
<1>13. QED
  BY <1>4, <1>5, <1>6, <1>7, <1>8, <1>9, <1>10, <1>11, <1>12
     DEF Next, Supervise, Library, Environment, Dispatch, Shutdown

\* Supervision implements PortLease: from the first open to the end of the
\* shutdown every step is a step of the leases, or none.
THEOREM ImplementsLease == Spec => LeaseKept
<1>1. Init => Lease!Init
  <2> SUFFICES ASSUME Init PROVE Lease!Init
    OBVIOUS
  <2>1. \A b \in Radios : Holder(b) = "free"
    BY DEF Init, Holder
  <2>2. QED BY <2>1 DEF Init, Lease!Init
<1>2. QED BY <1>1, StepLeases, Accounts, TypeCorrect, PTL DEF Spec, LeaseKept, Lease!Spec

-----------------------------------------------------------------------------
(* Wake-ups.                                                               *)

\* A session is in progress: its supervisor may yet have to hear of its loss.
Live == {"opening", "opened", "contacts", "fetching", "waiting"}

\* A link that reports down during a session has set the wake-up, has left an
\* event that will, or fell victim to a full queue.
Noticed(a) == pc[a] \in Live /\ IsDown(link[a])
                => down[a] \/ Contains(pipe, a) \/ pipe.dropped

\* Whatever reports down or wakes during a session was reported lost in it.
Deserved(a) == ~stopping /\ pc[a] \in Live /\ (IsDown(link[a]) \/ down[a]) => lost[a]

WakeInv == /\ \A a \in Radios : Noticed(a) /\ Deserved(a)
           /\ stopping => \A a \in Radios : down[a]

\* What a step of radio a does to the state the wake-up depends on: a session
\* begins with the link not down and the wake-up clear, and goes on without
\* touching the wake-up; only an announcement of its loss makes its link down.
LEMMA FeedKeeps ==
  ASSUME TypeOK, DeviceInv, NEW a \in Radios, Feeds(a) \/ Library(a)
  PROVE  /\ \A b \in Radios \ {a} : /\ pc'[b] = pc[b] /\ down'[b] = down[b]
                                    /\ link'[b] = link[b] /\ lost'[b] = lost[b]
         /\ stopping' = stopping
         /\ stopping => down' = down
         /\ pc'[a] \in Live => \/ ~IsDown(link'[a]) /\ ~down'[a]
                               \/ pc[a] \in Live /\ down'[a] = down[a]
         /\ ~stopping /\ pc'[a] \in Live =>
              \/ lost'[a]
              \/ ~IsDown(link'[a]) /\ ~down'[a]
              \/ pc[a] \in Live /\ down'[a] = down[a] /\ lost'[a] = lost[a]
                 /\ (IsDown(link'[a]) => IsDown(link[a]))
<1> DEFINE Kept == 
      /\ \A b \in Radios \ {a} : /\ pc'[b] = pc[b] /\ down'[b] = down[b]
                                 /\ link'[b] = link[b] /\ lost'[b] = lost[b]
      /\ stopping' = stopping
      /\ stopping => down' = down
      /\ pc'[a] \in Live => \/ ~IsDown(link'[a]) /\ ~down'[a]
                            \/ pc[a] \in Live /\ down'[a] = down[a]
      /\ ~stopping /\ pc'[a] \in Live =>
           \/ lost'[a]
           \/ ~IsDown(link'[a]) /\ ~down'[a]
           \/ pc[a] \in Live /\ down'[a] = down[a] /\ lost'[a] = lost[a]
              /\ (IsDown(link'[a]) => IsDown(link[a]))
<1>1. /\ pc \in [Radios -> {"begin", "opening", "opened", "contacts", "fetching",
                            "waiting", "closing", "closed", "backoff"}]
      /\ link \in [Radios -> LinkStatus]
      /\ down \in [Radios -> BOOLEAN] /\ lost \in [Radios -> BOOLEAN]
  BY DEF TypeOK
<1> USE <1>1, LinkDown DEF supervisor, device, Live
<1>2. CASE FirstOpen(a)
  BY <1>2 DEF FirstOpen, OpenSession, ClearWakeup
<1>3. CASE Retry(a)
  BY <1>3 DEF Retry, OpenSession, ClearWakeup
<1>4. CASE DeviceOpens(a)
  BY <1>4 DEF DeviceOpens
<1>5. CASE OrphanCloses(a)
  BY <1>5 DEF OrphanCloses
<1>6. CASE MeshtasticUp(a)
  BY <1>6 DEF MeshtasticUp, SessionUp
<1>7. CASE MeshCoreUp(a)
  BY <1>7 DEF MeshCoreUp, SessionUp
<1>8. CASE DemoUp(a)
  BY <1>8 DEF DemoUp, ClearWakeup
<1>9. CASE MeshCoreSubscribes(a)
  BY <1>9 DEF MeshCoreSubscribes
<1>10. CASE ContactsLoaded(a)
  BY <1>10 DEF ContactsLoaded
<1>11. CASE OpenFails(a)
  BY <1>11 DEF OpenFails
<1>12. CASE FetchingFails(a)
  BY <1>12 DEF FetchingFails
<1>13. CASE Wake(a)
  BY <1>13 DEF Wake
<1>14. CASE Closed(a)
  BY <1>14 DEF Closed
<1>15. CASE Announced(a)
  BY <1>15 DEF Announced
<1>16. CASE AdapterStopped(a)
  <2>1. stopping
    BY <1>16 DEF AdapterStopped, DeviceInv, Accounted
  <2>2. QED BY <1>16, <2>1 DEF AdapterStopped
<1>17. CASE AdapterStop(a)
  <2>1. CASE BeginClose(a)
    BY <1>17, <2>1 DEF AdapterStop, BeginClose
  <2>2. CASE NothingToClose(a)
    BY <1>17, <2>2 DEF AdapterStop, NothingToClose
  <2>3. QED BY <1>17, <2>1, <2>2 DEF AdapterStop
<1>18. CASE Dies(a) \/ AnnouncesLoss(a) \/ AnnouncesConnection(a) \/ Hears(a)
  BY <1>18, HearsEffect DEF Dies, AnnouncesLoss, AnnouncesConnection
<1>19. QED
  BY <1>2, <1>3, <1>4, <1>5, <1>6, <1>7, <1>8, <1>9, <1>10, <1>11, <1>12, <1>13,
     <1>14, <1>15, <1>16, <1>17, <1>18
     DEF Feeds, Supervise, Library, Environment

\* Every step keeps the wake-up invariant.
LEMMA StepNoticed ==
  TypeOK /\ DeviceInv /\ WakeInv /\ [Next]_vars => WakeInv'
<1> SUFFICES ASSUME TypeOK, DeviceInv, WakeInv, [Next]_vars
             PROVE  WakeInv'
  OBVIOUS
<1>1. /\ link \in [Radios -> LinkStatus] /\ down \in [Radios -> BOOLEAN]
      /\ pipe \in Pipe /\ stopping \in BOOLEAN
  BY DEF TypeOK
<1>2. \A a \in Radios : Noticed(a) /\ Deserved(a)
  BY DEF WakeInv
<1>3. stopping => \A a \in Radios : down[a]
  BY DEF WakeInv
<1>4. Radios \subseteq Event
  BY DEF Event
<1>5. ASSUME NEW a \in Radios, Feeds(a) \/ Library(a)
      PROVE  WakeInv'
  <2>1. Grows(pipe, pipe')
    BY <1>1, <1>5, FeedGrows
  <2>2. link[a]' # link[a] /\ IsDown(link[a]') => pipe'.dropped \/ Contains(pipe', a)
    BY <1>1, <1>5, FeedGrows
  <2>3. \A b \in Radios : Contains(pipe, b) \/ pipe.dropped => Contains(pipe', b) \/ pipe'.dropped
    BY <1>4, <2>1 DEF Grows
  <2>4. \A b \in Radios \ {a} : Noticed(b)' /\ Deserved(b)'
    BY <1>2, <1>5, <2>3, FeedKeeps DEF Noticed, Deserved
  <2>5. Noticed(a)'
    BY <1>2, <1>5, <2>2, <2>3, FeedKeeps DEF Noticed
  <2>6. Deserved(a)'
    BY <1>2, <1>5, FeedKeeps DEF Deserved
  <2>7. (stopping => \A b \in Radios : down[b])'
    BY <1>3, <1>5, FeedKeeps
  <2>8. QED BY <2>4, <2>5, <2>6, <2>7 DEF WakeInv
<1>6. CASE DispatchLink
  <2> DEFINE a == Head(pipe.queue)
  <2>1. /\ a \in Radios /\ pipe.queue # <<>>
        /\ down' = [down EXCEPT ![a] = @ \/ IsDown(link[a])]
        /\ pipe' = [pipe EXCEPT !.queue = Tail(@)]
        /\ UNCHANGED <<pc, link, lost, stopping>>
    BY <1>6 DEF DispatchLink, supervisor
  <2>2. \A b \in Radios \ {a} : Contains(pipe, b) => Contains(pipe', b)
    BY <1>1, <1>4, <2>1, TailShrinks
  <2>3. pipe'.dropped = pipe.dropped
    BY <1>1, <2>1 DEF Pipe
  <2>4. \A b \in Radios \ {a} : down'[b] = down[b]
    BY <1>1, <2>1
  <2>5. down'[a] <=> down[a] \/ IsDown(link[a])
    BY <1>1, <2>1
  <2> HIDE DEF a
  <2>6. \A b \in Radios : Noticed(b)'
    BY <1>2, <2>1, <2>2, <2>3, <2>4, <2>5 DEF Noticed
  <2>7. \A b \in Radios : Deserved(b)'
    BY <1>2, <2>1, <2>4, <2>5 DEF Deserved
  <2>8. (stopping => \A b \in Radios : down[b])'
    BY <1>3, <2>1, <2>4, <2>5
  <2>9. QED BY <2>6, <2>7, <2>8 DEF WakeInv
<1>7. CASE DispatchTraffic
  <2>1. /\ Head(pipe.queue) = Traffic /\ pipe.queue # <<>>
        /\ pipe' = [pipe EXCEPT !.queue = Tail(@)]
        /\ UNCHANGED <<pc, link, lost, stopping, down>>
    BY <1>7 DEF DispatchTraffic, supervisor
  <2>2. \A b \in Radios : Contains(pipe, b) => Contains(pipe', b)
    BY <1>1, <1>4, <2>1, TailShrinks, TrafficAssumption
  <2>3. pipe'.dropped = pipe.dropped
    BY <1>1, <2>1 DEF Pipe
  <2>4. QED BY <1>2, <1>3, <2>1, <2>2, <2>3 DEF WakeInv, Noticed, Deserved
<1>8. CASE Stop
  <2>1. stopping' /\ \A a \in Radios : down'[a]
    BY <1>8 DEF Stop
  <2>2. QED BY <2>1 DEF WakeInv, Noticed, Deserved
<1>9. CASE StopDispatcher
  <2>1. stopping /\ stopping' = stopping /\ down' = down
    BY <1>9 DEF StopDispatcher
  <2>2. QED BY <1>3, <2>1 DEF WakeInv, Noticed, Deserved
<1>10. CASE StoreWritten \/ UNCHANGED vars
  <2>1. UNCHANGED <<pc, link, lost, stopping, down, pipe>>
    BY <1>10 DEF StoreWritten, supervisor, vars
  <2>2. QED BY <1>2, <1>3, <2>1 DEF WakeInv, Noticed, Deserved
<1>11. QED
  BY <1>5, <1>6, <1>7, <1>8, <1>9, <1>10 DEF Next, Feeds, Dispatch, Shutdown

LEMMA WakeUps == Spec => []WakeInv
<1>1. Init => WakeInv
  BY LinkDown DEF Init, WakeInv, Noticed, Deserved, Live
<1>2. QED BY <1>1, StepNoticed, TypeCorrect, Accounts, PTL DEF Spec

\* As long as the event queue has dropped nothing, no supervisor sleeps through
\* a link that shows down: its wake-up is set or the event that sets it waits.
THEOREM NothingSleepsThroughLoss == Spec => []NoLostWakeup
<1>1. TypeOK /\ WakeInv => NoLostWakeup
  <2> SUFFICES ASSUME WakeInv, NEW a \in Radios, pc[a] = "waiting",
                      link[a].state = "down", ~pipe.dropped
               PROVE  down[a] \/ Queued(a)
    BY DEF NoLostWakeup
  <2>1. Noticed(a) /\ IsDown(link[a]) /\ pc[a] \in Live
    BY DEF WakeInv, IsDown, Live
  <2>2. QED BY <2>1 DEF Noticed, Queued
<1>2. QED BY <1>1, WakeUps, TypeCorrect, PTL

\* A supervisor closes a session only if its loss was reported in that session.
THEOREM OnlyFreshLossEndsSession == Spec => FreshSession
<1> DEFINE A == \A a \in Radios : pc[a] = "waiting" /\ pc'[a] = "closing" => lost[a]
<1>1. TypeOK /\ WakeInv /\ [Next]_vars => [A]_vars
  <2> SUFFICES ASSUME TypeOK, WakeInv, Next,
                      NEW a \in Radios, pc[a] = "waiting", pc'[a] = "closing"
               PROVE  lost[a]
    OBVIOUS
  <2>1. \E b \in Radios : Wake(b)
    <3>1. pc'[a] # pc[a]
      OBVIOUS
    <3>2. ~UNCHANGED pc
      BY <3>1
    <3>3. PICK b \in Radios : Supervise(b) \/ DeviceOpens(b) \/ OrphanCloses(b)
      BY <3>2, HearsEffect DEF Next, Dispatch, DispatchLink, DispatchTraffic, StoreWritten, Shutdown,
                  Stop, StopDispatcher, AdapterStop, AdapterStopped, Library, Environment,
                  AnnouncesLoss, AnnouncesConnection, Announced, Dies, supervisor
    <3>4. Wake(b)
      BY <3>3 DEF TypeOK, Supervise, FirstOpen, Retry, OpenSession, OpenFails, MeshtasticUp,
                  DemoUp, MeshCoreSubscribes, ContactsLoaded, MeshCoreUp, FetchingFails,
                  Closed, SessionUp, DeviceOpens, OrphanCloses
    <3>5. QED BY <3>4
  <2>2. PICK b \in Radios : Wake(b)
    BY <2>1
  <2>3. b = a
    BY <2>2 DEF Wake, TypeOK
  <2>4. down[a] /\ ~stopping
    BY <2>2, <2>3 DEF Wake
  <2>5. QED BY <2>4 DEF WakeInv, Deserved, Live
<1>2. QED BY <1>1, WakeUps, TypeCorrect, PTL DEF Spec, FreshSession

-----------------------------------------------------------------------------
(* The error on the panel.                                                 *)

NoNews(a) == \A i \in DOMAIN posted[a] : posted[a][i] = "lost"

\* A failure is only on its way from the failed start to the next one, and in
\* that time nothing but a loss is waiting to be announced: a connection is
\* announced of a session that is up, and its announcement runs before the next.
Explained(a) ==
  /\ failed[a] => pc[a] \in {"closing", "closed", "backoff"}
  /\ pc[a] \in {"contacts", "fetching"} => Kind[a] = "meshcore"
  /\ failed[a] \/ Kind[a] # "meshtastic" \/ pc[a] \in {"begin", "opening", "opened"} => NoNews(a)
  /\ pc[a] = "backoff" /\ failed[a] => link[a] = Error \/ lost[a] \/ shut[a] # "no"

ShowInv == \A a \in Radios : Explained(a)

\* What a step of a radio leaves alone at the others.
LEMMA OthersExplained ==
  ASSUME TypeOK, NEW a \in Radios, Feeds(a) \/ Library(a), NEW b \in Radios \ {a}
  PROVE  /\ pc'[b] = pc[b] /\ failed'[b] = failed[b] /\ posted'[b] = posted[b]
         /\ link'[b] = link[b] /\ lost'[b] = lost[b] /\ shut'[b] = shut[b]
<1>0. /\ DOMAIN pc = Radios /\ DOMAIN failed = Radios /\ DOMAIN posted = Radios
      /\ DOMAIN link = Radios /\ DOMAIN lost = Radios /\ DOMAIN shut = Radios
  BY DEF TypeOK
<1> USE <1>0
<1>1. CASE Supervise(a)
  BY <1>1 DEF Supervise, FirstOpen, Retry, OpenSession, OpenFails, MeshtasticUp, DemoUp,
     MeshCoreSubscribes, ContactsLoaded, MeshCoreUp, FetchingFails, Wake, Closed, SessionUp,
     supervisor, device
<1>2. CASE Library(a)
  <2>1. posted'[b] = posted[b]
    BY <1>2 DEF Library, DeviceOpens, OrphanCloses, AnnouncesLoss, AnnouncesConnection
  <2>2. QED
    BY <1>2, <2>1 DEF Library, DeviceOpens, OrphanCloses, AnnouncesLoss, AnnouncesConnection,
       supervisor
<1>3. CASE Announced(a)
  BY <1>3 DEF Announced, supervisor
<1>4. CASE Environment(a)
  BY <1>4, HearsEffect DEF Environment, Dies, supervisor
<1>5. CASE AdapterStop(a) \/ AdapterStopped(a)
  BY <1>5 DEF AdapterStop, BeginClose, NothingToClose, AdapterStopped, supervisor
<1>6. QED BY <1>1, <1>2, <1>3, <1>4, <1>5 DEF Feeds

\* Taking the head of what is posted leaves no news there was not.
LEMMA TailNoNews ==
  ASSUME NEW s \in Seq({"lost", "connected"}), s # <<>>,
         \A i \in DOMAIN s : s[i] = "lost"
  PROVE  Head(s) = "lost" /\ \A i \in DOMAIN Tail(s) : Tail(s)[i] = "lost"
OBVIOUS

LEMMA AppendNoNews ==
  ASSUME NEW s \in Seq({"lost", "connected"}), \A i \in DOMAIN s : s[i] = "lost"
  PROVE  \A i \in DOMAIN Append(s, "lost") : Append(s, "lost")[i] = "lost"
OBVIOUS

LEMMA StepExplained ==
  ASSUME TypeOK, DeviceInv, ShowInv, NEW a \in Radios, Feeds(a) \/ Library(a)
  PROVE  Explained(a)'
<1>0. /\ Explained(a) /\ Accounted(a)
      /\ pc \in [Radios -> {"begin", "opening", "opened", "contacts", "fetching",
                            "waiting", "closing", "closed", "backoff"}]
      /\ link \in [Radios -> LinkStatus] /\ failed \in [Radios -> BOOLEAN]
      /\ lost \in [Radios -> BOOLEAN]
      /\ posted \in [Radios -> Seq({"lost", "connected"})]
      /\ shut \in [Radios -> {"no", "closing", "yes"}]
  BY DEF TypeOK, ShowInv, DeviceInv
<1>e. posted[a] = <<>> => NoNews(a)
  BY <1>0 DEF NoNews
<1> USE <1>0, <1>e DEF Explained, NoNews, supervisor, device
<1>1. CASE FirstOpen(a)
  BY <1>1 DEF FirstOpen, OpenSession
<1>2. CASE Retry(a)
  BY <1>2 DEF Retry, OpenSession
<1>3. CASE DeviceOpens(a)
  BY <1>3 DEF DeviceOpens
<1>4. CASE OrphanCloses(a)
  BY <1>4 DEF OrphanCloses
<1>5. CASE MeshtasticUp(a)
  BY <1>5 DEF MeshtasticUp, SessionUp
<1>6. CASE MeshCoreUp(a)
  BY <1>6 DEF MeshCoreUp, SessionUp
<1>7. CASE DemoUp(a)
  BY <1>7 DEF DemoUp
<1>8. CASE MeshCoreSubscribes(a)
  BY <1>8 DEF MeshCoreSubscribes
<1>9. CASE ContactsLoaded(a)
  BY <1>9 DEF ContactsLoaded
<1>10. CASE OpenFails(a)
  BY <1>10 DEF OpenFails
<1>11. CASE FetchingFails(a)
  BY <1>11 DEF FetchingFails
<1>12. CASE Wake(a)
  BY <1>12 DEF Wake
<1>13. CASE Closed(a)
  BY <1>13 DEF Closed, ShownAfterClose
<1>14. CASE Dies(a) \/ Hears(a)
  BY <1>14, HearsEffect DEF Dies
<1>15. CASE AnnouncesLoss(a)
  <2>1. NoNews(a) => NoNews(a)'
    BY <1>15, AppendNoNews DEF AnnouncesLoss
  <2>2. QED BY <1>15, <2>1 DEF AnnouncesLoss
<1>16. CASE AnnouncesConnection(a)
  <2>1. pc[a] = "waiting" /\ Kind[a] = "meshtastic"
    BY <1>16 DEF AnnouncesConnection, Accounted, Session
  <2>2. QED BY <1>16, <2>1 DEF AnnouncesConnection
<1>17. CASE Announced(a)
  <2>1. posted[a] # <<>> /\ posted'[a] = Tail(posted[a]) /\ UNCHANGED <<pc, failed, shut>>
    BY <1>17 DEF Announced
  <2>2. CASE NoNews(a)
    <3>1. Head(posted[a]) = "lost" /\ NoNews(a)'
      BY <2>1, <2>2, TailNoNews
    <3>2. lost'[a] = TRUE
      BY <1>17, <3>1 DEF Announced
    <3>3. QED BY <2>1, <3>1, <3>2
  <2>3. CASE ~NoNews(a)
    BY <2>1, <2>3
  <2>4. QED BY <2>2, <2>3
<1>18. CASE AdapterStop(a)
  BY <1>18 DEF AdapterStop, BeginClose, NothingToClose
<1>19. CASE AdapterStopped(a)
  BY <1>19 DEF AdapterStopped
<1>20. QED
  BY <1>1, <1>2, <1>3, <1>4, <1>5, <1>6, <1>7, <1>8, <1>9, <1>10, <1>11, <1>12, <1>13,
     <1>14, <1>15, <1>16, <1>17, <1>18, <1>19
     DEF Feeds, Supervise, Library, Environment

LEMMA StepShows == TypeOK /\ DeviceInv /\ ShowInv /\ [Next]_vars => ShowInv'
<1> SUFFICES ASSUME TypeOK, DeviceInv, ShowInv, [Next]_vars
             PROVE  ShowInv'
  OBVIOUS
<1>1. ASSUME NEW a \in Radios, Feeds(a) \/ Library(a)
      PROVE  ShowInv'
  <2>1. \A b \in Radios \ {a} : Explained(b)'
    BY <1>1, OthersExplained DEF ShowInv, Explained, NoNews
  <2>2. QED BY <1>1, <2>1, StepExplained DEF ShowInv
<1>2. CASE DispatchLink \/ DispatchTraffic \/ StoreWritten \/ Stop \/ StopDispatcher \/ UNCHANGED vars
  <2>1. UNCHANGED <<pc, failed, posted, link, lost, shut>>
    BY <1>2 DEF DispatchLink, DispatchTraffic, StoreWritten, Stop, StopDispatcher, vars, supervisor
  <2>2. QED BY <2>1 DEF ShowInv, Explained, NoNews
<1>3. QED BY <1>1, <1>2 DEF Next, Feeds, Dispatch, Shutdown

\* During the backoff after a failed start the panel shows the failure: neither
\* the "stopped" of the close that followed nor a late announcement of the
\* connection takes its place, unless the radio was itself reported lost.
\* About _supervise, which restores the error after stop().
THEOREM FailureStaysOnShow == Spec => []ErrorOnShow
<1>1. Init => ShowInv
  <2> SUFFICES ASSUME Init, NEW a \in Radios PROVE Explained(a)
    BY DEF ShowInv
  <2>1. pc[a] = "begin" /\ failed[a] = FALSE /\ posted[a] = <<>>
    BY DEF Init
  <2>2. NoNews(a)
    BY <2>1 DEF NoNews
  <2>3. QED BY <2>1, <2>2 DEF Explained
<1>2. ShowInv => ErrorOnShow
  BY DEF ShowInv, Explained, ErrorOnShow
<1>3. QED BY <1>1, <1>2, StepShows, TypeCorrect, Accounts, PTL DEF Spec

-----------------------------------------------------------------------------
(* The backoff.                                                            *)

\* The n-th delay: the minimum doubled n - 1 times, up to the maximum.
Backoff(n) == IF n = 1 THEN DelayMin
              ELSE LET exact == DelayMin * 2^(n - 1)
                   IN IF exact < DelayMax THEN exact ELSE DelayMax

\* During the backoff the delay is that of the attempts so far, and otherwise
\* that of the attempt that may yet fail.
Paced(a) ==
  IF pc[a] = "backoff"
  THEN attempts[a] >= 1 /\ (attempts[a] < AttemptsCap => delay[a] = Backoff(attempts[a]))
  ELSE attempts[a] < AttemptsCap => delay[a] = Backoff(attempts[a] + 1)

PaceInv == \A a \in Radios : Paced(a)

\* What _supervise does to its delay takes it to the next one.
LEMMA BackoffDoubles ==
  ASSUME NEW n \in 1..AttemptsCap, n < AttemptsCap
  PROVE  Backoff(n + 1) = IF 2 * Backoff(n) < DelayMax THEN 2 * Backoff(n) ELSE DelayMax
<1> DEFINE p == 2^(n - 1)
<1>1. n \in Nat /\ n >= 1 /\ n - 1 \in 0..AttemptsCap /\ (n - 1) + 1 = n /\ (n + 1) - 1 = n
  BY BoundsAssumption
<1>2. p \in Nat /\ 2^n = 2 * p
  BY <1>1, PowersAssumption
<1>3. DelayMin \in Nat /\ DelayMax \in Nat
  BY BoundsAssumption
<1> HIDE DEF p
<1>4. DelayMin * p \in Nat /\ DelayMin * (2 * p) = 2 * (DelayMin * p)
  BY <1>2, <1>3
<1> DEFINE x == DelayMin * p
<1>5. x \in Nat /\ DelayMin * 2^n = 2 * x
  BY <1>2, <1>4
<1>6. Backoff(n + 1) = IF 2 * x < DelayMax THEN 2 * x ELSE DelayMax
  <2>1. n + 1 # 1
    BY <1>1
  <2>2. Backoff(n + 1) = LET exact == DelayMin * 2^n
                         IN IF exact < DelayMax THEN exact ELSE DelayMax
    BY <1>1, <2>1 DEF Backoff
  <2>3. QED BY <1>5, <2>2
<1>7. CASE n = 1
  <2>1. 2^0 = 1
    OBVIOUS
  <2>2. x = DelayMin
    BY <1>3, <1>7, <2>1 DEF p
  <2>3. Backoff(n) = DelayMin
    BY <1>7 DEF Backoff
  <2>4. QED BY <1>6, <2>2, <2>3
<1>8. CASE n # 1
  <2>1. Backoff(n) = IF x < DelayMax THEN x ELSE DelayMax
    BY <1>8 DEF Backoff, p
  <2> HIDE DEF x
  <2>2. CASE x < DelayMax
    BY <1>6, <2>1, <2>2
  <2>3. CASE ~(x < DelayMax)
    <3>1. Backoff(n) = DelayMax /\ ~(2 * DelayMax < DelayMax) /\ ~(2 * x < DelayMax)
      BY <1>3, <1>5, <2>1, <2>3
    <3>2. QED BY <1>6, <3>1
  <2>4. QED BY <2>2, <2>3
<1>9. QED BY <1>7, <1>8

\* A step of a radio's own.
LEMMA StepPaced ==
  ASSUME TypeOK, NEW a \in Radios, Paced(a), Feeds(a) \/ Library(a)
  PROVE  Paced(a)'
<1>0. /\ pc \in [Radios -> {"begin", "opening", "opened", "contacts", "fetching",
                            "waiting", "closing", "closed", "backoff"}]
      /\ attempts \in [Radios -> 0..AttemptsCap] /\ delay \in [Radios -> Nat]
      /\ AttemptsCap \in Nat \ {0} /\ attempts[a] \in 0..AttemptsCap
      /\ 0 + 1 = 1 /\ Backoff(1) = DelayMin
  BY BoundsAssumption DEF TypeOK, Backoff
<1>k. ASSUME pc'[a] = "backoff" <=> pc[a] = "backoff", UNCHANGED <<attempts, delay>>
      PROVE  Paced(a)'
  BY <1>k DEF Paced, Backoff
<1> USE <1>0 DEF supervisor, device
<1>1. CASE FirstOpen(a)
  BY <1>1, <1>k DEF FirstOpen, OpenSession
<1>2. CASE Retry(a)
  <2>1. /\ pc[a] = "backoff" /\ pc'[a] = "opening" /\ attempts' = attempts
        /\ delay'[a] = IF 2 * delay[a] < DelayMax THEN 2 * delay[a] ELSE DelayMax
    BY <1>2 DEF Retry, OpenSession
  <2>2. ASSUME attempts[a] < AttemptsCap PROVE delay'[a] = Backoff(attempts[a] + 1)
    <3>1. attempts[a] \in 1..AttemptsCap /\ delay[a] = Backoff(attempts[a])
      BY <2>1, <2>2 DEF Paced
    <3>2. QED BY <2>1, <2>2, <3>1, BackoffDoubles
  <2>3. QED BY <2>1, <2>2 DEF Paced, Backoff
<1>3. CASE MeshtasticUp(a) \/ MeshCoreUp(a)
  <2>1. pc'[a] = "waiting" /\ attempts'[a] = 0 /\ delay'[a] = DelayMin
    BY <1>3 DEF MeshtasticUp, MeshCoreUp, SessionUp
  <2>2. QED BY <2>1 DEF Paced, Backoff
<1>4. CASE OpenFails(a) \/ Closed(a)
  <2>1. /\ pc[a] # "backoff" /\ pc'[a] = "backoff" /\ delay' = delay
        /\ attempts'[a] = Bump(attempts[a])
    BY <1>4 DEF OpenFails, Closed
  <2>2. CASE attempts[a] < AttemptsCap
    <3>1. attempts'[a] = attempts[a] + 1 /\ delay[a] = Backoff(attempts[a] + 1)
      BY <2>1, <2>2 DEF Bump, Paced
    <3>2. QED BY <2>1, <2>2, <3>1 DEF Paced, Backoff
  <2>3. CASE ~(attempts[a] < AttemptsCap)
    BY <2>1, <2>3 DEF Bump, Paced
  <2>4. QED BY <2>2, <2>3
<1>5. CASE DemoUp(a)
  BY <1>5, <1>k DEF DemoUp
<1>6. CASE MeshCoreSubscribes(a) \/ ContactsLoaded(a) \/ FetchingFails(a) \/ Wake(a)
  BY <1>6, <1>k DEF MeshCoreSubscribes, ContactsLoaded, FetchingFails, Wake
<1>7. CASE Library(a)
  BY <1>7, <1>k DEF Library, DeviceOpens, OrphanCloses, AnnouncesLoss, AnnouncesConnection
<1>8. CASE Announced(a) \/ Environment(a) \/ AdapterStop(a) \/ AdapterStopped(a)
  BY <1>8, <1>k, HearsEffect DEF Announced, Environment, Dies, AdapterStop, AdapterStopped
<1>9. QED
  BY <1>1, <1>2, <1>3, <1>4, <1>5, <1>6, <1>7, <1>8 DEF Feeds, Supervise

\* Nor does it touch the pace of another.
LEMMA OthersPaced ==
  ASSUME TypeOK, NEW a \in Radios, Feeds(a) \/ Library(a), NEW b \in Radios \ {a}
  PROVE  pc'[b] = pc[b] /\ attempts'[b] = attempts[b] /\ delay'[b] = delay[b]
<1>0. DOMAIN pc = Radios /\ DOMAIN attempts = Radios /\ DOMAIN delay = Radios
  BY DEF TypeOK
<1> USE <1>0 DEF supervisor, device
<1>1. CASE Supervise(a)
  BY <1>1 DEF Supervise, FirstOpen, Retry, OpenSession, OpenFails, MeshtasticUp, DemoUp,
     MeshCoreSubscribes, ContactsLoaded, MeshCoreUp, FetchingFails, Wake, Closed, SessionUp
<1>2. CASE Library(a)
  BY <1>2 DEF Library, DeviceOpens, OrphanCloses, AnnouncesLoss, AnnouncesConnection
<1>3. CASE Announced(a) \/ Environment(a) \/ AdapterStop(a) \/ AdapterStopped(a)
  BY <1>3, HearsEffect DEF Announced, Environment, Dies, AdapterStop, AdapterStopped
<1>4. QED BY <1>1, <1>2, <1>3 DEF Feeds

LEMMA StepPaces == TypeOK /\ PaceInv /\ [Next]_vars => PaceInv'
<1> SUFFICES ASSUME TypeOK, PaceInv, [Next]_vars, NEW b \in Radios
             PROVE  Paced(b)'
  BY DEF PaceInv
<1>1. Paced(b)
  BY DEF PaceInv
<1>2. ASSUME NEW a \in Radios, Feeds(a) \/ Library(a)
      PROVE  Paced(b)'
  <2>1. CASE a = b
    BY <1>1, <1>2, <2>1, StepPaced
  <2>2. CASE a # b
    <3>1. pc'[b] = pc[b] /\ attempts'[b] = attempts[b] /\ delay'[b] = delay[b]
      BY <1>2, <2>2, OthersPaced
    <3>2. QED BY <1>1, <3>1 DEF Paced, Backoff
  <2>3. QED BY <2>1, <2>2
<1>3. CASE DispatchLink \/ DispatchTraffic \/ StoreWritten \/ Stop \/ StopDispatcher \/ UNCHANGED vars
  <2>1. UNCHANGED <<pc, attempts, delay>>
    BY <1>3 DEF DispatchLink, DispatchTraffic, StoreWritten, Stop, StopDispatcher, vars, supervisor
  <2>2. QED BY <1>1, <2>1 DEF Paced, Backoff
<1>4. QED BY <1>2, <1>3 DEF Next, Feeds, Dispatch, Shutdown

\* The n-th sleep in a row is the minimum doubled n - 1 times, up to the
\* maximum, for any minimum and maximum: the attempts counter, which the panel
\* shows, and the supervisor's own delay are reset and raised at different
\* places of _supervise and never part.
THEOREM DelayFollowsAttempts == Spec => []BackoffFollowsAttempts
<1>1. Init => PaceInv
  <2> SUFFICES ASSUME Init, NEW a \in Radios PROVE Paced(a)
    BY DEF PaceInv
  <2>1. pc[a] = "begin" /\ attempts[a] = 0 /\ delay[a] = DelayMin
    BY DEF Init
  <2>2. QED BY <2>1 DEF Paced, Backoff
<1>2. PaceInv => BackoffFollowsAttempts
  BY DEF PaceInv, Paced, Backoff, BackoffFollowsAttempts
<1>3. QED BY <1>1, <1>2, StepPaces, TypeCorrect, PTL DEF Spec
=============================================================================
