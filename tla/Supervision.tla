---------------------------- MODULE Supervision ----------------------------
(***************************************************************************)
(* The registry's supervision of its radios (app/core/mesh/registry.py),   *)
(* with the start and stop of the adapters it drives, the link status they *)
(* share with it, the bounded event queue between them, and the dispatcher *)
(* whose link branch is the only thing that wakes a waiting supervisor.    *)
(*                                                                         *)
(* Everything but the Meshtastic library threads runs on one asyncio loop, *)
(* so an action is the code between two suspension points.  A link event   *)
(* carries a reference to the adapter's live LinkStatus, not a copy: the   *)
(* queue therefore holds only the key of the radio, and the dispatcher     *)
(* reads the state the link has when the event is applied.                 *)
(***************************************************************************)
EXTENDS Integers, Sequences

CONSTANTS
  Radios,     \* keys of the configured radios
  Kind,       \* Kind[a]: which adapter class serves radio a
  QueueMax,   \* capacity of the registry's event queue
  SeedMax,    \* bound: traffic events in one burst
  PostedMax,  \* bound: library callbacks waiting for the loop, per radio
  DelayMin,   \* mesh.reconnect_min_seconds
  DelayMax,   \* mesh.reconnect_max_seconds
  AttemptsCap \* bound: the attempts counter saturates here

Traffic == "traffic"   \* any node, message or telemetry event

ASSUME KindAssumption == Kind \in [Radios -> {"meshtastic", "meshcore", "demo"}]
ASSUME TrafficAssumption == Traffic \notin Radios
ASSUME BoundsAssumption ==
  /\ QueueMax \in Nat \ {0} /\ AttemptsCap \in Nat \ {0}
  /\ SeedMax \in Nat /\ PostedMax \in Nat
  /\ DelayMin \in Nat /\ DelayMax \in Nat   \* config.py does not relate the two
\* Arithmetic that the provers do not know of `^'.
ASSUME PowersAssumption ==
  \A n \in 0..AttemptsCap : 2^n \in Nat /\ 2^(n + 1) = 2 * 2^n

VARIABLES
  pc,        \* pc[a]: where a's supervisor task is suspended
  link,      \* link[a]: the shared LinkStatus, as [state, detail]
  attempts,  \* attempts[a]: LinkStatus.attempts
  delay,     \* delay[a]: the supervisor's local backoff
  failed,    \* failed[a]: the supervisor's local `failure` is not None
  down,      \* down[a]: the asyncio.Event that wakes the supervisor
  held,      \* held[a]: the adapter holds its interface and is subscribed to it
  dev,       \* dev[a]: devices opened for a and not yet closed
  alive,     \* alive[a]: the open device still answers
  lossDue,   \* lossDue[a]: the library has still to announce the device's loss
  posted,    \* posted[a]: announcements accepted and waiting to run on the loop
  lost,      \* history: a loss was reported to the adapter in this session
  pipe,      \* the registry's event queue, and whether it ever dropped an event
  busy,      \* the dispatcher is suspended in a store write
  stopping,  \* MeshRegistry._stopping
  shut,      \* shut[a]: progress of stop()'s own call of adapter a's stop()
  running    \* the dispatcher exists: FALSE once stop() has finished

supervisor == <<pc, attempts, delay, failed>>
device     == <<held, dev, alive, lossDue>>
vars == <<supervisor, device, link, down, posted, lost, pipe, busy, stopping, shut, running>>

-----------------------------------------------------------------------------
(* Link status and the event queue.                                        *)

Connecting == [state |-> "connecting", detail |-> "opening"]
Unopened   == [state |-> "connecting", detail |-> "none"]
Up         == [state |-> "up",         detail |-> "firmware"]
Reported   == [state |-> "up",         detail |-> "radio reported connected"]
Lost       == [state |-> "down",       detail |-> "radio reported loss"]
Stopped    == [state |-> "down",       detail |-> "stopped"]
Error      == [state |-> "error",      detail |-> "failure"]
Simulated  == [state |-> "demo",       detail |-> "simulated"]
LinkStatus == {Connecting, Unopened, Up, Reported, Lost, Stopped, Error, Simulated}

\* Variants named Wrong... are faulty versions of the definition that follows
\* them: each one breaks a property stated below.
WrongIsDown(status) == status.state = "error"
IsDown(status) == status.state \in {"down", "error"}

\* What the event queue can be, and whether event e waits in it.
Pipe == {p \in [queue : Seq(Radios \cup {Traffic}), dropped : BOOLEAN] :
           Len(p.queue) <= QueueMax}
Contains(p, e) == \E i \in DOMAIN p.queue : p.queue[i] = e

WrongEmit(p, event) == [p EXCEPT !.queue = Append(@, event)]
\* put_nowait, or count a drop when the queue is full.
Emit(p, event) == IF Len(p.queue) < QueueMax
                  THEN [p EXCEPT !.queue = Append(@, event)]
                  ELSE [p EXCEPT !.dropped = TRUE]

\* The event emitted by set_state, which is silent when nothing changes.
SetState(p, a, old, new) == IF old = new THEN p ELSE Emit(p, a)

\* n traffic events in a row; none, some or all of them may find the queue full.
Burst(p, n) ==
  LET room == QueueMax - Len(p.queue)
      fit  == IF n < room THEN n ELSE room
  IN [queue   |-> p.queue \o [i \in 1..fit |-> Traffic],
      dropped |-> IF fit < n THEN TRUE ELSE p.dropped]

\* The device-side half of an adapter's stop(), which runs before its first
\* suspension: forget the interface and unsubscribe from it.
Release(a) == /\ held'    = [held EXCEPT ![a] = FALSE]
              /\ lossDue' = [lossDue EXCEPT ![a] = FALSE]

TypeOK ==
  /\ pc \in [Radios -> {"begin", "opening", "opened", "contacts", "fetching",
                        "waiting", "closing", "closed", "backoff"}]
  /\ link \in [Radios -> LinkStatus]
  /\ attempts \in [Radios -> 0..AttemptsCap]
  /\ delay \in [Radios -> Nat]
  /\ failed \in [Radios -> BOOLEAN]
  /\ down \in [Radios -> BOOLEAN]
  /\ held \in [Radios -> BOOLEAN]
  /\ dev \in [Radios -> Int]
  /\ alive \in [Radios -> BOOLEAN]
  /\ lossDue \in [Radios -> BOOLEAN]
  /\ posted \in [Radios -> Seq({"lost", "connected"})]
  /\ lost \in [Radios -> BOOLEAN]
  /\ pipe \in Pipe
  /\ busy \in BOOLEAN /\ stopping \in BOOLEAN /\ running \in BOOLEAN
  /\ shut \in [Radios -> {"no", "closing", "yes"}]

\* MeshRegistry.start: one adapter, one event and one supervisor per radio.
Init ==
  /\ pc       = [a \in Radios |-> "begin"]
  /\ link     = [a \in Radios |-> Unopened]
  /\ attempts = [a \in Radios |-> 0]
  /\ delay    = [a \in Radios |-> DelayMin]
  /\ failed   = [a \in Radios |-> FALSE]
  /\ down     = [a \in Radios |-> FALSE]
  /\ held     = [a \in Radios |-> FALSE]
  /\ dev      = [a \in Radios |-> 0]
  /\ alive    = [a \in Radios |-> FALSE]
  /\ lossDue  = [a \in Radios |-> FALSE]
  /\ posted   = [a \in Radios |-> <<>>]
  /\ lost     = [a \in Radios |-> FALSE]
  /\ pipe     = [queue |-> <<>>, dropped |-> FALSE]
  /\ busy = FALSE /\ stopping = FALSE /\ running = TRUE
  /\ shut     = [a \in Radios |-> "no"]

-----------------------------------------------------------------------------
(* The supervisor of one radio.                                            *)

WrongClearWakeup(a) == UNCHANGED down
ClearWakeup(a) == down' = [down EXCEPT ![a] = FALSE]

\* The head of the supervisor's loop up to the first suspension of start():
\* the wake-up is cleared and the link reports that it is opening.
OpenSession(a) ==
  /\ ~stopping
  /\ Kind[a] # "demo"
  /\ pc'   = [pc EXCEPT ![a] = "opening"]
  /\ ClearWakeup(a)
  /\ lost' = [lost EXCEPT ![a] = FALSE]
  /\ failed' = [failed EXCEPT ![a] = FALSE]
  /\ link' = [link EXCEPT ![a] = Connecting]
  /\ pipe' = SetState(pipe, a, link[a], Connecting)
  /\ UNCHANGED <<attempts, device, posted, busy, stopping, shut, running>>

FirstOpen(a) == pc[a] = "begin" /\ UNCHANGED delay /\ OpenSession(a)

WrongRetry(a) ==    \* gives up on a radio that keeps failing
  /\ pc[a] = "backoff" /\ attempts[a] < AttemptsCap
  /\ UNCHANGED delay /\ OpenSession(a)
\* The backoff sleep ends.  Callbacks posted before it have run by then.
Retry(a) ==
  /\ pc[a] = "backoff"
  /\ posted[a] = <<>>
  /\ delay' = [delay EXCEPT ![a] = IF 2 * @ < DelayMax THEN 2 * @ ELSE DelayMax]
  /\ OpenSession(a)

\* The library has opened the device: in the worker thread for Meshtastic,
\* which runs on when its supervisor is cancelled, in the supervisor's own
\* task for MeshCore.  The adapter does not hold the interface yet.
DeviceOpens(a) ==
  /\ pc[a] = "opening"
  /\ stopping => Kind[a] = "meshtastic"
  /\ pc'      = [pc EXCEPT ![a] = "opened"]
  /\ dev'     = [dev EXCEPT ![a] = @ + 1]
  /\ alive'   = [alive EXCEPT ![a] = TRUE]
  /\ UNCHANGED <<attempts, delay, failed, held, lossDue, link, down, posted, lost,
                 pipe, busy, stopping, shut, running>>

WrongSessionUp(a) ==
  /\ pc'       = [pc EXCEPT ![a] = "waiting"]
  /\ attempts' = [attempts EXCEPT ![a] = 0]
  /\ link'     = [link EXCEPT ![a] = Up]
  /\ UNCHANGED delay
\* start() returned: the backoff starts over.
SessionUp(a) ==
  /\ pc'       = [pc EXCEPT ![a] = "waiting"]
  /\ delay'    = [delay EXCEPT ![a] = DelayMin]
  /\ attempts' = [attempts EXCEPT ![a] = 0]
  /\ link'     = [link EXCEPT ![a] = Up]

\* The Meshtastic start() resumes: subscribe, seed from the node database, up.
MeshtasticUp(a) ==
  /\ pc[a] = "opened" /\ ~stopping
  /\ Kind[a] = "meshtastic"
  /\ held' = [held EXCEPT ![a] = TRUE]
  /\ SessionUp(a)
  /\ \E n \in 0..SeedMax : pipe' = SetState(Burst(pipe, n), a, link[a], Up)
  /\ UNCHANGED <<failed, dev, alive, lossDue, down, posted, lost, busy, stopping,
                 shut, running>>

\* The MeshCore start() resumes from its factory: subscribe, publish the
\* self-info node if there is one, and ask for the contacts.
MeshCoreSubscribes(a) ==
  /\ pc[a] = "opened" /\ ~stopping
  /\ Kind[a] = "meshcore"
  /\ held' = [held EXCEPT ![a] = TRUE]
  /\ pc'   = [pc EXCEPT ![a] = "contacts"]
  /\ \E n \in 0..1 : pipe' = Burst(pipe, n)
  /\ UNCHANGED <<attempts, delay, failed, dev, alive, lossDue, link, down, posted,
                 lost, busy, stopping, shut, running>>

\* ensure_contacts has returned or raised: publish what there is, and start
\* the automatic message fetching.
ContactsLoaded(a) ==
  /\ pc[a] = "contacts" /\ ~stopping
  /\ pc' = [pc EXCEPT ![a] = "fetching"]
  /\ \E n \in 0..SeedMax : pipe' = Burst(pipe, n)
  /\ UNCHANGED <<attempts, delay, failed, device, link, down, posted, lost, busy,
                 stopping, shut, running>>

MeshCoreUp(a) ==
  /\ pc[a] = "fetching" /\ ~stopping
  /\ SessionUp(a)
  /\ pipe' = SetState(pipe, a, link[a], Up)
  /\ UNCHANGED <<failed, device, down, posted, lost, busy, stopping, shut, running>>

\* The task that chatters on a simulated link is what its stop() has to end.
WrongStartTask(a) == dev' = [dev EXCEPT ![a] = @ + 1] /\ UNCHANGED held
StartTask(a) == dev' = [dev EXCEPT ![a] = @ + 1] /\ held' = [held EXCEPT ![a] = TRUE]

\* A simulated link: start() never suspends, and has no seeding that matters.
DemoUp(a) ==
  /\ pc[a] = "begin" /\ ~stopping
  /\ Kind[a] = "demo"
  /\ pc'   = [pc EXCEPT ![a] = "waiting"]
  /\ ClearWakeup(a)
  /\ link' = [link EXCEPT ![a] = Simulated]
  /\ StartTask(a)
  /\ alive' = [alive EXCEPT ![a] = TRUE]
  /\ \E n \in 0..SeedMax : pipe' = Burst(SetState(pipe, a, link[a], Simulated), n)
  /\ UNCHANGED <<attempts, delay, failed, lossDue, posted, lost, busy, stopping,
                 shut, running>>

Bump(n) == IF n < AttemptsCap THEN n + 1 ELSE n

\* start() raised before there was anything to close.  The supervisor reports
\* the error, stops the adapter (which for Meshtastic reports "stopped", and
\* for MeshCore returns early), counts the attempt, restores the error and
\* sleeps; nothing in that path suspends.
OpenFails(a) ==
  /\ pc[a] = "opening" /\ ~stopping
  /\ pc'       = [pc EXCEPT ![a] = "backoff"]
  /\ failed'   = [failed EXCEPT ![a] = TRUE]
  /\ attempts' = [attempts EXCEPT ![a] = Bump(@)]
  /\ link'     = [link EXCEPT ![a] = Error]
  /\ pipe' = LET reported == SetState(pipe, a, link[a], Error)
             IN IF Kind[a] = "meshtastic"
                THEN SetState(SetState(reported, a, Error, Stopped), a, Stopped, Error)
                ELSE reported
  /\ UNCHANGED <<delay, device, down, posted, lost, busy, stopping, shut, running>>

WrongFetchingFails(a) ==    \* backs off without closing the adapter
  /\ pc[a] = "fetching" /\ ~stopping
  /\ pc'     = [pc EXCEPT ![a] = "backoff"]
  /\ failed' = [failed EXCEPT ![a] = TRUE]
  /\ link'   = [link EXCEPT ![a] = Error]
  /\ UNCHANGED <<attempts, delay, device, down, posted, lost, pipe, busy, stopping,
                 shut, running>>
\* start_auto_message_fetching raised: report the error and begin to close.
FetchingFails(a) ==
  /\ pc[a] = "fetching" /\ ~stopping
  /\ pc'     = [pc EXCEPT ![a] = "closing"]
  /\ failed' = [failed EXCEPT ![a] = TRUE]
  /\ link'   = [link EXCEPT ![a] = Error]
  /\ pipe'   = SetState(pipe, a, link[a], Error)
  /\ Release(a)
  /\ UNCHANGED <<attempts, delay, dev, alive, down, posted, lost, busy, stopping,
                 shut, running>>

\* down.wait() returns and the supervisor begins to close the adapter.
Wake(a) ==
  /\ pc[a] = "waiting" /\ ~stopping
  /\ down[a]
  /\ pc' = [pc EXCEPT ![a] = "closing"]
  /\ Release(a)
  /\ UNCHANGED <<attempts, delay, failed, dev, alive, link, down, posted, lost,
                 pipe, busy, stopping, shut, running>>

WrongShownAfterClose(a) == Stopped
ShownAfterClose(a) == IF failed[a] THEN Error ELSE Stopped

\* The device is closed; an error that started all this is put back on show.
Closed(a) ==
  /\ pc[a] = "closing" /\ ~stopping
  /\ pc'       = [pc EXCEPT ![a] = "backoff"]
  /\ dev'      = [dev EXCEPT ![a] = @ - 1]
  /\ alive'    = [alive EXCEPT ![a] = FALSE]
  /\ attempts' = [attempts EXCEPT ![a] = Bump(@)]
  /\ link' = [link EXCEPT ![a] = ShownAfterClose(a)]
  /\ pipe' = SetState(SetState(pipe, a, link[a], Stopped), a, Stopped, ShownAfterClose(a))
  /\ UNCHANGED <<delay, failed, held, lossDue, down, posted, lost, busy, stopping,
                 shut, running>>

-----------------------------------------------------------------------------
(* The radio and its library.                                              *)

Dies(a) ==
  /\ alive[a] /\ Kind[a] # "demo"
  /\ alive'   = [alive EXCEPT ![a] = FALSE]
  /\ lossDue' = [lossDue EXCEPT ![a] = pc[a] # "closing"]
  /\ UNCHANGED <<supervisor, held, dev, link, down, posted, lost, pipe, busy,
                 stopping, shut, running>>

\* The library announces the loss once.  Nobody hears it unless the adapter is
\* subscribed and recognises the interface as its own.
AnnouncesLoss(a) ==
  /\ lossDue[a]
  /\ Len(posted[a]) < PostedMax
  /\ lossDue' = [lossDue EXCEPT ![a] = FALSE]
  /\ posted'  = IF held[a] THEN [posted EXCEPT ![a] = Append(@, "lost")] ELSE posted
  /\ UNCHANGED <<supervisor, held, dev, alive, link, down, lost, pipe, busy,
                 stopping, shut, running>>

\* Meshtastic also announces a connection, some time after it was made.
AnnouncesConnection(a) ==
  /\ Kind[a] = "meshtastic"
  /\ held[a] /\ alive[a]
  /\ posted[a] = <<>> /\ PostedMax > 0
  /\ posted' = [posted EXCEPT ![a] = <<"connected">>]
  /\ UNCHANGED <<supervisor, device, link, down, lost, pipe, busy, stopping, shut,
                 running>>

\* An announcement runs on the loop, whatever has happened in the meantime.
Announced(a) ==
  /\ running
  /\ posted[a] # <<>>
  /\ posted' = [posted EXCEPT ![a] = Tail(@)]
  /\ LET loss == Head(posted[a]) = "lost"
         new  == IF loss THEN Lost ELSE Reported
     IN /\ link' = [link EXCEPT ![a] = new]
        /\ pipe' = SetState(pipe, a, link[a], new)
        /\ lost' = [lost EXCEPT ![a] = @ \/ loss]
  /\ UNCHANGED <<supervisor, device, down, busy, stopping, shut, running>>

\* What an arriving packet becomes: traffic events, in one go.
Heard(a, n) ==
  /\ running
  /\ held[a] /\ alive[a]
  /\ pipe' = Burst(pipe, n)
  /\ UNCHANGED <<supervisor, device, link, down, posted, lost, busy, stopping, shut,
                 running>>

\* A sighting, a reading or a message with its sighting; or nothing readable.
PacketHeard(a) ==
  Kind[a] = "meshtastic" /\ \E n \in 1..SeedMax : Heard(a, n)

EventHeard(a) ==
  Kind[a] = "meshcore" /\ \E n \in 1..SeedMax : Heard(a, n)

\* The simulated mesh: readings, perhaps a message, a sighting.
Chatter(a) ==
  Kind[a] = "demo" /\ \E n \in 1..SeedMax : Heard(a, n)

Hears(a) == PacketHeard(a) \/ EventHeard(a) \/ Chatter(a)

-----------------------------------------------------------------------------
(* The dispatcher.                                                         *)

\* A link event is taken and applied without a suspension: the state it is
\* judged by is the link's state now.
DispatchLink ==
  /\ running /\ ~busy
  /\ pipe.queue # <<>> /\ Head(pipe.queue) \in Radios
  /\ LET a == Head(pipe.queue)
     IN down' = [down EXCEPT ![a] = @ \/ IsDown(link[a])]
  /\ pipe' = [pipe EXCEPT !.queue = Tail(@)]
  /\ UNCHANGED <<supervisor, device, link, posted, lost, busy, stopping, shut, running>>

\* Any other event suspends the dispatcher in a store write.
DispatchTraffic ==
  /\ running /\ ~busy
  /\ pipe.queue # <<>> /\ Head(pipe.queue) = Traffic
  /\ pipe' = [pipe EXCEPT !.queue = Tail(@)]
  /\ busy' = TRUE
  /\ UNCHANGED <<supervisor, device, link, down, posted, lost, stopping, shut, running>>

StoreWritten ==
  /\ running /\ busy
  /\ busy' = FALSE
  /\ UNCHANGED <<supervisor, device, link, down, posted, lost, pipe, stopping, shut,
                 running>>

-----------------------------------------------------------------------------
(* MeshRegistry.stop.  A cancelled supervisor never runs again, so its pc  *)
(* keeps the place where the cancellation found it.                        *)

Stop ==
  /\ ~stopping
  /\ stopping' = TRUE
  /\ down' = [a \in Radios |-> TRUE]
  /\ UNCHANGED <<supervisor, device, link, posted, lost, pipe, busy, shut, running>>

\* A Meshtastic close runs in a worker thread and survives the cancellation.
OrphanCloses(a) ==
  /\ stopping
  /\ pc[a] = "closing" /\ Kind[a] = "meshtastic"
  /\ pc'    = [pc EXCEPT ![a] = "closed"]
  /\ dev'   = [dev EXCEPT ![a] = @ - 1]
  /\ alive' = [alive EXCEPT ![a] = FALSE]
  /\ UNCHANGED <<attempts, delay, failed, held, lossDue, link, down, posted, lost,
                 pipe, busy, stopping, shut, running>>

WrongBeginClose(a) ==    \* leaves the closing to the cancelled supervisor
  /\ held[a]
  /\ shut' = [shut EXCEPT ![a] = "yes"]
  /\ UNCHANGED <<held, lossDue, link, pipe>>
BeginClose(a) ==
  /\ held[a]
  /\ shut' = [shut EXCEPT ![a] = "closing"]
  /\ Release(a)
  /\ UNCHANGED <<link, pipe>>

WrongNothingToClose(a) == FALSE
\* The MeshCore stop() then returns before it would report "stopped".
NothingToClose(a) ==
  /\ ~held[a]
  /\ shut' = [shut EXCEPT ![a] = "yes"]
  /\ IF Kind[a] = "meshcore"
     THEN UNCHANGED <<link, pipe>>
     ELSE /\ link' = [link EXCEPT ![a] = Stopped]
          /\ pipe' = SetState(pipe, a, link[a], Stopped)
  /\ UNCHANGED <<held, lossDue>>

\* stop() reaches adapter a, one adapter at a time.
AdapterStop(a) ==
  /\ stopping
  /\ shut[a] = "no"
  /\ \A b \in Radios : shut[b] # "closing"
  /\ BeginClose(a) \/ NothingToClose(a)
  /\ UNCHANGED <<supervisor, dev, alive, down, posted, lost, busy, stopping, running>>

AdapterStopped(a) ==
  /\ shut[a] = "closing"
  /\ shut'  = [shut EXCEPT ![a] = "yes"]
  /\ dev'   = [dev EXCEPT ![a] = @ - 1]
  /\ alive' = [alive EXCEPT ![a] = FALSE]
  /\ link'  = [link EXCEPT ![a] = Stopped]
  /\ pipe'  = SetState(pipe, a, link[a], Stopped)
  /\ UNCHANGED <<supervisor, held, lossDue, down, posted, lost, busy, stopping, running>>

WrongStopDispatcher ==    \* does not wait for the adapters
  /\ running /\ stopping
  /\ running' = FALSE
  /\ busy' = FALSE
  /\ pipe' = [pipe EXCEPT !.queue = <<>>]
  /\ UNCHANGED <<supervisor, device, link, down, posted, lost, stopping, shut>>
\* Every adapter is stopped: cancel the dispatcher, and lose what it had queued.
StopDispatcher ==
  /\ running /\ stopping
  /\ \A a \in Radios : shut[a] = "yes"
  /\ running' = FALSE
  /\ busy' = FALSE
  /\ pipe' = [pipe EXCEPT !.queue = <<>>]
  /\ UNCHANGED <<supervisor, device, link, down, posted, lost, stopping, shut>>

-----------------------------------------------------------------------------
Supervise(a) ==
  \/ FirstOpen(a) \/ Retry(a) \/ OpenFails(a)
  \/ MeshtasticUp(a) \/ DemoUp(a)
  \/ MeshCoreSubscribes(a) \/ ContactsLoaded(a) \/ MeshCoreUp(a) \/ FetchingFails(a)
  \/ Wake(a) \/ Closed(a)

Library(a) ==
  DeviceOpens(a) \/ OrphanCloses(a) \/ AnnouncesLoss(a) \/ AnnouncesConnection(a)

Environment(a) == Dies(a) \/ Hears(a)

Dispatch == DispatchLink \/ DispatchTraffic \/ StoreWritten

Shutdown == Stop \/ StopDispatcher \/ \E a \in Radios : AdapterStop(a) \/ AdapterStopped(a)

Next ==
  \/ \E a \in Radios : Supervise(a) \/ Library(a) \/ Announced(a) \/ Environment(a)
  \/ Dispatch
  \/ Shutdown

Spec == Init /\ [][Next]_vars

\* The loop keeps running what is ready, a store write and a device close end,
\* an open ends one way or the other, and a lost radio is announced.  Nothing
\* is assumed of radios dying or talking, nor that an open ever succeeds.
Fairness ==
  /\ WF_vars(Dispatch)
  /\ WF_vars(StopDispatcher)
  /\ \A a \in Radios :
       /\ WF_vars(Supervise(a) \/ DeviceOpens(a))
       /\ WF_vars(AnnouncesLoss(a))
       /\ WF_vars(Announced(a))
       /\ WF_vars(OrphanCloses(a))
       /\ WF_vars(AdapterStop(a) \/ AdapterStopped(a))

FairSpec == Spec /\ Fairness

-----------------------------------------------------------------------------
(* Properties.                                                             *)

Queued(a) == Contains(pipe, a)

\* No supervisor sleeps through a loss: while the link shows down and nothing
\* was dropped, the wake-up is set or the event that will set it is on its way.
NoLostWakeup ==
  \A a \in Radios : pc[a] = "waiting" /\ link[a].state = "down" /\ ~pipe.dropped
                      => down[a] \/ Queued(a)

\* Each radio has at most one open device, however opens, losses, failed
\* starts, closes and the shutdown interleave; two would fight over one port.
OneDevice == \A a \in Radios : dev[a] \in {0, 1}

\* During the backoff after a failed start the panel shows why it failed, not
\* the "stopped" that closing reported, unless the device itself said it left.
ErrorOnShow ==
  \A a \in Radios : pc[a] = "backoff" /\ failed[a] => link[a] = Error \/ lost[a] \/ shut[a] # "no"

\* The n-th sleep in a row is the minimum doubled n-1 times, up to the maximum:
\* the panel's attempts counter and the supervisor's private delay never part.
BackoffFollowsAttempts ==
  \A a \in Radios :
    pc[a] = "backoff" /\ attempts[a] < AttemptsCap =>
      delay[a] = IF attempts[a] = 1 THEN DelayMin
                 ELSE LET exact == DelayMin * 2^(attempts[a] - 1)
                      IN IF exact < DelayMax THEN exact ELSE DelayMax

\* Once stop() has finished, a device can still be open only where the
\* cancellation caught its supervisor inside an open or inside a close.
OnlyCancelledLeak ==
  ~running => \A a \in Radios : dev[a] # 0 => pc[a] \in {"opened", "closing"}

\* The registry's claim that a link reporting itself down wakes the supervisor,
\* without the reservation for dropped events.
WokenWhenDown ==
  \A a \in Radios : pc[a] = "waiting" /\ link[a].state = "down" => down[a] \/ Queued(a)

\* A device lost after the adapter subscribed to it, whose loss the adapter has
\* handled, is being reopened or about to be, even with no event dropped.
HandledLossReopens ==
  \A a \in Radios :
    pc[a] = "waiting" /\ lost[a] /\ ~alive[a] /\ posted[a] = <<>> /\ ~pipe.dropped
      => down[a] \/ Queued(a)

\* The clean close that shutdown waits for: no device is left open except by a
\* worker thread that is still closing it.
CleanClose == ~running => \A a \in Radios : dev[a] = 0 \/ pc[a] = "closing"

\* A supervisor gives up a session only if that session was reported lost:
\* neither the "stopped" its own last close emitted nor an old error, still
\* queued when the new session starts, can tear the new one down.
FreshSession ==
  [][\A a \in Radios : pc[a] = "waiting" /\ pc'[a] = "closing" => lost[a]]_vars

\* A link that stays down while nothing is dropped is reopened, unless stopped.
Reopens ==
  \A a \in Radios :
    (pc[a] = "waiting" /\ link[a].state = "down")
      ~> (pc[a] = "opening" \/ stopping \/ pipe.dropped \/ link[a].state # "down")

\* A failed open is always tried again, whatever the other radios do.
Retries == \A a \in Radios : pc[a] = "backoff" ~> (pc[a] = "opening" \/ stopping)

\* Shutdown ends.
ShutdownEnds == stopping ~> ~running

-----------------------------------------------------------------------------
(* The ports as PortLease describes them.                                  *)

Session == {"contacts", "fetching", "waiting"}   \* the adapter is subscribed

\* Whose the open device of radio a is; nobody's value if it is open twice.
Holder(a) ==
  CASE dev[a] = 0  -> "free"
    [] dev[a] = 1  -> IF ~stopping THEN "session"
                      ELSE IF pc[a] \in Session THEN "shutdown" ELSE "abandoned"
    [] OTHER       -> "contested"

Lease == INSTANCE PortLease
           WITH holder <- [a \in Radios |-> Holder(a)], ended <- ~running

\* The radios' ports are leased as PortLease says, step by step: no port is
\* opened while it is open, and the shutdown ends with every session closed.
LeaseKept == Lease!Spec
=============================================================================
