------------------------------- MODULE Stream -------------------------------
(***************************************************************************)
(* Live updates: the dispatcher's writes and fanout (registry.py), the SSE *)
(* endpoint that subscribes a browser and sends it a snapshot (routes.py), *)
(* and the browser that folds both into what it shows (static/js/app.js).  *)
(*                                                                         *)
(* The dispatcher suspends in a store write after it has changed the node  *)
(* or telemetry cache and before it fans the event out, and before it      *)
(* changes the message cache.  The endpoint suspends between subscribing   *)
(* and building the snapshot.  What falls into those gaps reaches the      *)
(* browser twice, and must not be missed.                                  *)
(***************************************************************************)
EXTENDS Integers, Sequences, FiniteSets

CONSTANTS
  Clients,       \* browsers with the dashboard open
  Nodes,         \* nodes of the mesh
  QueueMax,      \* capacity of the registry's event queue
  SubscriberMax, \* capacity of a subscriber's queue
  NodeLimit,     \* nodes in a snapshot
  SnapshotMax,   \* messages in a snapshot
  ListMax,       \* messages the browser keeps
  PointsMax,     \* points of a series, in the store and in the browser
  EventCap,      \* bound: events the radios emit
  VisitCap       \* bound: connections a browser makes

ASSUME NodeAssumption == Nodes # {}
ASSUME LimitAssumption ==
  /\ QueueMax \in Nat \ {0} /\ SubscriberMax \in Nat \ {0} /\ PointsMax \in Nat \ {0}
  /\ SnapshotMax \in Nat /\ ListMax \in Nat /\ ListMax >= 2 * SnapshotMax   \* 100, 200
  /\ NodeLimit \in Nat /\ EventCap \in Nat /\ VisitCap \in Nat

VARIABLES
  input,   \* the registry's event queue
  born,    \* bound: number of events emitted so far; event n is the n-th
  job,     \* the event whose store write the dispatcher waits for, if any
  link,    \* the live LinkStatus of the one radio: the event that set it last
  nodes,   \* the store's node cache: the last event merged into each node
  list,    \* the store's message cache, newest first
  points,  \* the store's telemetry series
  phase,   \* phase[c]: the SSE request of client c
  visits,  \* bound: connections c has made
  sub,     \* sub[c]: the queue subscribe() made, while it is registered
  left,    \* the queues that nobody will ever read or unregister: left[k] of
           \* them hold k events
  unheard, \* history: the full event queue dropped a link event, and none was
           \* taken from it since
  unsaid,  \* history: a write failed, and what the cache holds was not fanned out
  missed,  \* missed[c]: history: this subscription dropped an event
  view     \* view[c]: what the browser shows

server == <<input, born, job, link, nodes, list, points>>
vars == <<server, phase, visits, sub, left, unheard, unsaid, missed, view>>

Kinds == {"node", "message", "telemetry", "link"}
Event == [kind : Kinds, n : 1..EventCap, node : Nodes]
NoJob == [kind |-> "none"]
Blank == [link |-> 0, nodes |-> [x \in Nodes |-> 0], list |-> <<>>, points |-> <<>>]
View  == [link : 0..EventCap, nodes : [Nodes -> 0..EventCap],
          list : Seq(1..EventCap), points : Seq(1..EventCap)]

TypeOK ==
  /\ input \in Seq(Event) /\ Len(input) <= QueueMax /\ born \in 0..EventCap
  /\ job \in Event \cup {NoJob}
  /\ link \in 0..EventCap /\ nodes \in [Nodes -> 0..EventCap]
  /\ list \in Seq(1..EventCap) /\ points \in Seq(1..EventCap)
  /\ phase \in [Clients -> {"away", "subscribed", "streaming", "closed"}]
  /\ visits \in [Clients -> 0..VisitCap]
  /\ sub \in [Clients -> Seq(Event)]
  /\ left \in [0..SubscriberMax -> Nat]
  /\ unheard \in BOOLEAN /\ unsaid \in BOOLEAN /\ missed \in [Clients -> BOOLEAN]
  /\ view \in [Clients -> View]
  /\ \A c \in Clients : /\ Len(sub[c]) <= SubscriberMax
                        /\ Len(view[c].list) <= ListMax
                        /\ Len(view[c].points) <= PointsMax

Init ==
  /\ input = <<>> /\ born = 0 /\ job = NoJob
  /\ link = 0 /\ nodes = [x \in Nodes |-> 0] /\ list = <<>> /\ points = <<>>
  /\ phase  = [c \in Clients |-> "away"]
  /\ visits = [c \in Clients |-> 0]
  /\ sub    = [c \in Clients |-> <<>>]
  /\ left   = [k \in 0..SubscriberMax |-> 0]
  /\ unheard = FALSE /\ unsaid = FALSE
  /\ missed = [c \in Clients |-> FALSE]
  /\ view   = [c \in Clients |-> Blank]

-----------------------------------------------------------------------------
(* The radios and the dispatcher.                                          *)

Newest(s, n)  == SubSeq(s, 1, IF Len(s) < n THEN Len(s) ELSE n)
Latest(s, n)  == SubSeq(s, IF Len(s) < n THEN 1 ELSE Len(s) - n + 1, Len(s))
Subscribed(c) == phase[c] # "away"

\* _emit(): put the event in the registry's queue; a full one drops it.
Enqueue(e) ==
  \/ /\ Len(input) < QueueMax
     /\ input' = Append(input, e)
     /\ UNCHANGED unheard
  \/ /\ Len(input) >= QueueMax
     /\ unheard' = (unheard \/ e.kind = "link")
     /\ UNCHANGED input

\* A radio emits an event.  A link event changes the live status at once, also
\* when the queue drops it; the event itself only refers to the status.
Emit(kind, x) ==
  /\ born < EventCap
  /\ kind # "node" => x = CHOOSE y \in Nodes : TRUE   \* whose it is matters to nodes only
  /\ born' = born + 1
  /\ Enqueue([kind |-> kind, n |-> born + 1, node |-> x])
  /\ link' = IF kind = "link" THEN born + 1 ELSE link
  /\ UNCHANGED <<job, nodes, list, points, phase, visits, sub, left, unsaid, missed,
                 view>>

WrongFanout(e) ==    \* a full queue ends the round
  /\ sub' = IF left[SubscriberMax] = 0
            THEN [c \in Clients |-> IF Subscribed(c) /\ Len(sub[c]) < SubscriberMax
                                    THEN Append(sub[c], e) ELSE sub[c]]
            ELSE sub
  /\ UNCHANGED <<left, missed>>
\* Put the event in every subscriber's queue; a full one drops it for that
\* subscriber alone.
Fanout(e) ==
  /\ sub' = [c \in Clients |->
               IF Subscribed(c) /\ Len(sub[c]) < SubscriberMax
               THEN Append(sub[c], e) ELSE sub[c]]
  /\ left' = [k \in 0..SubscriberMax |->
                (IF k = 0 THEN 0 ELSE left[k - 1])
                  + (IF k = SubscriberMax THEN left[k] ELSE 0)]
  /\ missed' = [c \in Clients |->
                  missed[c] \/ (Subscribed(c) /\ Len(sub[c]) >= SubscriberMax)]

\* The next event is taken.  Node and telemetry caches change before the write,
\* the message cache after it; a link event is not written at all, and carries
\* the status as it is when the event is taken, dropped changes included.
TakeLink ==
  /\ job = NoJob
  /\ input # <<>> /\ Head(input).kind = "link"
  /\ input' = Tail(input)
  /\ Fanout([Head(input) EXCEPT !.n = link])
  /\ unheard' = FALSE
  /\ UNCHANGED <<born, job, link, nodes, list, points, phase, visits, unsaid, view>>

TakeWritten ==
  /\ job = NoJob
  /\ input # <<>> /\ Head(input).kind # "link"
  /\ job' = Head(input)
  /\ input' = Tail(input)
  /\ nodes' = IF job'.kind = "node" THEN [nodes EXCEPT ![job'.node] = job'.n] ELSE nodes
  /\ points' = IF job'.kind = "telemetry" THEN Latest(Append(points, job'.n), PointsMax) ELSE points
  /\ UNCHANGED <<born, link, list, phase, visits, sub, left, unheard, unsaid, missed, view>>

\* The write is done: cache a message, and fan out without suspending again.
Written ==
  /\ job # NoJob
  /\ list' = IF job.kind = "message" THEN <<job.n>> \o list ELSE list
  /\ Fanout(job)
  /\ job' = NoJob
  /\ UNCHANGED <<input, born, link, nodes, points, phase, visits, unheard, unsaid, view>>

\* The write fails: the dispatcher logs it and fans nothing out.
WriteFails ==
  /\ job # NoJob
  /\ unsaid' = (unsaid \/ job.kind # "message")
  /\ job' = NoJob
  /\ UNCHANGED <<input, born, link, nodes, list, points, phase, visits, sub, left,
                 unheard, missed, view>>

-----------------------------------------------------------------------------
(* One SSE request.                                                        *)

\* stream(): subscribe, and hand the generator to the server.
Subscribe(c) ==
  /\ phase[c] = "away"
  /\ visits[c] < VisitCap
  /\ visits' = [visits EXCEPT ![c] = @ + 1]
  /\ phase'  = [phase EXCEPT ![c] = "subscribed"]
  /\ sub'    = [sub EXCEPT ![c] = <<>>]
  /\ missed' = [missed EXCEPT ![c] = FALSE]
  /\ UNCHANGED <<server, left, unheard, unsaid, view>>

\* The nodes of a snapshot: as many as fit, by a timestamp the nodes report.
Chosen == {s \in SUBSET {x \in Nodes : nodes[x] # 0} :
             \/ Cardinality(s) = NodeLimit
             \/ Cardinality(s) < NodeLimit /\ \A x \in Nodes : nodes[x] # 0 => x \in s}

WrongFold(v, e) ==    \* the list grows without bound
  CASE e.kind = "link"      -> [v EXCEPT !.link = e.n]
    [] e.kind = "node"      -> [v EXCEPT !.nodes[e.node] = e.n]
    [] e.kind = "message"   -> [v EXCEPT !.list = <<e.n>> \o @]
    [] e.kind = "telemetry" -> [v EXCEPT !.points = Latest(Append(@, e.n), PointsMax)]
WrongFoldLink(v, e) ==    \* link events are not listened for
  IF e.kind = "link" THEN v ELSE WrongFold(v, e)
\* applyLink, applyNode, applyMessage, applyTelemetry.
Fold(v, e) ==
  CASE e.kind = "link"      -> [v EXCEPT !.link = e.n]
    [] e.kind = "node"      -> [v EXCEPT !.nodes[e.node] = e.n]
    [] e.kind = "message"   -> [v EXCEPT !.list = Newest(<<e.n>> \o @, ListMax)]
    [] e.kind = "telemetry" -> [v EXCEPT !.points = Latest(Append(@, e.n), PointsMax)]

WrongSnapshot(c) ==    \* folds the nodes into those on the page
  /\ phase[c] = "subscribed"
  /\ phase' = [phase EXCEPT ![c] = "streaming"]
  /\ \E chosen \in Chosen :
       view' = [view EXCEPT ![c] =
                  [link   |-> link,
                   nodes  |-> [x \in Nodes |-> IF x \in chosen THEN nodes[x] ELSE @.nodes[x]],
                   list   |-> Newest(list, SnapshotMax),
                   points |-> points]]
  /\ UNCHANGED <<server, visits, sub, left, unheard, unsaid, missed>>
\* The generator starts: everything the store holds, built without suspending
\* and put in place of what the browser showed.
Snapshot(c) ==
  /\ phase[c] = "subscribed"
  /\ phase' = [phase EXCEPT ![c] = "streaming"]
  /\ \E chosen \in Chosen :
       view' = [view EXCEPT ![c] =
                  [link   |-> link,
                   nodes  |-> [x \in Nodes |-> IF x \in chosen THEN nodes[x] ELSE 0],
                   list   |-> Newest(list, SnapshotMax),
                   points |-> points]]
  /\ UNCHANGED <<server, visits, sub, left, unheard, unsaid, missed>>

Deliver(c) ==
  /\ phase[c] = "streaming"
  /\ sub[c] # <<>>
  /\ view' = [view EXCEPT ![c] = Fold(@, Head(sub[c]))]
  /\ sub'  = [sub EXCEPT ![c] = Tail(@)]
  /\ UNCHANGED <<server, phase, visits, left, unheard, unsaid, missed>>

\* The browser goes away while it is being served.
Close(c) ==
  /\ phase[c] = "streaming"
  /\ phase' = [phase EXCEPT ![c] = "closed"]
  /\ UNCHANGED <<server, visits, sub, left, unheard, unsaid, missed, view>>

\* The generator notices, within a heartbeat, and unsubscribes on its way out.
Unsubscribe(c) ==
  /\ phase[c] = "closed"
  /\ phase' = [phase EXCEPT ![c] = "away"]
  /\ sub'   = [sub EXCEPT ![c] = <<>>]
  /\ UNCHANGED <<server, visits, left, unheard, unsaid, missed, view>>

\* The browser goes away before the generator has started.  A generator that
\* never ran has no clean-up to run: the queue stays registered, fills up, and
\* is offered every later event.
Abandon(c) ==
  /\ phase[c] = "subscribed"
  /\ phase'  = [phase EXCEPT ![c] = "away"]
  /\ sub'    = [sub EXCEPT ![c] = <<>>]
  /\ left'   = [left EXCEPT ![Len(sub[c])] = @ + 1]
  /\ UNCHANGED <<server, visits, unheard, unsaid, missed, view>>

-----------------------------------------------------------------------------
Dispatch == TakeLink \/ TakeWritten \/ Written \/ WriteFails

Next ==
  \/ \E kind \in Kinds, x \in Nodes : Emit(kind, x)
  \/ Dispatch
  \/ \E c \in Clients : \/ Subscribe(c) \/ Snapshot(c) \/ Deliver(c)
                        \/ Close(c) \/ Unsubscribe(c) \/ Abandon(c)

Spec == Init /\ [][Next]_vars

\* The dispatcher runs while there are events, and a request is served until
\* its browser goes away, which the generator then notices.
Fairness ==
  /\ WF_vars(Dispatch)
  /\ \A c \in Clients : /\ WF_vars(Snapshot(c)) /\ WF_vars(Deliver(c))
                        /\ WF_vars(Unsubscribe(c))

FairSpec == Spec /\ Fairness

-----------------------------------------------------------------------------
(* Properties.                                                             *)

\* Everything that has happened and that c was able to hear has reached it.
Quiet(c) == /\ phase[c] = "streaming" /\ ~missed[c]
            /\ input = <<>> /\ job = NoJob /\ sub[c] = <<>>

Elements(s) == {s[i] : i \in DOMAIN s}

\* Nothing falls between the snapshot and the stream: a client that has caught
\* up shows every message a new snapshot would show it, with the newest on top,
\* wherever its own snapshot fell and whatever queues nobody reads any more.
NothingMissed ==
  \A c \in Clients : Quiet(c) /\ list # <<>> /\ SnapshotMax > 0 =>
    /\ Elements(Newest(list, SnapshotMax)) \subseteq Elements(view[c].list)
    /\ Head(view[c].list) = Head(list)

\* Nor does an event that was already in the snapshot take a node or the link
\* back: a client that has caught up shows no outdated reading, also of a node
\* that its last snapshot had no room for.  Only a change of the link that the
\* full event queue dropped may be missing, until the next link event is taken.
Current ==
  \A c \in Clients : Quiet(c) =>
    /\ view[c].link = link \/ unheard
    /\ ~unsaid => \A x \in Nodes : view[c].nodes[x] \in {0, nodes[x]}

\* The message list of the page holds no message twice.
ListOnce ==
  \A c \in Clients : \A i, j \in DOMAIN view[c].list :
    view[c].list[i] = view[c].list[j] => i = j

\* Each client that stays eventually shows the link as it last was, unless its
\* own queue has overflowed or the event queue dropped the last change.
CatchesUp ==
  \A c \in Clients :
    (born = EventCap /\ phase[c] = "streaming")
      ~> (view[c].link = link \/ unheard \/ missed[c] \/ phase[c] # "streaming")
=============================================================================
