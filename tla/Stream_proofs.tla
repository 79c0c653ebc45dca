--------------------------- MODULE Stream_proofs ---------------------------
(***************************************************************************)
(* Theorems about the live updates, for any browsers, nodes, events and    *)
(* capacities: the state keeps its type, and a browser that has caught up  *)
(* shows no outdated reading and misses no message.                        *)
(***************************************************************************)
EXTENDS Stream, SequenceTheorems, TLAPS

(* Sequences.                                                              *)

\* The first n elements.
LEMMA NewestProperties ==
  ASSUME NEW S, NEW s \in Seq(S), NEW n \in Nat
  PROVE  /\ Newest(s, n) \in Seq(S)
         /\ Len(Newest(s, n)) = IF Len(s) < n THEN Len(s) ELSE n
         /\ \A i \in 1..Len(Newest(s, n)) : Newest(s, n)[i] = s[i]
<1> DEFINE m == IF Len(s) < n THEN Len(s) ELSE n
<1>1. Len(s) \in Nat
  BY LenProperties
<1>2. m \in Nat /\ m <= Len(s) /\ \A i \in 1..m : s[i] \in S
  BY <1>1, ElementOfSeq
<1>3. Newest(s, n) = SubSeq(s, 1, m)
  BY DEF Newest
<1> HIDE DEF m
<1>4. /\ SubSeq(s, 1, m) \in Seq(S)
      /\ Len(SubSeq(s, 1, m)) = IF 1 <= m THEN m - 1 + 1 ELSE 0
      /\ \A i \in 1..(m - 1 + 1) : SubSeq(s, 1, m)[i] = s[1 + i - 1]
  <2>1. 1 \in Int /\ m \in Int
    BY <1>2
  <2>2. QED BY <1>2, <2>1, SubSeqProperties
<1>5. Len(SubSeq(s, 1, m)) = m
  BY <1>2, <1>4
<1>6. \A i \in 1..m : SubSeq(s, 1, m)[i] = s[i]
  BY <1>2, <1>4
<1>7. QED BY <1>3, <1>4, <1>5, <1>6 DEF m

\* The last n elements.
LEMMA LatestProperties ==
  ASSUME NEW S, NEW s \in Seq(S), NEW n \in Nat
  PROVE  Latest(s, n) \in Seq(S) /\ Len(Latest(s, n)) <= n
<1> DEFINE m == IF Len(s) < n THEN 1 ELSE Len(s) - n + 1
<1>1. Len(s) \in Nat
  BY LenProperties
<1>2. /\ m \in Int /\ m >= 1 /\ (m = 1 => Len(s) <= n) /\ (m # 1 => Len(s) - m + 1 = n)
      /\ \A i \in m..Len(s) : s[i] \in S
  BY <1>1, ElementOfSeq
<1>3. Latest(s, n) = SubSeq(s, m, Len(s))
  BY DEF Latest
<1> HIDE DEF m
<1>4. /\ SubSeq(s, m, Len(s)) \in Seq(S)
      /\ Len(SubSeq(s, m, Len(s))) = IF m <= Len(s) THEN Len(s) - m + 1 ELSE 0
  BY <1>1, <1>2, SubSeqProperties
<1>5. QED BY <1>1, <1>2, <1>3, <1>4

\* Putting an element in front.
LEMMA ConsProperties ==
  ASSUME NEW S, NEW s \in Seq(S), NEW x \in S
  PROVE  /\ <<x>> \o s \in Seq(S) /\ Len(<<x>> \o s) = Len(s) + 1
         /\ (<<x>> \o s)[1] = x
         /\ \A i \in 1..Len(s) : (<<x>> \o s)[i + 1] = s[i]
<1>1. <<x>> \in Seq(S) /\ Len(<<x>>) = 1 /\ <<x>>[1] = x /\ Len(s) \in Nat
  BY LenProperties
<1>2. /\ <<x>> \o s \in Seq(S)
      /\ Len(<<x>> \o s) = 1 + Len(s)
      /\ \A i \in 1..(1 + Len(s)) : (<<x>> \o s)[i] = IF i <= 1 THEN <<x>>[i] ELSE s[i - 1]
  BY <1>1, ConcatProperties
<1>3. QED BY <1>1, <1>2

-----------------------------------------------------------------------------
(* The type invariant, split by what a step may touch.                     *)

ServerType ==
  /\ input \in Seq(Event) /\ Len(input) <= QueueMax /\ born \in 0..EventCap
  /\ job \in Event \cup {NoJob}
  /\ link \in 0..EventCap /\ nodes \in [Nodes -> 0..EventCap]
  /\ list \in Seq(1..EventCap) /\ points \in Seq(1..EventCap)
QueueType ==
  /\ sub \in [Clients -> Seq(Event)] /\ \A c \in Clients : Len(sub[c]) <= SubscriberMax
  /\ left \in [0..SubscriberMax -> Nat]
  /\ missed \in [Clients -> BOOLEAN]
RequestType ==
  /\ phase \in [Clients -> {"away", "subscribed", "streaming", "closed"}]
  /\ visits \in [Clients -> 0..VisitCap]
  /\ unheard \in BOOLEAN /\ unsaid \in BOOLEAN
PageType ==
  /\ view \in [Clients -> View]
  /\ \A c \in Clients : /\ Len(view[c].list) <= ListMax
                        /\ Len(view[c].points) <= PointsMax

LEMMA TypeParts ==
  /\ TypeOK <=> ServerType /\ QueueType /\ RequestType /\ PageType
  /\ TypeOK' <=> ServerType' /\ QueueType' /\ RequestType' /\ PageType'
BY DEF TypeOK, ServerType, QueueType, RequestType, PageType

\* A link event in the queue is no newer than the live status, which it carries
\* by the time it is taken.
LinkSet ==
  /\ link <= born
  /\ \A i \in DOMAIN input : input[i].kind = "link" => input[i].n <= link

\* The dispatcher writes no link events, and what it writes of a node is what
\* the cache has of it.
JobCached ==
  /\ job.kind # "link"
  /\ job.kind = "node" => nodes[job.node] = job.n

SeriesShort == Len(points) <= PointsMax

TypeInv == TypeOK /\ LinkSet /\ JobCached /\ SeriesShort

LEMMA NoJobKind == NoJob.kind = "none" /\ NoJob \notin Event
<1>1. NoJob.kind = "none"
  BY DEF NoJob
<1>2. "none" \notin Kinds
  BY DEF Kinds
<1>3. QED BY <1>1, <1>2 DEF Event

LEMMA InitType == Init => TypeInv
<1> SUFFICES ASSUME Init PROVE TypeInv
  OBVIOUS
<1> USE LimitAssumption DEF Init
<1>0. <<>> \in Seq(Event) /\ Len(<<>>) <= QueueMax /\ <<>> \in Seq(1..EventCap)
  BY EmptySeq
<1>1. ServerType
  BY <1>0 DEF ServerType
<1>6. RequestType
  <2>1. 0 \in 0..VisitCap
    OBVIOUS
  <2>2. visits \in [Clients -> 0..VisitCap]
    BY <2>1
  <2>3. phase \in [Clients -> {"away", "subscribed", "streaming", "closed"}]
    OBVIOUS
  <2>4. unheard \in BOOLEAN /\ unsaid \in BOOLEAN
    OBVIOUS
  <2>5. QED BY <2>2, <2>3, <2>4 DEF RequestType
<1>2. QueueType
  BY DEF QueueType
<1>3. Blank \in View /\ Blank.list = <<>> /\ Blank.points = <<>>
  BY DEF Blank, View
<1>4. PageType
  BY <1>3 DEF PageType
<1>5. LinkSet /\ SeriesShort /\ JobCached
  BY NoJobKind DEF LinkSet, SeriesShort, JobCached
<1>7. QED BY <1>1, <1>2, <1>4, <1>5, <1>6, TypeParts DEF TypeInv

LEMMA FanoutType ==
  ASSUME QueueType, NEW e \in Event, Fanout(e)
  PROVE  QueueType'
<1> USE LimitAssumption
<1>1. sub' \in [Clients -> Seq(Event)] /\ \A c \in Clients : Len(sub'[c]) <= SubscriberMax
  <2>1. ASSUME NEW c \in Clients
        PROVE  sub'[c] \in Seq(Event) /\ Len(sub'[c]) <= SubscriberMax
    <3>1. sub[c] \in Seq(Event) /\ Len(sub[c]) <= SubscriberMax /\ Len(sub[c]) \in Nat
      BY LenProperties DEF QueueType
    <3>2. Append(sub[c], e) \in Seq(Event) /\ Len(Append(sub[c], e)) = Len(sub[c]) + 1
      BY <3>1, AppendProperties
    <3>3. sub'[c] = IF Subscribed(c) /\ Len(sub[c]) < SubscriberMax
                    THEN Append(sub[c], e) ELSE sub[c]
      BY DEF Fanout
    <3>4. QED BY <3>1, <3>2, <3>3
  <2>2. DOMAIN sub' = Clients /\ sub' = [c \in Clients |-> sub'[c]]
    BY DEF Fanout
  <2>3. QED BY <2>1, <2>2
<1>2. left' \in [0..SubscriberMax -> Nat]
  BY DEF Fanout, QueueType
<1>3. missed' \in [Clients -> BOOLEAN]
  <2>1. \A c \in Clients :
          (missed[c] \/ (Subscribed(c) /\ Len(sub[c]) >= SubscriberMax)) \in BOOLEAN
    OBVIOUS
  <2>2. QED BY <2>1 DEF Fanout
<1>4. QED BY <1>1, <1>2, <1>3 DEF QueueType

\* What an event does to a page.
LEMMA FoldType ==
  ASSUME NEW v \in View, NEW e \in Event, Len(v.list) <= ListMax, Len(v.points) <= PointsMax
  PROVE  /\ Fold(v, e) \in View
         /\ Len(Fold(v, e).list) <= ListMax /\ Len(Fold(v, e).points) <= PointsMax
<1> USE LimitAssumption
<1>1. /\ e.kind \in Kinds /\ e.n \in 1..EventCap /\ e.n \in 0..EventCap /\ e.node \in Nodes
      /\ v.list \in Seq(1..EventCap) /\ v.points \in Seq(1..EventCap)
      /\ v.nodes \in [Nodes -> 0..EventCap] /\ v.link \in 0..EventCap
  BY DEF Event, View
<1>2. CASE e.kind = "link"
  BY <1>1, <1>2 DEF Fold, View
<1>3. CASE e.kind = "node"
  <2>1. Fold(v, e) = [v EXCEPT !.nodes[e.node] = e.n]
    BY <1>3 DEF Fold
  <2>2. Fold(v, e) \in View /\ Fold(v, e).list = v.list /\ Fold(v, e).points = v.points
    BY <1>1, <2>1 DEF View
  <2>3. QED BY <2>2
<1>4. CASE e.kind = "message"
  <2> DEFINE new == Newest(<<e.n>> \o v.list, ListMax)
  <2>1. new \in Seq(1..EventCap) /\ Len(new) <= ListMax
    <3> DEFINE all == <<e.n>> \o v.list
    <3>1. all \in Seq(1..EventCap) /\ Len(all) \in Nat /\ ListMax \in Nat
      BY <1>1, ConsProperties, LenProperties
    <3> HIDE DEF all
    <3>2. Newest(all, ListMax) \in Seq(1..EventCap) /\ Len(Newest(all, ListMax)) <= ListMax
      BY <3>1, NewestProperties
    <3>3. QED BY <3>2 DEF all
  <2>2. Fold(v, e) = [v EXCEPT !.list = new]
    BY <1>4 DEF Fold
  <2> HIDE DEF new
  <2>3. QED BY <1>1, <2>1, <2>2 DEF View
<1>5. CASE e.kind = "telemetry"
  <2> DEFINE new == Latest(Append(v.points, e.n), PointsMax)
  <2>1. new \in Seq(1..EventCap) /\ Len(new) <= PointsMax
    BY <1>1, AppendProperties, LatestProperties
  <2>2. Fold(v, e) = [v EXCEPT !.points = new]
    BY <1>5 DEF Fold
  <2> HIDE DEF new
  <2>3. QED BY <1>1, <2>1, <2>2 DEF View
<1>6. QED BY <1>1, <1>2, <1>3, <1>4, <1>5 DEF Kinds

-----------------------------------------------------------------------------
(* The server.                                                             *)

\* What is at the head of the queue, and what is behind it.
LEMMA TakenEvent ==
  ASSUME ServerType, input # <<>>
  PROVE  /\ Head(input) \in Event
         /\ Tail(input) \in Seq(Event) /\ Len(Tail(input)) <= QueueMax
         /\ Head(input) = input[1] /\ 1 \in DOMAIN input
         /\ \A i \in DOMAIN Tail(input) : /\ i + 1 \in DOMAIN input
                                          /\ Tail(input)[i] = input[i + 1]
<1>1. input \in Seq(Event) /\ Len(input) \in Nat /\ Len(input) # 0
  BY EmptySeq, LenProperties DEF ServerType
<1>2. /\ Head(input) \in Event /\ Tail(input) \in Seq(Event)
      /\ Len(Tail(input)) = Len(input) - 1
      /\ \A i \in 1..Len(Tail(input)) : Tail(input)[i] = input[i + 1]
  BY <1>1, HeadTailProperties
<1>3. DOMAIN input = 1..Len(input) /\ DOMAIN Tail(input) = 1..(Len(input) - 1)
  BY <1>1, <1>2, LenProperties
<1>4. Head(input) = input[1]
  OBVIOUS
<1>5. Len(Tail(input)) <= QueueMax
  BY <1>1, <1>2, LimitAssumption DEF ServerType
<1>6. QED BY <1>1, <1>2, <1>3, <1>4, <1>5

\* An event is emitted: it is the last of the queue, or lost.
LEMMA EmitEffect ==
  ASSUME TypeInv, NEW kind \in Kinds, NEW x \in Nodes, Emit(kind, x)
  PROVE  \E e \in Event :
           /\ e.kind = kind /\ e.n = born + 1
           /\ \/ Len(input) < QueueMax /\ input' = Append(input, e) /\ unheard' = unheard
              \/ input' = input /\ unheard' = (unheard \/ kind = "link")
<1> DEFINE e == [kind |-> kind, n |-> born + 1, node |-> x]
<1>1. born + 1 \in 1..EventCap
  BY LimitAssumption, TypeParts DEF TypeInv, ServerType, Emit
<1>2. e \in Event /\ e.kind = kind /\ e.n = born + 1
  BY <1>1 DEF Event
<1>3. Enqueue(e)
  BY DEF Emit
<1> HIDE DEF e
<1>4. \/ Len(input) < QueueMax /\ input' = Append(input, e) /\ unheard' = unheard
      \/ input' = input /\ unheard' = (unheard \/ kind = "link")
  BY <1>2, <1>3 DEF Enqueue
<1>5. QED BY <1>2, <1>4

LEMMA EmitType ==
  ASSUME TypeInv, NEW kind \in Kinds, NEW x \in Nodes, Emit(kind, x)
  PROVE  TypeInv'
<1> USE LimitAssumption, TypeParts DEF TypeInv
<1>1. /\ born \in Nat /\ born + 1 \in 1..EventCap /\ link \in Nat /\ link <= born
      /\ link' = IF kind = "link" THEN born + 1 ELSE link
      /\ born' = born + 1
  BY DEF Emit, ServerType, LinkSet
<1>2. PICK e \in Event :
        /\ e.kind = kind /\ e.n = born + 1
        /\ \/ Len(input) < QueueMax /\ input' = Append(input, e) /\ unheard' = unheard
           \/ input' = input /\ unheard' = (unheard \/ kind = "link")
  BY EmitEffect
<1>3. /\ input \in Seq(Event) /\ Len(input) <= QueueMax /\ Len(input) \in Nat
      /\ DOMAIN input = 1..Len(input)
  BY LenProperties DEF ServerType
<1>4. \A i \in 1..Len(input) : input[i].kind = "link" => input[i].n <= link'
  <2>1. ASSUME NEW i \in 1..Len(input), input[i].kind = "link"
        PROVE  input[i].n <= link'
    <3>1. input[i].n <= link /\ input[i] \in Event
      BY <1>3, <2>1, ElementOfSeq DEF LinkSet
    <3>2. input[i].n \in Nat
      BY <3>1 DEF Event
    <3>3. QED BY <1>1, <3>1, <3>2
  <2>2. QED BY <2>1
<1>5. /\ input' \in Seq(Event) /\ Len(input') <= QueueMax
      /\ \A i \in DOMAIN input' : input'[i].kind = "link" => input'[i].n <= link'
  <2>1. CASE input' = input
    BY <1>3, <1>4, <2>1
  <2>2. CASE Len(input) < QueueMax /\ input' = Append(input, e)
    <3>1. /\ input' \in Seq(Event) /\ Len(input') = Len(input) + 1
          /\ \A i \in 1..Len(input) : input'[i] = input[i]
          /\ input'[Len(input) + 1] = e
      BY <1>3, <2>2, AppendProperties
    <3>2. DOMAIN input' = 1..(Len(input) + 1) /\ Len(input') <= QueueMax
      BY <1>3, <2>2, <3>1, LenProperties
    <3>3. \A i \in 1..(Len(input) + 1) : i \in 1..Len(input) \/ i = Len(input) + 1
      BY <1>3
    <3>4. e.kind = "link" => e.n <= link'
      BY <1>1, <1>2
    <3>5. QED BY <1>4, <3>1, <3>2, <3>3, <3>4
  <2>3. QED BY <1>2, <2>1, <2>2
<1>6. ServerType'
  BY <1>1, <1>5 DEF Emit, ServerType
<1>7. LinkSet'
  <2>1. link' <= born'
    BY <1>1
  <2>2. QED BY <1>5, <2>1 DEF LinkSet
<1>8. RequestType'
  <2>1. unheard' \in BOOLEAN
    BY <1>2 DEF RequestType
  <2>2. QED BY <2>1 DEF Emit, RequestType
<1>9. QueueType' /\ PageType' /\ JobCached' /\ SeriesShort'
  BY DEF Emit, QueueType, PageType, JobCached, SeriesShort
<1>10. QED BY <1>6, <1>7, <1>8, <1>9

\* A link event carries the live status when it is taken.
Carrying == [Head(input) EXCEPT !.n = link]

LEMMA CarriesLink ==
  ASSUME TypeInv, TakeLink
  PROVE  Carrying \in Event /\ Carrying.kind = "link" /\ Carrying.n = link
<1> USE LimitAssumption, TypeParts DEF TypeInv
<1>1. Head(input) \in Event /\ Head(input) = input[1] /\ 1 \in DOMAIN input
      /\ Head(input).kind = "link"
  BY TakenEvent DEF TakeLink
<1>2. Head(input).n \in 1..EventCap /\ Head(input).n <= link /\ link \in 0..EventCap
  BY <1>1 DEF LinkSet, Event, ServerType
<1>3. link \in 1..EventCap
  BY <1>2
<1>4. QED BY <1>1, <1>3 DEF Carrying, Event

LEMMA TakeLinkType == ASSUME TypeInv, TakeLink PROVE TypeInv'
<1> USE TypeParts DEF TypeInv
<1>1. Fanout(Carrying)
  BY DEF TakeLink, Carrying
<1>2. QueueType'
  BY <1>1, CarriesLink, FanoutType
<1>3. ServerType' /\ LinkSet'
  <2>1. input # <<>> /\ input' = Tail(input)
    BY DEF TakeLink
  <2>2. QED BY <2>1, TakenEvent DEF TakeLink, ServerType, LinkSet
<1>4. RequestType' /\ PageType' /\ JobCached' /\ SeriesShort'
  BY DEF TakeLink, RequestType, PageType, JobCached, SeriesShort
<1>5. QED BY <1>2, <1>3, <1>4

LEMMA TakeWrittenType == ASSUME TypeInv, TakeWritten PROVE TypeInv'
<1> USE LimitAssumption, TypeParts DEF TypeInv
<1>1. /\ Head(input) \in Event
      /\ Tail(input) \in Seq(Event) /\ Len(Tail(input)) <= QueueMax
      /\ \A i \in DOMAIN Tail(input) : /\ i + 1 \in DOMAIN input
                                       /\ Tail(input)[i] = input[i + 1]
      /\ job' = Head(input) /\ input' = Tail(input) /\ job'.kind # "link"
  BY TakenEvent DEF TakeWritten
<1>2. job'.n \in 1..EventCap /\ job'.n \in 0..EventCap /\ job'.node \in Nodes
  BY <1>1 DEF Event
<1>3. nodes' \in [Nodes -> 0..EventCap] /\ (job'.kind = "node" => nodes'[job'.node] = job'.n)
  <2>1. nodes \in [Nodes -> 0..EventCap]
    BY DEF ServerType
  <2>2. nodes' = IF job'.kind = "node" THEN [nodes EXCEPT ![job'.node] = job'.n] ELSE nodes
    BY DEF TakeWritten
  <2>3. QED BY <1>2, <2>1, <2>2
<1>4. points' \in Seq(1..EventCap) /\ Len(points') <= PointsMax
  <2>1. points \in Seq(1..EventCap) /\ Len(points) <= PointsMax
    BY DEF ServerType, SeriesShort
  <2>2. Append(points, job'.n) \in Seq(1..EventCap)
    BY <1>2, <2>1, AppendProperties
  <2>3. points' = points \/ points' = Latest(Append(points, job'.n), PointsMax)
    BY DEF TakeWritten
  <2>4. QED BY <2>1, <2>2, <2>3, LatestProperties
<1>5. ServerType' /\ JobCached' /\ SeriesShort'
  BY <1>1, <1>3, <1>4 DEF TakeWritten, ServerType, JobCached, SeriesShort
<1>6. LinkSet'
  BY <1>1 DEF TakeWritten, LinkSet
<1>7. QueueType' /\ RequestType' /\ PageType'
  BY DEF TakeWritten, QueueType, RequestType, PageType
<1>8. QED BY <1>5, <1>6, <1>7

LEMMA WrittenType == ASSUME TypeInv, Written PROVE TypeInv'
<1> USE TypeParts DEF TypeInv
<1>1. job \in Event /\ Fanout(job)
  BY DEF Written, ServerType
<1>2. QueueType'
  BY <1>1, FanoutType
<1>3. list' \in Seq(1..EventCap)
  <2>1. list \in Seq(1..EventCap) /\ job.n \in 1..EventCap
    BY <1>1 DEF ServerType, Event
  <2>2. list' = list \/ list' = <<job.n>> \o list
    BY DEF Written
  <2>3. QED BY <2>1, <2>2, ConsProperties
<1>4. ServerType' /\ RequestType' /\ PageType'
  BY <1>3 DEF Written, ServerType, RequestType, PageType
<1>5. LinkSet' /\ JobCached' /\ SeriesShort'
  BY NoJobKind DEF Written, LinkSet, JobCached, SeriesShort
<1>6. QED BY <1>2, <1>4, <1>5

-----------------------------------------------------------------------------
(* The browsers.                                                           *)

\* A step of the browsers leaves the server alone.
LEMMA ServerAlone ==
  ASSUME TypeInv, UNCHANGED server
  PROVE  ServerType' /\ LinkSet' /\ JobCached' /\ SeriesShort'
BY TypeParts DEF TypeInv, server, ServerType, LinkSet, JobCached, SeriesShort

LEMMA SnapshotType ==
  ASSUME TypeInv, NEW c \in Clients, Snapshot(c)
  PROVE  TypeInv'
<1> USE LimitAssumption, TypeParts DEF TypeInv
<1>1. PICK chosen \in Chosen :
        view' = [view EXCEPT ![c] =
                   [link   |-> link,
                    nodes  |-> [x \in Nodes |-> IF x \in chosen THEN nodes[x] ELSE 0],
                    list   |-> Newest(list, SnapshotMax),
                    points |-> points]]
  BY DEF Snapshot
<1> DEFINE top == Newest(list, SnapshotMax)
           sent == [x \in Nodes |-> IF x \in chosen THEN nodes[x] ELSE 0]
           page == [link |-> link, nodes |-> sent, list |-> top, points |-> points]
<1>2. top \in Seq(1..EventCap) /\ Len(top) <= ListMax
  <2>1. list \in Seq(1..EventCap) /\ Len(list) \in Nat
    BY LenProperties DEF ServerType
  <2>2. top \in Seq(1..EventCap) /\ Len(top) \in Nat /\ Len(top) <= SnapshotMax
    BY <2>1, NewestProperties
  <2>3. QED BY <2>2
<1>3. sent \in [Nodes -> 0..EventCap]
  BY DEF ServerType
<1>4. view' = [view EXCEPT ![c] = page]
  BY <1>1
<1> HIDE DEF top, sent
<1>5. page \in View
  BY <1>2, <1>3 DEF View, ServerType
<1>6. page.list = top /\ page.points = points
  OBVIOUS
<1> HIDE DEF page
<1>7. PageType'
  BY <1>2, <1>4, <1>5, <1>6 DEF PageType, SeriesShort
<1>8. QueueType' /\ RequestType'
  BY DEF Snapshot, QueueType, RequestType
<1>9. QED BY <1>7, <1>8, ServerAlone DEF Snapshot

LEMMA DeliverType ==
  ASSUME TypeInv, NEW c \in Clients, Deliver(c)
  PROVE  TypeInv'
<1> USE LimitAssumption, TypeParts DEF TypeInv
<1>1. sub[c] \in Seq(Event) /\ sub[c] # <<>> /\ Len(sub[c]) <= SubscriberMax
      /\ Len(sub[c]) \in Nat
  BY LenProperties DEF Deliver, QueueType
<1>2. Head(sub[c]) \in Event /\ Tail(sub[c]) \in Seq(Event)
      /\ Len(Tail(sub[c])) = Len(sub[c]) - 1
  BY <1>1, HeadTailProperties
<1>3. QueueType'
  <2>1. sub' = [sub EXCEPT ![c] = Tail(sub[c])] /\ UNCHANGED <<left, missed>>
    BY DEF Deliver
  <2>2. Len(Tail(sub[c])) <= SubscriberMax
    BY <1>1, <1>2
  <2>3. QED BY <1>2, <2>1, <2>2 DEF QueueType
<1>4. PageType'
  <2>1. view[c] \in View /\ Len(view[c].list) <= ListMax /\ Len(view[c].points) <= PointsMax
    BY DEF PageType
  <2>2. view' = [view EXCEPT ![c] = Fold(view[c], Head(sub[c]))]
    BY DEF Deliver
  <2>3. QED BY <1>2, <2>1, <2>2, FoldType DEF PageType
<1>5. RequestType'
  BY DEF Deliver, RequestType
<1>6. QED BY <1>3, <1>4, <1>5, ServerAlone DEF Deliver

LEMMA AbandonType ==
  ASSUME TypeInv, NEW c \in Clients, Abandon(c)
  PROVE  TypeInv'
<1> USE LimitAssumption, TypeParts DEF TypeInv
<1>1. Len(sub[c]) \in 0..SubscriberMax
  BY LenProperties DEF QueueType
<1>2. QueueType'
  <2>1. left' \in [0..SubscriberMax -> Nat]
    BY <1>1 DEF Abandon, QueueType
  <2>2. sub' = [sub EXCEPT ![c] = <<>>] /\ missed' = missed
    BY DEF Abandon
  <2>3. <<>> \in Seq(Event) /\ Len(<<>>) <= SubscriberMax
    BY EmptySeq
  <2>4. QED BY <2>1, <2>2, <2>3 DEF QueueType
<1>3. RequestType' /\ PageType'
  BY DEF Abandon, RequestType, PageType
<1>4. QED BY <1>2, <1>3, ServerAlone DEF Abandon

LEMMA TypeStep == TypeInv /\ [Next]_vars => TypeInv'
<1> SUFFICES ASSUME TypeInv, [Next]_vars
             PROVE  TypeInv'
  OBVIOUS
<1> USE LimitAssumption, TypeParts DEF TypeInv
<1>0. <<>> \in Seq(Event) /\ Len(<<>>) <= SubscriberMax
  BY EmptySeq
<1>1. ASSUME NEW kind \in Kinds, NEW x \in Nodes, Emit(kind, x)
      PROVE  TypeInv'
  BY <1>1, EmitType
<1>2. CASE TakeLink \/ TakeWritten \/ Written
  BY <1>2, TakeLinkType, TakeWrittenType, WrittenType
<1>3. CASE WriteFails
  <2>1. unsaid' \in BOOLEAN
    BY <1>3 DEF WriteFails, RequestType
  <2>2. QED
    BY <1>3, <2>1, NoJobKind DEF WriteFails, ServerType, QueueType, RequestType, PageType,
                                 LinkSet, JobCached, SeriesShort
<1>4. ASSUME NEW c \in Clients, Snapshot(c) \/ Deliver(c) \/ Abandon(c)
      PROVE  TypeInv'
  BY <1>4, SnapshotType, DeliverType, AbandonType
<1>5. ASSUME NEW c \in Clients, Subscribe(c)
      PROVE  TypeInv'
  <2>1. QueueType' /\ PageType'
    BY <1>0, <1>5 DEF Subscribe, QueueType, PageType
  <2>2. RequestType'
    <3>1. visits[c] + 1 \in 0..VisitCap
      BY <1>5 DEF Subscribe, RequestType
    <3>2. QED BY <1>5, <3>1 DEF Subscribe, RequestType
  <2>3. QED BY <1>5, <2>1, <2>2, ServerAlone DEF Subscribe
<1>6. ASSUME NEW c \in Clients, Close(c) \/ Unsubscribe(c)
      PROVE  TypeInv'
  <2>1. QueueType' /\ PageType' /\ RequestType'
    BY <1>0, <1>6 DEF Close, Unsubscribe, QueueType, PageType, RequestType
  <2>2. QED BY <1>6, <2>1, ServerAlone DEF Close, Unsubscribe
<1>7. CASE UNCHANGED vars
  BY <1>7, ServerAlone DEF vars, QueueType, RequestType, PageType
<1>8. QED
  BY <1>1, <1>2, <1>3, <1>4, <1>5, <1>6, <1>7 DEF Next, Dispatch

\* The state keeps its type: no subscriber's queue, no message list and no
\* series outgrows its bound, and a link event, which takes its content from the
\* live status when it is taken, never carries that of before the first one.
THEOREM TypeCorrect == Spec => []TypeOK
<1>1. TypeInv => TypeOK
  BY DEF TypeInv
<1>2. QED BY <1>1, InitType, TypeStep, PTL DEF Spec

-----------------------------------------------------------------------------
(* What a queue will say last of a node or of the link.                    *)

LinkEvents == {e \in Event : e.kind = "link"}
NodeEvents(x) == {e \in Event : e.kind = "node" /\ e.node = x}

\* The last event of a set that the queue holds carries v; it holds none.
Says(s, S, v) ==
  \E i \in DOMAIN s : /\ s[i] \in S /\ s[i].n = v
                      /\ \A j \in DOMAIN s : i < j => s[j] \notin S
Silent(s, S) == \A i \in DOMAIN s : s[i] \notin S

\* A queue's reader ends up with v, or has it already.
Follows(s, S, v, shown) == Says(s, S, v) \/ (Silent(s, S) /\ shown)

LEMMA AppendSays ==
  ASSUME NEW s \in Seq(Event), NEW e \in Event, NEW S, NEW v
  PROVE  /\ e \in S => Says(Append(s, e), S, e.n) /\ ~Silent(Append(s, e), S)
         /\ e \notin S /\ Says(s, S, v) => Says(Append(s, e), S, v)
         /\ e \notin S /\ Silent(s, S) => Silent(Append(s, e), S)
         /\ ~Silent(s, S) => ~Silent(Append(s, e), S)
<1> DEFINE t == Append(s, e)
<1>1. /\ DOMAIN s = 1..Len(s) /\ Len(s) \in Nat /\ DOMAIN t = 1..(Len(s) + 1)
      /\ \A i \in 1..Len(s) : t[i] = s[i]
      /\ t[Len(s) + 1] = e
  <2>1. t \in Seq(Event) /\ Len(t) = Len(s) + 1 /\ \A i \in 1..Len(s) : t[i] = s[i]
        /\ t[Len(s) + 1] = e
    BY AppendProperties
  <2>2. QED BY <2>1, LenProperties
<1> HIDE DEF t
<1>2. ASSUME e \in S
      PROVE  Says(t, S, e.n) /\ ~Silent(t, S)
  <2>1. Len(s) + 1 \in DOMAIN t /\ \A j \in DOMAIN t : ~(Len(s) + 1 < j)
    BY <1>1
  <2>2. QED BY <1>1, <1>2, <2>1 DEF Says, Silent
<1>3. ASSUME e \notin S, Says(s, S, v)
      PROVE  Says(t, S, v)
  <2>1. PICK i \in DOMAIN s : /\ s[i] \in S /\ s[i].n = v
                              /\ \A j \in DOMAIN s : i < j => s[j] \notin S
    BY <1>3 DEF Says
  <2>2. i \in DOMAIN t /\ t[i] = s[i]
    BY <1>1
  <2>3. \A j \in DOMAIN t : i < j => t[j] \notin S
    BY <1>1, <1>3, <2>1
  <2>4. QED BY <2>1, <2>2, <2>3 DEF Says
<1>4. e \notin S /\ Silent(s, S) => Silent(t, S)
  BY <1>1 DEF Silent
<1>5. ~Silent(s, S) => ~Silent(t, S)
  BY <1>1 DEF Silent
<1>6. QED BY <1>2, <1>3, <1>4, <1>5 DEF t

LEMMA TailSays ==
  ASSUME NEW s \in Seq(Event), s # <<>>, NEW S, NEW v
  PROVE  /\ Says(s, S, v) =>
              \/ Says(Tail(s), S, v)
              \/ Head(s) \in S /\ Head(s).n = v /\ Silent(Tail(s), S)
         /\ Silent(s, S) => Head(s) \notin S /\ Silent(Tail(s), S)
         /\ ~Silent(s, S) /\ Head(s) \notin S => ~Silent(Tail(s), S)
<1> DEFINE t == Tail(s)
<1>1. /\ Len(s) \in Nat /\ Len(s) >= 1 /\ DOMAIN s = 1..Len(s)
      /\ DOMAIN t = 1..(Len(s) - 1) /\ Head(s) = s[1]
      /\ \A i \in 1..(Len(s) - 1) : t[i] = s[i + 1]
  <2>1. Len(s) \in Nat /\ Len(s) # 0
    BY EmptySeq, LenProperties
  <2>2. t \in Seq(Event) /\ Len(t) = Len(s) - 1 /\ \A i \in 1..Len(t) : t[i] = s[i + 1]
    BY HeadTailProperties
  <2>3. Head(s) = s[1]
    OBVIOUS
  <2>4. QED BY <2>1, <2>2, <2>3, LenProperties
<1> HIDE DEF t
<1>2. ASSUME Says(s, S, v)
      PROVE  Says(t, S, v) \/ (Head(s) \in S /\ Head(s).n = v /\ Silent(t, S))
  <2>1. PICK i \in DOMAIN s : /\ s[i] \in S /\ s[i].n = v
                              /\ \A j \in DOMAIN s : i < j => s[j] \notin S
    BY <1>2 DEF Says
  <2>2. CASE i = 1
    <3>1. \A j \in DOMAIN t : t[j] \notin S
      BY <1>1, <2>1, <2>2
    <3>2. QED BY <1>1, <2>1, <2>2, <3>1 DEF Silent
  <2>3. CASE i # 1
    <3>1. i - 1 \in DOMAIN t /\ t[i - 1] = s[i]
      BY <1>1, <2>3
    <3>2. \A j \in DOMAIN t : i - 1 < j => t[j] \notin S
      BY <1>1, <2>1
    <3>3. QED BY <2>1, <3>1, <3>2 DEF Says
  <2>4. QED BY <2>2, <2>3
<1>3. ASSUME Silent(s, S)
      PROVE  Head(s) \notin S /\ Silent(t, S)
  <2>1. Head(s) \notin S
    BY <1>1, <1>3 DEF Silent
  <2>2. \A i \in DOMAIN t : i + 1 \in DOMAIN s /\ t[i] = s[i + 1]
    BY <1>1
  <2>3. Silent(t, S)
    BY <1>3, <2>2 DEF Silent
  <2>4. QED BY <2>1, <2>3
<1>4. ASSUME ~Silent(s, S), Head(s) \notin S
      PROVE  ~Silent(t, S)
  <2>1. PICK i \in DOMAIN s : s[i] \in S
    BY <1>4 DEF Silent
  <2>2. i - 1 \in DOMAIN t /\ t[i - 1] = s[i]
    BY <1>1, <1>4, <2>1
  <2>3. QED BY <2>1, <2>2 DEF Silent
<1>5. QED BY <1>2, <1>3, <1>4 DEF t

\* An event that is not of the set changes nothing, and one that is decides.
LEMMA FollowsAppend ==
  ASSUME NEW s \in Seq(Event), NEW e \in Event, NEW S, NEW v, NEW shown \in BOOLEAN
  PROVE  /\ e \notin S /\ Follows(s, S, v, shown) => Follows(Append(s, e), S, v, shown)
         /\ e \in S /\ e.n = v => Follows(Append(s, e), S, v, shown)
BY AppendSays DEF Follows

\* An empty queue leaves what is shown.
LEMMA FollowsEmpty ==
  ASSUME NEW S, NEW v, NEW shown \in BOOLEAN
  PROVE  Follows(<<>>, S, v, shown) <=> shown
<1>1. DOMAIN <<>> = {}
  OBVIOUS
<1>2. Silent(<<>>, S) /\ ~Says(<<>>, S, v)
  BY <1>1 DEF Silent, Says
<1>3. QED BY <1>2 DEF Follows

-----------------------------------------------------------------------------
(* Up to date.                                                             *)

\* The subscription is read or about to be, and has dropped nothing.
Listening(c) == phase[c] \in {"subscribed", "streaming"} /\ ~missed[c]

LinkShown(c) == phase[c] = "streaming" => view[c].link = link
NodeShown(c, x) == phase[c] = "streaming" => view[c].nodes[x] \in {0, nodes[x]}

LinkFollowed ==
  ~unheard => \A c \in Clients : Listening(c) =>
    ~Silent(input, LinkEvents) \/ Follows(sub[c], LinkEvents, link, LinkShown(c))
NodesFollowed ==
  ~unsaid => \A c \in Clients, x \in Nodes : Listening(c) =>
    \/ job.kind = "node" /\ job.node = x
    \/ Follows(sub[c], NodeEvents(x), nodes[x], NodeShown(c, x))

CurrentInv == LinkFollowed /\ NodesFollowed

\* What a fanout does to a subscription that has dropped nothing.
LEMMA FanoutHeard ==
  ASSUME TypeInv, NEW e \in Event, Fanout(e), UNCHANGED phase, NEW c \in Clients, Listening(c)'
  PROVE  Listening(c) /\ sub[c] \in Seq(Event) /\ sub'[c] = Append(sub[c], e)
<1> USE LimitAssumption, TypeParts DEF TypeInv
<1>1. /\ sub[c] \in Seq(Event) /\ Len(sub[c]) \in Nat /\ Subscribed(c)
      /\ missed'[c] = (missed[c] \/ (Subscribed(c) /\ Len(sub[c]) >= SubscriberMax))
      /\ sub'[c] = IF Subscribed(c) /\ Len(sub[c]) < SubscriberMax
                   THEN Append(sub[c], e) ELSE sub[c]
  BY LenProperties DEF Fanout, QueueType, Listening, Subscribed
<1>2. ~missed'[c] /\ phase'[c] = phase[c]
  BY DEF Listening
<1>3. ~missed[c] /\ ~(Len(sub[c]) >= SubscriberMax)
  BY <1>1, <1>2, Zenon
<1>4. Len(sub[c]) < SubscriberMax
  BY <1>1, <1>3
<1>5. QED BY <1>1, <1>3, <1>4 DEF Listening

\* A step that leaves the subscriptions, the pages and what they follow alone.
LEMMA CurrentAlone ==
  ASSUME CurrentInv, UNCHANGED <<input, job, link, nodes, phase, sub, unheard, unsaid, missed,
                              view>>
  PROVE  CurrentInv'
BY DEF CurrentInv, LinkFollowed, NodesFollowed, Listening, LinkShown, NodeShown

LEMMA EmitCurrent ==
  ASSUME TypeInv, CurrentInv, NEW kind \in Kinds, NEW x \in Nodes, Emit(kind, x)
  PROVE  CurrentInv'
<1> USE TypeParts DEF TypeInv
<1>1. /\ input \in Seq(Event)
      /\ link' = IF kind = "link" THEN born + 1 ELSE link
      /\ UNCHANGED <<job, nodes, phase, sub, unsaid, missed, view>>
  BY DEF Emit, ServerType
<1>2. PICK e \in Event :
        /\ e.kind = kind /\ e.n = born + 1
        /\ \/ Len(input) < QueueMax /\ input' = Append(input, e) /\ unheard' = unheard
           \/ input' = input /\ unheard' = (unheard \/ kind = "link")
  BY EmitEffect
<1>3. e \in LinkEvents <=> kind = "link"
  BY <1>2 DEF LinkEvents
<1>4. LinkFollowed'
  <2>1. CASE kind = "link"
    <3>1. CASE unheard'
      BY <3>1 DEF LinkFollowed
    <3>2. CASE ~unheard'
      <4>1. input' = Append(input, e)
        BY <1>2, <2>1, <3>2
      <4>2. ~Silent(input', LinkEvents)
        BY <1>1, <1>3, <2>1, <4>1, AppendSays
      <4>3. QED BY <4>2 DEF LinkFollowed
    <3>3. QED BY <3>1, <3>2
  <2>2. CASE kind # "link"
    <3>1. ~Silent(input, LinkEvents) => ~Silent(input', LinkEvents)
      BY <1>1, <1>2, AppendSays
    <3>2. ~unheard' => ~unheard
      BY <1>2
    <3>3. QED BY <1>1, <2>2, <3>1, <3>2 DEF CurrentInv, LinkFollowed, Listening, LinkShown
  <2>3. QED BY <2>1, <2>2
<1>5. NodesFollowed'
  BY <1>1 DEF CurrentInv, NodesFollowed, Listening, NodeShown
<1>6. QED BY <1>4, <1>5 DEF CurrentInv

LEMMA TakeLinkCurrent == ASSUME TypeInv, CurrentInv, TakeLink PROVE CurrentInv'
<1>1. /\ Carrying \in Event /\ Carrying \in LinkEvents /\ Carrying.n = link
      /\ \A x \in Nodes : Carrying \notin NodeEvents(x)
  BY CarriesLink DEF LinkEvents, NodeEvents
<1>2. Fanout(Carrying) /\ UNCHANGED <<job, link, nodes, phase, unsaid, view>>
  BY DEF TakeLink, Carrying
<1>3. LinkFollowed'
  <2>1. ASSUME NEW c \in Clients, Listening(c)'
        PROVE  Follows(sub[c], LinkEvents, link, LinkShown(c))'
    <3>1. sub[c] \in Seq(Event) /\ sub'[c] = Append(sub[c], Carrying)
      BY <1>1, <1>2, <2>1, FanoutHeard
    <3>2. LinkShown(c)' \in BOOLEAN
      BY DEF LinkShown
    <3>3. Follows(Append(sub[c], Carrying), LinkEvents, link, LinkShown(c)')
      BY <1>1, <3>1, <3>2, FollowsAppend
    <3>4. QED BY <1>2, <3>1, <3>3
  <2>2. QED BY <2>1 DEF LinkFollowed
<1>4. NodesFollowed'
  <2>1. ASSUME NEW c \in Clients, NEW x \in Nodes, Listening(c)', ~unsaid,
               ~(job.kind = "node" /\ job.node = x)
        PROVE  Follows(sub[c], NodeEvents(x), nodes[x], NodeShown(c, x))'
    <3>1. sub[c] \in Seq(Event) /\ sub'[c] = Append(sub[c], Carrying) /\ Listening(c)
      BY <1>1, <1>2, <2>1, FanoutHeard
    <3>2. NodeShown(c, x)' = NodeShown(c, x) /\ NodeShown(c, x) \in BOOLEAN
      BY <1>2 DEF NodeShown
    <3>3. Follows(sub[c], NodeEvents(x), nodes[x], NodeShown(c, x))
      BY <2>1, <3>1 DEF CurrentInv, NodesFollowed
    <3>4. Follows(Append(sub[c], Carrying), NodeEvents(x), nodes[x], NodeShown(c, x))
      BY <1>1, <3>1, <3>2, <3>3, FollowsAppend
    <3>5. QED BY <1>2, <3>1, <3>2, <3>4
  <2>2. QED BY <1>2, <2>1 DEF NodesFollowed
<1>5. QED BY <1>3, <1>4 DEF CurrentInv

LEMMA TakeWrittenCurrent == ASSUME TypeInv, CurrentInv, TakeWritten PROVE CurrentInv'
<1> USE TypeParts DEF TypeInv
<1>1. /\ input # <<>> /\ input \in Seq(Event) /\ input' = Tail(input) /\ job' = Head(input)
      /\ job.kind = "none" /\ Head(input) \notin LinkEvents
      /\ UNCHANGED <<link, phase, sub, unheard, unsaid, missed, view>>
  BY NoJobKind DEF TakeWritten, ServerType, LinkEvents
<1>2. LinkFollowed'
  <2>1. ~Silent(input, LinkEvents) => ~Silent(input', LinkEvents)
    BY <1>1, TailSays
  <2>2. QED BY <1>1, <2>1 DEF CurrentInv, LinkFollowed, Listening, LinkShown
<1>3. NodesFollowed'
  <2>1. ASSUME NEW x \in Nodes, ~(job'.kind = "node" /\ job'.node = x)
        PROVE  nodes'[x] = nodes[x]
    BY <2>1 DEF TakeWritten, ServerType
  <2>2. QED BY <1>1, <2>1 DEF CurrentInv, NodesFollowed, Listening, NodeShown
<1>4. QED BY <1>2, <1>3 DEF CurrentInv

LEMMA WrittenCurrent == ASSUME TypeInv, CurrentInv, Written PROVE CurrentInv'
<1> USE TypeParts DEF TypeInv
<1>1. /\ job \in Event /\ Fanout(job) /\ job \notin LinkEvents
      /\ UNCHANGED <<input, link, nodes, phase, unheard, unsaid, view>>
  BY DEF Written, ServerType, JobCached, LinkEvents
<1>2. LinkFollowed'
  <2>1. ASSUME NEW c \in Clients, Listening(c)', Silent(input, LinkEvents), ~unheard
        PROVE  Follows(sub[c], LinkEvents, link, LinkShown(c))'
    <3>1. sub[c] \in Seq(Event) /\ sub'[c] = Append(sub[c], job) /\ Listening(c)
      BY <1>1, <2>1, FanoutHeard
    <3>2. LinkShown(c)' = LinkShown(c) /\ LinkShown(c) \in BOOLEAN
      BY <1>1 DEF LinkShown
    <3>3. Follows(sub[c], LinkEvents, link, LinkShown(c))
      BY <2>1, <3>1 DEF CurrentInv, LinkFollowed
    <3>4. Follows(Append(sub[c], job), LinkEvents, link, LinkShown(c))
      BY <1>1, <3>1, <3>2, <3>3, FollowsAppend
    <3>5. QED BY <1>1, <3>1, <3>2, <3>4
  <2>2. QED BY <1>1, <2>1 DEF LinkFollowed
<1>3. NodesFollowed'
  <2>1. ASSUME NEW c \in Clients, NEW x \in Nodes, Listening(c)', ~unsaid
        PROVE  Follows(sub[c], NodeEvents(x), nodes[x], NodeShown(c, x))'
    <3>1. sub[c] \in Seq(Event) /\ sub'[c] = Append(sub[c], job) /\ Listening(c)
      BY <1>1, <2>1, FanoutHeard
    <3>2. NodeShown(c, x)' = NodeShown(c, x) /\ NodeShown(c, x) \in BOOLEAN
      BY <1>1 DEF NodeShown
    <3>3. CASE job.kind = "node" /\ job.node = x
      <4>1. job \in NodeEvents(x) /\ job.n = nodes[x]
        BY <1>1, <3>3 DEF NodeEvents, JobCached
      <4>2. Follows(Append(sub[c], job), NodeEvents(x), nodes[x], NodeShown(c, x))
        BY <1>1, <3>1, <3>2, <4>1, FollowsAppend
      <4>3. QED BY <1>1, <3>1, <3>2, <4>2
    <3>4. CASE ~(job.kind = "node" /\ job.node = x)
      <4>1. job \notin NodeEvents(x) /\ Follows(sub[c], NodeEvents(x), nodes[x], NodeShown(c, x))
        BY <2>1, <3>1, <3>4 DEF CurrentInv, NodesFollowed, NodeEvents
      <4>2. Follows(Append(sub[c], job), NodeEvents(x), nodes[x], NodeShown(c, x))
        BY <1>1, <3>1, <3>2, <4>1, FollowsAppend
      <4>3. QED BY <1>1, <3>1, <3>2, <4>2
    <3>5. QED BY <3>3, <3>4
  <2>2. QED BY <1>1, <2>1 DEF NodesFollowed
<1>4. QED BY <1>2, <1>3 DEF CurrentInv

LEMMA WriteFailsCurrent == ASSUME TypeInv, CurrentInv, WriteFails PROVE CurrentInv'
<1> USE TypeParts DEF TypeInv
<1>1. UNCHANGED <<input, link, nodes, phase, sub, unheard, missed, view>>
  BY DEF WriteFails
<1>2. LinkFollowed'
  BY <1>1 DEF CurrentInv, LinkFollowed, Listening, LinkShown
<1>3. ASSUME ~unsaid'
      PROVE  ~unsaid /\ job.kind # "node"
  BY <1>3 DEF WriteFails
<1>4. NodesFollowed'
  BY <1>1, <1>3 DEF CurrentInv, NodesFollowed, Listening, NodeShown
<1>5. QED BY <1>2, <1>4 DEF CurrentInv

\* A client that subscribes or stops listening; nobody else notices.
LEMMA ComeOrGoCurrent ==
  ASSUME TypeInv, CurrentInv, NEW c \in Clients,
         Subscribe(c) \/ Close(c) \/ Unsubscribe(c) \/ Abandon(c)
  PROVE  CurrentInv'
<1> USE TypeParts DEF TypeInv
<1>1. /\ UNCHANGED <<input, job, link, nodes, unheard, unsaid, view>>
      /\ \A d \in Clients \ {c} : /\ phase'[d] = phase[d] /\ sub'[d] = sub[d]
                                  /\ missed'[d] = missed[d]
  BY DEF Subscribe, Close, Unsubscribe, Abandon, server, QueueType, RequestType
<1>2. \/ phase'[c] \in {"closed", "away"}
      \/ phase'[c] = "subscribed" /\ sub'[c] = <<>>
  BY DEF Subscribe, Close, Unsubscribe, Abandon, QueueType, RequestType
<1>3. ASSUME Listening(c)'
      PROVE  /\ Follows(sub[c], LinkEvents, link, LinkShown(c))'
             /\ \A x \in Nodes : Follows(sub[c], NodeEvents(x), nodes[x], NodeShown(c, x))'
  <2>1. phase'[c] = "subscribed" /\ sub'[c] = <<>>
    BY <1>2, <1>3 DEF Listening
  <2>2. LinkShown(c)' /\ \A x \in Nodes : NodeShown(c, x)'
    BY <2>1 DEF LinkShown, NodeShown
  <2>3. Silent(sub'[c], LinkEvents) /\ \A x \in Nodes : Silent(sub'[c], NodeEvents(x))
    BY <2>1 DEF Silent
  <2>4. QED BY <2>2, <2>3 DEF Follows
<1>4. LinkFollowed'
  <2>1. ASSUME NEW d \in Clients, d # c
        PROVE  (Listening(d) <=> Listening(d)') /\ (LinkShown(d) <=> LinkShown(d)')
    BY <1>1, <2>1 DEF Listening, LinkShown
  <2>2. QED BY <1>1, <1>3, <2>1 DEF CurrentInv, LinkFollowed, Follows
<1>5. NodesFollowed'
  <2>1. ASSUME NEW d \in Clients, d # c, NEW x \in Nodes
        PROVE  (Listening(d) <=> Listening(d)') /\ (NodeShown(d, x) <=> NodeShown(d, x)')
    BY <1>1, <2>1 DEF Listening, NodeShown
  <2>2. QED BY <1>1, <1>3, <2>1 DEF CurrentInv, NodesFollowed, Follows
<1>6. QED BY <1>4, <1>5 DEF CurrentInv

\* A step of one request that leaves the subscription as it is, or takes one
\* event from it, and that shows what is newer.
LEMMA ReadCurrent ==
  ASSUME TypeInv, CurrentInv, NEW c \in Clients,
         UNCHANGED <<server, unheard, unsaid, missed>>,
         \A d \in Clients \ {c} :
           phase'[d] = phase[d] /\ sub'[d] = sub[d] /\ view'[d] = view[d],
         Listening(c)' => Listening(c),
         Follows(sub[c], LinkEvents, link, LinkShown(c)) =>
           Follows(sub'[c], LinkEvents, link, LinkShown(c)'),
         \A x \in Nodes :
           Follows(sub[c], NodeEvents(x), nodes[x], NodeShown(c, x)) =>
             Follows(sub'[c], NodeEvents(x), nodes[x], NodeShown(c, x)')
  PROVE  CurrentInv'
<1>1. UNCHANGED <<input, job, link, nodes>>
  BY DEF server
<1>2. LinkFollowed'
  <2>1. ASSUME NEW d \in Clients, d # c
        PROVE  (Listening(d) <=> Listening(d)') /\ (LinkShown(d) <=> LinkShown(d)')
    BY <1>1, <2>1 DEF Listening, LinkShown
  <2>2. QED BY <1>1, <2>1 DEF CurrentInv, LinkFollowed, Follows
<1>3. NodesFollowed'
  <2>1. ASSUME NEW d \in Clients, d # c, NEW x \in Nodes
        PROVE  (Listening(d) <=> Listening(d)') /\ (NodeShown(d, x) <=> NodeShown(d, x)')
    BY <1>1, <2>1 DEF Listening, NodeShown
  <2>2. QED BY <1>1, <2>1 DEF CurrentInv, NodesFollowed, Follows
<1>4. QED BY <1>2, <1>3 DEF CurrentInv

LEMMA SnapshotCurrent ==
  ASSUME TypeInv, CurrentInv, NEW c \in Clients, Snapshot(c)
  PROVE  CurrentInv'
<1> USE TypeParts DEF TypeInv
<1>1. PICK chosen \in Chosen :
        view' = [view EXCEPT ![c] =
                   [link   |-> link,
                    nodes  |-> [x \in Nodes |-> IF x \in chosen THEN nodes[x] ELSE 0],
                    list   |-> Newest(list, SnapshotMax),
                    points |-> points]]
  BY DEF Snapshot
<1>2. /\ view'[c].link = link
      /\ \A x \in Nodes : view'[c].nodes[x] \in {0, nodes[x]}
      /\ \A d \in Clients \ {c} : view'[d] = view[d]
  BY <1>1 DEF PageType
<1>3. /\ UNCHANGED <<server, unheard, unsaid, missed>> /\ sub' = sub /\ phase[c] = "subscribed"
      /\ \A d \in Clients \ {c} : phase'[d] = phase[d]
  BY DEF Snapshot, RequestType
<1>4. UNCHANGED <<link, nodes>>
  BY <1>3 DEF server
<1>5. LinkShown(c)' /\ \A x \in Nodes : NodeShown(c, x)'
  BY <1>2, <1>4 DEF LinkShown, NodeShown
<1>6. Listening(c)' => Listening(c)
  BY <1>3 DEF Listening
<1>7. /\ Follows(sub[c], LinkEvents, link, LinkShown(c)) =>
           Follows(sub'[c], LinkEvents, link, LinkShown(c)')
      /\ \A x \in Nodes : Follows(sub[c], NodeEvents(x), nodes[x], NodeShown(c, x)) =>
           Follows(sub'[c], NodeEvents(x), nodes[x], NodeShown(c, x)')
  BY <1>3, <1>5 DEF Follows
<1>8. QED BY <1>2, <1>3, <1>6, <1>7, ReadCurrent

LEMMA DeliverCurrent ==
  ASSUME TypeInv, CurrentInv, NEW c \in Clients, Deliver(c)
  PROVE  CurrentInv'
<1> USE TypeParts DEF TypeInv
<1> DEFINE e == Head(sub[c])
<1>1. sub[c] \in Seq(Event) /\ sub[c] # <<>> /\ e \in Event
  BY HeadTailProperties DEF Deliver, QueueType
<1>2. /\ sub'[c] = Tail(sub[c]) /\ view'[c] = Fold(view[c], e)
      /\ UNCHANGED <<server, unheard, unsaid, missed, phase>> /\ phase[c] = "streaming"
      /\ \A d \in Clients \ {c} : sub'[d] = sub[d] /\ view'[d] = view[d]
  BY DEF Deliver, QueueType, PageType
<1>3. view[c] \in View /\ e.kind \in Kinds /\ e.node \in Nodes
  BY <1>1 DEF PageType, Event
<1>4. view'[c].link = IF e.kind = "link" THEN e.n ELSE view[c].link
  <2>1. /\ e.kind = "link" => Fold(view[c], e).link = e.n
        /\ e.kind = "node" => Fold(view[c], e).link = view[c].link
        /\ e.kind = "message" => Fold(view[c], e).link = view[c].link
        /\ e.kind = "telemetry" => Fold(view[c], e).link = view[c].link
    BY <1>3 DEF Fold, View
  <2>2. QED BY <1>2, <1>3, <2>1 DEF Kinds
<1>5. \A x \in Nodes : view'[c].nodes[x] = IF e.kind = "node" /\ e.node = x
                                           THEN e.n ELSE view[c].nodes[x]
  <2>1. ASSUME NEW x \in Nodes
        PROVE  /\ e.kind = "link" => Fold(view[c], e).nodes[x] = view[c].nodes[x]
               /\ e.kind = "node" => Fold(view[c], e).nodes[x] =
                                       IF e.node = x THEN e.n ELSE view[c].nodes[x]
               /\ e.kind = "message" => Fold(view[c], e).nodes[x] = view[c].nodes[x]
               /\ e.kind = "telemetry" => Fold(view[c], e).nodes[x] = view[c].nodes[x]
    BY <1>3 DEF Fold, View
  <2>2. QED BY <1>2, <1>3, <2>1 DEF Kinds
<1> HIDE DEF e
<1>6. UNCHANGED <<link, nodes>>
  BY <1>2 DEF server
<1>7. Follows(sub[c], LinkEvents, link, LinkShown(c)) =>
        Follows(sub'[c], LinkEvents, link, LinkShown(c)')
  <2>1. CASE Says(sub[c], LinkEvents, link)
    <3>1. Says(Tail(sub[c]), LinkEvents, link)
          \/ (e \in LinkEvents /\ e.n = link /\ Silent(Tail(sub[c]), LinkEvents))
      BY <1>1, <2>1, TailSays DEF e
    <3>2. CASE e \in LinkEvents /\ e.n = link /\ Silent(Tail(sub[c]), LinkEvents)
      <4>1. LinkShown(c)'
        BY <1>4, <1>6, <3>2 DEF LinkEvents, LinkShown
      <4>2. QED BY <1>2, <3>2, <4>1 DEF Follows
    <3>3. QED BY <1>2, <3>1, <3>2 DEF Follows
  <2>2. CASE Silent(sub[c], LinkEvents) /\ LinkShown(c)
    <3>1. e \notin LinkEvents /\ Silent(Tail(sub[c]), LinkEvents)
      BY <1>1, <2>2, TailSays DEF e
    <3>2. LinkShown(c)'
      BY <1>1, <1>2, <1>4, <1>6, <2>2, <3>1 DEF LinkEvents, LinkShown
    <3>3. QED BY <1>2, <3>1, <3>2 DEF Follows
  <2>3. QED BY <2>1, <2>2 DEF Follows
<1>8. ASSUME NEW x \in Nodes, Follows(sub[c], NodeEvents(x), nodes[x], NodeShown(c, x))
      PROVE  Follows(sub'[c], NodeEvents(x), nodes[x], NodeShown(c, x)')
  <2>1. CASE Says(sub[c], NodeEvents(x), nodes[x])
    <3>1. Says(Tail(sub[c]), NodeEvents(x), nodes[x])
          \/ (e \in NodeEvents(x) /\ e.n = nodes[x] /\ Silent(Tail(sub[c]), NodeEvents(x)))
      BY <1>1, <2>1, TailSays DEF e
    <3>2. CASE e \in NodeEvents(x) /\ e.n = nodes[x] /\ Silent(Tail(sub[c]), NodeEvents(x))
      <4>1. NodeShown(c, x)'
        BY <1>5, <1>6, <3>2 DEF NodeEvents, NodeShown
      <4>2. QED BY <1>2, <3>2, <4>1 DEF Follows
    <3>3. QED BY <1>2, <3>1, <3>2 DEF Follows
  <2>2. CASE Silent(sub[c], NodeEvents(x)) /\ NodeShown(c, x)
    <3>1. e \notin NodeEvents(x) /\ Silent(Tail(sub[c]), NodeEvents(x))
      BY <1>1, <2>2, TailSays DEF e
    <3>2. NodeShown(c, x)'
      BY <1>1, <1>2, <1>5, <1>6, <2>2, <3>1 DEF NodeEvents, NodeShown
    <3>3. QED BY <1>2, <3>1, <3>2 DEF Follows
  <2>3. QED BY <1>8, <2>1, <2>2 DEF Follows
<1>9. Listening(c)' => Listening(c)
  BY <1>2 DEF Listening
<1>10. QED BY <1>2, <1>7, <1>8, <1>9, ReadCurrent

LEMMA CurrentStep == TypeInv /\ CurrentInv /\ [Next]_vars => CurrentInv'
<1> SUFFICES ASSUME TypeInv, CurrentInv, [Next]_vars
             PROVE  CurrentInv'
  OBVIOUS
<1>1. ASSUME NEW kind \in Kinds, NEW x \in Nodes, Emit(kind, x)
      PROVE  CurrentInv'
  BY <1>1, EmitCurrent
<1>2. CASE TakeLink
  BY <1>2, TakeLinkCurrent
<1>3. CASE TakeWritten
  BY <1>3, TakeWrittenCurrent
<1>4. CASE Written
  BY <1>4, WrittenCurrent
<1>5. CASE WriteFails
  BY <1>5, WriteFailsCurrent
<1>6. ASSUME NEW c \in Clients,
             Subscribe(c) \/ Close(c) \/ Unsubscribe(c) \/ Abandon(c)
      PROVE  CurrentInv'
  BY <1>6, ComeOrGoCurrent
<1>7. ASSUME NEW c \in Clients, Snapshot(c) \/ Deliver(c)
      PROVE  CurrentInv'
  BY <1>7, SnapshotCurrent, DeliverCurrent
<1>8. CASE UNCHANGED vars
  BY <1>8, CurrentAlone DEF vars, server
<1>9. QED
  BY <1>1, <1>2, <1>3, <1>4, <1>5, <1>6, <1>7, <1>8 DEF Next, Dispatch

LEMMA InitCurrent == Init => CurrentInv
BY DEF Init, CurrentInv, LinkFollowed, NodesFollowed, Listening

LEMMA CurrentHolds == TypeInv /\ CurrentInv => Current
<1> SUFFICES ASSUME TypeInv, CurrentInv, NEW c \in Clients, Quiet(c)
             PROVE  /\ view[c].link = link \/ unheard
                    /\ ~unsaid => \A x \in Nodes : view[c].nodes[x] \in {0, nodes[x]}
  BY DEF Current
<1>1. /\ Listening(c) /\ phase[c] = "streaming" /\ sub[c] = <<>> /\ input = <<>>
      /\ job.kind = "none"
  BY NoJobKind DEF Quiet, Listening
<1>2. Silent(input, LinkEvents) /\ \A S, v : ~Says(sub[c], S, v)
  BY <1>1 DEF Silent, Says
<1>3. ~unheard => LinkShown(c)
  BY <1>1, <1>2 DEF CurrentInv, LinkFollowed, Follows
<1>4. ~unsaid => \A x \in Nodes : NodeShown(c, x)
  BY <1>1, <1>2 DEF CurrentInv, NodesFollowed, Follows
<1>5. QED BY <1>1, <1>3, <1>4 DEF LinkShown, NodeShown

\* A browser that has caught up shows no outdated reading, although an event
\* that was in its snapshot already is delivered again behind it: for each node
\* and for the link, what the queue will say last is what the store holds, or
\* the queue is silent and the page shows it.  Of the link this holds while no
\* change that the full event queue dropped is still unsaid.
THEOREM NothingOutdated == Spec => []Current
<1>1. QED
  BY InitType, InitCurrent, TypeStep, CurrentStep, CurrentHolds, PTL DEF Spec

-----------------------------------------------------------------------------
(* Every message.                                                          *)

MessageEvents == {e \in Event : e.kind = "message"}

\* The message events of a queue are those of the d newest messages of a list,
\* oldest first: message k of the list waits at place g[k].
Waits(s, l, d, g) ==
  /\ d \in Nat /\ d <= Len(l)
  /\ g \in [1..d -> DOMAIN s]
  /\ \A k \in 1..d : s[g[k]] \in MessageEvents /\ s[g[k]].n = l[k]
  /\ \A j, k \in 1..d : j < k => g[k] < g[j]
  /\ \A i \in DOMAIN s : s[i] \in MessageEvents => \E k \in 1..d : g[k] = i

\* The page has a messages that were delivered since its snapshot, and below
\* them the snapshot, which was the newest b messages ago.
Paged(v, l, d, a, b) ==
  /\ a \in Nat /\ b \in Nat /\ b <= a + d
  /\ \A i \in 1..ListMax : i <= a =>
       i <= Len(v) /\ d + i <= Len(l) /\ v[i] = l[d + i]
  /\ \A i \in 1..SnapshotMax : b + i <= Len(l) /\ a + i <= ListMax =>
       a + i <= Len(v) /\ v[a + i] = l[b + i]

Reads(s, v, l, streaming) ==
  \E d \in Nat : /\ \E g : Waits(s, l, d, g)
                 /\ streaming => \E a, b \in Nat : Paged(v, l, d, a, b)

MessagesRead ==
  \A c \in Clients : Listening(c) =>
    Reads(sub[c], view[c].list, list, phase[c] = "streaming")

\* A message is recorded and put in the queue.
LEMMA WaitsNew ==
  ASSUME NEW s \in Seq(Event), NEW e \in MessageEvents, NEW l \in Seq(1..EventCap),
         NEW d, NEW g, Waits(s, l, d, g)
  PROVE  \E h : Waits(Append(s, e), <<e.n>> \o l, d + 1, h)
<1> DEFINE t == Append(s, e)
           m == <<e.n>> \o l
           h == [k \in 1..(d + 1) |-> IF k = 1 THEN Len(s) + 1 ELSE g[k - 1]]
<1>1. e \in Event /\ e.n \in 1..EventCap
  BY DEF MessageEvents, Event
<1>2. /\ DOMAIN s = 1..Len(s) /\ Len(s) \in Nat /\ DOMAIN t = 1..(Len(s) + 1)
      /\ \A i \in 1..Len(s) : t[i] = s[i]
      /\ t[Len(s) + 1] = e
  <2>1. t \in Seq(Event) /\ Len(t) = Len(s) + 1 /\ \A i \in 1..Len(s) : t[i] = s[i]
        /\ t[Len(s) + 1] = e
    BY <1>1, AppendProperties
  <2>2. QED BY <2>1, LenProperties
<1>3. /\ Len(m) = Len(l) + 1 /\ m[1] = e.n /\ \A i \in 1..Len(l) : m[i + 1] = l[i]
      /\ Len(l) \in Nat
  BY <1>1, ConsProperties, LenProperties
<1>4. /\ d \in Nat /\ d <= Len(l) /\ \A k \in 1..d : g[k] \in 1..Len(s)
      /\ \A k \in 1..d : s[g[k]] \in MessageEvents /\ s[g[k]].n = l[k]
      /\ \A j, k \in 1..d : j < k => g[k] < g[j]
      /\ \A i \in DOMAIN s : s[i] \in MessageEvents => \E k \in 1..d : g[k] = i
  BY <1>2 DEF Waits
<1>5. /\ h[1] = Len(s) + 1
      /\ \A k \in 1..d : h[k + 1] = g[k]
      /\ \A k \in 1..(d + 1) : k = 1 \/ (k - 1 \in 1..d /\ h[k] = g[k - 1])
  BY <1>4
<1>6. h \in [1..(d + 1) -> DOMAIN t]
  BY <1>2, <1>4
<1> HIDE DEF t, m, h
<1>7. ASSUME NEW k \in 1..(d + 1)
      PROVE  t[h[k]] \in MessageEvents /\ t[h[k]].n = m[k]
  <2>1. CASE k = 1
    BY <1>2, <1>3, <1>5, <2>1
  <2>2. CASE k # 1
    <3>1. k - 1 \in 1..d /\ h[k] = g[k - 1]
      BY <1>5, <2>2
    <3>2. g[k - 1] \in 1..Len(s) /\ t[g[k - 1]] = s[g[k - 1]]
      BY <1>2, <1>4, <3>1
    <3>3. m[k] = l[k - 1]
      <4>1. k - 1 \in 1..Len(l) /\ (k - 1) + 1 = k
        BY <1>3, <1>4, <3>1
      <4>2. QED BY <1>3, <4>1
    <3>4. QED BY <1>4, <3>1, <3>2, <3>3
  <2>3. QED BY <2>1, <2>2
<1>8. ASSUME NEW j \in 1..(d + 1), NEW k \in 1..(d + 1), j < k
      PROVE  h[k] < h[j]
  <2>1. k - 1 \in 1..d /\ h[k] = g[k - 1] /\ g[k - 1] \in 1..Len(s)
    BY <1>4, <1>5, <1>8
  <2>2. CASE j = 1
    BY <1>2, <1>5, <2>1, <2>2
  <2>3. CASE j # 1
    <3>1. j - 1 \in 1..d /\ h[j] = g[j - 1] /\ j - 1 < k - 1
      BY <1>4, <1>5, <1>8, <2>3
    <3>2. QED BY <1>4, <2>1, <3>1
  <2>4. QED BY <2>2, <2>3
<1>9. ASSUME NEW i \in DOMAIN t, t[i] \in MessageEvents
      PROVE  \E k \in 1..(d + 1) : h[k] = i
  <2>1. CASE i = Len(s) + 1
    BY <1>4, <1>5, <2>1
  <2>2. CASE i \in 1..Len(s)
    <3>1. PICK k \in 1..d : g[k] = i
      BY <1>2, <1>4, <1>9, <2>2
    <3>2. k + 1 \in 1..(d + 1) /\ h[k + 1] = i
      BY <1>4, <1>5, <3>1
    <3>3. QED BY <3>2
  <2>3. QED BY <1>2, <2>1, <2>2
<1>10. d + 1 \in Nat /\ d + 1 <= Len(m)
  BY <1>3, <1>4
<1>11. Waits(t, m, d + 1, h)
  BY <1>6, <1>7, <1>8, <1>9, <1>10 DEF Waits
<1>12. QED BY <1>11 DEF t, m

\* Another event is put in the queue.
LEMMA WaitsOther ==
  ASSUME NEW s \in Seq(Event), NEW e \in Event, e \notin MessageEvents,
         NEW l, NEW d, NEW g, Waits(s, l, d, g)
  PROVE  Waits(Append(s, e), l, d, g)
<1> DEFINE t == Append(s, e)
<1>1. /\ DOMAIN s = 1..Len(s) /\ Len(s) \in Nat /\ DOMAIN t = 1..(Len(s) + 1)
      /\ \A i \in 1..Len(s) : t[i] = s[i]
      /\ t[Len(s) + 1] = e
  <2>1. t \in Seq(Event) /\ Len(t) = Len(s) + 1 /\ \A i \in 1..Len(s) : t[i] = s[i]
        /\ t[Len(s) + 1] = e
    BY AppendProperties
  <2>2. QED BY <2>1, LenProperties
<1> HIDE DEF t
<1>2. g \in [1..d -> DOMAIN s] /\ DOMAIN s \subseteq DOMAIN t
  BY <1>1 DEF Waits
<1>3. g \in [1..d -> DOMAIN t] /\ \A k \in 1..d : t[g[k]] = s[g[k]]
  BY <1>1, <1>2
<1>4. ASSUME NEW i \in DOMAIN t, t[i] \in MessageEvents
      PROVE  i \in DOMAIN s /\ s[i] \in MessageEvents
  BY <1>1, <1>4
<1>5. Waits(t, l, d, g)
  BY <1>3, <1>4 DEF Waits
<1>6. QED BY <1>5 DEF t

\* The head of the queue is delivered: the oldest message that waits, or another
\* event.
LEMMA WaitsTail ==
  ASSUME NEW s \in Seq(Event), s # <<>>, NEW l, Len(l) \in Nat,
         NEW d, NEW g, Waits(s, l, d, g)
  PROVE  /\ Head(s) \in MessageEvents =>
              d >= 1 /\ Head(s).n = l[d] /\ \E h : Waits(Tail(s), l, d - 1, h)
         /\ Head(s) \notin MessageEvents => \E h : Waits(Tail(s), l, d, h)
<1> DEFINE t == Tail(s)
<1>1. /\ DOMAIN s = 1..Len(s) /\ Len(s) \in Nat /\ Len(s) >= 1
      /\ DOMAIN t = 1..(Len(s) - 1) /\ Head(s) = s[1]
      /\ \A i \in 1..(Len(s) - 1) : t[i] = s[i + 1]
  <2>1. Len(s) \in Nat /\ Len(s) # 0
    BY EmptySeq, LenProperties
  <2>2. t \in Seq(Event) /\ Len(t) = Len(s) - 1 /\ \A i \in 1..Len(t) : t[i] = s[i + 1]
    BY HeadTailProperties
  <2>3. Head(s) = s[1]
    OBVIOUS
  <2>4. QED BY <2>1, <2>2, <2>3, LenProperties
<1>2. /\ d \in Nat /\ d <= Len(l) /\ \A k \in 1..d : g[k] \in 1..Len(s)
      /\ \A k \in 1..d : s[g[k]] \in MessageEvents /\ s[g[k]].n = l[k]
      /\ \A j, k \in 1..d : j < k => g[k] < g[j]
      /\ \A i \in DOMAIN s : s[i] \in MessageEvents => \E k \in 1..d : g[k] = i
  BY <1>1 DEF Waits
<1> HIDE DEF t
\* Whichever messages are left wait one place further to the front.
<1>3. ASSUME NEW r \in Nat, r <= d, \A k \in 1..r : g[k] # 1,
             \A i \in DOMAIN s : s[i] \in MessageEvents /\ i # 1 => \E k \in 1..r : g[k] = i
      PROVE  \E h : Waits(t, l, r, h)
  <2> DEFINE h == [k \in 1..r |-> g[k] - 1]
  <2>1. \A k \in 1..r : h[k] = g[k] - 1 /\ g[k] - 1 \in 1..(Len(s) - 1) /\ k \in 1..d
                        /\ (g[k] - 1) + 1 = g[k]
    BY <1>1, <1>2, <1>3
  <2>2. h \in [1..r -> DOMAIN t]
    BY <1>1, <2>1
  <2> HIDE DEF h
  <2>3. \A k \in 1..r : t[h[k]] = s[g[k]]
    BY <1>1, <2>1
  <2>4. ASSUME NEW i \in DOMAIN t, t[i] \in MessageEvents
        PROVE  \E k \in 1..r : h[k] = i
    <3>1. i + 1 \in DOMAIN s /\ s[i + 1] \in MessageEvents /\ i + 1 # 1 /\ i \in Nat
      BY <1>1, <2>4
    <3>2. PICK k \in 1..r : g[k] = i + 1
      BY <1>3, <3>1
    <3>3. h[k] = i
      BY <2>1, <3>1, <3>2
    <3>4. QED BY <3>3
  <2>5. \A j, k \in 1..r : j < k => h[k] < h[j]
    <3>1. ASSUME NEW j \in 1..r, NEW k \in 1..r, j < k
          PROVE  h[k] < h[j]
      <4>1. g[k] < g[j] /\ g[k] \in Nat /\ g[j] \in Nat
        BY <1>2, <2>1, <3>1
      <4>2. QED BY <2>1, <4>1
    <3>2. QED BY <3>1
  <2>6. r <= Len(l)
    BY <1>2, <1>3
  <2>7. \A k \in 1..r : t[h[k]] \in MessageEvents /\ t[h[k]].n = l[k]
    BY <1>2, <2>1, <2>3
  <2>8. Waits(t, l, r, h)
    BY <2>2, <2>4, <2>5, <2>6, <2>7 DEF Waits
  <2>9. QED BY <2>8
<1>4. ASSUME Head(s) \in MessageEvents
      PROVE  d >= 1 /\ Head(s).n = l[d] /\ \E h : Waits(t, l, d - 1, h)
  <2>1. PICK f \in 1..d : g[f] = 1
    BY <1>1, <1>2, <1>4
  <2>2. f = d
    <3>1. ASSUME f < d
          PROVE  FALSE
      <4>1. d \in 1..d
        BY <1>2, <2>1
      <4>2. g[d] < g[f] /\ g[d] \in 1..Len(s)
        BY <1>2, <3>1, <4>1
      <4>3. QED BY <1>1, <2>1, <4>2
    <3>2. QED BY <1>2, <2>1, <3>1
  <2>3. d \in 1..d /\ d - 1 \in Nat
    BY <1>2, <2>1
  <2>4. \A k \in 1..(d - 1) : g[k] # 1
    <3>1. ASSUME NEW k \in 1..(d - 1)
          PROVE  g[k] # 1
      <4>1. k \in 1..d /\ k < d
        BY <1>2, <3>1
      <4>2. g[d] < g[k] /\ g[d] = 1 /\ g[k] \in 1..Len(s)
        BY <1>2, <2>1, <2>2, <2>3, <4>1
      <4>3. QED BY <1>1, <4>2
    <3>2. QED BY <3>1
  <2>5. ASSUME NEW i \in DOMAIN s, s[i] \in MessageEvents, i # 1
        PROVE  \E k \in 1..(d - 1) : g[k] = i
    <3>1. PICK k \in 1..d : g[k] = i
      BY <1>2, <2>5
    <3>2. k # d
      BY <2>1, <2>2, <2>5, <3>1
    <3>3. k \in 1..(d - 1)
      BY <1>2, <3>1, <3>2
    <3>4. QED BY <3>1, <3>3
  <2>6. \E h : Waits(t, l, d - 1, h)
    <3>1. d - 1 <= d
      BY <1>2
    <3>2. QED BY <1>3, <2>3, <2>4, <2>5, <3>1
  <2>7. Head(s).n = l[d] /\ d >= 1
    BY <1>1, <1>2, <2>1, <2>2, <2>3
  <2>8. QED BY <2>6, <2>7
<1>5. ASSUME Head(s) \notin MessageEvents
      PROVE  \E h : Waits(t, l, d, h)
  <2>1. \A k \in 1..d : g[k] # 1
    BY <1>1, <1>2, <1>5
  <2>2. \A i \in DOMAIN s : s[i] \in MessageEvents /\ i # 1 => \E k \in 1..d : g[k] = i
    BY <1>2
  <2>3. d \in Nat /\ d <= d
    BY <1>2
  <2>4. QED BY <1>3, <2>1, <2>2, <2>3
<1>6. QED BY <1>4, <1>5 DEF t

\* A message is recorded: the snapshot is one further from the newest, and one
\* more waits.
LEMMA PagedNew ==
  ASSUME NEW v, NEW l \in Seq(1..EventCap), NEW n \in 1..EventCap, NEW d \in Nat,
         NEW a, NEW b, Paged(v, l, d, a, b)
  PROVE  Paged(v, <<n>> \o l, d + 1, a, b + 1)
<1> DEFINE m == <<n>> \o l
<1>1. /\ Len(m) = Len(l) + 1 /\ \A i \in 1..Len(l) : m[i + 1] = l[i]
      /\ Len(l) \in Nat
  BY ConsProperties, LenProperties
<1> HIDE DEF m
<1>2. /\ a \in Nat /\ b \in Nat /\ b <= a + d
      /\ \A i \in 1..ListMax : i <= a =>
           i <= Len(v) /\ d + i <= Len(l) /\ v[i] = l[d + i]
      /\ \A i \in 1..SnapshotMax : b + i <= Len(l) /\ a + i <= ListMax =>
           a + i <= Len(v) /\ v[a + i] = l[b + i]
  BY DEF Paged
<1>3. ASSUME NEW i \in 1..ListMax, i <= a
      PROVE  i <= Len(v) /\ (d + 1) + i <= Len(m) /\ v[i] = m[(d + 1) + i]
  <2>1. i <= Len(v) /\ d + i <= Len(l) /\ v[i] = l[d + i]
    BY <1>2, <1>3
  <2>2. d + i \in 1..Len(l) /\ (d + i) + 1 = (d + 1) + i
    BY <1>1, <2>1, LimitAssumption
  <2>3. m[(d + 1) + i] = l[d + i]
    <3>1. m[(d + i) + 1] = l[d + i]
      BY <1>1, <2>2
    <3>2. QED BY <2>2, <3>1
  <2>4. QED BY <1>1, <2>1, <2>2, <2>3
<1>4. ASSUME NEW i \in 1..SnapshotMax, (b + 1) + i <= Len(m), a + i <= ListMax
      PROVE  a + i <= Len(v) /\ v[a + i] = m[(b + 1) + i]
  <2>1. b + i \in 1..Len(l) /\ (b + i) + 1 = (b + 1) + i
    BY <1>1, <1>2, <1>4, LimitAssumption
  <2>2. a + i <= Len(v) /\ v[a + i] = l[b + i]
    BY <1>2, <1>4, <2>1
  <2>3. m[(b + i) + 1] = l[b + i]
    BY <1>1, <2>1
  <2>4. QED BY <2>1, <2>2, <2>3
<1>5. b + 1 \in Nat /\ b + 1 <= a + (d + 1)
  BY <1>2
<1>6. Paged(v, m, d + 1, a, b + 1)
  BY <1>2, <1>3, <1>4, <1>5 DEF Paged
<1>7. QED BY <1>6 DEF m

\* The oldest message that waits is delivered, on top of the page.
LEMMA PagedDelivered ==
  ASSUME NEW v \in Seq(1..EventCap), NEW l, Len(l) \in Nat, NEW d \in Nat, d >= 1, d <= Len(l),
         l[d] \in 1..EventCap, NEW a, NEW b, Paged(v, l, d, a, b)
  PROVE  Paged(Newest(<<l[d]>> \o v, ListMax), l, d - 1, a + 1, b)
<1> DEFINE all == <<l[d]>> \o v
           w == Newest(all, ListMax)
<1>1. /\ all \in Seq(1..EventCap) /\ Len(all) = Len(v) + 1 /\ all[1] = l[d]
      /\ \A i \in 1..Len(v) : all[i + 1] = v[i]
      /\ Len(v) \in Nat /\ ListMax \in Nat /\ SnapshotMax \in Nat
  BY ConsProperties, LenProperties, LimitAssumption
<1> HIDE DEF all
<1>2. /\ Len(w) = IF Len(v) + 1 < ListMax THEN Len(v) + 1 ELSE ListMax
      /\ \A i \in 1..Len(w) : w[i] = all[i]
  BY <1>1, NewestProperties
<1> HIDE DEF w
<1>3. /\ a \in Nat /\ b \in Nat /\ b <= a + d
      /\ \A i \in 1..ListMax : i <= a =>
           i <= Len(v) /\ d + i <= Len(l) /\ v[i] = l[d + i]
      /\ \A i \in 1..SnapshotMax : b + i <= Len(l) /\ a + i <= ListMax =>
           a + i <= Len(v) /\ v[a + i] = l[b + i]
  BY DEF Paged
\* What was at place j is at the next, if there is one.
<1>4. ASSUME NEW j \in 1..Len(v), j + 1 <= ListMax
      PROVE  j + 1 <= Len(w) /\ w[j + 1] = v[j]
  <2>1. j + 1 \in 1..Len(w)
    BY <1>1, <1>2, <1>4
  <2>2. w[j + 1] = all[j + 1] /\ all[j + 1] = v[j]
    BY <1>1, <1>2, <2>1
  <2>3. QED BY <2>1, <2>2
<1>5. ASSUME NEW i \in 1..ListMax, i <= a + 1
      PROVE  i <= Len(w) /\ (d - 1) + i <= Len(l) /\ w[i] = l[(d - 1) + i]
  <2>1. CASE i = 1
    <3>1. 1 \in 1..Len(w) /\ (d - 1) + 1 = d
      BY <1>1, <1>2, <1>5, <2>1
    <3>2. QED BY <1>1, <1>2, <2>1, <3>1
  <2>2. CASE i # 1
    <3>1. i - 1 \in 1..ListMax /\ i - 1 <= a /\ (i - 1) + 1 = i /\ d + (i - 1) = (d - 1) + i
      BY <1>1, <1>3, <1>5, <2>2
    <3>2. i - 1 <= Len(v) /\ d + (i - 1) <= Len(l) /\ v[i - 1] = l[d + (i - 1)]
      BY <1>3, <3>1
    <3>3. i - 1 \in 1..Len(v)
      BY <1>1, <3>1, <3>2
    <3>4. (i - 1) + 1 <= Len(w) /\ w[(i - 1) + 1] = v[i - 1]
      BY <1>1, <1>4, <1>5, <3>1, <3>3
    <3>5. QED BY <3>1, <3>2, <3>4
  <2>3. QED BY <2>1, <2>2
<1>6. ASSUME NEW i \in 1..SnapshotMax, b + i <= Len(l), (a + 1) + i <= ListMax
      PROVE  (a + 1) + i <= Len(w) /\ w[(a + 1) + i] = l[b + i]
  <2>1. a + i <= ListMax /\ (a + i) + 1 = (a + 1) + i /\ a + i >= 1 /\ a + i \in Nat
    BY <1>1, <1>3, <1>6
  <2>2. a + i <= Len(v) /\ v[a + i] = l[b + i]
    BY <1>3, <1>6, <2>1
  <2>3. a + i \in 1..Len(v)
    BY <1>1, <2>1, <2>2
  <2>4. (a + i) + 1 <= Len(w) /\ w[(a + i) + 1] = v[a + i]
    BY <1>4, <1>6, <2>1, <2>3
  <2>5. QED BY <2>1, <2>2, <2>4
<1>7. a + 1 \in Nat /\ b <= (a + 1) + (d - 1)
  BY <1>3
<1>8. Paged(w, l, d - 1, a + 1, b)
  BY <1>3, <1>5, <1>6, <1>7 DEF Paged
<1>9. QED BY <1>8 DEF w, all

\* A snapshot is the top of the list.
LEMMA PagedSnapshot ==
  ASSUME NEW l \in Seq(1..EventCap), NEW d \in Nat
  PROVE  Paged(Newest(l, SnapshotMax), l, d, 0, 0)
<1> DEFINE w == Newest(l, SnapshotMax)
<1>1. /\ Len(w) = IF Len(l) < SnapshotMax THEN Len(l) ELSE SnapshotMax
      /\ \A i \in 1..Len(w) : w[i] = l[i]
      /\ Len(l) \in Nat /\ SnapshotMax \in Nat /\ ListMax \in Nat
  BY NewestProperties, LenProperties, LimitAssumption
<1> HIDE DEF w
<1>2. ASSUME NEW i \in 1..SnapshotMax, 0 + i <= Len(l)
      PROVE  0 + i <= Len(w) /\ w[0 + i] = l[0 + i]
  <2>1. 0 + i = i /\ i \in 1..Len(w)
    BY <1>1, <1>2
  <2>2. QED BY <1>1, <2>1
<1>3. \A i \in 1..ListMax : ~(i <= 0)
  BY <1>1
<1>4. 0 <= 0 + d
  OBVIOUS
<1>5. Paged(w, l, d, 0, 0)
  BY <1>2, <1>3, <1>4 DEF Paged
<1>6. QED BY <1>5 DEF w

\* Nothing waits: the page begins with what was delivered, and what is left of
\* its snapshot begins no later than where that ends.
LEMMA PagedCaughtUp ==
  ASSUME NEW v \in Seq(1..EventCap), NEW l \in Seq(1..EventCap), l # <<>>, SnapshotMax > 0,
         NEW a, NEW b, Paged(v, l, 0, a, b)
  PROVE  /\ Elements(Newest(l, SnapshotMax)) \subseteq Elements(v)
         /\ Head(v) = Head(l)
<1> DEFINE top == Newest(l, SnapshotMax)
<1>1. /\ Len(l) \in Nat /\ Len(l) # 0 /\ Len(v) \in Nat
      /\ DOMAIN v = 1..Len(v)
      /\ SnapshotMax \in Nat /\ ListMax \in Nat /\ ListMax >= 2 * SnapshotMax
  BY EmptySeq, LenProperties, LimitAssumption
<1>2. /\ top \in Seq(1..EventCap)
      /\ Len(top) = IF Len(l) < SnapshotMax THEN Len(l) ELSE SnapshotMax
      /\ \A i \in 1..Len(top) : top[i] = l[i]
  BY <1>1, NewestProperties
<1>3. DOMAIN top = 1..Len(top)
  BY <1>2, LenProperties
<1> HIDE DEF top
<1>4. /\ a \in Nat /\ b \in Nat /\ b <= a
      /\ \A i \in 1..ListMax : i <= a =>
           i <= Len(v) /\ 0 + i <= Len(l) /\ v[i] = l[0 + i]
      /\ \A i \in 1..SnapshotMax : b + i <= Len(l) /\ a + i <= ListMax =>
           a + i <= Len(v) /\ v[a + i] = l[b + i]
  BY DEF Paged
<1>5. ASSUME NEW j \in 1..Len(top)
      PROVE  \E i \in DOMAIN v : v[i] = l[j] /\ (j = 1 => i = 1)
  <2>1. j \in Nat /\ 1 <= j /\ j <= SnapshotMax /\ j <= Len(l) /\ j \in 1..ListMax
    BY <1>1, <1>2
  <2>2. CASE j <= a
    <3>1. j <= Len(v) /\ v[j] = l[0 + j] /\ 0 + j = j
      BY <1>4, <2>1, <2>2
    <3>2. j \in DOMAIN v
      BY <1>1, <2>1, <3>1
    <3>3. QED BY <3>1, <3>2
  <2>3. CASE ~(j <= a)
    <3> DEFINE i == j - b
    <3>1. i \in 1..SnapshotMax /\ b + i = j /\ a + i <= ListMax
      BY <1>1, <1>4, <2>1, <2>3
    <3>2. j = 1 => a + i = 1
      BY <1>4, <2>3
    <3>3. a + i >= 1 /\ a + i \in Nat
      BY <1>4, <3>1
    <3> HIDE DEF i
    <3>4. a + i <= Len(v) /\ v[a + i] = l[b + i]
      BY <1>4, <2>1, <3>1
    <3>5. a + i \in DOMAIN v
      BY <1>1, <3>3, <3>4
    <3>6. QED BY <3>1, <3>2, <3>4, <3>5
  <2>4. QED BY <2>2, <2>3
<1>6. Elements(top) \subseteq Elements(v)
  BY <1>2, <1>3, <1>5 DEF Elements
<1>7. Head(v) = Head(l)
  <2>1. 1 \in 1..Len(top)
    BY <1>1, <1>2
  <2>2. 1 \in DOMAIN v /\ v[1] = l[1]
    BY <1>5, <2>1
  <2>3. Head(v) = v[1] /\ Head(l) = l[1]
    OBVIOUS
  <2>4. QED BY <2>2, <2>3
<1>8. QED BY <1>6, <1>7 DEF top

\* A recorded message goes to the list and to the queue in one step.
LEMMA ReadsNew ==
  ASSUME NEW s \in Seq(Event), NEW e \in MessageEvents, NEW l \in Seq(1..EventCap),
         NEW v, NEW streaming, Reads(s, v, l, streaming)
  PROVE  Reads(Append(s, e), v, <<e.n>> \o l, streaming)
<1>1. e.n \in 1..EventCap
  BY DEF MessageEvents, Event
<1>2. PICK d \in Nat : /\ \E g : Waits(s, l, d, g)
                       /\ streaming => \E a, b \in Nat : Paged(v, l, d, a, b)
  BY DEF Reads
<1>3. \E h : Waits(Append(s, e), <<e.n>> \o l, d + 1, h)
  BY <1>2, WaitsNew
<1>4. ASSUME streaming
      PROVE  \E a, b \in Nat : Paged(v, <<e.n>> \o l, d + 1, a, b)
  <2>1. PICK a \in Nat, b \in Nat : Paged(v, l, d, a, b)
    BY <1>2, <1>4
  <2>2. Paged(v, <<e.n>> \o l, d + 1, a, b + 1)
    BY <1>1, <2>1, PagedNew
  <2>3. b + 1 \in Nat
    OBVIOUS
  <2>4. QED BY <2>2, <2>3
<1>5. d + 1 \in Nat
  BY <1>2
<1>6. QED BY <1>3, <1>4, <1>5 DEF Reads

\* Another event goes to the queue.
LEMMA ReadsOther ==
  ASSUME NEW s \in Seq(Event), NEW e \in Event, e \notin MessageEvents,
         NEW l, NEW v, NEW streaming, Reads(s, v, l, streaming)
  PROVE  Reads(Append(s, e), v, l, streaming)
BY WaitsOther DEF Reads

\* A new subscription has nothing to read.
LEMMA ReadsNothing ==
  ASSUME NEW l, Len(l) \in Nat, NEW v
  PROVE  Reads(<<>>, v, l, FALSE)
<1> DEFINE g == [k \in 1..0 |-> 0]
<1>1. DOMAIN <<>> = {} /\ 1..0 = {}
  OBVIOUS
<1>2. g \in [1..0 -> DOMAIN <<>>]
  BY <1>1
<1> HIDE DEF g
<1>3. Waits(<<>>, l, 0, g)
  BY <1>1, <1>2 DEF Waits
<1>4. QED BY <1>3 DEF Reads

\* A snapshot is taken with whatever waits still to come.
LEMMA ReadsSnapshot ==
  ASSUME NEW s, NEW l \in Seq(1..EventCap), NEW v, Reads(s, v, l, FALSE)
  PROVE  Reads(s, Newest(l, SnapshotMax), l, TRUE)
<1>1. PICK d \in Nat : \E g : Waits(s, l, d, g)
  BY DEF Reads
<1>2. Paged(Newest(l, SnapshotMax), l, d, 0, 0)
  BY PagedSnapshot
<1>3. QED BY <1>1, <1>2 DEF Reads

\* The head of the queue is folded into the page.
LEMMA ReadsDelivered ==
  ASSUME NEW s \in Seq(Event), s # <<>>, NEW l \in Seq(1..EventCap), NEW v \in Seq(1..EventCap),
         Reads(s, v, l, TRUE)
  PROVE  /\ Head(s) \in MessageEvents =>
              Reads(Tail(s), Newest(<<Head(s).n>> \o v, ListMax), l, TRUE)
         /\ Head(s) \notin MessageEvents => Reads(Tail(s), v, l, TRUE)
<1>1. PICK d \in Nat : (\E g : Waits(s, l, d, g)) /\ \E a, b \in Nat : Paged(v, l, d, a, b)
  BY DEF Reads
<1>2. PICK g : Waits(s, l, d, g)
  BY <1>1
<1>3. PICK a \in Nat, b \in Nat : Paged(v, l, d, a, b)
  BY <1>1
<1>4. Len(l) \in Nat
  BY LenProperties
<1>5. ASSUME Head(s) \in MessageEvents
      PROVE  Reads(Tail(s), Newest(<<Head(s).n>> \o v, ListMax), l, TRUE)
  <2>1. d >= 1 /\ Head(s).n = l[d] /\ \E h : Waits(Tail(s), l, d - 1, h)
    BY <1>2, <1>4, <1>5, WaitsTail
  <2>2. d <= Len(l)
    BY <1>2 DEF Waits
  <2>3. l[d] \in 1..EventCap
    <3>1. d \in 1..Len(l)
      BY <1>4, <2>1, <2>2
    <3>2. QED BY <3>1, ElementOfSeq
  <2>4. Paged(Newest(<<l[d]>> \o v, ListMax), l, d - 1, a + 1, b)
    BY <1>3, <1>4, <2>1, <2>2, <2>3, PagedDelivered
  <2>5. d - 1 \in Nat /\ a + 1 \in Nat
    BY <2>1
  <2>6. QED BY <1>3, <2>1, <2>4, <2>5 DEF Reads
<1>6. ASSUME Head(s) \notin MessageEvents
      PROVE  Reads(Tail(s), v, l, TRUE)
  <2>1. \E h : Waits(Tail(s), l, d, h)
    BY <1>2, <1>4, <1>6, WaitsTail
  <2>2. QED BY <1>3, <2>1 DEF Reads
<1>7. QED BY <1>5, <1>6

\* A step that fans nothing out and leaves the list alone reads as before for
\* every client it does not serve.
LEMMA OthersRead ==
  ASSUME TypeInv, MessagesRead, UNCHANGED list, NEW c,
         \A d \in Clients \ {c} :
           phase'[d] = phase[d] /\ sub'[d] = sub[d] /\ view'[d] = view[d] /\ missed'[d] = missed[d],
         Listening(c)' => Reads(sub[c], view[c].list, list, phase[c] = "streaming")'
  PROVE  MessagesRead'
<1>1. ASSUME NEW d \in Clients, d # c, Listening(d)'
      PROVE  Reads(sub[d], view[d].list, list, phase[d] = "streaming")'
  <2>1. Listening(d)
    BY <1>1 DEF Listening
  <2>2. QED BY <1>1, <2>1 DEF MessagesRead
<1>2. QED BY <1>1 DEF MessagesRead

\* An event is fanned out: every subscription that drops nothing has it.
LEMMA FanoutRead ==
  ASSUME TypeInv, MessagesRead, NEW e \in Event, Fanout(e), UNCHANGED <<phase, view>>,
         \/ e \in MessageEvents /\ list' = <<e.n>> \o list
         \/ e \notin MessageEvents /\ list' = list
  PROVE  MessagesRead'
<1> SUFFICES ASSUME NEW c \in Clients, Listening(c)'
             PROVE  Reads(sub'[c], view[c].list, list', phase[c] = "streaming")
  BY DEF MessagesRead
<1>1. Listening(c) /\ sub[c] \in Seq(Event) /\ sub'[c] = Append(sub[c], e)
  BY FanoutHeard
<1>2. Reads(sub[c], view[c].list, list, phase[c] = "streaming")
  BY <1>1 DEF MessagesRead
<1>3. list \in Seq(1..EventCap)
  BY TypeParts DEF TypeInv, ServerType
<1>4. QED BY <1>1, <1>2, <1>3, ReadsNew, ReadsOther

LEMMA SnapshotRead ==
  ASSUME TypeInv, MessagesRead, NEW c \in Clients, Snapshot(c)
  PROVE  MessagesRead'
<1> USE TypeParts DEF TypeInv
<1>1. /\ UNCHANGED <<list, missed>> /\ sub' = sub /\ phase[c] = "subscribed"
      /\ phase'[c] = "streaming"
      /\ \A d \in Clients \ {c} : phase'[d] = phase[d] /\ view'[d] = view[d]
      /\ view'[c].list = Newest(list, SnapshotMax)
  BY DEF Snapshot, server, RequestType, PageType
<1>2. ASSUME Listening(c)'
      PROVE  Reads(sub[c], view[c].list, list, phase[c] = "streaming")'
  <2>1. Reads(sub[c], view[c].list, list, FALSE)
    <3>1. Listening(c)
      BY <1>1, <1>2 DEF Listening
    <3>2. QED BY <1>1, <3>1 DEF MessagesRead, Reads
  <2>2. list \in Seq(1..EventCap)
    BY DEF ServerType
  <2>3. Reads(sub[c], Newest(list, SnapshotMax), list, TRUE)
    BY <2>1, <2>2, ReadsSnapshot
  <2>4. QED BY <1>1, <2>3 DEF Reads
<1>3. QED BY <1>1, <1>2, OthersRead

LEMMA DeliverRead ==
  ASSUME TypeInv, MessagesRead, NEW c \in Clients, Deliver(c)
  PROVE  MessagesRead'
<1> USE TypeParts DEF TypeInv
<1> DEFINE e == Head(sub[c])
<1>1. /\ UNCHANGED <<list, missed, phase>> /\ phase[c] = "streaming"
      /\ sub'[c] = Tail(sub[c]) /\ view'[c] = Fold(view[c], e)
      /\ \A d \in Clients \ {c} : sub'[d] = sub[d] /\ view'[d] = view[d]
  BY DEF Deliver, server, QueueType, PageType
<1>2. sub[c] \in Seq(Event) /\ sub[c] # <<>> /\ e \in Event
  BY HeadTailProperties DEF Deliver, QueueType
<1>3. view[c] \in View /\ e.kind \in Kinds /\ (e \in MessageEvents <=> e.kind = "message")
  BY <1>2 DEF PageType, Event, MessageEvents
<1>4. view'[c].list = IF e \in MessageEvents
                      THEN Newest(<<e.n>> \o view[c].list, ListMax) ELSE view[c].list
  <2>1. /\ e.kind = "link" => Fold(view[c], e).list = view[c].list
        /\ e.kind = "node" => Fold(view[c], e).list = view[c].list
        /\ e.kind = "message" =>
             Fold(view[c], e).list = Newest(<<e.n>> \o view[c].list, ListMax)
        /\ e.kind = "telemetry" => Fold(view[c], e).list = view[c].list
    BY <1>3 DEF Fold, View
  <2>2. QED BY <1>1, <1>3, <2>1 DEF Kinds
<1>5. ASSUME Listening(c)'
      PROVE  Reads(sub[c], view[c].list, list, phase[c] = "streaming")'
  <2>1. Reads(sub[c], view[c].list, list, TRUE)
    <3>1. Listening(c)
      BY <1>1, <1>5 DEF Listening
    <3>2. QED BY <1>1, <3>1 DEF MessagesRead, Reads
  <2>2. list \in Seq(1..EventCap) /\ view[c].list \in Seq(1..EventCap)
    BY <1>3 DEF ServerType, View
  <2>3. Reads(Tail(sub[c]), view'[c].list, list, TRUE)
    BY <1>2, <1>4, <2>1, <2>2, ReadsDelivered
  <2>4. QED BY <1>1, <2>3 DEF Reads
<1> HIDE DEF e
<1>6. QED BY <1>1, <1>5, OthersRead

LEMMA MessagesStep == TypeInv /\ MessagesRead /\ [Next]_vars => MessagesRead'
<1> SUFFICES ASSUME TypeInv, MessagesRead, [Next]_vars
             PROVE  MessagesRead'
  OBVIOUS
<1> USE TypeParts DEF TypeInv
<1>1. ASSUME UNCHANGED <<list, phase, sub, missed, view>>
      PROVE  MessagesRead'
  BY <1>1 DEF MessagesRead, Listening
<1>2. ASSUME NEW kind \in Kinds, NEW x \in Nodes, Emit(kind, x)
      PROVE  MessagesRead'
  BY <1>1, <1>2 DEF Emit
<1>3. CASE TakeLink
  <2>1. Carrying \in Event /\ Carrying \notin MessageEvents
    BY <1>3, CarriesLink DEF MessageEvents
  <2>2. Fanout(Carrying) /\ UNCHANGED <<phase, view>> /\ list' = list
    BY <1>3 DEF TakeLink, Carrying
  <2>3. QED BY <2>1, <2>2, FanoutRead
<1>4. CASE TakeWritten \/ WriteFails
  BY <1>1, <1>4 DEF TakeWritten, WriteFails
<1>5. CASE Written
  <2>1. job \in Event /\ Fanout(job) /\ UNCHANGED <<phase, view>>
        /\ list' = IF job.kind = "message" THEN <<job.n>> \o list ELSE list
    BY <1>5 DEF Written, ServerType
  <2>2. job \in MessageEvents <=> job.kind = "message"
    BY <2>1 DEF MessageEvents
  <2>3. QED BY <2>1, <2>2, FanoutRead
<1>6. ASSUME NEW c \in Clients,
             Subscribe(c) \/ Close(c) \/ Unsubscribe(c) \/ Abandon(c)
      PROVE  MessagesRead'
  <2>1. /\ UNCHANGED <<list, view>>
        /\ \A d \in Clients \ {c} : /\ phase'[d] = phase[d] /\ sub'[d] = sub[d]
                                    /\ missed'[d] = missed[d]
    BY <1>6 DEF Subscribe, Close, Unsubscribe, Abandon, server, QueueType, RequestType
  <2>2. \/ phase'[c] \in {"closed", "away"}
        \/ phase'[c] = "subscribed" /\ sub'[c] = <<>>
    BY <1>6 DEF Subscribe, Close, Unsubscribe, Abandon, QueueType, RequestType
  <2>3. ASSUME Listening(c)'
        PROVE  Reads(sub[c], view[c].list, list, phase[c] = "streaming")'
    <3>1. phase'[c] = "subscribed" /\ sub'[c] = <<>>
      BY <2>2, <2>3 DEF Listening
    <3>2. Len(list') \in Nat
      BY <2>1, LenProperties DEF ServerType
    <3>3. Reads(<<>>, view'[c].list, list', FALSE)
      BY <3>2, ReadsNothing
    <3>4. QED BY <3>1, <3>3 DEF Reads
  <2>4. QED BY <2>1, <2>3, OthersRead
<1>7. ASSUME NEW c \in Clients, Snapshot(c) \/ Deliver(c)
      PROVE  MessagesRead'
  BY <1>7, SnapshotRead, DeliverRead
<1>8. CASE UNCHANGED vars
  BY <1>1, <1>8 DEF vars, server
<1>9. QED
  BY <1>2, <1>3, <1>4, <1>5, <1>6, <1>7, <1>8 DEF Next, Dispatch

LEMMA MissesNothing == TypeInv /\ MessagesRead => NothingMissed
<1> SUFFICES ASSUME TypeInv, MessagesRead, NEW c \in Clients, Quiet(c), list # <<>>,
                    SnapshotMax > 0
             PROVE  /\ Elements(Newest(list, SnapshotMax)) \subseteq Elements(view[c].list)
                    /\ Head(view[c].list) = Head(list)
  BY DEF NothingMissed
<1>1. Listening(c) /\ phase[c] = "streaming" /\ sub[c] = <<>>
  BY DEF Quiet, Listening
<1>2. PICK d \in Nat : /\ \E g : Waits(<<>>, list, d, g)
                       /\ \E a, b \in Nat : Paged(view[c].list, list, d, a, b)
  BY <1>1 DEF MessagesRead, Reads
<1>3. PICK g : Waits(<<>>, list, d, g)
  BY <1>2
<1>4. PICK a \in Nat, b \in Nat : Paged(view[c].list, list, d, a, b)
  BY <1>2
<1>5. d = 0
  <2>1. DOMAIN <<>> = {}
    OBVIOUS
  <2>2. ~(1 \in 1..d)
    BY <1>3, <2>1 DEF Waits
  <2>3. QED BY <1>3, <2>2
<1>6. view[c].list \in Seq(1..EventCap) /\ list \in Seq(1..EventCap)
  BY TypeParts DEF TypeInv, ServerType, PageType, View
<1>7. QED BY <1>4, <1>5, <1>6, PagedCaughtUp

\* Nothing falls between a snapshot and the stream behind it, wherever the
\* dispatcher's writes and the browser's coming and going put the two: a browser
\* that has caught up shows every message a new snapshot would show it.
THEOREM NoMessageMissed == Spec => []NothingMissed
<1>1. Init => MessagesRead
  BY DEF Init, MessagesRead, Listening
<1>2. QED
  BY <1>1, InitType, TypeStep, MessagesStep, MissesNothing, PTL DEF Spec
=============================================================================
