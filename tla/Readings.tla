------------------------------ MODULE Readings ------------------------------
(***************************************************************************)
(* The rest of app/core/mesh/store.py around the nodes: a telemetry series *)
(* with its table, its warm start and its retention, and the requests for  *)
(* nodes and series in app/api/routes.py.                                  *)
(*                                                                         *)
(* Samples are written by the dispatcher that writes the nodes, over the   *)
(* same connection, so a commit or a rollback of one is a commit or a      *)
(* rollback of the other.  The handlers of the requests are no coroutines: *)
(* each runs in a thread of the pool while the loop changes what it reads. *)
(* Requests change nothing, so one at a time stands for all of them; and   *)
(* one series stands for all.                                              *)
(***************************************************************************)
EXTENDS NodeStore, Sequences

CONSTANTS
  Sightings,    \* what a radio may hear: fields, keys of the raw payload, a time
  SparkPoints,  \* points kept of a series
  NodeLimit,    \* nodes in an answer
  SampleCap,    \* bound: samples in the life of the table
  EventCap      \* bound: samples and sightings together; no request after the last

ASSUME ReadingsAssumption ==
  /\ Sightings \subseteq (SUBSET Fields) \X (SUBSET Keys) \X Times
  /\ SparkPoints \in Nat \ {0} /\ NodeLimit \in Nat
  /\ SampleCap \in Nat /\ EventCap \in Nat

VARIABLES
  series,   \* MeshStore._telemetry, the deque of one key
  table,    \* the telemetry table as the connection sees it
  saved,    \* the telemetry table as of the last commit
  sample,   \* the sample the dispatcher is writing, and how far it has got
  taken,    \* bound: samples so far
  unsaved,  \* history: the samples whose own write failed, or that were trimmed
  lost,     \* history: a failure has rolled telemetry back
  request   \* the request being answered

telemetry == <<series, table, saved, sample, taken, unsaved, lost>>
allVars   == <<vars, telemetry, request>>

Samples    == [n : 1..SampleCap, ts : Times]
None       == [at |-> "none"]
Attributes == Fields \cup {"seen"}

ReadingsTypeOK ==
  /\ TypeOK
  /\ series \in Seq(Samples) /\ Len(series) <= SparkPoints
  /\ table \subseteq Samples /\ saved \subseteq Samples
  /\ sample \in {None} \cup [at : {"appended", "inserted"}, it : Samples]
  /\ taken \in 0..SampleCap
  /\ unsaved \subseteq Samples /\ lost \in BOOLEAN
  /\ request \in {None} \cup [at : {"listing"}, saw : Table]
                        \cup [at : {"showing"}, saw : Table,
                              todo : SUBSET (Nodes \X Attributes), shown : Table]
                        \cup [at : {"summing"}, value : Samples]
                        \cup [at : {"summed"}, value : Samples, points : Seq(Samples)]

ReadingsInit ==
  /\ Init
  /\ series = <<>> /\ table = {} /\ saved = {}
  /\ sample = None /\ taken = 0
  /\ unsaved = {} /\ lost = FALSE
  /\ request = None

-----------------------------------------------------------------------------
(* record_telemetry.                                                       *)

Latest(s, n) == SubSeq(s, IF Len(s) < n THEN 1 ELSE Len(s) - n + 1, Len(s))

\* The series has the sample before its row is written.
RecordSample(ts) ==
  LET new == [n |-> taken + 1, ts |-> ts]
  IN /\ job = Idle /\ sample = None
     /\ taken < SampleCap /\ born + taken < EventCap
     /\ taken'  = taken + 1
     /\ series' = Latest(Append(series, new), SparkPoints)
     /\ sample' = [at |-> "appended", it |-> new]
     /\ UNCHANGED <<vars, table, saved, unsaved, lost, request>>

WrongInsertSample ==    \* INSERT OR IGNORE, with one row per time
  /\ sample.at = "appended"
  /\ table'  = IF \E s \in table : s.ts = sample.it.ts THEN table ELSE table \cup {sample.it}
  /\ sample' = [sample EXCEPT !.at = "inserted"]
  /\ UNCHANGED <<vars, series, saved, taken, unsaved, lost, request>>
InsertSample ==
  /\ sample.at = "appended"
  /\ table'  = table \cup {sample.it}
  /\ sample' = [sample EXCEPT !.at = "inserted"]
  /\ UNCHANGED <<vars, series, saved, taken, unsaved, lost, request>>

\* The commit is one for both tables, also where the trimmer makes it.
CommitBoth ==
  /\ saved' = table
  /\ UNCHANGED <<series, table, taken, unsaved, lost>>

\* Nodes have changed by themselves only if the trimmer is to be blamed.
NodesCommitted == durable' = working /\ UNCHANGED <<cache, working, job, born, behind, cold, undone>>

CommitSample ==
  /\ sample.at = "inserted"
  /\ CommitBoth /\ NodesCommitted
  /\ sample' = None
  /\ UNCHANGED request

\* What a failure rolls back is what is open in both tables.
RollbackToo ==
  \/ working' = working /\ UNCHANGED <<table, lost>>
  \/ working' = durable /\ table' = saved /\ lost' = (lost \/ table # saved)

\* The dispatcher logs it and takes the next event.  The series is not repaired.
SampleFails ==
  /\ sample # None
  /\ Rollback /\ RollbackToo
  /\ unsaved' = unsaved \cup {sample.it}
  /\ sample' = None
  /\ UNCHANGED <<cache, durable, job, born, behind, cold, series, saved, taken,
                 request>>

-----------------------------------------------------------------------------
(* The nodes, the trimmer and restarts, in NodeStore and here.             *)

Sight(x, s) ==
  /\ sample = None
  /\ born + taken < EventCap
  /\ RecordNode(x, s[1], s[2], s[3])
  /\ UNCHANGED <<telemetry, request>>

WriteNode ==
  /\ UpsertNode \/ Return
  /\ UNCHANGED <<telemetry, request>>

CommitNodeToo ==
  /\ CommitNode
  /\ CommitBoth
  /\ UNCHANGED <<sample, request>>

NodeFails ==
  /\ WriteFails /\ RollbackToo
  /\ UNCHANGED <<series, saved, sample, taken, unsaved, request>>

\* DELETE FROM telemetry WHERE ts < ?, in the transaction of the trimmer.
TrimSamples(cutoff) ==
  LET old == {s \in table : s.ts < cutoff}
  IN /\ old # {}
     /\ table'   = table \ old
     /\ unsaved' = unsaved \cup old
     /\ UNCHANGED <<vars, series, saved, sample, taken, lost, request>>

TrimCommitsBoth ==
  /\ working # durable \/ table # saved
  /\ CommitBoth /\ NodesCommitted
  /\ UNCHANGED <<sample, request>>

TrimFailsBoth ==
  /\ working # durable \/ table # saved
  /\ Rollback /\ RollbackToo
  /\ UNCHANGED <<cache, durable, job, born, behind, cold>>
  /\ UNCHANGED <<series, saved, sample, taken, unsaved, request>>

\* The rows of the last day (after `since`) in the order of their times; which
\* order those of one time have is up to SQLite.
InOrder(rows) ==
  {q \in [1..Cardinality(rows) -> rows] :
     \A i, j \in 1..Cardinality(rows) : i < j => q[i] # q[j] /\ q[i].ts <= q[j].ts}

RestartBoth ==
  /\ Restart
  /\ \E since \in Times \cup {0} :
       \E q \in InOrder({s \in saved : s.ts > since}) : series' = Latest(q, SparkPoints)
  /\ table' = saved
  /\ sample' = None /\ unsaved' = {} /\ request' = None
  /\ UNCHANGED <<saved, taken, lost>>

-----------------------------------------------------------------------------
(* GET /api/nodes: MeshStore.nodes in a thread.                            *)

\* to_dict without include_raw.
ToDict(record) == [record EXCEPT !.raw = {}]

AskNodes ==
  /\ request = None /\ born + taken < EventCap
  /\ request' = [at |-> "listing", saw |-> [x \in Nodes |-> ToDict(cache[x])]]
  /\ UNCHANGED <<vars, telemetry>>

\* As many of the nodes as fit, those heard last.  (The sort reads one last_seen
\* after the other; here it is decided at once whom it puts first.)
Chosen ==
  {s \in SUBSET Heard(cache) :
     /\ s = Heard(cache) \/ Cardinality(s) = NodeLimit
     /\ Cardinality(s) <= NodeLimit
     /\ \A x \in s, y \in Heard(cache) \ s : cache[y].seen <= cache[x].seen}

\* Iterating over the dictionary succeeds if no node has been added meanwhile.
List ==
  /\ request.at = "listing"
  /\ Heard(cache) = Heard(request.saw)
  /\ \E s \in Chosen :
       request' = [at |-> "showing", saw |-> request.saw, todo |-> s \X Attributes,
                   shown |-> [x \in Nodes |-> Unheard]]
  /\ UNCHANGED <<vars, telemetry>>

Answered == request.at = "showing" /\ request.todo = {}

\* RuntimeError: the dictionary changed size.  The answer is a 500.
ListFails ==
  /\ request.at = "listing"
  /\ Heard(cache) # Heard(request.saw)
  /\ request' = None
  /\ UNCHANGED <<vars, telemetry>>

\* Record r with what record s says of attribute a.
Filled(r, s, a) ==
  [known |-> [f \in Fields |-> IF f = a THEN s.known[f] ELSE r.known[f]],
   raw   |-> r.raw,
   seen  |-> IF a = "seen" THEN s.seen ELSE r.seen]

WrongShow(x, a) ==    \* reads the row
  /\ request.at = "showing" /\ <<x, a>> \in request.todo
  /\ request' = [request EXCEPT !.todo = @ \ {<<x, a>>}, !.shown[x] = Filled(@, working[x], a)]
  /\ UNCHANGED <<vars, telemetry>>
\* One attribute after the other, each as it is by then: merge changes the record
\* in place.
Show(x, a) ==
  /\ request.at = "showing" /\ <<x, a>> \in request.todo
  /\ request' = [request EXCEPT !.todo = @ \ {<<x, a>>}, !.shown[x] = Filled(@, cache[x], a)]
  /\ UNCHANGED <<vars, telemetry>>

-----------------------------------------------------------------------------
(* GET /api/telemetry: MeshStore.telemetry_summary in a thread.            *)

AskSeries ==
  /\ request = None /\ born + taken < EventCap
  /\ series # <<>>
  /\ request' = [at |-> "summing", value |-> series[Len(series)]]
  /\ UNCHANGED <<vars, telemetry>>

\* The points are read after the value; a deque that changes while it is being
\* iterated over makes it a 500.
Sum ==
  /\ request.at = "summing"
  /\ request' \in {None, [at |-> "summed", value |-> request.value, points |-> series]}
  /\ UNCHANGED <<vars, telemetry>>

Respond ==
  /\ Answered \/ request.at = "summed"
  /\ request' = None
  /\ UNCHANGED <<vars, telemetry>>

-----------------------------------------------------------------------------
Write ==
  \/ \E ts \in Times : RecordSample(ts) \/ TrimSamples(ts)
  \/ InsertSample \/ CommitSample \/ SampleFails
  \/ \E x \in Nodes, s \in Sightings : Sight(x, s)
  \/ WriteNode \/ CommitNodeToo \/ NodeFails
  \/ TrimCommitsBoth \/ TrimFailsBoth \/ RestartBoth

Read ==
  \/ AskNodes \/ List \/ ListFails
  \/ \E x \in Nodes, a \in Attributes : Show(x, a)
  \/ AskSeries \/ Sum \/ Respond

ReadingsNext == Write \/ Read

ReadingsSpec == ReadingsInit /\ [][ReadingsNext]_allVars

-----------------------------------------------------------------------------
(* Properties.                                                             *)

\* What the series shows is on disk: as long as no failure has rolled telemetry
\* back, each of its points has its row, unless the point's own write failed or
\* is under way, or the trimmer has deleted it.
SeriesBacked ==
  ~lost => \A i \in DOMAIN series :
    \/ series[i] \in table \cup unsaved
    \/ sample.at = "appended" /\ sample.it = series[i]

\* A request that is answered at all is answered with nothing older than what
\* was there when it came, although its thread reads record after record, and
\* attribute after attribute, while the loop changes them: every node it had room
\* for is there, no field of it is blank that was known, and the value of a series
\* is among its points, or older than all of them.
AnswersCurrent ==
  /\ Answered =>
       /\ Cardinality(Heard(request.saw)) <= NodeLimit =>
            Heard(request.saw) = Heard(request.shown)
       /\ \A x \in Heard(request.shown) :
            /\ \A f \in Fields :
                 request.saw[x].known[f] # 0 => request.shown[x].known[f] >= request.saw[x].known[f]
            /\ request.saw[x].seen <= request.shown[x].seen
  /\ request.at = "summed" =>
       \/ \E i \in DOMAIN request.points : request.points[i] = request.value
       \/ \A i \in DOMAIN request.points : request.points[i].n > request.value.n
=============================================================================
