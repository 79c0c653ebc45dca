------------------------------ MODULE NodeStore ------------------------------
(***************************************************************************)
(* Nodes in app/core/mesh/store.py: every sighting is folded into a cached *)
(* record field by field (NodeRecord.merge), and the merged record is then *)
(* upserted, field by field again, into the row of the node.  The two must *)
(* come to the same, although the write may fail after the cache has been  *)
(* changed, shares its transaction with the trimmer, and the cache is read *)
(* back from at most WarmLimit rows when the process starts again.         *)
(*                                                                         *)
(* The value of a field is the number of the sighting that carried it, and *)
(* 0 is None.  The flag is_self is such a field, since both sides only     *)
(* ever set it.  Of the raw payload only the keys are kept: the cache      *)
(* merges it key by key, the row replaces it as a whole.                   *)
(***************************************************************************)
EXTENDS Integers, FiniteSets

CONSTANTS
  Nodes,       \* keys of nodes
  Fields,      \* position, battery, name, ...
  Keys,        \* keys of raw payloads
  Times,       \* timestamps of sightings, from clocks that need not agree
  WarmLimit,   \* nodes that _warm_cache loads (2000)
  SightingCap  \* bound: sightings in the life of the table

ASSUME TimeAssumption == Times \subseteq Nat \ {0}
ASSUME SizeAssumption == WarmLimit \in Nat /\ SightingCap \in Nat

VARIABLES
  cache,    \* MeshStore._nodes
  working,  \* the nodes table as the connection sees it
  durable,  \* the nodes table as of the last commit
  job,      \* the sighting the dispatcher is writing, and how far it has got
  born,     \* bound: sightings so far
  behind,   \* history: nodes whose cached record a failed write left unwritten
  cold,     \* history: nodes with a row that the last start did not load
  undone    \* history: a failure has rolled the shared transaction back

vars == <<cache, working, durable, job, born, behind, cold, undone>>

Records == [known : [Fields -> 0..SightingCap], raw : SUBSET Keys, seen : Times \cup {0}]
Unheard == [known |-> [f \in Fields |-> 0], raw |-> {}, seen |-> 0]
Table   == [Nodes -> Records]
Idle    == [at |-> "idle"]
Heard(table) == {x \in Nodes : table[x] # Unheard}

TypeOK ==
  /\ cache \in Table /\ working \in Table /\ durable \in Table
  /\ job \in {Idle} \cup [at : {"merged", "executed", "committed"}, node : Nodes, view : Records]
  /\ born \in 0..SightingCap
  /\ behind \subseteq Nodes /\ cold \subseteq Nodes
  /\ undone \in BOOLEAN

Init ==
  /\ cache = [x \in Nodes |-> Unheard]
  /\ working = cache /\ durable = cache
  /\ job = Idle /\ born = 0
  /\ behind = {} /\ cold = {} /\ undone = FALSE

-----------------------------------------------------------------------------
(* record_node.                                                            *)

WrongLater(s, t) == s + t    \* adds what should be compared
Later(s, t) == IF s < t THEN t ELSE s

\* The fields that are not None in `new`, over those of `old`; the later time.
\* NodeRecord.merge and the COALESCE and MAX of ON CONFLICT both come to this,
\* and differ in the raw payload.
Fold(old, new, raw) ==
  [known |-> [f \in Fields |-> IF new.known[f] = 0 THEN old.known[f] ELSE new.known[f]],
   raw   |-> raw,
   seen  |-> Later(old.seen, new.seen)]

WrongMerge(old, new) == [new EXCEPT !.seen = Later(old.seen, new.seen)]
Merge(old, new) ==
  IF old = Unheard THEN new ELSE Fold(old, new, old.raw \cup new.raw)

WrongUpsert(row, record) == record    \* INSERT OR REPLACE
Upsert(row, record) ==
  IF row = Unheard THEN record
  ELSE Fold(row, record, IF record.raw = {} THEN row.raw ELSE record.raw)

Sighting(fields, keys, ts) ==
  [known |-> [f \in Fields |-> IF f \in fields THEN born + 1 ELSE 0],
   raw   |-> keys,
   seen  |-> ts]

WrongRecordNode(x, fields, keys, ts) ==    \* writes the sighting, not the merged record
  /\ job = Idle
  /\ born < SightingCap
  /\ born'  = born + 1
  /\ cache' = [cache EXCEPT ![x] = Merge(@, Sighting(fields, keys, ts))]
  /\ job'   = [at |-> "merged", node |-> x, view |-> Sighting(fields, keys, ts)]
  /\ UNCHANGED <<working, durable, behind, cold, undone>>
\* The cache changes first; the statement's parameters are those of the merged
\* record.
RecordNode(x, fields, keys, ts) ==
  /\ job = Idle
  /\ born < SightingCap
  /\ born'  = born + 1
  /\ cache' = [cache EXCEPT ![x] = Merge(@, Sighting(fields, keys, ts))]
  /\ job'   = [at |-> "merged", node |-> x, view |-> cache'[x]]
  /\ UNCHANGED <<working, durable, behind, cold, undone>>

UpsertNode ==
  /\ job.at = "merged"
  /\ working' = [working EXCEPT ![job.node] = Upsert(@, job.view)]
  /\ job' = [job EXCEPT !.at = "executed"]
  /\ UNCHANGED <<cache, durable, born, behind, cold, undone>>

CommitNode ==
  /\ job.at = "executed"
  /\ durable' = working
  /\ job'    = [job EXCEPT !.at = "committed"]
  /\ behind' = behind \ {job.node}
  /\ UNCHANGED <<cache, working, born, cold, undone>>

\* The merged record goes to the browsers.
Return ==
  /\ job.at = "committed"
  /\ job' = Idle
  /\ UNCHANGED <<cache, working, durable, born, behind, cold, undone>>

-----------------------------------------------------------------------------
(* The trimmer, failures and restarts.                                     *)

\* The trimmer deletes from other tables, but its commit is a commit of the
\* connection.
TrimCommits ==
  /\ working # durable
  /\ durable' = working
  /\ UNCHANGED <<cache, working, job, born, behind, cold, undone>>

\* On some errors SQLite rolls the open transaction back.
Rollback ==
  \/ UNCHANGED <<working, undone>>
  \/ working' = durable /\ undone' = (undone \/ working # durable)

\* The dispatcher logs it and takes the next event.
WriteFails ==
  /\ job.at \in {"merged", "executed"}
  /\ Rollback
  /\ behind' = behind \cup {job.node}
  /\ job' = Idle
  /\ UNCHANGED <<cache, durable, born, cold>>

TrimFails ==
  /\ working # durable
  /\ Rollback
  /\ UNCHANGED <<cache, durable, job, born, behind, cold>>

\* ORDER BY last_seen DESC LIMIT 2000: which of a tie are loaded is up to SQLite.
Warm(loaded) ==
  /\ loaded \subseteq Heard(durable)
  /\ loaded = Heard(durable) \/ Cardinality(loaded) = WarmLimit
  /\ Cardinality(loaded) <= WarmLimit
  /\ \A x \in loaded, y \in Heard(durable) \ loaded : durable[y].seen <= durable[x].seen
  /\ cache' = [x \in Nodes |-> IF x \in loaded THEN durable[x] ELSE Unheard]

\* The process stops or crashes at any point, and starts again.
Restart ==
  /\ \E loaded \in SUBSET Nodes : Warm(loaded) /\ cold' = Heard(durable) \ loaded
  /\ working' = durable
  /\ job' = Idle
  /\ behind' = {}
  /\ UNCHANGED <<durable, born, undone>>

-----------------------------------------------------------------------------
Dispatcher ==
  \/ \E x \in Nodes, fields \in SUBSET Fields, keys \in SUBSET Keys, ts \in Times :
       RecordNode(x, fields, keys, ts)
  \/ UpsertNode \/ CommitNode \/ Return \/ WriteFails

Next == Dispatcher \/ TrimCommits \/ TrimFails \/ Restart

Spec == Init /\ [][Next]_vars

-----------------------------------------------------------------------------
(* Properties.                                                             *)

\* What record r says of a node, record s says as well.
Within(r, s) ==
  /\ \A f \in Fields : r.known[f] # 0 => s.known[f] = r.known[f]
  /\ r.raw \subseteq s.raw
  /\ r.seen <= s.seen

\* The row of a node holds everything the dashboard shows of it, also what came
\* with a sighting whose own write failed, once a later sighting was written.
RowCovers ==
  ~undone => \A x \in Nodes \ behind :
    (job.at = "idle" \/ job.at = "committed" \/ job.node # x) => Within(cache[x], working[x])

\* The record that goes to the browsers is the whole of what is known: a sighting
\* that carries only a position blanks nothing, before or after a restart, of a
\* node that the start had room for.
ViewComplete ==
  job.at = "committed" /\ job.node \notin cold =>
    /\ \A f \in Fields : working[job.node].known[f] # 0 => job.view.known[f] # 0
    /\ working[job.node].raw \subseteq job.view.raw

\* The durable record never forgets: whatever fails, is rolled back or restarts,
\* also of a node the cache had lost, no field of a row becomes unknown again and
\* no last_seen goes back.  Of the raw payload, which the row replaces as a whole,
\* this holds of the nodes that the start had room for.
DurableKeeps ==
  [][\A x \in Nodes :
       /\ \A f \in Fields : durable[x].known[f] # 0 => durable'[x].known[f] # 0
       /\ durable[x].seen <= durable'[x].seen
       /\ x \notin cold => durable[x].raw \subseteq durable'[x].raw]_vars
=============================================================================
