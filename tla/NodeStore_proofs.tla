-------------------------- MODULE NodeStore_proofs --------------------------
(***************************************************************************)
(* Proofs about NodeStore, for every set of nodes, fields, payload keys    *)
(* and timestamps and every limit of the warm start.                       *)
(***************************************************************************)
EXTENDS NodeStore, TLAPS

LEMMA UnheardType == Unheard \in Records
BY SizeAssumption DEF Unheard, Records

LEMMA SightingType ==
  ASSUME born \in 0..SightingCap, born < SightingCap, NEW fields,
         NEW keys \in SUBSET Keys, NEW ts \in Times
  PROVE  Sighting(fields, keys, ts) \in Records
BY SizeAssumption DEF Sighting, Records

\* What a field of s says that r did not leave open; no older than r.
Covers(r, s) ==
  /\ \A f \in Fields : r.known[f] # 0 => s.known[f] # 0
  /\ r.seen <= s.seen

LEMMA SeenNat == ASSUME NEW r \in Records PROVE r.seen \in Nat
<1>1. r.seen \in Times \cup {0}
  BY DEF Records
<1>2. CASE r.seen \in Times
  <2>1. r.seen \in Nat \ {0}
    BY <1>2, TimeAssumption
  <2>2. QED BY <2>1
<1>3. CASE r.seen = 0
  BY <1>3
<1>4. QED BY <1>1, <1>2, <1>3

\* Folding a record into another one gives a record that covers both.
LEMMA FoldCovers ==
  ASSUME NEW r \in Records, NEW s \in Records, NEW raw \in SUBSET Keys
  PROVE  /\ Fold(r, s, raw) \in Records /\ Fold(r, s, raw).raw = raw
         /\ Covers(r, Fold(r, s, raw)) /\ Covers(s, Fold(r, s, raw))
<1>1. Fold(r, s, raw) \in Records
  <2>1. Later(r.seen, s.seen) \in Times \cup {0}
    BY DEF Later, Records
  <2>2. [f \in Fields |-> IF s.known[f] = 0 THEN r.known[f] ELSE s.known[f]]
          \in [Fields -> 0..SightingCap]
    BY DEF Records
  <2>3. QED BY <2>1, <2>2 DEF Fold, Records
<1>2. r.seen <= Fold(r, s, raw).seen /\ s.seen <= Fold(r, s, raw).seen
  BY SeenNat DEF Fold, Later
<1>3. ASSUME NEW f \in Fields
      PROVE  Fold(r, s, raw).known[f] = IF s.known[f] = 0 THEN r.known[f] ELSE s.known[f]
  BY DEF Fold
<1>4. Fold(r, s, raw).raw = raw
  BY DEF Fold
<1>5. QED BY <1>1, <1>2, <1>3, <1>4 DEF Covers

LEMMA RawType == ASSUME NEW r \in Records PROVE r.raw \in SUBSET Keys
BY DEF Records

\* The cached record after a sighting, and the row after a write, are the fold,
\* each with the raw payload in its own way.
LEMMA MergeType ==
  ASSUME NEW r \in Records, NEW s \in Records
  PROVE  Merge(r, s) \in Records
<1>1. r.raw \cup s.raw \in SUBSET Keys
  BY RawType
<1>2. QED BY <1>1, FoldCovers DEF Merge

KeptRaw(row, record) == IF record.raw = {} THEN row.raw ELSE record.raw

LEMMA UpsertFolds ==
  ASSUME NEW r \in Records, NEW s \in Records, r # Unheard
  PROVE  /\ Upsert(r, s) = Fold(r, s, KeptRaw(r, s)) /\ KeptRaw(r, s) \in SUBSET Keys
         /\ s.raw \subseteq KeptRaw(r, s)
BY RawType DEF Upsert, KeptRaw

LEMMA UpsertCovers ==
  ASSUME NEW r \in Records, NEW s \in Records
  PROVE  Upsert(r, s) \in Records /\ Covers(r, Upsert(r, s))
<1>1. CASE r = Unheard
  <2>1. \A f \in Fields : r.known[f] = 0
    BY <1>1 DEF Unheard
  <2>2. r.seen = 0
    BY <1>1 DEF Unheard
  <2>3. r.seen <= s.seen
    BY <2>2, SeenNat
  <2>4. QED BY <1>1, <2>1, <2>3 DEF Upsert, Covers
<1>2. CASE r # Unheard
  BY <1>2, FoldCovers, UpsertFolds
<1>3. QED BY <1>1, <1>2

LEMMA CoversItself == ASSUME NEW r \in Records PROVE Covers(r, r)
BY SeenNat DEF Covers

LEMMA CoversTransitive ==
  ASSUME NEW r \in Records, NEW s \in Records, NEW t \in Records,
         Covers(r, s), Covers(s, t)
  PROVE  Covers(r, t)
<1>1. r.seen \in Nat /\ s.seen \in Nat /\ t.seen \in Nat
  BY SeenNat
<1>2. QED BY <1>1 DEF Covers

-----------------------------------------------------------------------------
Jobs == {Idle} \cup [at : {"merged", "executed", "committed"}, node : Nodes, view : Records]

LEMMA JobType ==
  ASSUME TypeOK, job.at \in {"merged", "executed", "committed"}
  PROVE  /\ job.node \in Nodes /\ job.view \in Records
         /\ job \in [at : {"merged", "executed", "committed"}, node : Nodes, view : Records]
BY DEF TypeOK, Idle

LEMMA InitType == Init => TypeOK
<1> SUFFICES ASSUME Init PROVE TypeOK
  OBVIOUS
<1>1. cache \in Table /\ working \in Table /\ durable \in Table
  BY UnheardType DEF Init, Table
<1>2. born \in 0..SightingCap
  BY SizeAssumption DEF Init
<1>3. QED BY <1>1, <1>2 DEF Init, TypeOK

LEMMA WarmType ==
  ASSUME TypeOK, NEW loaded, Warm(loaded)
  PROVE  cache' \in Table
BY UnheardType DEF TypeOK, Warm, Table

LEMMA StepType == TypeOK /\ [Next]_vars => TypeOK'
<1> SUFFICES ASSUME TypeOK, [Next]_vars PROVE TypeOK'
  OBVIOUS
<1>1. ASSUME NEW x \in Nodes, NEW fields \in SUBSET Fields,
             NEW keys \in SUBSET Keys, NEW ts \in Times,
             RecordNode(x, fields, keys, ts)
      PROVE  TypeOK'
  <2>1. Sighting(fields, keys, ts) \in Records
    BY <1>1, SightingType DEF TypeOK, RecordNode
  <2>2. Merge(cache[x], Sighting(fields, keys, ts)) \in Records
    BY <2>1, MergeType DEF TypeOK, Table
  <2>3. cache' \in Table
    BY <1>1, <2>2 DEF TypeOK, RecordNode, Table
  <2>4. job' \in Jobs
    BY <1>1, <2>3 DEF RecordNode, Jobs, Table
  <2>5. born' \in 0..SightingCap
    BY <1>1, SizeAssumption DEF TypeOK, RecordNode
  <2>6. QED BY <1>1, <2>3, <2>4, <2>5 DEF TypeOK, RecordNode, Jobs
<1>2. CASE UpsertNode
  <2>1. job.node \in Nodes /\ job.view \in Records /\ job' \in Jobs
    BY <1>2, JobType DEF UpsertNode, Jobs
  <2>2. Upsert(working[job.node], job.view) \in Records
    BY <2>1, UpsertCovers DEF TypeOK, Table
  <2>3. working' \in Table
    BY <1>2, <2>1, <2>2 DEF TypeOK, UpsertNode, Table
  <2>4. QED BY <1>2, <2>1, <2>3 DEF TypeOK, UpsertNode, Jobs
<1>3. CASE CommitNode
  <2>1. job' \in Jobs
    BY <1>3, JobType DEF CommitNode, Jobs
  <2>2. QED BY <1>3, <2>1 DEF TypeOK, CommitNode, Jobs
<1>4. CASE Return
  BY <1>4 DEF TypeOK, Return
<1>5. CASE WriteFails
  <2>1. job.node \in Nodes
    BY <1>5, JobType DEF WriteFails
  <2>2. working' \in Table /\ undone' \in BOOLEAN
    BY <1>5 DEF TypeOK, WriteFails, Rollback
  <2>3. QED BY <1>5, <2>1, <2>2 DEF TypeOK, WriteFails
<1>6. CASE TrimCommits
  BY <1>6 DEF TypeOK, TrimCommits
<1>7. CASE TrimFails
  <2>1. working' \in Table /\ undone' \in BOOLEAN
    BY <1>7 DEF TypeOK, TrimFails, Rollback
  <2>2. QED BY <1>7, <2>1 DEF TypeOK, TrimFails
<1>8. CASE Restart
  <2>1. PICK loaded \in SUBSET Nodes : Warm(loaded) /\ cold' = Heard(durable) \ loaded
    BY <1>8 DEF Restart
  <2>2. cache' \in Table
    BY <2>1, WarmType
  <2>3. cold' \subseteq Nodes
    BY <2>1 DEF Heard
  <2>4. QED BY <1>8, <2>2, <2>3 DEF TypeOK, Restart
<1>9. CASE UNCHANGED vars
  BY <1>9 DEF TypeOK, vars
<1>10. QED
  BY <1>1, <1>2, <1>3, <1>4, <1>5, <1>6, <1>7, <1>8, <1>9 DEF Next, Dispatcher

\* The cached records, both versions of the table and the job keep their type.
\* About record_node, the trimmer's commits and the warm start of store.py.
THEOREM TypeCorrect == Spec => []TypeOK
<1>1. Init => TypeOK
  BY InitType
<1>2. TypeOK /\ [Next]_vars => TypeOK'
  BY StepType
<1>3. QED BY <1>1, <1>2, PTL DEF Spec

-----------------------------------------------------------------------------
\* DurableKeeps does not follow from the type alone: a commit, whose ever it is,
\* makes the whole open transaction durable, so what it must not forget has to
\* be in the open transaction at all times.
Ahead == \A x \in Nodes : Covers(durable[x], working[x])

LEMMA InitAhead == Init => Ahead
BY UnheardType, CoversItself DEF Init, Ahead

LEMMA StepAhead == TypeOK /\ Ahead /\ [Next]_vars => Ahead'
<1> SUFFICES ASSUME TypeOK, Ahead, [Next]_vars PROVE Ahead'
  OBVIOUS
<1>1. \A x \in Nodes : durable[x] \in Records /\ working[x] \in Records
  BY DEF TypeOK, Table
<1>2. CASE UpsertNode
  <2>1. job.node \in Nodes /\ job.view \in Records
    BY <1>2, JobType DEF UpsertNode
  <2>2. /\ Upsert(working[job.node], job.view) \in Records
        /\ Covers(working[job.node], Upsert(working[job.node], job.view))
    BY <1>1, <2>1, UpsertCovers
  <2>3. SUFFICES ASSUME NEW x \in Nodes PROVE Covers(durable[x], working'[x])
    BY <1>2 DEF Ahead, UpsertNode
  <2>4. CASE x = job.node
    <3>1. working'[x] = Upsert(working[x], job.view)
      BY <1>2, <2>4 DEF UpsertNode, TypeOK, Table
    <3>2. QED BY <1>1, <2>2, <2>4, <3>1, CoversTransitive DEF Ahead
  <2>5. CASE x # job.node
    <3>1. working'[x] = working[x]
      BY <1>2, <2>5 DEF UpsertNode, TypeOK, Table
    <3>2. QED BY <3>1 DEF Ahead
  <2>6. QED BY <2>4, <2>5
<1>3. ASSUME durable' = working, working' = working PROVE Ahead'
  BY <1>1, <1>3, CoversItself DEF Ahead
<1>4. ASSUME durable' = durable, working' = durable PROVE Ahead'
  BY <1>1, <1>4, CoversItself DEF Ahead
<1>5. ASSUME durable' = durable, working' = working PROVE Ahead'
  BY <1>5 DEF Ahead
<1>6. CASE \E x \in Nodes, fields \in SUBSET Fields, keys \in SUBSET Keys, ts \in Times :
             RecordNode(x, fields, keys, ts)
  BY <1>5, <1>6 DEF RecordNode
<1>7. CASE CommitNode \/ TrimCommits
  BY <1>3, <1>7 DEF CommitNode, TrimCommits
<1>8. CASE Return \/ UNCHANGED vars
  BY <1>5, <1>8 DEF Return, vars
<1>9. CASE WriteFails \/ TrimFails
  BY <1>4, <1>5, <1>9 DEF WriteFails, TrimFails, Rollback
<1>10. CASE Restart
  BY <1>4, <1>10 DEF Restart
<1>11. QED
  BY <1>2, <1>6, <1>7, <1>8, <1>9, <1>10 DEF Next, Dispatcher

-----------------------------------------------------------------------------
\* RowCovers is not inductive: a commit takes the node off the list of those
\* whose write failed, and what justifies that is that the record being written
\* is the whole cached one, and is in the row once the statement has run.
Writing == {"merged", "executed", "committed"}
ViewIsCache == job.at \in Writing => job.view = cache[job.node]
WrittenHolds ==
  ~undone /\ job.at \in {"executed", "committed"} => Within(cache[job.node], working[job.node])
RowInv == RowCovers /\ ViewIsCache /\ WrittenHolds

LEMMA WithinItself == ASSUME NEW r \in Records PROVE Within(r, r)
BY SeenNat DEF Within

LEMMA UnheardWithin == ASSUME NEW r \in Records PROVE Within(Unheard, r)
<1>1. r.seen \in Nat
  BY SeenNat
<1>2. Unheard.raw = {} /\ Unheard.seen = 0 /\ \A f \in Fields : Unheard.known[f] = 0
  BY DEF Unheard
<1>3. QED BY <1>1, <1>2 DEF Within

\* The row holds the record that was upserted into it.
LEMMA UpsertHolds ==
  ASSUME NEW r \in Records, NEW s \in Records
  PROVE  Within(s, Upsert(r, s))
<1>1. CASE r = Unheard
  BY <1>1, WithinItself DEF Upsert
<1>2. CASE r # Unheard
  <2>1. Upsert(r, s) = Fold(r, s, KeptRaw(r, s)) /\ s.raw \subseteq KeptRaw(r, s)
    BY <1>2, UpsertFolds
  <2>2. s.seen <= Upsert(r, s).seen
    BY <1>2, <2>1, UpsertFolds, FoldCovers DEF Covers
  <2>3. \A f \in Fields : s.known[f] # 0 => Fold(r, s, KeptRaw(r, s)).known[f] = s.known[f]
    BY DEF Fold
  <2>4. Fold(r, s, KeptRaw(r, s)).raw = KeptRaw(r, s)
    BY DEF Fold
  <2>5. QED BY <2>1, <2>2, <2>3, <2>4 DEF Within
<1>3. QED BY <1>1, <1>2

LEMMA InitRow == Init => RowInv
<1> SUFFICES ASSUME Init PROVE RowInv
  OBVIOUS
<1>1. job.at = "idle"
  BY DEF Init, Idle
<1>2. \A x \in Nodes : cache[x] = Unheard /\ working[x] = Unheard
  BY DEF Init
<1>3. RowCovers
  BY <1>2, UnheardType, WithinItself DEF RowCovers
<1>4. QED BY <1>1, <1>3 DEF RowInv, ViewIsCache, WrittenHolds, Writing

LEMMA StepRow == TypeOK /\ RowInv /\ [Next]_vars => RowInv'
<1> SUFFICES ASSUME TypeOK, RowInv, [Next]_vars PROVE RowInv'
  OBVIOUS
<1>1. \A x \in Nodes : cache[x] \in Records /\ working[x] \in Records /\ durable[x] \in Records
  BY DEF TypeOK, Table
<1>2. ASSUME NEW x \in Nodes, NEW fields \in SUBSET Fields,
             NEW keys \in SUBSET Keys, NEW ts \in Times,
             RecordNode(x, fields, keys, ts)
      PROVE  RowInv'
  <2>1. job'.at = "merged" /\ job'.node = x /\ job'.view = cache'[x]
    BY <1>2 DEF RecordNode
  <2>2. job.at = "idle"
    BY <1>2 DEF RecordNode, Idle
  <2>3. \A y \in Nodes : y # x => cache'[y] = cache[y]
    BY <1>2 DEF RecordNode, TypeOK, Table
  <2>4. RowCovers'
    BY <1>2, <2>1, <2>2, <2>3 DEF RecordNode, RowInv, RowCovers
  <2>5. QED BY <2>1, <2>4 DEF RowInv, ViewIsCache, WrittenHolds, Writing
<1>3. CASE UpsertNode
  <2>1. job.node \in Nodes /\ job.view \in Records /\ job.at = "merged"
    BY <1>3, JobType DEF UpsertNode
  <2>2. job'.at = "executed" /\ job'.node = job.node /\ job'.view = job.view
    BY <1>3, <2>1, JobType DEF UpsertNode
  <2>3. job.view = cache[job.node]
    BY <2>1 DEF RowInv, ViewIsCache, Writing
  <2>4. working'[job.node] = Upsert(working[job.node], job.view)
    BY <1>3, <2>1 DEF UpsertNode, TypeOK, Table
  <2>5. Within(cache[job.node], working'[job.node])
    BY <1>1, <2>1, <2>3, <2>4, UpsertHolds
  <2>6. \A y \in Nodes : y # job.node => working'[y] = working[y]
    BY <1>3 DEF UpsertNode, TypeOK, Table
  <2>7. RowCovers'
    BY <1>3, <2>1, <2>2, <2>6 DEF UpsertNode, RowInv, RowCovers
  <2>8. QED BY <1>3, <2>2, <2>3, <2>5, <2>7 DEF UpsertNode, RowInv, ViewIsCache, WrittenHolds
<1>4. CASE CommitNode
  <2>1. job.node \in Nodes /\ job.at = "executed"
    BY <1>4, JobType DEF CommitNode
  <2>2. job'.at = "committed" /\ job'.node = job.node /\ job'.view = job.view
    BY <1>4, <2>1, JobType DEF CommitNode
  <2>3. ~undone => Within(cache[job.node], working[job.node])
    BY <2>1 DEF RowInv, WrittenHolds
  <2>4. RowCovers'
    BY <1>4, <2>1, <2>2, <2>3 DEF CommitNode, RowInv, RowCovers
  <2>5. job.view = cache[job.node]
    BY <2>1 DEF RowInv, ViewIsCache, Writing
  <2>6. QED BY <1>4, <2>2, <2>3, <2>4, <2>5 DEF CommitNode, RowInv, ViewIsCache, WrittenHolds
<1>5. CASE Return
  <2>1. job'.at = "idle"
    BY <1>5 DEF Return, Idle
  <2>2. RowCovers'
    BY <1>5, <2>1 DEF Return, RowInv, RowCovers
  <2>3. QED BY <2>1, <2>2 DEF RowInv, ViewIsCache, WrittenHolds, Writing
<1>6. CASE WriteFails
  <2>1. job'.at = "idle"
    BY <1>6 DEF WriteFails, Idle
  <2>2. ~undone' => ~undone /\ working' = working
    BY <1>6 DEF WriteFails, Rollback
  <2>3. RowCovers'
    BY <1>6, <2>1, <2>2 DEF WriteFails, RowInv, RowCovers
  <2>4. QED BY <2>1, <2>3 DEF RowInv, ViewIsCache, WrittenHolds, Writing
<1>7. CASE TrimCommits
  BY <1>7 DEF TrimCommits, RowInv, RowCovers, ViewIsCache, WrittenHolds
<1>8. CASE TrimFails
  <2>1. ~undone' => ~undone /\ working' = working
    BY <1>8 DEF TrimFails, Rollback
  <2>2. QED BY <1>8, <2>1 DEF TrimFails, RowInv, RowCovers, ViewIsCache, WrittenHolds
<1>9. CASE Restart
  <2>1. job'.at = "idle"
    BY <1>9 DEF Restart, Idle
  <2>2. working' = durable
    BY <1>9 DEF Restart
  <2>3. \A x \in Nodes : cache'[x] = durable[x] \/ cache'[x] = Unheard
    BY <1>9 DEF Restart, Warm
  <2>4. \A x \in Nodes : Within(cache'[x], working'[x])
    BY <1>1, <2>2, <2>3, WithinItself, UnheardWithin
  <2>5. QED BY <2>1, <2>4 DEF RowInv, RowCovers, ViewIsCache, WrittenHolds, Writing
<1>10. CASE UNCHANGED vars
  BY <1>10 DEF vars, RowInv, RowCovers, ViewIsCache, WrittenHolds
<1>11. QED
  BY <1>2, <1>3, <1>4, <1>5, <1>6, <1>7, <1>8, <1>9, <1>10 DEF Next, Dispatcher

\* As long as no failure has undone the shared transaction, the row of a node
\* holds all its cached record says, a failed write included once a later one
\* was committed.  About the cache that record_node changes before it writes.
THEOREM RowsCoverCache == Spec => []RowCovers
<1>1. Init => TypeOK /\ RowInv
  BY InitType, InitRow
<1>2. TypeOK /\ RowInv /\ [Next]_vars => (TypeOK /\ RowInv)'
  BY StepType, StepRow
<1>3. TypeOK /\ RowInv => RowCovers
  BY DEF RowInv
<1>4. QED BY <1>1, <1>2, <1>3, PTL DEF Spec

-----------------------------------------------------------------------------
\* What the browsers are sent is the whole because the cache forgets nothing
\* that either version of the row still has; and the row may be replaced by the
\* cached record, raw payload and all, for the same reason.  A node that the
\* start had no room for is the exception.
Keeps(r, s) ==
  /\ \A f \in Fields : r.known[f] # 0 => s.known[f] # 0
  /\ r.raw \subseteq s.raw
Remembered ==
  \A x \in Nodes \ cold :
    /\ Keeps(durable[x], cache[x]) /\ Keeps(working[x], cache[x])
    /\ durable[x].raw \subseteq working[x].raw
CacheInv == Remembered /\ ViewIsCache

LEMMA KeepsItself == \A r : Keeps(r, r)
BY DEF Keeps

LEMMA UnheardKeeps == \A r : Keeps(Unheard, r)
<1>1. Unheard.raw = {} /\ \A f \in Fields : Unheard.known[f] = 0
  BY DEF Unheard
<1>2. QED BY <1>1 DEF Keeps

\* Merging keeps the record that was merged into.
LEMMA MergeKeeps ==
  ASSUME NEW r \in Records, NEW s \in Records, NEW t, Keeps(t, r)
  PROVE  Keeps(t, Merge(r, s))
<1>1. CASE r = Unheard
  <2>1. r.raw = {} /\ \A f \in Fields : r.known[f] = 0
    BY <1>1 DEF Unheard
  <2>2. QED BY <2>1 DEF Keeps
<1>2. CASE r # Unheard
  <2>1. Merge(r, s) = Fold(r, s, r.raw \cup s.raw)
    BY <1>2 DEF Merge
  <2>2. Fold(r, s, r.raw \cup s.raw).raw = r.raw \cup s.raw
        /\ Covers(r, Fold(r, s, r.raw \cup s.raw))
    BY RawType, FoldCovers
  <2>3. QED BY <2>1, <2>2 DEF Keeps, Covers
<1>3. QED BY <1>1, <1>2

\* The row that a record was written to holds no more than the record, if the
\* record knew what was in the row; and its raw payload has not shrunk.
LEMMA UpsertKept ==
  ASSUME NEW r \in Records, NEW s \in Records, Keeps(r, s)
  PROVE  Keeps(Upsert(r, s), s) /\ r.raw \subseteq Upsert(r, s).raw
<1>1. CASE r = Unheard
  <2>1. Upsert(r, s) = s
    BY <1>1 DEF Upsert
  <2>2. QED BY <2>1, KeepsItself DEF Keeps
<1>2. CASE r # Unheard
  <2>1. Upsert(r, s) = Fold(r, s, KeptRaw(r, s))
    BY <1>2, UpsertFolds
  <2>2. Fold(r, s, KeptRaw(r, s)).raw = KeptRaw(r, s)
    BY DEF Fold
  <2>3. \A f \in Fields : Fold(r, s, KeptRaw(r, s)).known[f] # 0 => s.known[f] # 0
    <3>1. \A f \in Fields : Fold(r, s, KeptRaw(r, s)).known[f]
                              = IF s.known[f] = 0 THEN r.known[f] ELSE s.known[f]
      BY DEF Fold
    <3>2. QED BY <3>1 DEF Keeps
  <2>4. KeptRaw(r, s) \subseteq s.raw /\ r.raw \subseteq KeptRaw(r, s)
    BY DEF KeptRaw, Keeps
  <2>5. QED BY <2>1, <2>2, <2>3, <2>4 DEF Keeps
<1>3. QED BY <1>1, <1>2

LEMMA InitCache == Init => CacheInv
<1> SUFFICES ASSUME Init PROVE CacheInv
  OBVIOUS
<1>1. \A x \in Nodes : cache[x] = Unheard /\ working[x] = Unheard /\ durable[x] = Unheard
  BY DEF Init
<1>2. job.at = "idle"
  BY DEF Init, Idle
<1>3. QED BY <1>1, <1>2, KeepsItself DEF CacheInv, Remembered, ViewIsCache, Writing

LEMMA StepCache == TypeOK /\ CacheInv /\ [Next]_vars => CacheInv'
<1> SUFFICES ASSUME TypeOK, CacheInv, [Next]_vars PROVE CacheInv'
  OBVIOUS
<1>1. \A x \in Nodes : cache[x] \in Records /\ working[x] \in Records /\ durable[x] \in Records
  BY DEF TypeOK, Table
<1>i. Remembered /\ ViewIsCache
  BY DEF CacheInv
<1>2. ASSUME NEW x \in Nodes, NEW fields \in SUBSET Fields,
             NEW keys \in SUBSET Keys, NEW ts \in Times,
             RecordNode(x, fields, keys, ts)
      PROVE  CacheInv'
  <2>1. job'.at = "merged" /\ job'.node = x /\ job'.view = cache'[x]
    BY <1>2 DEF RecordNode
  <2>2. Sighting(fields, keys, ts) \in Records
    BY <1>2, SightingType DEF TypeOK, RecordNode
  <2>3. cache'[x] = Merge(cache[x], Sighting(fields, keys, ts))
        /\ \A y \in Nodes : y # x => cache'[y] = cache[y]
    BY <1>2 DEF RecordNode, TypeOK, Table
  <2>4. UNCHANGED <<working, durable, cold>>
    BY <1>2 DEF RecordNode
  <2>5. ASSUME NEW y \in Nodes \ cold
        PROVE  Keeps(durable[y], cache'[y]) /\ Keeps(working[y], cache'[y])
    BY <1>1, <1>i, <2>2, <2>3, MergeKeeps DEF Remembered
  <2>6. QED BY <1>i, <2>1, <2>4, <2>5 DEF CacheInv, Remembered, ViewIsCache
<1>3. CASE UpsertNode
  <2>1. job.node \in Nodes /\ job.view \in Records /\ job.at = "merged"
    BY <1>3, JobType DEF UpsertNode
  <2>2. job'.at = "executed" /\ job'.node = job.node /\ job'.view = job.view
    BY <1>3, <2>1, JobType DEF UpsertNode
  <2>3. job.view = cache[job.node]
    BY <1>i, <2>1 DEF ViewIsCache, Writing
  <2>4. working'[job.node] = Upsert(working[job.node], cache[job.node])
        /\ \A y \in Nodes : y # job.node => working'[y] = working[y]
    BY <1>3, <2>1, <2>3 DEF UpsertNode, TypeOK, Table
  <2>5. UNCHANGED <<cache, durable, cold>>
    BY <1>3 DEF UpsertNode
  <2>6. ASSUME NEW y \in Nodes \ cold
        PROVE  Keeps(working'[y], cache[y]) /\ durable[y].raw \subseteq working'[y].raw
    BY <1>1, <1>i, <2>1, <2>4, UpsertKept DEF Remembered
  <2>7. QED BY <1>i, <2>2, <2>3, <2>5, <2>6 DEF CacheInv, Remembered, ViewIsCache
<1>4. CASE CommitNode \/ TrimCommits
  <2>1. durable' = working /\ working' = working /\ cache' = cache /\ cold' = cold
    BY <1>4 DEF CommitNode, TrimCommits
  <2>2. Remembered'
    BY <1>i, <2>1 DEF Remembered
  <2>3. ViewIsCache'
    <3>1. CASE CommitNode
      <4>1. job.at = "executed" /\ job'.node = job.node /\ job'.view = job.view
        BY <3>1, JobType DEF CommitNode
      <4>2. QED BY <1>i, <2>1, <4>1 DEF ViewIsCache, Writing
    <3>2. CASE TrimCommits
      BY <1>i, <3>2 DEF TrimCommits, ViewIsCache
    <3>3. QED BY <1>4, <3>1, <3>2
  <2>4. QED BY <2>2, <2>3 DEF CacheInv
<1>5. CASE Return
  BY <1>5, <1>i DEF Return, Idle, CacheInv, Remembered, ViewIsCache, Writing
<1>6. CASE WriteFails \/ TrimFails
  <2>1. durable' = durable /\ cache' = cache /\ cold' = cold
        /\ (working' = working \/ working' = durable)
    BY <1>6 DEF WriteFails, TrimFails, Rollback
  <2>2. job' = job \/ job'.at = "idle"
    BY <1>6 DEF WriteFails, TrimFails, Idle
  <2>3. Remembered'
    BY <1>i, <2>1 DEF Remembered
  <2>4. ViewIsCache'
    BY <1>i, <2>1, <2>2 DEF ViewIsCache, Writing
  <2>5. QED BY <2>3, <2>4 DEF CacheInv
<1>7. CASE Restart
  <2>1. PICK loaded \in SUBSET Nodes : Warm(loaded) /\ cold' = Heard(durable) \ loaded
    BY <1>7 DEF Restart
  <2>2. working' = durable /\ durable' = durable /\ job'.at = "idle"
    BY <1>7 DEF Restart, Idle
  <2>3. ASSUME NEW x \in Nodes \ cold'
        PROVE  Keeps(durable[x], cache'[x])
    <3>1. CASE x \in loaded
      BY <2>1, <3>1, KeepsItself DEF Warm
    <3>2. CASE x \notin loaded
      BY <2>1, <3>2, UnheardKeeps DEF Heard
    <3>3. QED BY <3>1, <3>2
  <2>4. QED BY <2>2, <2>3 DEF CacheInv, Remembered, ViewIsCache, Writing
<1>8. CASE UNCHANGED vars
  BY <1>8, <1>i DEF vars, CacheInv, Remembered, ViewIsCache
<1>9. QED
  BY <1>2, <1>3, <1>4, <1>5, <1>6, <1>7, <1>8 DEF Next, Dispatcher

\* What record_node returns, and the browsers are sent, leaves out nothing that
\* is known of the node, unless the start had no room for it.
THEOREM ViewsComplete == Spec => []ViewComplete
<1>1. Init => TypeOK /\ CacheInv
  BY InitType, InitCache
<1>2. TypeOK /\ CacheInv /\ [Next]_vars => (TypeOK /\ CacheInv)'
  BY StepType, StepCache
<1>3. TypeOK /\ CacheInv => ViewComplete
  <2> SUFFICES ASSUME TypeOK, CacheInv, job.at = "committed", job.node \notin cold
               PROVE  Keeps(working[job.node], job.view)
    BY DEF ViewComplete, Keeps
  <2>1. job.node \in Nodes
    BY JobType
  <2>2. QED BY <2>1 DEF CacheInv, Remembered, ViewIsCache, Writing
<1>4. QED BY <1>1, <1>2, <1>3, PTL DEF Spec

\* Whatever fails, is rolled back, is committed by the trimmer or restarts, no
\* field of a row becomes unknown again and no last_seen goes back, and no key of
\* a raw payload is lost unless the start had no room for the node.  About the
\* ON CONFLICT clause of record_node and the transaction it shares.
THEOREM RowsNeverForget == Spec => DurableKeeps
<1>1. TypeOK /\ Ahead /\ CacheInv /\ [Next]_vars =>
        [\A x \in Nodes :
           /\ \A f \in Fields : durable[x].known[f] # 0 => durable'[x].known[f] # 0
           /\ durable[x].seen <= durable'[x].seen
           /\ x \notin cold => durable[x].raw \subseteq durable'[x].raw]_vars
  <2> SUFFICES ASSUME TypeOK, Ahead, CacheInv, [Next]_vars, NEW x \in Nodes
               PROVE  /\ Covers(durable[x], durable'[x])
                      /\ x \notin cold => durable[x].raw \subseteq durable'[x].raw
    BY DEF Covers
  <2>1. durable[x] \in Records
    BY DEF TypeOK, Table
  <2>2. CASE durable' = durable
    BY <2>1, <2>2, CoversItself
  <2>3. CASE durable' = working
    BY <2>3 DEF Ahead, CacheInv, Remembered
  <2>4. durable' = durable \/ durable' = working
    BY DEF Next, Dispatcher, RecordNode, UpsertNode, CommitNode, Return, WriteFails,
           TrimCommits, TrimFails, Restart, vars
  <2>5. QED BY <2>2, <2>3, <2>4
<1>2. Spec => [](TypeOK /\ Ahead /\ CacheInv)
  <2>1. Init => TypeOK /\ Ahead /\ CacheInv
    BY InitType, InitAhead, InitCache
  <2>2. TypeOK /\ Ahead /\ CacheInv /\ [Next]_vars => (TypeOK /\ Ahead /\ CacheInv)'
    BY StepType, StepAhead, StepCache
  <2>3. QED BY <2>1, <2>2, PTL DEF Spec
<1>3. QED BY <1>1, <1>2, PTL DEF Spec, DurableKeeps
=============================================================================
