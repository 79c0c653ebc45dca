-------------------------- MODULE Readings_proofs --------------------------
(***************************************************************************)
(* Theorems about the readings: what is proved of the nodes holds with the *)
(* samples and the requests around them, and the series are on disk.       *)
(***************************************************************************)
EXTENDS Readings, NodeStore_proofs, FiniteSetTheorems, SequenceTheorems

(* The nodes.                                                              *)

\* A commit that a sample, or the trimmer, makes.
LEMMA CommitsOfNodes == NodesCommitted => [Next]_vars
BY DEF NodesCommitted, Next, TrimCommits, vars

\* A rollback that a sample, or the trimmer, brings about.
LEMMA RollbackOfNodes ==
  ASSUME TypeOK, Rollback, UNCHANGED <<cache, durable, job, born, behind, cold>>
  PROVE  [Next]_vars
<1>1. CASE working # durable
  BY <1>1 DEF Next, TrimFails
<1>2. CASE working = durable
  <2>1. undone \in BOOLEAN
    BY DEF TypeOK
  <2>2. working' = working /\ undone' = undone
    BY <1>2, <2>1 DEF Rollback
  <2>3. QED BY <2>2 DEF vars
<1>3. QED BY <1>1, <1>2

\* Every step is a step of the nodes, or leaves them alone.
LEMMA StepNodes == TypeOK /\ [ReadingsNext]_allVars => [Next]_vars
<1> SUFFICES ASSUME TypeOK, [ReadingsNext]_allVars PROVE [Next]_vars
  OBVIOUS
<1>1. ASSUME NEW ts \in Times, RecordSample(ts) \/ TrimSamples(ts)
      PROVE  [Next]_vars
  BY <1>1 DEF RecordSample, TrimSamples
<1>2. CASE InsertSample
  BY <1>2 DEF InsertSample
<1>3. CASE CommitSample \/ TrimCommitsBoth
  BY <1>3, CommitsOfNodes DEF CommitSample, TrimCommitsBoth
<1>4. CASE SampleFails \/ TrimFailsBoth
  BY <1>4, RollbackOfNodes DEF SampleFails, TrimFailsBoth
<1>5. ASSUME NEW x \in Nodes, NEW s \in Sightings, Sight(x, s)
      PROVE  [Next]_vars
  <2>1. s[1] \in SUBSET Fields /\ s[2] \in SUBSET Keys /\ s[3] \in Times
    BY ReadingsAssumption
  <2>2. RecordNode(x, s[1], s[2], s[3])
    BY <1>5 DEF Sight
  <2>3. QED BY <2>1, <2>2 DEF Next, Dispatcher
<1>6. CASE WriteNode \/ CommitNodeToo \/ NodeFails \/ RestartBoth
  BY <1>6 DEF WriteNode, CommitNodeToo, NodeFails, RestartBoth, Next, Dispatcher
<1>7. CASE Read
  <2>1. UNCHANGED vars
    BY <1>7 DEF Read, AskNodes, List, ListFails, Show, AskSeries, Sum, Respond
  <2>2. QED BY <2>1
<1>8. CASE UNCHANGED allVars
  BY <1>8 DEF allVars
<1>9. QED
  BY <1>1, <1>2, <1>3, <1>4, <1>5, <1>6, <1>7, <1>8 DEF ReadingsNext, Write

\* With the samples, the trimming of them and the requests around it, the store
\* of the nodes does what it does alone: what is proved of NodeStore holds here.
THEOREM NodesKept == ReadingsSpec => Spec
<1>1. ReadingsInit => Init /\ TypeOK
  BY InitType DEF ReadingsInit
<1>2. TypeOK /\ [ReadingsNext]_allVars => [Next]_vars /\ TypeOK'
  BY StepNodes, StepType
<1>3. QED BY <1>1, <1>2, PTL DEF ReadingsSpec, Spec

-----------------------------------------------------------------------------
(* The series.                                                             *)

LEMMA LimitsType == SparkPoints \in Nat /\ SampleCap \in Nat /\ NodeLimit \in Nat
BY ReadingsAssumption

\* The last n elements are elements.
LEMMA LatestProperties ==
  ASSUME NEW S, NEW s \in Seq(S), NEW n \in Nat
  PROVE  /\ Latest(s, n) \in Seq(S)
         /\ Len(Latest(s, n)) <= n
         /\ \A i \in DOMAIN Latest(s, n) : \E j \in DOMAIN s : Latest(s, n)[i] = s[j]
<1> DEFINE m == IF Len(s) < n THEN 1 ELSE Len(s) - n + 1
<1>1. Len(s) \in Nat /\ DOMAIN s = 1..Len(s)
  BY LenProperties
<1>2. /\ m \in Int /\ m >= 1 /\ (m = 1 => Len(s) <= n) /\ (m # 1 => Len(s) - m + 1 = n)
      /\ \A i \in m..Len(s) : s[i] \in S
  BY <1>1, ElementOfSeq
<1>4. Latest(s, n) = SubSeq(s, m, Len(s))
  BY DEF Latest
<1> HIDE DEF m
<1>3. /\ SubSeq(s, m, Len(s)) \in Seq(S)
      /\ Len(SubSeq(s, m, Len(s))) = IF m <= Len(s) THEN Len(s) - m + 1 ELSE 0
      /\ \A i \in 1..(Len(s) - m + 1) : SubSeq(s, m, Len(s))[i] = s[m + i - 1]
  BY <1>1, <1>2, SubSeqProperties
<1>5. Len(Latest(s, n)) <= n
  BY <1>1, <1>2, <1>3, <1>4
<1>6. ASSUME NEW i \in DOMAIN Latest(s, n)
      PROVE  \E j \in DOMAIN s : Latest(s, n)[i] = s[j]
  <2>1. i \in 1..(Len(s) - m + 1)
    <3>1. DOMAIN Latest(s, n) = 1..Len(Latest(s, n))
      BY <1>3, <1>4, LenProperties
    <3>2. QED BY <1>1, <1>2, <1>3, <1>4, <3>1
  <2>2. m + i - 1 \in 1..Len(s)
    BY <1>1, <1>2, <2>1
  <2>3. QED BY <1>1, <1>3, <1>4, <2>1, <2>2
<1>7. QED BY <1>3, <1>4, <1>5, <1>6

\* What is shown of a series.
LEMMA ShownProperties ==
  ASSUME NEW s \in Seq(Samples)
  PROVE  /\ Latest(s, SparkPoints) \in Seq(Samples)
         /\ Len(Latest(s, SparkPoints)) <= SparkPoints
         /\ \A i \in DOMAIN Latest(s, SparkPoints) :
              \E j \in DOMAIN s : Latest(s, SparkPoints)[i] = s[j]
<1>1. SparkPoints \in Nat
  BY LimitsType
<1>2. Latest(s, SparkPoints) \in Seq(Samples)
  BY <1>1, LatestProperties
<1>3. Len(Latest(s, SparkPoints)) <= SparkPoints
  BY <1>1, LatestProperties
<1>4. \A i \in DOMAIN Latest(s, SparkPoints) :
        \E j \in DOMAIN s : Latest(s, SparkPoints)[i] = s[j]
  BY <1>1, LatestProperties
<1>5. QED BY <1>2, <1>3, <1>4

SamplesOK ==
  /\ series \in Seq(Samples) /\ Len(series) <= SparkPoints
  /\ table \subseteq Samples /\ saved \subseteq Samples
  /\ sample \in {None} \cup [at : {"appended", "inserted"}, it : Samples]
  /\ taken \in 0..SampleCap
  /\ unsaved \subseteq Samples /\ lost \in BOOLEAN
  /\ IsFiniteSet(table) /\ IsFiniteSet(saved)

SamplesInv == SamplesOK /\ SeriesBacked

LEMMA SampleType ==
  ASSUME SamplesOK, sample # None
  PROVE  sample.at \in {"appended", "inserted"} /\ sample.it \in Samples
BY DEF SamplesOK

LEMMA NoSample == None.at = "none"
BY DEF None

\* The rows that a start reads are in the order of a sequence.
LEMMA WarmSeries ==
  ASSUME SamplesOK, NEW rows \in SUBSET saved, NEW q \in InOrder(rows)
  PROVE  /\ Latest(q, SparkPoints) \in Seq(Samples)
         /\ Len(Latest(q, SparkPoints)) <= SparkPoints
         /\ \A i \in DOMAIN Latest(q, SparkPoints) : Latest(q, SparkPoints)[i] \in saved
<1>1. IsFiniteSet(rows) /\ Cardinality(rows) \in Nat
  BY FS_Subset, FS_CardinalityType DEF SamplesOK
<1>2. q \in [1..Cardinality(rows) -> Samples]
  BY DEF InOrder, SamplesOK
<1>3. q \in Seq(Samples) /\ DOMAIN q = 1..Cardinality(rows)
  BY <1>1, <1>2
<1>4. \A j \in DOMAIN q : q[j] \in saved
  BY <1>3 DEF InOrder
<1>5. /\ Latest(q, SparkPoints) \in Seq(Samples)
      /\ Len(Latest(q, SparkPoints)) <= SparkPoints
      /\ \A i \in DOMAIN Latest(q, SparkPoints) :
           \E j \in DOMAIN q : Latest(q, SparkPoints)[i] = q[j]
  BY <1>3, ShownProperties
<1>6. QED BY <1>4, <1>5

LEMMA InitSamples == ReadingsInit => SamplesInv
<1> SUFFICES ASSUME ReadingsInit PROVE SamplesInv
  OBVIOUS
<1>1. series \in Seq(Samples) /\ Len(series) = 0 /\ DOMAIN series = {}
  BY EmptySeq DEF ReadingsInit
<1>2. IsFiniteSet({})
  BY FS_EmptySet
<1>3. SamplesOK
  <2>1. /\ table = {} /\ saved = {} /\ unsaved = {}
        /\ sample = None /\ taken = 0 /\ lost = FALSE
    BY DEF ReadingsInit
  <2>2. Len(series) <= SparkPoints /\ taken \in 0..SampleCap
    BY <1>1, <2>1, LimitsType
  <2>3. IsFiniteSet(table) /\ IsFiniteSet(saved)
    BY <1>2, <2>1
  <2>4. QED BY <1>1, <2>1, <2>2, <2>3 DEF SamplesOK
<1>4. QED BY <1>1, <1>3 DEF SamplesInv, SeriesBacked

\* A failure leaves the telemetry table alone, or takes it back.
LEMMA RollbackSamples ==
  ASSUME SamplesOK, RollbackToo, UNCHANGED saved
  PROVE  /\ table' \subseteq Samples /\ IsFiniteSet(table') /\ lost' \in BOOLEAN
         /\ ~lost' => ~lost /\ table' = table
BY DEF SamplesOK, RollbackToo

LEMMA StepSamples == SamplesInv /\ [ReadingsNext]_allVars => SamplesInv'
<1> SUFFICES ASSUME SamplesInv, [ReadingsNext]_allVars PROVE SamplesInv'
  OBVIOUS
<1>0. SamplesOK /\ SeriesBacked
  BY DEF SamplesInv
<1>1. ASSUME NEW ts \in Times, RecordSample(ts) PROVE SamplesInv'
  <2> DEFINE new == [n |-> taken + 1, ts |-> ts]
  <2>1. new \in Samples
    BY <1>0, <1>1, LimitsType DEF RecordSample, SamplesOK, Samples
  <2>2. /\ Append(series, new) \in Seq(Samples)
        /\ \A j \in DOMAIN Append(series, new) :
             Append(series, new)[j] = new \/ \E i \in DOMAIN series : Append(series, new)[j] = series[i]
    <3> HIDE DEF new
    <3>1. Len(series) \in Nat /\ DOMAIN series = 1..Len(series)
      BY <1>0, LenProperties DEF SamplesOK
    <3>2. /\ Append(series, new) \in Seq(Samples)
          /\ Len(Append(series, new)) = Len(series) + 1
          /\ \A i \in 1..Len(series) : Append(series, new)[i] = series[i]
          /\ Append(series, new)[Len(series) + 1] = new
      BY <1>0, <2>1, AppendProperties DEF SamplesOK
    <3>3. DOMAIN Append(series, new) = 1..(Len(series) + 1)
      BY <3>2, LenProperties
    <3>4. QED BY <3>1, <3>2, <3>3
  <2>3. series' = Latest(Append(series, new), SparkPoints)
    BY <1>1 DEF RecordSample
  <2>4. /\ series' \in Seq(Samples) /\ Len(series') <= SparkPoints
        /\ \A i \in DOMAIN series' :
             series'[i] = new \/ \E j \in DOMAIN series : series'[i] = series[j]
    <3> HIDE DEF new
    <3>1. /\ series' \in Seq(Samples) /\ Len(series') <= SparkPoints
          /\ \A i \in DOMAIN series' :
               \E j \in DOMAIN Append(series, new) : series'[i] = Append(series, new)[j]
      BY <2>2, <2>3, ShownProperties
    <3>2. QED BY <2>2, <3>1
  <2>5. /\ sample = None /\ sample' = [at |-> "appended", it |-> new]
        /\ taken' = taken + 1 /\ taken < SampleCap
        /\ UNCHANGED <<table, saved, unsaved, lost>>
    BY <1>1 DEF RecordSample
  <2>6. SamplesOK'
    <3> HIDE DEF new
    <3>1. QED BY <1>0, <2>1, <2>4, <2>5, LimitsType DEF SamplesOK
  <2>7. SeriesBacked'
    <3> HIDE DEF new
    <3>1. QED BY <1>0, <2>4, <2>5, NoSample DEF SeriesBacked
  <2>8. QED BY <2>6, <2>7 DEF SamplesInv
<1>2. CASE InsertSample
  <2>1. sample # None
    BY <1>2, NoSample DEF InsertSample
  <2>2. /\ sample.it \in Samples /\ sample' = [sample EXCEPT !.at = "inserted"]
        /\ table' = table \cup {sample.it} /\ UNCHANGED <<series, saved, taken, unsaved, lost>>
    BY <1>0, <1>2, <2>1, SampleType DEF InsertSample
  <2>3. IsFiniteSet(table')
    BY <1>0, <2>2, FS_AddElement DEF SamplesOK
  <2>4. SamplesOK'
    BY <1>0, <2>1, <2>2, <2>3 DEF SamplesOK
  <2>5. QED BY <1>0, <2>2, <2>4 DEF SamplesInv, SeriesBacked
<1>3. CASE CommitSample
  <2>1. sample.at = "inserted" /\ sample' = None
    BY <1>3 DEF CommitSample
  <2>2. saved' = table /\ UNCHANGED <<series, table, taken, unsaved, lost>>
    BY <1>3 DEF CommitSample, CommitBoth
  <2>3. QED BY <1>0, <2>1, <2>2 DEF SamplesInv, SamplesOK, SeriesBacked
<1>4. CASE SampleFails
  <2>1. sample # None /\ sample.it \in Samples /\ RollbackToo
    BY <1>0, <1>4, SampleType DEF SampleFails
  <2>2. /\ unsaved' = unsaved \cup {sample.it} /\ sample' = None
        /\ UNCHANGED <<series, saved, taken>>
    BY <1>4 DEF SampleFails
  <2>3. QED
    BY <1>0, <2>1, <2>2, RollbackSamples DEF SamplesInv, SamplesOK, SeriesBacked
<1>5. CASE CommitNodeToo \/ TrimCommitsBoth
  <2>1. saved' = table /\ UNCHANGED <<series, table, taken, unsaved, lost, sample>>
    BY <1>5 DEF CommitNodeToo, TrimCommitsBoth, CommitBoth
  <2>2. QED BY <1>0, <2>1 DEF SamplesInv, SamplesOK, SeriesBacked
<1>6. CASE NodeFails \/ TrimFailsBoth
  <2>1. RollbackToo /\ UNCHANGED <<series, saved, sample, taken, unsaved>>
    BY <1>6 DEF NodeFails, TrimFailsBoth
  <2>2. QED
    BY <1>0, <2>1, RollbackSamples DEF SamplesInv, SamplesOK, SeriesBacked
<1>7. ASSUME NEW ts \in Times, TrimSamples(ts) PROVE SamplesInv'
  <2>1. PICK old \in SUBSET table : table' = table \ old /\ unsaved' = unsaved \cup old
    BY <1>7 DEF TrimSamples
  <2>2. UNCHANGED <<series, saved, sample, taken, lost>>
    BY <1>7 DEF TrimSamples
  <2>3. IsFiniteSet(table')
    BY <1>0, <2>1, FS_Subset DEF SamplesOK
  <2>4. QED BY <1>0, <2>1, <2>2, <2>3 DEF SamplesInv, SamplesOK, SeriesBacked
<1>8. CASE RestartBoth
  <2>1. /\ table' = saved /\ sample' = None /\ unsaved' = {}
        /\ UNCHANGED <<saved, taken, lost>>
    BY <1>8 DEF RestartBoth
  <2>2. PICK rows \in SUBSET saved : \E q \in InOrder(rows) : series' = Latest(q, SparkPoints)
    BY <1>8 DEF RestartBoth
  <2>3. /\ series' \in Seq(Samples) /\ Len(series') <= SparkPoints
        /\ \A i \in DOMAIN series' : series'[i] \in saved
    BY <1>0, <2>2, WarmSeries
  <2>4. SamplesOK'
    BY <1>0, <2>1, <2>3 DEF SamplesOK
  <2>5. QED BY <2>1, <2>3, <2>4 DEF SamplesInv, SeriesBacked
<1>9. CASE UNCHANGED telemetry
  BY <1>0, <1>9 DEF telemetry, SamplesInv, SamplesOK, SeriesBacked
<1>10. CASE WriteNode \/ Read \/ UNCHANGED allVars
  <2>1. UNCHANGED telemetry
    BY <1>10 DEF WriteNode, Read, AskNodes, List, ListFails, Show, AskSeries, Sum,
                 Respond, allVars
  <2>2. QED BY <1>9, <2>1
<1>11. ASSUME NEW x, NEW s, Sight(x, s) PROVE SamplesInv'
  BY <1>9, <1>11 DEF Sight
<1>12. QED
  BY <1>1, <1>2, <1>3, <1>4, <1>5, <1>6, <1>7, <1>8, <1>10, <1>11
     DEF ReadingsNext, Write

\* Unless a failure has rolled telemetry back, what the series shows has its row,
\* or its own write failed or is under way, or the trimmer has deleted it; also
\* after a start, which reads the rows of the last day in the order of their times.
\* About record_telemetry, which appends before it writes, and _warm_cache.
THEOREM SeriesOnDisk == ReadingsSpec => []SeriesBacked
<1>1. ReadingsInit => SamplesInv
  BY InitSamples
<1>2. SamplesInv /\ [ReadingsNext]_allVars => SamplesInv'
  BY StepSamples
<1>3. SamplesInv => SeriesBacked
  BY DEF SamplesInv
<1>4. QED BY <1>1, <1>2, <1>3, PTL DEF ReadingsSpec

-----------------------------------------------------------------------------
(* What the nodes remember is of the past.                                 *)

\* The sightings in a table are among the first n, those of finitely many nodes,
\* and each left its time.
Dated(t, n) ==
  /\ IsFiniteSet(Heard(t))
  /\ \A x \in Nodes :
       /\ \A f \in Fields : t[x].known[f] <= n
       /\ t[x] # Unheard => t[x].seen # 0

\* So in the cache, in both versions of the table and in the record being written.
Past ==
  /\ Dated(cache, born) /\ Dated(working, born) /\ Dated(durable, born)
  /\ job.at # "idle" => job.view.seen # 0 /\ \A f \in Fields : job.view.known[f] <= born

LEMMA KnownNat ==
  ASSUME NEW r \in Records, NEW f \in Fields
  PROVE  r.known[f] \in Nat
<1>1. r.known \in [Fields -> 0..SightingCap]
  BY DEF Records
<1>2. r.known[f] \in 0..SightingCap
  BY <1>1
<1>3. QED BY <1>2, SizeAssumption

LEMMA UnheardDated == ASSUME NEW n \in Nat PROVE Dated([x \in Nodes |-> Unheard], n)
<1>1. Heard([x \in Nodes |-> Unheard]) = {}
  BY DEF Heard
<1>2. \A f \in Fields : Unheard.known[f] = 0
  BY DEF Unheard
<1>3. QED BY <1>1, <1>2, FS_EmptySet DEF Dated

\* A table with one more record in it, or a newer one.
LEMMA DatedUpdate ==
  ASSUME NEW t \in Table, NEW n \in Nat, NEW m \in Nat, n <= m, Dated(t, n),
         NEW x \in Nodes, NEW r \in Records,
         r.seen # 0, \A f \in Fields : r.known[f] <= m
  PROVE  Dated([t EXCEPT ![x] = r], m)
<1> DEFINE u == [t EXCEPT ![x] = r]
<1>1. u[x] = r /\ \A y \in Nodes : y # x => u[y] = t[y]
  BY DEF Table
<1>2. Heard(u) \subseteq Heard(t) \cup {x}
  BY <1>1 DEF Heard
<1>3. IsFiniteSet(Heard(u))
  BY <1>2, FS_AddElement, FS_Subset DEF Dated
<1>4. ASSUME NEW y \in Nodes
      PROVE  /\ \A f \in Fields : u[y].known[f] <= m
             /\ u[y] # Unheard => u[y].seen # 0
  <2>1. CASE y = x
    BY <1>1, <2>1
  <2>2. CASE y # x
    <3>1. t[y] \in Records
      BY DEF Table
    <3>2. \A f \in Fields : t[y].known[f] \in Nat
      BY <3>1, KnownNat
    <3>3. QED BY <1>1, <2>2, <3>2 DEF Dated
  <2>3. QED BY <2>1, <2>2
<1> HIDE DEF u
<1>5. Dated(u, m)
  BY <1>3, <1>4 DEF Dated
<1>6. QED BY <1>5 DEF u

\* A record folded with one that has a time has a time, and no field of it is
\* newer than both.
LEMMA FoldDated ==
  ASSUME NEW r \in Records, NEW s \in Records, NEW raw \in SUBSET Keys, NEW m \in Nat,
         s.seen # 0,
         \A f \in Fields : r.known[f] <= m /\ s.known[f] <= m
  PROVE  /\ Fold(r, s, raw).seen # 0
         /\ \A f \in Fields : Fold(r, s, raw).known[f] <= m
<1>1. s.seen <= Fold(r, s, raw).seen /\ Fold(r, s, raw) \in Records
  BY FoldCovers DEF Covers
<1>2. s.seen \in Nat /\ Fold(r, s, raw).seen \in Nat
  BY <1>1, SeenNat
<1>3. \A f \in Fields : Fold(r, s, raw).known[f] \in {r.known[f], s.known[f]}
  BY DEF Fold
<1>4. QED BY <1>1, <1>2, <1>3

LEMMA InitPast == Init => Past
<1> SUFFICES ASSUME Init PROVE Past
  OBVIOUS
<1>1. Dated([x \in Nodes |-> Unheard], 0)
  BY UnheardDated
<1>2. QED BY <1>1 DEF Init, Past, Idle

LEMMA StepPast == TypeOK /\ Past /\ [Next]_vars => Past'
<1> SUFFICES ASSUME TypeOK, Past, [Next]_vars PROVE Past'
  OBVIOUS
<1>0. born \in Nat /\ cache \in Table /\ working \in Table /\ durable \in Table
  BY SizeAssumption DEF TypeOK
<1>p. /\ Dated(cache, born) /\ Dated(working, born) /\ Dated(durable, born)
      /\ job.at # "idle" => job.view.seen # 0 /\ \A f \in Fields : job.view.known[f] <= born
  BY DEF Past
<1>1. ASSUME NEW x \in Nodes, NEW fields \in SUBSET Fields,
             NEW keys \in SUBSET Keys, NEW ts \in Times,
             RecordNode(x, fields, keys, ts)
      PROVE  Past'
  <2> DEFINE new == Sighting(fields, keys, ts)
             merged == Merge(cache[x], new)
  <2>1. /\ born' = born + 1 /\ cache' = [cache EXCEPT ![x] = merged]
        /\ job'.view = cache'[x] /\ UNCHANGED <<working, durable>>
    BY <1>1 DEF RecordNode
  <2>2. new \in Records /\ new.seen # 0 /\ \A f \in Fields : new.known[f] <= born + 1
    <3>1. new \in Records
      BY <1>1, SightingType DEF TypeOK, RecordNode
    <3>2. new.seen = ts /\ \A f \in Fields : new.known[f] \in {0, born + 1}
      BY DEF Sighting
    <3>3. ts # 0
      BY TimeAssumption
    <3>4. QED BY <1>0, <3>1, <3>2, <3>3
  <2> HIDE DEF new
  <2>3. cache[x] \in Records
    BY <1>0 DEF Table
  <2>4. \A f \in Fields : cache[x].known[f] <= born + 1
    BY <1>0, <1>p, <2>3, KnownNat DEF Dated
  <2>5. merged \in Records
    BY <2>2, <2>3, MergeType
  <2>6. merged.seen # 0 /\ \A f \in Fields : merged.known[f] <= born + 1
    <3>1. CASE cache[x] = Unheard
      BY <2>2, <3>1 DEF Merge
    <3>2. CASE cache[x] # Unheard
      <4>1. cache[x].raw \cup new.raw \in SUBSET Keys
        BY <2>2, <2>3, RawType
      <4>2. merged = Fold(cache[x], new, cache[x].raw \cup new.raw)
        BY <3>2 DEF Merge
      <4>3. QED BY <1>0, <2>2, <2>3, <2>4, <4>1, <4>2, FoldDated
    <3>3. QED BY <3>1, <3>2
  <2> HIDE DEF merged
  <2>7. Dated(cache', born')
    <3>1. born + 1 \in Nat /\ born <= born + 1
      BY <1>0
    <3>2. Dated([cache EXCEPT ![x] = merged], born + 1)
      BY <1>0, <1>p, <2>5, <2>6, <3>1, DatedUpdate
    <3>3. QED BY <2>1, <3>2
  <2>8. Dated(working', born') /\ Dated(durable', born')
    <3>1. \A x1 \in Nodes : working[x1] \in Records /\ durable[x1] \in Records
      BY <1>0 DEF Table
    <3>2. \A x1 \in Nodes, f \in Fields :
            working[x1].known[f] \in Nat /\ durable[x1].known[f] \in Nat
      BY <3>1, KnownNat
    <3>3. QED BY <1>0, <1>p, <2>1, <3>2 DEF Dated
  <2>9. cache'[x] = merged
    BY <1>0, <2>1 DEF Table
  <2>10. QED BY <2>1, <2>6, <2>7, <2>8, <2>9 DEF Past
<1>2. CASE UpsertNode
  <2>1. /\ job.at = "merged" /\ job'.view = job.view
        /\ working' = [working EXCEPT ![job.node] = Upsert(@, job.view)]
        /\ UNCHANGED <<cache, durable, born>>
    BY <1>2, JobType DEF UpsertNode
  <2>2. job.node \in Nodes /\ job.view \in Records
    BY <2>1, JobType
  <2> DEFINE row == working[job.node]
  <2>3. row \in Records
    BY <1>0, <2>2 DEF Table
  <2>4. job.view.seen # 0 /\ \A f \in Fields : job.view.known[f] <= born
    BY <1>p, <2>1
  <2>5. Upsert(row, job.view) \in Records
    BY <2>2, <2>3, UpsertCovers
  <2>6. /\ Upsert(row, job.view).seen # 0
        /\ \A f \in Fields : Upsert(row, job.view).known[f] <= born
    <3>1. CASE row = Unheard
      BY <2>4, <3>1 DEF Upsert
    <3>2. CASE row # Unheard
      <4>1. /\ Upsert(row, job.view) = Fold(row, job.view, KeptRaw(row, job.view))
            /\ KeptRaw(row, job.view) \in SUBSET Keys
        BY <2>2, <2>3, <3>2, UpsertFolds
      <4>2. \A f \in Fields : row.known[f] <= born
        BY <1>p, <2>2 DEF Dated
      <4>3. QED BY <1>0, <2>2, <2>3, <2>4, <4>1, <4>2, FoldDated
    <3>3. QED BY <3>1, <3>2
  <2>7. Dated(working', born)
    <3>1. working' = [working EXCEPT ![job.node] = Upsert(row, job.view)] /\ born <= born
      BY <1>0, <2>1
    <3> HIDE DEF row
    <3>2. QED BY <1>0, <1>p, <2>2, <2>5, <2>6, <3>1, DatedUpdate
  <2>8. QED BY <1>p, <2>1, <2>4, <2>7 DEF Past
<1>3. CASE CommitNode \/ Return \/ TrimCommits
  <2>1. /\ UNCHANGED <<cache, working, born>> /\ (durable' = working \/ durable' = durable)
        /\ job'.at # "idle" => job.at # "idle" /\ job'.view = job.view
    BY <1>3, JobType DEF CommitNode, Return, TrimCommits, Idle
  <2>2. QED BY <1>p, <2>1 DEF Past
<1>4. CASE WriteFails \/ TrimFails
  <2>1. /\ UNCHANGED <<cache, durable, born>> /\ (working' = working \/ working' = durable)
        /\ job'.at # "idle" => job.at # "idle" /\ job'.view = job.view
    BY <1>4 DEF WriteFails, TrimFails, Rollback, Idle
  <2>2. QED BY <1>p, <2>1 DEF Past
<1>5. CASE Restart
  <2>1. /\ UNCHANGED <<durable, born>> /\ working' = durable /\ job'.at = "idle"
    BY <1>5 DEF Restart, Idle
  <2>2. PICK loaded \in SUBSET Nodes :
          cache' = [x \in Nodes |-> IF x \in loaded THEN durable[x] ELSE Unheard]
    BY <1>5 DEF Restart, Warm
  <2>3. Heard(cache') \subseteq Heard(durable)
    BY <2>2 DEF Heard
  <2>4. \A f \in Fields : Unheard.known[f] <= born
    BY <1>0 DEF Unheard
  <2>5. Dated(cache', born)
    BY <1>p, <2>2, <2>3, <2>4, FS_Subset DEF Dated
  <2>6. QED BY <1>p, <2>1, <2>5 DEF Past
<1>6. CASE UNCHANGED vars
  BY <1>p, <1>6 DEF vars, Past
<1>7. QED
  BY <1>1, <1>2, <1>3, <1>4, <1>5, <1>6 DEF Next, Dispatcher

-----------------------------------------------------------------------------
(* The type of the requests.                                               *)

Listings  == [at : {"listing"}, saw : Table]
Showings  == [at : {"showing"}, saw : Table, todo : SUBSET (Nodes \X Attributes), shown : Table]
Summings  == [at : {"summing"}, value : Samples]
Summed    == [at : {"summed"}, value : Samples, points : Seq(Samples)]
RequestOK == request \in {None} \cup Listings \cup Showings \cup Summings \cup Summed

LEMMA ReadingsTypeParts == ReadingsTypeOK <=>
  /\ TypeOK /\ RequestOK
  /\ series \in Seq(Samples) /\ Len(series) <= SparkPoints
  /\ table \subseteq Samples /\ saved \subseteq Samples
  /\ sample \in {None} \cup [at : {"appended", "inserted"}, it : Samples]
  /\ taken \in 0..SampleCap
  /\ unsaved \subseteq Samples /\ lost \in BOOLEAN
BY DEF ReadingsTypeOK, RequestOK, Listings, Showings, Summings, Summed

\* A request that has come so far is one of those.
LEMMA RequestKinds ==
  ASSUME RequestOK
  PROVE  /\ request.at = "listing" <=> request \in Listings
         /\ request.at = "showing" <=> request \in Showings
         /\ request.at = "summing" <=> request \in Summings
         /\ request.at = "summed" <=> request \in Summed
         /\ request.at = "none" <=> request = None
BY DEF RequestOK, Listings, Showings, Summings, Summed, None

LEMMA ToDictType ==
  ASSUME NEW r \in Records
  PROVE  ToDict(r) \in Records /\ ToDict(r).known = r.known /\ ToDict(r).seen = r.seen
BY DEF ToDict, Records

LEMMA FilledType ==
  ASSUME NEW r \in Records, NEW s \in Records, NEW a
  PROVE  Filled(r, s, a) \in Records
BY DEF Filled, Records

\* What a step of an answer makes of the request.
LEMMA ShowRequest ==
  ASSUME RequestOK, cache \in Table, NEW x, NEW a, Show(x, a)
  PROVE  /\ request \in Showings /\ request' \in Showings
         /\ <<x, a>> \in request.todo /\ x \in Nodes /\ a \in Attributes
         /\ request'.saw = request.saw
         /\ request'.todo = request.todo \ {<<x, a>>}
         /\ request'.shown = [request.shown EXCEPT ![x] = Filled(request.shown[x], cache[x], a)]
<1>1. request \in Showings /\ <<x, a>> \in request.todo
  BY RequestKinds DEF Show
<1>2. x \in Nodes /\ a \in Attributes
  BY <1>1 DEF Showings
<1>3. /\ request'.saw = request.saw
      /\ request'.todo = request.todo \ {<<x, a>>}
      /\ request'.shown = [request.shown EXCEPT ![x] = Filled(request.shown[x], cache[x], a)]
      /\ request' = [at |-> "showing", saw |-> request.saw,
                     todo |-> request'.todo, shown |-> request'.shown]
  BY <1>1 DEF Show, Showings
<1>4. request.shown[x] \in Records /\ cache[x] \in Records
  BY <1>1, <1>2 DEF Showings, Table
<1>5. request'.shown \in Table
  BY <1>1, <1>2, <1>3, <1>4, FilledType DEF Showings, Table
<1>6. request' \in Showings
  BY <1>1, <1>3, <1>5 DEF Showings
<1>7. QED BY <1>1, <1>2, <1>3, <1>6

LEMMA ListRequest ==
  ASSUME cache \in Table, RequestOK, List
  PROVE  /\ request \in Listings /\ request' \in Showings
         /\ Heard(cache) = Heard(request.saw)
         /\ request'.saw = request.saw
         /\ \E s \in Chosen : /\ request'.todo = s \X Attributes
                              /\ request'.shown = [x \in Nodes |-> Unheard]
<1>1. request \in Listings /\ Heard(cache) = Heard(request.saw)
  BY RequestKinds DEF List
<1>2. PICK s \in Chosen :
        request' = [at |-> "showing", saw |-> request.saw, todo |-> s \X Attributes,
                    shown |-> [x \in Nodes |-> Unheard]]
  BY DEF List
<1>3. s \in SUBSET Nodes /\ request.saw \in Table /\ [x \in Nodes |-> Unheard] \in Table
  BY <1>1, UnheardType DEF Chosen, Heard, Listings, Table
<1>4. s \X Attributes \in SUBSET (Nodes \X Attributes)
  BY <1>3
<1>5. request' \in Showings
  BY <1>2, <1>3, <1>4 DEF Showings
<1>6. QED BY <1>1, <1>2, <1>5

LEMMA StepRequest ==
  ASSUME TypeOK, SamplesOK, RequestOK, [ReadingsNext]_allVars
  PROVE  RequestOK'
<1>0. cache \in Table
  BY DEF TypeOK
<1>1. CASE AskNodes
  <2>1. \A x \in Nodes : ToDict(cache[x]) \in Records
    BY <1>0, ToDictType DEF Table
  <2>2. [x \in Nodes |-> ToDict(cache[x])] \in Table
    BY <2>1 DEF Table
  <2>3. request' \in Listings
    BY <1>1, <2>2 DEF AskNodes, Listings
  <2>4. QED BY <2>3 DEF RequestOK
<1>2. CASE List
  BY <1>0, <1>2, ListRequest DEF RequestOK
<1>3. CASE ListFails \/ Respond
  BY <1>3 DEF ListFails, Respond, RequestOK
<1>4. ASSUME NEW x, NEW a, Show(x, a) PROVE RequestOK'
  BY <1>0, <1>4, ShowRequest DEF RequestOK
<1>5. CASE AskSeries
  <2>1. series[Len(series)] \in Samples
    <3>1. Len(series) \in Nat /\ DOMAIN series = 1..Len(series) /\ Len(series) # 0
      BY <1>5, LenProperties, EmptySeq DEF AskSeries, SamplesOK
    <3>2. QED BY <3>1, ElementOfSeq DEF SamplesOK
  <2>2. request' \in Summings
    BY <1>5, <2>1 DEF AskSeries, Summings
  <2>3. QED BY <2>2 DEF RequestOK
<1>6. CASE Sum
  <2>1. request \in Summings
    BY <1>6, RequestKinds DEF Sum
  <2>2. request' = None \/ request' \in Summed
    BY <1>6, <2>1 DEF Sum, Summings, Summed, SamplesOK
  <2>3. QED BY <2>2 DEF RequestOK
<1>7. CASE request' = request \/ request' = None
  BY <1>7 DEF RequestOK
<1>8. CASE Write \/ UNCHANGED allVars
  <2>1. request' = request \/ request' = None
    BY <1>8 DEF Write, RecordSample, TrimSamples, InsertSample, CommitSample, SampleFails,
         Sight, WriteNode, CommitNodeToo, NodeFails, TrimCommitsBoth, TrimFailsBoth,
         RestartBoth, allVars
  <2>2. QED BY <1>7, <2>1
<1>9. QED
  BY <1>1, <1>2, <1>3, <1>4, <1>5, <1>6, <1>8 DEF ReadingsNext, Read

\* The store, its series and its requests keep their types for any sightings,
\* samples and limits.
THEOREM ReadingsTypeCorrect == ReadingsSpec => []ReadingsTypeOK
<1>1. ReadingsInit => TypeOK /\ SamplesInv /\ RequestOK
  BY InitType, InitSamples DEF ReadingsInit, RequestOK
<1>2. TypeOK /\ SamplesInv /\ RequestOK /\ [ReadingsNext]_allVars
        => (TypeOK /\ SamplesInv /\ RequestOK)'
  BY StepNodes, StepType, StepSamples, StepRequest DEF SamplesInv
<1>3. TypeOK /\ SamplesInv /\ RequestOK => ReadingsTypeOK
  BY ReadingsTypeParts DEF SamplesInv, SamplesOK
<1>4. QED BY <1>1, <1>2, <1>3, PTL DEF ReadingsSpec

-----------------------------------------------------------------------------
(* Answers about nodes.                                                    *)

\* Record s is no older than record r.
Newer(r, s) ==
  /\ \A f \in Fields : r.known[f] # 0 => s.known[f] >= r.known[f]
  /\ r.seen <= s.seen

LEMMA NewerItself == ASSUME NEW r \in Records PROVE Newer(r, r)
BY KnownNat, SeenNat DEF Newer

LEMMA NewerTransitive ==
  ASSUME NEW r \in Records, NEW s \in Records, NEW t \in Records, Newer(r, s), Newer(s, t)
  PROVE  Newer(r, t)
<1>1. r.seen <= t.seen
  BY SeenNat DEF Newer
<1>2. ASSUME NEW f \in Fields, r.known[f] # 0
      PROVE  t.known[f] >= r.known[f]
  <2>1. r.known[f] \in Nat /\ s.known[f] \in Nat /\ t.known[f] \in Nat
    BY KnownNat
  <2>2. QED BY <1>2, <2>1 DEF Newer
<1>3. QED BY <1>1, <1>2 DEF Newer

\* How far the answer has got: nodes `s` are in it, and what has been read of
\* them is no older than the request.
Reading(s) ==
  /\ request.todo \subseteq s \X Attributes
  /\ Cardinality(Heard(request.saw)) <= NodeLimit => s = Heard(request.saw)
  /\ \A x \in Nodes \ s : request.shown[x] = Unheard
  /\ \A x \in s :
       /\ cache[x].seen # 0
       /\ \A f \in Fields : \/ <<x, f>> \in request.todo
                            \/ request.saw[x].known[f] = 0
                            \/ request.shown[x].known[f] >= request.saw[x].known[f]
       /\ \/ <<x, "seen">> \in request.todo
          \/ /\ request.shown[x].seen # 0
             /\ request.saw[x].seen <= request.shown[x].seen
ListInv ==
  /\ request.at \in {"listing", "showing"} =>
       \A x \in Nodes : Newer(request.saw[x], cache[x])
  /\ request.at = "showing" => \E s \in SUBSET Nodes : Reading(s)

\* A sighting makes the cached record of its node newer, and keeps the others.
LEMMA RecordedNewer ==
  ASSUME TypeOK, TypeOK', Past, NEW x \in Nodes, NEW fields \in SUBSET Fields,
         NEW keys \in SUBSET Keys, NEW ts \in Times, RecordNode(x, fields, keys, ts)
  PROVE  \A y \in Nodes : Newer(cache[y], cache'[y])
<1> DEFINE new == Sighting(fields, keys, ts)
<1>1. /\ \A y \in Nodes : cache[y] \in Records /\ cache'[y] \in Records
      /\ cache'[x] = Merge(cache[x], new) /\ \A y \in Nodes : y # x => cache'[y] = cache[y]
  BY DEF RecordNode, TypeOK, Table
<1>2. /\ new \in Records /\ born \in Nat
      /\ \A f \in Fields : new.known[f] \in {0, born + 1}
  <2>1. new \in Records
    BY SightingType DEF TypeOK, RecordNode
  <2>2. QED BY <2>1, SizeAssumption DEF TypeOK, Sighting
<1> HIDE DEF new
<1>3. CASE cache[x] = Unheard
  <2>1. /\ \A f \in Fields : cache[x].known[f] = 0
        /\ cache[x].seen = 0 /\ cache'[x] = new
    BY <1>1, <1>3 DEF Unheard, Merge
  <2>2. Newer(cache[x], cache'[x])
    BY <1>2, <2>1, SeenNat DEF Newer
  <2>3. QED BY <1>1, <2>2, NewerItself
<1>4. CASE cache[x] # Unheard
  <2> DEFINE raw == cache[x].raw \cup new.raw
  <2>1. raw \in SUBSET Keys
    BY <1>1, <1>2, RawType
  <2>2. cache'[x] = Fold(cache[x], new, raw)
    BY <1>1, <1>4 DEF Merge
  <2> HIDE DEF raw
  <2>3. cache[x].seen <= cache'[x].seen
    BY <1>1, <1>2, <2>1, <2>2, FoldCovers DEF Covers
  <2>4. ASSUME NEW f \in Fields
        PROVE  cache'[x].known[f] >= cache[x].known[f]
    <3>1. cache[x].known[f] \in Nat /\ cache[x].known[f] <= born
      BY <1>1, KnownNat DEF Past, Dated
    <3>2. cache'[x].known[f] \in {cache[x].known[f], new.known[f]}
          /\ (new.known[f] = 0 => cache'[x].known[f] = cache[x].known[f])
      BY <2>2 DEF Fold
    <3>3. QED BY <1>2, <3>1, <3>2
  <2>5. Newer(cache[x], cache'[x])
    BY <2>3, <2>4 DEF Newer
  <2>6. QED BY <1>1, <2>5, NewerItself
<1>5. QED BY <1>3, <1>4

\* If the request goes on and nothing in the cache gets older, the answer is as
\* good as before.
LEMMA ListGoesOn ==
  ASSUME TypeOK, TypeOK', RequestOK, ListInv, request' = request,
         \A y \in Nodes : Newer(cache[y], cache'[y])
  PROVE  ListInv'
<1>1. \A y \in Nodes : cache[y] \in Records /\ cache'[y] \in Records
  BY DEF TypeOK, Table
<1>2. ASSUME request.at \in {"listing", "showing"}
      PROVE  \A x \in Nodes : Newer(request.saw[x], cache'[x])
  <2>1. \A x \in Nodes : request.saw[x] \in Records
    BY <1>2, RequestKinds DEF Listings, Showings, Table
  <2>2. QED BY <1>1, <1>2, <2>1, NewerTransitive DEF ListInv
<1>3. ASSUME request.at = "showing", NEW s \in SUBSET Nodes, Reading(s)
      PROVE  Reading(s)'
  <2>1. \A x \in Nodes : cache[x].seen # 0 => cache'[x].seen # 0
    BY <1>1, SeenNat DEF Newer
  <2>2. QED BY <1>3, <2>1 DEF Reading
<1>4. QED BY <1>2, <1>3 DEF ListInv

LEMMA ListStep ==
  ASSUME TypeOK, Past, RequestOK, ListInv, List
  PROVE  ListInv'
<1>0. cache \in Table /\ UNCHANGED cache
  BY DEF TypeOK, List, vars
<1>1. /\ request \in Listings /\ request' \in Showings
      /\ Heard(cache) = Heard(request.saw) /\ request'.saw = request.saw
  BY <1>0, ListRequest
<1>2. PICK s \in Chosen : /\ request'.todo = s \X Attributes
                          /\ request'.shown = [x \in Nodes |-> Unheard]
  BY <1>0, ListRequest
<1>3. s \subseteq Heard(cache) /\ s \in SUBSET Nodes
  BY DEF Chosen, Heard
<1>4. Cardinality(Heard(request.saw)) <= NodeLimit => s = Heard(request.saw)
  <2>1. IsFiniteSet(Heard(cache)) /\ Cardinality(Heard(cache)) \in Nat
    BY FS_CardinalityType DEF Past, Dated
  <2>2. /\ Cardinality(s) \in Nat /\ Cardinality(s) <= Cardinality(Heard(cache))
        /\ Cardinality(s) = Cardinality(Heard(cache)) => s = Heard(cache)
    BY <1>3, <2>1, FS_Subset, FS_CardinalityType
  <2>3. s = Heard(cache) \/ Cardinality(s) = NodeLimit
    BY DEF Chosen
  <2>4. QED BY <1>1, <2>1, <2>2, <2>3, LimitsType
<1>5. \A x \in s : cache[x].seen # 0
  BY <1>3 DEF Past, Dated, Heard
<1>6. \A x \in s : <<x, "seen">> \in request'.todo /\ \A f \in Fields : <<x, f>> \in request'.todo
  BY <1>2 DEF Attributes
<1>7. Reading(s)'
  <2>1. \A x \in Nodes \ s : request'.shown[x] = Unheard
    BY <1>2
  <2>2. QED BY <1>0, <1>1, <1>2, <1>4, <1>5, <1>6, <2>1 DEF Reading
<1>8. \A x \in Nodes : Newer(request'.saw[x], cache'[x])
  <2>1. request.at = "listing"
    BY <1>1 DEF Listings
  <2>2. QED BY <1>0, <1>1, <2>1 DEF ListInv
<1>9. QED BY <1>3, <1>7, <1>8 DEF ListInv

LEMMA ShowStep ==
  ASSUME TypeOK, RequestOK, ListInv, NEW x, NEW a, Show(x, a)
  PROVE  ListInv'
<1>0. cache \in Table /\ UNCHANGED cache
  BY DEF TypeOK, Show, vars
<1>1. /\ request \in Showings /\ request' \in Showings
      /\ <<x, a>> \in request.todo /\ x \in Nodes /\ a \in Attributes
      /\ request'.saw = request.saw
      /\ request'.todo = request.todo \ {<<x, a>>}
      /\ request'.shown = [request.shown EXCEPT ![x] = Filled(request.shown[x], cache[x], a)]
  BY <1>0, ShowRequest
<1>2. request.at = "showing" /\ request.shown \in Table /\ request.saw \in Table
  BY <1>1 DEF Showings
<1>3. /\ request'.shown[x] = Filled(request.shown[x], cache[x], a)
      /\ \A y \in Nodes : y # x => request'.shown[y] = request.shown[y]
  BY <1>1, <1>2 DEF Table
<1>4. PICK s \in SUBSET Nodes : Reading(s)
  BY <1>2 DEF ListInv
<1>5. x \in s
  BY <1>1, <1>4 DEF Reading
<1>6. Newer(request.saw[x], cache[x])
  BY <1>1, <1>2 DEF ListInv
<1>7. Reading(s)'
  <2>1. ASSUME NEW y \in s, NEW f \in Fields
        PROVE  \/ <<y, f>> \in request'.todo
               \/ request.saw[y].known[f] = 0
               \/ request'.shown[y].known[f] >= request.saw[y].known[f]
    <3>1. CASE y = x /\ f = a
      <4>1. request'.shown[x].known[f] = cache[x].known[f]
        BY <1>3, <3>1 DEF Filled
      <4>2. QED BY <1>6, <3>1, <4>1 DEF Newer
    <3>2. CASE ~(y = x /\ f = a)
      <4>1. request'.shown[y].known[f] = request.shown[y].known[f]
        <5>1. CASE y = x
          <6>1. Filled(request.shown[x], cache[x], a).known[f] = request.shown[x].known[f]
            BY <3>2, <5>1 DEF Filled
          <6>2. QED BY <1>3, <5>1, <6>1
        <5>2. CASE y # x
          BY <1>3, <5>2
        <5>3. QED BY <5>1, <5>2
      <4>2. <<y, f>> \in request.todo => <<y, f>> \in request'.todo
        BY <1>1, <3>2
      <4>3. QED BY <1>4, <4>1, <4>2 DEF Reading
    <3>3. QED BY <3>1, <3>2
  <2>2. ASSUME NEW y \in s
        PROVE  \/ <<y, "seen">> \in request'.todo
               \/ /\ request'.shown[y].seen # 0
                  /\ request.saw[y].seen <= request'.shown[y].seen
    <3>1. CASE y = x /\ a = "seen"
      <4>1. request'.shown[x].seen = cache[x].seen
        BY <1>3, <3>1 DEF Filled
      <4>2. QED BY <1>4, <1>6, <3>1, <4>1 DEF Newer, Reading
    <3>2. CASE ~(y = x /\ a = "seen")
      <4>1. request'.shown[y].seen = request.shown[y].seen
        BY <1>3, <3>2 DEF Filled
      <4>2. <<y, "seen">> \in request.todo => <<y, "seen">> \in request'.todo
        BY <1>1, <3>2
      <4>3. QED BY <1>4, <4>1, <4>2 DEF Reading
    <3>3. QED BY <3>1, <3>2
  <2>3. \A y \in Nodes \ s : request'.shown[y] = Unheard
    BY <1>3, <1>4, <1>5 DEF Reading
  <2>4. QED BY <1>0, <1>1, <1>4, <2>1, <2>2, <2>3 DEF Reading
<1>8. QED BY <1>0, <1>1, <1>2, <1>7 DEF ListInv

LEMMA StepList ==
  ASSUME TypeOK, TypeOK', Past, RequestOK, ListInv, [ReadingsNext]_allVars
  PROVE  ListInv'
<1>0. \A y \in Nodes : cache[y] \in Records /\ Newer(cache[y], cache[y])
  BY NewerItself DEF TypeOK, Table
<1>1. CASE AskNodes
  <2>1. /\ UNCHANGED cache
        /\ request' = [at |-> "listing", saw |-> [x \in Nodes |-> ToDict(cache[x])]]
    BY <1>1 DEF AskNodes, vars
  <2>2. \A x \in Nodes : Newer(request'.saw[x], cache'[x])
    BY <1>0, <2>1, ToDictType DEF Newer
  <2>3. QED BY <2>1, <2>2 DEF ListInv
<1>2. CASE List
  BY <1>2, ListStep
<1>3. ASSUME NEW x, NEW a, Show(x, a) PROVE ListInv'
  BY <1>3, ShowStep
<1>4. CASE ListFails \/ Respond \/ AskSeries \/ Sum \/ RestartBoth
  <2>1. request'.at \in {"none", "summing", "summed"}
    BY <1>4 DEF ListFails, Respond, AskSeries, Sum, RestartBoth, None
  <2>2. QED BY <2>1 DEF ListInv
<1>5. ASSUME NEW x \in Nodes, NEW s \in Sightings, Sight(x, s) PROVE ListInv'
  <2>1. s[1] \in SUBSET Fields /\ s[2] \in SUBSET Keys /\ s[3] \in Times
    BY ReadingsAssumption
  <2>2. RecordNode(x, s[1], s[2], s[3]) /\ request' = request
    BY <1>5 DEF Sight
  <2>3. QED BY <2>1, <2>2, RecordedNewer, ListGoesOn
<1>6. CASE cache' = cache /\ request' = request
  BY <1>0, <1>6, ListGoesOn
<1>7. ASSUME NEW ts \in Times, RecordSample(ts) \/ TrimSamples(ts) PROVE ListInv'
  BY <1>6, <1>7 DEF RecordSample, TrimSamples, vars
<1>8. CASE \/ InsertSample \/ CommitSample \/ SampleFails \/ WriteNode \/ CommitNodeToo
           \/ NodeFails \/ TrimCommitsBoth \/ TrimFailsBoth \/ UNCHANGED allVars
  <2>1. cache' = cache /\ request' = request
    BY <1>8 DEF InsertSample, CommitSample, SampleFails, WriteNode, UpsertNode, Return,
         CommitNodeToo, CommitNode, NodeFails, WriteFails, TrimCommitsBoth, TrimFailsBoth,
         NodesCommitted, vars, allVars
  <2>2. QED BY <1>6, <2>1
<1>9. QED
  BY <1>1, <1>2, <1>3, <1>4, <1>5, <1>7, <1>8 DEF ReadingsNext, Read, Write

-----------------------------------------------------------------------------
(* Answers about a series.                                                 *)

\* Value v is in series s, or has left it at its head: what follows is younger.
Passed(v, s) ==
  \E i \in 0..Len(s) : /\ i # 0 => s[i] = v
                       /\ \A j \in (i + 1)..Len(s) : s[j].n > v.n

\* No sample has been numbered that has not been taken.
Taken ==
  /\ \A s \in table \cup saved : s.n <= taken
  /\ \A i \in DOMAIN series : series[i].n <= taken
  /\ sample # None => sample.it.n <= taken
SumInv ==
  /\ request.at = "summing" => request.value.n <= taken /\ Passed(request.value, series)
  /\ request.at = "summed" => Passed(request.value, request.points)

\* The series loses its head only.
LEMMA LatestPassed ==
  ASSUME NEW v \in Samples, NEW s \in Seq(Samples), NEW n \in Nat, Passed(v, s)
  PROVE  Passed(v, Latest(s, n))
<1> DEFINE m == IF Len(s) < n THEN 1 ELSE Len(s) - n + 1
           last == Latest(s, n)
<1>1. Len(s) \in Nat /\ DOMAIN s = 1..Len(s)
  BY LenProperties
<1>2. m \in Int /\ m >= 1 /\ m <= Len(s) + 1 /\ \A i \in m..Len(s) : s[i] \in Samples
  BY <1>1, ElementOfSeq
<1>3. last = SubSeq(s, m, Len(s))
  BY DEF Latest
<1> HIDE DEF m, last
<1>4. /\ Len(last) = Len(s) - m + 1
      /\ \A i \in 1..(Len(s) - m + 1) : last[i] = s[m + i - 1]
  <2>1. /\ Len(last) = IF m <= Len(s) THEN Len(s) - m + 1 ELSE 0
        /\ \A i \in 1..(Len(s) - m + 1) : last[i] = s[m + i - 1]
    BY <1>1, <1>2, <1>3, SubSeqProperties
  <2>2. QED BY <1>1, <1>2, <2>1
<1>5. PICK i \in 0..Len(s) : /\ i # 0 => s[i] = v
                             /\ \A j \in (i + 1)..Len(s) : s[j].n > v.n
  BY DEF Passed
<1> DEFINE k == IF i >= m THEN i - m + 1 ELSE 0
<1>6. k \in 0..Len(last)
  BY <1>1, <1>2, <1>4, <1>5
<1>7. k # 0 => last[k] = v
  <2>1. k # 0 => k \in 1..(Len(s) - m + 1) /\ m + k - 1 = i /\ i # 0
    BY <1>1, <1>2, <1>5
  <2>2. QED BY <1>4, <1>5, <2>1
<1>8. ASSUME NEW j \in (k + 1)..Len(last) PROVE last[j].n > v.n
  <2>1. j \in 1..(Len(s) - m + 1) /\ m + j - 1 \in (i + 1)..Len(s)
    BY <1>1, <1>2, <1>4, <1>5
  <2>2. QED BY <1>4, <1>5, <2>1
<1> HIDE DEF k
<1>9. Passed(v, last)
  BY <1>6, <1>7, <1>8 DEF Passed
<1>10. QED BY <1>9 DEF last

LEMMA AppendPassed ==
  ASSUME NEW v \in Samples, NEW s \in Seq(Samples), NEW new \in Samples,
         new.n > v.n, Passed(v, s)
  PROVE  Passed(v, Append(s, new))
<1>1. Len(s) \in Nat
  BY LenProperties
<1>2. /\ Len(Append(s, new)) = Len(s) + 1
      /\ \A i \in 1..Len(s) : Append(s, new)[i] = s[i]
      /\ Append(s, new)[Len(s) + 1] = new
  BY AppendProperties
<1>3. PICK i \in 0..Len(s) : /\ i # 0 => s[i] = v
                             /\ \A j \in (i + 1)..Len(s) : s[j].n > v.n
  BY DEF Passed
<1>4. i \in 0..Len(Append(s, new)) /\ (i # 0 => Append(s, new)[i] = v)
  BY <1>1, <1>2, <1>3
<1>5. ASSUME NEW j \in (i + 1)..Len(Append(s, new)) PROVE Append(s, new)[j].n > v.n
  <2>1. j \in (i + 1)..Len(s) \/ j = Len(s) + 1
    BY <1>1, <1>2
  <2>2. QED BY <1>1, <1>2, <1>3, <2>1
<1>6. QED BY <1>4, <1>5 DEF Passed

\* What a new sample leaves of the series.
LEMMA RecordedSeries ==
  ASSUME SamplesOK, Taken, NEW ts \in Times, RecordSample(ts)
  PROVE  LET new == [n |-> taken + 1, ts |-> ts]
         IN /\ new \in Samples
            /\ Append(series, new) \in Seq(Samples)
            /\ series' = Latest(Append(series, new), SparkPoints)
            /\ \A i \in DOMAIN series' : series'[i].n <= taken + 1
<1> DEFINE new == [n |-> taken + 1, ts |-> ts]
<1>1. new \in Samples /\ new.n = taken + 1
  BY LimitsType DEF RecordSample, SamplesOK, Samples
<1>2. series' = Latest(Append(series, new), SparkPoints)
  BY DEF RecordSample
<1> HIDE DEF new
<1>3. Len(series) \in Nat /\ DOMAIN series = 1..Len(series) /\ taken \in Nat
  BY LenProperties, LimitsType DEF SamplesOK
<1>4. /\ Append(series, new) \in Seq(Samples)
      /\ Len(Append(series, new)) = Len(series) + 1
      /\ \A i \in 1..Len(series) : Append(series, new)[i] = series[i]
      /\ Append(series, new)[Len(series) + 1] = new
  BY <1>1, AppendProperties DEF SamplesOK
<1>5. \A i \in DOMAIN Append(series, new) : Append(series, new)[i].n <= taken + 1
  <2>1. DOMAIN Append(series, new) = 1..(Len(series) + 1)
    BY <1>4, LenProperties
  <2>2. \A i \in 1..Len(series) : series[i].n <= taken /\ series[i].n \in Nat
    <3>1. \A i \in 1..Len(series) : series[i] \in Samples
      BY <1>3, ElementOfSeq DEF SamplesOK
    <3>2. QED BY <1>3, <3>1, LimitsType DEF Taken, Samples
  <2>3. QED BY <1>1, <1>3, <1>4, <2>1, <2>2
<1>6. \A i \in DOMAIN series' : series'[i].n <= taken + 1
  BY <1>2, <1>4, <1>5, ShownProperties
<1>7. QED BY <1>1, <1>2, <1>4, <1>6 DEF new

LEMMA StepTaken ==
  ASSUME SamplesOK, Taken, [ReadingsNext]_allVars
  PROVE  Taken'
<1>0. taken \in Nat /\ \A s \in Samples : s.n \in Nat
  BY LimitsType DEF SamplesOK, Samples
<1>1. ASSUME NEW ts \in Times, RecordSample(ts) PROVE Taken'
  <2>1. \A i \in DOMAIN series' : series'[i].n <= taken + 1
    BY <1>1, RecordedSeries
  <2>2. /\ taken' = taken + 1 /\ UNCHANGED <<table, saved>>
        /\ sample'.it.n = taken + 1
    BY <1>1 DEF RecordSample
  <2>3. \A s \in table \cup saved : s.n <= taken + 1
    BY <1>0 DEF Taken, SamplesOK
  <2>4. QED BY <1>0, <2>1, <2>2, <2>3 DEF Taken
<1>2. CASE InsertSample
  <2>1. sample # None /\ sample' = [sample EXCEPT !.at = "inserted"]
    BY <1>2, NoSample DEF InsertSample
  <2>2. sample'.it = sample.it
    BY <2>1, SampleType
  <2>3. table' = table \cup {sample.it} /\ UNCHANGED <<series, saved, taken>>
    BY <1>2 DEF InsertSample
  <2>4. QED BY <2>1, <2>2, <2>3 DEF Taken
<1>3. CASE RestartBoth
  <2>1. table' = saved /\ sample' = None /\ UNCHANGED <<saved, taken>>
    BY <1>3 DEF RestartBoth
  <2>2. PICK rows \in SUBSET saved : \E q \in InOrder(rows) : series' = Latest(q, SparkPoints)
    BY <1>3 DEF RestartBoth
  <2>3. \A i \in DOMAIN series' : series'[i] \in saved
    BY <2>2, WarmSeries
  <2>4. QED BY <2>1, <2>3 DEF Taken
<1>4. CASE /\ series' = series /\ taken' = taken /\ table' \subseteq table \cup saved
           /\ saved' \subseteq table \cup saved /\ (sample' = None \/ sample' = sample)
  BY <1>4 DEF Taken
<1>5. ASSUME NEW ts \in Times, TrimSamples(ts) PROVE Taken'
  BY <1>4, <1>5 DEF TrimSamples
<1>6. CASE CommitSample \/ SampleFails \/ CommitNodeToo \/ NodeFails
           \/ TrimCommitsBoth \/ TrimFailsBoth
  <2>1. /\ series' = series /\ taken' = taken /\ table' \subseteq table \cup saved
        /\ saved' \subseteq table \cup saved /\ (sample' = None \/ sample' = sample)
    BY <1>6 DEF CommitSample, SampleFails, CommitNodeToo, NodeFails, TrimCommitsBoth,
         TrimFailsBoth, CommitBoth, RollbackToo
  <2>2. QED BY <1>4, <2>1
<1>7. ASSUME \/ WriteNode \/ Read \/ UNCHANGED allVars
             \/ \E x \in Nodes, s \in Sightings : Sight(x, s)
      PROVE  Taken'
  <2>1. UNCHANGED telemetry
    BY <1>7 DEF WriteNode, Read, AskNodes, List, ListFails, Show, AskSeries, Sum,
                 Respond, Sight, allVars
  <2>2. QED BY <1>4, <2>1 DEF telemetry
<1>8. QED
  BY <1>1, <1>2, <1>3, <1>5, <1>6, <1>7 DEF ReadingsNext, Write

LEMMA StepSum ==
  ASSUME SamplesOK, Taken, RequestOK, SumInv, [ReadingsNext]_allVars
  PROVE  SumInv'
<1>1. ASSUME NEW ts \in Times, RecordSample(ts) PROVE SumInv'
  <2>1. request' = request /\ taken' = taken + 1
    BY <1>1 DEF RecordSample
  <2>2. ASSUME request.at = "summing"
        PROVE  request.value.n <= taken + 1 /\ Passed(request.value, series')
    <3> DEFINE new == [n |-> taken + 1, ts |-> ts]
    <3>1. request.value \in Samples /\ request.value.n \in Nat /\ taken \in Nat
      BY <2>2, RequestKinds, LimitsType DEF Summings, SamplesOK, Samples
    <3>2. request.value.n <= taken /\ Passed(request.value, series)
      BY <2>2 DEF SumInv
    <3>3. /\ new \in Samples /\ Append(series, new) \in Seq(Samples)
          /\ series' = Latest(Append(series, new), SparkPoints)
      BY <1>1, RecordedSeries
    <3>4. new.n > request.value.n
      BY <3>1, <3>2
    <3> HIDE DEF new
    <3>5. Passed(request.value, Append(series, new))
      BY <3>1, <3>2, <3>3, <3>4, AppendPassed DEF SamplesOK
    <3>6. Passed(request.value, Latest(Append(series, new), SparkPoints))
      BY <3>1, <3>3, <3>5, LatestPassed, LimitsType
    <3>7. request.value.n <= taken + 1
      BY <3>1, <3>2
    <3>8. QED BY <3>3, <3>6, <3>7
  <2>3. QED BY <2>1, <2>2 DEF SumInv
<1>2. CASE AskSeries
  <2>1. /\ request' = [at |-> "summing", value |-> series[Len(series)]]
        /\ UNCHANGED telemetry
    BY <1>2 DEF AskSeries
  <2>2. Len(series) \in Nat \ {0} /\ DOMAIN series = 1..Len(series)
    BY <1>2, LenProperties, EmptySeq DEF AskSeries, SamplesOK
  <2>3. series[Len(series)].n <= taken
    BY <2>2 DEF Taken
  <2>4. Passed(series[Len(series)], series)
    BY <2>2 DEF Passed
  <2>5. QED BY <2>1, <2>3, <2>4 DEF SumInv, telemetry
<1>3. CASE Sum
  <2>1. /\ request.at = "summing"
        /\ \/ request' = None
           \/ request' = [at |-> "summed", value |-> request.value, points |-> series]
    BY <1>3 DEF Sum
  <2>2. QED BY <2>1 DEF SumInv, None
<1>4. ASSUME AskNodes \/ List \/ ListFails \/ Respond \/ RestartBoth PROVE SumInv'
  <2>1. request'.at \in {"none", "listing", "showing"}
    BY <1>4 DEF AskNodes, List, ListFails, Respond, RestartBoth, None
  <2>2. QED BY <2>1 DEF SumInv
<1>5. ASSUME NEW x, NEW a, Show(x, a) PROVE SumInv'
  <2>1. request'.at = "showing"
    BY <1>5, RequestKinds DEF Show, Showings
  <2>2. QED BY <2>1 DEF SumInv
<1>6. CASE request' = request /\ series' = series /\ taken' = taken
  BY <1>6 DEF SumInv
<1>7. ASSUME \/ \E ts \in Times : TrimSamples(ts)
             \/ \E x \in Nodes, s \in Sightings : Sight(x, s)
             \/ InsertSample \/ CommitSample \/ SampleFails \/ WriteNode \/ CommitNodeToo
             \/ NodeFails \/ TrimCommitsBoth \/ TrimFailsBoth \/ UNCHANGED allVars
      PROVE  SumInv'
  <2>1. request' = request /\ series' = series /\ taken' = taken
    BY <1>7 DEF TrimSamples, Sight, InsertSample, CommitSample, SampleFails, WriteNode,
         CommitNodeToo, NodeFails, TrimCommitsBoth, TrimFailsBoth, CommitBoth, telemetry,
         allVars
  <2>2. QED BY <1>6, <2>1
<1>8. QED
  BY <1>1, <1>2, <1>3, <1>4, <1>5, <1>7 DEF ReadingsNext, Read, Write

-----------------------------------------------------------------------------
AnswersInv == TypeOK /\ SamplesInv /\ Past /\ RequestOK /\ Taken /\ ListInv /\ SumInv

LEMMA InitAnswers == ReadingsInit => AnswersInv
<1> SUFFICES ASSUME ReadingsInit PROVE AnswersInv
  OBVIOUS
<1>1. TypeOK /\ SamplesInv /\ Past
  BY InitType, InitSamples, InitPast DEF ReadingsInit
<1>2. request = None /\ request.at = "none" /\ DOMAIN series = {}
      /\ table = {} /\ saved = {} /\ sample = None
  BY EmptySeq DEF ReadingsInit, None
<1>3. RequestOK /\ Taken /\ ListInv /\ SumInv
  BY <1>2 DEF RequestOK, Taken, ListInv, SumInv
<1>4. QED BY <1>1, <1>3 DEF AnswersInv

LEMMA StepAnswers == AnswersInv /\ [ReadingsNext]_allVars => AnswersInv'
<1> SUFFICES ASSUME AnswersInv, [ReadingsNext]_allVars PROVE AnswersInv'
  OBVIOUS
<1>1. TypeOK /\ SamplesInv /\ SamplesOK /\ Past /\ RequestOK /\ Taken /\ ListInv /\ SumInv
  BY DEF AnswersInv, SamplesInv
<1>2. TypeOK' /\ Past'
  BY <1>1, StepNodes, StepType, StepPast
<1>3. SamplesInv' /\ RequestOK' /\ Taken' /\ SumInv'
  BY <1>1, StepSamples, StepRequest, StepTaken, StepSum
<1>4. ListInv'
  BY <1>1, <1>2, StepList
<1>5. QED BY <1>2, <1>3, <1>4 DEF AnswersInv

\* An answer that is complete is none older than its request.
LEMMA AnswersFollow == AnswersInv => AnswersCurrent
<1> SUFFICES ASSUME AnswersInv PROVE AnswersCurrent
  OBVIOUS
<1>1. ASSUME Answered
      PROVE  /\ Cardinality(Heard(request.saw)) <= NodeLimit =>
                  Heard(request.saw) = Heard(request.shown)
             /\ \A x \in Heard(request.shown) :
                  /\ \A f \in Fields :
                       request.saw[x].known[f] # 0
                         => request.shown[x].known[f] >= request.saw[x].known[f]
                  /\ request.saw[x].seen <= request.shown[x].seen
  <2>1. request.at = "showing" /\ request.todo = {}
    BY <1>1 DEF Answered
  <2>2. PICK s \in SUBSET Nodes : Reading(s)
    BY <2>1 DEF AnswersInv, ListInv
  <2>3. \A x \in s : /\ \A f \in Fields : \/ request.saw[x].known[f] = 0
                                          \/ request.shown[x].known[f] >= request.saw[x].known[f]
                     /\ request.shown[x].seen # 0
                     /\ request.saw[x].seen <= request.shown[x].seen
    BY <2>1, <2>2 DEF Reading
  <2>4. \A x \in s : request.shown[x] # Unheard
    BY <2>3 DEF Unheard
  <2>5. Heard(request.shown) = s
    BY <2>2, <2>4 DEF Reading, Heard
  <2>6. QED BY <2>2, <2>3, <2>5 DEF Reading
<1>2. ASSUME request.at = "summed"
      PROVE  \/ \E i \in DOMAIN request.points : request.points[i] = request.value
             \/ \A i \in DOMAIN request.points : request.points[i].n > request.value.n
  <2>1. /\ Len(request.points) \in Nat
        /\ DOMAIN request.points = 1..Len(request.points)
    BY <1>2, RequestKinds, LenProperties DEF AnswersInv, Summed
  <2>2. PICK i \in 0..Len(request.points) :
          /\ i # 0 => request.points[i] = request.value
          /\ \A j \in (i + 1)..Len(request.points) : request.points[j].n > request.value.n
    BY <1>2 DEF AnswersInv, SumInv, Passed
  <2>3. CASE i = 0
    BY <2>1, <2>2, <2>3
  <2>4. CASE i # 0
    BY <2>1, <2>2, <2>4
  <2>5. QED BY <2>3, <2>4
<1>3. QED BY <1>1, <1>2 DEF AnswersCurrent

\* For any number of nodes, fields, samples and limits, and whatever the loop
\* does while the thread reads, a request that is answered is answered with
\* nothing older than itself.  About the REST handlers in the thread pool, which
\* read records and series while NodeRecord.merge and record_telemetry change them.
THEOREM AnswersNotStale == ReadingsSpec => []AnswersCurrent
BY InitAnswers, StepAnswers, AnswersFollow, PTL DEF ReadingsSpec
=============================================================================
