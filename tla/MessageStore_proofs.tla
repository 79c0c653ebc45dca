------------------------ MODULE MessageStore_proofs ------------------------
(***************************************************************************)
(* Theorems about the message store, for any packet ids, timestamps, cache *)
(* sizes, caps and bounds.                                                 *)
(***************************************************************************)
EXTENDS MessageStore, FiniteSetTheorems, TLAPS

\* Appending to a deque keeps its element type and its maximal length.
LEMMA PushType ==
  ASSUME NEW T, NEW s \in Seq(T), NEW x \in T, NEW n \in Nat \ {0}, Len(s) <= n
  PROVE  Push(s, x, n) \in Seq(T) /\ Len(Push(s, x, n)) <= n
<1>1. CASE Len(s) < n
  BY <1>1 DEF Push
<1>2. CASE ~(Len(s) < n)
  <2>1. s # <<>> /\ Tail(s) \in Seq(T) /\ Len(Tail(s)) = Len(s) - 1
    BY <1>2
  <2>2. Append(Tail(s), x) \in Seq(T) /\ Len(Append(Tail(s), x)) = Len(s)
    BY <2>1
  <2>3. QED BY <1>2, <2>2 DEF Push
<1>3. QED BY <1>1, <1>2

\* What is loaded from a table is a sequence of its rows, no longer than asked.
LEMMA WarmType ==
  ASSUME NEW T, NEW rows \in SUBSET T, NEW n \in Nat, NEW s \in Warm(rows, n)
  PROVE  s \in Seq(T) /\ Len(s) <= n /\ \A i \in DOMAIN s : s[i] \in rows
<1>1. PICK k \in 0..n : s \in [1..k -> rows]
  BY DEF Warm
<1>2. s \in Seq(rows) /\ Len(s) = k
  BY <1>1
<1>3. s \in [1..k -> T]
  BY <1>1
<1>4. QED BY <1>1, <1>2, <1>3

\* Newest keeps a subset of the rows.
LEMMA NewestType == ASSUME NEW rows, NEW kept \in Newest(rows) PROVE kept \subseteq rows
BY DEF Newest

-----------------------------------------------------------------------------
(* The type invariant, split by what a step may touch.                     *)

TableType == working \in Tables /\ durable \in Tables
CacheType ==
  /\ cache \in Seq(Rows) /\ Len(cache) <= CacheMax
  /\ shown \subseteq 1..RowCap
JobType ==
  job \in {Idle} \cup [at : {"inserted", "committed"}, row : Rows, fresh : BOOLEAN]
TrimType ==
  trim \in [at : {"parked", "expire", "cap", "commit"},
            cutoff : Times \cup {0}, had : SUBSET Rows]
HistoryType == undone \in BOOLEAN

LEMMA TypeParts ==
  /\ TypeOK <=> TableType /\ CacheType /\ JobType /\ TrimType /\ HistoryType
  /\ TypeOK' <=> TableType' /\ CacheType' /\ JobType' /\ TrimType' /\ HistoryType'
BY DEF TypeOK, TableType, CacheType, JobType, TrimType, HistoryType

\* A job that writes a message has a row.
LEMMA MessageJob ==
  ASSUME JobType, job.at \in {"inserted", "committed"}
  PROVE  /\ job.row \in Rows /\ job.fresh \in BOOLEAN
         /\ job = Message(job.at, job.row, job.fresh)
BY DEF JobType, Idle, Message

LEMMA InitType == Init => TypeOK
<1> SUFFICES ASSUME Init PROVE TypeOK
  OBVIOUS
<1> USE SizeAssumption DEF Init
<1>1. TableType
  BY DEF TableType, Tables, Empty
<1>2. CacheType
  BY DEF CacheType
<1>3. JobType
  BY DEF JobType
<1>4. TrimType
  BY DEF TrimType, Parked
<1>5. HistoryType
  BY DEF HistoryType
<1>6. QED BY <1>1, <1>2, <1>3, <1>4, <1>5, TypeParts

\* The two ways an INSERT OR IGNORE can go.
NewRow(mid, ts) == [id |-> working.seq + 1, mid |-> mid, ts |-> ts]

LEMMA InsertMessageEffect ==
  ASSUME TypeOK, NEW mid, NEW ts, InsertMessage(mid, ts)
  PROVE  /\ durable' = durable /\ job'.at = "inserted"
         /\ \/ working' = working /\ job'.fresh = FALSE
            \/ /\ ~Taken(working.rows, mid)
               /\ working'.rows = working.rows \cup {NewRow(mid, ts)}
               /\ working'.seq = working.seq + 1
               /\ job'.row = NewRow(mid, ts)
<1> USE TypeParts DEF TableType, Tables
<1>1. durable' = durable
  BY DEF InsertMessage
<1>2. CASE Taken(working.rows, mid)
  <2> DEFINE first == CHOOSE r \in working.rows : r.mid = mid
  <2>1. working' = working /\ job' = Message("inserted", first, FALSE)
    BY <1>2 DEF InsertMessage
  <2> HIDE DEF first
  <2>2. QED BY <1>1, <2>1 DEF Message
<1>3. CASE ~Taken(working.rows, mid)
  <2> DEFINE row == NewRow(mid, ts)
  <2>1. /\ working' = [working EXCEPT !.rows = @ \cup {row}, !.seq = @ + 1]
        /\ job' = Message("inserted", row, TRUE)
    BY <1>3 DEF InsertMessage, NewRow, NextId
  <2> HIDE DEF row
  <2>2. working'.rows = working.rows \cup {row} /\ working'.seq = working.seq + 1
    BY <2>1
  <2>3. job'.at = "inserted" /\ job'.row = row
    BY <2>1 DEF Message
  <2>4. QED BY <1>1, <1>3, <2>2, <2>3 DEF row
<1>4. QED BY <1>2, <1>3

\* One step per action: a message is inserted, or found to be a duplicate.
LEMMA InsertMessageType ==
  ASSUME TypeOK, NEW mid \in MessageIds \cup {NoId}, NEW ts \in Times, InsertMessage(mid, ts)
  PROVE  TypeOK'
<1> USE TypeParts
<1>1. CacheType' /\ TrimType' /\ HistoryType' /\ durable' = durable
  BY DEF InsertMessage, CacheType, TrimType, HistoryType
<1>2. CASE Taken(working.rows, mid)
  <2> DEFINE first == CHOOSE r \in working.rows : r.mid = mid
  <2>1. first \in Rows
    BY <1>2 DEF Taken, TableType, Tables
  <2>2. job' = Message("inserted", first, FALSE) /\ working' = working
    BY <1>2 DEF InsertMessage
  <2>3. QED BY <1>1, <2>1, <2>2 DEF JobType, TableType, Message
<1>3. CASE ~Taken(working.rows, mid)
  <2> DEFINE row == [id |-> working.seq + 1, mid |-> mid, ts |-> ts]
  <2>1. /\ working.seq < RowCap /\ job' = Message("inserted", row, TRUE)
        /\ working' = [working EXCEPT !.rows = @ \cup {row}, !.seq = @ + 1]
    BY <1>3 DEF InsertMessage, NextId
  <2>2. row \in Rows /\ working.seq + 1 \in 0..RowCap
    BY <2>1, SizeAssumption DEF TableType, Tables, Rows
  <2>3. working' \in Tables
    BY <2>1, <2>2 DEF TableType, Tables
  <2>4. QED BY <1>1, <2>1, <2>2, <2>3 DEF JobType, TableType, Message
<1>4. QED BY <1>2, <1>3

\* The row is cached and shown.
LEMMA DeliverMessageType ==
  ASSUME TypeOK, DeliverMessage
  PROVE  TypeOK'
<1> USE TypeParts
<1>1. TableType' /\ JobType' /\ TrimType' /\ HistoryType'
  BY DEF DeliverMessage, Deliver, TableType, JobType, TrimType, HistoryType
<1>2. job.row \in Rows
  BY MessageJob DEF DeliverMessage, Deliver
<1>3. Push(cache, job.row, CacheMax) \in Seq(Rows) /\ Len(Push(cache, job.row, CacheMax)) <= CacheMax
  BY <1>2, PushType, SizeAssumption DEF CacheType
<1>4. CacheType'
  <2>1. job.row.id \in 1..RowCap
    BY <1>2 DEF Rows
  <2>2. QED BY <1>1, <1>3, <2>1 DEF DeliverMessage, Deliver, CacheType
<1>5. QED BY <1>1, <1>4

\* A restart reloads the caches from what is durable.
LEMMA RestartType ==
  ASSUME TypeOK, Restart
  PROVE  TypeOK'
<1> USE TypeParts
<1>1. TableType' /\ JobType' /\ TrimType' /\ HistoryType'
  BY SizeAssumption DEF Restart, TableType, JobType, TrimType, HistoryType, Parked
<1>2. durable.rows \in SUBSET Rows
  BY DEF TableType, Tables
<1>3. /\ cache' \in Seq(Rows) /\ Len(cache') <= CacheMax
      /\ \A i \in DOMAIN cache' : cache'[i] \in durable.rows
  BY <1>2, WarmType, SizeAssumption DEF Restart
<1>5. shown' \subseteq 1..RowCap
  <2>1. \A i \in DOMAIN cache' : cache'[i].id \in 1..RowCap
    BY <1>2, <1>3 DEF Rows
  <2>2. QED BY <2>1 DEF Restart, CacheType
<1>6. QED BY <1>1, <1>3, <1>5 DEF CacheType

-----------------------------------------------------------------------------
(* The type invariant is inductive once it is known that a rollback or a   *)
(* restart only ever lowers the row counter.                               *)

Ordered == durable.seq <= working.seq
TypeInv == TypeOK /\ Ordered

LEMMA TypeStep == TypeInv /\ [Next]_vars => TypeInv'
<1> SUFFICES ASSUME TypeInv, [Next]_vars
             PROVE  TypeInv'
  OBVIOUS
<1> USE TypeParts DEF TypeInv
<1>1. CASE UNCHANGED vars
  BY <1>1 DEF vars, TableType, CacheType, JobType, TrimType, HistoryType, Ordered
<1>2. ASSUME NEW mid \in MessageIds \cup {NoId}, NEW ts \in Times, InsertMessage(mid, ts)
      PROVE  TypeInv'
  <2>1. TypeOK'
    BY <1>2, InsertMessageType
  <2>0. durable.seq \in Int /\ working.seq \in Int
    BY SizeAssumption DEF TableType, Tables
  <2>2. /\ durable' = durable
        /\ working'.seq \in {working.seq, working.seq + 1}
    BY <1>2, InsertMessageEffect
  <2>3. job'.at = "inserted"
    BY <1>2, InsertMessageEffect
  <2>4. Ordered'
    BY <2>0, <2>2 DEF Ordered
  <2>5. QED BY <2>1, <2>3, <2>4
<1>3. CASE CommitMessage
  <2>1. job' = Message("committed", job.row, job.fresh) /\ job.row \in Rows /\ job.fresh \in BOOLEAN
    BY <1>3, MessageJob DEF CommitMessage, Message
  <2>2. JobType' /\ job'.at = "committed"
    BY <2>1 DEF JobType, Message
  <2>3. TableType' /\ Ordered'
    BY <1>3 DEF CommitMessage, Commit, TableType, Tables, Ordered
  <2>4. CacheType' /\ TrimType' /\ HistoryType'
    BY <1>3 DEF CommitMessage, CacheType, TrimType, HistoryType
  <2>5. QED BY <2>2, <2>3, <2>4
<1>4. CASE DeliverMessage
  BY <1>4, DeliverMessageType DEF DeliverMessage, Deliver, Ordered, Idle
<1>5. CASE CommitOther
  BY <1>5 DEF CommitOther, Commit, TableType, Tables, CacheType, JobType, TrimType,
              HistoryType, Ordered
<1>6. ASSUME NEW cutoff \in Times, StartTrim(cutoff)
      PROVE  TypeInv'
  BY <1>6 DEF StartTrim, TableType, CacheType, JobType, TrimType, HistoryType, Ordered
<1>7. CASE ExpireMessages
  <2>1. working' = [working EXCEPT !.rows = {r \in @ : r.ts >= trim.cutoff}]
    BY <1>7 DEF ExpireMessages
  <2>2. working' \in Tables /\ working'.seq = working.seq
    BY <2>1 DEF TableType, Tables
  <2>3. TrimType'
    BY <1>7 DEF ExpireMessages, TrimType, TableType, Tables
  <2>4. QED
    BY <1>7, <2>2, <2>3 DEF ExpireMessages, TableType, CacheType, JobType, HistoryType,
                             Ordered
<1>8. CASE CapMessages
  <2>1. PICK kept \in Newest(working.rows) : working' = [working EXCEPT !.rows = kept]
    BY <1>8 DEF CapMessages
  <2>2. kept \subseteq working.rows
    BY NewestType
  <2>3. working' \in Tables /\ working'.seq = working.seq
    BY <2>1, <2>2 DEF TableType, Tables
  <2>4. QED
    BY <1>8, <2>3 DEF CapMessages, TableType, CacheType, JobType, TrimType, HistoryType,
                       Ordered
<1>9. CASE CommitTrim
  BY <1>9, SizeAssumption DEF CommitTrim, Commit, Parked, TableType, Tables, CacheType, JobType,
              TrimType, HistoryType, Ordered
<1>10. CASE WriteFails
  <2>1. working' = working \/ working' = durable
    BY <1>10 DEF WriteFails, Rollback
  <2>2. TableType' /\ Ordered'
    BY <1>10, <2>1 DEF WriteFails, TableType, Tables, Ordered
  <2>3. HistoryType'
    BY <1>10 DEF WriteFails, Rollback, HistoryType
  <2>4. QED
    BY <1>10, <2>2, <2>3 DEF WriteFails, CacheType, JobType, TrimType, Idle
<1>11. CASE TrimFails
  <2>1. working' = working \/ working' = durable
    BY <1>11 DEF TrimFails, Rollback
  <2>2. TableType' /\ Ordered'
    BY <1>11, <2>1 DEF TrimFails, TableType, Tables, Ordered
  <2>3. HistoryType'
    BY <1>11 DEF TrimFails, Rollback, HistoryType
  <2>5. QED
    BY <1>11, <2>2, <2>3, SizeAssumption DEF TrimFails, CacheType, JobType, TrimType, Parked
<1>12. CASE Restart
  <2>1. Ordered'
    BY <1>12 DEF Restart, Ordered, TableType, Tables, Idle
  <2>2. QED BY <1>12, <2>1, RestartType
<1>13. QED
  BY <1>1, <1>2, <1>3, <1>4, <1>5, <1>6, <1>7, <1>8, <1>9, <1>10,
     <1>11, <1>12 DEF Next, Dispatcher, Trimmer

\* The store's state has its type, whatever is delivered, trimmed, failed or
\* restarted: in particular neither cache ever outgrows its deque.
THEOREM TypeCorrect == Spec => []TypeOK
<1>1. Init => TypeInv
  <2>1. Init => Ordered
    BY DEF Init, Ordered, Empty, Idle
  <2>2. QED BY <2>1, InitType DEF TypeInv
<1>2. TypeInv => TypeOK
  BY DEF TypeInv
<1>3. QED BY <1>1, <1>2, TypeStep, PTL DEF Spec

-----------------------------------------------------------------------------
(* Duplicate deliveries.                                                   *)

\* No statement adds a row whose packet id is taken; a rollback or a restart
\* goes back to a table of which that already held.
LEMMA NoIdTwiceStep == TypeInv /\ NoIdTwice /\ [Next]_vars => NoIdTwice'
<1> SUFFICES ASSUME TypeInv, NoIdTwice, [Next]_vars
             PROVE  NoIdTwice'
  OBVIOUS
<1> USE TypeParts DEF TypeInv, TableType, Tables
<1>1. ASSUME NEW mid \in MessageIds \cup {NoId}, NEW ts \in Times, InsertMessage(mid, ts)
      PROVE  NoIdTwice'
  <2>1. CASE working' = working
    BY <1>1, <2>1, InsertMessageEffect DEF NoIdTwice
  <2>2. CASE /\ ~Taken(working.rows, mid)
             /\ working'.rows = working.rows \cup {NewRow(mid, ts)}
    <3>1. NewRow(mid, ts).mid = mid
      BY DEF NewRow
    <3>2. durable' = durable
      BY <1>1, InsertMessageEffect
    <3>3. ASSUME NEW r \in working'.rows, NEW q \in working'.rows, r.mid = q.mid, r.mid # NoId
          PROVE  r = q
      BY <2>2, <3>1, <3>3 DEF Taken, NoIdTwice
    <3>4. QED BY <3>2, <3>3 DEF NoIdTwice
  <2>3. QED BY <1>1, <2>1, <2>2, InsertMessageEffect
<1>2. CASE working'.rows \subseteq working.rows /\ durable' = durable
  BY <1>2 DEF NoIdTwice
<1>3. CASE working' = working /\ durable' = working
  BY <1>3 DEF NoIdTwice
<1>4. CASE working' = durable /\ durable' = durable
  BY <1>4 DEF NoIdTwice
<1>5. CASE ExpireMessages
  BY <1>2, <1>5 DEF ExpireMessages
<1>6. CASE CapMessages
  <2>1. PICK kept \in Newest(working.rows) : working' = [working EXCEPT !.rows = kept]
    BY <1>6 DEF CapMessages
  <2>2. working'.rows \subseteq working.rows /\ durable' = durable
    BY <1>6, <2>1, NewestType DEF CapMessages
  <2>3. QED BY <1>2, <2>2
<1>7. CASE CommitMessage \/ CommitOther \/ CommitTrim
  BY <1>3, <1>7 DEF CommitMessage, CommitOther, CommitTrim, Commit
<1>8. CASE WriteFails \/ TrimFails
  BY <1>2, <1>4, <1>8 DEF WriteFails, TrimFails, Rollback
<1>9. CASE Restart
  BY <1>4, <1>9 DEF Restart
<1>10. ASSUME UNCHANGED <<working, durable>>
       PROVE  NoIdTwice'
  BY <1>10, <1>2
<1>11. CASE DeliverMessage \/ UNCHANGED vars
  BY <1>10, <1>11 DEF DeliverMessage, Deliver, vars
<1>12. ASSUME NEW t \in Times, StartTrim(t)
       PROVE  NoIdTwice'
  BY <1>10, <1>12 DEF StartTrim
<1>13. QED
  BY <1>1, <1>5, <1>6, <1>7, <1>8, <1>9, <1>11, <1>12 DEF Next, Dispatcher, Trimmer

\* However deliveries, trims, failures and restarts interleave, no packet id is
\* on two rows: no statement adds a row whose id is taken, and a rollback or a
\* restart only goes back to a table of which that already held.
THEOREM DuplicatesDropped == Spec => []NoIdTwice
<1>1. Init => NoIdTwice
  BY DEF Init, NoIdTwice, Empty
<1>2. Init => TypeInv
  <2>1. Init => Ordered
    BY DEF Init, Ordered, Empty, Idle
  <2>2. QED BY <2>1, InitType DEF TypeInv
<1>3. QED BY <1>1, <1>2, TypeStep, NoIdTwiceStep, PTL DEF Spec

-----------------------------------------------------------------------------
(* The screen and the durable record.                                      *)

\* The row a job is writing has been drawn from the counter, and once the job
\* has committed, from the durable one.
JobDrawn ==
  /\ job.at = "inserted" /\ job.fresh => job.row.id <= working.seq
  /\ job.at = "committed" /\ job.fresh => job.row.id <= durable.seq

\* No table holds a row its counter has not reached.
RowsDrawn ==
  /\ \A r \in working.rows : r.id <= working.seq
  /\ \A r \in durable.rows : r.id <= durable.seq

ScreenInv == RowsDrawn /\ (~undone => JobDrawn /\ ShownSurvives)

LEMMA ScreenStep == TypeInv /\ ScreenInv /\ [Next]_vars => ScreenInv'
<1> SUFFICES ASSUME TypeInv, ScreenInv, [Next]_vars
             PROVE  ScreenInv'
  OBVIOUS
<1> USE TypeParts DEF TypeInv
<1>1. /\ working.seq \in Nat /\ durable.seq \in Nat /\ durable.seq <= working.seq
      /\ \A r \in working.rows \cup durable.rows : r.id \in Nat
      /\ undone \in BOOLEAN
  BY SizeAssumption DEF TableType, Tables, Rows, Ordered, HistoryType
\* A step that leaves the counters, the job and the screen alone.
<1>2. ASSUME durable' = durable, working'.seq = working.seq, working'.rows \subseteq working.rows,
             job' = job \/ job'.at \notin {"inserted", "committed"},
             shown' = shown, undone' = undone
      PROVE  ScreenInv'
  BY <1>2 DEF ScreenInv, RowsDrawn, JobDrawn, ShownSurvives
\* A commit by a job that is not writing a message, or by the trimmer.
<1>3. ASSUME durable' = working, working' = working, shown' = shown, undone' = undone,
             job' = job \/ job'.at \notin {"inserted", "committed"}
      PROVE  ScreenInv'
  <2>1. RowsDrawn'
    BY <1>3 DEF ScreenInv, RowsDrawn
  <2>2. ASSUME ~undone PROVE JobDrawn' /\ ShownSurvives'
    <3>1. ShownSurvives'
      BY <1>1, <1>3, <2>2 DEF ScreenInv, ShownSurvives, CacheType
    <3>2. JobDrawn'
      <4>1. CASE job'.at = "inserted" /\ job'.fresh
        BY <1>3, <2>2, <4>1 DEF ScreenInv, JobDrawn
      <4>2. CASE job'.at = "committed" /\ job'.fresh
        <5>1. job' = job /\ job.row.id <= durable.seq
          BY <1>3, <2>2, <4>2 DEF ScreenInv, JobDrawn
        <5>2. job.row.id \in Nat
          BY <5>1, <4>2, MessageJob DEF Rows
        <5>3. QED BY <1>1, <1>3, <4>2, <5>1, <5>2 DEF JobDrawn
      <4>3. QED BY <4>1, <4>2 DEF JobDrawn
    <3>3. QED BY <3>1, <3>2
  <2>3. QED BY <1>3, <2>1, <2>2 DEF ScreenInv
\* A failed statement: nothing is undone, or the transaction is.
<1>4. ASSUME durable' = durable, shown' = shown, Rollback,
             job' = job \/ job'.at \notin {"inserted", "committed"}
      PROVE  ScreenInv'
  <2>1. CASE working' = working /\ undone' = undone
    BY <1>2, <1>4, <2>1
  <2>2. CASE working' = durable /\ undone' = (undone \/ working # durable)
    <3>1. RowsDrawn'
      BY <1>4, <2>2 DEF ScreenInv, RowsDrawn
    <3>2. CASE working = durable
      <4>1. undone' = undone
        BY <1>1, <2>2, <3>2
      <4>2. QED BY <1>2, <1>4, <2>2, <3>2, <4>1
    <3>3. CASE working # durable
      BY <2>2, <3>1, <3>3 DEF ScreenInv
    <3>4. QED BY <3>2, <3>3
  <2>3. QED BY <1>4, <2>1, <2>2 DEF Rollback
<1>5. ASSUME NEW mid \in MessageIds \cup {NoId}, NEW ts \in Times, InsertMessage(mid, ts)
      PROVE  ScreenInv'
  <2>1. shown' = shown /\ undone' = undone /\ durable' = durable /\ job'.at = "inserted"
    BY <1>5, InsertMessageEffect DEF InsertMessage
  <2>2. CASE working' = working /\ job'.fresh = FALSE
    BY <2>1, <2>2 DEF ScreenInv, RowsDrawn, JobDrawn, ShownSurvives
  <2>3. CASE /\ working'.rows = working.rows \cup {NewRow(mid, ts)}
             /\ working'.seq = working.seq + 1
             /\ job'.row = NewRow(mid, ts)
    <3>1. NewRow(mid, ts).id = working'.seq
      BY <2>3 DEF NewRow
    <3>2. RowsDrawn'
      BY <1>1, <2>1, <2>3, <3>1 DEF ScreenInv, RowsDrawn
    <3>3. JobDrawn'
      BY <1>1, <2>1, <2>3, <3>1 DEF JobDrawn
    <3>4. QED BY <2>1, <3>2, <3>3 DEF ScreenInv, ShownSurvives
  <2>4. QED BY <1>5, <2>2, <2>3, InsertMessageEffect
<1>6. CASE CommitMessage
  <2>1. /\ durable' = working /\ working' = working /\ shown' = shown /\ undone' = undone
        /\ job.at = "inserted" /\ job' = Message("committed", job.row, job.fresh)
    BY <1>6, MessageJob DEF CommitMessage, Commit, Message
  <2>2. RowsDrawn'
    BY <2>1 DEF ScreenInv, RowsDrawn
  <2>3. ~undone => ShownSurvives'
    BY <1>1, <2>1 DEF ScreenInv, ShownSurvives, CacheType
  <2>4. job'.at = "committed" /\ job'.row = job.row /\ job'.fresh = job.fresh
    BY <2>1 DEF Message
  <2>5. ~undone => JobDrawn'
    BY <2>1, <2>4 DEF ScreenInv, JobDrawn
  <2>6. QED BY <2>1, <2>2, <2>3, <2>5 DEF ScreenInv
<1>7. CASE DeliverMessage
  <2>1. /\ job.at = "committed" /\ job' = Idle /\ working' = working /\ durable' = durable
        /\ undone' = undone
        /\ (job.fresh /\ shown' = shown \cup {job.row.id}) \/ shown' = shown
    BY <1>7 DEF DeliverMessage, Deliver
  <2>2. JobDrawn'
    BY <2>1 DEF JobDrawn, Idle
  <2>3. ~undone => ShownSurvives'
    BY <2>1 DEF ScreenInv, JobDrawn, ShownSurvives
  <2>4. QED BY <2>1, <2>2, <2>3 DEF ScreenInv, RowsDrawn
<1>8. CASE CapMessages
  <2>1. PICK kept \in Newest(working.rows) : working' = [working EXCEPT !.rows = kept]
    BY <1>8 DEF CapMessages
  <2>2. working'.rows \subseteq working.rows /\ working'.seq = working.seq
    BY <2>1, NewestType DEF TableType, Tables
  <2>3. QED BY <1>2, <1>8, <2>2 DEF CapMessages
<1>9. CASE ExpireMessages
  <2>1. working' = [working EXCEPT !.rows = {r \in @ : r.ts >= trim.cutoff}]
    BY <1>9 DEF ExpireMessages
  <2>2. working'.rows \subseteq working.rows /\ working'.seq = working.seq
    BY <2>1 DEF TableType, Tables
  <2>3. QED BY <1>2, <1>9, <2>2 DEF ExpireMessages
<1>10. CASE CommitOther \/ CommitTrim
  BY <1>3, <1>10 DEF CommitOther, CommitTrim, Commit
<1>11. CASE WriteFails
  BY <1>4, <1>11 DEF WriteFails, Idle
<1>12. CASE TrimFails
  BY <1>4, <1>12 DEF TrimFails
<1>13. CASE Restart
  <2>1. /\ working' = durable /\ durable' = durable /\ job' = Idle /\ undone' = undone
        /\ cache' \in Warm(durable.rows, CacheMax)
        /\ shown' = shown \cup {cache'[i].id : i \in DOMAIN cache'}
    BY <1>13 DEF Restart
  <2>2. \A i \in DOMAIN cache' : cache'[i] \in durable.rows
    <3>1. durable.rows \in SUBSET Rows /\ CacheMax \in Nat
      BY SizeAssumption DEF TableType, Tables
    <3>2. QED BY <2>1, <3>1, WarmType
  <2>3. \A i \in DOMAIN cache' : cache'[i].id <= durable.seq
    BY <2>2 DEF ScreenInv, RowsDrawn
  <2>4. JobDrawn' /\ RowsDrawn'
    BY <2>1 DEF JobDrawn, Idle, ScreenInv, RowsDrawn
  <2>5. ~undone => ShownSurvives'
    BY <2>1, <2>3 DEF ScreenInv, ShownSurvives
  <2>6. QED BY <2>1, <2>4, <2>5 DEF ScreenInv
<1>14. ASSUME NEW t \in Times, StartTrim(t)
       PROVE  ScreenInv'
  BY <1>2, <1>14 DEF StartTrim
<1>15. CASE UNCHANGED vars
  BY <1>2, <1>15 DEF vars
<1>16. QED
  BY <1>5, <1>6, <1>7, <1>8, <1>9, <1>10, <1>11, <1>12, <1>13,
     <1>14, <1>15 DEF Next, Dispatcher, Trimmer

\* What has been put on a screen was committed before: however commits of the
\* dispatcher and the trimmer, failures and crashes interleave, a row a browser
\* has seen is in the durable table or was deleted from it by the trim, unless a
\* failure undid the shared transaction.
THEOREM ScreenBehindDisk == Spec => []ShownSurvives
<1>1. Init => TypeInv
  <2>1. Init => Ordered
    BY DEF Init, Ordered, Empty, Idle
  <2>2. QED BY <2>1, InitType DEF TypeInv
<1>2. Init => ScreenInv
  BY DEF Init, ScreenInv, RowsDrawn, JobDrawn, ShownSurvives, Empty, Idle
<1>3. ScreenInv => ShownSurvives
  BY DEF ScreenInv, ShownSurvives
<1>4. QED BY <1>1, <1>2, <1>3, TypeStep, ScreenStep, PTL DEF Spec

-----------------------------------------------------------------------------
(* The log.                                                                *)

\* What the open transaction has on top of the durable table is new: it holds
\* no old row that the durable table does not.
Extends == \A r \in working.rows : r.id <= durable.seq => r \in durable.rows

LEMMA ExtendsStep == TypeInv /\ Extends /\ [Next]_vars => Extends'
<1> SUFFICES ASSUME TypeInv, Extends, [Next]_vars
             PROVE  Extends'
  OBVIOUS
<1> USE TypeParts DEF TypeInv
<1>0. /\ working.seq \in Int /\ durable.seq \in Int /\ durable.seq <= working.seq
      /\ \A r \in working.rows : r.id \in Int
  BY SizeAssumption DEF TableType, Tables, Rows, Ordered
<1>1. CASE durable' = durable /\ working'.rows \subseteq working.rows
  BY <1>1 DEF Extends
<1>2. CASE durable' = working /\ working' = working
  BY <1>2 DEF Extends
<1>3. CASE working' = durable /\ durable' = durable
  BY <1>3 DEF Extends
<1>4. ASSUME NEW mid \in MessageIds \cup {NoId}, NEW ts \in Times, InsertMessage(mid, ts)
      PROVE  Extends'
  <2>0. durable' = durable
    BY <1>4, InsertMessageEffect
  <2>1. CASE working' = working
    BY <1>1, <2>0, <2>1
  <2>2. CASE working'.rows = working.rows \cup {NewRow(mid, ts)}
    <3>1. ~(NewRow(mid, ts).id <= durable.seq)
      BY <1>0 DEF NewRow
    <3>2. QED BY <2>0, <2>2, <3>1 DEF Extends
  <2>3. QED BY <1>4, <2>1, <2>2, InsertMessageEffect
<1>5. CASE CommitMessage \/ CommitOther \/ CommitTrim
  BY <1>2, <1>5 DEF CommitMessage, CommitOther, CommitTrim, Commit
<1>6. CASE CapMessages
  <2>1. PICK kept \in Newest(working.rows) : working' = [working EXCEPT !.rows = kept]
    BY <1>6 DEF CapMessages
  <2>2. QED BY <1>1, <1>6, <2>1, NewestType DEF CapMessages, TableType, Tables
<1>7. CASE ExpireMessages
  BY <1>1, <1>7 DEF ExpireMessages, TableType, Tables
<1>8. CASE WriteFails \/ TrimFails
  BY <1>1, <1>3, <1>8 DEF WriteFails, TrimFails, Rollback
<1>9. CASE Restart
  BY <1>3, <1>9 DEF Restart
<1>10. ASSUME UNCHANGED <<working, durable>>
       PROVE  Extends'
  BY <1>1, <1>10
<1>11. CASE DeliverMessage \/ UNCHANGED vars
  BY <1>10, <1>11 DEF DeliverMessage, Deliver, vars
<1>12. ASSUME NEW t \in Times, StartTrim(t)
       PROVE  Extends'
  BY <1>10, <1>12 DEF StartTrim
<1>13. QED
  BY <1>4, <1>5, <1>6, <1>7, <1>8, <1>9, <1>11, <1>12 DEF Next, Dispatcher, Trimmer

LogInv == TypeInv /\ NoIdTwice /\ ScreenInv /\ Extends

\* A commit by whichever task appends to the log, forgets from it, or both.
LEMMA CommitRecords ==
  ASSUME LogInv, Commit, UNCHANGED <<shown, undone>>
  PROVE  Log!Record
<1> USE TypeParts DEF LogInv, TypeInv
<1>1. durable'.seq >= durable.seq
  BY SizeAssumption DEF Commit, Ordered, TableType, Tables
<1>2. {r \in durable'.rows : r.id <= durable.seq} \subseteq durable.rows
  BY DEF Commit, Extends
<1>3. \A r \in durable'.rows : r.id <= durable'.seq
  BY DEF Commit, ScreenInv, RowsDrawn
<1>4. \A r, s \in durable'.rows : r.mid = s.mid /\ r.mid # NoId => r = s
  BY DEF Commit, NoIdTwice
<1>5. QED BY <1>1, <1>2, <1>3, <1>4 DEF Log!Record

\* A failed write undoes the open transaction, or nothing.
LEMMA RollbackLoses ==
  ASSUME Rollback, UNCHANGED <<durable, shown>>, undone \in BOOLEAN
  PROVE  Log!Lose \/ UNCHANGED Log!vars
<1>1. CASE undone' = undone
  BY <1>1 DEF Log!vars
<1>2. CASE undone' # undone
  BY <1>2 DEF Rollback, Log!Lose
<1>3. QED BY <1>1, <1>2

LEMMA StepLogs == LogInv /\ ScreenInv' /\ [Next]_vars => [Log!Next]_(Log!vars)
<1> SUFFICES ASSUME LogInv, ScreenInv', [Next]_vars
             PROVE  [Log!Next]_(Log!vars)
  OBVIOUS
<1> USE TypeParts DEF LogInv, TypeInv
<1>1. CASE UNCHANGED <<durable, shown, undone>>
  BY <1>1 DEF Log!vars
<1>2. ASSUME shown \subseteq shown', UNCHANGED <<durable, undone>>
      PROVE  Log!Show
  BY <1>2 DEF ScreenInv, ShownSurvives, Log!Show, HistoryType
<1>3. CASE CommitMessage \/ CommitOther \/ CommitTrim
  BY <1>3, CommitRecords DEF CommitMessage, CommitOther, CommitTrim, Log!Next
<1>4. CASE DeliverMessage
  <2>1. shown \subseteq shown' /\ UNCHANGED <<durable, undone>>
    BY <1>4 DEF DeliverMessage, Deliver
  <2>2. QED BY <1>2, <2>1 DEF Log!Next
<1>5. CASE Restart
  <2>1. shown \subseteq shown' /\ UNCHANGED <<durable, undone>>
    BY <1>5 DEF Restart
  <2>2. QED BY <1>2, <2>1 DEF Log!Next
<1>6. CASE WriteFails \/ TrimFails
  BY <1>6, RollbackLoses DEF WriteFails, TrimFails, HistoryType, Log!Next
<1>7. ASSUME NEW mid \in MessageIds \cup {NoId}, NEW ts \in Times, InsertMessage(mid, ts)
      PROVE  [Log!Next]_(Log!vars)
  BY <1>1, <1>7 DEF InsertMessage
<1>8. ASSUME NEW t \in Times, StartTrim(t)
      PROVE  [Log!Next]_(Log!vars)
  BY <1>1, <1>8 DEF StartTrim
<1>9. CASE ExpireMessages \/ CapMessages \/ UNCHANGED vars
  BY <1>1, <1>9 DEF ExpireMessages, CapMessages, vars
<1>10. QED
  BY <1>3, <1>4, <1>5, <1>6, <1>7, <1>8, <1>9 DEF Next, Dispatcher, Trimmer

\* The store implements the log: two tasks sharing one transaction, failures
\* that undo each other's work, and crashes add up to a record that only grows
\* at its end and forgets, and never shows what it does not hold.
THEOREM ImplementsLog == Spec => LogKept
<1>1. Init => LogInv /\ Log!Init
  <2>1. Init => TypeOK /\ Ordered
    BY InitType DEF Init, Ordered, Empty, Idle
  <2>2. Init => NoIdTwice /\ Extends
    BY DEF Init, NoIdTwice, Extends, Empty
  <2>3. Init => ScreenInv
    BY DEF Init, ScreenInv, RowsDrawn, JobDrawn, ShownSurvives, Empty, Idle
  <2>4. Init => Log!Init
    BY DEF Init, Empty, Log!Init
  <2>5. QED BY <2>1, <2>2, <2>3, <2>4 DEF LogInv, TypeInv
<1>2. LogInv /\ [Next]_vars => LogInv'
  BY TypeStep, NoIdTwiceStep, ScreenStep, ExtendsStep DEF LogInv
<1>3. LogInv /\ LogInv' /\ [Next]_vars => [Log!Next]_(Log!vars)
  BY StepLogs DEF LogInv
<1>4. QED BY <1>1, <1>2, <1>3, PTL DEF Spec, LogKept, Log!Spec

-----------------------------------------------------------------------------
(* Retention.                                                              *)

Finite == IsFiniteSet(working.rows) /\ IsFiniteSet(durable.rows)

\* Of the rows the trim had when it began to delete, those that are still there
\* and those that are not; and the rows as new as a given one.
Left == trim.had \cap working.rows
Gone == trim.had \ working.rows
AsNew(r) == {k \in working.rows : k.ts >= r.ts}

\* What each statement of a trim has established of those rows.
Expired ==
  /\ \A k \in Left : k.ts >= trim.cutoff
  /\ \A r \in Gone : r.ts < trim.cutoff
Capped ==
  /\ Cardinality(Left) <= MaxMessages
  /\ \A k \in Left : k.ts >= trim.cutoff /\ \A r \in Gone : r.ts <= k.ts
  /\ \A r \in Gone : r.ts < trim.cutoff \/ Cardinality(AsNew(r)) >= MaxMessages
Trimmed ==
  /\ \A r \in trim.had : r.id <= working.seq
  /\ trim.at = "cap" => Expired
  /\ trim.at = "commit" => Capped

TrimInv == Finite /\ (~undone => Trimmed)

LEMMA FiniteStep == Finite /\ [Next]_vars => Finite'
<1> SUFFICES ASSUME Finite, [Next]_vars
             PROVE  Finite'
  OBVIOUS
<1>1. CASE durable' \in {durable, working} /\ working' \in {working, durable}
  BY <1>1 DEF Finite
<1>2. CASE durable' = durable /\ working'.rows \subseteq working.rows
  BY <1>2, FS_Subset DEF Finite
<1>3. ASSUME NEW mid \in MessageIds \cup {NoId}, NEW ts \in Times, InsertMessage(mid, ts)
      PROVE  Finite'
  <2> DEFINE row == [id |-> NextId(working), mid |-> mid, ts |-> ts]
  <2>1. CASE Taken(working.rows, mid)
    BY <1>1, <1>3, <2>1 DEF InsertMessage
  <2>2. CASE ~Taken(working.rows, mid)
    <3>1. durable' = durable /\ working' = [working EXCEPT !.rows = @ \cup {row}, !.seq = @ + 1]
      BY <1>3, <2>2 DEF InsertMessage
    <3> HIDE DEF row
    <3>2. IsFiniteSet(working.rows \cup {row})
      BY FS_AddElement DEF Finite
    <3>3. working'.rows = working.rows \cup {row} \/ working'.rows = working.rows
      BY <3>1
    <3>4. QED BY <3>1, <3>2, <3>3 DEF Finite
  <2>3. QED BY <2>1, <2>2
<1>4. CASE ExpireMessages
  <2>1. /\ durable' = durable
        /\ working' = [working EXCEPT !.rows = {r \in @ : r.ts >= trim.cutoff}]
    BY <1>4 DEF ExpireMessages
  <2>2. working'.rows \subseteq working.rows
    BY <2>1
  <2>3. QED BY <1>2, <2>1, <2>2
<1>5. CASE CapMessages
  <2>1. PICK kept \in Newest(working.rows) : working' = [working EXCEPT !.rows = kept]
    BY <1>5 DEF CapMessages
  <2>2. working'.rows \subseteq working.rows /\ durable' = durable
    BY <1>5, <2>1, NewestType DEF CapMessages
  <2>3. QED BY <1>2, <2>2
<1>6. CASE CommitMessage \/ CommitOther \/ CommitTrim
  BY <1>1, <1>6 DEF CommitMessage, CommitOther, CommitTrim, Commit
<1>7. CASE WriteFails \/ TrimFails
  BY <1>1, <1>7 DEF WriteFails, TrimFails, Rollback
<1>8. CASE Restart
  BY <1>1, <1>8 DEF Restart
<1>9. CASE DeliverMessage \/ UNCHANGED vars
  BY <1>1, <1>9 DEF DeliverMessage, Deliver, vars
<1>10. ASSUME NEW t \in Times, StartTrim(t)
       PROVE  Finite'
  BY <1>1, <1>10 DEF StartTrim
<1>11. QED
  BY <1>3, <1>4, <1>5, <1>6, <1>7, <1>8, <1>9, <1>10 DEF Next, Dispatcher, Trimmer

LEMMA TrimTimes ==
  ASSUME TypeInv
  PROVE  trim.cutoff \in Int /\ \A r \in trim.had : r.ts \in Int
<1> USE TypeParts DEF TypeInv
<1>1. trim.cutoff \in Times \cup {0} /\ trim.had \subseteq Rows
  BY DEF TrimType
<1>2. Times \cup {0} \subseteq Int
  BY TimeAssumption
<1>3. \A r \in Rows : r.ts \in Int
  BY TimeAssumption DEF Rows
<1>4. QED BY <1>1, <1>2, <1>3

\* A row inserted between two statements of the trim is not one it had, and
\* leaves no fewer rows as new as another.
LEMMA InsertTrim ==
  ASSUME TypeInv, TrimInv, Finite', ~undone,
         NEW mid \in MessageIds \cup {NoId}, NEW ts \in Times, trim' = trim,
         working'.rows = working.rows \cup {NewRow(mid, ts)}, working'.seq = working.seq + 1
  PROVE  Trimmed'
<1> USE TypeParts DEF TypeInv
<1>1. /\ working.seq \in Nat /\ MaxMessages \in Nat /\ trim.had \subseteq Rows
      /\ \A r \in trim.had : r.id \in Nat
  BY SizeAssumption DEF TableType, Tables, Rows, TrimType
<1>2. \A r \in trim.had : r.id <= working.seq
  BY DEF TrimInv, Trimmed
<1>3. NewRow(mid, ts) \notin trim.had
  BY <1>1, <1>2 DEF NewRow
<1>4. Left' = Left /\ Gone' = Gone
  BY <1>3 DEF Left, Gone
<1>5. ASSUME NEW r, Cardinality(AsNew(r)) >= MaxMessages
      PROVE  Cardinality(AsNew(r)') >= MaxMessages
  <2>1. AsNew(r) \subseteq AsNew(r)' /\ AsNew(r)' \subseteq working'.rows
    BY DEF AsNew
  <2>2. IsFiniteSet(AsNew(r)')
    BY <2>1, FS_Subset DEF Finite
  <2>3. /\ Cardinality(AsNew(r)) <= Cardinality(AsNew(r)')
        /\ Cardinality(AsNew(r)) \in Nat /\ Cardinality(AsNew(r)') \in Nat
    BY <2>1, <2>2, FS_Subset, FS_CardinalityType
  <2>4. QED BY <1>1, <1>5, <2>3
<1>6. \A r \in trim'.had : r.id <= working'.seq
  BY <1>1, <1>2
<1>7. trim'.at = "cap" => Expired'
  BY <1>4 DEF TrimInv, Trimmed, Expired
<1>8. trim'.at = "commit" => Capped'
  BY <1>4, <1>5 DEF TrimInv, Trimmed, Capped
<1>9. QED BY <1>6, <1>7, <1>8 DEF Trimmed

\* The cap deletes what is older than all it keeps, and only when it keeps as
\* many as it may.
LEMMA CapTrim ==
  ASSUME TypeInv, TrimInv, Finite', ~undone, CapMessages
  PROVE  Trimmed'
<1> USE TypeParts DEF TypeInv
<1>1. PICK kept \in Newest(working.rows) : working' = [working EXCEPT !.rows = kept]
  BY DEF CapMessages
<1>2. /\ working'.rows = kept /\ working'.seq = working.seq /\ kept \subseteq working.rows
      /\ Cardinality(kept) <= MaxMessages
      /\ kept = working.rows \/ Cardinality(kept) = MaxMessages
      /\ \A k \in kept, r \in working.rows \ kept : r.ts <= k.ts
  BY <1>1 DEF Newest, TableType, Tables
<1>3. /\ trim.at = "cap" /\ trim'.at = "commit" /\ trim'.had = trim.had
      /\ trim'.cutoff = trim.cutoff
  BY DEF CapMessages, TrimType
<1>4. /\ \A r \in trim.had : r.ts \in Int /\ r.id <= working.seq
      /\ trim.cutoff \in Int /\ MaxMessages \in Nat
  BY SizeAssumption, TrimTimes DEF TrimInv, Trimmed
<1>5. Left' = Left \cap kept /\ Gone' = Gone \cup (trim.had \cap (working.rows \ kept))
  BY <1>2, <1>3 DEF Left, Gone
<1>6. Expired
  BY <1>3 DEF TrimInv, Trimmed
<1>7. Cardinality(Left') <= MaxMessages
  <2>1. IsFiniteSet(kept)
    BY <1>2 DEF Finite
  <2>2. /\ Cardinality(Left') <= Cardinality(kept) /\ Cardinality(Left') \in Nat
        /\ Cardinality(kept) \in Nat
    BY <1>5, <2>1, FS_Subset, FS_CardinalityType
  <2>3. QED BY <1>2, <1>4, <2>2
<1>8. ASSUME NEW k \in Left'
      PROVE  k.ts >= trim'.cutoff /\ \A r \in Gone' : r.ts <= k.ts
  <2>1. k \in Left /\ k \in kept /\ k \in trim.had
    BY <1>5 DEF Left
  <2>2. k.ts >= trim.cutoff
    BY <1>6, <2>1 DEF Expired
  <2>3. ASSUME NEW r \in Gone PROVE r.ts <= k.ts
    <3>1. r.ts < trim.cutoff /\ r \in trim.had
      BY <1>6 DEF Expired, Gone
    <3>2. QED BY <1>4, <2>1, <2>2, <3>1
  <2>4. \A r \in trim.had \cap (working.rows \ kept) : r.ts <= k.ts
    BY <1>2, <2>1
  <2>5. QED BY <1>3, <1>5, <2>2, <2>3, <2>4
<1>9. ASSUME NEW r \in Gone'
      PROVE  r.ts < trim'.cutoff \/ Cardinality(AsNew(r)') >= MaxMessages
  <2>1. CASE r \in Gone
    BY <1>3, <1>6, <2>1 DEF Expired
  <2>2. CASE r \in trim.had /\ r \in working.rows \ kept
    <3>1. \A k \in kept : k.ts >= r.ts
      <4>1. \A k \in kept : r.ts <= k.ts
        BY <1>2, <2>2
      <4>2. \A k \in kept : k.ts \in Int
        BY <1>2, TimeAssumption DEF TableType, Tables, Rows
      <4>3. QED BY <1>4, <2>2, <4>1, <4>2
    <3>2. AsNew(r)' = kept
      BY <1>2, <3>1 DEF AsNew
    <3>3. Cardinality(kept) = MaxMessages
      BY <1>2, <2>2
    <3>4. QED BY <1>4, <3>2, <3>3
  <2>3. QED BY <1>5, <2>1, <2>2
<1>10. Capped'
  BY <1>7, <1>8, <1>9 DEF Capped
<1>11. QED BY <1>2, <1>3, <1>4, <1>10 DEF Trimmed

LEMMA TrimStep == TypeInv /\ ScreenInv /\ TrimInv /\ [Next]_vars => TrimInv'
<1> SUFFICES ASSUME TypeInv, ScreenInv, TrimInv, [Next]_vars
             PROVE  TrimInv'
  OBVIOUS
<1> USE TypeParts DEF TypeInv
<1>0. Finite'
  BY FiniteStep DEF TrimInv
<1>1. undone \in BOOLEAN
  BY DEF HistoryType
<1>2. ASSUME trim' = trim, working' = working, undone' = undone
      PROVE  TrimInv'
  BY <1>0, <1>2 DEF TrimInv, Trimmed, Expired, Capped, Left, Gone, AsNew
\* The trim is over.
<1>3. ASSUME trim' = Parked
      PROVE  TrimInv'
  BY <1>0, <1>3 DEF TrimInv, Trimmed, Parked
<1>4. ASSUME NEW mid \in MessageIds \cup {NoId}, NEW ts \in Times, InsertMessage(mid, ts)
      PROVE  TrimInv'
  <2>1. trim' = trim /\ undone' = undone
    BY <1>4 DEF InsertMessage
  <2>2. CASE working' = working
    BY <1>2, <2>1, <2>2
  <2>3. CASE /\ working'.rows = working.rows \cup {NewRow(mid, ts)}
             /\ working'.seq = working.seq + 1
    BY <1>0, <2>1, <2>3, InsertTrim DEF TrimInv
  <2>4. QED BY <1>4, <2>2, <2>3, InsertMessageEffect
<1>5. CASE ExpireMessages
  <2>1. /\ working'.rows = {r \in working.rows : r.ts >= trim.cutoff}
        /\ working'.seq = working.seq
        /\ trim'.at = "cap" /\ trim'.had = working.rows /\ trim'.cutoff = trim.cutoff
    BY <1>5 DEF ExpireMessages, TableType, Tables, TrimType
  <2>2. \A r \in working.rows : r.id <= working.seq /\ r.ts \in Int
    BY TimeAssumption DEF ScreenInv, RowsDrawn, TableType, Tables, Rows
  <2>3. trim.cutoff \in Int
    BY TrimTimes
  <2>4. \A r \in working.rows \ working'.rows : r.ts < trim.cutoff
    BY <2>1, <2>2, <2>3
  <2>5. Expired'
    BY <2>1, <2>4 DEF Expired, Left, Gone
  <2>6. Trimmed'
    BY <2>1, <2>2, <2>5 DEF Trimmed
  <2>7. QED BY <1>0, <2>6 DEF TrimInv
<1>6. CASE CapMessages
  <2>1. undone' = undone
    BY <1>6 DEF CapMessages
  <2>2. QED BY <1>0, <1>6, <2>1, CapTrim DEF TrimInv
<1>7. CASE CommitMessage \/ CommitOther
  BY <1>2, <1>7 DEF CommitMessage, CommitOther, Commit
<1>8. CASE CommitTrim
  BY <1>3, <1>8 DEF CommitTrim
<1>9. CASE WriteFails
  <2>1. trim' = trim
    BY <1>9 DEF WriteFails
  <2>2. CASE working' = working /\ undone' = undone
    BY <1>2, <2>1, <2>2
  <2>3. CASE working' = durable /\ undone' = (undone \/ working # durable)
    <3>1. CASE working = durable
      BY <1>1, <1>2, <2>1, <2>3, <3>1
    <3>2. CASE working # durable
      BY <1>0, <2>3, <3>2 DEF TrimInv
    <3>3. QED BY <3>1, <3>2
  <2>4. QED BY <1>9, <2>2, <2>3 DEF WriteFails, Rollback
<1>10. CASE TrimFails \/ Restart
  BY <1>3, <1>10 DEF TrimFails, Restart
<1>11. CASE DeliverMessage \/ UNCHANGED vars
  BY <1>2, <1>11 DEF DeliverMessage, Deliver, vars
<1>12. ASSUME NEW t \in Times, StartTrim(t)
       PROVE  TrimInv'
  <2>1. /\ trim' = [trim EXCEPT !.at = "expire", !.cutoff = t]
        /\ working' = working /\ undone' = undone
    BY <1>12 DEF StartTrim
  <2>2. trim'.at = "expire" /\ trim'.had = trim.had
    BY <2>1 DEF TrimType
  <2>3. QED BY <1>0, <2>1, <2>2 DEF TrimInv, Trimmed
<1>13. QED
  BY <1>4, <1>5, <1>6, <1>7, <1>8, <1>9, <1>10, <1>11, <1>12
     DEF Next, Dispatcher, Trimmer

\* A trim that commits has kept the newest of the rows it had when it began,
\* and deleted no more of them than it had to, although the dispatcher inserts
\* between its statements: what is inserted meanwhile has a higher id, and only
\* adds to the rows as new as another.
THEOREM TrimLeavesTheNewest == Spec => []TrimKeepsNewest
<1>1. Init => TypeInv /\ ScreenInv
  <2>1. Init => Ordered
    BY DEF Init, Ordered, Empty
  <2>2. Init => ScreenInv
    BY DEF Init, ScreenInv, RowsDrawn, JobDrawn, ShownSurvives, Empty, Idle
  <2>3. QED BY <2>1, <2>2, InitType DEF TypeInv
<1>2. Init => TrimInv
  BY FS_EmptySet DEF Init, TrimInv, Finite, Trimmed, Empty, Parked
<1>3. TrimInv => TrimKeepsNewest
  BY DEF TrimInv, Trimmed, Capped, Left, Gone, AsNew, TrimKeepsNewest
<1>4. QED BY <1>1, <1>2, <1>3, TypeStep, ScreenStep, TrimStep, PTL DEF Spec

-----------------------------------------------------------------------------
(* A packet id on the screen twice.                                        *)

\* Pushing keeps the order of what stays and puts the new element last.
LEMMA PushKeeps ==
  ASSUME NEW T, NEW s \in Seq(T), NEW x \in T, NEW n \in Nat \ {0}, Len(s) <= n
  PROVE  LET p == Push(s, x, n)
         IN \E off \in {0, 1} : \A i \in DOMAIN p :
              \/ i = Len(p) /\ p[i] = x
              \/ i < Len(p) /\ i + off \in DOMAIN s /\ p[i] = s[i + off]
<1>1. CASE Len(s) < n
  <2>1. \A i \in DOMAIN Append(s, x) :
          \/ i = Len(Append(s, x)) /\ Append(s, x)[i] = x
          \/ i < Len(Append(s, x)) /\ i + 0 \in DOMAIN s /\ Append(s, x)[i] = s[i + 0]
    OBVIOUS
  <2>2. QED BY <1>1, <2>1 DEF Push
<1>2. CASE ~(Len(s) < n)
  <2>1. s # <<>> /\ Tail(s) \in Seq(T) /\ Len(Tail(s)) = Len(s) - 1
        /\ \A i \in 1..Len(s) - 1 : i + 1 \in DOMAIN s /\ Tail(s)[i] = s[i + 1]
    BY <1>2
  <2>2. \A i \in DOMAIN Append(Tail(s), x) :
          \/ i = Len(Append(Tail(s), x)) /\ Append(Tail(s), x)[i] = x
          \/ /\ i < Len(Append(Tail(s), x)) /\ i + 1 \in DOMAIN s
             /\ Append(Tail(s), x)[i] = s[i + 1]
    <3> DEFINE t == Tail(s)
    <3>1. t \in Seq(T) /\ Len(t) = Len(s) - 1
      BY <2>1
    <3>2. \A i \in 1..Len(t) : i + 1 \in DOMAIN s /\ t[i] = s[i + 1]
      BY <2>1
    <3> HIDE DEF t
    <3>3. \A i \in DOMAIN Append(t, x) :
            \/ i = Len(Append(t, x)) /\ Append(t, x)[i] = x
            \/ i < Len(Append(t, x)) /\ i \in 1..Len(t) /\ Append(t, x)[i] = t[i]
      BY <3>1
    <3>4. QED BY <3>2, <3>3 DEF t
  <2>3. QED BY <1>2, <2>2 DEF Push
<1>3. QED BY <1>1, <1>2

\* No row is loaded twice.
LEMMA WarmDistinct ==
  ASSUME NEW rows, NEW n \in Nat, NEW s \in Warm(rows, n)
  PROVE  \A i, j \in DOMAIN s : s[i] = s[j] => i = j
<1> DEFINE loaded == {s[i] : i \in DOMAIN s}
<1>1. PICK k \in 0..n : s \in [1..k -> rows]
  BY DEF Warm
<1>2. s \in Seq(rows) /\ Len(s) = k /\ DOMAIN s = 1..k
  BY <1>1
<1>3. Cardinality(loaded) = k
  BY <1>2 DEF Warm
<1>4. s \in [1..k -> loaded] /\ \A y \in loaded : \E i \in 1..k : s[i] = y
  BY <1>1, <1>2
<1>5. s \in Surjection(1..k, loaded)
  BY <1>4 DEF Surjection
<1>6. IsFiniteSet(1..k) /\ Cardinality(1..k) = k
  BY <1>1, FS_Interval
<1> HIDE DEF loaded
<1>7. s \in Injection(1..k, loaded)
  BY <1>3, <1>5, <1>6, FS_Surjection
<1>8. QED BY <1>2, <1>7 DEF Injection, IsInjective

\* Ids are those of the counter, so no two rows of a table share one.
IdsDistinct ==
  \A t \in {working, durable} : \A r, s \in t.rows : r.id = s.id => r = s

\* A cached row has been drawn, and a row with its id is that row.
Drawn(row) ==
  /\ row.id <= working.seq
  /\ \A r \in working.rows : r.id = row.id => r = row

CacheDrawn == \A i \in DOMAIN cache : Drawn(cache[i])

\* A message about to be shown is on the screen already only as one whose row
\* the trim has deleted.
FreshJob == job.at \in {"inserted", "committed"} /\ job.fresh
JobOnce ==
  FreshJob =>
    /\ Drawn(job.row)
    /\ job.row.mid # NoId => \A i \in DOMAIN cache :
         cache[i].mid = job.row.mid => cache[i].id \notin IdsOf(working.rows)

OnceInv == IdsDistinct /\ (~undone => CacheDrawn /\ JobOnce) /\ OnceUnlessTrimmed

LEMMA IdsStep == TypeInv /\ ScreenInv /\ IdsDistinct /\ [Next]_vars => IdsDistinct'
<1> SUFFICES ASSUME TypeInv, ScreenInv, IdsDistinct, [Next]_vars
             PROVE  IdsDistinct'
  OBVIOUS
<1> USE TypeParts DEF TypeInv, TableType, Tables
<1>1. ASSUME NEW mid \in MessageIds \cup {NoId}, NEW ts \in Times, InsertMessage(mid, ts)
      PROVE  IdsDistinct'
  <2>1. CASE working' = working
    BY <1>1, <2>1, InsertMessageEffect DEF IdsDistinct
  <2>2. CASE working'.rows = working.rows \cup {NewRow(mid, ts)}
    <3>1. NewRow(mid, ts).id = working.seq + 1 /\ durable' = durable
      BY <1>1, InsertMessageEffect DEF NewRow
    <3>2. \A r \in working.rows : r.id # working.seq + 1
      BY SizeAssumption DEF ScreenInv, RowsDrawn, Rows
    <3>3. ASSUME NEW r \in working'.rows, NEW q \in working'.rows, r.id = q.id
          PROVE  r = q
      BY <2>2, <3>1, <3>2, <3>3 DEF IdsDistinct
    <3>4. QED BY <3>1, <3>3 DEF IdsDistinct
  <2>3. QED BY <1>1, <2>1, <2>2, InsertMessageEffect
<1>2. CASE working'.rows \subseteq working.rows /\ durable' = durable
  BY <1>2 DEF IdsDistinct
<1>3. CASE working' \in {working, durable} /\ durable' \in {working, durable}
  BY <1>3 DEF IdsDistinct
<1>4. CASE ExpireMessages
  BY <1>2, <1>4 DEF ExpireMessages
<1>5. CASE CapMessages
  <2>1. PICK kept \in Newest(working.rows) : working' = [working EXCEPT !.rows = kept]
    BY <1>5 DEF CapMessages
  <2>2. QED BY <1>2, <1>5, <2>1, NewestType DEF CapMessages
<1>6. CASE CommitMessage \/ CommitOther \/ CommitTrim
  BY <1>3, <1>6 DEF CommitMessage, CommitOther, CommitTrim, Commit
<1>7. CASE WriteFails \/ TrimFails \/ Restart
  BY <1>3, <1>7 DEF WriteFails, TrimFails, Rollback, Restart
<1>8. CASE DeliverMessage \/ UNCHANGED vars
  BY <1>3, <1>8 DEF DeliverMessage, Deliver, vars
<1>9. ASSUME NEW t \in Times, StartTrim(t)
      PROVE  IdsDistinct'
  BY <1>3, <1>9 DEF StartTrim
<1>10. QED
  BY <1>1, <1>4, <1>5, <1>6, <1>7, <1>8, <1>9 DEF Next, Dispatcher, Trimmer

\* A step that adds no row and leaves the counter and the screen alone.
LEMMA ShrinkOnce ==
  ASSUME TypeInv, OnceInv, IdsDistinct',
         working'.rows \subseteq working.rows, working'.seq = working.seq,
         cache' = cache, undone' = undone,
         FreshJob' => FreshJob /\ job'.row = job.row
  PROVE  OnceInv'
<1>1. \A row : Drawn(row) => /\ row.id <= working'.seq
                             /\ \A r \in working'.rows : r.id = row.id => r = row
  BY DEF Drawn
<1>2. IdsOf(working'.rows) \subseteq IdsOf(working.rows)
  BY DEF IdsOf
<1>3. ~undone' => CacheDrawn'
  BY <1>1 DEF OnceInv, CacheDrawn, Drawn
<1>4. ~undone' => JobOnce'
  <2>1. CASE FreshJob'
    <3>1. FreshJob /\ job'.row = job.row
      BY <2>1
    <3>2. QED BY <1>1, <1>2, <3>1 DEF OnceInv, JobOnce, Drawn
  <2>2. CASE ~FreshJob'
    BY <2>2 DEF JobOnce
  <2>3. QED BY <2>1, <2>2
<1>5. OnceUnlessTrimmed'
  BY <1>2 DEF OnceInv, OnceUnlessTrimmed
<1>6. QED BY <1>3, <1>4, <1>5 DEF OnceInv

\* A new row has an id no cached row has; where its packet id was on screen,
\* that row is gone from the table.
LEMMA InsertOnce ==
  ASSUME TypeInv, ScreenInv, OnceInv, IdsDistinct',
         NEW mid \in MessageIds \cup {NoId}, NEW ts \in Times, InsertMessage(mid, ts)
  PROVE  OnceInv'
<1> USE TypeParts DEF TypeInv, TableType, Tables
<1>1. cache' = cache /\ undone' = undone /\ job'.at = "inserted"
  BY InsertMessageEffect DEF InsertMessage
<1>2. CASE working' = working /\ job'.fresh = FALSE
  BY <1>1, <1>2, ShrinkOnce DEF FreshJob
<1>3. CASE /\ ~Taken(working.rows, mid)
           /\ working'.rows = working.rows \cup {NewRow(mid, ts)}
           /\ working'.seq = working.seq + 1
           /\ job'.row = NewRow(mid, ts)
  <2>1. NewRow(mid, ts).id = working.seq + 1 /\ NewRow(mid, ts).mid = mid
    BY DEF NewRow
  <2>2. CASE undone
    BY <1>1, <2>2 DEF OnceInv, OnceUnlessTrimmed
  <2>3. CASE ~undone
    <3>1. /\ working.seq \in Nat
          /\ \A r \in working.rows : r.id \in Nat /\ r.id <= working.seq
      BY SizeAssumption DEF Rows, ScreenInv, RowsDrawn
    <3>2. \A i \in DOMAIN cache : cache[i].id \in Nat /\ cache[i].id <= working.seq
      <4>1. \A i \in DOMAIN cache : cache[i] \in Rows
        BY DEF CacheType
      <4>2. QED BY <2>3, <4>1 DEF Rows, OnceInv, CacheDrawn, Drawn
    <3>3. \A i \in DOMAIN cache : cache[i].id # working.seq + 1
      BY <3>1, <3>2
    <3>4. ASSUME NEW i \in DOMAIN cache, cache[i].id \in IdsOf(working'.rows)
          PROVE  cache[i] \in working.rows
      <4>1. PICK r \in working.rows : r.id = cache[i].id
        BY <1>3, <2>1, <3>3, <3>4 DEF IdsOf
      <4>2. r = cache[i]
        BY <2>3, <4>1 DEF OnceInv, CacheDrawn, Drawn
      <4>3. QED BY <4>1, <4>2
    <3>5. CacheDrawn'
      BY <1>1, <1>3, <2>1, <2>3, <3>1, <3>2, <3>3 DEF OnceInv, CacheDrawn, Drawn
    <3>6. JobOnce'
      <4>1. Drawn(job.row)'
        <5>1. \A r \in working.rows : r.id # working.seq + 1
          BY <3>1
        <5>2. job'.row.id <= working'.seq
          BY <1>3, <2>1, <3>1
        <5>3. QED BY <1>3, <2>1, <5>1, <5>2 DEF Drawn
      <4>2. ASSUME NEW i \in DOMAIN cache, mid # NoId, cache[i].mid = mid
            PROVE  cache[i].id \notin IdsOf(working'.rows)
        BY <1>3, <3>4, <4>2 DEF Taken
      <4>3. QED BY <1>1, <1>3, <2>1, <4>1, <4>2 DEF JobOnce
    <3>7. OnceUnlessTrimmed'
      <4>1. \A i \in DOMAIN cache : cache[i].id \in IdsOf(working'.rows) =>
              cache[i].id \in IdsOf(working.rows)
        BY <3>4 DEF IdsOf
      <4>2. QED BY <1>1, <4>1, <2>3 DEF OnceInv, OnceUnlessTrimmed
    <3>8. QED BY <3>5, <3>6, <3>7 DEF OnceInv
  <2>4. QED BY <2>2, <2>3
<1>4. QED BY <1>2, <1>3, InsertMessageEffect

\* The row that goes on screen comes last there.
LEMMA DeliverOnce ==
  ASSUME TypeInv, OnceInv, IdsDistinct', DeliverMessage
  PROVE  OnceInv'
<1> USE TypeParts DEF TypeInv
<1>1. working' = working /\ undone' = undone /\ ~FreshJob'
  BY DEF DeliverMessage, Deliver, Idle, FreshJob
<1>2. CASE ~job.fresh
  <2>1. cache' = cache
    BY <1>2 DEF DeliverMessage, Deliver
  <2>2. QED BY <1>1, <2>1, ShrinkOnce
<1>3. CASE job.fresh
  <2>1. job.at = "committed" /\ cache' = Push(cache, job.row, CacheMax)
    BY <1>3 DEF DeliverMessage, Deliver
  <2>2. FreshJob /\ job.row \in Rows
    BY <1>3, <2>1, MessageJob DEF FreshJob
  <2>3. PICK off \in {0, 1} : \A i \in DOMAIN cache' :
          \/ i = Len(cache') /\ cache'[i] = job.row
          \/ i < Len(cache') /\ i + off \in DOMAIN cache /\ cache'[i] = cache[i + off]
    BY <2>1, <2>2, PushKeeps, SizeAssumption DEF CacheType
  <2>4. DOMAIN cache' \subseteq Nat /\ DOMAIN cache = 1..Len(cache)
        /\ \A i \in DOMAIN cache' : i <= Len(cache')
    <3>1. cache' \in Seq(Rows) /\ cache \in Seq(Rows)
      BY <2>1, <2>2, PushType, SizeAssumption DEF CacheType
    <3>2. QED BY <3>1
  <2>5. CASE undone
    BY <1>1, <2>5 DEF OnceInv, OnceUnlessTrimmed
  <2>6. CASE ~undone
    <3>1. CacheDrawn'
      BY <1>1, <2>2, <2>3, <2>6 DEF OnceInv, CacheDrawn, JobOnce, Drawn
    <3>2. ASSUME NEW i \in DOMAIN cache', NEW j \in DOMAIN cache',
                 i < j, cache'[i].mid = cache'[j].mid, cache'[i].mid # NoId
          PROVE  cache'[i].id \notin IdsOf(working.rows)
      <4>0. /\ i \in Nat /\ j \in Nat /\ j <= Len(cache') /\ Len(cache') \in Nat
        BY <2>1, <2>2, <2>4, PushType, SizeAssumption DEF CacheType
      <4>1. i + off \in DOMAIN cache /\ cache'[i] = cache[i + off]
        BY <2>3, <3>2, <4>0
      <4>2. CASE j = Len(cache') /\ cache'[j] = job.row
        BY <2>2, <2>6, <3>2, <4>1, <4>2 DEF OnceInv, JobOnce
      <4>3. CASE j + off \in DOMAIN cache /\ cache'[j] = cache[j + off]
        <5>1. i + off < j + off
          BY <3>2, <4>0
        <5>2. QED BY <2>6, <3>2, <4>1, <4>3, <5>1 DEF OnceInv, OnceUnlessTrimmed
      <4>4. QED BY <2>3, <4>2, <4>3
    <3>3. OnceUnlessTrimmed'
      BY <1>1, <3>2 DEF OnceUnlessTrimmed
    <3>4. QED BY <1>1, <3>1, <3>3 DEF OnceInv, JobOnce
  <2>7. QED BY <2>5, <2>6
<1>4. QED BY <1>2, <1>3

\* What a restart loads are different rows of one table.
LEMMA RestartOnce ==
  ASSUME TypeInv, ScreenInv, NoIdTwice, OnceInv, IdsDistinct', Restart
  PROVE  OnceInv'
<1> USE TypeParts DEF TypeInv
<1>1. working' = durable /\ durable' = durable /\ ~FreshJob'
      /\ cache' \in Warm(durable.rows, CacheMax)
  BY DEF Restart, Idle, FreshJob
<1>2. durable.rows \in SUBSET Rows /\ CacheMax \in Nat
  BY SizeAssumption DEF TableType, Tables
<1>3. \A i \in DOMAIN cache' : cache'[i] \in durable.rows
  BY <1>1, <1>2, WarmType
<1>4. CacheDrawn'
  BY <1>1, <1>3 DEF CacheDrawn, Drawn, ScreenInv, RowsDrawn, OnceInv, IdsDistinct
<1>5. OnceUnlessTrimmed'
  <2>1. ASSUME NEW i \in DOMAIN cache', NEW j \in DOMAIN cache', i < j,
               cache'[i].mid = cache'[j].mid, cache'[i].mid # NoId
        PROVE  FALSE
    <3>1. cache'[i] = cache'[j]
      BY <1>3, <2>1 DEF NoIdTwice
    <3>2. i = j
      BY <1>1, <1>2, <3>1, WarmDistinct
    <3>3. i \in Int
      <4>1. cache' \in Seq(Rows)
        BY <1>1, <1>2, WarmType
      <4>2. QED BY <4>1
    <3>4. QED BY <2>1, <3>2, <3>3
  <2>2. QED BY <2>1 DEF OnceUnlessTrimmed
<1>6. QED BY <1>1, <1>4, <1>5 DEF OnceInv, JobOnce

LEMMA OnceStep == TypeInv /\ ScreenInv /\ NoIdTwice /\ OnceInv /\ [Next]_vars => OnceInv'
<1> SUFFICES ASSUME TypeInv, ScreenInv, NoIdTwice, OnceInv, [Next]_vars
             PROVE  OnceInv'
  OBVIOUS
<1> USE TypeParts DEF TypeInv
<1>0. IdsDistinct'
  BY IdsStep DEF OnceInv
<1>1. /\ working \in Tables /\ undone \in BOOLEAN
  BY DEF TableType, HistoryType
<1>2. ASSUME working'.rows \subseteq working.rows, working'.seq = working.seq,
             cache' = cache, undone' = undone, job' = job \/ job' = Idle
      PROVE  OnceInv'
  <2>1. FreshJob' => FreshJob /\ job'.row = job.row
    BY <1>2 DEF FreshJob, Idle
  <2>2. QED BY <1>0, <1>2, <2>1, ShrinkOnce
\* A failed statement: nothing is undone, or the transaction is.
<1>3. ASSUME Rollback, cache' = cache, job' = job \/ job' = Idle
      PROVE  OnceInv'
  <2>1. CASE working' = working /\ undone' = undone
    BY <1>2, <1>3, <2>1
  <2>2. CASE working' = durable /\ undone' = (undone \/ working # durable)
    <3>1. CASE working = durable
      BY <1>1, <1>2, <1>3, <2>2, <3>1
    <3>2. CASE working # durable
      BY <1>0, <2>2, <3>2 DEF OnceInv, OnceUnlessTrimmed
    <3>3. QED BY <3>1, <3>2
  <2>3. QED BY <1>3, <2>1, <2>2 DEF Rollback
<1>4. ASSUME NEW mid \in MessageIds \cup {NoId}, NEW ts \in Times, InsertMessage(mid, ts)
      PROVE  OnceInv'
  BY <1>0, <1>4, InsertOnce
<1>5. CASE CommitMessage
  <2>1. /\ job' = Message("committed", job.row, job.fresh) /\ job.at = "inserted"
        /\ working' = working /\ cache' = cache /\ undone' = undone
    BY <1>5, MessageJob DEF CommitMessage, Commit, Message
  <2>2. FreshJob' => FreshJob /\ job'.row = job.row
    BY <2>1 DEF FreshJob, Message
  <2>3. QED BY <1>0, <2>1, <2>2, ShrinkOnce
<1>6. CASE ExpireMessages
  <2>1. working' = [working EXCEPT !.rows = {r \in @ : r.ts >= trim.cutoff}]
    BY <1>6 DEF ExpireMessages
  <2>2. working'.rows \subseteq working.rows /\ working'.seq = working.seq
    BY <1>1, <2>1 DEF Tables
  <2>3. QED BY <1>2, <1>6, <2>2 DEF ExpireMessages
<1>7. CASE CapMessages
  <2>1. PICK kept \in Newest(working.rows) : working' = [working EXCEPT !.rows = kept]
    BY <1>7 DEF CapMessages
  <2>2. working'.rows \subseteq working.rows /\ working'.seq = working.seq
    BY <1>1, <2>1, NewestType DEF Tables
  <2>3. QED BY <1>2, <1>7, <2>2 DEF CapMessages
<1>8. CASE CommitOther \/ CommitTrim
  BY <1>2, <1>8 DEF CommitOther, CommitTrim, Commit
<1>9. CASE WriteFails \/ TrimFails
  BY <1>3, <1>9 DEF WriteFails, TrimFails
<1>10. CASE DeliverMessage
  BY <1>0, <1>10, DeliverOnce
<1>11. CASE Restart
  BY <1>0, <1>11, RestartOnce
<1>12. CASE UNCHANGED vars
  BY <1>2, <1>12 DEF vars
<1>13. ASSUME NEW t \in Times, StartTrim(t)
       PROVE  OnceInv'
  BY <1>2, <1>13 DEF StartTrim
<1>14. QED
  BY <1>4, <1>5, <1>6, <1>7, <1>8, <1>9, <1>10, <1>11, <1>12, <1>13
     DEF Next, Dispatcher, Trimmer

\* The screen shows a packet id twice only where the trim has deleted the row a
\* duplicate is recognised by, through every interleaving of deliveries, trims
\* and restarts; a rolled back transaction is the one other way.
THEOREM TwiceOnlyAfterATrim == Spec => []OnceUnlessTrimmed
<1>1. Init => TypeInv /\ ScreenInv /\ NoIdTwice
  <2>1. Init => Ordered /\ NoIdTwice
    BY DEF Init, Ordered, NoIdTwice, Empty
  <2>2. Init => ScreenInv
    BY DEF Init, ScreenInv, RowsDrawn, JobDrawn, ShownSurvives, Empty, Idle
  <2>3. QED BY <2>1, <2>2, InitType DEF TypeInv
<1>2. Init => OnceInv
  BY DEF Init, OnceInv, IdsDistinct, CacheDrawn, JobOnce, FreshJob, OnceUnlessTrimmed, Empty, Idle
<1>3. OnceInv => OnceUnlessTrimmed
  BY DEF OnceInv
<1>4. QED BY <1>1, <1>2, <1>3, TypeStep, ScreenStep, NoIdTwiceStep, OnceStep, PTL DEF Spec
=============================================================================
