---------------------------- MODULE MessageStore ----------------------------
(***************************************************************************)
(* Messages in app/core/mesh/store.py: the table, the cache the dashboard  *)
(* reads, and the retention trim.                                          *)
(*                                                                         *)
(* Two tasks write over one aiosqlite connection: the dispatcher, one      *)
(* event at a time, and the hourly trimmer.  Each statement and each       *)
(* commit is a suspension, so the two interleave inside one and the same   *)
(* SQLite transaction, and either's commit makes the other's statements    *)
(* durable.  `working` is what that connection sees, `durable` what a      *)
(* crash leaves behind.                                                    *)
(***************************************************************************)
EXTENDS Integers, Sequences, FiniteSets

CONSTANTS
  MessageIds,   \* packet ids; the dedupe key of a message
  NoId,         \* the message carries no packet id
  Times,        \* timestamps, as the sender or the radio reported them
  CacheMax,     \* MeshStore._messages: deque(maxlen=500)
  MaxMessages,  \* mesh.max_messages
  RowCap        \* bound: message rows in the life of the table

ASSUME IdAssumption == NoId \notin MessageIds
ASSUME TimeAssumption == Times \subseteq Int
ASSUME SizeAssumption ==
  /\ CacheMax \in Nat \ {0}
  /\ MaxMessages \in Nat /\ RowCap \in Nat

VARIABLES
  working,   \* the tables as the connection sees them
  durable,   \* the tables as of the last commit
  cache,     \* MeshStore._messages
  job,       \* the event the dispatcher is writing, and how far it has got
  trim,      \* the trimmer: its next statement, its cutoff and, as history, the
             \* rows it had when it began to delete
  shown,     \* history: rows fanned out to the browsers or loaded at a start
  undone     \* history: a failure has rolled the shared transaction back

vars == <<working, durable, cache, job, trim, shown, undone>>

Rows    == [id : 1..RowCap, mid : MessageIds \cup {NoId}, ts : Times]
Tables  == [rows : SUBSET Rows, seq : 0..RowCap]

Empty == [rows |-> {}, seq |-> 0]
Idle  == [at |-> "idle"]
Message(at, row, fresh) == [at |-> at, row |-> row, fresh |-> fresh]
Parked == [at |-> "parked", cutoff |-> 0, had |-> {}]

IdsOf(rows) == {r.id : r \in rows}

TypeOK ==
  /\ working \in Tables /\ durable \in Tables
  /\ cache \in Seq(Rows) /\ Len(cache) <= CacheMax
  /\ job \in {Idle} \cup [at : {"inserted", "committed"}, row : Rows, fresh : BOOLEAN]
  /\ trim \in [at : {"parked", "expire", "cap", "commit"},
               cutoff : Times \cup {0}, had : SUBSET Rows]
  /\ shown \subseteq 1..RowCap
  /\ undone \in BOOLEAN

Init ==
  /\ working = Empty /\ durable = Empty
  /\ cache = <<>>
  /\ job = Idle /\ trim = Parked
  /\ shown = {} /\ undone = FALSE

-----------------------------------------------------------------------------
(* deque(maxlen = n): appending to a full one forgets the oldest.          *)
WrongPush(s, x, n) == Append(s, x)
Push(s, x, n) == IF Len(s) < n THEN Append(s, x) ELSE Append(Tail(s), x)

(* record_message.                                                         *)

\* The unique index covers rows that carry a packet id.
WrongTaken(rows, mid) == FALSE
Taken(rows, mid) == mid # NoId /\ \E r \in rows : r.mid = mid

\* AUTOINCREMENT: the id of a deleted row is never handed out again.
WrongNextId(t) ==    \* without it, one more than the highest id there is
  CHOOSE i \in 1..RowCap + 1 :
    /\ \A j \in IdsOf(t.rows) : j < i
    /\ i = 1 \/ i - 1 \in IdsOf(t.rows)
NextId(t) == t.seq + 1

\* INSERT OR IGNORE: a row with a fresh AUTOINCREMENT id, or nothing.
InsertMessage(mid, ts) ==
  /\ job = Idle
  /\ IF Taken(working.rows, mid)
     THEN LET first == CHOOSE r \in working.rows : r.mid = mid
          IN job' = Message("inserted", first, FALSE) /\ UNCHANGED working
     ELSE LET row == [id |-> NextId(working), mid |-> mid, ts |-> ts]
          IN /\ working.seq < RowCap
             /\ job' = Message("inserted", row, TRUE)
             /\ working' = [working EXCEPT !.rows = @ \cup {row}, !.seq = @ + 1]
  /\ UNCHANGED <<durable, cache, trim, shown, undone>>

\* A commit by whichever task: everything executed so far becomes durable.
Commit == durable' = working /\ UNCHANGED working

CommitMessage ==
  /\ job.at = "inserted"
  /\ Commit
  /\ job' = [job EXCEPT !.at = "committed"]
  /\ UNCHANGED <<cache, trim, shown, undone>>

\* The row was new: cache it and fan it out.  It was not: say nothing.
WrongDeliver(wanted) ==
  /\ job.at = wanted
  /\ cache' = Push(cache, job.row, CacheMax)
  /\ shown' = shown \cup {job.row.id}
  /\ job' = Idle
  /\ UNCHANGED <<working, durable, trim, undone>>
Deliver(wanted) ==
  /\ job.at = wanted
  /\ IF job.fresh
     THEN /\ cache' = Push(cache, job.row, CacheMax)
          /\ shown' = shown \cup {job.row.id}
     ELSE UNCHANGED <<cache, shown>>
  /\ job' = Idle
  /\ UNCHANGED <<working, durable, trim, undone>>

WrongDeliverMessage == Deliver("inserted")
DeliverMessage == Deliver("committed")

\* A node or a sample that the dispatcher writes commits as well.
CommitOther ==
  /\ job = Idle /\ working # durable
  /\ Commit
  /\ UNCHANGED <<cache, job, trim, shown, undone>>

-----------------------------------------------------------------------------
(* trim, started by _trim_loop.                                            *)

StartTrim(cutoff) ==
  /\ trim.at = "parked"
  /\ trim' = [trim EXCEPT !.at = "expire", !.cutoff = cutoff]
  /\ UNCHANGED <<working, durable, cache, job, shown, undone>>

ExpireMessages ==
  /\ trim.at = "expire"
  /\ working' = [working EXCEPT !.rows = {r \in @ : r.ts >= trim.cutoff}]
  /\ trim' = [trim EXCEPT !.at = "cap", !.had = working.rows]
  /\ UNCHANGED <<durable, cache, job, shown, undone>>

\* ORDER BY ts DESC LIMIT max_messages: ties may fall either way.
WrongNewest(rows) ==    \* ORDER BY ts LIMIT max_messages
  {kept \in SUBSET rows :
     /\ Cardinality(kept) <= MaxMessages
     /\ kept = rows \/ Cardinality(kept) = MaxMessages
     /\ \A k \in kept, r \in rows \ kept : k.ts <= r.ts}
Newest(rows) ==
  {kept \in SUBSET rows :
     /\ Cardinality(kept) <= MaxMessages
     /\ kept = rows \/ Cardinality(kept) = MaxMessages
     /\ \A k \in kept, r \in rows \ kept : r.ts <= k.ts}

CapMessages ==
  /\ trim.at = "cap"
  /\ \E kept \in Newest(working.rows) : working' = [working EXCEPT !.rows = kept]
  /\ trim' = [trim EXCEPT !.at = "commit"]
  /\ UNCHANGED <<durable, cache, job, shown, undone>>

\* The DELETE on the telemetry table comes before this and touches no message.
CommitTrim ==
  /\ trim.at = "commit"
  /\ Commit
  /\ trim' = Parked
  /\ UNCHANGED <<cache, job, shown, undone>>

-----------------------------------------------------------------------------
(* Failures.                                                               *)

\* A statement or a commit fails.  SQLite may or may not roll the shared
\* transaction back; the dispatcher logs and moves on to the next event, the
\* trimmer logs and sleeps until its next round.
Rollback ==
  \/ UNCHANGED <<working, undone>>
  \/ working' = durable /\ undone' = (undone \/ working # durable)

WriteFails ==
  /\ job # Idle
  /\ job.at # "committed"
  /\ Rollback
  /\ job' = Idle
  /\ UNCHANGED <<durable, cache, trim, shown>>

TrimFails ==
  /\ trim.at # "parked"
  /\ Rollback
  /\ trim' = Parked
  /\ UNCHANGED <<durable, cache, job, shown>>

\* What _warm_cache may load: the n newest rows, oldest first; rows with one
\* timestamp come in either order.
Warm(rows, n) ==
  {s \in UNION {[1..k -> rows] : k \in 0..n} :
     LET loaded == {s[i] : i \in DOMAIN s}
     IN /\ Cardinality(loaded) = Len(s)
        /\ loaded = rows \/ Len(s) = n
        /\ \A i, j \in DOMAIN s : i < j => s[i].ts <= s[j].ts
        /\ \A r \in rows \ loaded, i \in DOMAIN s : r.ts <= s[i].ts}

\* The process stops or crashes at any point, and starts again: what was not
\* committed is gone, and the cache is read back from the table.
Restart ==
  /\ working' = durable /\ UNCHANGED durable
  /\ cache'  \in Warm(durable.rows, CacheMax)
  /\ shown'  = shown \cup {cache'[i].id : i \in DOMAIN cache'}
  /\ job' = Idle /\ trim' = Parked
  /\ UNCHANGED undone

-----------------------------------------------------------------------------
Dispatcher ==
  \/ \E mid \in MessageIds \cup {NoId}, ts \in Times : InsertMessage(mid, ts)
  \/ CommitMessage \/ DeliverMessage \/ CommitOther

Trimmer ==
  \/ \E cutoff \in Times : StartTrim(cutoff)
  \/ ExpireMessages \/ CapMessages \/ CommitTrim

Next ==
  \/ Dispatcher \/ Trimmer
  \/ WriteFails \/ TrimFails
  \/ Restart

Spec == Init /\ [][Next]_vars

-----------------------------------------------------------------------------
(* Properties.                                                             *)

\* However deliveries, trims, failures and restarts interleave, no packet id is
\* on two rows, in the tables the connection sees and in what a crash leaves.
NoIdTwice ==
  \A t \in {working, durable} :
    \A r, s \in t.rows : r.mid = s.mid /\ r.mid # NoId => r = s

\* What a browser has been shown was committed: the screen never gets ahead of
\* the durable record, and only retention makes the two differ.  (Rows get ever
\* higher ids; one up to `seq` that is missing has been deleted by the trim.)
ShownSurvives == ~undone => \A i \in shown : i <= durable.seq

\* The screen shows a packet id twice only if the trimmer deleted the row whose
\* presence the duplicate is recognised by.
OnceUnlessTrimmed ==
  ~undone => \A i, j \in DOMAIN cache :
    i < j /\ cache[i].mid = cache[j].mid /\ cache[i].mid # NoId
      => cache[i].id \notin IdsOf(working.rows)

\* When a trim commits, the rows it had when it began are split by their
\* timestamps, whatever the dispatcher wrote and committed between the trim's
\* statements: at most max_messages of them are left, none older than the
\* cutoff and none older than one that is gone, and none is gone that was not
\* older than the cutoff or behind max_messages rows as new as itself.
TrimKeepsNewest ==
  trim.at = "commit" /\ ~undone =>
    LET left == trim.had \cap working.rows
        gone == trim.had \ working.rows
    IN /\ Cardinality(left) <= MaxMessages
       /\ \A k \in left : k.ts >= trim.cutoff /\ \A r \in gone : r.ts <= k.ts
       /\ \A r \in gone :
            \/ r.ts < trim.cutoff
            \/ Cardinality({k \in working.rows : k.ts >= r.ts}) >= MaxMessages

\* A message dropped as a duplicate delivery is already on screen.
DroppedWasShown ==
  job # Idle /\ job.at = "committed" /\ ~job.fresh => job.row.id \in shown

\* The store implements the log of MessageLog: whatever the two tasks commit for
\* each other, fail at or lose in a crash, the durable table only grows at its
\* end, a deleted row never comes back, no packet id is recorded twice, and a
\* browser is shown recorded rows only.
Log == INSTANCE MessageLog WITH rows <- durable.rows, last <- durable.seq
LogKept == Log!Spec
=============================================================================
