----------------------------- MODULE MessageLog -----------------------------
(***************************************************************************)
(* What the message store promises, without connection, transactions,      *)
(* cache or dispatcher: a durable log of messages.  The log only grows at  *)
(* its end, retention only forgets, what is forgotten never comes back,    *)
(* no packet id is recorded twice, and a browser is shown recorded         *)
(* messages only, until a failure has cost the store a transaction.        *)
(* MessageStore implements this.                                           *)
(***************************************************************************)
EXTENDS Integers

CONSTANT NoId   \* the message carries no packet id

VARIABLES
  rows,    \* the recorded messages
  last,    \* the highest row id there has been
  shown,   \* the row ids a browser has been shown
  undone   \* a failure has rolled a transaction back

vars == <<rows, last, shown, undone>>

Init == rows = {} /\ last = 0 /\ shown = {} /\ undone = FALSE

\* Messages are recorded, forgotten, or both.
Record ==
  /\ last' >= last
  /\ {r \in rows' : r.id <= last} \subseteq rows
  /\ \A r \in rows' : r.id <= last'
  /\ \A r, s \in rows' : r.mid = s.mid /\ r.mid # NoId => r = s
  /\ UNCHANGED <<shown, undone>>

Show ==
  /\ shown \subseteq shown'
  /\ undone \/ \A i \in shown' : i <= last
  /\ UNCHANGED <<rows, last, undone>>

Lose == undone' = TRUE /\ UNCHANGED <<rows, last, shown>>

Next == Record \/ Show \/ Lose

Spec == Init /\ [][Next]_vars
=============================================================================
