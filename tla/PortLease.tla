----------------------------- MODULE PortLease -----------------------------
(***************************************************************************)
(* What the registry promises of the ports its radios are on, without      *)
(* supervisors, adapters or link events: a port is on lease to one party   *)
(* at a time, only the party that has the lease ends it, and a shutdown    *)
(* takes over the leases of running sessions and ends when it has given    *)
(* them all back.  A lease that a cancelled open or close held, or that a  *)
(* worker thread takes after the shutdown began, is abandoned: nobody      *)
(* waits for it.  Supervision implements this.                             *)
(***************************************************************************)
CONSTANT Radios

VARIABLES
  holder,    \* holder[a]: who has the lease of radio a's port
  stopping,  \* the shutdown has begun
  ended      \* the shutdown has finished

vars == <<holder, stopping, ended>>

Holders == {"free", "session", "shutdown", "abandoned"}

Init ==
  /\ holder = [a \in Radios |-> "free"]
  /\ stopping = FALSE /\ ended = FALSE

Acquire(a) ==
  /\ holder[a] = "free"
  /\ holder' = [holder EXCEPT ![a] = IF stopping THEN "abandoned" ELSE "session"]
  /\ UNCHANGED <<stopping, ended>>

Release(a) ==
  /\ holder[a] # "free"
  /\ ended => holder[a] = "abandoned"
  /\ holder' = [holder EXCEPT ![a] = "free"]
  /\ UNCHANGED <<stopping, ended>>

TakeOver ==
  /\ ~stopping
  /\ stopping' = TRUE
  /\ holder' \in [Radios -> Holders]
  /\ \A a \in Radios : IF holder[a] = "session"
                       THEN holder'[a] \in {"shutdown", "abandoned"}
                       ELSE holder'[a] = holder[a]
  /\ UNCHANGED ended

End ==
  /\ stopping /\ ~ended
  /\ \A a \in Radios : holder[a] # "shutdown"
  /\ ended' = TRUE
  /\ UNCHANGED <<holder, stopping>>

Next == TakeOver \/ End \/ \E a \in Radios : Acquire(a) \/ Release(a)

Spec == Init /\ [][Next]_vars
=============================================================================
