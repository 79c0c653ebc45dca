-------------------------------- MODULE Quota --------------------------------
(***************************************************************************)
(* What a rate limiter promises, whatever it keeps in memory: it remembers *)
(* every use since it was last emptied, grants a request when fewer than   *)
(* Max uses lie in the window that ends now, and turns it away when they   *)
(* do not.  Airtime implements this with a list that it prunes.            *)
(***************************************************************************)
EXTENDS Integers, FiniteSets

CONSTANTS
  Max,      \* uses granted ...
  Window    \* ... in this many seconds

VARIABLES
  now,      \* the time
  uses,     \* every use granted, with its time
  answer    \* what the last request was told

vars == <<now, uses, answer>>

Used == Cardinality({u \in uses : now - u.t < Window})

Init == now = 0 /\ uses = {} /\ answer = "none"

Grant ==
  /\ Used < Max
  /\ \E u \in uses' : u \notin uses /\ u.t = now /\ uses' = uses \cup {u}
  /\ answer' = "granted"
  /\ UNCHANGED now

TurnAway ==
  /\ Used >= Max
  /\ answer' = "refused"
  /\ UNCHANGED <<now, uses>>

Empty == uses' = {} /\ answer' = "none" /\ UNCHANGED now

Pass == now' = now + 1 /\ answer' = "none" /\ UNCHANGED uses

Next == Grant \/ TurnAway \/ Empty \/ Pass

Spec == Init /\ [][Next]_vars
=============================================================================
