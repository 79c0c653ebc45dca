------------------------------ MODULE Airtime ------------------------------
(***************************************************************************)
(* The cap on transmitting: SendRateLimiter (app/core/security.py) as POST *)
(* /api/send calls it (app/api/routes.py).  The endpoint is a coroutine    *)
(* and does not suspend between reading the clock and being counted.       *)
(*                                                                         *)
(* A request that a check before the limiter turns away changes nothing    *)
(* and is left out.  One that the limiter accepts is counted, whatever     *)
(* becomes of its message at the registry and the radio.                   *)
(***************************************************************************)
EXTENDS Clock, FiniteSets

CONSTANTS
  Max,       \* SendRateLimiter.max_sends
  Window,    \* SendRateLimiter.window_s
  CallCap    \* bound: requests accepted since the last reset

ASSUME LimiterAssumption == Max \in Nat /\ Window \in Nat \ {0}
ASSUME BoundsAssumption == TimeCap \in Nat /\ CallCap \in Nat

VARIABLES
  hits,      \* SendRateLimiter._hits: the calls it remembers
  accepted,  \* history: every call it accepted since the last reset
  answer     \* what allow() returned, until the clock moves on

vars == <<clock, hits, accepted, answer>>

Calls == [n : 1..CallCap, t : 0..TimeCap]

TypeOK ==
  /\ clock \in 0..TimeCap
  /\ accepted \subseteq Calls
  /\ hits \subseteq accepted
  /\ answer \in {"none", "granted", "refused"}

Init == clock = 0 /\ hits = {} /\ accepted = {} /\ answer = "none"

WrongRecent(now) == {h \in hits : now - h.t < Window - 1}
\* The calls that have not yet left the window that ends now.
Recent(now) == {h \in hits : now - h.t < Window}

WrongFull(now) == Cardinality(Recent(now)) > Max
Full(now) == Cardinality(Recent(now)) >= Max

ThisCall == [n |-> Cardinality(accepted) + 1, t |-> clock]

Accept ==
  /\ ~Full(clock)
  /\ Cardinality(accepted) < CallCap
  /\ hits'     = Recent(clock) \cup {ThisCall}
  /\ accepted' = accepted \cup {ThisCall}
  /\ answer'   = "granted"
  /\ UNCHANGED clock

\* 429.
Refuse ==
  /\ Full(clock)
  /\ hits'   = Recent(clock)
  /\ answer' = "refused"
  /\ UNCHANGED <<clock, accepted>>

\* reset(), or a new process.
Reset ==
  /\ hits' = {} /\ accepted' = {} /\ answer' = "none"
  /\ UNCHANGED clock

Tick ==
  /\ clock < TimeCap
  /\ clock'  = clock + 1
  /\ answer' = "none"
  /\ UNCHANGED <<hits, accepted>>

Next == Accept \/ Refuse \/ Reset \/ Tick

Spec == Init /\ [][Next]_vars

-----------------------------------------------------------------------------
(* Properties.                                                             *)

In(from, to) == {a \in accepted : from <= a.t /\ a.t < to}

\* No stretch of `Window` seconds, wherever it starts, holds more than `Max`
\* accepted messages: forgetting a call as soon as it is old enough, on every
\* request, accepted or not, never lets one too many through.
AirtimeCapped == \A s \in 0..TimeCap : Cardinality(In(s, s + Window)) <= Max

\* The limiter decides every request as one that remembered every call since
\* the last reset would: pruning the list on each request, whether it is then
\* granted or refused, loses nothing that still counts, and a request that is
\* refused neither counts nor prolongs the wait.
Limit == INSTANCE Quota WITH now <- clock, uses <- accepted
QuotaKept == Limit!Spec
=============================================================================
