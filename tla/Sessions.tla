------------------------------ MODULE Sessions ------------------------------
(***************************************************************************)
(* Signing in to the dashboard: the login limiter (LoginRateLimiter in     *)
(* app/core/security.py) and the session table (app/core/auth.py), as      *)
(* login_submit, logout and the middleware of app/main.py call them.       *)
(*                                                                         *)
(* login_submit is not a coroutine: every POST /login runs in a thread of  *)
(* its own, and both the limiter and create_session read the clock before  *)
(* they take their lock.  By the time the lock is taken, another thread    *)
(* may have come by with a later time and pruned what it governs.          *)
(***************************************************************************)
EXTENDS Clock, FiniteSets

CONSTANTS
  Logins,       \* the threads that serve POST /login
  Clients,      \* the addresses the limiter keeps apart
  MaxAttempts,  \* LoginRateLimiter.max_attempts
  LoginWindow,  \* LoginRateLimiter.window_s
  Ttl,          \* SESSION_HOURS
  Stale,        \* assumption: a thread that has read the clock for the
                \* limiter has the limiter's lock within this time
  AttemptCap,   \* bound: attempts let through since the process started
  TokenCap      \* bound: sessions created since the process started

ASSUME LoginAssumption ==
  /\ MaxAttempts \in Nat /\ LoginWindow \in Nat \ {0}
  /\ Ttl \in Nat /\ Stale \in Nat
ASSUME LoginBounds == TimeCap \in Nat /\ AttemptCap \in Nat /\ TokenCap \in Nat

VARIABLES
  login,     \* login[p]: how far thread p is, and the time it has read
  bucket,    \* LoginRateLimiter._hits: the attempts it remembers per client
  attempts,  \* history: every attempt let through, with the time it read
             \* and the time it really was
  sessions,  \* auth._sessions: token -> expiry
  issued,    \* history: issued[k] is the expiry session k was created with
  dropped    \* history: the sessions signed out of

signInVars == <<clock, login, bucket, attempts, sessions, issued, dropped>>

Times    == 0..TimeCap
Tokens   == 1..TokenCap   \* secrets.token_urlsafe: no token comes twice
Attempts == [n : 1..AttemptCap, client : Clients, t : Times, at : Times]
Away     == [at |-> "away"]

SignInTypeOK ==
  /\ clock \in Times
  /\ login \in [Logins -> {Away} \cup [at : {"stamped"}, client : Clients, now : Times]
                                 \cup [at : {"allowed"}]
                                 \cup [at : {"minting"}, now : Times]]
  /\ bucket \in [Clients -> SUBSET attempts]
  /\ attempts \subseteq Attempts
  /\ DOMAIN issued \in SUBSET Tokens /\ dropped \subseteq DOMAIN issued
  /\ \A k \in DOMAIN issued : issued[k] \in 0..(TimeCap + Ttl)
  /\ DOMAIN sessions \subseteq DOMAIN issued

SignInInit ==
  /\ clock = 0
  /\ login = [p \in Logins |-> Away]
  /\ bucket = [c \in Clients |-> {}] /\ attempts = {}
  /\ sessions = <<>> /\ issued = <<>> /\ dropped = {}

-----------------------------------------------------------------------------
(* POST /login.                                                            *)

\* allow() reads the clock; its lock comes later.
ReadClock(p, c) ==
  /\ login[p] = Away
  /\ login' = [login EXCEPT ![p] = [at |-> "stamped", client |-> c, now |-> clock]]
  /\ UNCHANGED <<clock, bucket, attempts, sessions, issued, dropped>>

WrongCounted(c, now) == {h \in bucket[c] : now - h.t < LoginWindow - 1}
\* The client's attempts that have not left the window that ends at `now`.
Counted(c, now) == {h \in bucket[c] : now - h.t < LoginWindow}

LetThrough(p) ==
  LET c   == login[p].client
      now == login[p].now
      hit == [n |-> Cardinality(attempts) + 1, client |-> c, t |-> now, at |-> clock]
  IN /\ login[p].at = "stamped"
     /\ Cardinality(Counted(c, now)) < MaxAttempts
     /\ Cardinality(attempts) < AttemptCap
     /\ bucket'   = [bucket EXCEPT ![c] = Counted(c, now) \cup {hit}]
     /\ attempts' = attempts \cup {hit}
     /\ login'    = [login EXCEPT ![p] = [at |-> "allowed"]]
     /\ UNCHANGED <<clock, sessions, issued, dropped>>

TurnAway(p) ==
  LET c   == login[p].client
      now == login[p].now
  IN /\ login[p].at = "stamped"
     /\ Cardinality(Counted(c, now)) >= MaxAttempts
     /\ bucket' = [bucket EXCEPT ![c] = Counted(c, now)]
     /\ login'  = [login EXCEPT ![p] = Away]
     /\ UNCHANGED <<clock, attempts, sessions, issued, dropped>>

\* The name or the password is wrong, or there is no password to compare with.
Mismatch(p) ==
  /\ login[p].at = "allowed"
  /\ login' = [login EXCEPT ![p] = Away]
  /\ UNCHANGED <<clock, bucket, attempts, sessions, issued, dropped>>

\* They match: create_session reads the clock; its lock comes later.
Match(p) ==
  /\ login[p].at = "allowed"
  /\ login' = [login EXCEPT ![p] = [at |-> "minting", now |-> clock]]
  /\ UNCHANGED <<clock, bucket, attempts, sessions, issued, dropped>>

\* The sessions that a new one leaves in the table.
WrongUnexpired(now) == {k \in DOMAIN sessions : sessions[k] > now}
Unexpired(now) == {k \in DOMAIN sessions : sessions[k] >= now}

Create(p) ==
  LET now == login[p].now
      new == Cardinality(DOMAIN issued) + 1
  IN /\ login[p].at = "minting"
     /\ new \in Tokens
     /\ sessions' = [k \in Unexpired(now) \cup {new} |->
                       IF k = new THEN now + Ttl ELSE sessions[k]]
     /\ issued' = [k \in DOMAIN issued \cup {new} |->
                     IF k = new THEN now + Ttl ELSE issued[k]]
     /\ login' = [login EXCEPT ![p] = Away]
     /\ UNCHANGED <<clock, bucket, attempts, dropped>>

-----------------------------------------------------------------------------
(* The requests that carry a token.                                        *)

\* session_valid: the clock is read under the lock.
Honoured(k) == k \in DOMAIN sessions /\ sessions[k] >= clock

\* The table after a request that carried token k: an expired session is gone.
After(k) ==
  IF k \in DOMAIN sessions /\ ~Honoured(k)
  THEN [j \in DOMAIN sessions \ {k} |-> sessions[j]]
  ELSE sessions

Present(k) ==
  /\ k \in DOMAIN issued
  /\ sessions' = After(k)
  /\ UNCHANGED <<clock, login, bucket, attempts, issued, dropped>>

\* drop_session.
Logout(k) ==
  /\ k \in DOMAIN issued
  /\ sessions' = [j \in DOMAIN sessions \ {k} |-> sessions[j]]
  /\ dropped' = dropped \cup {k}
  /\ UNCHANGED <<clock, login, bucket, attempts, issued>>

-----------------------------------------------------------------------------
\* Sessions and attempts are kept in memory: a new process has none.
Restart ==
  /\ login' = [p \in Logins |-> Away]
  /\ bucket' = [c \in Clients |-> {}] /\ attempts' = {}
  /\ sessions' = <<>> /\ issued' = <<>> /\ dropped' = {}
  /\ UNCHANGED clock

\* Time passes, but no thread is kept from the limiter's lock for too long.
SignInTick ==
  /\ clock < TimeCap
  /\ \A p \in Logins : login[p].at = "stamped" => clock - login[p].now < Stale
  /\ clock' = clock + 1
  /\ UNCHANGED <<login, bucket, attempts, sessions, issued, dropped>>

Login(p) ==
  \/ \E c \in Clients : ReadClock(p, c)
  \/ LetThrough(p) \/ TurnAway(p) \/ Mismatch(p) \/ Match(p) \/ Create(p)

SignInNext ==
  \/ \E p \in Logins : Login(p)
  \/ \E k \in Tokens : Present(k) \/ Logout(k)
  \/ Restart \/ SignInTick

SignInSpec == SignInInit /\ [][SignInNext]_signInVars

-----------------------------------------------------------------------------
(* Properties.                                                             *)

\* The attempts of client c that were let through from `from` up to `to`.
Between(c, from, to) == {a \in attempts : a.client = c /\ from <= a.at /\ a.at < to}

\* Although threads decide by times they read before they had the lock, and
\* prune each other's attempts by them, no client gets more than MaxAttempts
\* through in any stretch shorter than the window by what a thread may be late.
AttemptsCapped ==
  \A c \in Clients, s \in Times :
    Cardinality(Between(c, s, s + LoginWindow - Stale)) <= MaxAttempts

\* A session is honoured from its creation until it expires or is signed out
\* of, and never after: a thread that creates a session, and prunes the table by
\* a time it read before it had the lock, ends no session that is still good.
HonouredWhileGood ==
  \A k \in DOMAIN issued : Honoured(k) <=> k \notin dropped /\ clock <= issued[k]
=============================================================================
