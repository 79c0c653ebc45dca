------------------------------ MODULE Console ------------------------------
(***************************************************************************)
(* The way from a browser to the air: signing in (Sessions), POST          *)
(* /api/send and its limiter (Airtime), the registry's choice of a link    *)
(* and the adapters' send_message (app/api/routes.py, registry.py,         *)
(* meshtastic_adapter.py, meshcore_adapter.py).                            *)
(*                                                                         *)
(* The endpoint does not suspend from the session check to the call of the *)
(* radio library.  There it does, and while the library works the session  *)
(* may end, the link may go and other messages may be accepted.            *)
(*                                                                         *)
(* The radios are those of one network, auth is on and mesh.read_only is   *)
(* off.  A request turned away for its contents changes nothing and is     *)
(* left out.                                                               *)
(***************************************************************************)
EXTENDS Airtime, Sessions

CONSTANTS
  Meshtastic,   \* radios with this adapter: sendText in a worker thread
  MeshCore,     \* radios with this one: a command awaited in the event loop
  Simulated,    \* links of the simulated network
  Unnamed,      \* the message names no link
  Lag           \* assumption: a library passes a message on within this time

Radios == Meshtastic \cup MeshCore
Links  == Radios \cup Simulated

ASSUME LinksAssumption ==
  /\ Meshtastic \cap MeshCore = {} /\ Radios \cap Simulated = {}
  /\ Unnamed \notin Links
ASSUME LagAssumption == Lag \in Nat

VARIABLES
  sending,   \* the accepted messages that are with a library, or back from it
  aired,     \* history: the calls whose message a radio was passed, and when
  told       \* history: the calls that were answered, and with what status

\* How a library may end: the message is passed to the radio, the adapter raises
\* SendError, or another exception goes through it.
Results == {"passed", "refused", "raised"}

loginVars   == <<login, bucket, attempts, sessions, issued, dropped>>
airtimeVars == <<hits, accepted, answer>>
sendVars    == <<sending, aired, told>>
consoleVars == <<clock, loginVars, airtimeVars, sendVars>>

ConsoleTypeOK ==
  /\ TypeOK /\ SignInTypeOK
  /\ sending \subseteq [call : accepted, via : Radios, at : {"library"} \cup Results]
  /\ aired \subseteq [call : accepted, via : Radios, t : 0..TimeCap]
  /\ told \subseteq [call : accepted, status : {200, 409, 500}]

ConsoleInit ==
  /\ Init /\ SignInInit
  /\ sending = {} /\ aired = {} /\ told = {}

-----------------------------------------------------------------------------
(* POST /api/send.                                                         *)

\* 401; an expired session is removed on the way.
NotSignedIn(k) ==
  /\ ~Honoured(k)
  /\ Present(k)
  /\ UNCHANGED <<airtimeVars, sendVars>>

\* 429.
TooMany(k) ==
  /\ Honoured(k) /\ Present(k)
  /\ Refuse
  /\ UNCHANGED sendVars

\* _pick_adapter and the adapter's own check: the radios that can get the
\* message, when those in `up` are up and those in `open` have an interface.
\* Supervision says how links come and go; any combination may be found, also
\* a link still up whose adapter is being closed.
WrongReachable(link, up, open) == {link} \ {Unnamed}    \* takes any link that is named
Reachable(link, up, open) ==
  {r \in Radios : r \in open /\ (r = link \/ (link = Unnamed /\ up = {r}))}

\* Limiter passed: the message goes to a library, or is refused with 409 since
\* no radio can get it or MeshCore knows no such contact.
Submit(k, link) ==
  /\ Honoured(k) /\ Present(k)
  /\ Accept
  /\ \E up, open \in SUBSET Radios :
       LET to == Reachable(link, up, open)
       IN \/ \E r \in to :
               /\ sending' = sending \cup {[call |-> ThisCall, via |-> r, at |-> "library"]}
               /\ UNCHANGED told
          \/ /\ to = {} \/ to \cap MeshCore # {}
             /\ told' = told \cup {[call |-> ThisCall, status |-> 409]}
             /\ UNCHANGED sending
  /\ UNCHANGED aired

\* The library is done with message m, which a radio has got or has not.
Done(m, passed, result) ==
  /\ sending' = (sending \ {m}) \cup {[m EXCEPT !.at = result]}
  /\ aired' = IF passed
              THEN aired \cup {[call |-> m.call, via |-> m.via, t |-> clock]}
              ELSE aired
  /\ UNCHANGED <<clock, loginVars, airtimeVars, told>>

\* Meshtastic's sendText has written it or raises, and the adapter turns
\* whatever it raises into a SendError.
SendText(m) ==
  /\ m.at = "library" /\ m.via \in Meshtastic
  /\ \E passed \in BOOLEAN : Done(m, passed, IF passed THEN "passed" ELSE "refused")

\* MeshCore's command reports an error, which becomes a SendError, or raises,
\* which nothing catches; in both cases the radio may have got the message.
Command(m) ==
  /\ m.at = "library" /\ m.via \in MeshCore
  /\ \E passed \in BOOLEAN, result \in Results :
       /\ ~passed => result # "passed"
       /\ Done(m, passed, result)

Library(m) == SendText(m) \/ Command(m)

\* The endpoint resumes.  200: the adapter emits the message as sent, whatever
\* has become of the link meanwhile.  409: the endpoint catches the SendError;
\* 500: the server does what the endpoint does not catch.  Neither emits anything.
WrongAnswer(m) ==    \* 200 without a look at the result
  /\ m.at # "library"
  /\ sending' = sending \ {m}
  /\ told' = told \cup {[call |-> m.call, status |-> 200]}
  /\ UNCHANGED <<clock, loginVars, airtimeVars, aired>>
WrongRetry(m) ==    \* a message that failed goes to the library again
  /\ m.at = "refused"
  /\ sending' = (sending \ {m}) \cup {[m EXCEPT !.at = "library"]}
  /\ UNCHANGED <<clock, loginVars, airtimeVars, aired, told>>
Status(result) ==
  CASE result = "passed" -> 200 [] result = "refused" -> 409 [] result = "raised" -> 500
Answer(m) ==
  /\ m.at # "library"
  /\ sending' = sending \ {m}
  /\ told' = told \cup {[call |-> m.call, status |-> Status(m.at)]}
  /\ UNCHANGED <<clock, loginVars, airtimeVars, aired>>

-----------------------------------------------------------------------------
\* The steps of Sessions that are not part of a send, the other requests that
\* carry a token among them.
Signing ==
  /\ \/ \E p \in Logins : Login(p)
     \/ \E k \in Tokens : Present(k) \/ Logout(k)
  /\ UNCHANGED <<airtimeVars, sendVars>>

\* Time passes, but no library keeps a message for longer than Lag.
ConsoleTick ==
  /\ Tick /\ SignInTick
  /\ \A m \in sending : m.at = "library" => clock - m.call.t < Lag
  /\ UNCHANGED sendVars

\* A new process: everything here is in memory.
ConsoleRestart ==
  /\ Reset /\ Restart
  /\ sending' = {} /\ aired' = {} /\ told' = {}

Sending ==
  \/ \E k \in Tokens : \/ NotSignedIn(k) \/ TooMany(k)
                       \/ \E link \in Links \cup {Unnamed} : Submit(k, link)
  \/ \E m \in sending : Library(m) \/ Answer(m)

ConsoleNext == Signing \/ Sending \/ ConsoleTick \/ ConsoleRestart

ConsoleSpec == ConsoleInit /\ [][ConsoleNext]_consoleVars

-----------------------------------------------------------------------------
(* Properties.                                                             *)

\* What is on the air is capped, not only what the endpoint accepts: messages
\* of several requests that wait in the libraries never bunch up to more than
\* Max in any stretch shorter than the window by the time one may wait.
OnAirCapped ==
  \A s \in 0..TimeCap :
    Cardinality({x \in aired : s <= x.t /\ x.t < s + Window - Lag}) <= Max

\* No caller is misled: a call is answered once, with 200 only if a radio was
\* passed its message; and a message that was passed on and not answered with
\* 200 is still in flight, or MeshCore reported an error about it or raised one.
AnswersTrue ==
  /\ \A x, y \in told : x.call = y.call => x = y
  /\ \A x \in told : x.status = 200 => \E a \in aired : a.call = x.call
  /\ \A a \in aired :
       \/ \E m \in sending : m.call = a.call
       \/ \E x \in told : x.call = a.call /\ (x.status = 200 \/ a.via \in MeshCore)
=============================================================================
