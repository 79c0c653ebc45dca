--------------------------- MODULE Console_proofs ---------------------------
(***************************************************************************)
(* Theorems about the way from a browser to the air: the composition keeps *)
(* to its components, what goes on the air is capped, and callers are told *)
(* the truth.                                                              *)
(***************************************************************************)
EXTENDS Console, Limits_proofs

(* The components.                                                         *)

\* A step of the sessions passes no time, unless it is their Tick.
LEMMA SessionsKeepTime ==
  /\ \A k : Present(k) => UNCHANGED clock /\ Present(k)
  /\ Signing => UNCHANGED clock
BY DEF Signing, Present, Logout, Login, ReadClock,
       LetThrough, TurnAway, Mismatch, Match, Create

\* Every step is a step of the limiter, or leaves it alone.
LEMMA StepAirtime == [ConsoleNext]_consoleVars => [Next]_vars
<1> SUFFICES ASSUME [ConsoleNext]_consoleVars
             PROVE  [Next]_vars
  OBVIOUS
<1>1. CASE Signing
  BY <1>1, SessionsKeepTime DEF Signing, airtimeVars, vars
<1>2. ASSUME NEW k \in Tokens, NotSignedIn(k)
      PROVE  [Next]_vars
  BY <1>2, SessionsKeepTime DEF NotSignedIn, airtimeVars, vars
<1>3. ASSUME NEW k \in Tokens, TooMany(k)
      PROVE  [Next]_vars
  BY <1>3 DEF TooMany, Next
<1>4. ASSUME NEW k \in Tokens, NEW link \in Links \cup {Unnamed}, Submit(k, link)
      PROVE  [Next]_vars
  BY <1>4 DEF Submit, Next
<1>5. ASSUME NEW m \in sending, Library(m) \/ Answer(m)
      PROVE  [Next]_vars
  BY <1>5 DEF Library, SendText, Command, Done, Answer, airtimeVars, vars
<1>6. CASE ConsoleTick
  BY <1>6 DEF ConsoleTick, Next
<1>7. CASE ConsoleRestart
  BY <1>7 DEF ConsoleRestart, Next
<1>8. CASE UNCHANGED consoleVars
  BY <1>8 DEF consoleVars, airtimeVars, vars
<1>9. QED
  BY <1>1, <1>2, <1>3, <1>4, <1>5, <1>6, <1>7, <1>8 DEF ConsoleNext, Sending

\* Every step is a step of the sessions, or leaves them alone.
LEMMA StepSessions == [ConsoleNext]_consoleVars => [SignInNext]_signInVars
<1> SUFFICES ASSUME [ConsoleNext]_consoleVars
             PROVE  [SignInNext]_signInVars
  OBVIOUS
<1> USE DEF SignInNext
<1>1. CASE Signing
  BY <1>1 DEF Signing
<1>2. ASSUME NEW k \in Tokens, NEW link \in Links \cup {Unnamed},
             NotSignedIn(k) \/ TooMany(k) \/ Submit(k, link)
      PROVE  [SignInNext]_signInVars
  BY <1>2 DEF NotSignedIn, TooMany, Submit
<1>3. ASSUME NEW m \in sending, Library(m) \/ Answer(m)
      PROVE  [SignInNext]_signInVars
  BY <1>3 DEF Library, SendText, Command, Done, Answer, loginVars, signInVars
<1>4. CASE ConsoleTick
  BY <1>4 DEF ConsoleTick
<1>5. CASE ConsoleRestart
  BY <1>5 DEF ConsoleRestart
<1>6. CASE UNCHANGED consoleVars
  BY <1>6 DEF consoleVars, loginVars, signInVars
<1>7. QED
  BY <1>1, <1>2, <1>3, <1>4, <1>5, <1>6 DEF ConsoleNext, Sending

\* Whatever requests, threads, libraries and the clock do together, the limiter
\* sees a behaviour of Airtime and the session table one of Sessions: what is
\* proved of either holds of the console.
THEOREM ComponentsKept == ConsoleSpec => Spec /\ SignInSpec
<1>1. ConsoleInit => Init /\ SignInInit
  BY DEF ConsoleInit
<1>2. QED BY <1>1, StepAirtime, StepSessions, PTL DEF ConsoleSpec, Spec, SignInSpec

\* The endpoint's cap, in the console.
THEOREM ConsoleCapHolds == ConsoleSpec => [](TypeOK /\ AirtimeCapped)
BY ComponentsKept, TypeCorrect, CapHolds, PTL

\* Sends, libraries and restarts disturb neither the login limiter's cap nor
\* the life of a session.
THEOREM ConsoleSignInHolds == ConsoleSpec => [](AttemptsCapped /\ HonouredWhileGood)
BY ComponentsKept, LoginsCapped, SessionsSound, PTL

-----------------------------------------------------------------------------
(* In flight.                                                              *)

SendType ==
  /\ sending \subseteq [call : accepted, via : Radios, at : {"library"} \cup Results]
  /\ aired \subseteq [call : accepted, via : Radios, t : 0..TimeCap]
  /\ told \subseteq [call : accepted, status : {200, 409, 500}]

\* A call has one message, which is in one place; it is passed on at most once
\* and at most Lag after it was accepted.
Once ==
  /\ \A m, n \in sending : m.call = n.call => m = n
  /\ \A x, y \in aired : x.call = y.call => x = y
  /\ \A m \in sending, x \in told : m.call # x.call
Timely ==
  /\ \A m \in sending : m.at = "library" => clock - m.call.t <= Lag
  /\ \A x \in aired : x.call.t <= x.t /\ x.t - x.call.t <= Lag
Result ==
  /\ \A m \in sending : m.at = "library" => \A x \in aired : x.call # m.call
  /\ \A m \in sending : m.at = "passed" => \E x \in aired : x.call = m.call
  /\ \A m \in sending, x \in aired :
       m.call = x.call /\ m.at \in {"refused", "raised"} => x.via \in MeshCore

ConsoleInv == AirtimeInv /\ SendType /\ Once /\ Timely /\ Result /\ AnswersTrue

LEMMA ConsoleInitInv == ConsoleInit => ConsoleInv
<1> SUFFICES ASSUME ConsoleInit PROVE ConsoleInv
  OBVIOUS
<1>1. AirtimeInv
  BY InitInv DEF ConsoleInit
<1>2. QED
  BY <1>1 DEF ConsoleInit, ConsoleInv, SendType, Once, Timely, Result, AnswersTrue

\* A step that accepts nothing, passes nothing on and answers nothing.
LEMMA IdleStep ==
  ASSUME ConsoleInv, AirtimeInv', UNCHANGED <<clock, accepted, sending, aired, told>>
  PROVE  ConsoleInv'
BY DEF ConsoleInv, SendType, Once, Timely, Result, AnswersTrue

LEMMA SubmitStep ==
  ASSUME ConsoleInv, AirtimeInv', NEW k, NEW link, Submit(k, link)
  PROVE  ConsoleInv'
<1> USE DEF ConsoleInv
<1>1. /\ accepted' = accepted \cup {ThisCall} /\ ThisCall.t = clock
      /\ UNCHANGED <<clock, aired>>
  BY DEF Submit, Accept, ThisCall
<1>2. /\ \A m \in sending : m.call # ThisCall
      /\ \A x \in aired : x.call # ThisCall
      /\ \A x \in told : x.call # ThisCall
  BY CallsNumbered DEF SendType
<1>0. clock \in Nat /\ Lag \in Nat
  BY BoundsAssumption, LagAssumption DEF AirtimeInv, TypeOK
<1>3. ASSUME NEW r \in Radios, UNCHANGED told,
             sending' = sending \cup {[call |-> ThisCall, via |-> r, at |-> "library"]}
      PROVE  ConsoleInv'
  <2>1. SendType'
    BY <1>1, <1>3 DEF SendType
  <2>2. Once'
    BY <1>1, <1>2, <1>3 DEF Once
  <2>3. Timely'
    BY <1>0, <1>1, <1>3 DEF Timely
  <2>4. Result'
    BY <1>1, <1>2, <1>3 DEF Result
  <2>5. AnswersTrue'
    <3>1. sending \subseteq sending'
      BY <1>3
    <3>2. QED BY <1>1, <1>3, <3>1 DEF AnswersTrue
  <2>6. QED BY <2>1, <2>2, <2>3, <2>4, <2>5
<1>4. ASSUME UNCHANGED sending,
             told' = told \cup {[call |-> ThisCall, status |-> 409]}
      PROVE  ConsoleInv'
  <2>1. SendType'
    BY <1>1, <1>4 DEF SendType
  <2>2. Once'
    BY <1>1, <1>2, <1>4 DEF Once
  <2>3. Timely' /\ Result'
    BY <1>1, <1>4 DEF Timely, Result
  <2>4. AnswersTrue'
    BY <1>1, <1>2, <1>4 DEF AnswersTrue
  <2>5. QED BY <2>1, <2>2, <2>3, <2>4
<1>5. \A up, open : Reachable(link, up, open) \subseteq Radios
  BY DEF Reachable
<1>6. QED BY <1>3, <1>4, <1>5 DEF Submit

LEMMA LibraryStep ==
  ASSUME ConsoleInv, AirtimeInv', NEW m \in sending, Library(m)
  PROVE  ConsoleInv'
<1> USE DEF ConsoleInv
<1>1. PICK passed \in BOOLEAN, result \in Results :
        /\ passed => result = "passed" \/ m.via \in MeshCore
        /\ ~passed => result # "passed"
        /\ Done(m, passed, result)
  BY DEF Library, SendText, Command, Results
<1>2. /\ m.at = "library" /\ UNCHANGED <<clock, accepted, told>>
      /\ sending' = (sending \ {m}) \cup {[m EXCEPT !.at = result]}
      /\ aired' = IF passed
                  THEN aired \cup {[call |-> m.call, via |-> m.via, t |-> clock]}
                  ELSE aired
  BY <1>1 DEF Library, SendText, Command, Done, airtimeVars
<1> DEFINE back == [m EXCEPT !.at = result]
           pass == [call |-> m.call, via |-> m.via, t |-> clock]
<1>3. /\ m.call \in accepted /\ m.via \in Radios
      /\ back \in [call : accepted, via : Radios, at : {"library"} \cup Results]
      /\ back.call = m.call /\ back.at = result
  BY DEF SendType
<1>4. pass \in [call : accepted, via : Radios, t : 0..TimeCap]
  BY <1>3 DEF AirtimeInv, TypeOK
<1>5. /\ pass.call = m.call /\ pass.via = m.via /\ pass.t = clock
      /\ sending' = (sending \ {m}) \cup {back}
      /\ aired' = aired \/ aired' = aired \cup {pass}
      /\ passed => pass \in aired'
      /\ ~passed => aired' = aired
  BY <1>2
<1> HIDE DEF back, pass
<1>6. SendType'
  BY <1>2, <1>3, <1>4, <1>5 DEF SendType
<1>7. \A x \in aired : x.call # m.call
  BY <1>2 DEF Result
<1>8. Once'
  BY <1>2, <1>3, <1>5, <1>7 DEF Once
<1>9. Timely'
  <2>1. clock - m.call.t <= Lag /\ m.call.t <= clock
    BY <1>2, <1>3 DEF Timely, AirtimeInv, Remembered
  <2>2. QED BY <1>1, <1>2, <1>3, <1>5, <2>1 DEF Timely
<1>10. \A n \in sending : n # m => n.call # m.call
  BY DEF Once
<1>11. Result'
  <2>1. result # "library" /\ (result = "passed" => passed)
        /\ (passed /\ result \in {"refused", "raised"} => m.via \in MeshCore)
    BY <1>1 DEF Results
  <2>2. \A n \in sending' : n = back \/ (n \in sending /\ n.call # m.call)
    BY <1>5, <1>10
  <2>3. \A x \in aired' : x \in aired \/ (passed /\ x = pass)
    BY <1>5
  <2>4. \A n \in sending', x \in aired' : n.at = "library" => x.call # n.call
    BY <1>3, <1>5, <2>1, <2>2, <2>3 DEF Result
  <2>5. \A n \in sending' : n.at = "passed" => \E x \in aired' : x.call = n.call
    BY <1>3, <1>5, <2>1, <2>2 DEF Result
  <2>6. \A n \in sending', x \in aired' :
          n.call = x.call /\ n.at \in {"refused", "raised"} => x.via \in MeshCore
    BY <1>3, <1>5, <1>7, <2>1, <2>2, <2>3 DEF Result
  <2>7. QED BY <2>4, <2>5, <2>6 DEF Result
<1>12. AnswersTrue'
  <2>1. \A x \in told : x.status = 200 => \E a \in aired' : a.call = x.call
    BY <1>5 DEF AnswersTrue
  <2>2. ASSUME NEW a \in aired'
        PROVE  \/ \E n \in sending' : n.call = a.call
               \/ \E x \in told : x.call = a.call /\ (x.status = 200 \/ a.via \in MeshCore)
    <3>1. CASE a = pass
      BY <1>3, <1>5, <3>1
    <3>2. CASE a \in aired
      <4>1. CASE \E n \in sending : n.call = a.call
        BY <1>3, <1>5, <4>1
      <4>2. CASE \E x \in told : x.call = a.call /\ (x.status = 200 \/ a.via \in MeshCore)
        BY <4>2
      <4>3. QED BY <3>2, <4>1, <4>2 DEF AnswersTrue
    <3>3. QED BY <1>5, <3>1, <3>2
  <2>3. QED BY <1>2, <2>1, <2>2 DEF AnswersTrue
<1>13. QED BY <1>6, <1>8, <1>9, <1>11, <1>12

LEMMA AnswerStep ==
  ASSUME ConsoleInv, AirtimeInv', NEW m \in sending, Answer(m)
  PROVE  ConsoleInv'
<1> USE DEF ConsoleInv
<1> DEFINE reply == [call |-> m.call, status |-> Status(m.at)]
<1>1. /\ m.at # "library" /\ sending' = sending \ {m} /\ told' = told \cup {reply}
      /\ UNCHANGED <<clock, accepted, aired>>
  BY DEF Answer, airtimeVars
<1>2. /\ m.call \in accepted /\ m.at \in Results
      /\ reply.call = m.call
      /\ reply \in [call : accepted, status : {200, 409, 500}]
      /\ reply.status = 200 <=> m.at = "passed"
  <2>1. m.call \in accepted /\ m.at \in Results
    BY <1>1 DEF SendType
  <2>2. /\ Status(m.at) \in {200, 409, 500}
        /\ Status(m.at) = 200 <=> m.at = "passed"
    BY <2>1 DEF Status, Results
  <2>3. QED BY <2>1, <2>2
<1> HIDE DEF reply
<1>3. SendType'
  BY <1>1, <1>2 DEF SendType
<1>4. \A n \in sending' : n.call # m.call
  BY <1>1 DEF Once
<1>5. Once' /\ Timely' /\ Result'
  BY <1>1, <1>2, <1>4 DEF Once, Timely, Result
<1>6. AnswersTrue'
  <2>1. \A x \in told : x.call # m.call
    BY DEF Once
  <2>2. \A x, y \in told' : x.call = y.call => x = y
    BY <1>1, <1>2, <2>1 DEF AnswersTrue
  <2>3. \A x \in told' : x.status = 200 => \E a \in aired : a.call = x.call
    BY <1>1, <1>2 DEF AnswersTrue, Result
  <2>4. ASSUME NEW a \in aired
        PROVE  \/ \E n \in sending' : n.call = a.call
               \/ \E x \in told' : x.call = a.call /\ (x.status = 200 \/ a.via \in MeshCore)
    <3>1. CASE a.call = m.call
      <4>1. reply.status = 200 \/ a.via \in MeshCore
        BY <1>2, <3>1 DEF Result, Results
      <4>2. QED BY <1>1, <1>2, <3>1, <4>1
    <3>2. CASE a.call # m.call
      BY <1>1, <3>2 DEF AnswersTrue
    <3>3. QED BY <3>1, <3>2
  <2>5. QED BY <1>1, <2>2, <2>3, <2>4 DEF AnswersTrue
<1>7. QED BY <1>3, <1>5, <1>6

LEMMA ConsoleStepInv == ConsoleInv /\ [ConsoleNext]_consoleVars => ConsoleInv'
<1> SUFFICES ASSUME ConsoleInv, [ConsoleNext]_consoleVars
             PROVE  ConsoleInv'
  OBVIOUS
<1>0. AirtimeInv'
  BY StepAirtime, StepInv DEF ConsoleInv
<1>1. CASE Signing
  BY <1>0, <1>1, IdleStep, SessionsKeepTime DEF Signing, airtimeVars, sendVars
<1>2. ASSUME NEW k \in Tokens, NotSignedIn(k)
      PROVE  ConsoleInv'
  BY <1>0, <1>2, IdleStep, SessionsKeepTime DEF NotSignedIn, airtimeVars, sendVars
<1>3. ASSUME NEW k \in Tokens, TooMany(k)
      PROVE  ConsoleInv'
  BY <1>0, <1>3, IdleStep DEF TooMany, Refuse, sendVars
<1>4. ASSUME NEW k \in Tokens, NEW link \in Links \cup {Unnamed}, Submit(k, link)
      PROVE  ConsoleInv'
  BY <1>0, <1>4, SubmitStep
<1>5. ASSUME NEW m \in sending, Library(m) \/ Answer(m)
      PROVE  ConsoleInv'
  BY <1>0, <1>5, LibraryStep, AnswerStep
<1>6. CASE ConsoleTick
  <2>1. /\ clock' = clock + 1 /\ UNCHANGED <<accepted, sending, aired, told>>
        /\ \A m \in sending : m.at = "library" => clock - m.call.t < Lag
    BY <1>6 DEF ConsoleTick, Tick, sendVars
  <2>2. clock \in Nat /\ \A m \in sending : m.call.t \in Nat
    BY BoundsAssumption DEF ConsoleInv, AirtimeInv, TypeOK, SendType, Calls
  <2>3. Timely'
    BY <2>1, <2>2, LagAssumption DEF ConsoleInv, Timely
  <2>4. QED
    BY <1>0, <2>1, <2>3 DEF ConsoleInv, SendType, Once, Result, AnswersTrue
<1>7. CASE ConsoleRestart
  BY <1>0, <1>7
     DEF ConsoleRestart, ConsoleInv, SendType, Once, Timely, Result, AnswersTrue
<1>8. CASE UNCHANGED consoleVars
  BY <1>0, <1>8, IdleStep DEF consoleVars, airtimeVars, sendVars
<1>9. QED
  BY <1>1, <1>2, <1>3, <1>4, <1>5, <1>6, <1>7, <1>8 DEF ConsoleNext, Sending

-----------------------------------------------------------------------------
\* A message in flight, one on the air and an answer are of a call the limiter
\* accepted, and of a radio of this process, through every interleaving of
\* requests, libraries and restarts; nothing of the components loses its type.
THEOREM ConsoleTypeCorrect == ConsoleSpec => []ConsoleTypeOK
<1>1. ConsoleInv /\ SignInTypeOK => ConsoleTypeOK
  BY DEF ConsoleInv, AirtimeInv, SendType, ConsoleTypeOK
<1>2. ConsoleSpec => []SignInTypeOK
  BY ComponentsKept, SignInTypeCorrect, PTL
<1>3. QED BY <1>1, <1>2, ConsoleInitInv, ConsoleStepInv, PTL DEF ConsoleSpec

\* No caller is misled about what has gone on the air.
THEOREM CallersTold == ConsoleSpec => []AnswersTrue
<1>1. ConsoleInv => AnswersTrue
  BY DEF ConsoleInv
<1>2. QED BY <1>1, ConsoleInitInv, ConsoleStepInv, PTL DEF ConsoleSpec

\* What goes on the air in a stretch shorter than the window by Lag was accepted
\* in one stretch of the window's length, each message by a call of its own.
LEMMA AiredWasAccepted ==
  ASSUME ConsoleInv, AirtimeCapped
  PROVE  OnAirCapped
<1> SUFFICES ASSUME NEW s \in 0..TimeCap
             PROVE  Cardinality({x \in aired : s <= x.t /\ x.t < s + Window - Lag}) <= Max
  BY DEF OnAirCapped
<1> DEFINE A == {x \in aired : s <= x.t /\ x.t < s + Window - Lag}
           from == IF s >= Lag THEN s - Lag ELSE 0
           T == In(from, from + Window)
           f == [x \in A |-> x.call]
<1> USE DEF ConsoleInv
<1>1. /\ s \in Nat /\ Lag \in Nat /\ Window \in Nat /\ TimeCap \in Nat /\ Max \in Nat
      /\ s <= TimeCap
  BY BoundsAssumption, LimiterAssumption, LagAssumption
<1>2. from \in 0..TimeCap
  BY <1>1
<1>3. \A x \in A : x.call \in accepted /\ x.call.t \in Nat /\ x.t \in Nat
                   /\ x.t - x.call.t <= Lag /\ x.call.t <= x.t
  <2>1. \A x \in aired : x.call \in accepted /\ x.t \in 0..TimeCap
    BY DEF SendType
  <2>2. \A a \in accepted : a.t \in 0..TimeCap
    BY DEF AirtimeInv, TypeOK, Calls
  <2>3. QED BY <1>1, <2>1, <2>2 DEF Timely
<1>4. \A x \in A : x.call \in T
  BY <1>1, <1>3 DEF In
<1>5. IsFiniteSet(T) /\ Cardinality(T) \in Nat /\ Cardinality(T) <= Max
  BY <1>2, FS_Subset, FS_CardinalityType DEF AirtimeInv, Remembered, In, AirtimeCapped
<1>6. f \in Injection(A, T)
  BY <1>4 DEF Once, Injection, IsInjective
<1>7. IsFiniteSet(A) /\ Cardinality(A) <= Cardinality(T)
  <2> HIDE DEF A, T, f
  <2>1. QED BY <1>5, <1>6, FS_Injection
<1>8. Cardinality(A) \in Nat
  BY <1>7, FS_CardinalityType
<1>9. QED BY <1>1, <1>5, <1>7, <1>8

\* Messages that wait in the libraries never bunch up beyond the cap.
THEOREM OnAirCapHolds == ConsoleSpec => []OnAirCapped
<1>1. QED
  BY ConsoleInitInv, ConsoleStepInv, ConsoleCapHolds, AiredWasAccepted, PTL DEF ConsoleSpec
=============================================================================
