--------------------------- MODULE Limits_proofs ----------------------------
(***************************************************************************)
(* Theorems about the two limiters and the session table: the send limiter *)
(* for every limit, every window and every length of run, and signing in   *)
(* for any number of threads, clients, attempts and sessions.              *)
(***************************************************************************)
EXTENDS Airtime, Sessions, FiniteSetTheorems, TLAPS

(* The send limiter.                                                       *)

\* The limiter forgets only what has left the window: an accepted call that is
\* younger than the window is still remembered.
Remembered ==
  /\ IsFiniteSet(accepted)
  /\ \A a \in accepted : a.t <= clock /\ (clock - a.t < Window => a \in hits)

\* The calls are numbered in the order they were accepted.
Numbered == \A a \in accepted : a.n <= Cardinality(accepted)

AirtimeInv == TypeOK /\ Remembered /\ Numbered

LEMMA InitInv == Init => AirtimeInv
BY FS_EmptySet, BoundsAssumption DEF Init, AirtimeInv, TypeOK, Remembered, Numbered

\* The calls the limiter looks at are finitely many.
LEMMA RecentFinite ==
  ASSUME AirtimeInv
  PROVE  /\ Recent(clock) \subseteq accepted /\ IsFiniteSet(Recent(clock))
         /\ Cardinality(Recent(clock)) \in Nat
<1>1. Recent(clock) \subseteq accepted
  BY DEF AirtimeInv, TypeOK, Recent
<1>2. QED BY <1>1, FS_Subset, FS_CardinalityType DEF AirtimeInv, Remembered

\* The next call has a number no call has had.
LEMMA CallsNumbered ==
  ASSUME AirtimeInv
  PROVE  /\ Cardinality(accepted) \in Nat
         /\ ThisCall \notin accepted
         /\ Cardinality(accepted \cup {ThisCall}) = Cardinality(accepted) + 1
<1>1. Cardinality(accepted) \in Nat
  BY FS_CardinalityType DEF AirtimeInv, Remembered
<1>2. ThisCall \notin accepted
  BY <1>1 DEF AirtimeInv, Numbered, ThisCall
<1>3. QED BY <1>1, <1>2, FS_AddElement DEF AirtimeInv, Remembered

LEMMA StepInv == AirtimeInv /\ [Next]_vars => AirtimeInv'
<1> SUFFICES ASSUME AirtimeInv, [Next]_vars
             PROVE  AirtimeInv'
  OBVIOUS
<1> USE DEF AirtimeInv, TypeOK
<1>0. clock \in Nat /\ Window \in Nat \ {0} /\ \A a \in accepted : a.t \in Nat
  BY BoundsAssumption, LimiterAssumption DEF Calls
<1>1. CASE Accept
  <2>1. Cardinality(accepted) \in Nat
    BY FS_CardinalityType DEF Remembered
  <2>2. ThisCall \in Calls /\ ThisCall.t = clock
    BY <1>1, <2>1, BoundsAssumption DEF Accept, ThisCall, Calls
  <2>3. accepted' = accepted \cup {ThisCall} /\ hits' = Recent(clock) \cup {ThisCall}
        /\ clock' = clock /\ answer' = "granted"
    BY <1>1 DEF Accept
  <2>4. TypeOK'
    BY <2>2, <2>3, RecentFinite
  <2>5. IsFiniteSet(accepted')
    BY <2>3, FS_AddElement DEF Remembered
  <2>6. ASSUME NEW a \in accepted'
        PROVE  a.t <= clock' /\ (clock' - a.t < Window => a \in hits')
    <3>1. CASE a = ThisCall
      BY <1>0, <2>2, <2>3, <3>1
    <3>2. CASE a \in accepted
      BY <2>3, <3>2 DEF Remembered, Recent
    <3>3. QED BY <2>3, <3>1, <3>2
  <2>7. Numbered'
    <3>1. Cardinality(accepted') = Cardinality(accepted) + 1
      BY <2>3, CallsNumbered
    <3>2. ThisCall.n = Cardinality(accepted) + 1
      BY DEF ThisCall
    <3>3. \A a \in accepted : a.n \in Nat
      BY BoundsAssumption DEF Calls
    <3>4. QED BY <2>1, <2>3, <3>1, <3>2, <3>3 DEF Numbered
  <2>8. QED BY <2>4, <2>5, <2>6, <2>7 DEF Remembered
<1>2. CASE Refuse
  BY <1>2, RecentFinite DEF Refuse, Remembered, Recent, Numbered
<1>3. CASE Reset
  BY <1>3, FS_EmptySet DEF Reset, Remembered, Numbered
<1>4. CASE Tick
  <2>1. clock' = clock + 1 /\ clock' \in 0..TimeCap /\ hits' = hits /\ accepted' = accepted
        /\ answer' = "none"
    BY <1>4, BoundsAssumption DEF Tick
  <2>2. ASSUME NEW a \in accepted
        PROVE  a.t <= clock' /\ (clock' - a.t < Window => a \in hits)
    BY <1>0, <2>1 DEF Remembered
  <2>3. QED BY <2>1, <2>2 DEF Remembered, Numbered
<1>5. CASE UNCHANGED vars
  BY <1>5 DEF vars, Remembered, Numbered
<1>6. QED BY <1>1, <1>2, <1>3, <1>4, <1>5 DEF Next

THEOREM TypeCorrect == Spec => []TypeOK
<1>1. AirtimeInv => TypeOK
  BY DEF AirtimeInv
<1>2. QED BY <1>1, InitInv, StepInv, PTL DEF Spec

-----------------------------------------------------------------------------
(* The cap.                                                                *)

\* Any stretch of `Window` seconds holds at most `Max` accepted messages.  A
\* stretch that the newest call falls into contains only calls that are still
\* remembered when it is made, and those were fewer than `Max`.
THEOREM CapHolds == Spec => []AirtimeCapped
<1>1. Init => AirtimeCapped
  <2> SUFFICES ASSUME Init, NEW s \in 0..TimeCap
               PROVE  Cardinality(In(s, s + Window)) <= Max
    BY DEF AirtimeCapped
  <2>1. In(s, s + Window) = {}
    BY DEF Init, In
  <2>2. QED BY <2>1, FS_EmptySet, LimiterAssumption
<1>2. AirtimeInv /\ AirtimeCapped /\ [Next]_vars => AirtimeCapped'
  <2> SUFFICES ASSUME AirtimeInv, AirtimeCapped, [Next]_vars, NEW s \in 0..TimeCap
               PROVE  Cardinality(In(s, s + Window)') <= Max
    BY DEF AirtimeCapped, In
  <2>0. /\ clock \in Nat /\ Window \in Nat /\ s \in Nat /\ Max \in Nat
        /\ \A a \in accepted : a.t \in Nat
    BY BoundsAssumption, LimiterAssumption DEF AirtimeInv, TypeOK, Calls
  <2>1. CASE accepted' = accepted
    <3>1. In(s, s + Window)' = In(s, s + Window)
      BY <2>1 DEF In
    <3>2. QED BY <3>1 DEF AirtimeCapped
  <2>2. CASE Reset
    <3>1. In(s, s + Window)' = {}
      BY <2>2 DEF Reset, In
    <3>2. QED BY <2>0, <3>1, FS_EmptySet
  <2>3. CASE Accept
    <3>1. accepted' = accepted \cup {ThisCall} /\ ThisCall.t = clock
      BY <2>3 DEF Accept, ThisCall
    <3>2. CASE ~(s <= clock /\ clock < s + Window)
      <4>1. In(s, s + Window)' = In(s, s + Window)
        BY <3>1, <3>2 DEF In
      <4>2. QED BY <4>1 DEF AirtimeCapped
    <3>3. CASE s <= clock /\ clock < s + Window
      <4>1. In(s, s + Window) \subseteq Recent(clock)
        BY <2>0, <3>3 DEF In, Recent, AirtimeInv, Remembered
      <4>2. /\ IsFiniteSet(In(s, s + Window))
            /\ Cardinality(In(s, s + Window)) \in Nat
            /\ Cardinality(In(s, s + Window)) <= Cardinality(Recent(clock))
        BY <4>1, RecentFinite, FS_Subset, FS_CardinalityType
      <4>3. Cardinality(Recent(clock)) < Max
        BY <2>0, <2>3, RecentFinite DEF Accept, Full
      <4>4. In(s, s + Window)' = In(s, s + Window) \cup {ThisCall}
        BY <3>1, <3>3 DEF In
      <4>5. Cardinality(In(s, s + Window)') <= Cardinality(In(s, s + Window)) + 1
        BY <4>2, <4>4, FS_AddElement
      <4>6. Cardinality(In(s, s + Window)') \in Nat
        BY <4>2, <4>4, FS_AddElement, FS_CardinalityType
      <4>7. QED BY <2>0, <4>2, <4>3, <4>5, <4>6, RecentFinite
    <3>4. QED BY <3>2, <3>3
  <2>4. CASE Refuse \/ Tick \/ UNCHANGED vars
    BY <2>1, <2>4 DEF Refuse, Tick, vars
  <2>5. QED BY <2>2, <2>3, <2>4 DEF Next
<1>3. QED BY <1>1, <1>2, InitInv, StepInv, PTL DEF Spec

-----------------------------------------------------------------------------
(* The quota.                                                              *)

\* What the limiter looks at is what a perfect memory would look at.
LEMMA RecentIsAll ==
  ASSUME AirtimeInv
  PROVE  Recent(clock) = {a \in accepted : clock - a.t < Window}
BY DEF AirtimeInv, TypeOK, Remembered, Recent

LEMMA StepKeepsQuota == AirtimeInv /\ [Next]_vars => [Limit!Next]_(Limit!vars)
<1> SUFFICES ASSUME AirtimeInv, [Next]_vars
             PROVE  [Limit!Next]_(Limit!vars)
  OBVIOUS
<1>0. Limit!Used = Cardinality(Recent(clock)) /\ Limit!Used \in Nat /\ Max \in Nat
  BY RecentIsAll, RecentFinite, LimiterAssumption DEF Limit!Used, Limit!Cardinality, Cardinality
<1>1. CASE Accept
  <2>1. /\ accepted' = accepted \cup {ThisCall} /\ ThisCall.t = clock
        /\ answer' = "granted" /\ clock' = clock
    BY <1>1 DEF Accept, ThisCall
  <2>2. ThisCall \notin accepted
    BY <1>1, CallsNumbered DEF ThisCall
  <2>3. Limit!Used < Max
    BY <1>0, <1>1 DEF Accept, Full
  <2>4. Limit!Grant
    BY <2>1, <2>2, <2>3 DEF Limit!Grant
  <2>5. QED BY <2>4 DEF Limit!Next
<1>2. CASE Refuse
  <2>1. Limit!TurnAway
    BY <1>0, <1>2 DEF Refuse, Full, Limit!TurnAway
  <2>2. QED BY <2>1 DEF Limit!Next
<1>3. CASE Reset
  BY <1>3 DEF Reset, Limit!Empty, Limit!Next
<1>4. CASE Tick
  BY <1>4 DEF Tick, Limit!Pass, Limit!Next
<1>5. CASE UNCHANGED vars
  BY <1>5 DEF vars, Limit!vars
<1>6. QED BY <1>1, <1>2, <1>3, <1>4, <1>5 DEF Next

\* The limiter decides every request as one that never forgets a call would.
THEOREM ImplementsQuota == Spec => QuotaKept
<1>1. Init => Limit!Init
  BY DEF Init, Limit!Init
<1>2. QED BY <1>1, InitInv, StepInv, StepKeepsQuota, PTL DEF Spec, QuotaKept, Limit!Spec

-----------------------------------------------------------------------------
(* Signing in.                                                             *)

(* The type invariant, split by what a step may touch.                     *)

LoginType ==
  login \in [Logins -> {Away} \cup [at : {"stamped"}, client : Clients, now : Times]
                              \cup [at : {"allowed"}]
                              \cup [at : {"minting"}, now : Times]]
AttemptType ==
  /\ bucket \in [Clients -> SUBSET attempts]
  /\ attempts \subseteq Attempts
SessionType ==
  /\ DOMAIN issued \in SUBSET Tokens /\ dropped \subseteq DOMAIN issued
  /\ \A k \in DOMAIN issued : issued[k] \in 0..(TimeCap + Ttl)
  /\ DOMAIN sessions \subseteq DOMAIN issued

LEMMA TypeParts ==
  /\ SignInTypeOK <=> clock \in Times /\ LoginType /\ AttemptType /\ SessionType
  /\ SignInTypeOK' <=> clock' \in Times /\ LoginType' /\ AttemptType' /\ SessionType'
BY DEF SignInTypeOK, LoginType, AttemptType, SessionType

\* A thread's time is not of the future, and that of one waiting for the
\* limiter's lock is at most Stale old.
StampsRecent ==
  \A p \in Logins :
    /\ login[p].at = "stamped" => login[p].now <= clock /\ clock - login[p].now <= Stale
    /\ login[p].at = "minting" => login[p].now <= clock

\* An attempt was decided at most Stale after the time it is remembered by, and
\* is remembered while it is younger than the window.
AttemptsRemembered ==
  /\ IsFiniteSet(attempts)
  /\ \A a \in attempts :
       /\ a.t <= a.at /\ a.at <= clock /\ a.at - a.t <= Stale
       /\ clock - a.t < LoginWindow => a \in bucket[a.client]

\* Tokens are numbered as they are created; the table has the expiry a session
\* was created with, and every session that is still good.
Tabled ==
  /\ IsFiniteSet(DOMAIN issued)
  /\ \A k \in DOMAIN issued : k <= Cardinality(DOMAIN issued)
  /\ \A k \in DOMAIN sessions : sessions[k] = issued[k] /\ k \notin dropped
  /\ \A k \in DOMAIN issued : k \notin dropped /\ clock <= issued[k] => k \in DOMAIN sessions

SessionsInv == SignInTypeOK /\ StampsRecent /\ AttemptsRemembered /\ Tabled

LEMMA InitSignIn == SignInInit => SessionsInv
<1> SUFFICES ASSUME SignInInit PROVE SessionsInv
  OBVIOUS
<1> USE LoginBounds, TypeParts DEF SignInInit
<1>1. DOMAIN issued = {} /\ DOMAIN sessions = {}
  OBVIOUS
<1>2. SignInTypeOK
  BY <1>1 DEF LoginType, AttemptType, SessionType, Times
<1>3. StampsRecent
  BY DEF StampsRecent, Away
<1>4. AttemptsRemembered /\ Tabled
  BY <1>1, FS_EmptySet DEF AttemptsRemembered, Tabled
<1>5. QED BY <1>2, <1>3, <1>4 DEF SessionsInv

\* A thread that has a time has a client, if the limiter is to decide.
LEMMA ThreadType ==
  ASSUME LoginType, NEW p \in Logins
  PROVE  /\ login[p].at = "stamped" => login[p].client \in Clients /\ login[p].now \in Times
         /\ login[p].at = "minting" => login[p].now \in Times
BY DEF LoginType, Away

\* The attempts the limiter counts are finitely many and the client's.
LEMMA CountedFinite ==
  ASSUME SessionsInv, NEW c \in Clients, NEW now
  PROVE  /\ Counted(c, now) \subseteq attempts
         /\ IsFiniteSet(Counted(c, now)) /\ Cardinality(Counted(c, now)) \in Nat
<1>1. Counted(c, now) \subseteq attempts
  BY TypeParts DEF SessionsInv, AttemptType, Counted
<1>2. QED BY <1>1, FS_Subset, FS_CardinalityType DEF SessionsInv, AttemptsRemembered

\* A set has at most one element more when one is added.
LEMMA OneMore ==
  ASSUME NEW S, NEW x, IsFiniteSet(S)
  PROVE  /\ Cardinality(S) \in Nat /\ Cardinality(S \cup {x}) \in Nat
         /\ Cardinality(S \cup {x}) <= Cardinality(S) + 1
<1>1. Cardinality(S) \in Nat
  BY FS_CardinalityType
<1>2. QED BY <1>1, FS_AddElement

-----------------------------------------------------------------------------
(* One lemma per part of the state that a step works on.                   *)

\* A thread moves on and leaves limiter and sessions alone.
LEMMA ThreadStep ==
  ASSUME SessionsInv, UNCHANGED <<clock, bucket, attempts, sessions, issued, dropped>>,
         LoginType', StampsRecent'
  PROVE  SessionsInv'
BY TypeParts DEF SessionsInv, AttemptType, SessionType, AttemptsRemembered, Tabled

\* The table changes and leaves limiter and threads alone.
LEMMA TableStep ==
  ASSUME SessionsInv, UNCHANGED <<clock, login, bucket, attempts>>, SessionType', Tabled'
  PROVE  SessionsInv'
BY TypeParts DEF SessionsInv, LoginType, AttemptType, AttemptsRemembered, StampsRecent

\* The limiter decides by the time a thread has read: what it prunes left the
\* window by an even earlier time than the present one.
LEMMA LetThroughStep ==
  ASSUME SessionsInv, NEW p \in Logins, LetThrough(p)
  PROVE  SessionsInv'
<1> DEFINE c == login[p].client
           now == login[p].now
           hit == [n |-> Cardinality(attempts) + 1, client |-> c, t |-> now, at |-> clock]
<1> USE TypeParts DEF SessionsInv
<1>1. /\ login[p].at = "stamped" /\ c \in Clients /\ now \in Times
      /\ now <= clock /\ clock - now <= Stale
  BY ThreadType DEF LetThrough, StampsRecent
<1>2. /\ bucket' = [bucket EXCEPT ![c] = Counted(c, now) \cup {hit}]
      /\ attempts' = attempts \cup {hit}
      /\ login' = [login EXCEPT ![p] = [at |-> "allowed"]]
      /\ Cardinality(attempts) < AttemptCap
      /\ UNCHANGED <<clock, sessions, issued, dropped>>
  BY DEF LetThrough
<1>0. clock \in Nat /\ LoginWindow \in Nat /\ Stale \in Nat /\ TimeCap \in Nat
      /\ \A a \in attempts : a.t \in Nat /\ a.at \in Nat /\ a.client \in Clients
  BY LoginBounds, LoginAssumption DEF Times, Attempts, AttemptType
<1>3. hit \in Attempts
  <2>1. Cardinality(attempts) \in Nat
    BY FS_CardinalityType DEF AttemptsRemembered
  <2>2. QED BY <1>1, <1>2, <2>1, LoginBounds DEF Attempts
<1> HIDE DEF hit
<1>4. hit.t = now /\ hit.at = clock /\ hit.client = c
  BY DEF hit
<1>5. AttemptType'
  BY <1>1, <1>2, <1>3, CountedFinite DEF AttemptType
<1>6. LoginType'
  BY <1>2 DEF LoginType
<1>7. StampsRecent'
  <2>1. ASSUME NEW q \in Logins PROVE login'[q] = login[q] \/ login'[q].at = "allowed"
    BY <1>2 DEF LoginType
  <2>2. QED BY <1>2, <2>1 DEF StampsRecent
<1>8. IsFiniteSet(attempts')
  BY <1>2, FS_AddElement DEF AttemptsRemembered
<1>9. ASSUME NEW a \in attempts'
      PROVE  /\ a.t <= a.at /\ a.at <= clock' /\ a.at - a.t <= Stale
             /\ clock' - a.t < LoginWindow => a \in bucket'[a.client]
  <2>1. CASE a = hit
    <3>1. hit \in bucket'[c]
      BY <1>1, <1>2 DEF AttemptType
    <3>2. now \in Nat /\ clock' = clock
      BY <1>1, <1>2, LoginBounds DEF Times
    <3>3. QED BY <1>0, <1>1, <1>4, <2>1, <3>1, <3>2
  <2>2. CASE a \in attempts
    <3>1. /\ a.t <= a.at /\ a.at <= clock' /\ a.at - a.t <= Stale
          /\ clock - a.t < LoginWindow => a \in bucket[a.client]
      BY <1>2, <2>2 DEF AttemptsRemembered
    <3>2. CASE a.client # c
      <4>1. bucket'[a.client] = bucket[a.client]
        BY <1>0, <1>2, <2>2, <3>2 DEF AttemptType
      <4>2. QED BY <1>2, <3>1, <4>1
    <3>3. CASE a.client = c
      <4>1. bucket'[c] = Counted(c, now) \cup {hit}
        BY <1>1, <1>2 DEF AttemptType
      <4>2. now \in Nat
        BY <1>1, LoginBounds DEF Times
      <4>3. clock - a.t < LoginWindow => now - a.t < LoginWindow
        BY <1>0, <1>1, <2>2, <4>2
      <4>4. QED BY <1>2, <3>1, <3>3, <4>1, <4>3 DEF Counted
    <3>4. QED BY <3>2, <3>3
  <2>3. QED BY <1>2, <2>1, <2>2
<1>10. AttemptsRemembered'
  BY <1>8, <1>9 DEF AttemptsRemembered
<1>11. SessionType' /\ Tabled' /\ clock' \in Times
  BY <1>2 DEF SessionType, Tabled
<1>12. QED BY <1>5, <1>6, <1>7, <1>10, <1>11

LEMMA TurnAwayStep ==
  ASSUME SessionsInv, NEW p \in Logins, TurnAway(p)
  PROVE  SessionsInv'
<1> DEFINE c == login[p].client
           now == login[p].now
<1> USE TypeParts DEF SessionsInv
<1>1. /\ login[p].at = "stamped" /\ c \in Clients /\ now \in Times
      /\ now <= clock /\ clock - now <= Stale
  BY ThreadType DEF TurnAway, StampsRecent
<1>2. /\ bucket' = [bucket EXCEPT ![c] = Counted(c, now)]
      /\ login' = [login EXCEPT ![p] = Away]
      /\ UNCHANGED <<clock, attempts, sessions, issued, dropped>>
  BY DEF TurnAway
<1>0. clock \in Nat /\ LoginWindow \in Nat /\ TimeCap \in Nat /\ now \in Nat
      /\ \A a \in attempts : a.t \in Nat /\ a.client \in Clients
  BY <1>1, LoginBounds, LoginAssumption DEF Times, Attempts, AttemptType
<1>3. AttemptType'
  BY <1>1, <1>2, CountedFinite DEF AttemptType
<1>4. LoginType'
  BY <1>2 DEF LoginType
<1>5. StampsRecent'
  <2>1. ASSUME NEW q \in Logins PROVE login'[q] = login[q] \/ login'[q] = Away
    BY <1>2 DEF LoginType
  <2>2. QED BY <1>2, <2>1 DEF StampsRecent, Away
<1>6. ASSUME NEW a \in attempts, clock - a.t < LoginWindow
      PROVE  a \in bucket'[a.client]
  <2>1. a \in bucket[a.client]
    BY <1>6 DEF AttemptsRemembered
  <2>2. CASE a.client # c
    BY <1>0, <1>2, <2>1, <2>2 DEF AttemptType
  <2>3. CASE a.client = c
    <3>1. bucket'[c] = Counted(c, now)
      BY <1>1, <1>2 DEF AttemptType
    <3>2. now - a.t < LoginWindow
      BY <1>0, <1>1, <1>6
    <3>3. QED BY <2>1, <2>3, <3>1, <3>2 DEF Counted
  <2>4. QED BY <2>2, <2>3
<1>7. AttemptsRemembered'
  BY <1>2, <1>6 DEF AttemptsRemembered
<1>8. SessionType' /\ Tabled' /\ clock' \in Times
  BY <1>2 DEF SessionType, Tabled
<1>9. QED BY <1>3, <1>4, <1>5, <1>7, <1>8

\* A new session gets a token no session had; what is pruned has expired.
LEMMA CreateStep ==
  ASSUME SessionsInv, NEW p \in Logins, Create(p)
  PROVE  SessionsInv'
<1> DEFINE now == login[p].now
           new == Cardinality(DOMAIN issued) + 1
<1> USE TypeParts DEF SessionsInv
<1>1. now \in Times /\ now <= clock
  BY ThreadType DEF Create, StampsRecent
<1>0. now \in Nat /\ clock \in Nat /\ Ttl \in Nat /\ TimeCap \in Nat /\ now <= TimeCap
      /\ \A k \in DOMAIN issued : issued[k] \in Nat /\ k \in Nat
  BY <1>1, LoginBounds, LoginAssumption DEF Times, Tokens, SessionType
<1>2. /\ new \in Tokens
      /\ sessions' = [k \in Unexpired(now) \cup {new} |->
                        IF k = new THEN now + Ttl ELSE sessions[k]]
      /\ issued' = [k \in DOMAIN issued \cup {new} |->
                      IF k = new THEN now + Ttl ELSE issued[k]]
      /\ login' = [login EXCEPT ![p] = Away]
      /\ UNCHANGED <<clock, bucket, attempts, dropped>>
  BY DEF Create
<1>3. /\ Cardinality(DOMAIN issued) \in Nat /\ new \notin DOMAIN issued
      /\ IsFiniteSet(DOMAIN issued \cup {new})
      /\ Cardinality(DOMAIN issued \cup {new}) = Cardinality(DOMAIN issued) + 1
  <2>1. Cardinality(DOMAIN issued) \in Nat
    BY FS_CardinalityType DEF Tabled
  <2>2. new \notin DOMAIN issued
    BY <1>0, <2>1 DEF Tabled
  <2>3. QED BY <2>1, <2>2, FS_AddElement DEF Tabled
<1> HIDE DEF new
<1>4. DOMAIN issued' = DOMAIN issued \cup {new}
      /\ DOMAIN sessions' = Unexpired(now) \cup {new}
      /\ Unexpired(now) \subseteq DOMAIN sessions
      /\ DOMAIN sessions \subseteq DOMAIN issued /\ new \notin dropped
  BY <1>2, <1>3 DEF Unexpired, SessionType
<1>5. SessionType'
  BY <1>0, <1>2, <1>4 DEF SessionType
<1>6. \A k \in DOMAIN issued' : k <= Cardinality(DOMAIN issued')
  BY <1>0, <1>3, <1>4 DEF Tabled, new
<1>7. \A k \in DOMAIN sessions' : sessions'[k] = issued'[k] /\ k \notin dropped'
  BY <1>2, <1>3, <1>4 DEF Tabled
<1>8. ASSUME NEW k \in DOMAIN issued', k \notin dropped', clock' <= issued'[k]
      PROVE  k \in DOMAIN sessions'
  <2>1. CASE k = new
    BY <1>4, <2>1
  <2>2. CASE k # new
    <3>1. k \in DOMAIN issued /\ issued'[k] = issued[k]
      BY <1>2, <1>4, <2>2
    <3>2. k \in DOMAIN sessions /\ sessions[k] = issued[k]
      BY <1>2, <1>8, <3>1 DEF Tabled
    <3>3. now <= sessions[k]
      BY <1>0, <1>1, <1>2, <1>8, <3>1, <3>2
    <3>4. QED BY <1>4, <3>2, <3>3 DEF Unexpired
  <2>3. QED BY <2>1, <2>2
<1>9. Tabled'
  BY <1>3, <1>4, <1>6, <1>7, <1>8 DEF Tabled
<1>10. LoginType'
  BY <1>2 DEF LoginType
<1>11. StampsRecent'
  <2>1. ASSUME NEW q \in Logins PROVE login'[q] = login[q] \/ login'[q] = Away
    BY <1>2 DEF LoginType
  <2>2. QED BY <1>2, <2>1 DEF StampsRecent, Away
<1>12. AttemptType' /\ AttemptsRemembered' /\ clock' \in Times
  BY <1>2 DEF AttemptType, AttemptsRemembered
<1>13. QED BY <1>5, <1>9, <1>10, <1>11, <1>12

LEMMA PresentStep ==
  ASSUME SessionsInv, NEW k, Present(k)
  PROVE  SessionsInv'
<1> USE TypeParts DEF SessionsInv
<1>1. /\ sessions' = sessions \/ (/\ ~Honoured(k) /\ k \in DOMAIN sessions
                                  /\ sessions' = [j \in DOMAIN sessions \ {k} |-> sessions[j]])
      /\ UNCHANGED <<clock, login, bucket, attempts, issued, dropped>>
  BY DEF Present, After
<1>2. CASE sessions' = sessions
  BY <1>1, <1>2, TableStep DEF SessionType, Tabled
<1>3. CASE /\ ~Honoured(k) /\ k \in DOMAIN sessions
           /\ sessions' = [j \in DOMAIN sessions \ {k} |-> sessions[j]]
  <2>1. ~(sessions[k] >= clock) /\ sessions[k] = issued[k]
    BY <1>3 DEF Honoured, Tabled
  <2>2. SessionType'
    BY <1>1, <1>3 DEF SessionType
  <2>3. Tabled'
    BY <1>1, <1>3, <2>1 DEF Tabled
  <2>4. QED BY <1>1, <2>2, <2>3, TableStep
<1>4. QED BY <1>1, <1>2, <1>3

LEMMA LogoutStep ==
  ASSUME SessionsInv, NEW k, Logout(k)
  PROVE  SessionsInv'
<1> USE TypeParts DEF SessionsInv
<1>1. /\ sessions' = [j \in DOMAIN sessions \ {k} |-> sessions[j]]
      /\ k \in DOMAIN issued /\ dropped' = dropped \cup {k}
      /\ UNCHANGED <<clock, login, bucket, attempts, issued>>
  BY DEF Logout
<1>2. SessionType' /\ Tabled'
  BY <1>1 DEF SessionType, Tabled
<1>3. QED BY <1>1, <1>2, TableStep

\* Time passes: an attempt may leave the window and a session may expire, but
\* no stamp gets older than Stale.
LEMMA TickStep ==
  ASSUME SessionsInv, SignInTick
  PROVE  SessionsInv'
<1> USE TypeParts DEF SessionsInv
<1>1. /\ clock' = clock + 1 /\ clock \in Nat /\ clock' \in Times
      /\ UNCHANGED <<login, bucket, attempts, sessions, issued, dropped>>
  BY LoginBounds DEF SignInTick, Times
<1>2. StampsRecent'
  <2>1. \A p \in Logins : login[p].at = "stamped" => clock - login[p].now < Stale
    BY DEF SignInTick
  <2>2. \A p \in Logins : login[p].at \in {"stamped", "minting"} => login[p].now \in Nat
    BY ThreadType, LoginBounds DEF Times
  <2>3. QED BY <1>1, <2>1, <2>2, LoginAssumption DEF StampsRecent
<1>3. AttemptsRemembered'
  <2>1. \A a \in attempts : a.t \in Nat /\ a.at \in Nat
    BY LoginBounds DEF AttemptType, Attempts, Times
  <2>2. QED BY <1>1, <2>1, LoginAssumption DEF AttemptsRemembered
<1>4. Tabled'
  <2>1. \A k \in DOMAIN issued : issued[k] \in Nat
    BY LoginBounds, LoginAssumption DEF SessionType
  <2>2. QED BY <1>1, <2>1 DEF Tabled
<1>5. LoginType' /\ AttemptType' /\ SessionType'
  BY <1>1 DEF LoginType, AttemptType, SessionType
<1>6. QED BY <1>1, <1>2, <1>3, <1>4, <1>5

LEMMA RestartStep ==
  ASSUME SessionsInv, Restart
  PROVE  SessionsInv'
<1> USE LoginBounds, TypeParts DEF SessionsInv, Restart
<1>1. DOMAIN issued' = {} /\ DOMAIN sessions' = {}
  OBVIOUS
<1>2. SignInTypeOK'
  BY <1>1 DEF LoginType, AttemptType, SessionType, Times
<1>3. StampsRecent'
  BY DEF StampsRecent, Away
<1>4. AttemptsRemembered' /\ Tabled'
  BY <1>1, FS_EmptySet DEF AttemptsRemembered, Tabled
<1>5. QED BY <1>2, <1>3, <1>4

LEMMA StepSignIn == SessionsInv /\ [SignInNext]_signInVars => SessionsInv'
<1> SUFFICES ASSUME SessionsInv, [SignInNext]_signInVars
             PROVE  SessionsInv'
  OBVIOUS
<1> USE TypeParts DEF SessionsInv
<1>1. ASSUME NEW p \in Logins, NEW c \in Clients, ReadClock(p, c)
      PROVE  SessionsInv'
  <2>1. /\ login' = [login EXCEPT ![p] = [at |-> "stamped", client |-> c, now |-> clock]]
        /\ UNCHANGED <<clock, bucket, attempts, sessions, issued, dropped>>
    BY <1>1 DEF ReadClock
  <2>2. LoginType'
    BY <2>1 DEF LoginType
  <2>3. clock \in Nat
    BY LoginBounds DEF Times
  <2>4. StampsRecent'
    <3>1. ASSUME NEW q \in Logins
          PROVE  login'[q] = login[q] \/ (login'[q].at = "stamped" /\ login'[q].now = clock)
      BY <2>1 DEF LoginType
    <3>2. QED BY <2>1, <2>3, <3>1, LoginAssumption DEF StampsRecent
  <2>5. QED BY <2>1, <2>2, <2>4, ThreadStep
<1>2. ASSUME NEW p \in Logins, Mismatch(p)
      PROVE  SessionsInv'
  <2>1. /\ login' = [login EXCEPT ![p] = Away]
        /\ UNCHANGED <<clock, bucket, attempts, sessions, issued, dropped>>
    BY <1>2 DEF Mismatch
  <2>2. LoginType'
    BY <2>1 DEF LoginType
  <2>3. ASSUME NEW q \in Logins PROVE login'[q] = login[q] \/ login'[q] = Away
    BY <2>1 DEF LoginType
  <2>4. StampsRecent'
    BY <2>1, <2>3 DEF StampsRecent, Away
  <2>5. QED BY <2>1, <2>2, <2>4, ThreadStep
<1>3. ASSUME NEW p \in Logins, Match(p)
      PROVE  SessionsInv'
  <2>1. /\ login' = [login EXCEPT ![p] = [at |-> "minting", now |-> clock]]
        /\ UNCHANGED <<clock, bucket, attempts, sessions, issued, dropped>>
    BY <1>3 DEF Match
  <2>2. LoginType'
    BY <2>1 DEF LoginType
  <2>3. clock \in Nat
    BY LoginBounds DEF Times
  <2>4. ASSUME NEW q \in Logins
        PROVE  login'[q] = login[q] \/ (login'[q].at = "minting" /\ login'[q].now = clock)
    BY <2>1 DEF LoginType
  <2>5. StampsRecent'
    BY <2>1, <2>3, <2>4 DEF StampsRecent
  <2>6. QED BY <2>1, <2>2, <2>5, ThreadStep
<1>4. CASE UNCHANGED signInVars
  BY <1>4 DEF signInVars, LoginType, AttemptType, SessionType, StampsRecent, AttemptsRemembered, Tabled
<1>5. QED
  BY <1>1, <1>2, <1>3, <1>4, LetThroughStep, TurnAwayStep, CreateStep, PresentStep,
     LogoutStep, TickStep, RestartStep DEF SignInNext, Login

-----------------------------------------------------------------------------
\* Threads, limiter and session table keep their types.
THEOREM SignInTypeCorrect == SignInSpec => []SignInTypeOK
<1>1. SessionsInv => SignInTypeOK
  BY DEF SessionsInv
<1>2. QED BY <1>1, InitSignIn, StepSignIn, PTL DEF SignInSpec

\* A session is honoured from its creation until it expires or is signed out
\* of, and never after.
THEOREM SessionsSound == SignInSpec => []HonouredWhileGood
<1>1. SessionsInv => HonouredWhileGood
  <2> SUFFICES ASSUME SessionsInv, NEW k \in DOMAIN issued
               PROVE  Honoured(k) <=> k \notin dropped /\ clock <= issued[k]
    BY DEF HonouredWhileGood
  <2>1. issued[k] \in Nat /\ clock \in Nat
    BY LoginBounds, LoginAssumption, TypeParts DEF SessionsInv, SessionType, Times
  <2>2. QED BY <2>1 DEF SessionsInv, Tabled, Honoured
<1>2. QED BY <1>1, InitSignIn, StepSignIn, PTL DEF SignInSpec

\* No client gets more than MaxAttempts through in a stretch shorter than the
\* window by what a thread may be late.  An attempt of the stretch the newest
\* one falls into was stamped at most Stale before the stretch, so that it is
\* still remembered, and still counted by a time read in the past.
THEOREM LoginsCapped == SignInSpec => []AttemptsCapped
<1>1. SignInInit => AttemptsCapped
  <2> SUFFICES ASSUME SignInInit, NEW c \in Clients, NEW s \in Times
               PROVE  Cardinality(Between(c, s, s + LoginWindow - Stale)) <= MaxAttempts
    BY DEF AttemptsCapped
  <2>1. Between(c, s, s + LoginWindow - Stale) = {}
    BY DEF SignInInit, Between
  <2>2. Cardinality({}) = 0
    BY FS_EmptySet
  <2>3. QED BY <2>1, <2>2, LoginAssumption
<1>2. SessionsInv /\ AttemptsCapped /\ [SignInNext]_signInVars => AttemptsCapped'
  <2> SUFFICES ASSUME SessionsInv, AttemptsCapped, [SignInNext]_signInVars,
                      NEW c \in Clients, NEW s \in Times
               PROVE  Cardinality(Between(c, s, s + LoginWindow - Stale)') <= MaxAttempts
    BY DEF AttemptsCapped, Between
  <2> DEFINE to == s + LoginWindow - Stale
  <2>0. /\ clock \in Nat /\ LoginWindow \in Nat /\ Stale \in Nat /\ s \in Nat
        /\ MaxAttempts \in Nat /\ \A a \in attempts : a.t \in Nat /\ a.at \in Nat
    BY LoginBounds, LoginAssumption, TypeParts DEF SessionsInv, AttemptType, Attempts, Times
  <2>1. CASE attempts' = attempts
    <3>1. Between(c, s, to)' = Between(c, s, to)
      BY <2>1 DEF Between
    <3>2. QED BY <3>1 DEF AttemptsCapped
  <2>2. CASE Restart
    <3>1. attempts' = {}
      BY <2>2 DEF Restart
    <3>2. Between(c, s, to)' = {}
      BY <3>1 DEF Between
    <3>3. Cardinality(Between(c, s, to)') = 0
      BY <3>2, FS_EmptySet
    <3>4. QED BY <2>0, <3>3
  <2>3. ASSUME NEW p \in Logins, LetThrough(p)
        PROVE  Cardinality(Between(c, s, to)') <= MaxAttempts
    <3> DEFINE now == login[p].now
               hit == [n |-> Cardinality(attempts) + 1, client |-> login[p].client,
                       t |-> now, at |-> clock]
    <3>1. /\ attempts' = attempts \cup {hit} /\ login[p].client \in Clients
          /\ Cardinality(Counted(login[p].client, now)) < MaxAttempts
          /\ now \in Nat /\ now <= clock
      BY <2>3, ThreadType, LoginBounds, TypeParts
         DEF LetThrough, SessionsInv, StampsRecent, Times
    <3>2. hit.client = login[p].client /\ hit.at = clock
      OBVIOUS
    <3> HIDE DEF hit
    <3>3. CASE ~(c = login[p].client /\ s <= clock /\ clock < s + LoginWindow - Stale)
      <4>1. Between(c, s, to)' = Between(c, s, to)
        BY <3>1, <3>2, <3>3 DEF Between
      <4>2. QED BY <4>1 DEF AttemptsCapped
    <3>4. CASE c = login[p].client /\ s <= clock /\ clock < s + LoginWindow - Stale
      <4>1. ASSUME NEW a \in Between(c, s, to)
            PROVE  a \in Counted(c, now)
        <5>1. /\ a \in attempts /\ a.client = c /\ s <= a.at
              /\ a.at - a.t <= Stale
              /\ clock - a.t < LoginWindow => a \in bucket[c]
          BY <4>1 DEF Between, SessionsInv, AttemptsRemembered
        <5>2. clock - a.t < LoginWindow /\ now - a.t < LoginWindow
          BY <2>0, <3>1, <3>4, <5>1
        <5>3. QED BY <5>1, <5>2 DEF Counted
      <4>2. /\ IsFiniteSet(Between(c, s, to)) /\ Cardinality(Between(c, s, to)) \in Nat
            /\ Cardinality(Between(c, s, to)) <= Cardinality(Counted(c, now))
        BY <4>1, CountedFinite, FS_Subset, FS_CardinalityType
      <4>3. Between(c, s, to)' = Between(c, s, to) \cup {hit}
        BY <3>1, <3>2, <3>4 DEF Between
      <4>4. /\ Cardinality(Between(c, s, to)') <= Cardinality(Between(c, s, to)) + 1
            /\ Cardinality(Between(c, s, to)') \in Nat
        BY <4>2, <4>3, OneMore
      <4>5. Cardinality(Counted(c, now)) \in Nat
        BY CountedFinite
      <4>6. QED BY <2>0, <3>1, <3>4, <4>2, <4>4, <4>5
    <3>5. QED BY <3>3, <3>4
  <2>4. ASSUME ~Restart, \A p \in Logins : ~LetThrough(p)
        PROVE  attempts' = attempts
    BY <2>4 DEF SignInNext, Login, ReadClock, TurnAway, Mismatch, Match, Create, Present,
                Logout, SignInTick, signInVars
  <2>5. QED BY <2>1, <2>2, <2>3, <2>4
<1>3. QED BY <1>1, <1>2, InitSignIn, StepSignIn, PTL DEF SignInSpec
=============================================================================
