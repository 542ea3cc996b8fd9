--------------------------- MODULE IdentityProofs ---------------------------
(***************************************************************************)
(* Proofs about Identity: its sessions and accounts (IdentitySessions),    *)
(* and the configuration that reaches it from Platform                     *)
(* (ConfigurationSync).  The two share no state.                           *)
(*                                                                         *)
(* The safety properties of one account hold for every number of handlers, *)
(* random values and clock readings, and for every setting of the grace    *)
(* period, the lifetimes and the lockout.  The invariant has three parts   *)
(* beside the types: which secrets the answers so far have used up, which  *)
(* token versions they carry, and that no handler's clock reading is       *)
(* ahead of the clock.                                                     *)
(***************************************************************************)
EXTENDS IdentitySessions, ConfigurationSync, TLAPS

-----------------------------------------------------------------------------
(***************************************************************************)
(* Rotation.  The current secret of a session has not been presented, and  *)
(* whoever has presented the previous one got the stored token.  Secrets   *)
(* in circulation have been drawn, so a new one differs from all of them.  *)
(***************************************************************************)
SessionOK(s) ==
  session[s].present =>
    /\ s \in drawn
    /\ session[s].digest \in drawn
    /\ session[s].cipher \in Tokens
    /\ session[s].cipher.secret \in drawn

GrantOK(g) ==
  /\ session[g.session].present
  /\ g.token.secret \in drawn
  /\ g.from \in drawn \cup {None}
  /\ g.from # session[g.session].digest
  /\ g.from # None /\ g.from = session[g.session].previous =>
       g.token = session[g.session].cipher

Bearing == {"reading", "rotating"}

BearerOK(p) ==
  request[p].pc \in Bearing =>
    /\ request[p].token \in Tokens
    /\ request[p].token.secret \in drawn
    /\ session[request[p].token.sid].present

Rotation ==
  /\ \A s \in Ids : SessionOK(s)
  /\ \A g \in grants : GrantOK(g)
  /\ OneSuccessor
  /\ \A p \in Requests : BearerOK(p)

(***************************************************************************)
(* Versions.  An answer carries a version the account has had, and so will *)
(* one that is still to come; the reset and the deactivation advance the   *)
(* version in the transaction that revokes the sessions.                   *)
(***************************************************************************)
VersionOK(g) ==
  /\ g.version <= account.version
  /\ g.version = account.version =>
       /\ session[g.session].revoked \notin {"password_reset", "account_deactivated"}
       /\ account.status # "disabled"

Answering == {"opening", "rotating"}

AnswerOK(p) ==
  request[p].pc \in Answering =>
    /\ request[p].version <= account.version
    /\ request[p].version = account.version => account.status # "disabled"

Versions ==
  /\ \A g \in grants : VersionOK(g)
  /\ \A p \in Requests : AnswerOK(p)

Clocks == \A p \in Requests : request[p].now <= clock

IInv == TypeOK /\ LockTrips /\ Rotation /\ Versions /\ Clocks

-----------------------------------------------------------------------------
Kinds == {"email_verification", "password_reset", None}

Steps == {"idle", "completing", "failing", "opening", "reading", "rotating",
          "deactivating", "issuing", "enqueuing"}

Request == [pc : Steps, now : Times, token : Tokens \cup {None}, kind : Kinds,
            version : Nat, victims : SUBSET ActionTokens]

Account == [status : Statuses, verified : BOOLEAN, password : Passwords,
            version : Nat, attempts : 0 .. FailureThreshold,
            lockedUntil : Times]

Action == [kind : Kinds, state : {"absent", "unused", "used", "deleted"},
           expires : Times]

LEMMA TypeParts ==
  TypeOK <=> /\ clock \in 1 .. MaxTime
             /\ account \in Account
             /\ session \in [Ids -> Sessions]
             /\ action \in [ActionTokens -> Action]
             /\ grants \subseteq Grants
             /\ drawn \subseteq Ids
             /\ request \in [Requests -> Request]
  BY DEF TypeOK, Account, Action, Request, Kinds, Steps

\* What is a clock reading, or one of the configured durations later.
LEMMA Timely ==
  ASSUME NEW t \in Nat, t <= MaxTime
  PROVE  /\ t \in Times
         /\ t + IdleTTL \in Times
         /\ t + AbsoluteTTL \in Times
         /\ t + ActionTTL \in Times
         /\ t + LockDuration \in Times
         /\ 0 \in Times
  BY SessionAssumption DEF Times

LEMMA Reading ==
  ASSUME IInv
  PROVE  /\ clock \in Nat /\ clock <= MaxTime
         /\ clock \in Times
         /\ \A p \in Requests : request[p].now \in Nat /\ request[p].now <= MaxTime
  <1>1. clock \in Nat /\ clock <= MaxTime
    BY SessionAssumption DEF IInv, TypeOK
  <1>2. ASSUME NEW p \in Requests
        PROVE  request[p].now \in Nat /\ request[p].now <= MaxTime
    <2>1. request[p] \in Request
      BY TypeParts DEF IInv
    <2>2. request[p].now \in Times /\ request[p].now <= clock
      BY <2>1 DEF IInv, Clocks, Request
    <2> QED
      BY <1>1, <2>2, SessionAssumption DEF Times
  <1> QED
    BY <1>1, <1>2, Timely

LEMMA Markers ==
  /\ Idle \in Request
  /\ NoSession \in Sessions
  <1>1. 0 \in Times
    BY SessionAssumption DEF Times
  <1> QED
    BY <1>1 DEF Idle, Request, Steps, Kinds, NoSession, Sessions, RevokedReasons

LEMMA InitInv == Init => IInv
  <1> SUFFICES ASSUME Init PROVE IInv
    OBVIOUS
  <1>1. 1 \in Nat /\ 1 <= MaxTime
    BY SessionAssumption
  <1>2. 0 \in Times /\ 1 + ActionTTL \in Times
    BY <1>1, Timely
  <1>3. account \in Account
    BY <1>2, SessionAssumption DEF Init, Account, Statuses
  <1>4. action \in [ActionTokens -> Action]
    BY <1>2 DEF Init, Action, Kinds
  <1>5. TypeOK
    BY <1>1, <1>3, <1>4, Markers, TypeParts, SessionAssumption DEF Init
  <1>6. LockTrips
    BY SessionAssumption DEF Init, LockTrips
  <1>7. Rotation
    BY DEF Init, Rotation, SessionOK, NoSession, OneSuccessor, BearerOK, Bearing,
           Idle
  <1>8. Versions
    BY DEF Init, Versions, AnswerOK, Answering, Idle
  <1>9. Clocks
    BY DEF Init, Clocks, Idle
  <1> QED
    BY <1>5, <1>6, <1>7, <1>8, <1>9 DEF IInv

-----------------------------------------------------------------------------
(***************************************************************************)
(* What most steps have in common.                                         *)
(***************************************************************************)
\* A step that answers nobody and rotates nothing keeps the first part if a
\* handler that holds a token after it held it before, or got a drawn one.
LEMMA RotationKept ==
  ASSUME TypeOK, Rotation, grants' = grants, drawn' = drawn,
         \A s \in Ids :
           /\ session'[s].present = session[s].present
           /\ session'[s].digest = session[s].digest
           /\ session'[s].previous = session[s].previous
           /\ session'[s].cipher = session[s].cipher,
         \A p \in Requests : request'[p].pc \in Bearing =>
           \/ request[p].pc \in Bearing /\ request'[p].token = request[p].token
           \/ /\ request'[p].token \in Tokens
              /\ request'[p].token.secret \in drawn
              /\ session[request'[p].token.sid].present
  PROVE  Rotation'
  <1>1. ASSUME NEW s \in Ids PROVE SessionOK(s)'
    BY DEF Rotation, SessionOK
  <1>2. ASSUME NEW g \in grants' PROVE GrantOK(g)'
    <2>1. g \in grants /\ g.session \in Ids
      BY DEF TypeOK, Grants
    <2> QED
      BY <2>1 DEF Rotation, GrantOK
  <1>3. ASSUME NEW p \in Requests PROVE BearerOK(p)'
    BY DEF Rotation, BearerOK, Tokens
  <1>4. OneSuccessor'
    BY DEF Rotation, OneSuccessor
  <1> QED
    BY <1>1, <1>2, <1>3, <1>4 DEF Rotation

\* A step that answers nobody and keeps the version keeps the second part if
\* nobody is disabled or revoked by a transaction that should advance it.
LEMMA VersionsKept ==
  ASSUME TypeOK, Versions, grants' = grants,
         account'.version = account.version,
         account'.status = "disabled" => account.status = "disabled",
         \A s \in Ids : session'[s].revoked \in {session[s].revoked, "user_revoked"},
         \A p \in Requests : request'[p].pc \in Answering =>
           \/ /\ request[p].pc \in Answering
              /\ request'[p].version = request[p].version
           \/ /\ request'[p].version = account.version
              /\ account.status # "disabled"
  PROVE  Versions'
  <1>1. account.version \in Nat
    BY DEF TypeOK
  <1>2. ASSUME NEW g \in grants' PROVE VersionOK(g)'
    <2>1. g \in grants /\ g.session \in Ids
      BY DEF TypeOK, Grants
    <2> QED
      BY <2>1 DEF Versions, VersionOK
  <1>3. ASSUME NEW p \in Requests PROVE AnswerOK(p)'
    BY <1>1 DEF Versions, AnswerOK
  <1> QED
    BY <1>2, <1>3 DEF Versions

\* A step that advances the version leaves every answer behind it, those that
\* are still to come included.
LEMMA VersionsAdvance ==
  ASSUME TypeOK, Versions, grants' = grants,
         account'.version = account.version + 1,
         \A p \in Requests : request'[p].pc \in Answering =>
           /\ request[p].pc \in Answering
           /\ request'[p].version = request[p].version
  PROVE  Versions'
  <1>1. account.version \in Nat
    BY DEF TypeOK
  <1>2. ASSUME NEW g \in grants' PROVE VersionOK(g)'
    <2>1. g \in grants /\ g.version \in Nat /\ g.version <= account.version
      BY DEF TypeOK, Grants, Versions, VersionOK
    <2>2. g.version < account'.version
      BY <1>1, <2>1
    <2> QED
      BY <1>1, <2>1, <2>2 DEF VersionOK
  <1>3. ASSUME NEW p \in Requests PROVE AnswerOK(p)'
    <2>1. request[p].version \in Nat
      BY DEF TypeOK
    <2>2. request[p].version <= account.version =>
            /\ request[p].version <= account'.version
            /\ request[p].version # account'.version
      BY <1>1, <2>1
    <2> QED
      BY <2>2 DEF Versions, AnswerOK
  <1> QED
    BY <1>2, <1>3 DEF Versions

\* One handler moves to a state q.
LEMMA Moved ==
  ASSUME IInv, NEW p \in Requests, NEW q \in Request,
         request' = [request EXCEPT ![p] = q]
  PROVE  /\ request' \in [Requests -> Request]
         /\ request'[p] = q
         /\ \A o \in Requests : o # p => request'[o] = request[o]
  BY TypeParts DEF IInv

\* A step that only moves a handler.
LEMMA MoveInv ==
  ASSUME IInv, NEW p \in Requests, NEW q \in Request,
         request' = [request EXCEPT ![p] = q],
         UNCHANGED <<clock, account, session, action, grants, drawn>>,
         q.now <= clock,
         q.pc \in Bearing =>
           \/ request[p].pc \in Bearing /\ q.token = request[p].token
           \/ /\ q.token \in Tokens
              /\ q.token.secret \in drawn
              /\ session[q.token.sid].present,
         q.pc \in Answering => q.version = account.version /\ account.status # "disabled"
  PROVE  IInv'
  <1>1. /\ request' \in [Requests -> Request]
        /\ request'[p] = q
        /\ \A o \in Requests : o # p => request'[o] = request[o]
    BY Zenon, Moved
  <1>2. TypeOK'
    BY Zenon, <1>1, TypeParts DEF IInv, TypeOK, Request, Steps, Kinds
  <1>3. Rotation'
    BY Zenon, <1>1, RotationKept DEF IInv
  <1>4. Versions'
    BY <1>1, VersionsKept DEF IInv
  <1>5. Clocks'
    BY <1>1 DEF IInv, Clocks
  <1>6. LockTrips'
    BY DEF IInv, LockTrips
  <1> QED
    BY <1>2, <1>3, <1>4, <1>5, <1>6 DEF IInv

\* A handler that finishes holds nothing and has nothing to answer.
LEMMA Finished ==
  ASSUME IInv, NEW p \in Requests, Finish(p)
  PROVE  /\ request' \in [Requests -> Request]
         /\ request'[p].now = 0
         /\ request'[p].pc \notin Bearing
         /\ request'[p].pc \notin Answering
         /\ \A o \in Requests : o # p => request'[o] = request[o]
  BY Zenon, Markers, Moved DEF Finish, Idle, Bearing, Answering

LEMMA FinishedClocks ==
  ASSUME IInv, NEW p \in Requests, Finish(p), clock' = clock
  PROVE  Clocks'
  BY Finished, Reading DEF IInv, Clocks

LEMMA FinishInv ==
  ASSUME IInv, NEW p \in Requests, Finish(p),
         UNCHANGED <<clock, account, session, action, grants, drawn>>
  PROVE  IInv'
  <1>1. Idle.now <= clock /\ Idle.pc \notin Bearing /\ Idle.pc \notin Answering
    BY Reading DEF Idle, Bearing, Answering
  <1> QED
    BY Zenon, <1>1, Markers, MoveInv DEF Finish

LEMMA BeginInv ==
  ASSUME IInv, NEW p \in Requests,
         NEW step \in Steps \ (Bearing \cup Answering), Begin(p, step),
         UNCHANGED <<clock, account, session, action, grants, drawn>>
  PROVE  IInv'
  <1> DEFINE q == [Idle EXCEPT !.pc = step, !.now = clock]
  <1>1. q \in Request /\ q.pc = step /\ q.now = clock
    BY Zenon, Markers, Reading DEF Request, Idle
  <1>2. q.now <= clock
    BY <1>1, Reading
  <1>3. request' = [request EXCEPT ![p] = q]
    BY DEF Begin
  <1> HIDE DEF q
  <1> QED
    BY Zenon, <1>1, <1>2, <1>3, MoveInv

LEMMA BeginLoginInv ==
  ASSUME IInv, NEW p \in Requests, NEW password \in Passwords,
         BeginLogin(p, password)
  PROVE  IInv'
  <1>1. \E step \in {"completing", "failing"} : Begin(p, step)
    BY DEF BeginLogin
  <1>2. {"completing", "failing"} \subseteq Steps \ (Bearing \cup Answering)
    BY DEF Steps, Bearing, Answering
  <1>3. UNCHANGED <<clock, account, session, action, grants, drawn>>
    BY DEF BeginLogin
  <1> QED
    BY <1>1, <1>2, <1>3, BeginInv

LEMMA BeginDeactivateInv ==
  ASSUME IInv, NEW p \in Requests, NEW password \in Passwords,
         BeginDeactivate(p, password)
  PROVE  IInv'
  <1>1. "deactivating" \in Steps \ (Bearing \cup Answering)
    BY DEF Steps, Bearing, Answering
  <1> QED
    BY <1>1, BeginInv DEF BeginDeactivate

LEMMA BeginIssueInv ==
  ASSUME IInv, NEW p \in Requests, NEW kind \in Kinds, BeginIssue(p, kind)
  PROVE  IInv'
  <1> DEFINE q == [Idle EXCEPT !.pc = "issuing", !.now = clock, !.kind = kind]
  <1>1. q \in Request /\ q.pc = "issuing" /\ q.now = clock
    BY Zenon, Markers, Reading DEF Request, Idle, Steps
  <1>2. q.now <= clock
    BY <1>1, Reading
  <1>3. /\ request' = [request EXCEPT ![p] = q]
        /\ UNCHANGED <<clock, account, session, action, grants, drawn>>
    BY DEF BeginIssue
  <1> HIDE DEF q
  <1> QED
    BY Zenon, <1>1, <1>2, <1>3, MoveInv DEF Bearing, Answering

LEMMA InvalidatePreviousInv ==
  ASSUME IInv, NEW p \in Requests, InvalidatePrevious(p)
  PROVE  IInv'
  <1>1. PICK victims \in SUBSET ActionTokens :
          request' = [request EXCEPT ![p].pc = "enqueuing", ![p].victims = victims]
    BY DEF InvalidatePrevious
  <1> DEFINE q == [request[p] EXCEPT !.pc = "enqueuing", !.victims = victims]
  <1>2. request[p] \in Request /\ request[p].now <= clock
    BY TypeParts DEF IInv, Clocks
  <1>3. q \in Request /\ q.pc = "enqueuing" /\ q.now = request[p].now
    BY Zenon, <1>2 DEF Request, Steps
  <1>4. request' = [request EXCEPT ![p] = q]
    BY Zenon, <1>1
  <1>5. UNCHANGED <<clock, account, session, action, grants, drawn>>
    BY DEF InvalidatePrevious
  <1> HIDE DEF q
  <1> QED
    BY Zenon, <1>2, <1>3, <1>4, <1>5, MoveInv DEF Bearing, Answering

LEMMA BeginRefreshInv ==
  ASSUME IInv, NEW p \in Requests, NEW g \in grants, BeginRefresh(p, g.token)
  PROVE  IInv'
  <1>1. /\ g.token \in Tokens /\ g.token.secret \in drawn
        /\ session[g.token.sid].present
    BY DEF IInv, TypeOK, Grants, Rotation, GrantOK, BeginRefresh
  <1> DEFINE q == [Idle EXCEPT !.pc = "reading", !.now = clock, !.token = g.token]
  <1>2. q \in Request /\ q.pc = "reading" /\ q.now = clock /\ q.token = g.token
    BY Zenon, <1>1, Markers, Reading DEF Request, Idle, Steps
  <1>3. q.now <= clock
    BY <1>2, Reading
  <1>4. /\ request' = [request EXCEPT ![p] = q]
        /\ UNCHANGED <<clock, account, session, action, grants, drawn>>
    BY DEF BeginRefresh
  <1> HIDE DEF q
  <1> QED
    BY Zenon, <1>1, <1>2, <1>3, <1>4, MoveInv DEF Answering

LEMMA ReadUserInv ==
  ASSUME IInv, NEW p \in Requests, ReadUser(p)
  PROVE  IInv'
  <1>1. CASE CanEstablishSession
    <2> DEFINE q == [request[p] EXCEPT !.pc = "rotating", !.version = account.version]
    <2>1. /\ request[p] \in Request /\ request[p].now <= clock
          /\ account.version \in Nat
      BY TypeParts DEF IInv, Clocks, Account
    <2>2. /\ q \in Request /\ q.pc = "rotating" /\ q.now = request[p].now
          /\ q.token = request[p].token /\ q.version = account.version
      BY Zenon, <2>1 DEF Request, Steps
    <2>3. /\ request' = [request EXCEPT ![p] = q]
          /\ request[p].pc = "reading" /\ account.status # "disabled"
          /\ UNCHANGED <<clock, account, session, action, grants, drawn>>
      BY Zenon, <1>1 DEF ReadUser, CanEstablishSession
    <2> HIDE DEF q
    <2> QED
      BY Zenon, <2>1, <2>2, <2>3, MoveInv DEF Bearing
  <1>2. CASE ~CanEstablishSession
    BY <1>2, FinishInv DEF ReadUser
  <1> QED
    BY <1>1, <1>2

LEMMA RotateRefusedInv ==
  ASSUME IInv, NEW p \in Requests, RotateRefused(p)
  PROVE  IInv'
  BY FinishInv DEF RotateRefused

-----------------------------------------------------------------------------
(***************************************************************************)
(* The lockout.                                                            *)
(***************************************************************************)
\* What RecordLoginFailure writes has the type of the columns, and an account
\* it leaves unlocked is below the threshold.
LEMMA FailureRecorded ==
  ASSUME IInv, NEW now \in Nat, now <= MaxTime
  PROVE  /\ AttemptsAfter(now) \in 0 .. FailureThreshold
         /\ LockedUntilAfter(now) \in Times
         /\ LockedUntilAfter(now) = 0 => AttemptsAfter(now) < FailureThreshold
  <1>1. /\ account.attempts \in 0 .. FailureThreshold
        /\ account.lockedUntil \in Times /\ account.lockedUntil \in Nat
        /\ account.lockedUntil = 0 => account.attempts < FailureThreshold
    BY TypeParts, SessionAssumption DEF IInv, Account, LockTrips, Times
  <1>2. now + LockDuration \in Times /\ 0 \in Times
    BY Timely
  <1>3. now + LockDuration # 0
    BY SessionAssumption
  <1>4. CASE account.lockedUntil > now
    <2>1. /\ AttemptsAfter(now) = account.attempts
          /\ LockedUntilAfter(now) = account.lockedUntil
      BY <1>4 DEF AttemptsAfter, LockedUntilAfter, IsLocked
    <2> QED
      BY <1>1, <1>4, <2>1
  <1>5. CASE ~(account.lockedUntil > now)
    <2>1. AttemptsAfter(now) =
            IF account.lockedUntil # 0 THEN 1 ELSE account.attempts + 1
      BY <1>5 DEF AttemptsAfter, IsLocked
    <2>2. AttemptsAfter(now) \in 0 .. FailureThreshold
      BY <1>1, <2>1, SessionAssumption
    <2>3. LockedUntilAfter(now) =
            IF AttemptsAfter(now) >= FailureThreshold THEN now + LockDuration ELSE 0
      BY <1>5 DEF LockedUntilAfter, IsLocked
    <2> QED
      BY <1>2, <1>3, <2>2, <2>3, SessionAssumption
  <1> QED
    BY <1>4, <1>5

LEMMA RecordLoginFailureInv ==
  ASSUME IInv, NEW p \in Requests, RecordLoginFailure(p)
  PROVE  IInv'
  <1>1. PICK now \in Nat : now <= MaxTime /\ now = request[p].now
    BY Reading
  <1>2. /\ account' = [account EXCEPT !.attempts = AttemptsAfter(now),
                                      !.lockedUntil = LockedUntilAfter(now)]
        /\ Finish(p)
        /\ UNCHANGED <<clock, session, action, grants, drawn>>
    BY <1>1 DEF RecordLoginFailure
  <1>3. /\ AttemptsAfter(now) \in 0 .. FailureThreshold
        /\ LockedUntilAfter(now) \in Times
        /\ LockedUntilAfter(now) = 0 => AttemptsAfter(now) < FailureThreshold
    BY <1>1, FailureRecorded
  <1>4. account \in Account
    BY TypeParts DEF IInv
  <1>5. /\ account' \in Account
        /\ account'.version = account.version /\ account'.status = account.status
        /\ account'.attempts = AttemptsAfter(now)
        /\ account'.lockedUntil = LockedUntilAfter(now)
    BY Zenon, <1>2, <1>3, <1>4 DEF Account
  <1>6. TypeOK'
    BY Zenon, <1>2, <1>5, Finished, TypeParts DEF IInv, TypeOK, Account, Request, Steps, Kinds
  <1>7. Rotation'
    BY <1>2, Finished, RotationKept DEF IInv
  <1>8. Versions'
    BY <1>2, <1>5, Finished, VersionsKept DEF IInv
  <1>9. Clocks'
    BY <1>2, FinishedClocks
  <1>10. LockTrips'
    BY <1>3, <1>5 DEF LockTrips
  <1> QED
    BY <1>6, <1>7, <1>8, <1>9, <1>10 DEF IInv

LEMMA CompleteLoginSuccessInv ==
  ASSUME IInv, NEW p \in Requests, CompleteLoginSuccess(p)
  PROVE  IInv'
  <1>1. CASE LoginRefused(request[p].now)
    BY <1>1, FinishInv DEF CompleteLoginSuccess
  <1>2. CASE ~LoginRefused(request[p].now)
    <2> DEFINE q == [request[p] EXCEPT !.pc = "opening", !.version = account.version]
    <2>1. /\ account' = [account EXCEPT !.attempts = 0, !.lockedUntil = 0]
          /\ request' = [request EXCEPT ![p] = q]
          /\ account.status # "disabled"
          /\ UNCHANGED <<clock, session, action, grants, drawn>>
      BY Zenon, <1>2 DEF CompleteLoginSuccess, LoginRefused, CanEstablishSession
    <2>2. /\ request[p] \in Request /\ request[p].now <= clock
          /\ account \in Account /\ account.version \in Nat
      BY TypeParts DEF IInv, Clocks, Account
    <2>3. /\ q \in Request /\ q.pc = "opening" /\ q.now = request[p].now
          /\ q.version = account.version
      BY Zenon, <2>2 DEF Request, Steps
    <2> HIDE DEF q
    <2>4. /\ account' \in Account
          /\ account'.version = account.version /\ account'.status = account.status
          /\ account'.attempts = 0
      <3>1. 0 \in Times /\ 0 \in 0 .. FailureThreshold
        BY SessionAssumption DEF Times
      <3> QED
        BY Zenon, <2>1, <2>2, <3>1 DEF Account
    <2>5. /\ request' \in [Requests -> Request]
          /\ request'[p] = q
          /\ \A o \in Requests : o # p => request'[o] = request[o]
      BY Zenon, <2>1, <2>3, Moved
    <2>6. TypeOK'
      BY <2>1, <2>4, <2>5, TypeParts DEF IInv, TypeOK, Account, Request, Steps, Kinds
    <2>7. Rotation'
      BY <2>1, <2>3, <2>5, RotationKept DEF IInv, Bearing
    <2>8. Versions'
      BY <2>1, <2>3, <2>4, <2>5, VersionsKept DEF IInv
    <2>9. Clocks'
      BY <2>1, <2>2, <2>3, <2>5 DEF IInv, Clocks
    <2>10. LockTrips'
      BY <2>4, SessionAssumption DEF LockTrips
    <2> QED
      BY <2>6, <2>7, <2>8, <2>9, <2>10 DEF IInv
  <1> QED
    BY <1>1, <1>2

-----------------------------------------------------------------------------
(***************************************************************************)
(* Answers.                                                                *)
(***************************************************************************)
\* An answer of a version that AnswerOK allows, for a session nobody revoked.
LEMMA Answered ==
  ASSUME IInv, NEW p \in Requests, NEW g \in Grants,
         request[p].pc \in Answering, g.version = request[p].version,
         session'[g.session].revoked = "none",
         \A h \in grants : session'[h.session].revoked = session[h.session].revoked,
         grants' = grants \cup {g}, account' = account, Finish(p)
  PROVE  Versions'
  <1>1. ASSUME NEW h \in grants' PROVE VersionOK(h)'
    <2>1. CASE h = g
      BY <2>1 DEF IInv, Versions, AnswerOK, VersionOK
    <2>2. CASE h \in grants
      BY Zenon, <2>2 DEF IInv, Versions, VersionOK
    <2> QED
      BY <2>1, <2>2
  <1>2. ASSUME NEW o \in Requests PROVE AnswerOK(o)'
    BY Zenon, Finished DEF IInv, Versions, AnswerOK
  <1> QED
    BY <1>1, <1>2 DEF Versions

LEMMA TokenOf ==
  ASSUME NEW n \in Ids
  PROVE  /\ NewRefreshToken(n) \in Tokens
         /\ NewRefreshToken(n).secret = n
  BY DEF NewRefreshToken, Tokens

LEMMA OpenSessionInv ==
  ASSUME IInv, NEW p \in Requests, OpenSession(p)
  PROVE  IInv'
  <1>1. PICK n \in Ids \ drawn :
          /\ drawn' = drawn \cup {n}
          /\ session' = [session EXCEPT ![n] =
               [NoSession EXCEPT !.present = TRUE, !.digest = n,
                  !.cipher = NewRefreshToken(n), !.created = clock,
                  !.expires = Earlier(clock + AbsoluteTTL, clock + IdleTTL)]]
          /\ grants' = grants \cup
               {[token |-> NewRefreshToken(n), session |-> n, from |-> None,
                 version |-> request[p].version]}
    BY Zenon DEF OpenSession
  <1>2. /\ request[p].pc = "opening" /\ Finish(p)
        /\ UNCHANGED <<clock, account, action>>
    BY DEF OpenSession
  <1> DEFINE g == [token |-> NewRefreshToken(n), session |-> n, from |-> None,
                   version |-> request[p].version]
             t == NewRefreshToken(n)
  <1>3. t \in Tokens /\ t.secret = n
    BY TokenOf
  <1>4. request[p].version \in Nat
    BY DEF IInv, TypeOK
  <1>5. /\ g \in Grants /\ g.session = n /\ g.from = None /\ g.token = t
        /\ g.version = request[p].version
    BY Zenon, <1>3, <1>4 DEF Grants
  <1>6. Earlier(clock + AbsoluteTTL, clock + IdleTTL) \in Times /\ clock \in Times
    BY Reading, Timely DEF Earlier
  <1> HIDE DEF t, g
  <1> DEFINE new == [NoSession EXCEPT !.present = TRUE, !.digest = n,
                       !.cipher = t, !.created = clock,
                       !.expires = Earlier(clock + AbsoluteTTL, clock + IdleTTL)]
  <1>7. /\ new \in Sessions /\ new.present /\ new.digest = n /\ new.cipher = t
        /\ new.previous = None /\ new.revoked = "none"
    BY Zenon, <1>3, <1>6, Markers DEF Sessions, NoSession
  <1>8. session' = [session EXCEPT ![n] = new]
    BY <1>1 DEF t
  <1> HIDE DEF new
  <1>9. /\ session' \in [Ids -> Sessions] /\ session'[n] = new
        /\ \A s \in Ids : s # n => session'[s] = session[s]
    BY <1>7, <1>8 DEF IInv, TypeOK
  <1>10. grants' = grants \cup {g}
    BY <1>1 DEF g
  <1>11. \A h \in grants : h.session \in Ids /\ h.session # n
    BY Zenon DEF IInv, TypeOK, Grants, Rotation, GrantOK, SessionOK
  <1>12. TypeOK'
    <2>1. drawn' \subseteq Ids /\ grants' \subseteq Grants
      BY <1>1, <1>5, <1>10 DEF IInv, TypeOK
    <2> QED
      BY Zenon, <1>2, <1>9, <2>1, Finished, TypeParts
         DEF IInv, TypeOK, Request, Steps, Kinds
  <1>13. Versions'
    BY Zenon, <1>2, <1>5, <1>7, <1>9, <1>10, <1>11, Answered DEF Answering
  <1>14. ASSUME NEW s \in Ids PROVE SessionOK(s)'
    <2>1. drawn' = drawn \cup {n}
      BY <1>1
    <2>2. CASE s = n
      BY <1>3, <1>7, <1>9, <2>1, <2>2 DEF SessionOK
    <2>3. CASE s # n
      BY <1>9, <2>1, <2>3 DEF IInv, Rotation, SessionOK
    <2> QED
      BY <2>2, <2>3
  <1>15. ASSUME NEW h \in grants' PROVE GrantOK(h)'
    <2>1. CASE h = g
      BY <1>1, <1>3, <1>5, <1>7, <1>9, <2>1, SessionAssumption DEF GrantOK
    <2>2. CASE h \in grants
      BY <1>1, <1>9, <1>11, <2>2 DEF IInv, Rotation, GrantOK
    <2> QED
      BY <1>10, <2>1, <2>2
  <1>16. OneSuccessor'
    BY <1>5, <1>10 DEF IInv, Rotation, OneSuccessor
  <1>17. ASSUME NEW o \in Requests PROVE BearerOK(o)'
    <2>1. BearerOK(o)
      BY DEF IInv, Rotation
    <2> QED
      BY ZenonT(60), <1>1, <1>2, <1>7, <1>9, <2>1, Finished DEF BearerOK, Tokens
  <1>18. Clocks'
    BY <1>2, FinishedClocks
  <1>19. LockTrips'
    BY <1>2 DEF IInv, LockTrips
  <1> QED
    BY <1>12, <1>13, <1>14, <1>15, <1>16, <1>17, <1>18, <1>19 DEF IInv, Rotation

\* The token a rotating handler presents, and its answer.
LEMMA Presented ==
  ASSUME IInv, NEW p \in Requests, request[p].pc = "rotating"
  PROVE  /\ request[p].token.sid \in Ids
         /\ request[p].token.secret \in Ids
         /\ request[p].token.secret \in drawn
         /\ request[p].token.secret # None
         /\ session[request[p].token.sid].present
         /\ \A t \in Tokens :
              /\ Granted(p, t) \in Grants
              /\ Granted(p, t).token = t
              /\ Granted(p, t).session = request[p].token.sid
              /\ Granted(p, t).from = request[p].token.secret
              /\ Granted(p, t).version = request[p].version
  <1>1. /\ request[p].token \in Tokens
        /\ request[p].token.secret \in drawn
        /\ session[request[p].token.sid].present
    BY Zenon DEF IInv, Rotation, BearerOK, Bearing
  <1>2. request[p].token.sid \in Ids /\ request[p].token.secret \in Ids
    BY Zenon, <1>1 DEF Tokens
  <1>3. request[p].version \in Nat
    BY DEF IInv, TypeOK
  <1> QED
    BY Zenon, <1>1, <1>2, <1>3, SessionAssumption DEF Granted, Grants

LEMMA RotateInv ==
  ASSUME IInv, NEW p \in Requests, Rotate(p)
  PROVE  IInv'
  <1>1. /\ request[p].pc = "rotating" /\ Finish(p) /\ Current(p)
        /\ UNCHANGED <<clock, account, action>>
    BY Zenon DEF Rotate
  <1>2. PICK s \in Ids : s = request[p].token.sid
    BY Zenon, <1>1, Presented
  <1>3. session[s].revoked = "none"
    BY Zenon, <1>2 DEF Rotate, Rotatable, IsActive
  <1>4. PICK d \in Ids : d = request[p].token.secret /\ d = session[s].digest
    BY Zenon, <1>1, <1>2, Presented DEF Current
  <1>5. d \in drawn /\ d # None /\ session[s].present
    BY Zenon, <1>1, <1>2, <1>4, Presented
  <1>6. PICK n \in Ids \ drawn :
          /\ drawn' = drawn \cup {n}
          /\ session' = [session EXCEPT ![s].previous = session[s].digest,
                           ![s].digest = n, ![s].cipher = NewRefreshToken(n),
                           ![s].expires = NextExpires(p),
                           ![s].rotated = request[p].now]
          /\ grants' = grants \cup {Granted(p, NewRefreshToken(n))}
    BY Zenon, <1>2 DEF Rotate
  <1> DEFINE t == NewRefreshToken(n)
  <1>7. t \in Tokens /\ t.secret = n
    BY TokenOf
  <1> HIDE DEF t
  <1>8. PICK g \in Grants :
          /\ g = Granted(p, t)
          /\ g.token = t /\ g.session = s /\ g.from = d
          /\ g.version = request[p].version
    <2>1. /\ Granted(p, t) \in Grants
          /\ Granted(p, t).token = t
          /\ Granted(p, t).session = request[p].token.sid
          /\ Granted(p, t).from = request[p].token.secret
          /\ Granted(p, t).version = request[p].version
      BY Zenon, <1>1, <1>7, Presented
    <2> QED
      BY Zenon, <1>2, <1>4, <2>1
  <1>9. grants' = grants \cup {g}
    BY <1>6, <1>8 DEF t
  <1>10. NextExpires(p) \in Times /\ request[p].now \in Times
    <2>1. session[s].created \in Times /\ request[p].now \in Times
      BY DEF IInv, TypeOK, Sessions
    <2>2. request[p].now + IdleTTL \in Times
      BY Zenon, Reading, Timely
    <2>3. /\ session[s].created + AbsoluteTTL \in Nat
          /\ request[p].now + IdleTTL \in Nat
      BY <2>1, SessionAssumption DEF Times
    <2>4. ASSUME NEW x \in Nat, NEW y \in Times PROVE Earlier(x, y) \in Times
      BY SessionAssumption DEF Earlier, Times
    <2> QED
      BY Zenon, <1>2, <2>1, <2>2, <2>3, <2>4 DEF NextExpires
  <1> DEFINE new == [session[s] EXCEPT !.previous = d, !.digest = n, !.cipher = t,
                       !.expires = NextExpires(p), !.rotated = request[p].now]
  <1>11. /\ new \in Sessions /\ new.present = session[s].present /\ new.digest = n
         /\ new.cipher = t /\ new.previous = d /\ new.revoked = session[s].revoked
    <2>1. session[s] \in Sessions
      BY DEF IInv, TypeOK
    <2> QED
      BY ZenonT(60), <1>7, <1>10, <2>1 DEF Sessions
  <1>12. session' = [session EXCEPT ![s] = new]
    BY Zenon, <1>4, <1>6 DEF t
  <1> HIDE DEF new
  <1>13. /\ session' \in [Ids -> Sessions] /\ session'[s] = new
         /\ \A o \in Ids : o # s => session'[o] = session[o]
    BY Zenon, <1>11, <1>12 DEF IInv, TypeOK
  <1>14. drawn' = drawn \cup {n}
    BY <1>6
  <1>15. TypeOK'
    <2>1. drawn' \subseteq Ids /\ grants' \subseteq Grants
      BY <1>9, <1>14 DEF IInv, TypeOK
    <2> QED
      BY Zenon, <1>1, <1>13, <2>1, Finished, TypeParts
         DEF IInv, TypeOK, Request, Steps, Kinds
  <1>16. \A h \in grants : h.session \in Ids
    BY DEF IInv, TypeOK, Grants
  <1>17. Versions'
    <2>1. session'[g.session].revoked = "none"
      BY Zenon, <1>3, <1>8, <1>11, <1>13
    <2>2. \A h \in grants : session'[h.session].revoked = session[h.session].revoked
      BY <1>11, <1>13, <1>16
    <2> QED
      BY Zenon, <1>1, <1>8, <1>9, <2>1, <2>2, Answered DEF Answering
  <1>18. ASSUME NEW o \in Ids PROVE SessionOK(o)'
    <2>1. CASE o = s
      BY Zenon, <1>5, <1>7, <1>11, <1>13, <1>14, <2>1 DEF IInv, Rotation, SessionOK
    <2>2. CASE o # s
      BY Zenon, <1>13, <1>14, <2>2 DEF IInv, Rotation, SessionOK
    <2> QED
      BY <2>1, <2>2
  <1>19. ASSUME NEW h \in grants
         PROVE  /\ GrantOK(h)
                /\ h.session = s => h.from # d /\ h.from # n
    BY Zenon, <1>4, SessionAssumption DEF IInv, Rotation, GrantOK
  <1>20. ASSUME NEW h \in grants' PROVE GrantOK(h)'
    <2>1. CASE h = g
      <3>1. /\ h.token.secret = n /\ h.session = s /\ h.from = d /\ h.token = t
            /\ d # n
        BY Zenon, <1>5, <1>7, <1>8, <2>1
      <3> QED
        BY Zenon, <1>5, <1>11, <1>13, <1>14, <3>1 DEF GrantOK
    <2>2. CASE h \in grants /\ h.session = s
      BY Zenon, <1>5, <1>11, <1>13, <1>14, <1>19, <2>2 DEF GrantOK
    <2>3. CASE h \in grants /\ h.session # s
      BY Zenon, <1>13, <1>14, <1>16, <1>19, <2>3 DEF GrantOK
    <2> QED
      BY <1>9, <2>1, <2>2, <2>3
  <1>21. OneSuccessor'
    BY <1>8, <1>9, <1>19 DEF IInv, Rotation, OneSuccessor
  <1>22. ASSUME NEW o \in Requests PROVE BearerOK(o)'
    <2>1. BearerOK(o)
      BY DEF IInv, Rotation
    <2> QED
      <3>1. CASE o = p
        BY Zenon, <1>1, <3>1, Finished DEF BearerOK
      <3>2. CASE o # p
        <4>1. \A i \in Ids : session'[i].present = session[i].present
          BY <1>11, <1>13
        <4>2. request'[o] = request[o]
          BY Zenon, <1>1, <3>2, Finished
        <4> QED
          BY Zenon, <1>14, <2>1, <4>1, <4>2 DEF BearerOK, Tokens
      <3> QED
        BY <3>1, <3>2
  <1>23. Clocks'
    BY <1>1, FinishedClocks
  <1>24. LockTrips'
    BY <1>1 DEF IInv, LockTrips
  <1> QED
    BY <1>15, <1>17, <1>18, <1>20, <1>21, <1>22, <1>23, <1>24 DEF IInv, Rotation

LEMMA RotateInGraceInv ==
  ASSUME IInv, NEW p \in Requests, RotateInGrace(p)
  PROVE  IInv'
  <1>1. /\ request[p].pc = "rotating" /\ Finish(p) /\ ~Current(p) /\ InGrace(p)
        /\ UNCHANGED <<clock, account, session, action, drawn>>
    BY Zenon DEF RotateInGrace
  <1>2. PICK s \in Ids : s = request[p].token.sid
    BY Zenon, <1>1, Presented
  <1>3. session[s].revoked = "none"
    BY Zenon, <1>2 DEF RotateInGrace, Rotatable, IsActive
  <1>4. PICK d \in Ids : /\ d = request[p].token.secret
                         /\ d = session[s].previous /\ d # session[s].digest
    BY Zenon, <1>1, <1>2, Presented DEF Current, InGrace
  <1>5. d \in drawn /\ d # None /\ session[s].present
    BY Zenon, <1>1, <1>2, <1>4, Presented
  <1>6. session[s].cipher \in Tokens /\ session[s].cipher.secret \in drawn
    BY Zenon, <1>5 DEF IInv, Rotation, SessionOK
  <1>7. PICK g \in Grants :
          /\ g = Granted(p, session[s].cipher)
          /\ g.token = session[s].cipher /\ g.session = s /\ g.from = d
          /\ g.version = request[p].version
    <2>1. ASSUME NEW t \in Tokens
          PROVE  /\ Granted(p, t) \in Grants
                 /\ Granted(p, t).token = t
                 /\ Granted(p, t).session = request[p].token.sid
                 /\ Granted(p, t).from = request[p].token.secret
                 /\ Granted(p, t).version = request[p].version
      BY Zenon, <1>1, Presented
    <2> DEFINE h == Granted(p, session[s].cipher)
    <2>2. /\ h \in Grants
          /\ h.token = session[s].cipher /\ h.session = s /\ h.from = d
          /\ h.version = request[p].version
      BY Zenon, <1>2, <1>4, <1>6, <2>1
    <2> QED
      BY Zenon, <2>2
  <1>8. grants' = grants \cup {g}
    BY Zenon, <1>2, <1>7 DEF RotateInGrace
  <1>9. TypeOK'
    <2>1. grants' \subseteq Grants
      BY <1>8 DEF IInv, TypeOK
    <2> QED
      BY Zenon, <1>1, <2>1, Finished, TypeParts DEF IInv, TypeOK, Request, Steps, Kinds
  <1>10. Versions'
    BY Zenon, <1>1, <1>3, <1>7, <1>8, Answered DEF Answering
  <1>11. \A o \in Ids : SessionOK(o)'
    BY Zenon, <1>1 DEF IInv, Rotation, SessionOK
  <1>12. ASSUME NEW h \in grants' PROVE GrantOK(h)'
    <2>1. CASE h = g
      BY Zenon, <1>1, <1>4, <1>5, <1>6, <1>7, <2>1 DEF GrantOK
    <2>2. CASE h \in grants
      BY Zenon, <1>1, <2>2 DEF IInv, Rotation, GrantOK
    <2> QED
      BY <1>8, <2>1, <2>2
  <1>13. \A h \in grants : h.session = s /\ h.from = d => h.token = g.token
    BY ZenonT(60), <1>4, <1>5, <1>7 DEF IInv, Rotation, GrantOK
  <1>14. OneSuccessor'
    <2> SUFFICES ASSUME NEW x \in grants', NEW y \in grants', x.from # None,
                        x.from = y.from, x.session = y.session
                 PROVE  x.token = y.token
      BY Zenon DEF OneSuccessor
    <2>1. CASE x \in grants /\ y \in grants
      BY Zenon, <2>1 DEF IInv, Rotation, OneSuccessor
    <2>2. CASE x = g \/ y = g
      BY Zenon, <1>7, <1>8, <1>13, <2>2
    <2> QED
      BY Zenon, <1>8, <2>1, <2>2
  <1>15. \A o \in Requests : BearerOK(o)'
    BY Zenon, <1>1, Finished DEF IInv, Rotation, BearerOK
  <1>16. Clocks'
    BY Zenon, <1>1, FinishedClocks
  <1>17. LockTrips'
    BY Zenon, <1>1 DEF IInv, LockTrips
  <1> QED
    BY <1>9, <1>10, <1>11, <1>12, <1>14, <1>15, <1>16, <1>17 DEF IInv, Rotation

-----------------------------------------------------------------------------
(***************************************************************************)
(* Revocations, and the account.                                           *)
(***************************************************************************)
LEMMA Revoked ==
  ASSUME IInv, NEW S, NEW reason \in RevokedReasons, RevokeLive(S, reason)
  PROVE  /\ session' \in [Ids -> Sessions]
         /\ \A s \in Ids :
              /\ session'[s].present = session[s].present
              /\ session'[s].digest = session[s].digest
              /\ session'[s].previous = session[s].previous
              /\ session'[s].cipher = session[s].cipher
              /\ session'[s].revoked \in {session[s].revoked, reason}
  <1>1. ASSUME NEW s \in Ids
        PROVE  /\ session'[s] \in Sessions
               /\ session'[s].present = session[s].present
               /\ session'[s].digest = session[s].digest
               /\ session'[s].previous = session[s].previous
               /\ session'[s].cipher = session[s].cipher
               /\ session'[s].revoked \in {session[s].revoked, reason}
    <2>1. session[s] \in Sessions
      BY DEF IInv, TypeOK
    <2>2. \/ session'[s] = session[s]
          \/ session'[s] = [session[s] EXCEPT !.revoked = reason]
      BY DEF RevokeLive
    <2> QED
      BY <2>1, <2>2 DEF Sessions
  <1>2. session' = [s \in Ids |-> session'[s]]
    BY DEF RevokeLive
  <1> QED
    BY Zenon, <1>1, <1>2

LEMMA UserRevokesInv ==
  ASSUME IInv, NEW S, RevokeLive(S, "user_revoked"),
         UNCHANGED <<clock, account, action, grants, drawn, request>>
  PROVE  IInv'
  <1>1. "user_revoked" \in RevokedReasons
    BY DEF RevokedReasons
  <1>2. /\ session' \in [Ids -> Sessions]
        /\ \A s \in Ids :
             /\ session'[s].present = session[s].present
             /\ session'[s].digest = session[s].digest
             /\ session'[s].previous = session[s].previous
             /\ session'[s].cipher = session[s].cipher
             /\ session'[s].revoked \in {session[s].revoked, "user_revoked"}
    BY Zenon, <1>1, Revoked
  <1>3. TypeOK'
    BY Zenon, <1>2 DEF IInv, TypeOK
  <1>4. Rotation'
    BY Zenon, <1>2, RotationKept DEF IInv
  <1>5. Versions'
    BY Zenon, <1>2, VersionsKept DEF IInv
  <1>6. Clocks' /\ LockTrips'
    BY DEF IInv, Clocks, LockTrips
  <1> QED
    BY <1>3, <1>4, <1>5, <1>6 DEF IInv

LEMMA DeactivateAndRevokeInv ==
  ASSUME IInv, NEW p \in Requests, DeactivateAndRevoke(p)
  PROVE  IInv'
  <1>1. Finish(p) /\ UNCHANGED <<clock, action, grants, drawn>>
    BY DEF DeactivateAndRevoke
  <1>2. CASE account.status = "disabled"
    BY <1>1, <1>2, FinishInv DEF DeactivateAndRevoke
  <1>3. CASE account.status # "disabled"
    <2>1. /\ account' = [account EXCEPT !.status = "disabled", !.version = @ + 1]
          /\ RevokeLive(Ids, "account_deactivated")
      BY <1>3 DEF DeactivateAndRevoke
    <2>2. account \in Account
      BY TypeParts DEF IInv
    <2>3. /\ account' \in Account /\ account'.version = account.version + 1
          /\ account'.attempts = account.attempts
          /\ account'.lockedUntil = account.lockedUntil
      <3>1. PICK v \in Nat : v = account.version + 1
        BY <2>2 DEF Account
      <3>2. account' = [account EXCEPT !.status = "disabled", !.version = v]
        BY <2>1, <3>1
      <3>3. account' \in Account /\ account'.version = v
        BY Zenon, <2>2, <3>2 DEF Account, Statuses
      <3> QED
        BY <2>2, <3>1, <3>2, <3>3 DEF Account
    <2>4. "account_deactivated" \in RevokedReasons
      BY DEF RevokedReasons
    <2>5. /\ session' \in [Ids -> Sessions]
          /\ \A s \in Ids :
               /\ session'[s].present = session[s].present
               /\ session'[s].digest = session[s].digest
               /\ session'[s].previous = session[s].previous
               /\ session'[s].cipher = session[s].cipher
      BY <2>1, <2>4, Revoked
    <2>6. TypeOK'
      BY Zenon, <1>1, <2>3, <2>5, Finished, TypeParts
         DEF IInv, TypeOK, Account, Request, Steps, Kinds
    <2>7. Rotation'
      BY Zenon, <1>1, <2>5, Finished, RotationKept DEF IInv
    <2>8. Versions'
      BY Zenon, <1>1, <2>3, Finished, VersionsAdvance DEF IInv
    <2>9. Clocks'
      BY <1>1, FinishedClocks
    <2>10. LockTrips'
      BY <2>3 DEF IInv, LockTrips
    <2> QED
      BY <2>6, <2>7, <2>8, <2>9, <2>10 DEF IInv
  <1> QED
    BY <1>2, <1>3

LEMMA CreateAndEnqueueInv ==
  ASSUME IInv, NEW p \in Requests, CreateAndEnqueue(p)
  PROVE  IInv'
  <1>1. /\ Finish(p)
        /\ UNCHANGED <<clock, account, session, grants, drawn>>
    BY DEF CreateAndEnqueue
  <1>2. /\ request[p].kind \in Kinds
        /\ request[p].now + ActionTTL \in Times
    BY Reading, Timely, TypeParts DEF IInv, Request
  <1>3. action' \in [ActionTokens -> Action]
    <2>1. PICK new \in ActionTokens :
            action' = [k \in ActionTokens |->
              CASE k = new -> [kind |-> request[p].kind, state |-> "unused",
                               expires |-> request[p].now + ActionTTL]
                [] k \in request[p].victims -> [action[k] EXCEPT !.state = "deleted"]
                [] OTHER -> action[k]]
      BY DEF CreateAndEnqueue
    <2>2. ASSUME NEW k \in ActionTokens PROVE action'[k] \in Action
      <3>1. action[k] \in Action
        BY TypeParts DEF IInv
      <3>2. [action[k] EXCEPT !.state = "deleted"] \in Action
        BY <3>1 DEF Action
      <3>3. [kind |-> request[p].kind, state |-> "unused",
             expires |-> request[p].now + ActionTTL] \in Action
        BY Zenon, <1>2 DEF Action
      <3> QED
        BY <2>1, <3>1, <3>2, <3>3
    <2> QED
      BY <2>1, <2>2
  <1>4. TypeOK'
    BY Zenon, <1>1, <1>3, Finished, TypeParts DEF IInv, TypeOK, Action, Request, Steps, Kinds
  <1>5. Rotation'
    BY Zenon, <1>1, Finished, RotationKept DEF IInv
  <1>6. Versions'
    BY Zenon, <1>1, Finished, VersionsKept DEF IInv
  <1>7. Clocks'
    BY <1>1, FinishedClocks
  <1>8. LockTrips'
    BY <1>1 DEF IInv, LockTrips
  <1> QED
    BY <1>4, <1>5, <1>6, <1>7, <1>8 DEF IInv

\* A consumed action token keeps the type of the table.
LEMMA Consumed ==
  ASSUME IInv, NEW k \in ActionTokens,
         action' = [action EXCEPT ![k].state = "used"]
  PROVE  action' \in [ActionTokens -> Action]
  <1>1. action \in [ActionTokens -> Action]
    BY TypeParts DEF IInv
  <1> QED
    BY <1>1 DEF Action

LEMMA ConsumeAndVerifyEmailInv ==
  ASSUME IInv, NEW k \in ActionTokens, ConsumeAndVerifyEmail(k)
  PROVE  IInv'
  <1>1. /\ action' = [action EXCEPT ![k].state = "used"] /\ account' = Verified
        /\ UNCHANGED <<clock, session, grants, drawn, request>>
    BY DEF ConsumeAndVerifyEmail
  <1>2. account \in Account
    BY TypeParts DEF IInv
  <1>3. /\ account' \in Account /\ account'.version = account.version
        /\ account'.attempts = account.attempts
        /\ account'.lockedUntil = account.lockedUntil
        /\ account'.status \in {account.status, "active"}
    BY Zenon, <1>1, <1>2 DEF Verified, Account, Statuses
  <1>4. TypeOK'
    BY Zenon, <1>1, <1>3, Consumed, TypeParts DEF IInv, TypeOK, Account, Action, Kinds
  <1>5. Rotation'
    BY <1>1, RotationKept DEF IInv
  <1>6. Versions'
    <2>1. account'.status = "disabled" => account.status = "disabled"
      BY <1>3
    <2>2. \A p \in Requests : request'[p] = request[p]
      BY <1>1
    <2> QED
      BY <1>1, <1>3, <2>1, <2>2, VersionsKept DEF IInv
  <1>7. Clocks' /\ LockTrips'
    BY <1>1, <1>3 DEF IInv, Clocks, LockTrips
  <1> QED
    BY <1>4, <1>5, <1>6, <1>7 DEF IInv

LEMMA ConsumeAndResetPasswordInv ==
  ASSUME IInv, NEW k \in ActionTokens, NEW password \in Passwords,
         ConsumeAndResetPassword(k, password)
  PROVE  IInv'
  <1>1. /\ action' = [action EXCEPT ![k].state = "used"]
        /\ account' = [account EXCEPT !.password = password, !.version = @ + 1,
                                      !.attempts = 0, !.lockedUntil = 0]
        /\ RevokeLive(Ids, "password_reset")
        /\ UNCHANGED <<clock, grants, drawn, request>>
    BY DEF ConsumeAndResetPassword
  <1>2. account \in Account
    BY TypeParts DEF IInv
  <1>3. 0 \in Times /\ 0 \in 0 .. FailureThreshold
    BY SessionAssumption DEF Times
  <1>4. /\ account' \in Account /\ account'.version = account.version + 1
        /\ account'.attempts = 0
    <2>1. PICK v \in Nat : v = account.version + 1
      BY <1>2 DEF Account
    <2>2. account' = [account EXCEPT !.password = password, !.version = v,
                                     !.attempts = 0, !.lockedUntil = 0]
      BY <1>1, <2>1
    <2>3. account' \in Account /\ account'.version = v /\ account'.attempts = 0
      BY Zenon, <1>2, <1>3, <2>2 DEF Account
    <2> QED
      BY <2>1, <2>3
  <1>5. "password_reset" \in RevokedReasons
    BY DEF RevokedReasons
  <1>6. /\ session' \in [Ids -> Sessions]
        /\ \A s \in Ids :
             /\ session'[s].present = session[s].present
             /\ session'[s].digest = session[s].digest
             /\ session'[s].previous = session[s].previous
             /\ session'[s].cipher = session[s].cipher
    BY <1>1, <1>5, Revoked
  <1>7. TypeOK'
    BY Zenon, <1>1, <1>4, <1>6, Consumed, TypeParts DEF IInv, TypeOK, Account, Action, Kinds
  <1>8. Rotation'
    BY <1>1, <1>6, RotationKept DEF IInv
  <1>9. Versions'
    BY <1>1, <1>4, VersionsAdvance DEF IInv
  <1>10. Clocks'
    BY <1>1 DEF IInv, Clocks
  <1>11. LockTrips'
    BY <1>4, SessionAssumption DEF LockTrips
  <1> QED
    BY <1>7, <1>8, <1>9, <1>10, <1>11 DEF IInv

LEMMA TickInv ==
  ASSUME IInv, Tick
  PROVE  IInv'
  <1>1. /\ clock' = clock + 1 /\ clock < MaxTime
        /\ UNCHANGED <<account, session, action, grants, drawn, request>>
    BY DEF Tick
  <1>2. TypeOK'
    BY <1>1, SessionAssumption DEF IInv, TypeOK
  <1>3. Rotation'
    BY Zenon, <1>1, RotationKept DEF IInv
  <1>4. Versions'
    BY Zenon, <1>1, VersionsKept DEF IInv
  <1>5. Clocks'
    BY <1>1, Reading DEF IInv, Clocks
  <1>6. LockTrips'
    BY <1>1 DEF IInv, LockTrips
  <1> QED
    BY <1>2, <1>3, <1>4, <1>5, <1>6 DEF IInv

LEMMA HandlerInv ==
  ASSUME IInv, NEW p \in Requests, HandlerNext(p)
  PROVE  IInv'
  <1>1. ASSUME NEW password \in Passwords,
               BeginLogin(p, password) \/ BeginDeactivate(p, password)
        PROVE  IInv'
    BY <1>1, BeginLoginInv, BeginDeactivateInv
  <1>2. ASSUME RequestPasswordReset(p) \/ RequestEmailVerification(p) PROVE IInv'
    <2>1. {"password_reset", "email_verification"} \subseteq Kinds
      BY DEF Kinds
    <2> QED
      BY <1>2, <2>1, BeginIssueInv DEF RequestPasswordReset, RequestEmailVerification
  <1>3. ASSUME NEW g \in grants, BeginRefresh(p, g.token) PROVE IInv'
    BY <1>3, BeginRefreshInv
  <1> QED
    BY Zenon, <1>1, <1>2, <1>3, RecordLoginFailureInv, CompleteLoginSuccessInv,
       OpenSessionInv, ReadUserInv, RotateInv, RotateInGraceInv, RotateRefusedInv,
       DeactivateAndRevokeInv, InvalidatePreviousInv, CreateAndEnqueueInv
    DEF HandlerNext

LEMMA NextInv == IInv /\ [Next]_vars => IInv'
  <1> SUFFICES ASSUME IInv, [Next]_vars PROVE IInv'
    OBVIOUS
  <1>1. ASSUME Tick PROVE IInv'
    BY <1>1, TickInv
  <1>2. ASSUME NEW p \in Requests, HandlerNext(p) PROVE IInv'
    BY <1>2, HandlerInv
  <1>3. ASSUME NEW s \in Ids, RevokeSession(s) PROVE IInv'
    BY Zenon, <1>3, UserRevokesInv DEF RevokeSession
  <1>4. ASSUME RevokeAllSessions PROVE IInv'
    BY <1>4, UserRevokesInv DEF RevokeAllSessions
  <1>5. ASSUME NEW k \in ActionTokens, ConsumeAndVerifyEmail(k) PROVE IInv'
    BY <1>5, ConsumeAndVerifyEmailInv
  <1>6. ASSUME NEW k \in ActionTokens, NEW password \in Passwords,
               ConsumeAndResetPassword(k, password)
        PROVE  IInv'
    BY <1>6, ConsumeAndResetPasswordInv
  <1>7. ASSUME UNCHANGED vars PROVE IInv'
    BY Zenon, <1>7 DEF vars, IInv, TypeOK, LockTrips, Rotation, SessionOK, GrantOK,
                OneSuccessor, BearerOK, Versions, VersionOK, AnswerOK, Clocks
  <1> QED
    BY <1>1, <1>2, <1>3, <1>4, <1>5, <1>6, <1>7 DEF Next

-----------------------------------------------------------------------------
(***************************************************************************)
(* The invariant is inductive: every read and every transaction of the     *)
(* handlers of register, login, refresh, revocation and the actions keeps  *)
(* it.                                                                     *)
(***************************************************************************)
THEOREM SessionInvariance == Spec => []IInv
  BY InitInv, NextInv, PTL DEF Spec

(***************************************************************************)
(* The account, the sessions, the action tokens and the handlers keep      *)
(* their types; the column of failed logins never exceeds the threshold.   *)
(***************************************************************************)
THEOREM SessionTypes == Spec => []TypeOK
  BY SessionInvariance, PTL DEF IInv

(***************************************************************************)
(* Refresh rotates strictly: whoever presents the same secret of a session *)
(* and is answered gets the same successor, inside the grace period and    *)
(* out of it, whatever has happened between the reads and the transaction. *)
(***************************************************************************)
THEOREM SuccessorIsUnique == Spec => []OneSuccessor
  BY SessionInvariance, PTL DEF IInv, Rotation

(***************************************************************************)
(* A password reset and a deactivation cut off the sessions they revoke:   *)
(* no access token of the current version belongs to one of them.          *)
(***************************************************************************)
THEOREM RevocationCutsOff == Spec => []RevokedSessionsHoldNoCurrentVersion
  <1>1. IInv => RevokedSessionsHoldNoCurrentVersion
    BY DEF IInv, Versions, VersionOK, RevokedSessionsHoldNoCurrentVersion
  <1> QED
    BY <1>1, SessionInvariance, PTL

(***************************************************************************)
(* No access token carries the current version of a disabled account, not  *)
(* even one answered after the deactivation to a login or a refresh that   *)
(* had read the user before it.                                            *)
(***************************************************************************)
THEOREM DeactivationCutsOff == Spec => []DisabledIsCutOff
  <1>1. IInv => DisabledIsCutOff
    BY DEF IInv, Versions, VersionOK, DisabledIsCutOff
  <1> QED
    BY <1>1, SessionInvariance, PTL

(***************************************************************************)
(* An account that RecordLoginFailure leaves unlocked is below the         *)
(* threshold, whichever handlers record failures at the same time.         *)
(***************************************************************************)
THEOREM ThresholdLocks == Spec => []LockTrips
  BY SessionInvariance, PTL DEF IInv

\* A handler sees a lock that is still running, however old its reading is.
LEMMA LockIsSeen ==
  ASSUME IInv, account.lockedUntil > clock, NEW p \in Requests
  PROVE  IsLocked(request[p].now)
  <1>1. account.lockedUntil \in Nat
    BY TypeParts, SessionAssumption DEF IInv, Account, Times
  <1>2. request[p].now <= clock
    BY Zenon DEF IInv, Clocks
  <1> QED
    BY <1>1, <1>2, Reading DEF IsLocked

LEMMA HandlerKeepsLock ==
  ASSUME IInv, account.lockedUntil > clock, NEW p \in Requests, HandlerNext(p)
  PROVE  account'.lockedUntil = account.lockedUntil
  <1>1. IsLocked(request[p].now)
    BY LockIsSeen
  <1>2. CASE RecordLoginFailure(p)
    <2>1. LockedUntilAfter(request[p].now) = account.lockedUntil
      BY <1>1 DEF LockedUntilAfter
    <2>2. account \in Account
      BY TypeParts DEF IInv
    <2> QED
      BY <1>2, <2>1, <2>2 DEF RecordLoginFailure, Account
  <1>3. CASE CompleteLoginSuccess(p)
    BY <1>1, <1>3 DEF CompleteLoginSuccess, LoginRefused
  <1>4. CASE DeactivateAndRevoke(p)
    <2>1. account \in Account
      BY TypeParts DEF IInv
    <2> QED
      BY Zenon, <1>4, <2>1 DEF DeactivateAndRevoke, Account
  <1>5. CASE /\ ~RecordLoginFailure(p)
             /\ ~CompleteLoginSuccess(p)
             /\ ~DeactivateAndRevoke(p)
    <2>1. account' = account
      BY Zenon, <1>5 DEF HandlerNext, BeginLogin, BeginDeactivate, OpenSession,
                  BeginRefresh, ReadUser, Rotate, RotateInGrace, RotateRefused,
                  RequestPasswordReset, RequestEmailVerification, BeginIssue,
                  InvalidatePrevious, CreateAndEnqueue
    <2> QED
      BY <2>1
  <1> QED
    BY <1>2, <1>3, <1>4, <1>5

(***************************************************************************)
(* A running lock is lifted by nothing but a password reset: a login that  *)
(* compared its password before the account was locked is refused when it  *)
(* completes, because no handler's clock reading is ahead of the clock.    *)
(***************************************************************************)
THEOREM LockIsKept == Spec => LockHolds
  <1> DEFINE Lifted ==
        \E k \in ActionTokens :
          /\ action[k].kind = "password_reset"
          /\ action[k].state = "unused" /\ action'[k].state = "used"
  <1>1. ASSUME IInv, [Next]_vars, account.lockedUntil > clock
        PROVE  account'.lockedUntil = account.lockedUntil \/ Lifted
    <2>1. ASSUME NEW p \in Requests, HandlerNext(p)
          PROVE  account'.lockedUntil = account.lockedUntil
      BY <1>1, <2>1, HandlerKeepsLock
    <2>2. ASSUME NEW k \in ActionTokens, ConsumeAndVerifyEmail(k)
          PROVE  account'.lockedUntil = account.lockedUntil
      <3>1. account \in Account
        BY <1>1, TypeParts DEF IInv
      <3> QED
        BY <2>2, <3>1 DEF ConsumeAndVerifyEmail, Verified, Account
    <2>3. ASSUME NEW k \in ActionTokens, NEW password \in Passwords,
                 ConsumeAndResetPassword(k, password)
          PROVE  Lifted
      <3>1. /\ action[k].kind = "password_reset" /\ action[k].state = "unused"
            /\ action' = [action EXCEPT ![k].state = "used"]
        BY <2>3 DEF ConsumeAndResetPassword, Consumable, Unexpired
      <3>2. action \in [ActionTokens -> Action]
        BY <1>1, TypeParts DEF IInv
      <3>3. action'[k].state = "used"
        BY <3>1, <3>2 DEF Action
      <3> QED
        BY <3>1, <3>3
    <2>4. ASSUME Tick \/ RevokeAllSessions \/ \E s \in Ids : RevokeSession(s)
          PROVE  account' = account
      BY Zenon, <2>4 DEF Tick, RevokeAllSessions, RevokeSession
    <2>5. UNCHANGED vars => account' = account
      BY DEF vars
    <2> QED
      BY Zenon, <1>1, <2>1, <2>2, <2>3, <2>4, <2>5 DEF Next
  <1>2. IInv /\ [Next]_vars =>
          [account.lockedUntil > clock =>
             account'.lockedUntil = account.lockedUntil \/ Lifted]_vars
    BY <1>1
  <1> QED
    BY <1>2, SessionInvariance, PTL DEF Spec, LockHolds

(***************************************************************************)
(* A disabled account comes back by the first verification of its address  *)
(* and in no other way: a password reset leaves the status alone.          *)
(***************************************************************************)
THEOREM OnlyVerificationReactivates == Spec => ReactivationOnlyByFirstVerification
  <1>1. ASSUME IInv, [Next]_vars, account.status = "disabled",
               account'.status # "disabled"
        PROVE  ~account.verified /\ account'.verified
    <2>1. account \in Account
      BY <1>1, TypeParts DEF IInv
    <2>2. ASSUME NEW p \in Requests, HandlerNext(p) PROVE FALSE
      <3>1. account'.status = account.status
        BY Zenon, <1>1, <2>1, <2>2
           DEF Account, HandlerNext, BeginLogin, BeginDeactivate,
               RecordLoginFailure, CompleteLoginSuccess, OpenSession,
               BeginRefresh, ReadUser, Rotate, RotateInGrace, RotateRefused,
               DeactivateAndRevoke, RequestPasswordReset,
               RequestEmailVerification, BeginIssue, InvalidatePrevious,
               CreateAndEnqueue
      <3> QED
        BY <1>1, <3>1
    <2>3. ASSUME NEW k \in ActionTokens, NEW password \in Passwords,
                 ConsumeAndResetPassword(k, password)
          PROVE  FALSE
      <3>1. account'.status = account.status
        BY <2>1, <2>3 DEF ConsumeAndResetPassword, Account
      <3> QED
        BY <1>1, <3>1
    <2>4. ASSUME Tick \/ RevokeAllSessions \/ \E s \in Ids : RevokeSession(s)
          PROVE  FALSE
      BY Zenon, <1>1, <2>4 DEF Tick, RevokeAllSessions, RevokeSession
    <2>5. ~UNCHANGED vars
      BY <1>1 DEF vars
    <2>6. PICK k \in ActionTokens : ConsumeAndVerifyEmail(k)
      BY <1>1, <2>2, <2>3, <2>4, <2>5 DEF Next
    <2>7. account' = Verified
      BY <2>6 DEF ConsumeAndVerifyEmail
    <2> QED
      BY <1>1, <2>1, <2>7 DEF Verified, Account
  <1>2. IInv /\ [Next]_vars =>
          [(account.status = "disabled" /\ account'.status # "disabled") =>
             (~account.verified /\ account'.verified)]_vars
    BY <1>1
  <1> QED
    BY <1>2, SessionInvariance, PTL DEF Spec, ReactivationOnlyByFirstVerification

-----------------------------------------------------------------------------
(***************************************************************************)
(* The safety properties of the configuration path hold for every number   *)
(* of revisions and deliveries.  The invariant follows a revision on its   *)
(* way: nothing is announced, delivered or applied that Platform has not   *)
(* written, and a thread that is about to report a revision as applied has *)
(* switched to it, though another thread may have replaced it since.       *)
(***************************************************************************)

\* An event is delivered again only while it has a delivery left.
EventOK(r) ==
    /\ event[r].state # "none" => r <= desired
    /\ event[r].state = "waiting" => event[r].count < MaxDeliver

ThreadOK(t) ==
    /\ thread[t].stage = "idle" => thread[t] = Resting
    /\ thread[t].stage # "idle" => thread[t].revision \in 1..desired
    /\ thread[t].status = "applied" => thread[t].revision \in ran

SyncInv ==
    /\ SyncTypeOK
    /\ AppliedWasRun
    /\ \A r \in Revisions : outbox[r] # "none" => r <= desired
    /\ \A r \in Revisions : EventOK(r)
    /\ \A t \in Threads : ThreadOK(t)

----------------------------------------------------------------------------
EventType == [state : {"none", "waiting", "handling", "settled"},
              count : 0..MaxDeliver]

ThreadType == [stage : {"idle", "check", "save", "apply"},
               revision : 0..MaxRevision,
               status : {"none", "validating", "retrying"} \cup Terminal]

Events ==
    /\ event \in [Revisions -> EventType]
    /\ \A r \in Revisions : EventOK(r)

Work ==
    /\ thread \in [Threads -> ThreadType]
    /\ \A t \in Threads : ThreadOK(t)

Rows ==
    /\ outbox \in [Revisions -> {"none", "pending", "published", "parked"}]
    /\ \A r \in Revisions : outbox[r] # "none" => r <= desired

Outcomes ==
    /\ delivery \in [Revisions -> Terminal \cup {"open"}]
    /\ AppliedWasRun

Settings ==
    /\ desired \in 0..MaxRevision
    /\ running \in ran \cup {0} /\ ran \subseteq 1..desired

LEMMA InvParts == SyncInv <=> Events /\ Work /\ Rows /\ Outcomes /\ Settings
  BY Zenon DEF SyncInv, SyncTypeOK, Events, Work, Rows, Outcomes, Settings, EventType, ThreadType

LEMMA PartsKept ==
  ASSUME Events', Work', Rows', Outcomes', Settings'
  PROVE  SyncInv'
  BY Zenon DEF SyncInv, SyncTypeOK, Events, Work, Rows, Outcomes, Settings, EventType, ThreadType

\* The parts are kept by a step that does not touch their variables.
LEMMA Untouched ==
  ASSUME SyncInv, desired' = desired
  PROVE  /\ event' = event => Events'
         /\ thread' = thread /\ ran' = ran => Work'
         /\ outbox' = outbox => Rows'
         /\ delivery' = delivery /\ ran' = ran => Outcomes'
         /\ running' = running /\ ran' = ran => Settings'
  <1>1. Events /\ Work /\ Rows /\ Outcomes /\ Settings
    BY InvParts
  <1> QED
    BY Zenon, <1>1 DEF Events, Work, Rows, Outcomes, Settings, EventOK, ThreadOK,
                AppliedWasRun

LEMMA RestingTyped == Resting \in ThreadType
  BY ConfigurationAssumption DEF Resting, ThreadType

LEMMA SyncInitInv == SyncInit => SyncInv
  <1> SUFFICES ASSUME SyncInit PROVE SyncInv
    OBVIOUS
  <1>1. Events
    BY ConfigurationAssumption DEF SyncInit, Events, EventType, EventOK
  <1>2. Work
    BY Zenon, RestingTyped DEF SyncInit, Work, ThreadOK, Resting
  <1>3. Rows /\ Outcomes /\ Settings
    BY ConfigurationAssumption
       DEF SyncInit, Rows, Outcomes, Settings, AppliedWasRun, Terminal
  <1> QED
    BY <1>1, <1>2, <1>3, InvParts

----------------------------------------------------------------------------
(* Events, threads and rows *)

LEMMA EventSet ==
  ASSUME SyncInv, desired' = desired, NEW r \in Revisions, r <= desired,
         NEW e \in EventType, e.state = "waiting" => e.count < MaxDeliver,
         event' = [event EXCEPT ![r] = e]
  PROVE  Events'
  <1>1. Events
    BY InvParts
  <1>2. /\ event' \in [Revisions -> EventType] /\ event'[r] = e
        /\ \A q \in Revisions : q # r => event'[q] = event[q]
    BY <1>1 DEF Events
  <1> QED
    BY Zenon, <1>1, <1>2 DEF Events, EventOK

\* A server that is asked to store an event.
LEMMA StoredEvents ==
  ASSUME SyncInv, desired' = desired, NEW r \in Revisions, r <= desired, Stored(r)
  PROVE  Events'
  <1>1. CASE event' = event
    BY <1>1, Untouched
  <1>2. CASE event' = [event EXCEPT ![r] = [state |-> "waiting", count |-> 0]]
    <2>1. [state |-> "waiting", count |-> 0] \in EventType /\ 0 < MaxDeliver
      BY ConfigurationAssumption DEF EventType
    <2> QED
      BY Zenon, <1>2, <2>1, EventSet
  <1> QED
    BY Zenon, <1>1, <1>2 DEF Stored

\* An event that is settled or given back.
LEMMA ReturnedEvents ==
  ASSUME SyncInv, desired' = desired, NEW r \in Revisions, r <= desired,
         event' \in {event, Settled(r), Nacked(r)}
  PROVE  Events'
  <1>1. CASE event' = event
    BY <1>1, Untouched
  <1>2. CASE event' = Settled(r)
    <2>1. [state |-> "settled", count |-> 0] \in EventType
      BY ConfigurationAssumption DEF EventType
    <2> QED
      BY Zenon, <1>2, <2>1, EventSet DEF Settled
  <1>3. CASE event[r].count < MaxDeliver /\ event' = [event EXCEPT ![r].state = "waiting"]
    <2> DEFINE e == [event[r] EXCEPT !.state = "waiting"]
    <2>1. event[r] \in EventType
      BY InvParts DEF Events
    <2>2. e \in EventType /\ e.count = event[r].count
      BY <2>1 DEF EventType
    <2>3. event' = [event EXCEPT ![r] = e]
      BY <1>3
    <2> HIDE DEF e
    <2> QED
      BY Zenon, <1>3, <2>2, <2>3, EventSet
  <1> QED
    BY <1>1, <1>2, <1>3 DEF Nacked

LEMMA ThreadSet ==
  ASSUME SyncInv, desired' = desired, ran \subseteq ran', NEW t \in Threads,
         NEW x \in ThreadType,
         x.stage = "idle" => x = Resting,
         x.stage # "idle" => x.revision \in 1..desired,
         x.status = "applied" => x.revision \in ran',
         thread' = [thread EXCEPT ![t] = x]
  PROVE  Work'
  <1>1. Work
    BY InvParts
  <1>2. /\ thread' \in [Threads -> ThreadType] /\ thread'[t] = x
        /\ \A u \in Threads : u # t => thread'[u] = thread[u]
    BY <1>1 DEF Work
  <1> QED
    BY Zenon, <1>1, <1>2 DEF Work, ThreadOK

LEMMA Rested ==
  ASSUME SyncInv, desired' = desired, ran' = ran, NEW t \in Threads,
         thread' = [thread EXCEPT ![t] = Resting]
  PROVE  Work'
  <1>1. Resting.stage = "idle" /\ Resting.status # "applied"
    BY DEF Resting
  <1> QED
    BY Zenon, <1>1, RestingTyped, ThreadSet

LEMMA NextReport ==
  ASSUME SyncInv, desired' = desired, ran \subseteq ran', NEW t \in Threads,
         NEW r \in 1..desired,
         NEW status \in {"validating", "retrying"} \cup Terminal,
         status = "applied" => r \in ran', Reports(t, r, status)
  PROVE  Work'
  <1> DEFINE x == [stage |-> "check", revision |-> r, status |-> status]
  <1>1. r \in 0..MaxRevision
    BY ConfigurationAssumption DEF SyncInv, SyncTypeOK
  <1>2. /\ x \in ThreadType /\ x.stage = "check" /\ x.revision = r
        /\ x.status = status
    BY Zenon, <1>1 DEF ThreadType
  <1>3. thread' = [thread EXCEPT ![t] = x]
    BY Zenon DEF Reports
  <1> HIDE DEF x
  <1> QED
    BY Zenon, <1>2, <1>3, ThreadSet

\* A thread that goes on with its revision and its status.
LEMMA GoesOn ==
  ASSUME SyncInv, desired' = desired, ran' = ran, NEW t \in Threads,
         thread[t].stage # "idle", NEW stage \in {"save", "apply"},
         thread' = [thread EXCEPT ![t].stage = stage]
  PROVE  Work'
  <1> DEFINE x == [thread[t] EXCEPT !.stage = stage]
  <1>1. /\ thread[t] \in ThreadType
        /\ thread[t].revision \in 1..desired
        /\ thread[t].status = "applied" => thread[t].revision \in ran
    BY InvParts DEF Work, ThreadOK
  <1>2. /\ x \in ThreadType /\ x.stage = stage
        /\ x.revision = thread[t].revision /\ x.status = thread[t].status
    BY <1>1 DEF ThreadType
  <1>3. thread' = [thread EXCEPT ![t] = x]
    OBVIOUS
  <1> HIDE DEF x
  <1> QED
    BY Zenon, <1>1, <1>2, <1>3, ThreadSet

\* The revision a thread works on.
LEMMA InHand ==
  ASSUME SyncInv, NEW t \in Threads, thread[t].stage # "idle"
  PROVE  /\ thread[t].revision \in 1..desired
         /\ thread[t].revision \in Revisions
         /\ thread[t].revision <= desired
  <1>1. thread[t].revision \in 1..desired /\ desired \in 0..MaxRevision
    BY InvParts DEF Work, ThreadOK, Settings
  <1> QED
    BY <1>1, ConfigurationAssumption DEF Revisions

LEMMA SavedReports ==
  ASSUME SyncInv, ran' = ran, NEW t \in Threads, thread[t].stage # "idle",
         delivery' = Saved(t)
  PROVE  Outcomes'
  <1>1. PICK r \in Revisions : r = thread[t].revision
    BY Zenon, InHand
  <1>2. PICK row \in Terminal \cup {"open"} : row = Row(thread[t].status)
    BY Zenon DEF Row
  <1>3. row = "applied" => r \in ran
    BY Zenon, <1>1, <1>2, InvParts DEF Row, Work, ThreadOK
  <1>4. Outcomes
    BY Zenon, InvParts
  <1>5. delivery' = [delivery EXCEPT ![r] = row]
    BY Zenon, <1>1, <1>2 DEF Saved
  <1> QED
    BY Zenon, <1>3, <1>4, <1>5 DEF Outcomes, AppliedWasRun

LEMMA ReportedKeeps ==
  ASSUME SyncInv, desired' = desired, ran' = ran, NEW t \in Threads,
         thread[t].stage # "idle", Reported(t)
  PROVE  Work' /\ Events'
  <1>1. CASE thread[t].status = "validating"
    <2>1. thread' = [thread EXCEPT ![t].stage = "apply"] /\ event' = event
      BY <1>1 DEF Reported
    <2> QED
      BY Zenon, <2>1, GoesOn, Untouched
  <1>2. CASE thread[t].status # "validating"
    <2>1. /\ thread' = [thread EXCEPT ![t] = Resting]
          /\ event' \in {event, Settled(thread[t].revision), Nacked(thread[t].revision)}
      BY <1>2 DEF Reported
    <2> QED
      BY Zenon, <2>1, InHand, Rested, ReturnedEvents
  <1> QED
    BY Zenon, <1>1, <1>2

----------------------------------------------------------------------------
(* The steps *)

LEMMA PutInv ==
  ASSUME SyncInv, Put
  PROVE  SyncInv'
  <1>1. /\ desired < MaxRevision /\ desired' = desired + 1
        /\ outbox' = [outbox EXCEPT ![desired + 1] = "pending"]
        /\ UNCHANGED <<event, delivery, thread, running, ran>>
    BY DEF Put
  <1>2. Events /\ Work /\ Rows /\ Outcomes /\ Settings
    BY InvParts
  <1>3. desired \in Nat /\ desired' \in 0..MaxRevision
    BY <1>1, <1>2, ConfigurationAssumption DEF Settings
  <1>4. \A r \in Revisions : r \in Int /\ (r <= desired => r <= desired')
    BY <1>1, <1>3 DEF Revisions
  <1>5. 1..desired \subseteq 1..desired'
    BY <1>1, <1>3
  <1>6. Events'
    BY <1>1, <1>2, <1>4 DEF Events, EventOK
  <1>7. Work'
    BY <1>1, <1>2, <1>5 DEF Work, ThreadOK
  <1>8. Rows'
    <2>1. PICK n \in Revisions : n = desired + 1
      BY <1>1, <1>3, ConfigurationAssumption DEF Revisions
    <2>2. outbox' = [outbox EXCEPT ![n] = "pending"] /\ n <= desired'
      BY <1>1, <1>3, <2>1
    <2> QED
      BY <1>2, <1>4, <2>2 DEF Rows
  <1>9. Outcomes'
    BY <1>1, <1>2 DEF Outcomes, AppliedWasRun
  <1>10. Settings'
    BY <1>1, <1>2, <1>3, <1>5 DEF Settings
  <1> QED
    BY <1>6, <1>7, <1>8, <1>9, <1>10, PartsKept

LEMMA RelayInv ==
  ASSUME SyncInv, NEW r \in Revisions, Relay(r)
  PROVE  SyncInv'
  <1>1. /\ outbox[r] = "pending" /\ (event' = event \/ Stored(r))
        /\ \E status \in {"pending", "published", "parked"} : Processed(r, status)
        /\ UNCHANGED <<desired, delivery, thread, running, ran>>
    BY Zenon DEF Relay, Publish, PublishUnmarked, PublishFails, Claimable
  <1>2. r <= desired
    BY <1>1 DEF SyncInv
  <1>3. Events'
    BY Zenon, <1>1, <1>2, StoredEvents, Untouched
  <1>4. Rows'
    <2>1. PICK status \in {"pending", "published", "parked"} :
            outbox' = [outbox EXCEPT ![r] = status]
      BY Zenon, <1>1 DEF Processed
    <2>2. Rows
      BY InvParts
    <2> QED
      BY Zenon, <1>1, <1>2, <2>1, <2>2 DEF Rows
  <1> QED
    BY Zenon, <1>1, <1>3, <1>4, PartsKept, Untouched

LEMMA DeliverInv ==
  ASSUME SyncInv, NEW r \in Revisions, Deliver(r)
  PROVE  SyncInv'
  <1>1. /\ event[r].state = "waiting"
        /\ event' = [event EXCEPT ![r] = [state |-> "handling", count |-> @.count + 1]]
        /\ Reports("handle", r, "validating")
        /\ UNCHANGED <<desired, outbox, delivery, running, ran>>
    BY Zenon DEF Deliver
  <1>2. /\ event[r].count \in 0..MaxDeliver /\ event[r].count < MaxDeliver
        /\ r <= desired /\ desired \in 0..MaxRevision
    BY Zenon, <1>1 DEF SyncInv, SyncTypeOK, EventOK
  <1>3. PICK n \in 0..MaxDeliver : n = event[r].count + 1
    BY <1>2, ConfigurationAssumption
  <1>4. [state |-> "handling", count |-> n] \in EventType
    BY DEF EventType
  <1>5. event' = [event EXCEPT ![r] = [state |-> "handling", count |-> n]]
    BY Zenon, <1>1, <1>3
  <1>6. Events'
    BY Zenon, <1>1, <1>2, <1>4, <1>5, EventSet
  <1>7. r \in 1..desired /\ "handle" \in Threads
    BY <1>2, ConfigurationAssumption DEF Revisions, Threads
  <1>8. Work'
    BY Zenon, <1>1, <1>7, NextReport
  <1> QED
    BY Zenon, <1>1, <1>6, <1>8, PartsKept, Untouched

\* Before the first revision nothing is applied, so there is nothing to
\* reconcile.
LEMMA NothingYet ==
  ASSUME SyncInv, desired > AppliedRevision
  PROVE  desired \in 1..desired
  <1>1. desired \in Nat
    BY ConfigurationAssumption DEF SyncInv, SyncTypeOK
  <1>2. ASSUME desired = 0 PROVE FALSE
    <2>1. ran = {}
      BY <1>2 DEF SyncInv, SyncTypeOK
    <2>2. {0} \cup {r \in Revisions : delivery[r] = "applied"} = {0}
      BY <2>1 DEF SyncInv, AppliedWasRun
    <2>3. AppliedRevision = 0
      BY <2>2 DEF AppliedRevision, Max
    <2> QED
      BY <1>2, <2>3
  <1> QED
    BY <1>1, <1>2

LEMMA ReconcileInv ==
  ASSUME SyncInv, Reconcile
  PROVE  SyncInv'
  <1>1. /\ Reports("reconcile", desired, "validating") /\ desired > AppliedRevision
        /\ UNCHANGED <<desired, outbox, event, delivery, running, ran>>
    BY DEF Reconcile
  <1>2. "reconcile" \in Threads
    BY DEF Threads
  <1>3. Work'
    BY Zenon, <1>1, <1>2, NextReport, NothingYet
  <1> QED
    BY Zenon, <1>1, <1>3, PartsKept, Untouched

LEMMA ReportInv ==
  ASSUME SyncInv, NEW t \in Threads, Report(t)
  PROVE  SyncInv'
  <1>1. CASE ReportChecked(t)
    <2>1. /\ thread[t].stage # "idle"
          /\ UNCHANGED <<desired, outbox, delivery, running, ran>>
          /\ \/ thread' = [thread EXCEPT ![t].stage = "save"] /\ event' = event
             \/ Reported(t)
      BY <1>1 DEF ReportChecked
    <2>2. Work' /\ Events'
      BY <2>1, GoesOn, ReportedKeeps, Untouched
    <2> QED
      BY <2>1, <2>2, PartsKept, Untouched
  <1>2. CASE ReportSaved(t)
    <2>1. /\ thread[t].stage # "idle" /\ delivery' = Saved(t) /\ Reported(t)
          /\ UNCHANGED <<desired, outbox, running, ran>>
      BY Zenon, <1>2 DEF ReportSaved
    <2>2. Work' /\ Events' /\ Outcomes'
      BY Zenon, <2>1, ReportedKeeps, SavedReports
    <2> QED
      BY Zenon, <2>1, <2>2, PartsKept, Untouched
  <1> QED
    BY <1>1, <1>2 DEF Report

LEMMA ReportFailsInv ==
  ASSUME SyncInv, NEW t \in Threads, ReportFails(t)
  PROVE  SyncInv'
  <1>1. /\ thread[t].stage # "idle"
        /\ delivery' \in {delivery, Saved(t)}
        /\ thread' = [thread EXCEPT ![t] = Resting]
        /\ event' \in {event, Settled(thread[t].revision), Nacked(thread[t].revision)}
        /\ UNCHANGED <<desired, outbox, running, ran>>
    BY Zenon DEF ReportFails
  <1>2. Work' /\ Events'
    BY Zenon, <1>1, InHand, Rested, ReturnedEvents
  <1>3. Outcomes'
    BY Zenon, <1>1, SavedReports, Untouched
  <1> QED
    BY Zenon, <1>1, <1>2, <1>3, PartsKept, Untouched

LEMMA ApplyConfigInv ==
  ASSUME SyncInv, NEW t \in Threads, ApplyConfig(t)
  PROVE  SyncInv'
  <1>1. PICK r \in 1..desired : r = thread[t].revision
    BY Zenon, InHand DEF ApplyConfig
  <1>2. /\ running' = r /\ ran' = ran \cup {r} /\ Reports(t, r, "applied")
        /\ UNCHANGED <<desired, outbox, event, delivery>>
    BY Zenon, <1>1 DEF ApplyConfig
  <1>3. Work'
    BY Zenon, <1>2, NextReport DEF Terminal
  <1>4. Outcomes'
    BY Zenon, <1>2, InvParts DEF Outcomes, AppliedWasRun
  <1>5. Settings'
    BY Zenon, <1>2, InvParts DEF Settings
  <1> QED
    BY Zenon, <1>2, <1>3, <1>4, <1>5, PartsKept, Untouched

LEMMA ApplyFailsInv ==
  ASSUME SyncInv, NEW t \in Threads, ApplyFails(t)
  PROVE  SyncInv'
  <1>1. PICK r \in 1..desired : r = thread[t].revision
    BY Zenon, InHand DEF ApplyFails
  <1>2. /\ \E status \in {"parked", "retrying"} : Reports(t, r, status)
        /\ UNCHANGED <<desired, outbox, event, delivery, running, ran>>
    BY Zenon, <1>1 DEF ApplyFails
  <1>3. Work'
    BY Zenon, <1>2, NextReport DEF Terminal
  <1> QED
    BY Zenon, <1>2, <1>3, PartsKept, Untouched

LEMMA RestartInv ==
  ASSUME SyncInv, Restart
  PROVE  SyncInv'
  <1>1. /\ running' = 0 /\ thread' = [t \in Threads |-> Resting]
        /\ event' = IF thread["handle"] = Resting THEN event
                    ELSE Nacked(thread["handle"].revision)
        /\ UNCHANGED <<desired, outbox, delivery, ran>>
    BY Zenon DEF Restart
  <1>2. Work'
    BY Zenon, <1>1, RestingTyped DEF Work, ThreadOK, Resting
  <1>3. Events'
    <2>1. "handle" \in Threads
      BY DEF Threads
    <2>2. CASE thread["handle"] = Resting
      BY Zenon, <1>1, <2>2, Untouched
    <2>3. CASE thread["handle"] # Resting
      <3>1. thread["handle"].stage # "idle"
        BY Zenon, <2>1, <2>3 DEF SyncInv, ThreadOK
      <3> QED
        BY Zenon, <1>1, <2>1, <2>3, <3>1, InHand, ReturnedEvents
    <2> QED
      BY <2>2, <2>3
  <1>4. Settings'
    BY Zenon, <1>1, InvParts DEF Settings
  <1> QED
    BY Zenon, <1>1, <1>2, <1>3, <1>4, PartsKept, Untouched

LEMMA SyncNextInv == SyncInv /\ [SyncNext]_syncVars => SyncInv'
  <1> SUFFICES ASSUME SyncInv, [SyncNext]_syncVars PROVE SyncInv'
    OBVIOUS
  <1>1. ASSUME NEW r \in Revisions, Relay(r) \/ Deliver(r) PROVE SyncInv'
    BY <1>1, RelayInv, DeliverInv
  <1>2. ASSUME NEW t \in Threads,
               Report(t) \/ ReportFails(t) \/ ApplyConfig(t) \/ ApplyFails(t)
        PROVE  SyncInv'
    BY <1>2, ReportInv, ReportFailsInv, ApplyConfigInv, ApplyFailsInv
  <1>3. ASSUME UNCHANGED syncVars PROVE SyncInv'
    BY Zenon, <1>3, PartsKept, Untouched DEF syncVars
  <1> QED
    BY Zenon, <1>1, <1>2, <1>3, PutInv, ReconcileInv, RestartInv DEF SyncNext

----------------------------------------------------------------------------
(***************************************************************************)
(* The invariant is inductive: every step of Platform, of its outbox and   *)
(* of the two threads of Identity keeps it.                                *)
(***************************************************************************)
THEOREM ConfigurationInvariance == SyncSpec => []SyncInv
  BY SyncInitInv, SyncNextInv, PTL DEF SyncSpec

(***************************************************************************)
(* The tables, the events and the threads keep their types.  Identity runs *)
(* a revision that Platform has written, or the configuration file, and an *)
(* event is never delivered more often than the consumer allows.           *)
(***************************************************************************)
THEOREM ConfigurationTypes == SyncSpec => []SyncTypeOK
  BY ConfigurationInvariance, PTL DEF SyncInv

(***************************************************************************)
(* Whatever the event handler and the reconciliation overwrite of each     *)
(* other's reports, the delivery row of a revision says applied only if    *)
(* Identity has switched to that revision.                                 *)
(***************************************************************************)
THEOREM AppliedMeansRun == SyncSpec => []AppliedWasRun
  BY ConfigurationInvariance, PTL DEF SyncInv
=============================================================================
