--------------------------- MODULE IdentitySessions ---------------------------
(***************************************************************************)
(* One account of the Identity service with its sessions, refresh tokens,  *)
(* action tokens (email verification, password reset) and login lockout.   *)
(* Accounts do not influence each other, so one is enough.                 *)
(*                                                                         *)
(* A request handler reads the clock once and then takes one step for each *)
(* query or transaction, so what it has read may be stale when it is used. *)
(* A handler that dies simply takes no further step.  Transactions lock    *)
(* the rows they change and are one step each.                             *)
(***************************************************************************)
EXTENDS Naturals

CONSTANTS
  Ids,               \* random values, numbered in the order they are drawn
  Passwords,         \* passwords a user may type
  FirstPassword,     \* the password the account was registered with
  ActionTokens,      \* action tokens
  FirstAction,       \* the verification token the registration issued
  Requests,          \* request handlers that run at the same time
  MaxTime,           \* bound: the last clock reading
  RefreshGrace,      \* SessionLogic.refreshGrace
  IdleTTL,           \* SessionLogic.idleTTL
  AbsoluteTTL,       \* SessionLogic.absoluteTTL
  ActionTTL,         \* ActionLogic.ttl
  LockDuration,      \* authenticationPolicy.lockDuration
  FailureThreshold,  \* authenticationPolicy.failureThreshold
  None               \* no value

ASSUME SessionAssumption ==
  /\ Ids \subseteq Nat \ {0}
  /\ {MaxTime, IdleTTL, AbsoluteTTL, ActionTTL, LockDuration} \subseteq Nat \ {0}
  /\ RefreshGrace \in Nat
  /\ FailureThreshold \in Nat /\ FailureThreshold >= 2
  /\ FirstPassword \in Passwords
  /\ FirstAction \in ActionTokens
  /\ None \notin Passwords \cup ActionTokens \cup Ids

VARIABLES
  clock,    \* the time; columns hold 0 where they are NULL
  account,  \* the row of identity.users
  session,  \* identity.sessions
  action,   \* identity.action_tokens
  grants,   \* what logins and refreshes have answered
  drawn,    \* random values drawn so far
  request   \* the request handlers

vars == <<clock, account, session, action, grants, drawn, request>>

Times == 0 .. MaxTime + IdleTTL + AbsoluteTTL + ActionTTL + LockDuration

-----------------------------------------------------------------------------
(***************************************************************************)
(* Refresh tokens.  Encode and ParseRefreshToken carry the two parts       *)
(* faithfully; NewRefreshToken draws BOTH of them.                         *)
(***************************************************************************)
Tokens == [sid : Ids, secret : Ids]

NewRefreshToken(n) == [sid |-> n, secret |-> n]

Statuses == {"pending_verification", "active", "disabled"}

CanEstablishSession == account.status \in {"active", "pending_verification"}

IsLocked(now) == account.lockedUntil > now

RevokedReasons == {"none", "user_revoked", "password_reset", "account_deactivated"}

Sessions ==
  [present : BOOLEAN, digest : Ids \cup {None}, previous : Ids \cup {None},
   cipher : Tokens \cup {None}, created : Times, expires : Times, rotated : Times,
   revoked : RevokedReasons]

NoSession ==
  [present |-> FALSE, digest |-> None, previous |-> None, cipher |-> None,
   created |-> 0, expires |-> 0, rotated |-> 0, revoked |-> "none"]

IsActive(s, now) == session[s].revoked = "none" /\ session[s].expires > now

\* A grant: the tokens in the answer, the session they were granted for, the
\* secret that was presented (None: a login) and the access token's version.
Grants == [token : Tokens, session : Ids, from : Ids \cup {None}, version : Nat]

Idle == [pc |-> "idle", now |-> 0, token |-> None, kind |-> None, version |-> 0,
         victims |-> {}]

Begin(p, step) == request' = [request EXCEPT ![p] = [Idle EXCEPT !.pc = step, !.now = clock]]

Finish(p) == request' = [request EXCEPT ![p] = Idle]

\* Register has inserted the user and the first verification token.
Init ==
  /\ clock = 1
  /\ account = [status |-> "pending_verification", verified |-> FALSE,
                password |-> FirstPassword, version |-> 1, attempts |-> 0,
                lockedUntil |-> 0]
  /\ session = [s \in Ids |-> NoSession]
  /\ action = [k \in ActionTokens |->
       IF k = FirstAction
         THEN [kind |-> "email_verification", state |-> "unused", expires |-> 1 + ActionTTL]
         ELSE [kind |-> None, state |-> "absent", expires |-> 0]]
  /\ grants = {}
  /\ drawn = {}
  /\ request = [p \in Requests |-> Idle]

Tick ==
  /\ clock < MaxTime
  /\ clock' = clock + 1
  /\ UNCHANGED <<account, session, action, grants, drawn, request>>

-----------------------------------------------------------------------------
(***************************************************************************)
(* Authenticate.  FindByLogin and the comparison decide which of the two   *)
(* updates follows; a locked account is refused at once.                   *)
(***************************************************************************)
BeginLogin(p, password) ==
  /\ request[p].pc = "idle"
  /\ ~IsLocked(clock)
  /\ \/ password = account.password /\ Begin(p, "completing")
     \/ password # account.password /\ CanEstablishSession /\ Begin(p, "failing")
  /\ UNCHANGED <<clock, account, session, action, grants, drawn>>

\* Mutant: failures during a lock count on.
AttemptsAfterRestart(now) ==
  IF account.lockedUntil # 0 /\ ~IsLocked(now) THEN 1 ELSE account.attempts + 1

\* The attempts column after RecordLoginFailure at time now.
AttemptsAfter(now) ==
  CASE IsLocked(now) -> account.attempts
    [] account.lockedUntil # 0 /\ ~IsLocked(now) -> 1
    [] OTHER -> account.attempts + 1

\* Mutant: the account is locked one failure too late.
LockedUntilAfterLate(now) ==
  CASE IsLocked(now) -> account.lockedUntil
    [] ~IsLocked(now) /\ AttemptsAfter(now) > FailureThreshold -> now + LockDuration
    [] OTHER -> 0

LockedUntilAfter(now) ==
  CASE IsLocked(now) -> account.lockedUntil
    [] ~IsLocked(now) /\ AttemptsAfter(now) >= FailureThreshold -> now + LockDuration
    [] OTHER -> 0

RecordLoginFailure(p) ==
  LET now == request[p].now IN
  /\ request[p].pc = "failing"
  /\ account' = [account EXCEPT !.attempts = AttemptsAfter(now),
                                !.lockedUntil = LockedUntilAfter(now)]
  /\ Finish(p)
  /\ UNCHANGED <<clock, session, action, grants, drawn>>

\* Mutant: the row is not looked at again under its lock.
LoginRefusedByStatus(now) == ~CanEstablishSession

LoginRefused(now) == ~CanEstablishSession \/ IsLocked(now)

CompleteLoginSuccess(p) ==
  /\ request[p].pc = "completing"
  /\ \/ /\ LoginRefused(request[p].now)
        /\ Finish(p)
        /\ UNCHANGED account
     \/ /\ ~LoginRefused(request[p].now)
        /\ account' = [account EXCEPT !.attempts = 0, !.lockedUntil = 0]
        /\ request' = [request EXCEPT ![p].pc = "opening", ![p].version = account.version]
  /\ UNCHANGED <<clock, session, action, grants, drawn>>

Earlier(t, u) == IF t < u THEN t ELSE u

\* SessionLogic.Create, with the user CompleteLoginSuccess has returned.
OpenSession(p) ==
  /\ request[p].pc = "opening"
  /\ \E n \in Ids \ drawn :
       /\ \A m \in Ids \ drawn : n <= m
       /\ drawn' = drawn \cup {n}
       /\ session' = [session EXCEPT ![n] =
            [NoSession EXCEPT !.present = TRUE, !.digest = n,
               !.cipher = NewRefreshToken(n), !.created = clock,
               !.expires = Earlier(clock + AbsoluteTTL, clock + IdleTTL)]]
       /\ grants' = grants \cup
            {[token |-> NewRefreshToken(n), session |-> n, from |-> None,
              version |-> request[p].version]}
  /\ Finish(p)
  /\ UNCHANGED <<clock, account, action>>

-----------------------------------------------------------------------------
(***************************************************************************)
(* Refresh: find the session the token names, read its user, rotate.       *)
(***************************************************************************)
BeginRefresh(p, token) ==
  /\ request[p].pc = "idle"
  /\ session[token.sid].present
  /\ IsActive(token.sid, clock)
  /\ request' = [request EXCEPT ![p] =
       [Idle EXCEPT !.pc = "reading", !.now = clock, !.token = token]]
  /\ UNCHANGED <<clock, account, session, action, grants, drawn>>

ReadUser(p) ==
  /\ request[p].pc = "reading"
  /\ \/ /\ CanEstablishSession
        /\ request' = [request EXCEPT ![p].pc = "rotating", ![p].version = account.version]
     \/ ~CanEstablishSession /\ Finish(p)
  /\ UNCHANGED <<clock, account, session, action, grants, drawn>>

\* Mutant: a session revoked since the handler found it still rotates.
RotatableByExpiry(s, now) == session[s].expires > now

Rotatable(s, now) == IsActive(s, now)

Current(p) == session[request[p].token.sid].digest = request[p].token.secret

InGrace(p) ==
  LET row == session[request[p].token.sid] IN
  /\ row.rotated # 0
  /\ request[p].now <= row.rotated + RefreshGrace
  /\ row.previous = request[p].token.secret

Replayed(p) ==
  /\ Rotatable(request[p].token.sid, request[p].now)
  /\ ~Current(p)
  /\ ~InGrace(p)

Granted(p, token) ==
  [token |-> token, session |-> request[p].token.sid, from |-> request[p].token.secret,
   version |-> request[p].version]

NextExpires(p) ==
  Earlier(session[request[p].token.sid].created + AbsoluteTTL, request[p].now + IdleTTL)

\* Mutant: the stored token is not replaced with its digest.
RotateKeepsCipher(p) ==
  LET s == request[p].token.sid IN
  /\ request[p].pc = "rotating"
  /\ Rotatable(s, request[p].now)
  /\ Current(p)
  /\ \E n \in Ids \ drawn :
       /\ drawn' = drawn \cup {n}
       /\ session' = [session EXCEPT ![s].previous = session[s].digest, ![s].digest = n,
                        ![s].expires = NextExpires(p), ![s].rotated = request[p].now]
       /\ grants' = grants \cup {Granted(p, NewRefreshToken(n))}
  /\ Finish(p)
  /\ UNCHANGED <<clock, account, action>>

\* The presented secret is current: it becomes the previous one.
Rotate(p) ==
  LET s == request[p].token.sid IN
  /\ request[p].pc = "rotating"
  /\ Rotatable(s, request[p].now)
  /\ Current(p)
  /\ \E n \in Ids \ drawn :
       /\ \A m \in Ids \ drawn : n <= m
       /\ drawn' = drawn \cup {n}
       /\ session' = [session EXCEPT ![s].previous = session[s].digest, ![s].digest = n,
                        ![s].cipher = NewRefreshToken(n), ![s].expires = NextExpires(p),
                        ![s].rotated = request[p].now]
       /\ grants' = grants \cup {Granted(p, NewRefreshToken(n))}
  /\ Finish(p)
  /\ UNCHANGED <<clock, account, action>>

\* The presented secret was current moments ago: the stored token is returned.
RotateInGrace(p) ==
  /\ request[p].pc = "rotating"
  /\ Rotatable(request[p].token.sid, request[p].now)
  /\ ~Current(p) /\ InGrace(p)
  /\ grants' = grants \cup {Granted(p, session[request[p].token.sid].cipher)}
  /\ Finish(p)
  /\ UNCHANGED <<clock, account, session, action, drawn>>

(***************************************************************************)
(* The session is no longer active, or the secret was used before.  In the *)
(* second case the transaction revokes the session and then returns        *)
(* ErrSessionReplay, which rolls the revocation back.                      *)
(***************************************************************************)
RotateRefused(p) ==
  /\ request[p].pc = "rotating"
  /\ ~Rotatable(request[p].token.sid, request[p].now) \/ Replayed(p)
  /\ Finish(p)
  /\ UNCHANGED <<clock, account, session, action, grants, drawn>>

-----------------------------------------------------------------------------
\* authenticateRequest: an access token of the current version, user enabled.
Authenticated ==
  CanEstablishSession /\ \E g \in grants : g.version = account.version

RevokeLive(S, reason) ==
  session' = [s \in Ids |->
    IF s \in S /\ session[s].present /\ session[s].revoked = "none"
      THEN [session[s] EXCEPT !.revoked = reason] ELSE session[s]]

RevokeSession(s) ==
  /\ Authenticated
  /\ session[s].present /\ session[s].revoked = "none"
  /\ RevokeLive({s}, "user_revoked")
  /\ UNCHANGED <<clock, account, action, grants, drawn, request>>

RevokeAllSessions ==
  /\ Authenticated
  /\ RevokeLive(Ids, "user_revoked")
  /\ UNCHANGED <<clock, account, action, grants, drawn, request>>

BeginDeactivate(p, password) ==
  /\ request[p].pc = "idle"
  /\ Authenticated
  /\ password = account.password
  /\ Begin(p, "deactivating")
  /\ UNCHANGED <<clock, account, session, action, grants, drawn>>

\* Mutant: the token version is not advanced.
DeactivateKeepsVersion(p) ==
  /\ request[p].pc = "deactivating"
  /\ account.status # "disabled"
  /\ account' = [account EXCEPT !.status = "disabled"]
  /\ RevokeLive(Ids, "account_deactivated")
  /\ Finish(p)
  /\ UNCHANGED <<clock, action, grants, drawn>>

DeactivateAndRevoke(p) ==
  /\ request[p].pc = "deactivating"
  /\ \/ /\ account.status # "disabled"
        /\ account' = [account EXCEPT !.status = "disabled", !.version = @ + 1]
        /\ RevokeLive(Ids, "account_deactivated")
     \/ /\ account.status = "disabled"
        /\ UNCHANGED <<account, session>>
  /\ Finish(p)
  /\ UNCHANGED <<clock, action, grants, drawn>>

-----------------------------------------------------------------------------
(***************************************************************************)
(* Action tokens.  CreateAndEnqueue deletes the unused tokens of the kind  *)
(* and inserts the new one in one transaction, but its DELETE sees only    *)
(* the tokens committed before it.                                         *)
(***************************************************************************)
Unexpired(k) == action[k].state = "unused" /\ action[k].expires > clock

BeginIssue(p, kind) ==
  /\ request[p].pc = "idle"
  /\ account.status # "disabled"
  /\ request' = [request EXCEPT ![p] =
       [Idle EXCEPT !.pc = "issuing", !.now = clock, !.kind = kind]]
  /\ UNCHANGED <<clock, account, session, action, grants, drawn>>

RequestPasswordReset(p) == BeginIssue(p, "password_reset")

RequestEmailVerification(p) ==
  /\ Authenticated /\ ~account.verified
  /\ \A k \in ActionTokens : action[k].kind = "email_verification" => ~Unexpired(k)
  /\ BeginIssue(p, "email_verification")

Deleting == UNION {request[p].victims : p \in Requests}

InvalidatePrevious(p) ==
  /\ request[p].pc = "issuing"
  /\ request' = [request EXCEPT ![p].pc = "enqueuing",
       ![p].victims = {k \in ActionTokens \ Deleting :
                        /\ action[k].kind = request[p].kind
                        /\ action[k].state = "unused"
                        /\ action[k].expires > request[p].now}]
  /\ UNCHANGED <<clock, account, session, action, grants, drawn>>

CreateAndEnqueue(p) ==
  /\ request[p].pc = "enqueuing"
  /\ \E new \in ActionTokens :
       /\ action[new].state = "absent"
       /\ action' = [k \in ActionTokens |->
            CASE k = new -> [kind |-> request[p].kind, state |-> "unused",
                             expires |-> request[p].now + ActionTTL]
              [] k \in request[p].victims -> [action[k] EXCEPT !.state = "deleted"]
              [] OTHER -> action[k]]
  /\ Finish(p)
  /\ UNCHANGED <<clock, account, session, grants, drawn>>

\* lockActionByDigest and classifyActionToken.
Consumable(k, kind) ==
  action[k].kind = kind /\ Unexpired(k) /\ k \notin Deleting

Verified ==
  IF account.verified THEN account
  ELSE [account EXCEPT !.verified = TRUE, !.status = "active"]

ConsumeAndVerifyEmail(k) ==
  /\ Consumable(k, "email_verification")
  /\ action' = [action EXCEPT ![k].state = "used"]
  /\ account' = Verified
  /\ UNCHANGED <<clock, session, grants, drawn, request>>

\* Mutant: a reset enables the account.
ResetReactivates(k, password) ==
  /\ Consumable(k, "password_reset")
  /\ action' = [action EXCEPT ![k].state = "used"]
  /\ account' = [account EXCEPT !.password = password, !.version = @ + 1,
                   !.attempts = 0, !.lockedUntil = 0, !.status = "active"]
  /\ RevokeLive(Ids, "password_reset")
  /\ UNCHANGED <<clock, grants, drawn, request>>

ConsumeAndResetPassword(k, password) ==
  /\ Consumable(k, "password_reset")
  /\ action' = [action EXCEPT ![k].state = "used"]
  /\ account' = [account EXCEPT !.password = password, !.version = @ + 1,
                                !.attempts = 0, !.lockedUntil = 0]
  /\ RevokeLive(Ids, "password_reset")
  /\ UNCHANGED <<clock, grants, drawn, request>>

-----------------------------------------------------------------------------
HandlerNext(p) ==
  \/ \E password \in Passwords : BeginLogin(p, password) \/ BeginDeactivate(p, password)
  \/ RecordLoginFailure(p)
  \/ CompleteLoginSuccess(p)
  \/ OpenSession(p)
  \/ \E g \in grants : BeginRefresh(p, g.token)
  \/ ReadUser(p)
  \/ Rotate(p)
  \/ RotateInGrace(p)
  \/ RotateRefused(p)
  \/ DeactivateAndRevoke(p)
  \/ RequestPasswordReset(p)
  \/ RequestEmailVerification(p)
  \/ InvalidatePrevious(p)
  \/ CreateAndEnqueue(p)

Next ==
  \/ Tick
  \/ \E p \in Requests : HandlerNext(p)
  \/ \E s \in Ids : RevokeSession(s)
  \/ RevokeAllSessions
  \/ \E k \in ActionTokens :
       \/ ConsumeAndVerifyEmail(k)
       \/ \E password \in Passwords : ConsumeAndResetPassword(k, password)

Spec == Init /\ [][Next]_vars

-----------------------------------------------------------------------------
(***************************************************************************)
(* The columns and the handlers keep their types.                          *)
(***************************************************************************)
TypeOK ==
  /\ clock \in 1 .. MaxTime
  /\ account \in [status : Statuses, verified : BOOLEAN, password : Passwords,
                  version : Nat, attempts : 0 .. FailureThreshold,
                  lockedUntil : Times]
  /\ session \in [Ids -> Sessions]
  /\ action \in [ActionTokens ->
       [kind : {"email_verification", "password_reset", None},
        state : {"absent", "unused", "used", "deleted"}, expires : Times]]
  /\ grants \subseteq Grants
  /\ drawn \subseteq Ids
  /\ request \in [Requests ->
       [pc : {"idle", "completing", "failing", "opening", "reading", "rotating",
              "deactivating", "issuing", "enqueuing"},
        now : Times, token : Tokens \cup {None},
        kind : {"email_verification", "password_reset", None},
        version : Nat, victims : SUBSET ActionTokens]]

(***************************************************************************)
(* Rotation is strict under concurrency: all refreshes of a session that   *)
(* present the same secret and succeed are answered with the same          *)
(* successor, however their reads and transactions interleave.             *)
(***************************************************************************)
OneSuccessor ==
  \A g, h \in grants :
    (g.from # None /\ g.from = h.from /\ g.session = h.session) => g.token = h.token

(***************************************************************************)
(* A password reset and a deactivation cut off every session they revoke:  *)
(* no access token of the account's current version belongs to one of      *)
(* them, although Refresh reads the session, the user and its version      *)
(* before the transaction that rotates.                                    *)
(***************************************************************************)
RevokedSessionsHoldNoCurrentVersion ==
  \A g \in grants :
    g.version = account.version =>
      session[g.session].revoked \notin {"password_reset", "account_deactivated"}

(***************************************************************************)
(* A disabled account is cut off: no access token carries its current      *)
(* version.  A login that passed CompleteLoginSuccess before the           *)
(* deactivation still inserts a session after it, and a refresh that read  *)
(* the user before it still rotates, but both answer with the old version. *)
(***************************************************************************)
DisabledIsCutOff ==
  account.status = "disabled" => \A g \in grants : g.version # account.version

(***************************************************************************)
(* A running lock is lifted by nothing but a password reset: not by a      *)
(* login whose password was compared before the account was locked, and    *)
(* not by further failures.                                                *)
(***************************************************************************)
LockHolds ==
  [][ account.lockedUntil > clock =>
        \/ account'.lockedUntil = account.lockedUntil
        \/ \E k \in ActionTokens :
             /\ action[k].kind = "password_reset"
             /\ action[k].state = "unused" /\ action'[k].state = "used" ]_vars

(***************************************************************************)
(* The lock trips at the threshold, however concurrent failures            *)
(* interleave and whether or not an earlier lock has run out.              *)
(***************************************************************************)
LockTrips == account.lockedUntil = 0 => account.attempts < FailureThreshold

(***************************************************************************)
(* A disabled account comes back in one way only: an address that was      *)
(* never verified is verified with a token it asked for while enabled.     *)
(***************************************************************************)
ReactivationOnlyByFirstVerification ==
  [][ (account.status = "disabled" /\ account'.status # "disabled") =>
        (~account.verified /\ account'.verified) ]_vars

(***************************************************************************)
(* What docs/migrations/2026-08-auth-productionization.md says of          *)
(* rotation (line 7): a refresh answers with the successor token, that is, *)
(* a token that names the session it was granted for.                      *)
(***************************************************************************)
SuccessorNamesItsSession == \A g \in grants : g.token.sid = g.session
=============================================================================
