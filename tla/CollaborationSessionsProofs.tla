-------------------- MODULE CollaborationSessionsProofs --------------------
(***************************************************************************)
(* What a permission event promises holds for every number of sessions and *)
(* of revisions.  The invariant follows a session through its phases: as   *)
(* long as it is a ticket or a handshake the watermark knows every         *)
(* revision heard of since the ticket was issued; from then on the actor   *)
(* knows it, has it in its queue, or the event is not acknowledged yet.    *)
(***************************************************************************)
EXTENDS CollaborationSessions, TLAPS

\* The actor and the consumer hear of announced revisions only, and a send
\* waits for an actor that runs.
Bounded ==
  /\ actor # NoActor => actor.queue \subseteq stream /\ actor.revision <= permission
  /\ sending # 0 => actor # NoActor

Safe(c) ==
  /\ session[c].revision <= permission
  /\ session[c].phase = "forbidden" => session[c].revision < permission
  /\ session[c].phase = "authorized" => session[c].heard = {}
  /\ session[c].phase \in {"connecting", "open"} => actor # NoActor
  /\ session[c].phase \in {"ticket", "handshake"} =>
       \A p \in session[c].heard : p <= watermark
  /\ session[c].phase = "connecting" =>
       \A p \in session[c].heard :
         session[c].revision < p =>
           p \notin acked \/ p <= actor.revision \/ p \in actor.queue
  /\ session[c].phase = "open" =>
       \A p \in session[c].heard :
         session[c].revision < p => p \notin acked \/ p \in actor.queue

IInv == TypeOK /\ Bounded /\ \A c \in Clients : Safe(c)

-----------------------------------------------------------------------------
\* A running actor has the type its record says.
LEMMA ActorTyped ==
  ASSUME TypeOK, actor # NoActor
  PROVE  actor \in Actor
  BY DEF TypeOK

\* NoActor is no actor.
LEMMA NoActorIsNone == NoActor \notin Actor
  BY SessionAssumption DEF Actor, Revisions

LEMMA OutTyped == Out \in Session
  BY SessionAssumption DEF Out, Session, Phases, Known, Revisions

LEMMA InitInv == Init => IInv
  <1> SUFFICES ASSUME Init PROVE IInv
    OBVIOUS
  <1>1. TypeOK
    BY OutTyped, SessionAssumption DEF Init, TypeOK, Revisions
  <1>2. Bounded
    BY DEF Init, Bounded
  <1>3. ASSUME NEW c \in Clients PROVE Safe(c)
    BY SessionAssumption DEF Init, Safe, Out
  <1> QED
    BY <1>1, <1>2, <1>3 DEF IInv

-----------------------------------------------------------------------------
(***************************************************************************)
(* Steps that leave the actor and what it is told alone.                   *)
(***************************************************************************)
LEMMA AdvanceStep == IInv /\ AdvancePermissionRevision => IInv'
  <1> SUFFICES ASSUME IInv, AdvancePermissionRevision PROVE IInv'
    OBVIOUS
  <1> USE DEF IInv
  <1>1. permission \in Nat /\ permission' = permission + 1 /\ permission' \in Revisions
    BY SessionAssumption DEF TypeOK, AdvancePermissionRevision, Revisions
  <1>2. TypeOK'
    BY <1>1 DEF TypeOK, AdvancePermissionRevision
  <1>3. Bounded'
    <2>1. actor # NoActor => actor.revision \in Nat
      BY ActorTyped, SessionAssumption DEF Actor
    <2> QED
      BY <1>1, <2>1 DEF Bounded, AdvancePermissionRevision
  <1>4. ASSUME NEW c \in Clients PROVE Safe(c)'
    <2>1. session[c].revision \in Nat
      BY DEF TypeOK, Session, Revisions
    <2>2. Safe(c)
      OBVIOUS
    <2> QED
      BY <1>1, <2>1, <2>2 DEF Safe, AdvancePermissionRevision
  <1> QED
    BY <1>2, <1>3, <1>4

LEMMA PublishStep ==
  ASSUME IInv, NEW p \in Revisions, Publish(p) PROVE IInv'
  <1> USE DEF IInv
  <1>1. TypeOK'
    BY DEF TypeOK, Publish
  <1>2. Bounded'
    BY DEF Bounded, Publish
  <1>3. ASSUME NEW c \in Clients PROVE Safe(c)'
    BY DEF Safe, Publish
  <1> QED
    BY <1>1, <1>2, <1>3

LEMMA ExpiryStep == IInv /\ WatermarkExpires => IInv'
  <1> SUFFICES ASSUME IInv, WatermarkExpires PROVE IInv'
    OBVIOUS
  <1> USE DEF IInv
  <1>1. TypeOK'
    BY SessionAssumption DEF TypeOK, WatermarkExpires, Revisions
  <1>2. Bounded'
    BY DEF Bounded, WatermarkExpires
  <1>3. ASSUME NEW c \in Clients PROVE Safe(c)'
    BY DEF Safe, WatermarkExpires
  <1> QED
    BY <1>1, <1>2, <1>3

\* A step that changes one session and, of the rest, nothing but the actor's
\* revision: it has only to be checked for that session.
OneSession(c) ==
  /\ session' = [session EXCEPT ![c] = session'[c]]
  /\ session'[c] \in Session
  /\ UNCHANGED <<permission, stream, acked, sending, watermark>>

LEMMA SessionStep ==
  ASSUME IInv, NEW c \in Clients, OneSession(c), UNCHANGED actor, Safe(c)'
  PROVE  IInv'
  <1> USE DEF IInv
  <1>1. TypeOK'
    BY DEF TypeOK, OneSession
  <1>2. Bounded'
    BY DEF Bounded, OneSession
  <1>3. ASSUME NEW d \in Clients PROVE Safe(d)'
    <2>1. CASE d = c
      BY <2>1
    <2>2. CASE d # c
      <3>1. session'[d] = session[d]
        BY <2>2 DEF OneSession, TypeOK
      <3>2. Safe(d)
        OBVIOUS
      <3> QED
        BY <3>1, <3>2 DEF Safe, OneSession
    <2> QED
      BY <2>1, <2>2
  <1> QED
    BY <1>1, <1>2, <1>3

LEMMA AuthorizeStep ==
  ASSUME IInv, NEW c \in Clients, Authorize(c) PROVE IInv'
  <1>1. session[c] \in Session /\ permission \in Revisions /\ Safe(c)
    BY DEF IInv, TypeOK
  <1>2. session'[c] = [phase |-> "authorized", revision |-> permission, heard |-> {}]
    BY DEF Authorize, IInv, TypeOK
  <1>3. OneSession(c)
    <2>1. session'[c] \in Session
      BY <1>1, <1>2 DEF Session, Phases, Known
    <2> QED
      BY Zenon, <1>2, <2>1 DEF OneSession, Authorize
  <1>4. Safe(c)'
    BY <1>1, <1>2 DEF Safe, Authorize, Revisions
  <1> QED
    BY <1>3, <1>4, SessionStep DEF Authorize

\* Steps that only move a session from one phase to the next.
Moved(c, phase) ==
  /\ session' = [session EXCEPT ![c].phase = phase]
  /\ UNCHANGED <<permission, stream, acked, sending, watermark>>

LEMMA MovedSession ==
  ASSUME IInv, NEW c \in Clients, NEW phase \in Phases, Moved(c, phase)
  PROVE  /\ OneSession(c)
         /\ session'[c].phase = phase
         /\ session'[c].revision = session[c].revision
         /\ session'[c].heard = session[c].heard
  <1>1. session[c] \in Session /\ session \in [Clients -> Session]
    BY DEF IInv, TypeOK
  <1>2. session'[c] = [session[c] EXCEPT !.phase = phase]
    BY <1>1 DEF Moved
  <1>3. session'[c] \in Session
    BY <1>1, <1>2 DEF Session
  <1> QED
    BY <1>1, <1>2, <1>3 DEF OneSession, Moved, Session

LEMMA IssueStep ==
  ASSUME IInv, NEW c \in Clients, Issue(c) PROVE IInv'
  <1>1. Safe(c) /\ Moved(c, "ticket")
    BY DEF IInv, Issue, Moved
  <1>2. "ticket" \in Phases
    BY DEF Phases, Known
  <1>3. Safe(c)'
    BY <1>1, <1>2, MovedSession DEF Safe, Issue
  <1> QED
    BY <1>1, <1>2, <1>3, MovedSession, SessionStep DEF Issue

LEMMA ConsumeStep ==
  ASSUME IInv, NEW c \in Clients, Consume(c) PROVE IInv'
  <1>1. Safe(c) /\ Moved(c, "handshake")
    BY DEF IInv, Consume, Moved
  <1>2. "handshake" \in Phases
    BY DEF Phases, Known
  <1>3. Safe(c)'
    BY <1>1, <1>2, MovedSession DEF Safe, Consume
  <1> QED
    BY <1>1, <1>2, <1>3, MovedSession, SessionStep DEF Consume
LEMMA LeaveStep ==
  ASSUME IInv, NEW c \in Clients, Leave(c) PROVE IInv'
  <1>1. session'[c] = Out /\ permission \in Nat /\ permission >= 1
    BY DEF Leave, IInv, TypeOK, Revisions
  <1>2. OneSession(c)
    BY Zenon, <1>1, OutTyped DEF OneSession, Leave
  <1>3. Safe(c)'
    BY <1>1 DEF Safe, Leave, Out
  <1> QED
    BY <1>2, <1>3, SessionStep DEF Leave

LEMMA ConnectRefusedStep ==
  ASSUME IInv, NEW c \in Clients, ConnectRefused(c) PROVE IInv'
  <1>1. Safe(c) /\ Moved(c, "forbidden")
    BY DEF IInv, ConnectRefused, Moved
  <1>2. "forbidden" \in Phases
    BY DEF Phases
  <1>3. session[c].revision < permission
    BY DEF ConnectRefused, IInv, TypeOK, Session, Revisions
  <1>4. Safe(c)'
    BY <1>1, <1>2, <1>3, MovedSession DEF Safe, ConnectRefused
  <1> QED
    BY <1>1, <1>2, <1>4, MovedSession, SessionStep DEF ConnectRefused

LEMMA AdmitRefusedStep ==
  ASSUME IInv, NEW c \in Clients, AdmitRefused(c) PROVE IInv'
  <1>1. CASE /\ session[c].revision < actor.revision
             /\ session' = [session EXCEPT ![c].phase = "forbidden"]
    <2>1. Safe(c) /\ Moved(c, "forbidden")
      BY <1>1 DEF IInv, AdmitRefused, Moved
    <2>2. "forbidden" \in Phases
      BY DEF Phases
    <2>3. session[c].revision < permission
      <3>1. actor.revision \in Nat /\ actor.revision <= permission
        BY ActorTyped, SessionAssumption
        DEF AdmitRefused, Ready, IInv, Bounded, Actor
      <3> QED
        BY <1>1, <3>1 DEF IInv, TypeOK, Session, Revisions
    <2>4. Safe(c)'
      BY <2>1, <2>2, <2>3, MovedSession DEF Safe, AdmitRefused
    <2> QED
      BY <2>1, <2>2, <2>4, MovedSession, SessionStep DEF AdmitRefused
  <1>2. CASE session' = [session EXCEPT ![c] = Out]
    <2>1. session'[c] = Out /\ permission \in Nat /\ permission >= 1
      BY <1>2 DEF IInv, TypeOK, Revisions
    <2>2. OneSession(c)
      BY Zenon, <1>2, <2>1, OutTyped DEF OneSession, AdmitRefused
    <2>3. Safe(c)'
      BY <2>1 DEF Safe, AdmitRefused, Out
    <2> QED
      BY <2>2, <2>3, SessionStep DEF AdmitRefused
  <1> QED
    BY <1>1, <1>2 DEF AdmitRefused
-----------------------------------------------------------------------------
(***************************************************************************)
(* The actor.                                                              *)
(***************************************************************************)
\* The registry lets no session pass that is older than the watermark, so
\* nothing it has heard of is newer than it.
LEMMA ConnectStep ==
  ASSUME IInv, NEW c \in Clients, Connect(c) PROVE IInv'
  <1>1. Moved(c, "connecting") /\ "connecting" \in Phases
    BY DEF Connect, Handle, Moved, Phases, Known
  <1>2. /\ OneSession(c)
        /\ session'[c].phase = "connecting"
        /\ session'[c].revision = session[c].revision
        /\ session'[c].heard = session[c].heard
    BY <1>1, MovedSession
  <1>3. actor' \in Actor /\ actor' # NoActor
    <2>1. CASE actor # NoActor
      BY <2>1, ActorTyped DEF Connect, Handle, IInv
    <2>2. CASE actor = NoActor
      <3>1. actor' = [loading |-> TRUE, revision |-> watermark, queue |-> {}]
        BY <2>2 DEF Connect, Handle
      <3>2. actor' \in Actor
        BY <3>1, SessionAssumption DEF Actor, IInv, TypeOK, Revisions
      <3> QED
        BY <3>2, NoActorIsNone
    <2> QED
      BY <2>1, <2>2
  <1>4. TypeOK'
    BY <1>2, <1>3 DEF IInv, TypeOK, OneSession
  <1>5. Bounded'
    BY DEF IInv, Bounded, Connect, Handle, TypeOK
  <1>6. ASSUME NEW d \in Clients PROVE Safe(d)'
    <2>1. CASE d = c
      <3>1. \A p \in session[c].heard : ~(session[c].revision < p)
        BY DEF IInv, TypeOK, Safe, Connect, Handle, Session, Revisions
      <3>2. Safe(c)
        BY DEF IInv
      <3> QED
        BY <1>2, <1>3, <2>1, <3>1, <3>2 DEF Safe, Connect, Handle
    <2>2. CASE d # c
      <3>1. session'[d] = session[d] /\ Safe(d)
        BY <2>2 DEF Connect, Handle, IInv, TypeOK
      <3>2. CASE actor = NoActor
        BY <1>3, <3>1, <3>2 DEF Safe, Connect, Handle
      <3>3. CASE actor # NoActor
        BY Zenon, <3>1, <3>3 DEF Safe, Connect, Handle
      <3> QED
        BY <3>2, <3>3
    <2> QED
      BY <2>1, <2>2
  <1> QED
    BY <1>4, <1>5, <1>6 DEF IInv

LEMMA LoadStep == IInv /\ Load => IInv'
  <1> SUFFICES ASSUME IInv, Load PROVE IInv'
    OBVIOUS
  <1>1. actor \in Actor
    BY ActorTyped DEF IInv, Load
  <1>2. /\ actor' \in Actor
        /\ actor'.revision = actor.revision
        /\ actor'.queue = actor.queue
    BY Zenon, <1>1 DEF Load, Actor
  <1>3. actor' # NoActor /\ actor # NoActor
    BY Zenon, <1>2, NoActorIsNone DEF Load
  <1>4. TypeOK'
    BY <1>2 DEF IInv, TypeOK, Load
  <1>5. Bounded'
    BY <1>2, <1>3 DEF IInv, Bounded, Load
  <1>6. ASSUME NEW c \in Clients PROVE Safe(c)'
    <2>1. Safe(c)
      BY DEF IInv
    <2> QED
      BY <1>2, <1>3, <2>1 DEF Safe, Load
  <1> QED
    BY <1>4, <1>5, <1>6 DEF IInv

\* What Admit and InvalidatePermissions make of the actor.
LEMMA RaisedActor ==
  ASSUME IInv, actor # NoActor, NEW r \in Revisions, NEW q \in SUBSET Revisions,
         actor' = [actor EXCEPT !.revision = Larger(@, r), !.queue = q]
  PROVE  /\ actor' \in Actor /\ actor' # NoActor
         /\ actor'.queue = q
         /\ actor'.revision \in Nat /\ actor.revision \in Nat
         /\ actor'.revision >= actor.revision /\ actor'.revision >= r
         /\ r <= permission => actor'.revision <= permission
  <1>1. actor \in Actor /\ actor.revision <= permission
    BY ActorTyped DEF IInv, Bounded
  <1>2. actor'.revision = Larger(actor.revision, r) /\ actor'.queue = q
        /\ actor'.loading = actor.loading
    BY <1>1 DEF Actor
  <1>3. actor.revision \in 0 .. MaxRevision /\ r \in 0 .. MaxRevision
    BY <1>1, SessionAssumption DEF Actor, Revisions
  <1>4. Larger(actor.revision, r) \in 0 .. MaxRevision
    BY <1>3 DEF Larger
  <1>5. actor' \in Actor
    BY Zenon, <1>1, <1>4 DEF Actor
  <1> QED
    BY <1>1, <1>2, <1>3, <1>4, <1>5, NoActorIsNone, SessionAssumption DEF Larger

LEMMA AdmitStep ==
  ASSUME IInv, NEW c \in Clients, Admit(c) PROVE IInv'
  <1>1. Moved(c, "open") /\ "open" \in Phases
    BY DEF Admit, Moved, Phases, Known
  <1>2. /\ OneSession(c)
        /\ session'[c].phase = "open"
        /\ session'[c].revision = session[c].revision
        /\ session'[c].heard = session[c].heard
    BY <1>1, MovedSession
  <1>3. actor # NoActor /\ actor \in Actor /\ Safe(c)
    BY ActorTyped DEF Admit, Ready, IInv
  <1>4. /\ session[c].revision \in Revisions /\ session[c].revision <= permission
        /\ session[c].heard \subseteq Revisions
    BY <1>3 DEF IInv, TypeOK, Session, Safe
  <1>5. actor.queue \in SUBSET Revisions
    BY <1>3 DEF Actor
  <1>6. actor' = [actor EXCEPT !.revision = Larger(@, session[c].revision),
                               !.queue = actor.queue]
    BY Zenon, <1>3 DEF Admit, Actor
  <1>7. /\ actor' \in Actor /\ actor' # NoActor
        /\ actor'.queue = actor.queue
        /\ actor'.revision \in Nat /\ actor.revision \in Nat
        /\ actor'.revision >= actor.revision
        /\ actor'.revision <= permission
    BY Zenon, <1>3, <1>4, <1>5, <1>6, RaisedActor
  <1>8. TypeOK'
    BY <1>2, <1>7 DEF IInv, TypeOK, OneSession
  <1>9. Bounded'
    BY <1>3, <1>7 DEF IInv, Bounded, Admit
  <1>10. ASSUME NEW d \in Clients PROVE Safe(d)'
    <2>1. CASE d = c
      <3>1. \A p \in session[c].heard :
              session[c].revision < p => p \notin acked \/ p \in actor.queue
        BY <1>3, <1>4, <1>7 DEF Safe, Admit, Revisions
      <3> QED
        BY <1>2, <1>3, <1>7, <2>1, <3>1 DEF Safe, Admit
    <2>2. CASE d # c
      <3>1. session'[d] = session[d] /\ Safe(d) /\ session[d].heard \subseteq Revisions
        BY <2>2 DEF Admit, IInv, TypeOK, Session
      <3>2. session[d].phase = "connecting" =>
              \A p \in session[d].heard :
                session[d].revision < p =>
                  p \notin acked \/ p <= actor'.revision \/ p \in actor.queue
        BY <1>7, <3>1 DEF Safe, Revisions
      <3> QED
        BY Zenon, <1>7, <3>1, <3>2 DEF Safe, Admit
    <2> QED
      BY <2>1, <2>2
  <1> QED
    BY <1>8, <1>9, <1>10 DEF IInv
\* The sessions that are older leave; those that stay are not.
LEMMA InvalidateStep ==
  ASSUME IInv, NEW p \in Revisions, InvalidatePermissions(p) PROVE IInv'
  <1>1. actor # NoActor /\ actor \in Actor /\ p \in actor.queue /\ p \in stream
    BY ActorTyped DEF InvalidatePermissions, Ready, IInv, Bounded
  <1>2. p <= permission /\ permission \in Nat
    BY <1>1 DEF IInv, TypeOK, Revisions
  <1>3. actor.queue \ {p} \in SUBSET Revisions
    BY <1>1 DEF Actor
  <1>4. actor' = [actor EXCEPT !.revision = Larger(@, p), !.queue = actor.queue \ {p}]
    BY <1>1 DEF InvalidatePermissions, Actor
  <1>5. /\ actor' \in Actor /\ actor' # NoActor
        /\ actor'.queue = actor.queue \ {p}
        /\ actor'.revision \in Nat /\ actor.revision \in Nat
        /\ actor'.revision >= actor.revision /\ actor'.revision >= p
        /\ actor'.revision <= permission
    BY ZenonT(60), <1>1, <1>2, <1>3, <1>4, RaisedActor
  <1>6. ASSUME NEW c \in Clients
        PROVE  /\ session'[c] \in Session
               /\ session'[c].revision = session[c].revision
               /\ session'[c].heard = session[c].heard
               /\ session'[c].phase = IF Stale(c, p) THEN "forbidden" ELSE session[c].phase
    <2>1. session[c] \in Session
      BY DEF IInv, TypeOK
    <2>2. session'[c] = IF Stale(c, p) THEN [session[c] EXCEPT !.phase = "forbidden"]
                        ELSE session[c]
      BY DEF InvalidatePermissions
    <2> QED
      BY <2>1, <2>2 DEF Session, Phases
  <1>7. TypeOK'
    <2>1. session' \in [Clients -> Session]
      BY <1>6 DEF InvalidatePermissions
    <2> QED
      BY <1>5, <2>1 DEF IInv, TypeOK, InvalidatePermissions
  <1>8. Bounded'
    BY <1>1, <1>5 DEF IInv, Bounded, InvalidatePermissions
  <1>9. ASSUME NEW c \in Clients PROVE Safe(c)'
    <2>1. /\ Safe(c)
          /\ session[c].revision \in Revisions /\ session[c].heard \subseteq Revisions
      BY DEF IInv, TypeOK, Session
    <2>2. CASE Stale(c, p)
      <3>1. session[c].revision < permission
        BY <1>2, <2>1, <2>2 DEF Stale, Revisions
      <3>2. session'[c].phase = "forbidden"
        BY <1>6, <2>2
      <3>3. session'[c].revision = session[c].revision
        BY <1>6
      <3>4. permission' = permission
        BY DEF InvalidatePermissions
      <3> QED
        BY <1>2, <2>1, <3>1, <3>2, <3>3, <3>4 DEF Safe
    <2>3. CASE ~Stale(c, p)
      <3>1. session[c].phase = "open" => ~(session[c].revision < p)
        BY <2>3 DEF Stale
      <3>2. session[c].phase = "open" =>
              \A q \in session[c].heard :
                session[c].revision < q => q \notin acked \/ q \in actor.queue \ {p}
        BY <2>1, <3>1 DEF Safe
      <3>3. session[c].phase = "connecting" =>
              \A q \in session[c].heard :
                session[c].revision < q =>
                  q \notin acked \/ q <= actor'.revision \/ q \in actor.queue \ {p}
        BY <1>5, <2>1 DEF Safe, Revisions
      <3> QED
        BY <1>5, <1>6, <2>1, <2>3, <3>2, <3>3 DEF Safe, InvalidatePermissions
    <2> QED
      BY <2>2, <2>3
  <1> QED
    BY <1>7, <1>8, <1>9 DEF IInv

LEMMA EndStep == IInv /\ ActorEnds => IInv'
  <1> SUFFICES ASSUME IInv, ActorEnds PROVE IInv'
    OBVIOUS
  <1>1. permission \in Nat /\ permission >= 1
    BY DEF IInv, TypeOK, Revisions
  <1>2. TypeOK'
    <2>1. session' \in [Clients -> Session]
      BY OutTyped DEF ActorEnds, Cut, IInv, TypeOK
    <2> QED
      BY <2>1 DEF IInv, TypeOK, ActorEnds
  <1>3. Bounded'
    BY DEF Bounded, ActorEnds
  <1>4. ASSUME NEW c \in Clients PROVE Safe(c)'
    <2>1. session'[c] = IF session[c].phase \in {"connecting", "open"} THEN Out
                        ELSE session[c]
      BY DEF ActorEnds, Cut
    <2>2. Safe(c)
      BY DEF IInv
    <2>3. CASE session[c].phase \in {"connecting", "open"}
      BY <1>1, <2>1, <2>3 DEF Safe, ActorEnds, Out
    <2>4. CASE session[c].phase \notin {"connecting", "open"}
      BY <2>1, <2>2, <2>4 DEF Safe, ActorEnds
    <2> QED
      BY <2>3, <2>4
  <1> QED
    BY <1>2, <1>3, <1>4 DEF IInv
-----------------------------------------------------------------------------
(***************************************************************************)
(* The consumer, and the end of the process.                               *)
(***************************************************************************)
\* Tickets and handshakes are covered by the watermark.  Sessions that have
\* an actor are covered by the event, which is not acknowledged before it is
\* in the queue.
LEMMA RecordStep ==
  ASSUME IInv, NEW p \in Revisions, Record(p) PROVE IInv'
  <1>1. /\ p \in stream /\ p \notin acked /\ sending = 0
        /\ permission \in Nat /\ p \in Nat /\ p <= permission
        /\ watermark \in Nat /\ watermark <= permission
    BY DEF Record, Recorded, IInv, TypeOK, Revisions
  <1>2. /\ watermark' \in 0 .. permission
        /\ watermark' >= watermark /\ watermark' >= p
    BY <1>1 DEF Record, Recorded, Larger
  <1>3. ASSUME NEW c \in Clients
        PROVE  /\ session'[c] \in Session
               /\ session'[c].phase = session[c].phase
               /\ session'[c].revision = session[c].revision
               /\ session'[c].heard = IF session[c].phase \in Known
                                        THEN session[c].heard \cup {p}
                                        ELSE session[c].heard
    <2>1. session[c] \in Session
      BY DEF IInv, TypeOK
    <2>2. session'[c] = IF session[c].phase \in Known
                          THEN [session[c] EXCEPT !.heard = @ \cup {p}]
                          ELSE session[c]
      BY DEF Record, Recorded, Heard
    <2> QED
      BY <2>1, <2>2 DEF Session
  <1>4. /\ acked \subseteq acked' /\ acked' \subseteq acked \cup {p}
        /\ actor # NoActor => acked' = acked /\ sending' = p
        /\ actor = NoActor => sending' = 0
        /\ actor' = actor /\ stream' = stream /\ permission' = permission
    BY <1>1 DEF Record, Recorded, Acknowledge
  <1>5. TypeOK'
    <2>1. session' \in [Clients -> Session]
      BY Zenon, <1>3 DEF Record, Recorded, Heard
    <2>2. acked' \subseteq stream /\ sending' \in (stream \ acked') \cup {0}
      BY <1>1, <1>4 DEF IInv, TypeOK
    <2> QED
      BY <1>2, <1>4, <2>1, <2>2 DEF IInv, TypeOK
  <1>6. Bounded'
    BY <1>4 DEF IInv, Bounded
  <1>7. ASSUME NEW c \in Clients PROVE Safe(c)'
    <2>1. /\ Safe(c)
          /\ session[c].revision \in Nat /\ session[c].heard \subseteq Nat
      BY DEF IInv, TypeOK, Session, Revisions
    <2>2. session[c].phase \in {"ticket", "handshake"} =>
            \A q \in session'[c].heard : q <= watermark'
      <3>1. session[c].phase \in {"ticket", "handshake"} =>
              /\ session'[c].heard = session[c].heard \cup {p}
              /\ \A q \in session[c].heard : q <= watermark
        BY Zenon, <1>3, <2>1 DEF Safe, Known
      <3> QED
        BY <1>1, <1>2, <2>1, <3>1
    <2>3. session[c].phase \in {"connecting", "open"} =>
            actor # NoActor /\ session'[c].heard = session[c].heard \cup {p}
      BY Zenon, <1>3, <2>1 DEF Safe, Known
    <2>4. session[c].phase = "connecting" =>
            \A q \in session'[c].heard :
              session[c].revision < q =>
                q \notin acked' \/ q <= actor.revision \/ q \in actor.queue
      BY <1>1, <1>4, <2>1, <2>3 DEF Safe
    <2>5. session[c].phase = "open" =>
            \A q \in session'[c].heard :
              session[c].revision < q => q \notin acked' \/ q \in actor.queue
      BY <1>1, <1>4, <2>1, <2>3 DEF Safe
    <2>6. session[c].phase = "authorized" => session'[c].heard = {}
      BY Zenon, <1>3, <2>1 DEF Safe, Known
    <2> QED
      BY Zenon, <1>3, <1>4, <2>1, <2>2, <2>3, <2>4, <2>5, <2>6 DEF Safe
  <1> QED
    BY <1>5, <1>6, <1>7 DEF IInv

LEMMA SendStep ==
  ASSUME IInv, NEW p \in Revisions, Send(p) PROVE IInv'
  <1>1. /\ sending = p /\ p # 0 /\ p \in stream
        /\ actor # NoActor /\ actor \in Actor
    BY ActorTyped DEF Send, IInv, TypeOK, Bounded, Revisions
  <1>2. /\ actor' \in Actor
        /\ actor'.revision = actor.revision
        /\ actor'.queue = actor.queue \cup {p}
    BY <1>1 DEF Send, Actor
  <1>3. actor' # NoActor
    BY <1>2, NoActorIsNone
  <1>4. acked' \subseteq acked \cup {p} /\ sending' = 0
    BY DEF Send, Acknowledge
  <1>5. TypeOK'
    <2>1. acked' \subseteq stream
      BY <1>1, <1>4 DEF IInv, TypeOK
    <2> QED
      BY <1>2, <1>4, <2>1 DEF IInv, TypeOK, Send
  <1>6. Bounded'
    BY <1>1, <1>2, <1>4 DEF IInv, Bounded, Send
  <1>7. ASSUME NEW c \in Clients PROVE Safe(c)'
    <2>1. Safe(c)
      BY DEF IInv
    <2>2. /\ session' = session /\ permission' = permission
          /\ watermark' = watermark
      BY DEF Send
    <2>3. session[c].phase = "connecting" =>
            \A q \in session[c].heard :
              session[c].revision < q =>
                q \notin acked' \/ q <= actor.revision \/ q \in actor.queue \cup {p}
      BY <1>4, <2>1 DEF Safe
    <2>4. session[c].phase = "open" =>
            \A q \in session[c].heard :
              session[c].revision < q => q \notin acked' \/ q \in actor.queue \cup {p}
      BY <1>4, <2>1 DEF Safe
    <2> QED
      BY <1>2, <1>3, <2>1, <2>2, <2>3, <2>4 DEF Safe
  <1> QED
    BY <1>5, <1>6, <1>7 DEF IInv

LEMMA SendFailsStep ==
  ASSUME IInv, NEW p \in Revisions, SendFails(p) PROVE IInv'
  <1>1. TypeOK'
    BY DEF IInv, TypeOK, SendFails
  <1>2. Bounded'
    BY DEF IInv, Bounded, SendFails
  <1>3. ASSUME NEW c \in Clients PROVE Safe(c)'
    BY DEF IInv, Safe, SendFails
  <1> QED
    BY <1>1, <1>2, <1>3 DEF IInv

LEMMA RestartStep == IInv /\ Restart => IInv'
  <1> SUFFICES ASSUME IInv, Restart PROVE IInv'
    OBVIOUS
  <1>1. permission \in Nat /\ permission >= 1
    BY DEF IInv, TypeOK, Revisions
  <1>2. ASSUME NEW c \in Clients
        PROVE  /\ session'[c] \in Session
               /\ \/ session'[c] = Out
                  \/ /\ session'[c].phase = session[c].phase
                     /\ session[c].phase \notin {"connecting", "open"}
                     /\ session'[c].revision = session[c].revision
                     /\ session'[c].heard = {}
    <2>1. session[c] \in Session
      BY DEF IInv, TypeOK
    <2>2. session'[c] =
            IF session[c].phase \in {"handshake", "connecting", "open"} THEN Out
            ELSE [session[c] EXCEPT !.heard = {}]
      BY DEF Restart
    <2> QED
      BY <2>1, <2>2, OutTyped DEF Session
  <1>3. TypeOK'
    <2>1. session' \in [Clients -> Session]
      BY <1>2 DEF Restart
    <2> QED
      BY <1>1, <2>1 DEF IInv, TypeOK, Restart
  <1>4. Bounded'
    BY DEF Bounded, Restart
  <1>5. ASSUME NEW c \in Clients PROVE Safe(c)'
    <2>1. Safe(c)
      BY DEF IInv
    <2>2. CASE session'[c] = Out
      BY <1>1, <2>2 DEF Safe, Restart, Out
    <2>3. CASE session'[c] # Out
      BY <1>2, <2>1, <2>3 DEF Safe, Restart
    <2> QED
      BY <2>2, <2>3
  <1> QED
    BY <1>3, <1>4, <1>5 DEF IInv

-----------------------------------------------------------------------------
LEMMA NextInv == IInv /\ [Next]_vars => IInv'
  <1> SUFFICES ASSUME IInv, [Next]_vars PROVE IInv'
    OBVIOUS
  <1>1. ASSUME NEW c \in Clients, ClientStep(c) PROVE IInv'
    BY <1>1, AuthorizeStep, IssueStep, ConsumeStep, LeaveStep,
       ConnectRefusedStep, ConnectStep, AdmitRefusedStep, AdmitStep
    DEF ClientStep
  <1>2. ASSUME NEW p \in Revisions, EventStep(p) PROVE IInv'
    BY <1>2, PublishStep, RecordStep, SendStep, SendFailsStep, InvalidateStep
    DEF EventStep
  <1>3. CASE UNCHANGED vars
    BY <1>3 DEF IInv, TypeOK, Bounded, Safe, vars
  <1> QED
    BY <1>1, <1>2, <1>3, AdvanceStep, LoadStep, EndStep, ExpiryStep, RestartStep
    DEF Next

\* Every reachable state satisfies the invariant.
THEOREM SessionInvariance == Spec => []IInv
  BY InitInv, NextInv, PTL DEF Spec

\* The revisions and the sessions keep their types; the watermark, and what
\* the stream holds, never run ahead of Knowledge.
THEOREM SessionTypes == Spec => []TypeOK
  <1>1. IInv => TypeOK
    BY DEF IInv
  <1> QED
    BY <1>1, SessionInvariance, PTL

\* For any number of sessions and changes: once invalidate_permissions has
\* passed an event on and it is acknowledged, no session whose ticket was
\* issued before the event came stays open on an older revision, but for an
\* invalidation that waits in the actor's queue.
THEOREM StaleStaysShut == Spec => []StaleIsShut
  <1>1. IInv => StaleIsShut
    BY DEF IInv, Safe, StaleIsShut
  <1> QED
    BY <1>1, SessionInvariance, PTL

\* CLOSE_FORBIDDEN reaches only sessions whose permissions have changed
\* since they were authorized, whatever events come late or twice.
THEOREM OnlyOlderForbidden == Spec => []ForbiddenIsOlder
  <1>1. IInv => ForbiddenIsOlder
    BY DEF IInv, Safe, ForbiddenIsOlder
  <1> QED
    BY <1>1, SessionInvariance, PTL
=============================================================================
