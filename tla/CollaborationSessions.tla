----------------------- MODULE CollaborationSessions -----------------------
(***************************************************************************)
(* Who may stay connected to a document after its permissions changed:     *)
(* Knowledge counts the changes in permission_revision and announces each  *)
(* one (members.go, outbox.go); Collaboration authorises a session, writes *)
(* a single-use ticket for it (ticket.rs), admits the session that comes   *)
(* with the ticket (websocket.rs, actor.rs), and closes the sessions of    *)
(* older revisions when it hears of a change (worker.rs).                  *)
(*                                                                         *)
(* One replica is followed: replicas share the ticket store and the stream *)
(* and nothing else.  The commands in an actor's queue are taken in any    *)
(* order: the registry's lock is given up before connect sends, so the     *)
(* order of a session and an invalidation is open anyway.                  *)
(***************************************************************************)
EXTENDS Naturals

CONSTANTS
  Clients,        \* session attempts that overlap
  MaxRevision,    \* bound on the changes of permissions
  NoActor         \* no actor is running

Revisions == 1 .. MaxRevision

Actor == [loading : BOOLEAN, revision : 0 .. MaxRevision,
          queue : SUBSET Revisions]

ASSUME SessionAssumption ==
  /\ MaxRevision \in Nat \ {0}
  /\ NoActor \notin [loading : BOOLEAN, revision : Nat, queue : SUBSET Nat]

VARIABLES
  permission,   \* knowledge.documents.permission_revision
  stream,       \* revisions announced in the permission stream
  acked,        \* those the replica's consumer has acknowledged
  sending,      \* the one it is passing to the actor, or 0
  watermark,    \* the registry's revision of the document, or 0
  actor,        \* the actor: its revision and the invalidations in its queue
  session       \* the sessions

vars == <<permission, stream, acked, sending, watermark, actor, session>>

(***************************************************************************)
(* A session is out, authorized by Knowledge, waiting as a ticket, in a    *)
(* handshake that has taken its ticket, connecting (its command is in the  *)
(* queue), open, or refused with CLOSE_FORBIDDEN.  heard is a history      *)
(* variable: the revisions this process has heard of since the ticket was  *)
(* issued.                                                                 *)
(***************************************************************************)
Known == {"ticket", "handshake", "connecting", "open"}
Phases == Known \cup {"out", "authorized", "forbidden"}

Session == [phase : Phases, revision : Revisions, heard : SUBSET Revisions]

Out == [phase |-> "out", revision |-> 1, heard |-> {}]

Larger(a, b) == IF a > b THEN a ELSE b

TypeOK ==
  /\ permission \in Revisions
  /\ acked \subseteq stream /\ stream \subseteq 2 .. permission
  /\ sending \in (stream \ acked) \cup {0}
  /\ watermark \in 0 .. permission
  /\ actor \in Actor \cup {NoActor}
  /\ session \in [Clients -> Session]

Init ==
  /\ permission = 1
  /\ stream = {} /\ acked = {}
  /\ sending = 0
  /\ watermark = 0
  /\ actor = NoActor
  /\ session = [c \in Clients |-> Out]

-----------------------------------------------------------------------------
(***************************************************************************)
(* Knowledge.  Every change of members, and every move to the bin and      *)
(* back, adds one to the revision and writes the announcement in the same  *)
(* transaction; the worker publishes it later, once or more often.         *)
(***************************************************************************)
AdvancePermissionRevision ==
  /\ permission < MaxRevision
  /\ permission' = permission + 1
  /\ UNCHANGED <<stream, acked, sending, watermark, actor, session>>

Publish(p) ==
  /\ p \in (2 .. permission) \ stream
  /\ stream' = stream \cup {p}
  /\ UNCHANGED <<permission, acked, sending, watermark, actor, session>>

-----------------------------------------------------------------------------
(***************************************************************************)
(* A session up to its ticket.  Knowledge may refuse it: it stays out.     *)
(***************************************************************************)
Authorize(c) ==
  /\ session[c].phase \in {"out", "forbidden"}
  /\ session' = [session EXCEPT ![c] =
       [phase |-> "authorized", revision |-> permission, heard |-> {}]]
  /\ UNCHANGED <<permission, stream, acked, sending, watermark, actor>>

Issue(c) ==
  /\ session[c].phase = "authorized"
  /\ session' = [session EXCEPT ![c].phase = "ticket"]
  /\ UNCHANGED <<permission, stream, acked, sending, watermark, actor>>

\* GETDEL: whoever takes the ticket is the only one.
Consume(c) ==
  /\ session[c].phase = "ticket"
  /\ session' = [session EXCEPT ![c].phase = "handshake"]
  /\ UNCHANGED <<permission, stream, acked, sending, watermark, actor>>

\* The ticket expires, the handshake times out or is refused for another
\* reason, the client leaves, its token expires, or it is too slow.  A
\* connecting session that is given up is admitted and then disconnects.
Leave(c) ==
  /\ session[c].phase \in {"authorized", "ticket", "handshake", "open"}
  /\ session' = [session EXCEPT ![c] = Out]
  /\ UNCHANGED <<permission, stream, acked, sending, watermark, actor>>

-----------------------------------------------------------------------------
(***************************************************************************)
(* The registry.  connect compares the session with the watermark and      *)
(* takes the handle of the actor, or spawns one, under the lock of the     *)
(* watermarks.                                                             *)
(***************************************************************************)
ConnectRefused(c) ==
  /\ session[c].phase = "handshake"
  /\ session[c].revision < watermark
  /\ session' = [session EXCEPT ![c].phase = "forbidden"]
  /\ UNCHANGED <<permission, stream, acked, sending, watermark, actor>>

\* The actor that connect finds or spawns.
Handle == IF actor # NoActor THEN actor
          ELSE [loading |-> TRUE, revision |-> watermark, queue |-> {}]

Connect(c) ==
  /\ session[c].phase = "handshake"
  /\ session[c].revision >= watermark
  /\ actor' = Handle
  /\ session' = [session EXCEPT ![c].phase = "connecting"]
  /\ UNCHANGED <<permission, stream, acked, sending, watermark>>

(***************************************************************************)
(* A watermark is kept for the longest life of a ticket after it was last  *)
(* recorded: it outlives every ticket that was issued before, and the      *)
(* handshake of the ticket.                                                *)
(***************************************************************************)
WatermarkExpires ==
  /\ watermark # 0
  /\ \A c \in Clients :
       session[c].phase \in {"ticket", "handshake"} => session[c].heard = {}
  /\ watermark' = 0
  /\ UNCHANGED <<permission, stream, acked, sending, actor, session>>

-----------------------------------------------------------------------------
(***************************************************************************)
(* The actor.                                                              *)
(***************************************************************************)
Ready == actor # NoActor /\ ~actor.loading

Load ==
  /\ actor # NoActor
  /\ actor.loading
  /\ actor' = [actor EXCEPT !.loading = FALSE]
  /\ UNCHANGED <<permission, stream, acked, sending, watermark, session>>

AdmitRefused(c) ==
  /\ Ready
  /\ session[c].phase = "connecting"
  /\ \/ /\ session[c].revision < actor.revision
        /\ session' = [session EXCEPT ![c].phase = "forbidden"]
     \/ session' = [session EXCEPT ![c] = Out]  \* expired, or one too many
  /\ UNCHANGED <<permission, stream, acked, sending, watermark, actor>>

\* Mutant: the actor trusts the registry's comparison.
AdmitTrusting(c) ==
  /\ Ready
  /\ session[c].phase = "connecting"
  /\ actor' = [actor EXCEPT !.revision = Larger(@, session[c].revision)]
  /\ session' = [session EXCEPT ![c].phase = "open"]
  /\ UNCHANGED <<permission, stream, acked, sending, watermark>>

Admit(c) ==
  /\ Ready
  /\ session[c].phase = "connecting"
  /\ session[c].revision >= actor.revision
  /\ actor' = [actor EXCEPT !.revision = Larger(@, session[c].revision)]
  /\ session' = [session EXCEPT ![c].phase = "open"]
  /\ UNCHANGED <<permission, stream, acked, sending, watermark>>

\* Mutant: the sessions of the same revision are closed, too.
StaleUpTo(c, p) == session[c].phase = "open" /\ session[c].revision <= p

Stale(c, p) == session[c].phase = "open" /\ session[c].revision < p

InvalidatePermissions(p) ==
  /\ Ready
  /\ p \in actor.queue
  /\ actor' = [actor EXCEPT !.revision = Larger(@, p), !.queue = @ \ {p}]
  /\ session' = [c \in Clients |->
       IF Stale(c, p) THEN [session[c] EXCEPT !.phase = "forbidden"]
                      ELSE session[c]]
  /\ UNCHANGED <<permission, stream, acked, sending, watermark>>

\* What the end of the actor does to its sessions.
Cut == [c \in Clients |->
         IF session[c].phase \in {"connecting", "open"} THEN Out
                                                        ELSE session[c]]

\* The actor was idle, the document was invalidated, or a command failed.
\* A send that waits for its queue fails with it.
ActorEnds ==
  /\ actor # NoActor
  /\ actor' = NoActor
  /\ sending' = 0
  /\ session' = Cut
  /\ UNCHANGED <<permission, stream, acked, watermark>>

-----------------------------------------------------------------------------
(***************************************************************************)
(* The consumer.  invalidate_permissions records the revision and looks    *)
(* the actor up under the lock; then it waits for room in the queue.       *)
(***************************************************************************)
Heard(p) ==
  [c \in Clients |->
    IF session[c].phase \in Known
      THEN [session[c] EXCEPT !.heard = @ \cup {p}] ELSE session[c]]

\* The acknowledgement may be lost: the event is then delivered again.
Acknowledge(p) == acked' = acked \cup {p} \/ UNCHANGED acked

\* A late event does not take the watermark back.
Recorded(p) == Larger(watermark, p)

Record(p) ==
  /\ p \in stream \ acked
  /\ sending = 0
  /\ watermark' = Recorded(p)
  /\ session' = Heard(p)
  /\ IF actor = NoActor THEN Acknowledge(p) /\ UNCHANGED sending
                        ELSE sending' = p /\ UNCHANGED acked
  /\ UNCHANGED <<permission, stream, actor>>

Send(p) ==
  /\ sending = p /\ p # 0
  /\ actor' = [actor EXCEPT !.queue = @ \cup {p}]
  /\ sending' = 0
  /\ Acknowledge(p)
  /\ UNCHANGED <<permission, stream, watermark, session>>

\* Mutant: an event that cannot be passed on is acknowledged.
SendDropped(p) ==
  /\ sending = p /\ p # 0
  /\ sending' = 0
  /\ acked' = acked \cup {p}
  /\ UNCHANGED <<permission, stream, watermark, actor, session>>

\* The queue stays full until the timeout.
SendFails(p) ==
  /\ sending = p /\ p # 0
  /\ sending' = 0
  /\ UNCHANGED <<permission, stream, acked, watermark, actor, session>>

(***************************************************************************)
(* The process restarts.  What its durable consumer has acknowledged is    *)
(* not delivered again, so heard starts anew.  (The new process also waits *)
(* for the events that are left before it is ready: not followed.)         *)
(***************************************************************************)
Restart ==
  /\ watermark' = 0
  /\ sending' = 0
  /\ actor' = NoActor
  /\ session' = [c \in Clients |->
       IF session[c].phase \in {"handshake", "connecting", "open"} THEN Out
       ELSE [session[c] EXCEPT !.heard = {}]]
  /\ UNCHANGED <<permission, stream, acked>>

-----------------------------------------------------------------------------
ClientStep(c) ==
  \/ Authorize(c)
  \/ Issue(c)
  \/ Consume(c)
  \/ Leave(c)
  \/ ConnectRefused(c)
  \/ Connect(c)
  \/ AdmitRefused(c)
  \/ Admit(c)

EventStep(p) ==
  \/ Publish(p)
  \/ Record(p)
  \/ Send(p)
  \/ SendFails(p)
  \/ InvalidatePermissions(p)

Next ==
  \/ AdvancePermissionRevision
  \/ \E c \in Clients : ClientStep(c)
  \/ \E p \in Revisions : EventStep(p)
  \/ Load
  \/ ActorEnds
  \/ WatermarkExpires
  \/ Restart

Spec == Init /\ [][Next]_vars

Passed(p) == Send(p) /\ acked' # acked

(***************************************************************************)
(* An announcement is published in the end and delivered until it is       *)
(* acknowledged; of the sends that are tried again and again one finds     *)
(* room in the queue in time; the actor takes what is in its queue.        *)
(* Nothing makes a client come or leave.                                   *)
(***************************************************************************)
Fairness ==
  \A p \in Revisions :
    /\ WF_vars(Publish(p))
    /\ SF_vars(Record(p))
    /\ SF_vars(Passed(p))
    /\ WF_vars(Send(p) \/ SendFails(p))
    /\ WF_vars(InvalidatePermissions(p))

LiveSpec == Spec /\ Fairness

-----------------------------------------------------------------------------
\* An actor closes the sessions of older revisions only, and the watermark
\* refuses a ticket that was issued before the event arrived and is used
\* after it (docs/rust-collaboration-design.md): once the event of a newer
\* revision is acknowledged, no session whose ticket was issued before it
\* arrived is open, unless its invalidation is in the queue.
StaleIsShut ==
  \A c \in Clients : \A p \in session[c].heard \cap acked :
    session[c].phase = "open" /\ session[c].revision < p => p \in actor.queue

\* Repeated or late events do not close sessions of the same or a newer
\* revision (the same document): only a session whose permissions have
\* changed since is told that it is forbidden.
ForbiddenIsOlder ==
  \A c \in Clients :
    session[c].phase = "forbidden" => session[c].revision < permission

\* A session that is open when its permissions change is closed, however
\* often the announcement is delayed, repeated or dropped on the way.
Overtaken(c) ==
  /\ session[c].phase = "open"
  /\ \E p \in 2 .. permission : p > session[c].revision /\ p \notin acked

OvertakenIsClosed ==
  \A c \in Clients : Overtaken(c) ~> session[c].phase # "open"
=============================================================================
