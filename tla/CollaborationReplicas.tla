----------------------- MODULE CollaborationReplicas -----------------------
(***************************************************************************)
(* The document actors of the Collaboration replicas (actor.rs) over the   *)
(* rows of one document, and the events that keep them in step: the outbox *)
(* is published to a stream, of which every replica has a durable consumer *)
(* (worker.rs, subscription_loop).                                         *)
(*                                                                         *)
(* An actor handles one command at a time and awaits the store in it.      *)
(* load_document reads the head, the snapshot and the updates by three     *)
(* statements outside of a transaction: each is a step of its own.         *)
(***************************************************************************)
EXTENDS CollaborationStore, FiniteSetsExt

CONSTANTS
  Replicas,   \* the replicas, with at most one actor of the document each
  NoActor     \* no actor is running

VARIABLES
  stream,   \* events published to JetStream
  acked,    \* events each replica has acknowledged
  actor     \* the actor of each replica

vars == <<storeVars, stream, acked, actor>>

(***************************************************************************)
(* mode says what the actor awaits: nothing ("ready"), or the next of the  *)
(* three statements of a load.  target is the event a running actor is     *)
(* catching up with, or 0; read is what the load has got so far; closing   *)
(* says that an invalidation is in its queue.                              *)
(***************************************************************************)
Read == [generation : Generations, sequence : Sequences,
         base : Sequences, state : SUBSET Updates]

NothingRead == [generation |-> 1, sequence |-> 0, base |-> 0, state |-> {}]

Actor == [mode : {"ready", "head", "snapshot", "rows"}, started : BOOLEAN,
          generation : Generations, sequence : Sequences,
          doc : SUBSET Updates, target : Sequences, read : Read,
          closing : BOOLEAN]

TypeOK ==
  /\ StoreTypeOK
  /\ stream \in SUBSET Event
  /\ acked \in [Replicas -> SUBSET Event]
  /\ actor \in [Replicas -> Actor \cup {NoActor}]

Init ==
  /\ StoreInit
  /\ stream = {}
  /\ acked = [r \in Replicas |-> {}]
  /\ actor = [r \in Replicas |-> NoActor]

-----------------------------------------------------------------------------
\* The actor awaits its next command.
Free(r) ==
  /\ actor[r] # NoActor
  /\ actor[r].mode = "ready"
  /\ actor[r].target = 0

\* connect finds no actor and spawns one; run_actor initializes the document.
Start(r) ==
  /\ actor[r] = NoActor
  /\ InitializeDocument \/ (head # NoHead /\ UNCHANGED storeVars)
  /\ actor' = [actor EXCEPT ![r] =
       [mode |-> "head", started |-> FALSE, generation |-> 1, sequence |-> 0,
        doc |-> {}, target |-> 0, read |-> NothingRead, closing |-> FALSE]]
  /\ UNCHANGED <<stream, acked>>

\* The actor ends: it was idle, its replica stops, or a command failed.
Stop(r) ==
  /\ actor[r] # NoActor
  /\ actor' = [actor EXCEPT ![r] = NoActor]
  /\ UNCHANGED <<storeVars, stream, acked>>

LoadHead(r) ==
  /\ actor[r] # NoActor
  /\ actor[r].mode = "head"
  /\ actor' = [actor EXCEPT
       ![r].mode = "snapshot",
       ![r].read = [NothingRead EXCEPT !.generation = head.generation,
                                       !.sequence = head.current]]
  /\ UNCHANGED <<storeVars, stream, acked>>

\* "document snapshot is missing" ends the actor.
LoadSnapshot(r) ==
  /\ actor[r] # NoActor
  /\ actor[r].mode = "snapshot"
  /\ LET g == actor[r].read.generation
         s == actor[r].read.sequence
     IN  actor' = [actor EXCEPT ![r] =
           IF Candidates(g, s) = {} THEN NoActor
           ELSE [@ EXCEPT !.mode = "rows",
                          !.read.base = NewestSnapshot(g, s).sequence,
                          !.read.state = NewestSnapshot(g, s).state]]
  /\ UNCHANGED <<storeVars, stream, acked>>

\* Mutant: the rows are read from the one after the next.
LoadedPastNext(r) ==
  LET read == actor[r].read
  IN  read.state \cup
        Merged(RowsBetween(read.generation, read.base + 1, read.sequence))

\* What the third statement completes.
Loaded(r) ==
  LET read == actor[r].read
  IN  read.state \cup
        Merged(RowsBetween(read.generation, read.base, read.sequence))

\* run_actor has loaded the document and takes commands.
LoadRows(r) ==
  /\ actor[r] # NoActor
  /\ actor[r].mode = "rows"
  /\ ~actor[r].started
  /\ actor' = [actor EXCEPT ![r] =
       [@ EXCEPT !.mode = "ready", !.started = TRUE,
                 !.generation = actor[r].read.generation,
                 !.sequence = actor[r].read.sequence,
                 !.doc = Loaded(r), !.read = NothingRead]]
  /\ UNCHANGED <<storeVars, stream, acked>>

-----------------------------------------------------------------------------
\* Mutant: the generation of the commit is not looked at.
ClientUpdateAnyGeneration(r, u) ==
  /\ Free(r)
  /\ AppendUpdate(u)
  /\ actor' = [actor EXCEPT ![r].doc = @ \cup Stored \cup {u},
                            ![r].sequence = head'.current]
  /\ UNCHANGED <<stream, acked>>

\* handle_frame of a client's update.  Only after the commit does the actor
\* merge the committed state into its document.  When the generation has
\* changed it closes its connections and keeps the document it had.
ClientUpdate(r, u) ==
  LET a == actor[r]
  IN
  /\ Free(r)
  /\ AppendUpdate(u)
  /\ actor' = [actor EXCEPT ![r] =
       IF head.generation = a.generation
         THEN [a EXCEPT !.doc = @ \cup Stored \cup {u},
                        !.sequence = head'.current]
         ELSE a]
  /\ UNCHANGED <<stream, acked>>

\* A commit the actors do not take part in: that of a replica whose actor is
\* not followed here, or one whose answer did not reach its actor in time.
UpdateElsewhere(u) ==
  /\ AppendUpdate(u)
  /\ UNCHANGED <<stream, acked, actor>>

-----------------------------------------------------------------------------
\* publish_outbox_batch.
Publish(e) ==
  /\ e \in outbox \ stream
  /\ stream' = stream \cup {e}
  /\ UNCHANGED <<storeVars, acked, actor>>

\* Mutant: an actor that is still loading is taken for none.
DeliverWhileLoading(r, e) ==
  /\ e \in stream \ acked[r]
  /\ actor[r] # NoActor => ~actor[r].started
  /\ acked' = [acked EXCEPT ![r] = @ \cup {e}]
  /\ UNCHANGED <<storeVars, stream, actor>>

\* Without an actor there is nothing to bring up to date.
DeliverIdle(r, e) ==
  /\ e \in stream \ acked[r]
  /\ actor[r] = NoActor
  /\ acked' = [acked EXCEPT ![r] = @ \cup {e}]
  /\ UNCHANGED <<storeVars, stream, actor>>

\* Mutant: the purge is acknowledged and the actor is not told.
DeliverPurgedUnsent(r, e) ==
  /\ e \in stream \ acked[r]
  /\ e.kind = "purged"
  /\ actor[r] # NoActor
  /\ acked' = [acked EXCEPT ![r] = @ \cup {e}]
  /\ UNCHANGED <<storeVars, stream, actor>>

\* invalidate returns as soon as the command is in the actor's queue.
DeliverPurged(r, e) ==
  /\ e \in stream \ acked[r]
  /\ e.kind = "purged"
  /\ actor[r] # NoActor
  /\ actor' = [actor EXCEPT ![r].closing = TRUE]
  /\ acked' = [acked EXCEPT ![r] = @ \cup {e}]
  /\ UNCHANGED <<storeVars, stream>>

Invalidated(r) ==
  /\ Free(r)
  /\ actor[r].closing
  /\ actor' = [actor EXCEPT ![r] = NoActor]
  /\ UNCHANGED <<storeVars, stream, acked>>

\* apply_remote: an event the actor has behind it is acknowledged; one of
\* another generation ends the actor, and is delivered again.
DeliverUpdated(r, e) ==
  /\ e \in stream \ acked[r]
  /\ e.kind = "updated"
  /\ Free(r)
  /\ \/ /\ e.generation = actor[r].generation
        /\ e.sequence <= actor[r].sequence
        /\ acked' = [acked EXCEPT ![r] = @ \cup {e}]
        /\ UNCHANGED actor
     \/ /\ e.generation # actor[r].generation
        /\ actor' = [actor EXCEPT ![r] = NoActor]
        /\ UNCHANGED acked
     \/ /\ e.generation = actor[r].generation
        /\ e.sequence > actor[r].sequence
        /\ actor' = [actor EXCEPT ![r].target = e.sequence]
        /\ UNCHANGED acked
  /\ UNCHANGED <<storeVars, stream>>

(***************************************************************************)
(* One turn of the loop of apply_remote.  updates_after returns the rows   *)
(* past the actor's sequence, of any generation; apply_committed_batch     *)
(* applies them while they are contiguous and of the actor's generation.   *)
(* The actor loads the document when the first one is not the next, or     *)
(* when the batch breaks off.                                              *)
(***************************************************************************)
UpdatesAfter(s) == {x \in updates : x.sequence > s}

\* The last sequence up to which the rows can be applied one by one.
Contiguous(a) ==
  Max({n \in a.sequence .. a.target :
        \A i \in a.sequence + 1 .. n :
          \E x \in UpdatesAfter(a.sequence) :
            x.sequence = i /\ x.generation = a.generation})

\* Mutant: the event is given back when rows are missing, without a load.
CatchUpWithoutLoad(r) ==
  LET a == actor[r]
      n == Contiguous(a)
      b == [a EXCEPT !.sequence = n,
                     !.doc = @ \cup Merged(RowsBetween(a.generation,
                                                       a.sequence, n))]
  IN
  /\ a # NoActor
  /\ a.mode = "ready"
  /\ a.sequence < a.target
  /\ actor' = [actor EXCEPT ![r] =
       IF n < a.target THEN [b EXCEPT !.target = 0] ELSE b]
  /\ UNCHANGED <<storeVars, stream, acked>>

CatchUp(r) ==
  LET a == actor[r]
      n == Contiguous(a)
      b == [a EXCEPT !.sequence = n,
                     !.doc = @ \cup Merged(RowsBetween(a.generation,
                                                       a.sequence, n))]
  IN
  /\ a # NoActor
  /\ a.mode = "ready"
  /\ a.sequence < a.target
  /\ actor' = [actor EXCEPT ![r] =
       IF n < a.target THEN [b EXCEPT !.mode = "head"] ELSE b]
  /\ UNCHANGED <<storeVars, stream, acked>>

\* reload_committed_state: the load of an actor that is catching up.
ReloadRows(r) ==
  LET a == actor[r]
  IN
  /\ a # NoActor
  /\ a.mode = "rows"
  /\ a.started
  /\ actor' = [actor EXCEPT ![r] =
       IF \/ a.read.generation # a.generation
          \/ a.read.sequence < a.target
          \/ a.read.sequence < a.sequence
         THEN NoActor
         ELSE [a EXCEPT !.mode = "ready",
                        !.doc = IF a.read.sequence = a.sequence
                                  THEN @ ELSE @ \cup Loaded(r),
                        !.sequence = a.read.sequence,
                        !.read = NothingRead]]
  /\ UNCHANGED <<storeVars, stream, acked>>

\* The event is acknowledged once apply_remote has returned, if the delivery
\* has not timed out by then.
Acknowledge(r, e) ==
  /\ e \in stream \ acked[r]
  /\ actor[r] # NoActor
  /\ actor[r].mode = "ready"
  /\ actor[r].target > 0
  /\ e = [kind |-> "updated", generation |-> actor[r].generation,
          sequence |-> actor[r].target]
  /\ actor[r].sequence >= actor[r].target
  /\ acked' = [acked EXCEPT ![r] = @ \cup {e}] \/ UNCHANGED acked
  /\ actor' = [actor EXCEPT ![r].target = 0]
  /\ UNCHANGED <<storeVars, stream>>

-----------------------------------------------------------------------------
\* The maintenance loop, and the purge that Knowledge calls for: the replica
\* that serves it has ended its own actor before (Stop).
Maintain ==
  /\ CompactNext \/ PurgeRows
  /\ UNCHANGED <<stream, acked, actor>>

Deliver(r, e) ==
  \/ DeliverIdle(r, e)
  \/ DeliverPurged(r, e)
  \/ DeliverUpdated(r, e)
  \/ Acknowledge(r, e)

Load(r) == LoadHead(r) \/ LoadSnapshot(r) \/ LoadRows(r) \/ ReloadRows(r)

Next ==
  \/ Maintain
  \/ \E u \in Updates : UpdateElsewhere(u)
  \/ \E e \in outbox : Publish(e)
  \/ \E r \in Replicas :
       \/ Start(r)
       \/ Stop(r)
       \/ Load(r)
       \/ CatchUp(r)
       \/ Invalidated(r)
       \/ \E u \in Updates : ClientUpdate(r, u)
       \/ \E e \in stream : Deliver(r, e)

Spec == Init /\ [][Next]_vars

\* The server takes the acknowledgement of an event.
Settled(r) ==
  \E e \in stream : Acknowledge(r, e) /\ acked'[r] # acked[r]

(***************************************************************************)
(* The outbox worker and the consumers never stop for good, an actor goes  *)
(* on with what it has begun, and an event is not always acknowledged too  *)
(* late.  Nothing makes clients write or actors start.                     *)
(***************************************************************************)
Fairness ==
  /\ WF_vars(\E e \in outbox : Publish(e))
  /\ \A r \in Replicas :
       /\ WF_vars(Load(r) \/ CatchUp(r) \/ Invalidated(r))
       /\ WF_vars(\E e \in stream : Deliver(r, e))
       /\ SF_vars(Settled(r))

LiveSpec == Spec /\ Fairness

-----------------------------------------------------------------------------
\* Before the commit neither the shared memory may change nor anything be
\* broadcast (docs/rust-collaboration-design.md): whatever an actor shows its
\* clients was committed in the generation it serves.
OnlyCommittedShown ==
  \A r \in Replicas :
    actor[r] # NoActor =>
      \A u \in actor[r].doc :
        \E x \in history :
          x.update = u /\ x.generation = actor[r].generation

\* An acknowledged event is not delivered again, so the actor must have it
\* behind it, whenever it was started and whatever it was doing: the update
\* is covered by its sequence, the purge by its generation or by the
\* invalidation in its queue.
AckedIsApplied ==
  \A r \in Replicas : \A e \in acked[r] :
    actor[r] # NoActor /\ actor[r].started =>
      \/ actor[r].closing
      \/ e.generation < actor[r].generation
      \/ /\ e.generation = actor[r].generation
         /\ e.kind = "updated" => e.sequence <= actor[r].sequence

(***************************************************************************)
(* An actor does not pass over an update that is still in the log: no      *)
(* event, and no catching up, would bring it back.  The statements of a    *)
(* load are no transaction, so the same cannot be said of the updates that *)
(* a compaction has taken from the log while the actor was loading.        *)
(***************************************************************************)
LoggedIsShown ==
  \A r \in Replicas : \A x \in updates :
    /\ actor[r] # NoActor
    /\ x.generation = actor[r].generation
    /\ x.sequence <= actor[r].sequence
    => x.update \in actor[r].doc

\* A running actor reaches every committed sequence of its generation.
Lagging(r) ==
  /\ actor[r] # NoActor
  /\ actor[r].generation = head.generation
  /\ actor[r].sequence < head.current

ReplicasCatchUp == \A r \in Replicas : Lagging(r) ~> ~Lagging(r)

\* An actor does not go on serving a document that was purged.
Outdated(r) == actor[r] # NoActor /\ actor[r].generation < head.generation

StaleActorEnds == \A r \in Replicas : Outdated(r) ~> ~Outdated(r)
=============================================================================
