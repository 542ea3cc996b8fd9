---------------------- MODULE CollaborationProjection ----------------------
(***************************************************************************)
(* The projection workers of Collaboration (worker.rs, project_one) and    *)
(* the Knowledge side of them: the projection row that UpsertProjection    *)
(* advances, the restoring of a commit, and the life of the document up    *)
(* to the purge that crosses both services (worker.go, processPurge).      *)
(*                                                                         *)
(* A call to Knowledge may be refused before it is applied, lose its       *)
(* answer, or arrive after its caller has given up.  A lease runs out      *)
(* whenever its holder is slow.                                            *)
(***************************************************************************)
EXTENDS CollaborationStore, FiniteSets

CONSTANTS
  Workers,        \* projection workers, one for each replica
  MaxRestores,    \* bound on the commits restored
  MaxLate,        \* bound on the calls that outlive their callers
  Commits,        \* contents of the commits there are to restore
  Idle            \* a worker without a job

ASSUME WorkerAssumption ==
  /\ MaxRestores \in Nat /\ MaxLate \in Nat
  /\ Commits \subseteq SUBSET Updates
  /\ Idle \notin [generation : Nat, sequence : Nat,
                  content : SUBSET Updates, answer : {"none", "ok", "error"}]

VARIABLES
  document,     \* knowledge.documents: how far it is deleted
  projection,   \* knowledge.projections
  hand,         \* the job each worker holds, and the answer it has got
  late,         \* calls Knowledge has not executed yet, their callers gone
  restores,     \* how many commits were restored
  pass          \* whether a purge pass has Collaboration behind it

vars == <<storeVars, document, projection, hand, late, restores, pass>>
knowledgeVars == <<document, projection, restores, pass>>

Call == [sequence : Sequences, content : SUBSET Updates]
Held == [generation : Generations, sequence : Sequences,
         content : SUBSET Updates, answer : {"none", "ok", "error"}]

TypeOK ==
  /\ StoreTypeOK
  /\ document \in {"live", "trashed", "due", "gone"}
  /\ projection \in [sequence : 0 .. MaxSequence + MaxRestores,
                     content : SUBSET Updates]
  /\ hand \in [Workers -> Held \cup {Idle}]
  /\ late \in SUBSET Call
  /\ restores \in 0 .. MaxRestores
  /\ pass \in BOOLEAN

Init ==
  /\ StoreInit
  /\ document = "live"
  /\ projection = [sequence |-> 0, content |-> {}]
  /\ hand = [w \in Workers |-> Idle]
  /\ late = {}
  /\ restores = 0
  /\ pass = FALSE

-----------------------------------------------------------------------------
\* A client opens the document, writes to it; the maintenance loop compacts.
Edit ==
  /\ \/ InitializeDocument
     \/ \E u \in Updates : AppendUpdate(u)
     \/ CompactNext
  /\ UNCHANGED <<knowledgeVars, hand, late>>

\* claim_projection_job: the target moves to the head the state is read of.
ClaimProjectionJob(w) ==
  /\ hand[w] = Idle
  /\ job # NoJob
  /\ ~job.leased
  /\ job' = [generation |-> head.generation, sequence |-> head.current,
             leased |-> TRUE]
  /\ hand' = [hand EXCEPT ![w] =
       [generation |-> head.generation, sequence |-> head.current,
        content |-> Stored, answer |-> "none"]]
  /\ UNCHANGED <<head, updates, snapshots, outbox, history, knowledgeVars,
                 late>>

\* Mutant: only a worker that is still there gives its lease up.
LeaseExpiresWithHolder ==
  /\ job # NoJob
  /\ job.leased
  /\ \E w \in Workers : hand[w] # Idle
  /\ job' = [job EXCEPT !.leased = FALSE]
  /\ UNCHANGED <<head, updates, snapshots, outbox, history, knowledgeVars,
                 hand, late>>

LeaseExpires ==
  /\ job # NoJob
  /\ job.leased
  /\ job' = [job EXCEPT !.leased = FALSE]
  /\ UNCHANGED <<head, updates, snapshots, outbox, history, knowledgeVars,
                 hand, late>>

(***************************************************************************)
(* UpsertProjection, on a document that is not deleted.  Accepted says     *)
(* whether the call c returns without an error.  The content_revision of   *)
(* the document goes with the sequence, and the history checkpoint that    *)
(* the call schedules only reads the projection: neither is followed.      *)
(***************************************************************************)
Accepted(c) ==
  /\ document = "live"
  /\ \/ c.sequence > projection.sequence
     \/ c.sequence = projection.sequence /\ c.content = projection.content

\* Mutant: an older call overwrites a newer projection.
UpsertAnySequence(c) ==
  projection' =
    IF document = "live" THEN [sequence |-> c.sequence, content |-> c.content]
                         ELSE projection

\* Mutant: a call of the same sequence replaces the content.
UpsertSameSequence(c) ==
  projection' =
    IF document = "live" /\ c.sequence >= projection.sequence
      THEN [sequence |-> c.sequence, content |-> c.content]
      ELSE projection

UpsertProjection(c) ==
  projection' =
    IF document = "live" /\ c.sequence > projection.sequence
      THEN [sequence |-> c.sequence, content |-> c.content]
      ELSE projection

Carried(w) == [sequence |-> hand[w].sequence, content |-> hand[w].content]

\* The answer may be lost on the way back.
Project(w) ==
  /\ hand[w] # Idle
  /\ hand[w].answer = "none"
  /\ UpsertProjection(Carried(w))
  /\ \E a \in {"ok", "error"} :
       /\ a = "ok" => Accepted(Carried(w))
       /\ hand' = [hand EXCEPT ![w].answer = a]
  /\ UNCHANGED <<storeVars, document, restores, pass, late>>

\* The circuit is open, or the call times out before Knowledge executes it.
ProjectRefused(w) ==
  /\ hand[w] # Idle
  /\ hand[w].answer = "none"
  /\ hand' = [hand EXCEPT ![w].answer = "error"]
  /\ \/ UNCHANGED late
     \/ /\ Cardinality(late) < MaxLate
        /\ late' = late \cup {Carried(w)}
  /\ UNCHANGED <<storeVars, knowledgeVars>>

ProjectLate(c) ==
  /\ c \in late
  /\ late' = late \ {c}
  /\ UpsertProjection(c)
  /\ UNCHANGED <<storeVars, document, restores, pass, hand>>

Targeted(w) ==
  /\ job # NoJob
  /\ job.generation = hand[w].generation
  /\ job.sequence = hand[w].sequence

\* Mutant: the job is deleted whatever it aims at by now.
CompleteAnyTarget(w) ==
  /\ hand[w] # Idle
  /\ hand[w].answer = "ok"
  /\ job' = NoJob
  /\ hand' = [hand EXCEPT ![w] = Idle]
  /\ UNCHANGED <<head, updates, snapshots, outbox, history, knowledgeVars,
                 late>>

\* complete_projection: neither the lease nor its holder is looked at.
CompleteProjection(w) ==
  /\ hand[w] # Idle
  /\ hand[w].answer = "ok"
  /\ job' = IF Targeted(w) THEN NoJob ELSE job
  /\ hand' = [hand EXCEPT ![w] = Idle]
  /\ UNCHANGED <<head, updates, snapshots, outbox, history, knowledgeVars,
                 late>>

RetryProjection(w) ==
  /\ hand[w] # Idle
  /\ hand[w].answer = "error"
  /\ job' = IF Targeted(w) THEN [job EXCEPT !.leased = FALSE] ELSE job
  /\ hand' = [hand EXCEPT ![w] = Idle]
  /\ UNCHANGED <<head, updates, snapshots, outbox, history, knowledgeVars,
                 late>>

\* The operation times out between two of its awaits, or the replica stops.
WorkerStops(w) ==
  /\ hand[w] # Idle
  /\ hand' = [hand EXCEPT ![w] = Idle]
  /\ UNCHANGED <<storeVars, knowledgeVars, late>>

-----------------------------------------------------------------------------
(***************************************************************************)
(* Knowledge.                                                              *)
(***************************************************************************)
\* RestoreCommit writes the content of a commit into the projection and
\* takes the next sequence for it.  CreateCommit keeps the content its client
\* sends, or else that of the projection: it may be any.
RestoreCommit(content) ==
  /\ document = "live"
  /\ restores < MaxRestores
  /\ restores' = restores + 1
  /\ projection' = [sequence |-> projection.sequence + 1,
                    content |-> content]
  /\ UNCHANGED <<storeVars, document, pass, hand, late>>

\* SoftDeleteDocument, RestoreDeletedDocument, PurgeDeletedDocument.
Moves == {<<"live", "trashed">>, <<"trashed", "live">>, <<"trashed", "due">>}

Delete ==
  /\ \E m \in Moves : document = m[1] /\ document' = m[2]
  /\ UNCHANGED <<storeVars, projection, restores, pass, hand, late>>

\* processPurge calls Collaboration first.  load_head answers not_found when
\* the document has no row; the pass then ends with the error.
PurgeCollaboration ==
  /\ document = "due"
  /\ ~pass
  /\ PurgeRows
  /\ pass' = TRUE
  /\ UNCHANGED <<document, projection, restores, hand, late>>

PurgeFails ==
  /\ pass
  /\ pass' = FALSE
  /\ UNCHANGED <<storeVars, document, projection, restores, hand, late>>

\* The projection row goes with the document: nothing reads it any more.
PurgeDocument ==
  /\ pass
  /\ document = "due"
  /\ document' = "gone"
  /\ pass' = FALSE
  /\ UNCHANGED <<storeVars, projection, restores, hand, late>>

-----------------------------------------------------------------------------
WorkerStep(w) ==
  \/ ClaimProjectionJob(w)
  \/ Project(w)
  \/ ProjectRefused(w)
  \/ CompleteProjection(w)
  \/ RetryProjection(w)
  \/ WorkerStops(w)

Purge == PurgeCollaboration \/ PurgeFails \/ PurgeDocument

Next ==
  \/ Edit
  \/ \E w \in Workers : WorkerStep(w)
  \/ LeaseExpires
  \/ \E c \in late : ProjectLate(c)
  \/ \E content \in Commits : RestoreCommit(content)
  \/ Delete
  \/ Purge

Spec == Init /\ [][Next]_vars

\* A call that Knowledge executes and that returns without an error.
Projected == \E w \in Workers : Project(w) /\ hand'[w].answer = "ok"

\* The operation timeout bounds what a worker does with its job.
Finish(w) ==
  \/ Project(w)
  \/ ProjectRefused(w)
  \/ CompleteProjection(w)
  \/ RetryProjection(w)

(***************************************************************************)
(* The loops tick for ever and a lease runs out with the clock.  Knowledge *)
(* is not always away: a call, or a purge pass, that is made again and     *)
(* again gets through in the end.                                          *)
(***************************************************************************)
Fairness ==
  /\ WF_vars(\E w \in Workers : ClaimProjectionJob(w))
  /\ WF_vars(\E w \in Workers : Finish(w))
  /\ WF_vars(LeaseExpires)
  /\ SF_vars(Projected)
  /\ WF_vars(PurgeCollaboration)
  /\ SF_vars(PurgeDocument)

LiveSpec == Spec /\ Fairness

-----------------------------------------------------------------------------
\* A committed update that Knowledge has not got is never forgotten: some
\* job still aims at the head, whatever workers completed, failed or were
\* overtaken since.
PendingHasJob ==
  head # NoHead /\ projection.sequence < head.current =>
    /\ job # NoJob
    /\ job.generation = head.generation
    /\ job.sequence = head.current

\* No job left means nothing left to do: Knowledge shows the state of the
\* head, unless it has restored a commit on its own.
DrainedIsCurrent ==
  head # NoHead /\ job = NoJob /\ restores = 0 =>
    /\ projection.sequence = head.current
    /\ projection.content = Stored

\* "UpsertProjection advances the read-model sequence monotonically": what
\* Knowledge shows never changes without a new sequence, even by a call that
\* arrives late or twice.
ProjectionAdvances ==
  [][projection' # projection => projection'.sequence > projection.sequence]_vars

\* Knowledge reaches every sequence that is committed to a document that
\* stays.  (A restored commit has taken a sequence of its own: the update
\* committed under the same number waits for the next one.)
Behind == head # NoHead /\ projection.sequence < head.current

ProjectionCatchesUp ==
  Behind /\ document = "live" ~> ~Behind \/ document # "live"

\* A document that was opened once and is due is purged from both services.
OpenedIsRemoved ==
  document = "due" /\ head # NoHead ~> document = "gone"
=============================================================================
