-------------------------- MODULE PublicationSaga --------------------------
(***************************************************************************)
(* Publishing a document across two services.  Knowledge records what the  *)
(* user asked for together with a durable job; its background workers      *)
(* carry the job out against Attachment and promote the candidate snapshot *)
(* to the public one.  Every request takes the next publication generation *)
(* of its document, and every later step is fenced by it.                  *)
(*                                                                         *)
(* Transactions are single steps.  A worker acts on the copy of the job it *)
(* claimed, which other workers may have moved on since: leases run out by *)
(* the clock of another process, and marking a job staged gives its lease  *)
(* away while the worker goes on.  A remote call may time out at the       *)
(* caller and still be executed later.                                     *)
(***************************************************************************)
EXTENDS AttachmentReferences, FiniteSets

CONSTANTS
  OwnerOf,      \* owner of each document
  MediaSets,    \* bound: the sets of attachments a snapshot may show
  Workers,      \* job executions that may be under way at the same time
  MaxAttempts,  \* claims after which a failing job is parked (8 in the code)
  MaxLate,      \* bound: remote calls on their way whose callers gave up
  NoJob,        \* no row in publication_reference_jobs
  Idle          \* a worker that carries out no job

ASSUME OwnerAssumption == OwnerOf \in [Docs -> Owners]
ASSUME MediaAssumption == MediaSets \subseteq SUBSET Attachments
ASSUME AttemptsAssumption == MaxAttempts \in Nat \ {0}

VARIABLES
  doc,          \* knowledge.documents: life, publication status, generation
  candidate,    \* generation of the publication candidate, 0 if there is none
  publication,  \* generation of the live publication, 0 if there is none
  mediaRefs,    \* knowledge.published_media_references of each document
  jobs,         \* publication_reference_jobs by document and generation
  hand,         \* the job copy each worker carries out, and its next step
  late,         \* remote calls whose caller has given up
  purge         \* how far a purge pass has come with each document

docVars == <<doc, candidate, publication, mediaRefs>>
vars == <<head, refs, doc, candidate, publication, mediaRefs, jobs, hand,
          late, purge>>

Lives == {"live", "trashed", "due", "gone"}

Statuses == {"draft", "publishing", "published", "publish_failed",
             "unpublishing", "unpublish_failed"}

Jobs ==
  [action : {"publish", "clear"}, state : {"pending", "staged", "promoted"},
   ids : SUBSET Attachments, attempts : 0 .. MaxAttempts, parked : BOOLEAN]

RemoteSteps == {"stage", "finalize", "clear"}
LocalSteps == {"mark", "promote", "complete"}

Hands ==
  [step : RemoteSteps \cup LocalSteps \cup {"fail"}, doc : Docs,
   generation : Generations, action : {"publish", "clear"},
   ids : SUBSET Attachments, exhausted : BOOLEAN]

ASSUME NoRowAssumption == NoJob \notin Jobs /\ Idle \notin Hands

NewJob(action, ids) ==
  [action |-> action, state |-> "pending", ids |-> ids, attempts |-> 0,
   parked |-> FALSE]

Init ==
  /\ RefInit
  /\ doc = [d \in Docs |-> [life |-> "live", status |-> "draft", generation |-> 0]]
  /\ candidate = [d \in Docs |-> 0]
  /\ publication = [d \in Docs |-> 0]
  /\ mediaRefs = [d \in Docs |-> {}]
  /\ jobs = [d \in Docs |-> [g \in Generations |-> NoJob]]
  /\ hand = [w \in Workers |-> Idle]
  /\ late = {}
  /\ purge = [d \in Docs |-> "none"]

-----------------------------------------------------------------------------
(***************************************************************************)
(* Requests.  The guards on actor, access, metadata revision and slug only *)
(* turn a request into a refusal that changes nothing; what is kept is the *)
(* guard on the document's life, which the workers race with.              *)
(***************************************************************************)

\* Delete the jobs that are not parked and enqueue one of generation g.
Enqueued(d, g, job) ==
  [k \in Generations |->
     IF k = g THEN job
     ELSE IF jobs[d][k] # NoJob /\ jobs[d][k].parked THEN jobs[d][k] ELSE NoJob]

PublishSnapshot(d, ids) ==
  LET g == doc[d].generation + 1 IN
  /\ doc[d].life = "live"
  /\ g \in Generations
  /\ candidate' = [candidate EXCEPT ![d] = g]
  /\ jobs' = [jobs EXCEPT ![d] = Enqueued(d, g, NewJob("publish", ids))]
  /\ doc' = [doc EXCEPT ![d].status = "publishing", ![d].generation = g]
  /\ UNCHANGED <<head, refs, publication, mediaRefs, hand, late, purge>>

\* Common to SetPublication and SoftDeleteDocument.  Deleting the live
\* publication cascades to published_media_references.
Withdraw(d, life) ==
  LET g == doc[d].generation + 1 IN
  /\ doc[d].life = "live"
  /\ g \in Generations
  /\ candidate' = [candidate EXCEPT ![d] = 0]
  /\ publication' = [publication EXCEPT ![d] = 0]
  /\ mediaRefs' = [mediaRefs EXCEPT ![d] = {}]
  /\ jobs' = [jobs EXCEPT ![d] = Enqueued(d, g, NewJob("clear", {}))]
  /\ doc' = [doc EXCEPT ![d] =
       [life |-> life, status |-> "unpublishing", generation |-> g]]
  /\ UNCHANGED <<head, refs, hand, late, purge>>

SetPublication(d) == Withdraw(d, "live")

SoftDeleteDocument(d) == Withdraw(d, "trashed")

RestoreDeletedDocument(d) ==
  /\ doc[d].life = "trashed"
  /\ doc' = [doc EXCEPT ![d].life = "live"]
  /\ UNCHANGED <<head, refs, candidate, publication, mediaRefs, jobs, hand,
                 late, purge>>

\* purge_after is reached, by a permanent-delete request or after 30 days.
PurgeDeletedDocument(d) ==
  /\ doc[d].life = "trashed"
  /\ doc' = [doc EXCEPT ![d].life = "due"]
  /\ UNCHANGED <<head, refs, candidate, publication, mediaRefs, jobs, hand,
                 late, purge>>

-----------------------------------------------------------------------------
(***************************************************************************)
(* The job a worker carries out.                                           *)
(***************************************************************************)
Stored(w) == jobs[hand[w].doc][hand[w].generation]

SetStored(w, job) ==
  jobs' = [jobs EXCEPT ![hand[w].doc][hand[w].generation] = job]

GoTo(w, step) == hand' = [hand EXCEPT ![w].step = step]

At(w, step) == hand[w] # Idle /\ hand[w].step = step

\* The generation a job belongs to is still the one its document is at.
Current(w) == doc[hand[w].doc].generation = hand[w].generation

FirstStep(job) ==
  IF job.action = "clear" THEN "clear"
  ELSE CASE job.state = "pending" -> "stage"
         [] job.state = "staged" -> "promote"
         [] job.state = "promoted" -> "finalize"

Least(m, n) == IF m < n THEN m ELSE n

\* Mutant: a claim does not count as an attempt.
ClaimUncounted(w, d, g) ==
  LET job == jobs[d][g]
  IN /\ hand[w] = Idle
     /\ job # NoJob
     /\ ~job.parked
     /\ hand' = [hand EXCEPT ![w] =
          [step |-> FirstStep(job), doc |-> d, generation |-> g,
           action |-> job.action, ids |-> job.ids,
           exhausted |-> job.attempts = MaxAttempts]]
     /\ UNCHANGED <<head, refs, docVars, jobs, late, purge>>

(***************************************************************************)
(* Any job that is not parked may be claimed at any time.  next_attempt_at *)
(* and lease_until are points in time, and the model has no clock: a lease *)
(* of the operation timeout usually keeps two workers apart, but it ends   *)
(* by the clock of whichever process looks, and marking the job staged or  *)
(* promoted clears it while its worker goes on.  attempts is only compared *)
(* with MaxAttempts, so it saturates there.                                *)
(***************************************************************************)
ClaimPublicationReferenceJob(w, d, g) ==
  LET job == jobs[d][g]
      attempts == Least(job.attempts + 1, MaxAttempts)
  IN /\ hand[w] = Idle
     /\ job # NoJob
     /\ ~job.parked
     /\ jobs' = [jobs EXCEPT ![d][g].attempts = attempts]
     /\ hand' = [hand EXCEPT ![w] =
          [step |-> FirstStep(job), doc |-> d, generation |-> g,
           action |-> job.action, ids |-> job.ids,
           exhausted |-> attempts = MaxAttempts]]
     /\ UNCHANGED <<head, refs, docVars, late, purge>>

Command(w) ==
  [doc |-> hand[w].doc, owner |-> OwnerOf[hand[w].doc],
   generation |-> hand[w].generation, ids |-> hand[w].ids]

-----------------------------------------------------------------------------
(***************************************************************************)
(* Remote calls to Attachment.                                             *)
(***************************************************************************)
CallStage(w) ==
  /\ At(w, "stage")
  /\ \E valid \in Validations(Command(w)) :
       /\ StagePublicationReferences(Command(w), valid)
       /\ GoTo(w, IF StageAnswersOk(head[hand[w].doc], Command(w), valid)
                    THEN "mark" ELSE "fail")
  /\ UNCHANGED <<docVars, jobs, late, purge>>

CallFinalize(w) ==
  /\ At(w, "finalize")
  /\ FinalizePublicationReferences(Command(w))
  /\ GoTo(w, IF FinalizeAnswersOk(head[hand[w].doc], Command(w))
               THEN "complete" ELSE "fail")
  /\ UNCHANGED <<docVars, jobs, late, purge>>

CallClear(w) ==
  /\ At(w, "clear")
  /\ ClearPublicationReferences(Command(w))
  /\ GoTo(w, "complete")
  /\ UNCHANGED <<docVars, jobs, late, purge>>

\* The call is lost, or the caller gives up and it is executed later.
CallFails(w) ==
  /\ hand[w] # Idle
  /\ hand[w].step \in RemoteSteps
  /\ \/ UNCHANGED late
     \/ /\ Cardinality(late) < MaxLate
        /\ late' = late \cup {[op |-> hand[w].step, command |-> Command(w)]}
  /\ GoTo(w, "fail")
  /\ UNCHANGED <<head, refs, docVars, jobs, purge>>

LateCall(call) ==
  /\ late' = late \ {call}
  /\ \/ /\ call.op = "stage"
        /\ \E valid \in Validations(call.command) :
             StagePublicationReferences(call.command, valid)
     \/ call.op = "finalize" /\ FinalizePublicationReferences(call.command)
     \/ call.op = "clear" /\ ClearPublicationReferences(call.command)
  /\ UNCHANGED <<docVars, jobs, hand, purge>>

-----------------------------------------------------------------------------
(***************************************************************************)
(* Transactions of a worker on the Knowledge database.  The caller may see *)
(* an error although the transaction committed.                            *)
(***************************************************************************)
MarkPublicationReferencesStaged(w) ==
  /\ At(w, "mark")
  /\ Stored(w) # NoJob
  /\ ~Stored(w).parked
  /\ SetStored(w, [Stored(w) EXCEPT !.state = "staged"])
  /\ \E step \in {"promote", "fail"} : GoTo(w, step)
  /\ UNCHANGED <<head, refs, docVars, late, purge>>

\* Mutant: promotion is not fenced by the generation of the document.
PromotableUnfenced(w) ==
  /\ Stored(w) # NoJob
  /\ Stored(w).state = "staged"
  /\ doc[hand[w].doc].life = "live"

Promotable(w) ==
  /\ Stored(w) # NoJob
  /\ Stored(w).state = "staged"
  /\ doc[hand[w].doc].life = "live"
  /\ Current(w)
  /\ doc[hand[w].doc].status = "publishing"
  /\ candidate[hand[w].doc] = hand[w].generation

PromotePublication(w) ==
  LET d == hand[w].doc
      g == hand[w].generation
  IN /\ At(w, "promote")
     /\ Promotable(w)
     /\ publication' = [publication EXCEPT ![d] = candidate[d]]
     /\ mediaRefs' = [mediaRefs EXCEPT ![d] =
          {[attachment |-> a, generation |-> g] : a \in hand[w].ids}]
     /\ doc' = [doc EXCEPT ![d].status = "published"]
     /\ candidate' = [candidate EXCEPT ![d] = 0]
     /\ SetStored(w, [Stored(w) EXCEPT !.state = "promoted"])
     /\ \E step \in {"finalize", "fail"} : GoTo(w, step)
     /\ UNCHANGED <<head, refs, late, purge>>

\* Another worker has promoted the job already.
PromotedBefore(w) ==
  /\ At(w, "promote")
  /\ Stored(w) # NoJob
  /\ Stored(w).state = "promoted"
  /\ GoTo(w, "finalize")
  /\ UNCHANGED <<head, refs, docVars, jobs, late, purge>>

\* Mutant: completing a clear job removes the media rows of every generation.
CompleteErasesAll(w) ==
  LET d == hand[w].doc
  IN /\ At(w, "complete")
     /\ Stored(w) # NoJob
     /\ IF hand[w].action = "clear"
          THEN /\ mediaRefs' = [mediaRefs EXCEPT ![d] = {}]
               /\ doc' = IF Current(w) THEN [doc EXCEPT ![d].status = "draft"] ELSE doc
          ELSE UNCHANGED <<mediaRefs, doc>>
     /\ SetStored(w, NoJob)
     /\ hand' = [hand EXCEPT ![w] = Idle]
     /\ UNCHANGED <<head, refs, candidate, publication, late, purge>>

CompletePublicationReferenceJob(w) ==
  LET d == hand[w].doc
      g == hand[w].generation
  IN /\ At(w, "complete")
     /\ Stored(w) # NoJob
     /\ IF hand[w].action = "clear"
          THEN /\ mediaRefs' = [mediaRefs EXCEPT ![d] = {r \in @ : r.generation # g}]
               /\ doc' = IF Current(w) THEN [doc EXCEPT ![d].status = "draft"] ELSE doc
          ELSE UNCHANGED <<mediaRefs, doc>>
     /\ SetStored(w, NoJob)
     /\ hand' = [hand EXCEPT ![w] = Idle]
     /\ UNCHANGED <<head, refs, candidate, publication, late, purge>>

\* A row that is missing, a precondition that fails, or a database error.
LocalStepFails(w) ==
  /\ hand[w] # Idle
  /\ hand[w].step \in LocalSteps
  /\ GoTo(w, "fail")
  /\ UNCHANGED <<head, refs, docVars, jobs, late, purge>>

-----------------------------------------------------------------------------
(***************************************************************************)
(* After an error the job is retried or, its attempts used up, parked.     *)
(***************************************************************************)
RetryPublicationReferenceJob(w) ==
  /\ At(w, "fail")
  /\ ~hand[w].exhausted
  /\ hand' = [hand EXCEPT ![w] = Idle]
  /\ UNCHANGED <<head, refs, docVars, jobs, late, purge>>

\* Mutant: the document is not told that its job is parked.
ParkSilently(w) ==
  /\ At(w, "fail")
  /\ hand[w].exhausted
  /\ IF Stored(w) # NoJob
       THEN SetStored(w, [Stored(w) EXCEPT !.parked = TRUE])
       ELSE UNCHANGED jobs
  /\ hand' = [hand EXCEPT ![w] = Idle]
  /\ UNCHANGED <<head, refs, docVars, late, purge>>

ParkPublicationReferenceJob(w) ==
  LET failed == IF hand[w].action = "publish" THEN "publish_failed" ELSE "unpublish_failed"
  IN /\ At(w, "fail")
     /\ hand[w].exhausted
     /\ IF Stored(w) # NoJob
          THEN /\ SetStored(w, [Stored(w) EXCEPT !.parked = TRUE])
               /\ doc' = IF Current(w)
                           THEN [doc EXCEPT ![hand[w].doc].status = failed] ELSE doc
          ELSE UNCHANGED <<jobs, doc>>
     /\ hand' = [hand EXCEPT ![w] = Idle]
     /\ UNCHANGED <<head, refs, candidate, publication, mediaRefs, late, purge>>

\* The process dies, or the deadline of the pass runs out.
WorkerCutOff(w) ==
  /\ hand[w] # Idle
  /\ hand' = [hand EXCEPT ![w] = Idle]
  /\ UNCHANGED <<head, refs, docVars, jobs, late, purge>>

-----------------------------------------------------------------------------
(***************************************************************************)
(* processPurge: the check for pending clear jobs, the call to             *)
(* Collaboration and the transaction that deletes the document are three   *)
(* steps.  purge[d] is the step some pass has reached.                     *)
(***************************************************************************)
\* Mutant: a parked clear job does not count as pending.
HasClaimableClear(d) ==
  \E g \in Generations :
    jobs[d][g] # NoJob /\ jobs[d][g].action = "clear" /\ ~jobs[d][g].parked

HasPendingPublicationReferenceClear(d) ==
  \E g \in Generations : jobs[d][g] # NoJob /\ jobs[d][g].action = "clear"

\* Mutant: redriving resets the attempts and leaves the job parked.
RedriveLeavesParked(d) ==
  /\ doc[d].life = "due"
  /\ HasPendingPublicationReferenceClear(d)
  /\ jobs' = [jobs EXCEPT ![d] = [g \in Generations |->
       IF @[g] # NoJob /\ @[g].action = "clear" /\ @[g].parked
         THEN [@[g] EXCEPT !.attempts = 0]
         ELSE @[g]]]
  /\ UNCHANGED <<head, refs, docVars, hand, late, purge>>

RedrivePublicationReferenceClear(d) ==
  /\ doc[d].life = "due"
  /\ HasPendingPublicationReferenceClear(d)
  /\ jobs' = [jobs EXCEPT ![d] = [g \in Generations |->
       IF @[g] # NoJob /\ @[g].action = "clear" /\ @[g].parked
         THEN [@[g] EXCEPT !.parked = FALSE, !.attempts = 0]
         ELSE @[g]]]
  /\ UNCHANGED <<head, refs, docVars, hand, late, purge>>

PurgeCheck(d) ==
  /\ doc[d].life = "due"
  /\ purge[d] = "none"
  /\ ~HasPendingPublicationReferenceClear(d)
  /\ purge' = [purge EXCEPT ![d] = "checked"]
  /\ UNCHANGED <<head, refs, docVars, jobs, hand, late>>

PurgeCollaboration(d) ==
  /\ purge[d] = "checked"
  /\ purge' = [purge EXCEPT ![d] = "collaboration"]
  /\ UNCHANGED <<head, refs, docVars, jobs, hand, late>>

PurgeDocument(d) ==
  /\ purge[d] = "collaboration"
  /\ doc[d].life = "due"
  /\ doc' = [doc EXCEPT ![d].life = "gone"]
  /\ candidate' = [candidate EXCEPT ![d] = 0]
  /\ publication' = [publication EXCEPT ![d] = 0]
  /\ mediaRefs' = [mediaRefs EXCEPT ![d] = {}]
  /\ jobs' = [jobs EXCEPT ![d] = [g \in Generations |-> NoJob]]
  /\ purge' = [purge EXCEPT ![d] = "none"]
  /\ UNCHANGED <<head, refs, hand, late>>

\* The pass ends early: an error of Collaboration or of the database, a crash.
PurgeFails(d) ==
  /\ purge[d] # "none"
  /\ purge' = [purge EXCEPT ![d] = "none"]
  /\ UNCHANGED <<head, refs, docVars, jobs, hand, late>>

-----------------------------------------------------------------------------
Request(d) ==
  \/ \E ids \in MediaSets : PublishSnapshot(d, ids)
  \/ SetPublication(d)
  \/ SoftDeleteDocument(d)
  \/ RestoreDeletedDocument(d)
  \/ PurgeDeletedDocument(d)

WorkerStep(w) ==
  \/ CallStage(w) \/ CallFinalize(w) \/ CallClear(w)
  \/ MarkPublicationReferencesStaged(w)
  \/ PromotePublication(w) \/ PromotedBefore(w)
  \/ CompletePublicationReferenceJob(w)
  \/ RetryPublicationReferenceJob(w) \/ ParkPublicationReferenceJob(w)

Purge(d) ==
  \/ RedrivePublicationReferenceClear(d)
  \/ PurgeCheck(d) \/ PurgeCollaboration(d) \/ PurgeDocument(d) \/ PurgeFails(d)

Claim == \E w \in Workers, d \in Docs, g \in Generations : ClaimPublicationReferenceJob(w, d, g)

StepFails(w) == CallFails(w) \/ LocalStepFails(w)

\* The steps of processes that keep running.
Steady ==
  \/ \E d \in Docs : Request(d) \/ Purge(d)
  \/ Claim
  \/ \E w \in Workers : WorkerStep(w) \/ StepFails(w)
  \/ \E call \in late : LateCall(call)

Next == Steady \/ \E w \in Workers : WorkerCutOff(w)

Spec == Init /\ [][Next]_vars

(***************************************************************************)
(* Every process of the code that keeps running takes its next step: the   *)
(* worker loop polls at least every 30 seconds, so an unparked job is      *)
(* claimed again when its lease or its delay is over, and a remote call or *)
(* a transaction that is attempted again and again succeeds at last.       *)
(* Processes are cut off finitely often.  Requests, failing steps, late    *)
(* calls and parking are not fair.                                         *)
(***************************************************************************)
Fairness ==
  /\ \A d \in Docs, g \in Generations :
       WF_vars(\E w \in Workers : ClaimPublicationReferenceJob(w, d, g))
  /\ \A w \in Workers : WF_vars(WorkerStep(w) \/ StepFails(w))
  /\ \A w \in Workers : SF_vars(CallClear(w)) /\ SF_vars(CompletePublicationReferenceJob(w))
  /\ \A d \in Docs : WF_vars(RedrivePublicationReferenceClear(d)) /\ WF_vars(PurgeCheck(d))
  /\ \A d \in Docs : SF_vars(PurgeCollaboration(d)) /\ SF_vars(PurgeDocument(d))

LiveSpec == Spec /\ Fairness /\ <>[][Steady]_vars

-----------------------------------------------------------------------------
(***************************************************************************)
(* The rows, the job copies in the workers' hands and the calls under way  *)
(* keep their types.                                                       *)
(***************************************************************************)
TypeOK ==
  /\ RefTypeOK
  /\ doc \in [Docs -> [life : Lives, status : Statuses, generation : 0 .. MaxGeneration]]
  /\ candidate \in [Docs -> 0 .. MaxGeneration]
  /\ publication \in [Docs -> 0 .. MaxGeneration]
  /\ mediaRefs \in [Docs -> SUBSET References]
  /\ jobs \in [Docs -> [Generations -> Jobs \cup {NoJob}]]
  /\ hand \in [Workers -> Hands \cup {Idle}]
  /\ late \subseteq [op : RemoteSteps, command : Commands]
  /\ purge \in [Docs -> {"none", "checked", "collaboration"}]

(***************************************************************************)
(* Media a public page shows is held: while a document is published, every *)
(* row of published_media_references has its counterpart in Attachment, so *)
(* Trash refuses the attachment and GetPublished serves it.  The two       *)
(* tables live in two databases that no transaction spans.                 *)
(***************************************************************************)
PublishedMediaIsHeld ==
  \A d \in Docs : doc[d].status = "published" => mediaRefs[d] \subseteq refs[d]

(***************************************************************************)
(* A document that is draft, or physically purged, holds no attachment:    *)
(* the clear job outlives every failure before it, and no call that was    *)
(* delayed brings a reference back afterwards.                             *)
(***************************************************************************)
NothingHeldWhenWithdrawn ==
  \A d \in Docs :
    doc[d].status = "draft" \/ doc[d].life = "gone" => refs[d] = {}

(***************************************************************************)
(* No request is forgotten: a document shown as publishing has a claimable *)
(* publish job and the candidate of its generation, one shown as           *)
(* unpublishing a claimable clear job, until it is purged.                 *)
(***************************************************************************)
RequestHasJob ==
  \A d \in Docs :
    LET g == doc[d].generation
        Claimable(action) ==
          g \in Generations /\ jobs[d][g] # NoJob /\ jobs[d][g].action = action /\ ~jobs[d][g].parked
    IN doc[d].life # "gone" =>
         /\ doc[d].status = "publishing" => Claimable("publish") /\ candidate[d] = g
         /\ doc[d].status = "unpublishing" => Claimable("clear")

(***************************************************************************)
(* Only the latest request is promoted: the public snapshot and the media  *)
(* rows change to those of the generation the document is at, or go,       *)
(* whatever older job copies the workers still hold.                       *)
(***************************************************************************)
OnlyLatestPromoted ==
  [][\A d \in Docs :
       /\ publication'[d] \in {publication[d], 0, doc[d].generation}
       /\ \A r \in mediaRefs'[d] \ mediaRefs[d] : r.generation = doc[d].generation]_vars

(***************************************************************************)
(* "a stale unpublish completion can never erase a newer publication's     *)
(* refs" (CompletePublicationReferenceJob): what is promoted stays, with   *)
(* its media rows, until the next request on the document.                 *)
(***************************************************************************)
PublicationKeptUntilNextRequest ==
  [][\A d \in Docs :
       /\ publication[d] # 0
       /\ publication[d] = doc[d].generation
       /\ doc'[d].generation = doc[d].generation
       => publication'[d] = publication[d] /\ mediaRefs'[d] = mediaRefs[d]]_vars

(***************************************************************************)
(* A request settles: publishing ends promoted, superseded or reported as  *)
(* failed, unpublishing ends as a draft, superseded or reported as failed. *)
(***************************************************************************)
RequestSettles ==
  \A d \in Docs, s \in {"publishing", "unpublishing"} :
    doc[d].status = s ~> doc[d].status # s

(***************************************************************************)
(* A document due for permanent deletion is purged, even when its clear    *)
(* job has been parked.                                                    *)
(***************************************************************************)
DueIsPurged == \A d \in Docs : doc[d].life = "due" ~> doc[d].life = "gone"
=============================================================================
