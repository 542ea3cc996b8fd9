------------------- MODULE CollaborationProjectionProofs -------------------
(***************************************************************************)
(* Proofs about Collaboration and the projection Knowledge keeps, for any  *)
(* updates, any number of workers and any bounds: the rows implement the   *)
(* log, a commit Knowledge has not got has a job, and no job left means    *)
(* that Knowledge shows the head.                                          *)
(***************************************************************************)
EXTENDS CollaborationProjection, CollaborationStoreProofs

(***************************************************************************)
(* What makes PendingHasJob and DrainedIsCurrent inductive.  A job belongs *)
(* to the generation of the head.  Once the head is purged the document is *)
(* past being restored, so that no call is accepted any more and the job   *)
(* of the purge stays.  What a worker or a late call carries is the state  *)
(* of its sequence, and a worker that was answered is covered by the       *)
(* projection.                                                             *)
(***************************************************************************)
JobOK == job # NoJob => head # NoHead /\ job.generation = head.generation

PurgedStays ==
  head # NoHead /\ head.generation = 2 =>
    document \in {"due", "gone"} /\ job # NoJob

HeldOK ==
  \A w \in Workers : hand[w] # Idle =>
    /\ head # NoHead
    /\ hand[w].sequence <= head.current
    /\ hand[w].generation <= head.generation
    /\ hand[w].generation = 1 => hand[w].content = StateAt(1, hand[w].sequence)
    /\ hand[w].answer = "ok" =>
         hand[w].generation = 1 /\ hand[w].sequence <= projection.sequence

LateOK ==
  \A c \in late :
    /\ head # NoHead
    /\ c.sequence <= head.current
    /\ head.generation = 1 => c.content = StateAt(1, c.sequence)

ShownOK ==
  restores = 0 =>
    /\ projection.content = StateAt(1, projection.sequence)
    /\ head = NoHead => projection.sequence = 0
    /\ head # NoHead => projection.sequence <= head.current

IInv ==
  /\ TypeOK
  /\ projection.sequence <= MaxSequence + restores
  /\ RowsInv
  /\ JobOK
  /\ PendingHasJob
  /\ PurgedStays
  /\ HeldOK
  /\ LateOK
  /\ ShownOK

-----------------------------------------------------------------------------
LEMMA IdleIsNone == \A h \in Held : h # Idle
  BY WorkerAssumption, StoreAssumption DEF Held, Generations, Sequences

LEMMA JobTyped ==
  ASSUME TypeOK, job # NoJob
  PROVE  /\ job \in Job
         /\ job.generation \in 1 .. 2 /\ job.sequence \in Nat
         /\ job.leased \in BOOLEAN
  BY StoreAssumption DEF TypeOK, StoreTypeOK, Job, Generations, Sequences

LEMMA JobIsSome == \A j \in Job : j # NoJob
  BY StoreAssumption DEF Job, Generations, Sequences

LEMMA HandTyped ==
  ASSUME TypeOK, NEW w \in Workers, hand[w] # Idle
  PROVE  /\ hand[w] \in Held
         /\ hand[w].generation \in 1 .. 2
         /\ hand[w].sequence \in Nat /\ hand[w].sequence \in Sequences
         /\ hand[w].content \in SUBSET Updates
  BY StoreAssumption DEF TypeOK, Held, Generations, Sequences

LEMMA ProjectionTyped ==
  ASSUME TypeOK
  PROVE  projection.sequence \in Nat /\ projection.content \in SUBSET Updates
  BY StoreAssumption, WorkerAssumption DEF TypeOK

\* A load gives updates.
LEMMA StoredTyped ==
  ASSUME RowsInv, head # NoHead
  PROVE  Stored \in SUBSET Updates
  <1>1. \A x \in history : x.update \in Updates
    BY DEF RowsInv, RowsTypeOK, Row
  <1>2. StateAt(head.generation, head.current) \in SUBSET Updates
    BY <1>1 DEF StateAt, Merged
  <1> QED
    BY <1>2, StoredIsCommitted

\* What every step does to the rows.
LEMMA NextIsRowsStep == [Next]_vars => RowsStep
  <1> SUFFICES ASSUME [Next]_vars PROVE RowsStep
    OBVIOUS
  <1>1. CASE Edit
    BY <1>1 DEF Edit, RowsStep
  <1>2. ASSUME NEW w \in Workers, WorkerStep(w) PROVE RowsStep
    BY <1>2
    DEF WorkerStep, ClaimProjectionJob, Project, ProjectRefused,
        CompleteProjection, RetryProjection, WorkerStops, RowsStep, rows,
        storeVars
  <1>3. CASE LeaseExpires
    BY <1>3 DEF LeaseExpires, RowsStep, rows
  <1>4. ASSUME NEW c \in late, ProjectLate(c) PROVE RowsStep
    BY <1>4 DEF ProjectLate, RowsStep, rows, storeVars
  <1>5. ASSUME NEW content \in Commits, RestoreCommit(content) PROVE RowsStep
    BY <1>5 DEF RestoreCommit, RowsStep, rows, storeVars
  <1>6. CASE Delete
    BY <1>6 DEF Delete, RowsStep, rows, storeVars
  <1>7. CASE Purge
    BY <1>7
    DEF Purge, PurgeCollaboration, PurgeFails, PurgeDocument, RowsStep, rows,
        storeVars
  <1>8. CASE UNCHANGED vars
    BY <1>8 DEF vars, RowsStep, rows, storeVars
  <1> QED
    BY <1>1, <1>2, <1>3, <1>4, <1>5, <1>6, <1>7, <1>8 DEF Next

-----------------------------------------------------------------------------
(***************************************************************************)
(* The transactions, with everything else left alone.                      *)
(***************************************************************************)
LEMMA CarriedStays ==
  ASSUME IInv, RowsStep, head # NoHead, UNCHANGED <<projection, restores>>
  PROVE  /\ UNCHANGED hand => HeldOK'
         /\ UNCHANGED late => LateOK'
         /\ ShownOK'
  <1>0. TypeOK /\ RowsInv /\ HeldOK /\ LateOK /\ ShownOK
    BY DEF IInv
  <1>1. /\ head' # NoHead
        /\ head'.current \in Nat /\ head'.current >= head.current
        /\ head'.generation \in 1 .. 2 /\ head'.generation >= head.generation
        /\ \A s \in Nat : s <= head.current => StateAt(1, s)' = StateAt(1, s)
    BY <1>0, StepMovesOn
  <1>2. head.current \in Nat /\ head.generation \in 1 .. 2
    BY <1>0, HeadTyped DEF RowsInv
  <1>3. ASSUME UNCHANGED hand PROVE HeldOK'
    <2>1. SUFFICES ASSUME NEW w \in Workers, hand[w] # Idle
                   PROVE  /\ hand[w].sequence <= head'.current
                          /\ hand[w].generation <= head'.generation
                          /\ hand[w].generation = 1 =>
                               hand[w].content = StateAt(1, hand[w].sequence)'
                          /\ hand[w].answer = "ok" =>
                               /\ hand[w].generation = 1
                               /\ hand[w].sequence <= projection'.sequence
      BY <1>1, <1>3, Zenon DEF HeldOK
    <2>2. /\ hand[w].sequence <= head.current
          /\ hand[w].generation <= head.generation
          /\ hand[w].generation = 1 =>
               hand[w].content = StateAt(1, hand[w].sequence)
          /\ hand[w].answer = "ok" =>
               hand[w].generation = 1 /\ hand[w].sequence <= projection.sequence
      BY <1>0, <2>1 DEF HeldOK
    <2>3. hand[w].sequence \in Nat /\ hand[w].generation \in 1 .. 2
      BY <1>0, <2>1, HandTyped
    <2> QED
      BY <1>1, <1>2, <1>3, <2>2, <2>3 DEF StateAt
  <1>4. ASSUME UNCHANGED late PROVE LateOK'
    <2>1. \A c \in late : c.sequence \in Nat
      BY <1>0, StoreAssumption DEF TypeOK, Call, Sequences
    <2> QED
      BY <1>0, <1>1, <1>2, <1>4, <2>1 DEF LateOK
  <1>5. ShownOK'
    <2>1. projection.sequence \in Nat
      BY <1>0, ProjectionTyped
    <2> QED
      BY <1>0, <1>1, <1>2, <2>1 DEF ShownOK
  <1> QED
    BY <1>3, <1>4, <1>5

\* A transaction that commits, or a purge, leaves a job for the head.
LEMMA EditKeeps ==
  ASSUME IInv, Edit
  PROVE  IInv'
  <1>0. /\ TypeOK /\ RowsInv /\ JobOK /\ PendingHasJob /\ PurgedStays
        /\ HeldOK /\ LateOK /\ ShownOK
        /\ projection.sequence <= MaxSequence + restores
        /\ projection.sequence \in Nat
    BY ProjectionTyped DEF IInv
  <1>1. UNCHANGED <<knowledgeVars, hand, late>>
    BY DEF Edit
  <1>2. RowsInv'
    BY <1>0, StepKeepsRows DEF Edit, RowsStep
  <1>3. RowsTypeOK'
    BY <1>2 DEF RowsInv
  <1>4. CASE InitializeDocument
    <2>1. /\ head = NoHead /\ head'.current = 0 /\ head'.generation = 1
          /\ UNCHANGED <<job, outbox, history>>
      BY <1>4 DEF InitializeDocument
    <2>2. job = NoJob /\ late = {} /\ \A w \in Workers : hand[w] = Idle
      BY <1>0, <2>1 DEF JobOK, LateOK, HeldOK
    <2>3. TypeOK'
      BY <1>0, <1>1, <1>3, <2>1
      DEF TypeOK, StoreTypeOK, RowsTypeOK, knowledgeVars
    <2>4. JobOK' /\ HeldOK' /\ LateOK'
      BY <1>1, <2>1, <2>2 DEF JobOK, HeldOK, LateOK
    <2>5. PendingHasJob' /\ PurgedStays'
      BY <1>0, <1>1, <2>1 DEF PendingHasJob, PurgedStays, knowledgeVars
    <2>6. ShownOK'
      <3>1. \A s : StateAt(1, s)' = StateAt(1, s)
        BY <2>1, Zenon DEF StateAt
      <3> QED
        BY <1>0, <1>1, <2>1, <3>1 DEF ShownOK, knowledgeVars
    <2> QED
      BY <1>0, <1>1, <1>2, <2>3, <2>4, <2>5, <2>6 DEF IInv, knowledgeVars
  <1>5. ASSUME NEW u \in Updates, AppendUpdate(u)
        PROVE  IInv'
    <2>1. head # NoHead
      BY <1>5 DEF AppendUpdate
    <2>2. RowsStep
      BY <1>5 DEF RowsStep
    <2>3. HeldOK' /\ LateOK' /\ ShownOK'
      BY <1>1, <2>1, <2>2, CarriedStays DEF knowledgeVars
    <2>4. CASE UNCHANGED storeVars
      BY <1>0, <1>1, <1>2, <2>3, <2>4
      DEF IInv, TypeOK, StoreTypeOK, JobOK, PendingHasJob, PurgedStays,
          knowledgeVars, storeVars
    <2>5. CASE ~UNCHANGED storeVars
      <3> DEFINE n == head.current + 1
      <3>1. /\ n \in Sequences
            /\ head' = [head EXCEPT !.current = n]
            /\ job' = [generation |-> head.generation, sequence |-> n,
                       leased |-> FALSE]
            /\ outbox' = outbox \cup {[kind |-> "updated",
                            generation |-> head.generation, sequence |-> n]}
        BY <1>5, <2>5 DEF AppendUpdate, EnqueuedProjection
      <3>2. head \in HeadRow /\ head.generation \in Generations
        BY <1>0, <2>1, HeadTyped DEF RowsInv, Generations
      <3>3. /\ head'.generation = head.generation /\ head'.current = n
            /\ head' \in HeadRow
        BY <3>1, <3>2 DEF HeadRow
      <3>4. job' \in Job /\ job'.generation = head.generation /\ job'.sequence = n
        BY <3>1, <3>2 DEF Job
      <3>5. head' # NoHead /\ job' # NoJob
        BY <3>3, <3>4, NoHeadIsNone, JobIsSome
      <3>6. outbox' \in SUBSET Event
        BY <1>0, <3>1, <3>2 DEF TypeOK, StoreTypeOK, Event
      <3>7. TypeOK'
        BY <1>0, <1>1, <1>3, <3>4, <3>6
        DEF TypeOK, StoreTypeOK, RowsTypeOK, knowledgeVars
      <3>8. JobOK' /\ PendingHasJob'
        BY <3>3, <3>4, <3>5 DEF JobOK, PendingHasJob
      <3>9. PurgedStays'
        BY <1>0, <1>1, <2>1, <3>3, <3>5 DEF PurgedStays, knowledgeVars
      <3> QED
        BY <1>0, <1>1, <1>2, <2>3, <3>7, <3>8, <3>9 DEF IInv, knowledgeVars
    <2> QED
      BY <2>4, <2>5
  <1>6. CASE CompactNext
    <2>1. /\ head # NoHead /\ UNCHANGED <<job, outbox>>
          /\ head' = [head EXCEPT !.snapshot = head.current]
      BY <1>6 DEF CompactNext
    <2>2. head \in HeadRow
      BY <1>0, <2>1, HeadTyped DEF RowsInv
    <2>3. /\ head'.generation = head.generation
          /\ head'.current = head.current /\ head' \in HeadRow
      BY <2>1, <2>2 DEF HeadRow
    <2>4. head' # NoHead
      BY <2>3, NoHeadIsNone
    <2>5. HeldOK' /\ LateOK' /\ ShownOK'
      BY <1>1, <1>6, <2>1, CarriedStays DEF knowledgeVars, RowsStep
    <2>6. TypeOK'
      BY <1>0, <1>1, <1>3, <2>1
      DEF TypeOK, StoreTypeOK, RowsTypeOK, knowledgeVars
    <2>7. JobOK' /\ PendingHasJob' /\ PurgedStays'
      BY <1>0, <1>1, <2>1, <2>3, <2>4
      DEF JobOK, PendingHasJob, PurgedStays, knowledgeVars
    <2> QED
      BY <1>0, <1>1, <1>2, <2>5, <2>6, <2>7 DEF IInv, knowledgeVars
  <1> QED
    BY <1>4, <1>5, <1>6 DEF Edit

LEMMA PurgeCollaborationKeeps ==
  ASSUME IInv, PurgeCollaboration
  PROVE  IInv'
  <1>0. /\ TypeOK /\ RowsInv /\ JobOK /\ PendingHasJob /\ PurgedStays
        /\ HeldOK /\ LateOK /\ ShownOK
        /\ projection.sequence <= MaxSequence + restores
    BY DEF IInv
  <1>1. /\ document = "due" /\ PurgeRows /\ pass' = TRUE /\ head # NoHead
        /\ UNCHANGED <<document, projection, restores, hand, late>>
    BY Zenon DEF PurgeCollaboration, PurgeRows
  <1>2. RowsStep /\ RowsInv' /\ RowsTypeOK'
    BY <1>0, <1>1, StepKeepsRows DEF RowsStep, RowsInv
  <1>3. HeldOK' /\ LateOK' /\ ShownOK'
    BY <1>1, <1>2, CarriedStays
  <1>4. CASE UNCHANGED storeVars
    BY <1>0, <1>1, <1>2, <1>3, <1>4
    DEF IInv, TypeOK, StoreTypeOK, JobOK, PendingHasJob, PurgedStays, storeVars
  <1>5. CASE ~UNCHANGED storeVars
    <2> DEFINE g == head.generation + 1
    <2>1. /\ ~head.purged
          /\ head' = [generation |-> g, current |-> head.current,
                      snapshot |-> head.current, purged |-> TRUE]
          /\ job' = [generation |-> g, sequence |-> head.current,
                     leased |-> FALSE]
          /\ outbox' = outbox \cup {[kind |-> "purged", generation |-> g,
                                     sequence |-> head.current]}
      BY <1>1, <1>5 DEF PurgeRows, EnqueuedProjection
    <2>2. /\ head \in HeadRow /\ g = 2 /\ head.current \in Sequences
          /\ g \in Generations
      BY <1>0, <1>1, <2>1, HeadTyped DEF RowsInv, HeadOK, HeadRow, Generations
    <2>3. head'.generation = g /\ head'.current = head.current
      BY <2>1
    <2>4. job' \in Job /\ job'.generation = g /\ job'.sequence = head.current
      BY <2>1, <2>2 DEF Job
    <2>5. job' # NoJob
      BY <2>4, JobIsSome
    <2>6. head' # NoHead
      BY <1>0, <1>1, <1>2, StepMovesOn
    <2>7. outbox' \in SUBSET Event
      BY <1>0, <2>1, <2>2 DEF TypeOK, StoreTypeOK, Event
    <2>8. TypeOK'
      BY <1>0, <1>1, <1>2, <2>4, <2>7 DEF TypeOK, StoreTypeOK, RowsTypeOK
    <2>9. JobOK' /\ PendingHasJob' /\ PurgedStays'
      BY <1>1, <2>3, <2>4, <2>5, <2>6 DEF JobOK, PendingHasJob, PurgedStays
    <2> QED
      BY <1>0, <1>1, <1>2, <1>3, <2>8, <2>9 DEF IInv
  <1> QED
    BY <1>4, <1>5

-----------------------------------------------------------------------------
(***************************************************************************)
(* The steps that leave the rows alone.                                    *)
(***************************************************************************)
LEMMA SameRows ==
  ASSUME UNCHANGED rows
  PROVE  head' = head /\ \A g, s : StateAt(g, s)' = StateAt(g, s)
  BY Zenon DEF rows, StateAt

LEMMA ClaimKeeps ==
  ASSUME IInv, NEW w \in Workers, ClaimProjectionJob(w)
  PROVE  IInv'
  <1> DEFINE h == [generation |-> head.generation, sequence |-> head.current,
                   content |-> Stored, answer |-> "none"]
  <1>0. /\ TypeOK /\ RowsInv /\ JobOK /\ PendingHasJob /\ PurgedStays
        /\ HeldOK /\ LateOK /\ ShownOK
        /\ projection.sequence <= MaxSequence + restores
    BY DEF IInv
  <1>1. /\ job # NoJob
        /\ job' = [generation |-> head.generation, sequence |-> head.current,
                   leased |-> TRUE]
        /\ hand' = [hand EXCEPT ![w] = h]
        /\ UNCHANGED <<rows, outbox, knowledgeVars, late>>
    BY DEF ClaimProjectionJob, rows
  <1>2. head # NoHead
    BY <1>0, <1>1 DEF JobOK
  <1>3. /\ head.generation \in Generations /\ head.current \in Sequences
        /\ head.generation \in 1 .. 2 /\ head.current \in Nat
    BY <1>0, <1>2, HeadTyped DEF RowsInv, HeadRow, Generations
  <1>4. Stored \in SUBSET Updates /\ Stored = StateAt(head.generation, head.current)
    BY <1>0, <1>2, StoredTyped, StoredIsCommitted
  <1>5. h \in Held
    BY <1>3, <1>4 DEF Held
  <1>6. job' \in Job /\ job' # NoJob /\ job'.generation = head.generation
        /\ job'.sequence = head.current
    <2>1. job' \in Job /\ job'.generation = head.generation
          /\ job'.sequence = head.current
      BY <1>1, <1>3 DEF Job
    <2> QED
      BY <2>1, JobIsSome
  <1>7. RowsInv' /\ head' = head /\ \A g, s : StateAt(g, s)' = StateAt(g, s)
    BY <1>0, <1>1, SameRows, UnchangedKeepsRows
  <1>8. TypeOK'
    <2>1. hand' \in [Workers -> Held \cup {Idle}]
      BY <1>0, <1>1, <1>5 DEF TypeOK
    <2> QED
      BY Zenon, <1>0, <1>1, <1>6, <2>1 DEF TypeOK, StoreTypeOK, rows, knowledgeVars
  <1>9. JobOK' /\ PendingHasJob' /\ PurgedStays'
    BY <1>0, <1>1, <1>2, <1>6, <1>7
    DEF JobOK, PendingHasJob, PurgedStays, knowledgeVars
  <1>10. LateOK' /\ ShownOK'
    BY Zenon, <1>0, <1>1, <1>7 DEF LateOK, ShownOK, knowledgeVars
  <1>11. HeldOK'
    <2> SUFFICES ASSUME NEW v \in Workers, hand'[v] # Idle
                 PROVE  /\ hand'[v].sequence <= head.current
                        /\ hand'[v].generation <= head.generation
                        /\ hand'[v].generation = 1 =>
                             hand'[v].content = StateAt(1, hand'[v].sequence)
                        /\ hand'[v].answer = "ok" =>
                             /\ hand'[v].generation = 1
                             /\ hand'[v].sequence <= projection.sequence
      BY Zenon, <1>1, <1>2, <1>7 DEF HeldOK, knowledgeVars
    <2>1. CASE v = w
      <3>1. hand'[v] = h
        BY <1>0, <1>1, <2>1 DEF TypeOK
      <3> QED
        BY <1>3, <1>4, <3>1
    <2>2. CASE v # w
      <3>1. hand'[v] = hand[v]
        BY <1>0, <1>1, <2>2 DEF TypeOK
      <3> QED
        BY <1>0, <3>1 DEF HeldOK
    <2> QED
      BY <2>1, <2>2
  <1> QED
    BY <1>0, <1>1, <1>7, <1>8, <1>9, <1>10, <1>11 DEF IInv, knowledgeVars

\* A worker that lays its job down, whatever it does to the row of it.
LEMMA LaidDownKeeps ==
  ASSUME IInv, NEW w \in Workers, hand[w] # Idle,
         hand' = [hand EXCEPT ![w] = Idle],
         UNCHANGED <<rows, outbox, knowledgeVars, late>>,
         \/ job' = job
         \/ job # NoJob /\ job' = [job EXCEPT !.leased = FALSE]
         \/ hand[w].answer = "ok" /\ Targeted(w) /\ job' = NoJob
  PROVE  IInv'
  <1>0. /\ TypeOK /\ RowsInv /\ JobOK /\ PendingHasJob /\ PurgedStays
        /\ HeldOK /\ LateOK /\ ShownOK
        /\ projection.sequence <= MaxSequence + restores
        /\ projection.sequence \in Nat
    BY ProjectionTyped DEF IInv
  <1>1. RowsInv' /\ head' = head /\ \A g, s : StateAt(g, s)' = StateAt(g, s)
    BY <1>0, SameRows, UnchangedKeepsRows
  <1>2. hand' \in [Workers -> Held \cup {Idle}]
    BY <1>0 DEF TypeOK
  <1>3. HeldOK'
    <2>1. \A v \in Workers : hand'[v] # Idle => hand'[v] = hand[v]
      BY <1>0 DEF TypeOK
    <2> QED
      BY <1>0, <1>1, <2>1 DEF HeldOK, knowledgeVars
  <1>4. LateOK' /\ ShownOK'
    BY <1>0, <1>1 DEF LateOK, ShownOK, knowledgeVars
  <1>5. TypeOK' /\ JobOK' /\ PendingHasJob' /\ PurgedStays'
    <2>1. CASE job' = job
      BY <1>0, <1>1, <1>2, <2>1
      DEF TypeOK, StoreTypeOK, JobOK, PendingHasJob, PurgedStays, rows,
          knowledgeVars
    <2>2. CASE job # NoJob /\ job' = [job EXCEPT !.leased = FALSE]
      <3>1. job \in Job
        BY <1>0, <2>2, JobTyped
      <3>2. /\ job' \in Job /\ job'.generation = job.generation
            /\ job'.sequence = job.sequence
        BY Zenon, <2>2, <3>1 DEF Job
      <3>3. job' # NoJob
        BY <3>2, JobIsSome
      <3>4. TypeOK'
        BY <1>0, <1>2, <3>2 DEF TypeOK, StoreTypeOK, rows, knowledgeVars
      <3> QED
        BY <1>0, <1>1, <2>2, <3>2, <3>3, <3>4
        DEF JobOK, PendingHasJob, PurgedStays, knowledgeVars
    <2>3. CASE hand[w].answer = "ok" /\ Targeted(w) /\ job' = NoJob
      <3>1. /\ job # NoJob /\ job.generation = hand[w].generation
            /\ job.sequence = hand[w].sequence
        BY <2>3 DEF Targeted
      <3>2. hand[w].generation = 1 /\ hand[w].sequence <= projection.sequence
        BY <1>0, <2>3 DEF HeldOK
      <3>3. TypeOK'
        BY <1>0, <1>2, <2>3 DEF TypeOK, StoreTypeOK, rows, knowledgeVars
      <3>4. head # NoHead /\ head.generation = 1
        BY <1>0, <3>1, <3>2 DEF JobOK
      <3>5. ~(projection.sequence < head.current)
        <4>1. SUFFICES ASSUME projection.sequence < head.current PROVE FALSE
          OBVIOUS
        <4>2. head.current = hand[w].sequence
          BY <1>0, <3>1, <3>4, <4>1 DEF PendingHasJob
        <4>3. head.current \in Nat
          BY <1>0, <3>4, HeadTyped DEF RowsInv
        <4> QED
          BY <1>0, <3>2, <4>1, <4>2, <4>3
      <3> QED
        BY <1>1, <2>3, <3>3, <3>4, <3>5
        DEF JobOK, PendingHasJob, PurgedStays, knowledgeVars
    <2> QED
      BY <2>1, <2>2, <2>3
  <1> QED
    BY <1>0, <1>1, <1>3, <1>4, <1>5 DEF IInv, knowledgeVars

LEMMA LeaseKeeps ==
  ASSUME IInv, LeaseExpires
  PROVE  IInv'
  <1>0. /\ TypeOK /\ RowsInv /\ JobOK /\ PendingHasJob /\ PurgedStays
        /\ HeldOK /\ LateOK /\ ShownOK
        /\ projection.sequence <= MaxSequence + restores
    BY DEF IInv
  <1>1. /\ job # NoJob /\ job' = [job EXCEPT !.leased = FALSE]
        /\ UNCHANGED <<rows, outbox, knowledgeVars, hand, late>>
    BY DEF LeaseExpires, rows
  <1>2. RowsInv' /\ head' = head /\ \A g, s : StateAt(g, s)' = StateAt(g, s)
    BY <1>0, <1>1, SameRows, UnchangedKeepsRows
  <1>3. job \in Job
    BY <1>0, <1>1, JobTyped
  <1>4. /\ job' \in Job /\ job'.generation = job.generation
        /\ job'.sequence = job.sequence
    BY Zenon, <1>1, <1>3 DEF Job
  <1>5. job' # NoJob
    BY <1>4, JobIsSome
  <1>6. TypeOK'
    BY <1>0, <1>1, <1>4 DEF TypeOK, StoreTypeOK, rows, knowledgeVars
  <1>7. JobOK' /\ PendingHasJob' /\ PurgedStays'
    BY <1>0, <1>1, <1>2, <1>4, <1>5
    DEF JobOK, PendingHasJob, PurgedStays, knowledgeVars
  <1>8. HeldOK' /\ LateOK' /\ ShownOK'
    BY <1>0, <1>1, <1>2 DEF HeldOK, LateOK, ShownOK, knowledgeVars
  <1> QED
    BY <1>0, <1>1, <1>2, <1>6, <1>7, <1>8 DEF IInv, knowledgeVars

\* What UpsertProjection does with a call that carries the state of its
\* sequence.
LEMMA UpsertKeeps ==
  ASSUME IInv, UNCHANGED <<storeVars, document, restores, pass>>,
         \/ projection' = projection
         \/ /\ document = "live" /\ head # NoHead
            /\ projection' \in [sequence : Sequences, content : SUBSET Updates]
            /\ projection'.sequence > projection.sequence
            /\ projection'.sequence <= head.current
            /\ head.generation = 1 =>
                 projection'.content = StateAt(1, projection'.sequence)
  PROVE  /\ RowsInv' /\ JobOK' /\ PendingHasJob' /\ PurgedStays' /\ ShownOK'
         /\ UNCHANGED late => LateOK'
         /\ projection'.sequence \in Nat
         /\ projection'.sequence >= projection.sequence
         /\ projection'.sequence <= MaxSequence + restores'
         /\ projection' \in [sequence : 0 .. MaxSequence + MaxRestores,
                             content : SUBSET Updates]
  <1>0. /\ TypeOK /\ RowsInv /\ JobOK /\ PendingHasJob /\ PurgedStays
        /\ HeldOK /\ LateOK /\ ShownOK
        /\ projection.sequence <= MaxSequence + restores
        /\ projection.sequence \in Nat
        /\ restores \in 0 .. MaxRestores /\ MaxRestores \in Nat
        /\ MaxSequence \in Nat
    BY ProjectionTyped, WorkerAssumption, StoreAssumption DEF IInv, TypeOK
  <1>1. RowsInv' /\ head' = head /\ \A g, s : StateAt(g, s)' = StateAt(g, s)
    BY <1>0, SameRows, UnchangedKeepsRows DEF storeVars, rows
  <1>2. JobOK' /\ PurgedStays' /\ (UNCHANGED late => LateOK')
    BY <1>0, <1>1 DEF JobOK, PurgedStays, LateOK, storeVars
  <1>3. CASE projection' = projection
    <2>1. PendingHasJob' /\ ShownOK'
      BY <1>0, <1>1, <1>3 DEF PendingHasJob, ShownOK, storeVars
    <2> QED
      BY <1>0, <1>1, <1>2, <1>3, <2>1 DEF TypeOK
  <1>4. CASE /\ document = "live" /\ head # NoHead
             /\ projection' \in [sequence : Sequences, content : SUBSET Updates]
             /\ projection'.sequence > projection.sequence
             /\ projection'.sequence <= head.current
             /\ head.generation = 1 =>
                  projection'.content = StateAt(1, projection'.sequence)
    <2>1. projection'.sequence \in Nat /\ projection'.sequence <= MaxSequence
      BY <1>4, StoreAssumption DEF Sequences
    <2>2. head.generation = 1 /\ head.current \in Nat
      BY <1>0, <1>4, HeadTyped DEF PurgedStays, RowsInv
    <2>3. PendingHasJob'
      <3>1. SUFFICES ASSUME projection'.sequence < head.current
                     PROVE  /\ job # NoJob /\ job.generation = head.generation
                            /\ job.sequence = head.current
        BY <1>1 DEF PendingHasJob, storeVars
      <3>2. projection.sequence < head.current
        BY <1>0, <1>4, <2>1, <2>2, <3>1
      <3> QED
        BY <1>0, <1>4, <3>2 DEF PendingHasJob
    <2>4. ShownOK'
      BY <1>1, <1>4, <2>2 DEF ShownOK
    <2>5. projection' \in [sequence : 0 .. MaxSequence + MaxRestores,
                           content : SUBSET Updates]
      BY <1>0, <1>4 DEF Sequences
    <2> QED
      BY <1>0, <1>1, <1>2, <1>4, <2>1, <2>3, <2>4, <2>5
  <1> QED
    BY <1>3, <1>4

LEMMA ProjectKeeps ==
  ASSUME IInv, NEW w \in Workers, Project(w)
  PROVE  IInv'
  <1>0. /\ TypeOK /\ RowsInv /\ PurgedStays /\ HeldOK /\ LateOK
        /\ projection.sequence \in Nat
    BY ProjectionTyped DEF IInv
  <1>1. PICK a \in {"ok", "error"} :
          /\ hand[w] # Idle
          /\ a = "ok" => Accepted(Carried(w))
          /\ hand' = [hand EXCEPT ![w].answer = a]
          /\ UpsertProjection(Carried(w))
          /\ UNCHANGED <<storeVars, document, restores, pass, late>>
    BY Zenon DEF Project
  <1>2. /\ hand[w] \in Held /\ hand[w].sequence \in Nat
        /\ hand[w].generation \in 1 .. 2
        /\ hand[w].sequence \in Sequences
        /\ hand[w].content \in SUBSET Updates
    BY <1>0, <1>1, HandTyped
  <1>3. /\ head # NoHead /\ hand[w].sequence <= head.current
        /\ hand[w].generation <= head.generation
        /\ hand[w].generation = 1 =>
             hand[w].content = StateAt(1, hand[w].sequence)
    BY <1>0, <1>1 DEF HeldOK
  <1>4. \/ projection' = projection
        \/ /\ document = "live"
           /\ hand[w].sequence > projection.sequence
           /\ projection' = [sequence |-> hand[w].sequence,
                             content |-> hand[w].content]
    BY <1>1 DEF UpsertProjection, Carried
  <1>5. head.generation \in 1 .. 2
    BY <1>0, <1>3, HeadTyped DEF RowsInv
  <1>6. /\ RowsInv' /\ JobOK' /\ PendingHasJob' /\ PurgedStays' /\ ShownOK'
        /\ LateOK'
        /\ projection'.sequence \in Nat
        /\ projection'.sequence >= projection.sequence
        /\ projection'.sequence <= MaxSequence + restores'
        /\ projection' \in [sequence : 0 .. MaxSequence + MaxRestores,
                            content : SUBSET Updates]
    <2>1. \/ projection' = projection
          \/ /\ document = "live" /\ head # NoHead
             /\ projection' \in [sequence : Sequences, content : SUBSET Updates]
             /\ projection'.sequence > projection.sequence
             /\ projection'.sequence <= head.current
             /\ head.generation = 1 =>
                  projection'.content = StateAt(1, projection'.sequence)
      BY <1>2, <1>3, <1>4, <1>5
    <2> QED
      BY <1>1, <2>1, UpsertKeeps
  <1>7. a = "ok" => hand[w].generation = 1
                    /\ hand[w].sequence <= projection'.sequence
    <2>1. SUFFICES ASSUME Accepted(Carried(w))
                   PROVE  hand[w].generation = 1
                          /\ hand[w].sequence <= projection'.sequence
      BY <1>1
    <2>2. document = "live" /\ hand[w].sequence >= projection.sequence
      BY <1>0, <1>2, <2>1 DEF Accepted, Carried
    <2>3. head.generation = 1
      BY <1>0, <1>3, <1>5, <2>2 DEF PurgedStays
    <2>4. hand[w].sequence <= projection'.sequence
      BY <1>0, <1>1, <1>2, <2>1, <2>2 DEF UpsertProjection, Accepted, Carried
    <2> QED
      BY <1>2, <1>3, <2>3, <2>4
  <1>8. head' = head /\ \A g, s : StateAt(g, s)' = StateAt(g, s)
    BY <1>1, SameRows DEF storeVars, rows
  <1>9. /\ hand'[w].generation = hand[w].generation
        /\ hand'[w].sequence = hand[w].sequence
        /\ hand'[w].content = hand[w].content
        /\ hand'[w].answer = a
        /\ hand'[w] \in Held
        /\ \A v \in Workers : v # w => hand'[v] = hand[v]
    BY <1>0, <1>1, <1>2 DEF TypeOK, Held
  <1>10. hand' \in [Workers -> Held \cup {Idle}]
    BY <1>0, <1>1, <1>9 DEF TypeOK
  <1>11. TypeOK'
    BY <1>0, <1>1, <1>6, <1>10 DEF TypeOK, StoreTypeOK, storeVars
  <1>12. HeldOK'
    <2> SUFFICES ASSUME NEW v \in Workers, hand'[v] # Idle
                 PROVE  /\ head # NoHead
                        /\ hand'[v].sequence <= head.current
                        /\ hand'[v].generation <= head.generation
                        /\ hand'[v].generation = 1 =>
                             hand'[v].content = StateAt(1, hand'[v].sequence)
                        /\ hand'[v].answer = "ok" =>
                             /\ hand'[v].generation = 1
                             /\ hand'[v].sequence <= projection'.sequence
      BY Zenon, <1>8 DEF HeldOK
    <2>1. CASE v = w
      BY Zenon, <1>3, <1>7, <1>9, <2>1
    <2>2. CASE v # w
      <3>1. hand'[v] = hand[v]
        BY <1>9, <2>2
      <3>2. hand[v].sequence \in Nat
        BY <1>0, <3>1, HandTyped
      <3>3. hand[v].sequence <= projection.sequence =>
              hand[v].sequence <= projection'.sequence
        BY <1>0, <1>6, <3>2
      <3> QED
        BY Zenon, <1>0, <3>1, <3>3 DEF HeldOK
    <2> QED
      BY Zenon, <2>1, <2>2
  <1> QED
    BY <1>6, <1>11, <1>12 DEF IInv

LEMMA RefusedKeeps ==
  ASSUME IInv, NEW w \in Workers, ProjectRefused(w)
  PROVE  IInv'
  <1>0. /\ TypeOK /\ RowsInv /\ JobOK /\ PendingHasJob /\ PurgedStays
        /\ HeldOK /\ LateOK /\ ShownOK
        /\ projection.sequence <= MaxSequence + restores
    BY DEF IInv
  <1>1. /\ hand[w] # Idle
        /\ hand' = [hand EXCEPT ![w].answer = "error"]
        /\ late' = late \/ late' = late \cup {Carried(w)}
        /\ UNCHANGED <<storeVars, knowledgeVars>>
    BY DEF ProjectRefused
  <1>2. /\ hand[w] \in Held /\ hand[w].generation \in 1 .. 2
        /\ hand[w].sequence \in Sequences /\ hand[w].content \in SUBSET Updates
    BY <1>0, <1>1, HandTyped
  <1>3. /\ head # NoHead /\ hand[w].sequence <= head.current
        /\ hand[w].generation <= head.generation
        /\ hand[w].generation = 1 =>
             hand[w].content = StateAt(1, hand[w].sequence)
    BY <1>0, <1>1 DEF HeldOK
  <1>4. RowsInv' /\ head' = head /\ \A g, s : StateAt(g, s)' = StateAt(g, s)
    BY <1>0, <1>1, SameRows, UnchangedKeepsRows DEF storeVars, rows
  <1>5. JobOK' /\ PendingHasJob' /\ PurgedStays' /\ ShownOK'
    BY <1>0, <1>1, <1>4
    DEF JobOK, PendingHasJob, PurgedStays, ShownOK, storeVars, knowledgeVars
  <1>6. /\ hand'[w].generation = hand[w].generation
        /\ hand'[w].sequence = hand[w].sequence
        /\ hand'[w].content = hand[w].content
        /\ hand'[w].answer = "error"
        /\ hand'[w] \in Held
        /\ \A v \in Workers : v # w => hand'[v] = hand[v]
    BY <1>0, <1>1, <1>2 DEF TypeOK, Held
  <1>7. TypeOK'
    <2>1. hand' \in [Workers -> Held \cup {Idle}]
      BY <1>0, <1>1, <1>6 DEF TypeOK
    <2>2. Carried(w) \in Call
      BY Zenon, <1>2 DEF Carried, Call
    <2>3. late' \in SUBSET Call
      BY <1>0, <1>1, <2>2 DEF TypeOK
    <2> QED
      BY <1>0, <1>1, <2>1, <2>3
      DEF TypeOK, StoreTypeOK, storeVars, knowledgeVars
  <1>8. HeldOK'
    BY <1>0, <1>1, <1>3, <1>4, <1>6 DEF HeldOK, knowledgeVars
  <1>9. LateOK'
    <2>1. Carried(w).sequence = hand[w].sequence
          /\ Carried(w).content = hand[w].content
      BY DEF Carried
    <2>2. head.generation = 1 => hand[w].generation = 1
      BY <1>2, <1>3
    <2> QED
      BY <1>0, <1>1, <1>3, <1>4, <2>1, <2>2 DEF LateOK
  <1> QED
    BY <1>0, <1>1, <1>4, <1>5, <1>7, <1>8, <1>9 DEF IInv, knowledgeVars

\* The workers that were answered stay covered: the projection only grows.
LEMMA LateKeeps ==
  ASSUME IInv, NEW c \in late, ProjectLate(c)
  PROVE  IInv'
  <1>0. /\ TypeOK /\ RowsInv /\ HeldOK /\ LateOK /\ PurgedStays
        /\ projection.sequence \in Nat
    BY ProjectionTyped DEF IInv
  <1>1. /\ late' = late \ {c} /\ UpsertProjection(c)
        /\ UNCHANGED <<storeVars, document, restores, pass, hand>>
    BY DEF ProjectLate
  <1>2. c \in Call
    BY <1>0 DEF TypeOK
  <1>3. /\ head # NoHead /\ c.sequence <= head.current
        /\ head.generation = 1 => c.content = StateAt(1, c.sequence)
    BY <1>0 DEF LateOK
  <1>4. \/ projection' = projection
        \/ /\ document = "live" /\ head # NoHead
           /\ projection' \in [sequence : Sequences, content : SUBSET Updates]
           /\ projection'.sequence > projection.sequence
           /\ projection'.sequence <= head.current
           /\ head.generation = 1 =>
                projection'.content = StateAt(1, projection'.sequence)
    BY <1>1, <1>2, <1>3 DEF UpsertProjection, Call
  <1>5. /\ RowsInv' /\ JobOK' /\ PendingHasJob' /\ PurgedStays' /\ ShownOK'
        /\ projection'.sequence \in Nat
        /\ projection'.sequence >= projection.sequence
        /\ projection'.sequence <= MaxSequence + restores'
        /\ projection' \in [sequence : 0 .. MaxSequence + MaxRestores,
                            content : SUBSET Updates]
    BY <1>1, <1>4, UpsertKeeps
  <1>6. head' = head /\ \A g, s : StateAt(g, s)' = StateAt(g, s)
    BY <1>1, SameRows DEF storeVars, rows
  <1>7. LateOK'
    BY <1>0, <1>1, <1>6 DEF LateOK
  <1>8. HeldOK'
    <2>1. \A v \in Workers : hand[v] # Idle => hand[v].sequence \in Nat
      BY <1>0, HandTyped
    <2> QED
      BY <1>0, <1>1, <1>5, <1>6, <2>1 DEF HeldOK
  <1>9. TypeOK'
    BY <1>0, <1>1, <1>5 DEF TypeOK, StoreTypeOK, storeVars
  <1> QED
    BY <1>5, <1>7, <1>8, <1>9 DEF IInv

\* A restored commit takes the projection past the reach of DrainedIsCurrent,
\* and no commit of Collaboration out of that of PendingHasJob.
LEMMA RestoreKeeps ==
  ASSUME IInv, NEW content \in Commits, RestoreCommit(content)
  PROVE  IInv'
  <1>0. /\ TypeOK /\ RowsInv /\ JobOK /\ PendingHasJob /\ PurgedStays
        /\ HeldOK /\ LateOK /\ projection.sequence \in Nat
        /\ projection.sequence <= MaxSequence + restores
        /\ restores \in Nat /\ MaxRestores \in Nat /\ MaxSequence \in Nat
    BY ProjectionTyped, WorkerAssumption, StoreAssumption DEF IInv, TypeOK
  <1>1. /\ restores < MaxRestores /\ restores' = restores + 1
        /\ projection' = [sequence |-> projection.sequence + 1,
                          content |-> content]
        /\ UNCHANGED <<storeVars, document, pass, hand, late>>
    BY DEF RestoreCommit
  <1>2. RowsInv' /\ head' = head /\ \A g, s : StateAt(g, s)' = StateAt(g, s)
    BY <1>0, <1>1, SameRows, UnchangedKeepsRows DEF storeVars, rows
  <1>3. /\ projection'.sequence = projection.sequence + 1
        /\ projection'.sequence <= MaxSequence + restores'
        /\ restores' # 0 /\ restores' \in 0 .. MaxRestores
        /\ projection'.sequence \in 0 .. MaxSequence + MaxRestores
    BY <1>0, <1>1
  <1>4. TypeOK'
    <2>1. content \in SUBSET Updates
      BY WorkerAssumption
    <2>2. projection' \in [sequence : 0 .. MaxSequence + MaxRestores,
                           content : SUBSET Updates]
      BY <1>1, <1>3, <2>1
    <2> QED
      BY Zenon, <1>0, <1>1, <1>3, <2>2 DEF TypeOK, StoreTypeOK, storeVars
  <1>5. JobOK' /\ PurgedStays' /\ LateOK'
    BY Zenon, <1>0, <1>1, <1>2 DEF JobOK, PurgedStays, LateOK, storeVars
  <1>6. PendingHasJob'
    <2>1. head # NoHead => head.current \in Nat
      BY <1>0, HeadTyped DEF RowsInv
    <2>2. head # NoHead /\ projection'.sequence < head.current =>
            projection.sequence < head.current
      BY <1>0, <1>3, <2>1
    <2>3. head' = head /\ job' = job
      BY Zenon, <1>1 DEF storeVars
    <2> QED
      BY Zenon, <1>0, <2>2, <2>3 DEF PendingHasJob
  <1>7. HeldOK'
    <2>1. \A v \in Workers : hand[v] # Idle => hand[v].sequence \in Nat
      BY Zenon, <1>0, HandTyped
    <2>2. ASSUME NEW v \in Workers, hand[v] # Idle,
                 hand[v].sequence <= projection.sequence
          PROVE  hand[v].sequence <= projection'.sequence
      BY <1>0, <1>3, <2>1, <2>2
    <2>3. hand' = hand
      BY Zenon, <1>1
    <2> QED
      BY Zenon, <1>0, <1>2, <2>2, <2>3 DEF HeldOK
  <1>8. ShownOK'
    BY <1>3 DEF ShownOK
  <1> QED
    BY <1>2, <1>3, <1>4, <1>5, <1>6, <1>7, <1>8 DEF IInv

\* The document may move, but not back from being due.
LEMMA QuietKeeps ==
  ASSUME IInv, UNCHANGED <<storeVars, projection, restores, hand, late>>,
         document' \in {"live", "trashed", "due", "gone"},
         document \in {"due", "gone"} => document' \in {"due", "gone"},
         pass' \in BOOLEAN
  PROVE  IInv'
  <1>0. /\ TypeOK /\ RowsInv /\ JobOK /\ PendingHasJob /\ PurgedStays
        /\ HeldOK /\ LateOK /\ ShownOK
        /\ projection.sequence <= MaxSequence + restores
    BY DEF IInv
  <1>1. RowsInv' /\ head' = head /\ \A g, s : StateAt(g, s)' = StateAt(g, s)
    BY Zenon, <1>0, SameRows, UnchangedKeepsRows DEF storeVars, rows
  <1>2. TypeOK'
    BY Zenon, <1>0 DEF TypeOK, StoreTypeOK, storeVars
  <1>3. JobOK' /\ PendingHasJob' /\ PurgedStays'
    BY Zenon, <1>0, <1>1 DEF JobOK, PendingHasJob, PurgedStays, storeVars
  <1>4. HeldOK' /\ LateOK' /\ ShownOK'
    BY Zenon, <1>0, <1>1 DEF HeldOK, LateOK, ShownOK
  <1> QED
    BY <1>0, <1>1, <1>2, <1>3, <1>4 DEF IInv

-----------------------------------------------------------------------------
LEMMA InitIInv == Init => IInv
  <1> SUFFICES ASSUME Init PROVE IInv
    OBVIOUS
  <1>1. RowsInv
    BY RowsInitOK DEF Init
  <1>2. TypeOK /\ projection.sequence <= MaxSequence + restores
    <2>1. projection = [sequence |-> 0, content |-> {}] /\ restores = 0
      BY DEF Init
    <2>2. /\ projection \in [sequence : 0 .. MaxSequence + MaxRestores,
                             content : SUBSET Updates]
          /\ projection.sequence <= MaxSequence + restores
          /\ restores \in 0 .. MaxRestores
      BY <2>1, WorkerAssumption, StoreAssumption
    <2>3. hand \in [Workers -> Held \cup {Idle}]
      BY DEF Init
    <2> QED
      BY Zenon, <2>2, <2>3 DEF Init, StoreInit, TypeOK, StoreTypeOK
  <1>3. JobOK /\ PendingHasJob /\ PurgedStays /\ HeldOK /\ LateOK
    BY Zenon DEF Init, StoreInit, JobOK, PendingHasJob, PurgedStays, HeldOK, LateOK
  <1>4. ShownOK
    BY Zenon DEF Init, StoreInit, ShownOK, StateAt, Merged
  <1> QED
    BY <1>1, <1>2, <1>3, <1>4 DEF IInv

LEMMA NextIInv == IInv /\ [Next]_vars => IInv'
  <1> SUFFICES ASSUME IInv, [Next]_vars PROVE IInv'
    OBVIOUS
  <1>0. TypeOK
    BY DEF IInv
  <1>1. CASE Edit
    BY <1>1, EditKeeps
  <1>2. ASSUME NEW w \in Workers, WorkerStep(w) PROVE IInv'
    <2>1. CASE ClaimProjectionJob(w)
      BY <2>1, ClaimKeeps
    <2>2. CASE Project(w)
      BY <2>2, ProjectKeeps
    <2>3. CASE ProjectRefused(w)
      BY <2>3, RefusedKeeps
    <2>4. CASE CompleteProjection(w)
      BY Zenon, <2>4, LaidDownKeeps DEF CompleteProjection, rows
    <2>5. CASE RetryProjection(w)
      BY Zenon, <2>5, LaidDownKeeps DEF RetryProjection, Targeted, rows
    <2>6. CASE WorkerStops(w)
      BY Zenon, <2>6, LaidDownKeeps DEF WorkerStops, storeVars, rows
    <2> QED
      BY <1>2, <2>1, <2>2, <2>3, <2>4, <2>5, <2>6 DEF WorkerStep
  <1>3. CASE LeaseExpires
    BY <1>3, LeaseKeeps
  <1>4. ASSUME NEW c \in late, ProjectLate(c) PROVE IInv'
    BY <1>4, LateKeeps
  <1>5. ASSUME NEW content \in Commits, RestoreCommit(content) PROVE IInv'
    BY <1>5, RestoreKeeps
  <1>6. CASE Delete
    <2>1. /\ document' \in {"live", "trashed", "due", "gone"}
          /\ document \notin {"due", "gone"}
      BY <1>6 DEF Delete, Moves
    <2> QED
      BY Zenon, <1>0, <1>6, <2>1, QuietKeeps DEF Delete, TypeOK
  <1>7. CASE Purge
    <2>1. CASE PurgeCollaboration
      BY <2>1, PurgeCollaborationKeeps
    <2>2. CASE PurgeFails
      BY Zenon, <1>0, <2>2, QuietKeeps DEF PurgeFails, TypeOK
    <2>3. CASE PurgeDocument
      BY Zenon, <1>0, <2>3, QuietKeeps DEF PurgeDocument, TypeOK
    <2> QED
      BY <1>7, <2>1, <2>2, <2>3 DEF Purge
  <1>8. CASE UNCHANGED vars
    BY <1>0, <1>8, QuietKeeps DEF vars, TypeOK
  <1> QED
    BY <1>1, <1>2, <1>3, <1>4, <1>5, <1>6, <1>7, <1>8 DEF Next

LEMMA AlwaysIInv == Spec => []IInv
  BY InitIInv, NextIInv, PTL DEF Spec

-----------------------------------------------------------------------------
(***************************************************************************)
(* The theorems.                                                           *)
(***************************************************************************)
\* The rows of both services keep their types, and the sequence of the
\* projection runs ahead of the bound of Collaboration by no more than the
\* commits restored in Knowledge.
THEOREM ProjectionTypes == Spec => []TypeOK
  <1>1. IInv => TypeOK
    BY DEF IInv
  <1> QED
    BY <1>1, AlwaysIInv, PTL

\* Whatever is compacted, purged or appended, the snapshot and the log that a
\* load under the lock merges give exactly the updates committed.
THEOREM Recoverable == Spec => []RecoverableState
  <1>1. IInv => RecoverableState
    BY RowsInvRecovers DEF IInv
  <1> QED
    BY <1>1, AlwaysIInv, PTL

\* The rows under compaction, purging and the workers implement the log.
THEOREM StoreImplementsLog == Spec => ImplementsLog
  <1>1. Init => Log!Init
    BY InitImplementsLog DEF Init
  <1>2. IInv /\ IInv' /\ [Next]_vars => [Log!Next]_Log!log
    <2> SUFFICES ASSUME IInv, IInv', [Next]_vars
                 PROVE  [Log!Next]_Log!log
      OBVIOUS
    <2>1. RowsInv /\ RowsInv'
      BY DEF IInv
    <2>2. RowsStep
      BY NextIsRowsStep
    <2> QED
      BY <2>1, <2>2, StepImplementsLog
  <1> QED
    BY <1>1, <1>2, AlwaysIInv, PTL DEF Spec, ImplementsLog, Log!Spec

\* A commit Knowledge has not got has a job that aims at it, whichever
\* workers claimed, completed or lost the jobs before.
THEOREM PendingKeepsItsJob == Spec => []PendingHasJob
  <1>1. IInv => PendingHasJob
    BY DEF IInv
  <1> QED
    BY <1>1, AlwaysIInv, PTL

\* With no job left, Knowledge shows the state of the head.
THEOREM DrainedShowsHead == Spec => []DrainedIsCurrent
  <1>1. IInv => DrainedIsCurrent
    <2> SUFFICES ASSUME IInv, head # NoHead, job = NoJob, restores = 0
                 PROVE  /\ projection.sequence = head.current
                        /\ projection.content = Stored
      BY DEF DrainedIsCurrent
    <2>1. head.generation = 1 /\ head.current \in Nat
      BY HeadTyped DEF IInv, RowsInv, PurgedStays
    <2>2. projection.sequence = head.current
      BY <2>1, ProjectionTyped DEF IInv, PendingHasJob, ShownOK
    <2>3. projection.content = StateAt(1, head.current)
      BY <2>2 DEF IInv, ShownOK
    <2> QED
      BY <2>1, <2>2, <2>3, StoredIsCommitted DEF IInv
  <1> QED
    BY <1>1, AlwaysIInv, PTL

\* What Knowledge shows changes only together with a greater sequence.
THEOREM ProjectionOnlyAdvances == Spec => ProjectionAdvances
  <1>1. IInv /\ [Next]_vars =>
          [projection' # projection =>
             projection'.sequence > projection.sequence]_vars
    <2> SUFFICES ASSUME IInv, [Next]_vars, projection' # projection
                 PROVE  projection'.sequence > projection.sequence
      BY DEF vars
    <2>1. projection.sequence \in Nat
      BY ProjectionTyped DEF IInv
    <2>2. ASSUME NEW w \in Workers, WorkerStep(w)
          PROVE  projection'.sequence > projection.sequence
      <3>1. Project(w)
        BY <2>2
        DEF WorkerStep, ClaimProjectionJob, ProjectRefused, CompleteProjection,
            RetryProjection, WorkerStops, knowledgeVars
      <3> QED
        BY <3>1 DEF Project, UpsertProjection
    <2>3. ASSUME NEW c \in late, ProjectLate(c)
          PROVE  projection'.sequence > projection.sequence
      BY <2>3 DEF ProjectLate, UpsertProjection
    <2>4. ASSUME NEW content \in Commits, RestoreCommit(content)
          PROVE  projection'.sequence > projection.sequence
      BY <2>1, <2>4 DEF RestoreCommit
    <2> QED
      BY <2>2, <2>3, <2>4
      DEF Next, Edit, LeaseExpires, Delete, Purge,
          PurgeCollaboration, PurgeFails, PurgeDocument, knowledgeVars, vars
  <1> QED
    BY <1>1, AlwaysIInv, PTL DEF Spec, ProjectionAdvances
=============================================================================
