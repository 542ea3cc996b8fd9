------------------------ MODULE CollaborationStore ------------------------
(***************************************************************************)
(* The rows Collaboration keeps of one document in PostgreSQL, and the     *)
(* transactions of storage/postgres.rs on them: the head, the log of       *)
(* updates, the snapshots, the projection job and the outbox.  Every       *)
(* transaction takes the row lock of the head first, so that each is one   *)
(* step.  Documents share no row and one is enough.                        *)
(*                                                                         *)
(* A Yrs document is the set of the updates merged into it: merging is     *)
(* commutative, associative and idempotent, which is what the service      *)
(* uses of it.  The empty set is the initial state.                        *)
(***************************************************************************)
EXTENDS Integers

CONSTANTS
  Updates,       \* the Yjs updates clients send
  MaxSequence,   \* bound on the sequence of a document
  NoHead,        \* no row for the document
  NoJob          \* no projection job

ASSUME StoreAssumption ==
  /\ MaxSequence \in Nat
  /\ NoHead \notin [generation : Nat, current : Nat, snapshot : Nat,
                    purged : BOOLEAN]
  /\ NoJob \notin [generation : Nat, sequence : Nat, leased : BOOLEAN]

VARIABLES
  head,        \* collaboration.documents
  updates,     \* collaboration.updates
  snapshots,   \* collaboration.snapshots
  job,         \* collaboration.projection_jobs
  outbox,      \* collaboration.outbox, by event key
  history      \* every update ever committed; no code reads it

storeVars == <<head, updates, snapshots, job, outbox, history>>

Generations == 1 .. 2
Sequences == 0 .. MaxSequence

HeadRow == [generation : Generations, current : Sequences,
            snapshot : Sequences, purged : BOOLEAN]
Row == [generation : Generations, sequence : Sequences, update : Updates]
Snapshot == [generation : Generations, sequence : Sequences,
             state : SUBSET Updates]
Job == [generation : Generations, sequence : Sequences, leased : BOOLEAN]
Event == [kind : {"updated", "purged"}, generation : Generations,
          sequence : Sequences]

StoreTypeOK ==
  /\ head \in HeadRow \cup {NoHead}
  /\ updates \in SUBSET Row
  /\ snapshots \in SUBSET Snapshot
  /\ job \in Job \cup {NoJob}
  /\ outbox \in SUBSET Event
  /\ history \in SUBSET Row

StoreInit ==
  /\ head = NoHead
  /\ updates = {}
  /\ snapshots = {}
  /\ job = NoJob
  /\ outbox = {}
  /\ history = {}

-----------------------------------------------------------------------------
(***************************************************************************)
(* load_state: the newest snapshot of the generation that is not past the  *)
(* sequence, and the updates after it.                                     *)
(***************************************************************************)
Candidates(g, s) ==
  {p \in snapshots : p.generation = g /\ p.sequence <= s}

NewestSnapshot(g, s) ==
  CHOOSE p \in Candidates(g, s) :
    \A q \in Candidates(g, s) : q.sequence <= p.sequence

RowsBetween(g, low, high) ==
  {x \in updates : x.generation = g /\ low < x.sequence /\ x.sequence <= high}

Merged(rows) == {x.update : x \in rows}

LoadState(g, s) ==
  LET p == NewestSnapshot(g, s)
  IN  p.state \cup Merged(RowsBetween(g, p.sequence, s))

Stored == LoadState(head.generation, head.current)

\* The state a sequence of a generation stands for.
StateAt(g, s) == Merged({x \in history : x.generation = g /\ x.sequence <= s})

-----------------------------------------------------------------------------
\* Mutant: the job aims at the sequence after the one committed.
EnqueuedPastHead(g, s) ==
  [generation |-> g, sequence |-> s + 1, leased |-> FALSE]

\* enqueue_projection: one row for each document, its target replaced.
EnqueuedProjection(g, s) ==
  [generation |-> g, sequence |-> s, leased |-> FALSE]

\* run_actor initializes the document before anything else reads it, and
\* append_update would do it again; the row is inserted once.
InitializeDocument ==
  /\ head = NoHead
  /\ head' = [generation |-> 1, current |-> 0, snapshot |-> 0,
              purged |-> FALSE]
  /\ snapshots' = snapshots \cup
       {[generation |-> 1, sequence |-> 0, state |-> {}]}
  /\ UNCHANGED <<updates, job, outbox, history>>

\* append_update: an update that adds nothing to the stored state commits
\* nothing; the marker of a purge is not looked at.
AppendUpdate(u) ==
  LET s == head.current + 1
      x == [generation |-> head.generation, sequence |-> s, update |-> u]
  IN
  /\ head # NoHead
  /\ \/ /\ u \in Stored
        /\ UNCHANGED storeVars
     \/ /\ u \notin Stored
        /\ s \in Sequences
        /\ head' = [head EXCEPT !.current = s]
        /\ updates' = updates \cup {x}
        /\ job' = EnqueuedProjection(head.generation, s)
        /\ outbox' = outbox \cup
             {[kind |-> "updated", generation |-> head.generation,
               sequence |-> s]}
        /\ history' = history \cup {x}
        /\ UNCHANGED snapshots

\* Mutant: the new snapshot holds the rows it replaces and not the snapshot
\* they were based on.
CompactNextWithoutBase ==
  LET folded == RowsBetween(head.generation, head.snapshot, head.current)
  IN
  /\ head # NoHead
  /\ folded # {}
  /\ snapshots' =
       {p \in snapshots : p.sequence # head.current} \cup
       {[generation |-> head.generation, sequence |-> head.current,
         state |-> Merged(folded)]}
  /\ head' = [head EXCEPT !.snapshot = head.current]
  /\ updates' = updates \ folded
  /\ UNCHANGED <<job, outbox, history>>

\* compact_next, past the threshold that it checks again under the lock.
\* The snapshots it does not replace stay.
CompactNext ==
  /\ head # NoHead
  /\ RowsBetween(head.generation, head.snapshot, head.current) # {}
  /\ snapshots' =
       {p \in snapshots : p.sequence # head.current} \cup
       {[generation |-> head.generation, sequence |-> head.current,
         state |-> Stored]}
  /\ head' = [head EXCEPT !.snapshot = head.current]
  /\ updates' = updates \ RowsBetween(head.generation, -1, head.current)
  /\ UNCHANGED <<job, outbox, history>>

\* Mutant: the purge empties the document within its generation.
PurgeRowsInPlace ==
  /\ head # NoHead
  /\ \/ /\ head.purged
        /\ UNCHANGED storeVars
     \/ /\ ~head.purged
        /\ head' = [head EXCEPT !.snapshot = head.current, !.purged = TRUE]
        /\ updates' = {}
        /\ snapshots' = {[generation |-> head.generation,
                          sequence |-> head.current, state |-> {}]}
        /\ job' = EnqueuedProjection(head.generation, head.current)
        /\ UNCHANGED <<outbox, history>>

\* Mutant: a second purge is an error.
PurgeRowsOnce ==
  LET g == head.generation + 1
  IN
  /\ head # NoHead
  /\ ~head.purged
  /\ head' = [generation |-> g, current |-> head.current,
              snapshot |-> head.current, purged |-> TRUE]
  /\ updates' = {}
  /\ snapshots' = {[generation |-> g, sequence |-> head.current, state |-> {}]}
  /\ job' = EnqueuedProjection(g, head.current)
  /\ UNCHANGED <<outbox, history>>

\* purge_document: a second purge finds the marker and changes nothing.
PurgeRows ==
  LET g == head.generation + 1
  IN
  /\ head # NoHead
  /\ \/ /\ head.purged
        /\ UNCHANGED storeVars
     \/ /\ ~head.purged
        /\ head' = [generation |-> g, current |-> head.current,
                    snapshot |-> head.current, purged |-> TRUE]
        /\ updates' = {}
        /\ snapshots' = {[generation |-> g, sequence |-> head.current,
                          state |-> {}]}
        /\ job' = EnqueuedProjection(g, head.current)
        /\ outbox' = outbox \cup
             {[kind |-> "purged", generation |-> g,
               sequence |-> head.current]}
        /\ UNCHANGED history

-----------------------------------------------------------------------------
\* Compaction and purging never change what the head stands for: the state
\* loaded under the lock is exactly the updates committed in the generation
\* ("snapshots and compaction do not change what can be recovered",
\* docs/framework-design.md).
RecoverableState ==
  head # NoHead =>
    /\ Candidates(head.generation, head.current) # {}
    /\ Stored = StateAt(head.generation, head.current)

(***************************************************************************)
(* The rows implement the log: a load under the lock gives its content.    *)
(***************************************************************************)
LogGeneration == IF head = NoHead THEN 0 ELSE head.generation
LogSequence == IF head = NoHead THEN 0 ELSE head.current
LogContent == IF head = NoHead THEN {} ELSE Stored

Log == INSTANCE DocumentLog
         WITH generation <- LogGeneration, sequence <- LogSequence,
              content <- LogContent

\* Every step on the rows is a step of the log or is not seen in it.  An
\* append adds its update and nothing else at the next sequence, only the
\* purge takes anything away, and a compaction between any two of them
\* changes nothing a load can tell.
ImplementsLog == Log!Spec
=============================================================================
