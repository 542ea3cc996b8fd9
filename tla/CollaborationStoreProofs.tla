---------------------- MODULE CollaborationStoreProofs ----------------------
(***************************************************************************)
(* Proofs about the rows of a document: what a load under the lock gives   *)
(* is what was committed, and every transaction is a step of the log, for  *)
(* any set of updates and any length of the log.                           *)
(***************************************************************************)
EXTENDS CollaborationStore, TLAPS

(***************************************************************************)
(* The transactions see and change only these; the projection workers and  *)
(* the outbox change the rest.                                             *)
(***************************************************************************)
rows == <<head, updates, snapshots, history>>

RowsTypeOK ==
  /\ head \in HeadRow \cup {NoHead}
  /\ updates \in SUBSET Row
  /\ snapshots \in SUBSET Snapshot
  /\ history \in SUBSET Row

(***************************************************************************)
(* What makes RecoverableState inductive.  A snapshot of the generation    *)
(* holds what its sequence stands for, one of them is at the sequence the  *)
(* head names, and the log keeps exactly the commits past it.              *)
(***************************************************************************)
HeadOK ==
  /\ head.generation = IF head.purged THEN 2 ELSE 1
  /\ head.snapshot <= head.current
  /\ \A x \in history :
       x.generation <= head.generation /\ x.sequence <= head.current

SnapshotsOK ==
  /\ \A p \in snapshots :
       /\ p.generation = head.generation
       /\ p.sequence <= head.snapshot
       /\ p.state = StateAt(p.generation, p.sequence)
  /\ \E p \in snapshots : p.sequence = head.snapshot

UpdatesOK ==
  updates = {x \in history : x.generation = head.generation
                              /\ x.sequence > head.snapshot}

RowsInv ==
  /\ RowsTypeOK
  /\ head = NoHead => updates = {} /\ snapshots = {} /\ history = {}
  /\ head # NoHead => HeadOK /\ SnapshotsOK /\ UpdatesOK

-----------------------------------------------------------------------------
LEMMA HeadTyped ==
  ASSUME RowsTypeOK, head # NoHead
  PROVE  /\ head.generation \in 1 .. 2
         /\ head.current \in Nat /\ head.current <= MaxSequence
         /\ head.snapshot \in Nat
         /\ head \in HeadRow
  BY StoreAssumption DEF RowsTypeOK, HeadRow, Generations, Sequences

LEMMA NoHeadIsNone == \A h \in HeadRow : h # NoHead
  BY StoreAssumption DEF HeadRow, Generations, Sequences

\* load_state finds the snapshot the head names.
LEMMA NewestIsNamed ==
  ASSUME RowsInv, head # NoHead
  PROVE  LET p == NewestSnapshot(head.generation, head.current)
         IN  /\ p \in snapshots
             /\ p.sequence = head.snapshot
             /\ p.state = StateAt(head.generation, head.snapshot)
  <1> DEFINE C == Candidates(head.generation, head.current)
             p == NewestSnapshot(head.generation, head.current)
  <1>1. PICK q \in snapshots : q.sequence = head.snapshot
    BY DEF RowsInv, SnapshotsOK
  <1>2. \A x \in C : x \in snapshots /\ x.sequence <= head.snapshot
                      /\ x.sequence \in Nat
    BY StoreAssumption
    DEF RowsInv, SnapshotsOK, Candidates, RowsTypeOK, Snapshot, Sequences
  <1>3. q \in C
    BY <1>1 DEF RowsInv, SnapshotsOK, HeadOK, Candidates
  <1>4. \E x \in C : \A y \in C : y.sequence <= x.sequence
    BY <1>1, <1>2, <1>3
  <1>5. p \in C /\ \A y \in C : y.sequence <= p.sequence
    BY <1>4 DEF NewestSnapshot
  <1>6. p.sequence = head.snapshot
    BY <1>1, <1>2, <1>3, <1>5, HeadTyped DEF RowsInv
  <1>7. p \in snapshots /\ p.generation = head.generation
    BY <1>2, <1>5 DEF RowsInv, SnapshotsOK
  <1>8. p.state = StateAt(p.generation, p.sequence)
    BY <1>7 DEF RowsInv, SnapshotsOK
  <1> QED
    BY <1>6, <1>7, <1>8

\* The rows a load merges are the log.
LEMMA LogIsLoaded ==
  ASSUME RowsInv, head # NoHead
  PROVE  RowsBetween(head.generation, head.snapshot, head.current) = updates
  <1>1. \A x \in updates : /\ x.generation = head.generation
                           /\ head.snapshot < x.sequence
                           /\ x.sequence <= head.current
    <2>1. \A x \in updates : /\ x \in history
                             /\ x.generation = head.generation
                             /\ x.sequence > head.snapshot
      BY Zenon DEF RowsInv, UpdatesOK
    <2>2. \A x \in history : x.sequence \in Nat /\ x.sequence <= head.current
      BY StoreAssumption DEF RowsInv, RowsTypeOK, Row, Sequences, HeadOK
    <2> QED
      BY <2>1, <2>2, HeadTyped DEF RowsInv
  <1> QED
    BY <1>1 DEF RowsBetween

(***************************************************************************)
(* A load under the lock gives what was committed in the generation.       *)
(***************************************************************************)
LEMMA StoredIsCommitted ==
  ASSUME RowsInv, head # NoHead
  PROVE  Stored = StateAt(head.generation, head.current)
  <1> DEFINE g == head.generation
  <1>1. Stored = StateAt(g, head.snapshot) \cup Merged(updates)
    BY NewestIsNamed, LogIsLoaded, Zenon DEF Stored, LoadState
  <1>2. \A x \in history : /\ x.sequence \in Nat /\ x.sequence <= head.current
                           /\ head.snapshot \in Nat
                           /\ head.snapshot <= head.current
    BY StoreAssumption, HeadTyped
    DEF RowsInv, RowsTypeOK, Row, Sequences, HeadOK
  <1>3. \A x \in history : x.sequence <= head.snapshot \/ x.sequence > head.snapshot
    BY <1>2
  <1>4. \A u : u \in Merged(updates) <=>
          \E x \in history : /\ x.generation = g /\ x.sequence > head.snapshot
                             /\ x.update = u
    BY Zenon DEF RowsInv, UpdatesOK, Merged
  <1>5. ASSUME NEW u
        PROVE  u \in Stored <=> u \in StateAt(g, head.current)
    <2>1. u \in StateAt(g, head.snapshot) <=>
            \E x \in history : x.generation = g /\ x.sequence <= head.snapshot
                               /\ x.update = u
      BY Zenon DEF StateAt, Merged
    <2>2. u \in StateAt(g, head.current) <=>
            \E x \in history : x.generation = g /\ x.sequence <= head.current
                               /\ x.update = u
      BY Zenon DEF StateAt, Merged
    <2> QED
      BY <1>1, <1>2, <1>3, <1>4, <2>1, <2>2, Zenon
  <1> QED
    BY <1>5

\* The invariant gives the property: see RecoverableState.
LEMMA RowsInvRecovers == RowsInv => RecoverableState
  <1> SUFFICES ASSUME RowsInv, head # NoHead
               PROVE  /\ Candidates(head.generation, head.current) # {}
                      /\ Stored = StateAt(head.generation, head.current)
    BY DEF RecoverableState
  <1>1. PICK q \in snapshots : q.sequence = head.snapshot
    BY DEF RowsInv, SnapshotsOK
  <1>2. q \in Candidates(head.generation, head.current)
    BY <1>1 DEF RowsInv, SnapshotsOK, HeadOK, Candidates
  <1> QED
    BY <1>2, StoredIsCommitted

-----------------------------------------------------------------------------
(***************************************************************************)
(* Every transaction keeps the invariant.                                  *)
(***************************************************************************)
LEMMA RowsInitOK == StoreInit => RowsInv
  BY DEF StoreInit, RowsInv, RowsTypeOK

LEMMA UnchangedKeepsRows ==
  ASSUME RowsInv, UNCHANGED rows
  PROVE  RowsInv'
  BY DEF RowsInv, rows, RowsTypeOK, HeadOK, SnapshotsOK, UpdatesOK, StateAt

LEMMA InitializeKeepsRows ==
  ASSUME RowsInv, InitializeDocument
  PROVE  RowsInv'
  <1> DEFINE p0 == [generation |-> 1, sequence |-> 0, state |-> {}]
  <1>1. /\ head' = [generation |-> 1, current |-> 0, snapshot |-> 0,
                    purged |-> FALSE]
        /\ snapshots' = {p0} /\ updates' = {} /\ history' = {}
    BY DEF InitializeDocument, RowsInv
  <1>2. head' \in HeadRow /\ p0 \in Snapshot
    BY <1>1, StoreAssumption DEF HeadRow, Snapshot, Generations, Sequences
  <1>3. RowsTypeOK'
    BY <1>1, <1>2 DEF RowsTypeOK
  <1>4. StateAt(1, 0)' = {}
    BY <1>1 DEF StateAt, Merged
  <1>5. head' # NoHead
    BY <1>2, NoHeadIsNone
  <1>6. HeadOK'
    BY <1>1 DEF HeadOK
  <1>7. SnapshotsOK'
    BY <1>1, <1>4 DEF SnapshotsOK
  <1>8. UpdatesOK'
    BY <1>1 DEF UpdatesOK
  <1> QED
    BY <1>3, <1>5, <1>6, <1>7, <1>8 DEF RowsInv

LEMMA AppendKeepsRows ==
  ASSUME RowsInv, NEW u \in Updates, AppendUpdate(u)
  PROVE  RowsInv'
  <1> DEFINE s == head.current + 1
             x == [generation |-> head.generation, sequence |-> s, update |-> u]
  <1>1. CASE UNCHANGED storeVars
    BY <1>1, UnchangedKeepsRows DEF storeVars, rows
  <1>2. CASE ~UNCHANGED storeVars
    <2>1. /\ head # NoHead /\ s \in Sequences
          /\ head' = [head EXCEPT !.current = s]
          /\ updates' = updates \cup {x}
          /\ history' = history \cup {x}
          /\ snapshots' = snapshots
      BY <1>2 DEF AppendUpdate
    <2>2. /\ head \in HeadRow /\ head.generation \in 1 .. 2
          /\ head.current \in Nat /\ head.snapshot \in Nat
      BY <2>1, HeadTyped DEF RowsInv
    <2>3. /\ head' \in HeadRow /\ head'.generation = head.generation
          /\ head'.current = s /\ head'.snapshot = head.snapshot
          /\ head'.purged = head.purged
      BY <2>1, <2>2 DEF HeadRow
    <2>4. x \in Row
      BY <2>1, <2>2 DEF Row, Generations
    <2>5. RowsTypeOK'
      BY <2>1, <2>3, <2>4 DEF RowsInv, RowsTypeOK
    <2>6. head' # NoHead
      BY <2>3, NoHeadIsNone
    <2>7. HeadOK /\ SnapshotsOK /\ UpdatesOK
      BY <2>1 DEF RowsInv
    <2>8. \A y \in history : y.sequence \in Nat /\ y.sequence <= head.current
      BY <2>7, StoreAssumption DEF RowsInv, RowsTypeOK, Row, Sequences, HeadOK
    <2>9. HeadOK'
      BY <2>1, <2>2, <2>3, <2>7, <2>8 DEF HeadOK
    <2>10. \A p \in snapshots : ~(s <= p.sequence)
      BY <2>2, <2>7, StoreAssumption
      DEF RowsInv, RowsTypeOK, Snapshot, Sequences, SnapshotsOK, HeadOK
    <2>11. \A p \in snapshots :
             StateAt(p.generation, p.sequence)' = StateAt(p.generation, p.sequence)
      <3> SUFFICES ASSUME NEW p \in snapshots
                   PROVE  StateAt(p.generation, p.sequence)'
                            = StateAt(p.generation, p.sequence)
        OBVIOUS
      <3>1. ~(x.sequence <= p.sequence)
        BY <2>10
      <3>2. {y \in history' : y.generation = p.generation /\ y.sequence <= p.sequence}
              = {y \in history : y.generation = p.generation /\ y.sequence <= p.sequence}
        BY <2>1, <3>1
      <3> QED
        BY <3>2, Zenon DEF StateAt
    <2>12. SnapshotsOK'
      BY <2>1, <2>3, <2>7, <2>11, Zenon DEF SnapshotsOK
    <2>13. x.generation = head.generation /\ x.sequence > head.snapshot
      BY <2>2, <2>7 DEF HeadOK
    <2>14. UpdatesOK'
      BY <2>1, <2>3, <2>7, <2>13, Zenon DEF UpdatesOK
    <2> QED
      BY <2>5, <2>6, <2>9, <2>12, <2>14 DEF RowsInv
  <1> QED
    BY <1>1, <1>2

LEMMA CompactKeepsRows ==
  ASSUME RowsInv, CompactNext
  PROVE  RowsInv'
  <1> DEFINE p0 == [generation |-> head.generation, sequence |-> head.current,
                    state |-> Stored]
             gone == RowsBetween(head.generation, -1, head.current)
  <1>1. /\ head # NoHead
        /\ head' = [head EXCEPT !.snapshot = head.current]
        /\ snapshots' = {p \in snapshots : p.sequence # head.current} \cup {p0}
        /\ updates' = updates \ gone
        /\ history' = history
    BY DEF CompactNext
  <1>2. /\ head \in HeadRow /\ head.generation \in 1 .. 2
        /\ head.current \in Nat /\ head.snapshot \in Nat
    BY <1>1, HeadTyped DEF RowsInv
  <1>3. /\ head' \in HeadRow /\ head'.generation = head.generation
        /\ head'.current = head.current /\ head'.snapshot = head.current
        /\ head'.purged = head.purged
    BY <1>1, <1>2 DEF HeadRow
  <1>4. head' # NoHead
    BY <1>3, NoHeadIsNone
  <1>5. HeadOK /\ SnapshotsOK /\ UpdatesOK
    BY <1>1 DEF RowsInv
  <1>6. Stored = StateAt(head.generation, head.current)
    BY <1>1, StoredIsCommitted
  <1>7. Stored \in SUBSET Updates
    BY <1>6, Zenon DEF StateAt, Merged, RowsInv, RowsTypeOK, Row
  <1>8. p0 \in Snapshot
    BY <1>2, <1>7 DEF HeadRow, Snapshot
  <1>9. RowsTypeOK'
    BY <1>1, <1>3, <1>8 DEF RowsInv, RowsTypeOK
  <1>10. \A y \in history : y.sequence \in Nat /\ y.sequence <= head.current
    BY <1>5, StoreAssumption DEF RowsInv, RowsTypeOK, Row, Sequences, HeadOK
  <1>11. HeadOK'
    BY <1>1, <1>2, <1>3, <1>5 DEF HeadOK
  <1>12. \A g, s : StateAt(g, s)' = StateAt(g, s)
    BY <1>1, Zenon DEF StateAt
  <1>13. \A p \in snapshots : p.sequence <= head.current
    BY <1>2, <1>5, StoreAssumption
    DEF RowsInv, RowsTypeOK, Snapshot, Sequences, SnapshotsOK, HeadOK
  <1>14. SnapshotsOK'
    <2>1. \A p \in snapshots' : p \in snapshots \/ p = p0
      BY <1>1
    <2>2. /\ p0 \in snapshots' /\ p0.generation = head.generation
          /\ p0.sequence = head.current /\ p0.state = Stored
      BY <1>1
    <2>3. \A p \in snapshots' :
            /\ p.generation = head.generation /\ p.sequence <= head.current
            /\ p.state = StateAt(p.generation, p.sequence)
      BY <1>2, <1>5, <1>6, <1>13, <2>1, <2>2 DEF SnapshotsOK
    <2> QED
      BY <1>3, <1>12, <2>2, <2>3 DEF SnapshotsOK
  <1>15. updates' = {}
    <2>1. \A x \in updates : /\ x \in history /\ x.generation = head.generation
      BY <1>5, Zenon DEF UpdatesOK
    <2>2. \A x \in updates : x \in gone
      BY <1>10, <2>1 DEF RowsBetween
    <2> QED
      BY <1>1, <2>2
  <1>16. \A x \in history : ~(x.sequence > head.current)
    BY <1>2, <1>10
  <1>17. UpdatesOK'
    BY <1>1, <1>3, <1>15, <1>16 DEF UpdatesOK
  <1> QED
    BY <1>4, <1>9, <1>11, <1>14, <1>17 DEF RowsInv

LEMMA PurgeKeepsRows ==
  ASSUME RowsInv, PurgeRows
  PROVE  RowsInv'
  <1> DEFINE g == head.generation + 1
             p0 == [generation |-> g, sequence |-> head.current, state |-> {}]
  <1>1. CASE UNCHANGED storeVars
    BY <1>1, UnchangedKeepsRows DEF storeVars, rows
  <1>2. CASE ~UNCHANGED storeVars
    <2>1. /\ head # NoHead /\ ~head.purged
          /\ head' = [generation |-> g, current |-> head.current,
                      snapshot |-> head.current, purged |-> TRUE]
          /\ snapshots' = {p0} /\ updates' = {} /\ history' = history
      BY <1>2 DEF PurgeRows
    <2>2. /\ head \in HeadRow /\ head.generation = 1
          /\ head.current \in Nat /\ head.snapshot \in Nat
      BY <2>1, HeadTyped DEF RowsInv, HeadOK
    <2>3. /\ head' \in HeadRow /\ head'.generation = 2
          /\ head'.current = head.current /\ head'.snapshot = head.current
          /\ head'.purged = TRUE
      BY <2>1, <2>2 DEF HeadRow, Generations
    <2>4. head' # NoHead
      BY <2>3, NoHeadIsNone
    <2>5. p0 \in Snapshot
      BY <2>2 DEF HeadRow, Snapshot, Generations
    <2>6. RowsTypeOK'
      BY <2>1, <2>3, <2>5 DEF RowsInv, RowsTypeOK
    <2>7. \A x \in history : /\ x.generation \in 1 .. 2 /\ x.generation <= 1
                             /\ x.sequence \in Nat /\ x.sequence <= head.current
      BY <2>1, <2>2, StoreAssumption
      DEF RowsInv, RowsTypeOK, Row, Sequences, Generations, HeadOK
    <2>8. \A x \in history : x.generation # 2
      BY <2>7
    <2>9. HeadOK'
      BY <2>1, <2>2, <2>3, <2>7 DEF HeadOK
    <2>10. \A n : StateAt(2, n)' = {}
      BY <2>1, <2>8 DEF StateAt, Merged
    <2>11. p0.generation = 2 /\ p0.sequence = head.current /\ p0.state = {}
      BY <2>2
    <2>12. SnapshotsOK'
      BY <2>1, <2>2, <2>3, <2>10, <2>11 DEF SnapshotsOK
    <2>13. UpdatesOK'
      BY <2>1, <2>3, <2>8 DEF UpdatesOK
    <2> QED
      BY <2>4, <2>6, <2>9, <2>12, <2>13 DEF RowsInv
  <1> QED
    BY <1>1, <1>2

(***************************************************************************)
(* A step of whoever uses the rows: one of the transactions, or none.      *)
(***************************************************************************)
RowsStep ==
  \/ InitializeDocument
  \/ \E u \in Updates : AppendUpdate(u)
  \/ CompactNext
  \/ PurgeRows
  \/ UNCHANGED rows

LEMMA StepKeepsRows == RowsInv /\ RowsStep => RowsInv'
  BY InitializeKeepsRows, AppendKeepsRows, CompactKeepsRows, PurgeKeepsRows,
     UnchangedKeepsRows
  DEF RowsStep

\* The head moves forward only, and what a sequence already stands for in
\* the first generation is never changed by a later commit or by a purge.
LEMMA StepMovesOn ==
  ASSUME RowsInv, RowsStep, head # NoHead
  PROVE  /\ head' # NoHead
         /\ head'.current \in Nat /\ head'.current >= head.current
         /\ head'.generation \in 1 .. 2 /\ head'.generation >= head.generation
         /\ \A s \in Nat :
              s <= head.current => StateAt(1, s)' = StateAt(1, s)
  <1>0. head \in HeadRow /\ head.generation \in 1 .. 2 /\ head.current \in Nat
    BY HeadTyped DEF RowsInv
  <1>1. CASE head' = head /\ history' = history
    BY <1>0, <1>1 DEF StateAt
  <1>2. ASSUME NEW u \in Updates, AppendUpdate(u), ~(UNCHANGED storeVars)
        PROVE  /\ head' # NoHead
               /\ head'.current \in Nat /\ head'.current >= head.current
               /\ head'.generation \in 1 .. 2
               /\ head'.generation >= head.generation
               /\ \A s \in Nat :
                    s <= head.current => StateAt(1, s)' = StateAt(1, s)
    <2> DEFINE x == [generation |-> head.generation,
                     sequence |-> head.current + 1, update |-> u]
    <2>1. /\ head' = [head EXCEPT !.current = head.current + 1]
          /\ head.current + 1 \in Sequences
          /\ history' = history \cup {x}
      BY <1>2 DEF AppendUpdate
    <2>2. /\ head' \in HeadRow /\ head'.current = head.current + 1
          /\ head'.generation = head.generation
      BY <1>0, <2>1 DEF HeadRow
    <2>3. head' # NoHead
      BY <2>2, NoHeadIsNone
    <2>4. ASSUME NEW s \in Nat, s <= head.current
          PROVE  StateAt(1, s)' = StateAt(1, s)
      <3>1. ~(x.sequence <= s)
        BY <1>0, <2>4
      <3>2. {y \in history' : y.generation = 1 /\ y.sequence <= s}
              = {y \in history : y.generation = 1 /\ y.sequence <= s}
        BY <2>1, <3>1
      <3> QED
        BY <3>2, Zenon DEF StateAt
    <2> QED
      BY <1>0, <2>2, <2>3, <2>4
  <1>3. CASE CompactNext
    <2>1. head' = [head EXCEPT !.snapshot = head.current] /\ history' = history
      BY <1>3 DEF CompactNext
    <2>2. /\ head' \in HeadRow /\ head'.current = head.current
          /\ head'.generation = head.generation
      BY <1>0, <2>1 DEF HeadRow
    <2>3. \A s : StateAt(1, s)' = StateAt(1, s)
      BY <2>1, Zenon DEF StateAt
    <2> QED
      BY <1>0, <2>2, <2>3, NoHeadIsNone
  <1>4. CASE PurgeRows /\ ~(UNCHANGED storeVars)
    <2>1. /\ ~head.purged /\ history' = history
          /\ head' = [generation |-> head.generation + 1,
                      current |-> head.current, snapshot |-> head.current,
                      purged |-> TRUE]
      BY <1>4 DEF PurgeRows
    <2>2. head.generation = 1
      BY <2>1 DEF RowsInv, HeadOK
    <2>3. /\ head' \in HeadRow /\ head'.current = head.current
          /\ head'.generation = 2
      BY <1>0, <2>1, <2>2 DEF HeadRow, Generations
    <2>4. \A s : StateAt(1, s)' = StateAt(1, s)
      BY <2>1, Zenon DEF StateAt
    <2> QED
      BY <1>0, <2>2, <2>3, <2>4, NoHeadIsNone
  <1>5. CASE UNCHANGED storeVars
    BY <1>1, <1>5 DEF storeVars
  <1> QED
    BY <1>1, <1>2, <1>3, <1>4, <1>5
    DEF RowsStep, InitializeDocument, rows

-----------------------------------------------------------------------------
(***************************************************************************)
(* The rows implement the log.                                             *)
(***************************************************************************)
LEMMA InitImplementsLog == StoreInit => Log!Init
  BY DEF StoreInit, Log!Init, LogGeneration, LogSequence, LogContent

\* What the content of the log is, before and after a step.
LEMMA ContentIsCommitted ==
  RowsInv /\ head # NoHead => LogContent = StateAt(head.generation, head.current)
  BY StoredIsCommitted DEF LogContent

LEMMA StepImplementsLog ==
  ASSUME RowsInv, RowsInv', RowsStep
  PROVE  [Log!Next]_Log!log
  <1> DEFINE g == head.generation
             c == StateAt(g, head.current)
  <1>0. head' # NoHead => LogContent' = StateAt(head.generation, head.current)'
    <2>1. (RowsInv /\ head # NoHead
             => LogContent = StateAt(head.generation, head.current))'
      BY ContentIsCommitted, PTL
    <2> QED
      BY <2>1
  <1>1. CASE InitializeDocument
    <2>1. /\ head = NoHead /\ history' = {}
          /\ head' = [generation |-> 1, current |-> 0, snapshot |-> 0,
                      purged |-> FALSE]
      BY <1>1 DEF InitializeDocument, RowsInv
    <2>2. head' # NoHead
      <3>1. head' \in HeadRow
        BY <2>1, StoreAssumption DEF HeadRow, Generations, Sequences
      <3> QED
        BY <3>1, NoHeadIsNone
    <2>3. LogContent' = {}
      BY <1>0, <2>1, <2>2 DEF StateAt, Merged
    <2> QED
      BY <2>1, <2>2, <2>3
      DEF Log!Next, Log!Open, LogGeneration, LogSequence, LogContent
  <1>2. ASSUME NEW u \in Updates, AppendUpdate(u)
        PROVE  [Log!Next]_Log!log
    <2> DEFINE x == [generation |-> g, sequence |-> head.current + 1,
                     update |-> u]
    <2>1. CASE UNCHANGED storeVars
      BY <2>1, ZenonT(60)
      DEF storeVars, Log!log, LogGeneration, LogSequence, LogContent, Stored,
          LoadState, NewestSnapshot, Candidates, RowsBetween
    <2>2. CASE ~UNCHANGED storeVars
      <3>1. /\ head # NoHead /\ u \notin Stored
            /\ head' = [head EXCEPT !.current = head.current + 1]
            /\ history' = history \cup {x}
        BY <1>2, <2>2 DEF AppendUpdate
      <3>2. head \in HeadRow /\ g \in 1 .. 2 /\ head.current \in Nat
        BY <3>1, HeadTyped DEF RowsInv
      <3>3. /\ head'.generation = g /\ head'.current = head.current + 1
            /\ head' # NoHead
        <4>1. head'.generation = g /\ head'.current = head.current + 1
          BY <3>1, <3>2 DEF HeadRow
        <4>2. head' # NoHead
          BY <1>2, <2>2, <3>2, NoHeadIsNone DEF AppendUpdate, HeadRow
        <4> QED
          BY <4>1, <4>2
      <3>4. LogContent = c /\ LogContent = Stored
        BY <3>1, ContentIsCommitted DEF LogContent
      <3>5. LogContent' = c \cup {u}
        <4>1. \A y \in history : y.sequence \in Nat /\ y.sequence <= head.current
          BY <3>1, StoreAssumption
          DEF RowsInv, RowsTypeOK, Row, Sequences, HeadOK
        <4>2. {y \in history' : y.generation = g /\ y.sequence <= head.current + 1}
                = {y \in history : y.generation = g /\ y.sequence <= head.current}
                    \cup {x}
          BY <3>1, <3>2, <4>1
        <4>3. LogContent' = Merged({y \in history' : y.generation = g
                                      /\ y.sequence <= head.current + 1})
          BY <1>0, <3>3, Zenon DEF StateAt
        <4>4. LogContent' = Merged({y \in history : y.generation = g
                                      /\ y.sequence <= head.current}
                                     \cup {x})
          BY <4>2, <4>3, Zenon
        <4>5. x.update = u
          OBVIOUS
        <4>6. \A S : Merged(S \cup {x}) = Merged(S) \cup {u}
          BY Zenon, <4>5 DEF Merged
        <4> QED
          BY <4>4, <4>6, Zenon DEF StateAt
      <3> QED
        <4>1. LogGeneration = g /\ LogSequence = head.current
          BY <3>1 DEF LogGeneration, LogSequence
        <4>2. LogGeneration' = g /\ LogSequence' = head.current + 1
          BY <3>3 DEF LogGeneration, LogSequence
        <4>3. u \notin LogContent /\ LogContent' = LogContent \cup {u}
          BY <3>1, <3>4, <3>5, Zenon
        <4>4. Log!Commit(u)
          BY <3>2, <4>1, <4>2, <4>3 DEF Log!Commit
        <4> QED
          BY <4>4 DEF Log!Next
    <2> QED
      BY <2>1, <2>2
  <1>3. CASE CompactNext
    <2>1. /\ head # NoHead /\ history' = history
          /\ head' = [head EXCEPT !.snapshot = head.current]
      BY <1>3 DEF CompactNext
    <2>2. head \in HeadRow
      BY <2>1, HeadTyped DEF RowsInv
    <2>3. /\ head'.generation = g /\ head'.current = head.current
          /\ head' \in HeadRow
      BY <2>1, <2>2 DEF HeadRow
    <2>4. head' # NoHead
      BY <2>3, NoHeadIsNone
    <2>5. LogContent' = LogContent
      BY <1>0, <2>1, <2>3, <2>4, ContentIsCommitted DEF StateAt
    <2> QED
      BY <2>1, <2>3, <2>4, <2>5 DEF Log!log, LogGeneration, LogSequence
  <1>4. CASE PurgeRows
    <2>1. CASE UNCHANGED storeVars
      BY <2>1, ZenonT(60)
      DEF storeVars, Log!log, LogGeneration, LogSequence, LogContent, Stored,
          LoadState, NewestSnapshot, Candidates, RowsBetween
    <2>2. CASE ~UNCHANGED storeVars
      <3>1. /\ head # NoHead /\ ~head.purged /\ history' = history
            /\ head' = [generation |-> g + 1, current |-> head.current,
                        snapshot |-> head.current, purged |-> TRUE]
        BY <1>4, <2>2 DEF PurgeRows
      <3>2. head \in HeadRow /\ g = 1 /\ head.current \in Nat
        BY <3>1, HeadTyped DEF RowsInv, HeadOK
      <3>3. /\ head'.generation = 2 /\ head'.current = head.current
            /\ head' \in HeadRow
        BY <3>1, <3>2 DEF HeadRow, Generations
      <3>4. head' # NoHead
        BY <3>3, NoHeadIsNone
      <3>5. \A x \in history' : x.generation # 2
        BY <3>1, <3>2 DEF RowsInv, RowsTypeOK, Row, Generations, HeadOK
      <3>6. LogContent' = {}
        BY <1>0, <3>3, <3>4, <3>5 DEF StateAt, Merged
      <3> QED
        BY <3>1, <3>2, <3>3, <3>4, <3>6
        DEF Log!Next, Log!Erase, LogGeneration, LogSequence
    <2> QED
      BY <2>1, <2>2
  <1>5. CASE UNCHANGED rows
    BY <1>5, ZenonT(60)
    DEF rows, Log!log, LogGeneration, LogSequence, LogContent, Stored,
        LoadState, NewestSnapshot, Candidates, RowsBetween
  <1> QED
    BY <1>1, <1>2, <1>3, <1>4, <1>5 DEF RowsStep
=============================================================================
