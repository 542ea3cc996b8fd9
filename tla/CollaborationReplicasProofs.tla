-------------------- MODULE CollaborationReplicasProofs --------------------
(***************************************************************************)
(* Proofs about the actors of the replicas, for any number of replicas,    *)
(* any set of updates and any length of the log.  The rows are taken from  *)
(* CollaborationStoreProofs.                                               *)
(***************************************************************************)
EXTENDS CollaborationReplicas, CollaborationStoreProofs,
        WellFoundedInduction

(***************************************************************************)
(* The events.  None is ahead of the head, and what a replica has          *)
(* acknowledged came to it through the outbox and the stream.              *)
(***************************************************************************)
Events ==
  /\ head = NoHead => outbox = {}
  /\ \A e \in outbox :
       e.generation <= head.generation /\ e.sequence <= head.current
  /\ stream \subseteq outbox
  /\ \A r \in Replicas : acked[r] \subseteq stream

(***************************************************************************)
(* An actor a whose replica has acknowledged the events in seen.  A load   *)
(* is three statements with commits, compactions and purges in between:    *)
(* what it has read so far must cover every event that was acknowledged    *)
(* while there was no actor, and the snapshot it holds must still stand    *)
(* for its sequence when the rows are added to it.                         *)
(***************************************************************************)
Behind(e, g, s) ==
  \/ e.generation < g
  \/ e.generation = g /\ (e.kind = "updated" => e.sequence <= s)

Covered(a, seen, g, s) == \A e \in seen : a.closing \/ Behind(e, g, s)

Within(a) == a.sequence <= head.current /\ a.target <= head.current

Shown(a) ==
  \A u \in a.doc :
    \E x \in history : x.update = u /\ x.generation = a.generation

Logged(a) ==
  \A x \in updates :
    x.generation = a.generation /\ x.sequence <= a.sequence
      => x.update \in a.doc

Loading(a, seen) ==
  a.mode \in {"snapshot", "rows"} =>
    /\ a.read.sequence <= head.current
    /\ ~a.started => Covered(a, seen, a.read.generation, a.read.sequence)

HasBase(a) ==
  a.mode = "rows" =>
    /\ a.read.base <= head.current
    /\ a.read.state = StateAt(a.read.generation, a.read.base)

ActorOK(a, seen) ==
  /\ head # NoHead
  /\ Within(a)
  /\ Shown(a)
  /\ Logged(a)
  /\ a.started => Covered(a, seen, a.generation, a.sequence)
  /\ Loading(a, seen)
  /\ HasBase(a)

Actors ==
  \A r \in Replicas : actor[r] # NoActor => ActorOK(actor[r], acked[r])

IInv == TypeOK /\ RowsInv /\ Events /\ Actors

-----------------------------------------------------------------------------
\* A set of naturals has a least element.
LEMMA LeastNatural ==
  ASSUME NEW T, T \subseteq Nat, T # {}
  PROVE  \E x \in T : \A y \in T : x <= y
  <1> DEFINE R == {ss \in Nat \X Nat : ss[1] < ss[2]}
  <1>1. R = OpToRel(<, Nat)
    BY DEF OpToRel
  <1>2. IsWellFoundedOn(R, Nat)
    BY <1>1, NatLessThanWellFounded, Zenon
  <1>3. \A x, y \in Nat : x < y => <<x, y>> \in R
    OBVIOUS
  <1> HIDE DEF R
  <1>4. PICK x \in T : \A y \in T : ~ (<<y, x>> \in R)
    BY Zenon, <1>2, WFMin
  <1>5. ASSUME NEW y \in T PROVE x <= y
    <2>1. ~ (<<y, x>> \in R)
      BY <1>4
    <2>2. x \in Nat /\ y \in Nat
      OBVIOUS
    <2>3. ~ (y < x)
      BY <2>1, <2>2, <1>3
    <2> QED
      BY <2>2, <2>3
  <1> QED
    BY <1>5

\* A set of integers with an upper bound has a greatest element.
LEMMA MaxExists ==
  ASSUME NEW S, S \subseteq Int, S # {}, NEW b \in Int, \A x \in S : x <= b
  PROVE  Max(S) \in S /\ \A y \in S : Max(S) >= y
  <1> DEFINE T == {b - x : x \in S}
  <1>1. T # {} /\ T \subseteq Nat
    <2>1. PICK x \in S : TRUE
      BY Zenon
    <2>2. b - x \in T
      OBVIOUS
    <2>3. ASSUME NEW d \in T PROVE d \in Nat
      <3>1. PICK z \in S : d = b - z
        OBVIOUS
      <3>2. z \in Int /\ z <= b
        BY Zenon
      <3> QED
        BY <3>1, <3>2
    <2> QED
      BY <2>2, <2>3
  <1>2. PICK d \in T : \A e \in T : d <= e
    <2> HIDE DEF T
    <2> QED
      BY Zenon, <1>1, LeastNatural
  <1>3. PICK x \in S : d = b - x
    OBVIOUS
  <1>4. ASSUME NEW y \in S PROVE x >= y
    <2>1. d <= b - y
      BY <1>2
    <2>2. x \in Int /\ y \in Int
      OBVIOUS
    <2> QED
      BY <2>1, <2>2, <1>3
  <1>5. \E z \in S : \A y \in S : z >= y
    BY <1>4
  <1> QED
    BY Zenon, <1>5 DEF Max
-----------------------------------------------------------------------------
(***************************************************************************)
(* What a transaction on the rows does to those who read them.             *)
(***************************************************************************)
LEMMA RowTyped ==
  ASSUME RowsInv
  PROVE  /\ \A x \in history : /\ x.generation \in 1 .. 2
                               /\ x.sequence \in Nat /\ x.update \in Updates
         /\ \A x \in updates : /\ x \in history /\ x.sequence > 0
                               /\ x.sequence \in Nat
                               /\ x.sequence <= head.current
                               /\ head # NoHead
         /\ \A p \in snapshots : /\ p.generation \in 1 .. 2
                                 /\ p.sequence \in Sequences
                                 /\ p.sequence \in Nat
                                 /\ p.sequence <= head.current
                                 /\ p.state = StateAt(p.generation, p.sequence)
                                 /\ p.state \in SUBSET Updates
                                 /\ head # NoHead
  <1>1. \A x \in history : /\ x.generation \in 1 .. 2
                           /\ x.sequence \in Nat /\ x.update \in Updates
    BY StoreAssumption DEF RowsInv, RowsTypeOK, Row, Generations, Sequences
  <1>2. CASE head = NoHead
    BY <1>1, <1>2 DEF RowsInv
  <1>3. CASE head # NoHead
    <2>1. HeadOK /\ SnapshotsOK /\ UpdatesOK
      BY <1>3 DEF RowsInv
    <2>2. head.snapshot \in Nat /\ head.current \in Nat
      BY <1>3, HeadTyped DEF RowsInv
    <2>3. \A x \in updates : x \in history /\ x.sequence > head.snapshot
      BY <2>1, Zenon DEF UpdatesOK
    <2>4. \A x \in updates : /\ x \in history /\ x.sequence > 0
                             /\ x.sequence \in Nat
                             /\ x.sequence <= head.current
      BY <1>1, <2>1, <2>2, <2>3 DEF HeadOK
    <2>5. \A p \in snapshots : /\ p.generation \in 1 .. 2
                               /\ p.sequence \in Sequences
                               /\ p.sequence \in Nat
                               /\ p.state \in SUBSET Updates
      BY StoreAssumption
      DEF RowsInv, RowsTypeOK, Snapshot, Generations, Sequences
    <2>6. \A p \in snapshots : /\ p.sequence <= head.current
                               /\ p.state = StateAt(p.generation, p.sequence)
      BY <2>1, <2>2, <2>5 DEF SnapshotsOK, HeadOK
    <2> QED
      BY <1>1, <1>3, <2>4, <2>5, <2>6
  <1> QED
    BY <1>2, <1>3

\* Nothing committed is forgotten, and what is new is past the old head.
LEMMA StepAddsPastHead ==
  ASSUME RowsInv, RowsStep, head # NoHead
  PROVE  /\ history \subseteq history'
         /\ \A x \in history' : x \in history \/ x.sequence > head.current
         /\ \A x \in updates' : x \in updates \/ x.sequence > head.current
  <1>0. head.current \in Nat
    BY HeadTyped DEF RowsInv
  <1>1. CASE UNCHANGED rows \/ UNCHANGED storeVars
    BY <1>1 DEF rows, storeVars
  <1>2. ASSUME NEW u \in Updates, AppendUpdate(u), ~(UNCHANGED storeVars)
        PROVE  /\ history \subseteq history'
               /\ \A x \in history' : x \in history \/ x.sequence > head.current
               /\ \A x \in updates' : x \in updates \/ x.sequence > head.current
    <2> DEFINE y == [generation |-> head.generation,
                     sequence |-> head.current + 1, update |-> u]
    <2>1. updates' = updates \cup {y} /\ history' = history \cup {y}
      BY <1>2 DEF AppendUpdate
    <2>2. y.sequence > head.current
      BY <1>0
    <2> QED
      BY <2>1, <2>2
  <1>3. CASE CompactNext
    BY <1>3 DEF CompactNext
  <1>4. CASE PurgeRows /\ ~(UNCHANGED storeVars)
    BY <1>4 DEF PurgeRows
  <1> QED
    BY <1>1, <1>2, <1>3, <1>4 DEF RowsStep, InitializeDocument

\* What a sequence stands for does not change any more once the head has
\* reached it.
LEMMA StepKeepsState ==
  ASSUME RowsInv, RowsStep, head # NoHead,
         NEW g, NEW s \in Nat, s <= head.current
  PROVE  StateAt(g, s)' = StateAt(g, s)
  <1>0. head.current \in Nat
    BY HeadTyped DEF RowsInv
  <1>1. \A x \in history' : x.sequence \in Nat
    <2>1. RowsInv'
      BY StepKeepsRows
    <2> QED
      BY <2>1, StoreAssumption DEF RowsInv, RowsTypeOK, Row, Sequences
  <1>2. \A x \in history' : x.sequence <= s => x \in history
    BY <1>0, <1>1, StepAddsPastHead
  <1>3. {x \in history' : x.generation = g /\ x.sequence <= s}
          = {x \in history : x.generation = g /\ x.sequence <= s}
    BY <1>2, StepAddsPastHead
  <1> QED
    BY <1>3, Zenon DEF StateAt
-----------------------------------------------------------------------------
(***************************************************************************)
(* An actor that does nothing stays right through every transaction.       *)
(***************************************************************************)
LEMMA ActorTyped ==
  ASSUME NEW a \in Actor
  PROVE  /\ a.mode \in {"ready", "head", "snapshot", "rows"}
         /\ a.started \in BOOLEAN /\ a.closing \in BOOLEAN
         /\ a.generation \in 1 .. 2
         /\ a.sequence \in Nat /\ a.target \in Nat
         /\ a.doc \in SUBSET Updates
         /\ a.read \in Read
         /\ a.read.generation \in 1 .. 2
         /\ a.read.sequence \in Nat /\ a.read.base \in Nat
  BY StoreAssumption DEF Actor, Read, Generations, Sequences

LEMMA EventTyped ==
  ASSUME NEW e \in Event
  PROVE  e.generation \in 1 .. 2 /\ e.sequence \in Nat
  BY StoreAssumption DEF Event, Generations, Sequences

LEMMA ActorKept ==
  ASSUME RowsInv, RowsStep, NEW a \in Actor, NEW seen, ActorOK(a, seen)
  PROVE  ActorOK(a, seen)'
  <1>0. head # NoHead
    BY DEF ActorOK
  <1>1. /\ head.current \in Nat /\ head' # NoHead
        /\ head'.current \in Nat /\ head'.current >= head.current
    BY <1>0, HeadTyped, StepMovesOn DEF RowsInv
  <1>2. /\ a.sequence \in Nat /\ a.target \in Nat
        /\ a.read.sequence \in Nat /\ a.read.base \in Nat
    BY ActorTyped
  <1>3. Within(a)'
    BY <1>1, <1>2 DEF ActorOK, Within
  <1>4. Shown(a)'
    <2>1. history \subseteq history'
      BY <1>0, StepAddsPastHead
    <2> QED
      BY <2>1 DEF ActorOK, Shown
  <1>5. Logged(a)'
    <2>1. RowsInv'
      BY StepKeepsRows
    <2>2. \A x \in updates' : x.sequence \in Nat
      BY <2>1, StoreAssumption DEF RowsInv, RowsTypeOK, Row, Sequences
    <2>3. \A x \in updates' : x \in updates \/ x.sequence > head.current
      BY <1>0, StepAddsPastHead
    <2>4. \A x \in updates' : x.sequence <= a.sequence => x \in updates
      BY <1>1, <1>2, <2>2, <2>3 DEF ActorOK, Within
    <2> QED
      BY <2>4 DEF ActorOK, Logged
  <1>6. Loading(a, seen)'
    BY <1>1, <1>2 DEF ActorOK, Loading, Covered
  <1>7. HasBase(a)'
    <2> SUFFICES ASSUME a.mode = "rows"
                 PROVE  /\ a.read.base <= head'.current
                        /\ a.read.state
                             = StateAt(a.read.generation, a.read.base)'
      BY DEF HasBase
    <2>1. /\ a.read.base <= head.current
          /\ a.read.state = StateAt(a.read.generation, a.read.base)
      BY DEF ActorOK, HasBase
    <2>2. StateAt(a.read.generation, a.read.base)'
            = StateAt(a.read.generation, a.read.base)
      BY <1>0, <1>2, <2>1, StepKeepsState
    <2> QED
      BY <1>1, <1>2, <2>1, <2>2
  <1> QED
    BY <1>1, <1>3, <1>4, <1>5, <1>6, <1>7 DEF ActorOK, Covered

\* The invariant of the actors, from what is known of each after the step.
LEMMA ActorsAfter ==
  ASSUME \A r \in Replicas :
           actor'[r] # NoActor =>
             \E a, seen : /\ a = actor'[r] /\ seen = acked'[r]
                          /\ ActorOK(a, seen)'
  PROVE  Actors'
  <1> SUFFICES ASSUME NEW r \in Replicas, actor'[r] # NoActor
               PROVE  ActorOK(actor[r], acked[r])'
    BY DEF Actors
  <1>1. PICK a, seen : /\ a = actor'[r] /\ seen = acked'[r]
                       /\ ActorOK(a, seen)'
    OBVIOUS
  <1>2. head' # NoHead
    BY <1>1 DEF ActorOK
  <1>3. Within(actor[r])' /\ Shown(actor[r])' /\ Logged(actor[r])'
    BY <1>1 DEF ActorOK, Within, Shown, Logged
  <1>4. (actor[r].started
           => Covered(actor[r], acked[r], actor[r].generation,
                      actor[r].sequence))'
    BY <1>1 DEF ActorOK, Covered
  <1>5. Loading(actor[r], acked[r])'
    BY <1>1 DEF ActorOK, Loading, Covered
  <1>6. HasBase(actor[r])'
    BY <1>1 DEF ActorOK, HasBase, StateAt
  <1> QED
    BY <1>2, <1>3, <1>4, <1>5, <1>6 DEF ActorOK

\* A step of one actor, or of what is delivered to it, leaves the others to
\* what the transaction in it does.
LEMMA OneActorMoves ==
  ASSUME TypeOK, RowsInv, Actors, RowsStep, NEW r \in Replicas,
         \A q \in Replicas \ {r} : actor'[q] = actor[q] /\ acked'[q] = acked[q],
         NEW b, NEW seen, actor'[r] = b, acked'[r] = seen,
         b # NoActor => ActorOK(b, seen)'
  PROVE  Actors'
  <1>1. ASSUME NEW q \in Replicas, actor'[q] # NoActor
        PROVE  \E a, s : a = actor'[q] /\ s = acked'[q] /\ ActorOK(a, s)'
    <2>1. CASE q = r
      BY <1>1, <2>1
    <2>2. CASE q # r
      <3>1. PICK a, s : a = actor[q] /\ s = acked[q]
        OBVIOUS
      <3>2. a = actor'[q] /\ s = acked'[q]
        BY <2>2, <3>1
      <3>3. a # NoActor /\ a \in Actor
        BY Zenon, <1>1, <3>1, <3>2 DEF TypeOK
      <3>4. ActorOK(a, s)
        BY <3>1, <3>3 DEF Actors
      <3>5. ActorOK(a, s)'
        BY <3>3, <3>4, ActorKept
      <3> QED
        BY <3>2, <3>5
    <2> QED
      BY <2>1, <2>2
  <1> QED
    BY <1>1, ActorsAfter

LEMMA NoActorMoves ==
  ASSUME TypeOK, RowsInv, Actors, RowsStep, UNCHANGED <<actor, acked>>
  PROVE  Actors'
  <1>1. ASSUME NEW q \in Replicas, actor'[q] # NoActor
        PROVE  \E a, s : a = actor'[q] /\ s = acked'[q] /\ ActorOK(a, s)'
    <2>1. PICK a, s : a = actor[q] /\ s = acked[q]
      OBVIOUS
    <2>2. a = actor'[q] /\ s = acked'[q] /\ a # NoActor /\ a \in Actor
      BY <1>1, <2>1 DEF TypeOK
    <2>3. ActorOK(a, s)
      BY <2>1, <2>2 DEF Actors
    <2>4. ActorOK(a, s)'
      BY <2>2, <2>3, ActorKept
    <2> QED
      BY <2>2, <2>4
  <1> QED
    BY <1>1, ActorsAfter
-----------------------------------------------------------------------------
(***************************************************************************)
(* The types and the events through a step on the rows.                    *)
(***************************************************************************)
StoreStep ==
  \/ InitializeDocument
  \/ \E u \in Updates : AppendUpdate(u)
  \/ CompactNext
  \/ PurgeRows
  \/ UNCHANGED storeVars

LEMMA StoreStepIsRowsStep == StoreStep => RowsStep
  BY DEF StoreStep, RowsStep, storeVars, rows

LEMMA StoreStepKeeps ==
  ASSUME IInv, StoreStep
  PROVE  /\ RowsInv'
         /\ StoreTypeOK'
         /\ outbox \subseteq outbox'
         /\ head' = NoHead => outbox' = {}
         /\ \A e \in outbox' : /\ e.generation <= head'.generation
                               /\ e.sequence <= head'.current
  <1> DEFINE Kept == /\ job' \in Job \cup {NoJob} /\ outbox' \in SUBSET Event
                     /\ outbox \subseteq outbox'
                     /\ head' = NoHead => outbox' = {}
                     /\ \A e \in outbox' : /\ e.generation <= head'.generation
                                           /\ e.sequence <= head'.current
  <1>1. RowsInv'
    BY StoreStepIsRowsStep, StepKeepsRows DEF IInv
  <1>2. /\ job \in Job \cup {NoJob} /\ outbox \in SUBSET Event
        /\ head = NoHead => outbox = {}
        /\ \A e \in outbox : /\ e.generation <= head.generation
                             /\ e.sequence <= head.current
    BY DEF IInv, TypeOK, StoreTypeOK, Events
  <1>3. ASSUME UNCHANGED storeVars PROVE Kept
    BY <1>2, <1>3 DEF storeVars
  <1>4. ASSUME InitializeDocument PROVE Kept
    BY <1>2, <1>4 DEF InitializeDocument
  <1>5. \A e \in outbox : e.generation \in 1 .. 2 /\ e.sequence \in Nat
    BY <1>2, EventTyped
  <1>6. ASSUME NEW u \in Updates, AppendUpdate(u), ~(UNCHANGED storeVars)
        PROVE  Kept
    <2> DEFINE s == head.current + 1
               e0 == [kind |-> "updated", generation |-> head.generation,
                      sequence |-> s]
    <2>1. /\ head # NoHead /\ s \in Sequences
          /\ head' = [head EXCEPT !.current = s]
          /\ job' = EnqueuedProjection(head.generation, s)
          /\ outbox' = outbox \cup {e0}
      BY <1>6 DEF AppendUpdate
    <2>2. /\ head \in HeadRow /\ head.generation \in 1 .. 2
          /\ head.current \in Nat
      BY <2>1, HeadTyped DEF IInv, RowsInv
    <2>3. /\ head' \in HeadRow
          /\ head'.generation = head.generation /\ head'.current = s
      BY <2>1, <2>2 DEF HeadRow
    <2>4. head' # NoHead
      BY <2>3, NoHeadIsNone
    <2>5. e0 \in Event /\ job' \in Job
      BY <2>1, <2>2 DEF Event, Job, EnqueuedProjection, Generations
    <2>6. e0.generation <= head'.generation /\ e0.sequence <= head'.current
      BY <2>2, <2>3
    <2> QED
      BY <1>2, <1>5, <2>1, <2>2, <2>3, <2>4, <2>5, <2>6
  <1>7. ASSUME CompactNext PROVE Kept
    <2>1. /\ head # NoHead /\ head' = [head EXCEPT !.snapshot = head.current]
          /\ job' = job /\ outbox' = outbox
      BY <1>7 DEF CompactNext
    <2>2. head \in HeadRow
      BY <2>1, HeadTyped DEF IInv, RowsInv
    <2>3. /\ head' \in HeadRow
          /\ head'.generation = head.generation /\ head'.current = head.current
      BY <2>1, <2>2 DEF HeadRow
    <2> QED
      BY <1>2, <2>1, <2>3, NoHeadIsNone
  <1>8. ASSUME PurgeRows, ~(UNCHANGED storeVars) PROVE Kept
    <2> DEFINE g == head.generation + 1
               e0 == [kind |-> "purged", generation |-> g,
                      sequence |-> head.current]
    <2>1. /\ head # NoHead /\ ~head.purged
          /\ head' = [generation |-> g, current |-> head.current,
                      snapshot |-> head.current, purged |-> TRUE]
          /\ job' = EnqueuedProjection(g, head.current)
          /\ outbox' = outbox \cup {e0}
      BY <1>8 DEF PurgeRows
    <2>2. /\ head \in HeadRow /\ head.generation = 1 /\ head.current \in Nat
      BY <2>1, HeadTyped DEF IInv, RowsInv, HeadOK
    <2>3. /\ head' \in HeadRow
          /\ head'.generation = 2 /\ head'.current = head.current
      BY <2>1, <2>2 DEF HeadRow, Generations
    <2>4. head' # NoHead
      BY <2>3, NoHeadIsNone
    <2>5. e0 \in Event /\ job' \in Job
      BY <2>1, <2>2 DEF Event, Job, EnqueuedProjection, Generations, HeadRow
    <2>6. e0.generation <= head'.generation /\ e0.sequence <= head'.current
      BY <2>2, <2>3
    <2> QED
      BY <1>2, <1>5, <2>1, <2>2, <2>3, <2>4, <2>5, <2>6
  <1>9. Kept
    BY <1>3, <1>4, <1>6, <1>7, <1>8 DEF StoreStep
  <1> QED
    BY <1>1, <1>9 DEF RowsInv, RowsTypeOK, StoreTypeOK

(***************************************************************************)
(* A step of the actor of replica r, which becomes b, or of its consumer,  *)
(* which has then acknowledged the events in seen.                         *)
(***************************************************************************)
LEMMA ReplicaStep ==
  ASSUME IInv, StoreStep, stream' = stream, NEW r \in Replicas,
         NEW b \in Actor \cup {NoActor}, NEW seen \in SUBSET stream,
         actor' = [actor EXCEPT ![r] = b], acked' = [acked EXCEPT ![r] = seen],
         b # NoActor => ActorOK(b, seen)'
  PROVE  IInv'
  <1>1. /\ RowsInv' /\ StoreTypeOK' /\ outbox \subseteq outbox'
        /\ head' = NoHead => outbox' = {}
        /\ \A e \in outbox' : /\ e.generation <= head'.generation
                              /\ e.sequence <= head'.current
    BY StoreStepKeeps
  <1>2. TypeOK /\ Events /\ RowsInv /\ Actors
    BY DEF IInv
  <1>3. /\ stream \in SUBSET Event /\ acked \in [Replicas -> SUBSET Event]
        /\ actor \in [Replicas -> Actor \cup {NoActor}]
    BY <1>2 DEF TypeOK
  <1>4. TypeOK'
    BY <1>1, <1>3 DEF TypeOK
  <1>5. /\ actor'[r] = b /\ acked'[r] = seen
        /\ \A q \in Replicas \ {r} : actor'[q] = actor[q] /\ acked'[q] = acked[q]
    BY <1>3
  <1>6. Events'
    <2>1. stream \subseteq outbox /\ \A q \in Replicas : acked[q] \subseteq stream
      BY <1>2 DEF Events
    <2>2. \A q \in Replicas : acked'[q] \subseteq stream
      BY <1>5, <2>1
    <2> QED
      BY <1>1, <2>1, <2>2 DEF Events
  <1>7. Actors'
    BY <1>2, <1>5, OneActorMoves, StoreStepIsRowsStep
  <1> QED
    BY <1>1, <1>4, <1>6, <1>7 DEF IInv

\* The same when the rows are left alone: the new actor is judged by the rows
\* as they are.
LEMMA QuietStep ==
  ASSUME IInv, UNCHANGED storeVars, stream' = stream, NEW r \in Replicas,
         NEW b, NEW seen \in SUBSET stream,
         actor' = [actor EXCEPT ![r] = b], acked' = [acked EXCEPT ![r] = seen],
         b # NoActor => b \in Actor /\ ActorOK(b, seen)
  PROVE  IInv'
  <1>1. StoreStep
    BY DEF StoreStep
  <1>2. b # NoActor => ActorOK(b, seen)'
    BY <1>1, StoreStepIsRowsStep, ActorKept DEF IInv
  <1>3. b \in Actor \cup {NoActor}
    OBVIOUS
  <1> QED
    BY Zenon, <1>1, <1>2, <1>3, ReplicaStep
-----------------------------------------------------------------------------
(***************************************************************************)
(* The steps of a load.                                                    *)
(***************************************************************************)
\* The actor of a replica and what the replica has acknowledged.
LEMMA ActorHere ==
  ASSUME IInv, NEW r \in Replicas
  PROVE  /\ acked[r] \in SUBSET stream
         /\ acked[r] \in SUBSET Event
         /\ acked' = acked => acked' = [acked EXCEPT ![r] = acked[r]]
         /\ actor[r] # NoActor =>
              actor[r] \in Actor /\ ActorOK(actor[r], acked[r])
  BY DEF IInv, TypeOK, Events, Actors

LEMMA LogIsNumbered ==
  RowsInv => /\ head # NoHead => head.current \in Nat
             /\ \A x \in updates : x.sequence \in Nat /\ x.sequence > 0
  BY HeadTyped, RowTyped DEF RowsInv

LEMMA StartKeeps ==
  ASSUME IInv, NEW r \in Replicas, Start(r)
  PROVE  IInv'
  <1> DEFINE b == [mode |-> "head", started |-> FALSE, generation |-> 1,
                   sequence |-> 0, doc |-> {}, target |-> 0,
                   read |-> NothingRead, closing |-> FALSE]
  <1>1. /\ actor' = [actor EXCEPT ![r] = b]
        /\ stream' = stream /\ acked' = acked
        /\ InitializeDocument \/ (head # NoHead /\ UNCHANGED storeVars)
    BY DEF Start
  <1>2. StoreStep
    BY <1>1 DEF StoreStep
  <1>3. b \in Actor
    BY StoreAssumption DEF Actor, NothingRead, Read, Generations, Sequences
  <1>4. RowsInv'
    BY <1>2, StoreStepKeeps
  <1>5. head' # NoHead
    <2>1. CASE InitializeDocument
      <3>1. head' \in HeadRow
        BY <2>1, StoreAssumption
        DEF InitializeDocument, HeadRow, Generations, Sequences
      <3> QED
        BY <3>1, NoHeadIsNone
    <2> QED
      BY <1>1, <2>1 DEF storeVars
  <1>6. /\ head'.current \in Nat
        /\ \A x \in updates' : x.sequence \in Nat /\ x.sequence > 0
    <2>1. (RowsInv =>
             /\ head # NoHead => head.current \in Nat
             /\ \A x \in updates : x.sequence \in Nat /\ x.sequence > 0)'
      BY LogIsNumbered, PTL
    <2> QED
      BY <1>4, <1>5, <2>1
  <1>7. ASSUME NEW seen PROVE ActorOK(b, seen)'
    <2>1. /\ b.mode = "head" /\ b.started = FALSE /\ b.sequence = 0
          /\ b.target = 0 /\ b.doc = {}
      OBVIOUS
    <2> HIDE DEF b
    <2>2. \A x \in updates' : ~(x.sequence <= b.sequence)
      BY <1>6, <2>1
    <2> QED
      BY <1>5, <1>6, <2>1, <2>2
      DEF ActorOK, Within, Shown, Logged, Loading, HasBase
  <1>8. acked[r] \in SUBSET stream /\ acked' = [acked EXCEPT ![r] = acked[r]]
    BY <1>1, ActorHere
  <1> HIDE DEF b
  <1>9. PICK seen : seen = acked[r]
    OBVIOUS
  <1>10. ActorOK(b, seen)'
    BY <1>7
  <1> QED
    BY Zenon, <1>1, <1>2, <1>3, <1>8, <1>9, <1>10, ReplicaStep

\* An actor that ends leaves nothing behind.
LEMMA EndKeeps ==
  ASSUME IInv, NEW r \in Replicas, actor' = [actor EXCEPT ![r] = NoActor],
         UNCHANGED <<storeVars, stream, acked>>
  PROVE  IInv'
  <1>1. acked[r] \in SUBSET stream /\ acked' = [acked EXCEPT ![r] = acked[r]]
    BY ActorHere
  <1> QED
    BY Zenon, <1>1, QuietStep

\* The head that is read covers every event there is.
LEMMA LoadHeadKeeps ==
  ASSUME IInv, NEW r \in Replicas, LoadHead(r)
  PROVE  IInv'
  <1>1. PICK a \in Actor, seen \in SUBSET stream :
          /\ a = actor[r] /\ seen = acked[r] /\ ActorOK(a, seen)
          /\ seen \in SUBSET Event
    BY ActorHere DEF LoadHead
  <1> DEFINE rd == [NothingRead EXCEPT !.generation = head.generation,
                                       !.sequence = head.current]
             b == [a EXCEPT !.mode = "snapshot", !.read = rd]
  <1>2. /\ actor \in [Replicas -> Actor \cup {NoActor}]
        /\ UNCHANGED <<storeVars, stream, acked>>
        /\ acked' = [acked EXCEPT ![r] = seen]
    BY <1>1, ActorHere DEF LoadHead, IInv, TypeOK
  <1>3. actor' = [actor EXCEPT ![r] = b]
    BY Zenon, <1>1, <1>2 DEF LoadHead
  <1>4. head # NoHead
    BY <1>1 DEF ActorOK
  <1>5. /\ head \in HeadRow /\ head.generation \in 1 .. 2
        /\ head.current \in Nat
    BY <1>4, HeadTyped DEF IInv, RowsInv
  <1>6. /\ rd \in Read /\ rd.generation = head.generation
        /\ rd.sequence = head.current
    <2>1. NothingRead \in Read
      BY StoreAssumption DEF Read, NothingRead, Generations, Sequences
    <2>2. head.generation \in Generations /\ head.current \in Sequences
      BY <1>5 DEF HeadRow
    <2> QED
      BY Zenon, <2>1, <2>2 DEF Read
  <1> HIDE DEF rd
  <1>7. /\ b \in Actor /\ b.mode = "snapshot" /\ b.read = rd
        /\ b.started = a.started /\ b.generation = a.generation
        /\ b.sequence = a.sequence /\ b.doc = a.doc
        /\ b.target = a.target /\ b.closing = a.closing
    BY Zenon, <1>6 DEF Actor
  <1> HIDE DEF b
  <1>8. \A e \in seen : Behind(e, rd.generation, rd.sequence)
    <2>1. \A e \in seen : /\ e.generation \in 1 .. 2 /\ e.sequence \in Nat
                          /\ e.generation <= head.generation
                          /\ e.sequence <= head.current
      BY <1>1, EventTyped DEF IInv, Events
    <2> QED
      BY <1>5, <1>6, <2>1 DEF Behind
  <1>9. ActorOK(b, seen)
    <2>1. /\ head # NoHead /\ Within(a) /\ Shown(a) /\ Logged(a)
          /\ a.started => Covered(a, seen, a.generation, a.sequence)
      BY Zenon, <1>1 DEF ActorOK
    <2>2. Within(b) /\ Shown(b) /\ Logged(b)
      BY <1>7, <2>1 DEF Within, Shown, Logged
    <2>3. b.started => Covered(b, seen, b.generation, b.sequence)
      BY <1>7, <2>1 DEF Covered
    <2>4. Loading(b, seen) /\ HasBase(b)
      BY <1>5, <1>6, <1>7, <1>8 DEF Loading, Covered, HasBase
    <2> QED
      BY Zenon, <2>1, <2>2, <2>3, <2>4 DEF ActorOK
  <1> QED
    BY Zenon, <1>2, <1>3, <1>7, <1>9, QuietStep

\* The snapshot a load finds is one of the generation, not past the sequence.
LEMMA NewestFound ==
  ASSUME RowsInv, NEW g, NEW s \in Nat, Candidates(g, s) # {}
  PROVE  NewestSnapshot(g, s) \in Candidates(g, s)
  <1> DEFINE C == Candidates(g, s)
             S == {p.sequence : p \in C}
  <1>1. \A p \in C : p.sequence \in Nat /\ p.sequence <= s
    BY RowTyped DEF Candidates
  <1>2. S \subseteq Int /\ S # {} /\ s \in Int /\ \A n \in S : n <= s
    BY <1>1
  <1> HIDE DEF C
  <1>3. Max(S) \in S /\ \A n \in S : Max(S) >= n
    <2> HIDE DEF S
    <2> QED
      BY Zenon, <1>2, MaxExists
  <1>4. PICK p \in C : p.sequence = Max(S)
    BY Zenon, <1>3
  <1>5. \A q \in C : q.sequence <= p.sequence
    BY <1>1, <1>3, <1>4
  <1> QED
    BY <1>5 DEF NewestSnapshot, C

LEMMA LoadSnapshotKeeps ==
  ASSUME IInv, NEW r \in Replicas, LoadSnapshot(r)
  PROVE  IInv'
  <1>1. PICK a \in Actor, seen \in SUBSET stream :
          /\ a = actor[r] /\ seen = acked[r] /\ ActorOK(a, seen)
    BY ActorHere DEF LoadSnapshot
  <1> DEFINE g == a.read.generation
             s == a.read.sequence
             p == NewestSnapshot(g, s)
             b == [a EXCEPT !.mode = "rows", !.read.base = p.sequence,
                            !.read.state = p.state]
  <1>2. /\ UNCHANGED <<storeVars, stream, acked>> /\ a.mode = "snapshot"
        /\ acked' = [acked EXCEPT ![r] = seen]
        /\ actor \in [Replicas -> Actor \cup {NoActor}]
    BY <1>1, ActorHere DEF LoadSnapshot, IInv, TypeOK
  <1>3. CASE Candidates(g, s) = {}
    <2>1. actor' = [actor EXCEPT ![r] = NoActor]
      BY <1>1, <1>2, <1>3 DEF LoadSnapshot
    <2> QED
      BY Zenon, <1>2, <2>1, EndKeeps
  <1>4. CASE Candidates(g, s) # {}
    <2>1. actor' = [actor EXCEPT ![r] = b]
      BY Zenon, <1>1, <1>2, <1>4 DEF LoadSnapshot
    <2>2. g \in 1 .. 2 /\ s \in Nat /\ a.read \in Read
      BY ActorTyped
    <2>3. PICK q \in snapshots : q = p /\ q.generation = g
      <3>1. p \in Candidates(g, s)
        BY <1>4, <2>2, NewestFound DEF IInv
      <3> QED
        BY <3>1 DEF Candidates
    <2>4. /\ q.sequence \in Sequences /\ q.sequence \in Nat
          /\ q.sequence <= head.current /\ q.state \in SUBSET Updates
          /\ q.state = StateAt(g, q.sequence)
      BY Zenon, <2>3, RowTyped DEF IInv
    <2>5. PICK c \in Read :
            /\ c = [a.read EXCEPT !.base = q.sequence, !.state = q.state]
            /\ c.generation = g /\ c.sequence = s
            /\ c.base = q.sequence /\ c.state = q.state
      <3> DEFINE d == [a.read EXCEPT !.base = q.sequence, !.state = q.state]
      <3>1. /\ d \in Read /\ d.generation = g /\ d.sequence = s
            /\ d.base = q.sequence /\ d.state = q.state
        BY Zenon, <2>2, <2>4 DEF Read
      <3> QED
        BY Zenon, <3>1
    <2>6. b = [a EXCEPT !.mode = "rows", !.read = c]
      BY Zenon, <2>3, <2>5 DEF Actor
    <2>7. c \in Read
      OBVIOUS
    <2>8. /\ b \in Actor /\ b.mode = "rows" /\ b.read = c
          /\ b.started = a.started /\ b.generation = a.generation
          /\ b.sequence = a.sequence /\ b.doc = a.doc
          /\ b.target = a.target /\ b.closing = a.closing
      <3> HIDE DEF b
      <3> QED
        BY Zenon, <2>6, <2>7 DEF Actor
    <2> HIDE DEF b
    <2>9. /\ c.generation = g /\ c.sequence = s
          /\ c.base <= head.current /\ c.state = StateAt(c.generation, c.base)
      BY <2>4, <2>5, Zenon
    <2>10. HasBase(b)
      BY Zenon, <2>8, <2>9 DEF HasBase
    <2>11. Loading(b, seen)
      BY <1>1, <1>2, <2>8, <2>9 DEF ActorOK, Loading, Covered
    <2>12. ActorOK(b, seen)
      <3>1. /\ head # NoHead /\ Within(a) /\ Shown(a) /\ Logged(a)
            /\ a.started => Covered(a, seen, a.generation, a.sequence)
        BY Zenon, <1>1 DEF ActorOK
      <3>2. Within(b) /\ Shown(b) /\ Logged(b)
        BY <2>8, <3>1 DEF Within, Shown, Logged
      <3>3. b.started => Covered(b, seen, b.generation, b.sequence)
        BY <2>8, <3>1 DEF Covered
      <3> QED
        BY Zenon, <2>10, <2>11, <3>1, <3>2, <3>3 DEF ActorOK
    <2> QED
      BY Zenon, <1>2, <2>1, <2>8, <2>12, QuietStep
  <1> QED
    BY <1>3, <1>4

\* What a load gives: only commits of the generation, and every one of them
\* up to the sequence that is in the log at the last statement.
LEMMA LoadedIsCommitted ==
  ASSUME IInv, NEW r \in Replicas, NEW a \in Actor, a = actor[r],
         a.mode = "rows", NEW seen, ActorOK(a, seen)
  PROVE  /\ Loaded(r) \in SUBSET Updates
         /\ \A u \in Loaded(r) :
              \E x \in history :
                x.update = u /\ x.generation = a.read.generation
         /\ \A x \in updates :
              /\ x.generation = a.read.generation
              /\ x.sequence <= a.read.sequence
              => x.update \in Loaded(r)
  <1> DEFINE g == a.read.generation
             m == a.read.base
             R == RowsBetween(g, m, a.read.sequence)
  <1>1. Loaded(r) = StateAt(g, m) \cup Merged(R)
    BY Zenon DEF Loaded, ActorOK, HasBase
  <1>2. /\ \A x \in history : x.update \in Updates /\ x.sequence \in Nat
        /\ \A x \in updates : x \in history
        /\ m \in Nat
    BY Zenon, RowTyped, ActorTyped DEF IInv
  <1>3. \A x \in R : x \in updates /\ x.generation = g
    BY DEF RowsBetween
  <1>4. \A u \in Loaded(r) :
          \E x \in history : x.update = u /\ x.generation = g
    BY <1>1, <1>2, <1>3, Zenon DEF StateAt, Merged
  <1>5. ASSUME NEW x \in updates, x.generation = g,
               x.sequence <= a.read.sequence
        PROVE  x.update \in Loaded(r)
    <2>1. x \in history /\ x.sequence \in Nat
      BY <1>2
    <2>2. CASE x.sequence <= m
      BY <1>1, <1>5, <2>1, <2>2, Zenon DEF StateAt, Merged
    <2>3. CASE m < x.sequence
      <3>1. x \in R
        BY <1>5, <2>3 DEF RowsBetween
      <3> QED
        BY <1>1, <3>1, Zenon DEF Merged
    <2> QED
      BY <1>2, <2>1, <2>2, <2>3
  <1> QED
    BY Zenon, <1>2, <1>4, <1>5

LEMMA LoadRowsKeeps ==
  ASSUME IInv, NEW r \in Replicas, LoadRows(r)
  PROVE  IInv'
  <1>1. PICK a \in Actor, seen \in SUBSET stream :
          /\ a = actor[r] /\ seen = acked[r] /\ ActorOK(a, seen)
    BY ActorHere DEF LoadRows
  <1>2. PICK d \in SUBSET Updates :
          /\ d = Loaded(r)
          /\ \A u \in d : \E x \in history :
                            x.update = u /\ x.generation = a.read.generation
          /\ \A x \in updates : /\ x.generation = a.read.generation
                                /\ x.sequence <= a.read.sequence
                                => x.update \in d
    BY ZenonT(60), <1>1, LoadedIsCommitted DEF LoadRows
  <1> DEFINE b == [a EXCEPT !.mode = "ready", !.started = TRUE,
                            !.generation = a.read.generation,
                            !.sequence = a.read.sequence,
                            !.doc = d, !.read = NothingRead]
  <1>3. /\ UNCHANGED <<storeVars, stream, acked>>
        /\ a.mode = "rows" /\ ~a.started
        /\ acked' = [acked EXCEPT ![r] = seen]
        /\ actor' = [actor EXCEPT ![r] = b]
    BY <1>1, <1>2, ActorHere DEF LoadRows
  <1>4. /\ a.read.generation \in Generations /\ a.read.sequence \in Sequences
        /\ NothingRead \in Read /\ d \in SUBSET Updates
    BY StoreAssumption DEF Actor, Read, NothingRead, Generations, Sequences
  <1>5. /\ b \in Actor /\ b.mode = "ready" /\ b.started = TRUE
        /\ b.generation = a.read.generation /\ b.sequence = a.read.sequence
        /\ b.doc = d /\ b.target = a.target /\ b.closing = a.closing
    BY Zenon, <1>4 DEF Actor
  <1> HIDE DEF b
  <1>6. Shown(b) /\ Logged(b)
    BY <1>2, <1>5 DEF Shown, Logged
  <1>7. /\ head # NoHead /\ a.target <= head.current
        /\ a.read.sequence <= head.current
        /\ Covered(a, seen, a.read.generation, a.read.sequence)
    BY <1>1, <1>3 DEF ActorOK, Within, Loading
  <1>8. ActorOK(b, seen)
    BY Zenon, <1>5, <1>6, <1>7 DEF ActorOK, Within, Covered, Loading, HasBase
  <1> QED
    BY Zenon, <1>3, <1>5, <1>8, QuietStep

\* A later sequence of the same generation covers no less.
LEMMA CoveredFurther ==
  ASSUME NEW seen \in SUBSET Event, NEW a, NEW b, b.closing = a.closing,
         NEW g \in 1 .. 2, NEW m \in Nat, NEW n \in Nat, m <= n,
         Covered(a, seen, g, m)
  PROVE  Covered(b, seen, g, n)
  <1> SUFFICES ASSUME NEW e \in seen, ~b.closing
               PROVE  Behind(e, g, n)
    BY Zenon DEF Covered
  <1>1. Behind(e, g, m) /\ e.sequence \in Nat
    BY EventTyped DEF Covered
  <1> QED
    BY <1>1 DEF Behind

LEMMA ReloadRowsKeeps ==
  ASSUME IInv, NEW r \in Replicas, ReloadRows(r)
  PROVE  IInv'
  <1>1. PICK a \in Actor, seen \in SUBSET stream :
          /\ a = actor[r] /\ seen = acked[r] /\ ActorOK(a, seen)
          /\ seen \in SUBSET Event
    BY ActorHere DEF ReloadRows
  <1>2. PICK d \in SUBSET Updates :
          /\ d = Loaded(r)
          /\ \A u \in d : \E x \in history :
                            x.update = u /\ x.generation = a.read.generation
          /\ \A x \in updates : /\ x.generation = a.read.generation
                                /\ x.sequence <= a.read.sequence
                                => x.update \in d
    BY ZenonT(60), <1>1, LoadedIsCommitted DEF ReloadRows
  <1> DEFINE Ends == \/ a.read.generation # a.generation
                     \/ a.read.sequence < a.target
                     \/ a.read.sequence < a.sequence
             c == IF a.read.sequence = a.sequence THEN a.doc ELSE a.doc \cup d
             b == [a EXCEPT !.mode = "ready", !.doc = c,
                            !.sequence = a.read.sequence,
                            !.read = NothingRead]
  <1>3. /\ UNCHANGED <<storeVars, stream, acked>>
        /\ a.mode = "rows" /\ a.started
        /\ acked' = [acked EXCEPT ![r] = seen]
        /\ actor' = [actor EXCEPT ![r] = IF Ends THEN NoActor ELSE b]
    BY <1>1, <1>2, ActorHere DEF ReloadRows
  <1>4. CASE Ends
    BY Zenon, <1>3, <1>4, EndKeeps
  <1>5. CASE ~Ends
    <2>1. /\ a.read.sequence \in Sequences /\ NothingRead \in Read
          /\ c \in SUBSET Updates
      BY StoreAssumption DEF Actor, Read, NothingRead, Generations, Sequences
    <2>2. /\ b \in Actor /\ b.mode = "ready" /\ b.started = a.started
          /\ b.generation = a.generation /\ b.sequence = a.read.sequence
          /\ b.doc = c /\ b.target = a.target /\ b.closing = a.closing
      <3> HIDE DEF c
      <3> QED
        BY Zenon, <2>1 DEF Actor
    <2> HIDE DEF b
    <2>3. /\ a.read.generation = a.generation
          /\ a.sequence <= a.read.sequence
          /\ a.sequence \in Nat /\ a.read.sequence \in Nat
          /\ a.generation \in 1 .. 2
      BY <1>5, ActorTyped
    <2>4. /\ head # NoHead /\ a.target <= head.current
          /\ a.read.sequence <= head.current
          /\ Shown(a) /\ Logged(a)
          /\ Covered(a, seen, a.generation, a.sequence)
      BY Zenon, <1>1, <1>3 DEF ActorOK, Within, Loading
    <2>5. Shown(b)
      BY <1>2, <2>2, <2>3, <2>4 DEF Shown
    <2>6. Logged(b)
      BY ZenonT(60), <1>2, <2>2, <2>3, <2>4 DEF Logged
    <2>7. Covered(b, seen, b.generation, b.sequence)
      BY Zenon, <1>1, <2>2, <2>3, <2>4, CoveredFurther
    <2>8. ActorOK(b, seen)
      BY Zenon, <2>2, <2>4, <2>5, <2>6, <2>7 DEF ActorOK, Within, Loading, HasBase
    <2>9. actor' = [actor EXCEPT ![r] = b]
      BY <1>3, <1>5
    <2> QED
      BY Zenon, <1>3, <2>2, <2>8, <2>9, QuietStep
  <1> QED
    BY <1>4, <1>5

-----------------------------------------------------------------------------
(***************************************************************************)
(* Catching up row by row.                                                 *)
(***************************************************************************)
LEMMA ContiguousBetween ==
  ASSUME NEW a \in Actor, a.sequence < a.target
  PROVE  Contiguous(a) \in a.sequence .. a.target
  <1> DEFINE S == {n \in a.sequence .. a.target :
                    \A i \in a.sequence + 1 .. n :
                      \E x \in UpdatesAfter(a.sequence) :
                        x.sequence = i /\ x.generation = a.generation}
  <1>1. a.sequence \in Nat /\ a.target \in Nat
    BY ActorTyped
  <1>2. a.sequence \in S
    <2>1. a.sequence \in a.sequence .. a.target
      BY <1>1
    <2>2. \A i \in a.sequence + 1 .. a.sequence : FALSE
      BY <1>1
    <2> QED
      BY <2>1, <2>2, Zenon
  <1>3. /\ S \subseteq a.sequence .. a.target /\ S \subseteq Int
        /\ \A n \in S : n <= a.target
    BY <1>1
  <1>4. Contiguous(a) = Max(S)
    BY DEF Contiguous
  <1> HIDE DEF S
  <1>5. Max(S) \in S
    <2>1. S # {} /\ a.target \in Int
      BY <1>1, <1>2
    <2>2. PICK t \in Int : t = a.target /\ \A n \in S : n <= t
      BY <1>3, <2>1
    <2>3. \A n \in S : n <= t
      BY <2>2
    <2> QED
      BY Zenon, <1>3, <2>1, <2>3, MaxExists
  <1> QED
    BY Zenon, <1>3, <1>4, <1>5

LEMMA CatchUpKeeps ==
  ASSUME IInv, NEW r \in Replicas, CatchUp(r)
  PROVE  IInv'
  <1>1. PICK a \in Actor, seen \in SUBSET stream :
          /\ a = actor[r] /\ seen = acked[r] /\ ActorOK(a, seen)
          /\ seen \in SUBSET Event
    BY ActorHere DEF CatchUp
  <1>2. PICK n \in a.sequence .. a.target : n = Contiguous(a)
    BY <1>1, ContiguousBetween DEF CatchUp
  <1> DEFINE R == RowsBetween(a.generation, a.sequence, n)
             d == a.doc \cup Merged(R)
             m == IF n < a.target THEN "head" ELSE "ready"
             b == [a EXCEPT !.mode = m, !.sequence = n, !.doc = d]
  <1>3. /\ UNCHANGED <<storeVars, stream, acked>>
        /\ a.mode = "ready"
        /\ acked' = [acked EXCEPT ![r] = seen]
    BY <1>1, ActorHere DEF CatchUp
  <1>4. actor' = [actor EXCEPT ![r] = b]
    <2> DEFINE c == [a EXCEPT !.sequence = n, !.doc = d]
    <2>1. actor' = [actor EXCEPT ![r] = IF n < a.target
                                          THEN [c EXCEPT !.mode = "head"]
                                          ELSE c]
      BY <1>1, <1>2 DEF CatchUp
    <2>2. n < a.target => [c EXCEPT !.mode = "head"] = b
      BY Zenon DEF Actor
    <2>3. ~(n < a.target) => c = b
      BY Zenon, <1>3 DEF Actor
    <2> QED
      BY Zenon, <2>1, <2>2, <2>3
  <1>5. /\ a.sequence \in Nat /\ a.target \in Nat /\ n \in Nat
        /\ a.sequence <= n /\ n <= a.target /\ a.generation \in 1 .. 2
    BY ActorTyped
  <1>6. /\ \A x \in updates : x \in history /\ x.sequence \in Nat
        /\ \A x \in history : x.update \in Updates
    BY RowTyped DEF IInv
  <1>7. n \in Sequences /\ d \in SUBSET Updates /\ m \in {"head", "ready"}
    <2>1. a.target \in Sequences /\ a.doc \in SUBSET Updates
      BY DEF Actor
    <2>2. n \in Sequences
      BY <1>5, <2>1, StoreAssumption DEF Sequences
    <2>3. d \in SUBSET Updates
      BY <1>6, <2>1, Zenon DEF Merged, RowsBetween
    <2> QED
      BY <2>2, <2>3
  <1>8. /\ b \in Actor /\ b.mode \in {"head", "ready"}
        /\ b.started = a.started /\ b.generation = a.generation
        /\ b.sequence = n /\ b.doc = d
        /\ b.target = a.target /\ b.closing = a.closing
    <2> HIDE DEF d, m
    <2> QED
      BY Zenon, <1>7 DEF Actor
  <1> HIDE DEF b, m
  <1>9. /\ head # NoHead /\ a.target <= head.current
        /\ Shown(a) /\ Logged(a)
        /\ a.started => Covered(a, seen, a.generation, a.sequence)
    BY Zenon, <1>1 DEF ActorOK, Within
  <1>10. \A x \in R : x \in updates /\ x.generation = a.generation
    BY DEF RowsBetween
  <1>11. Shown(b)
    <2> SUFFICES ASSUME NEW u \in d
                 PROVE  \E x \in history :
                          x.update = u /\ x.generation = a.generation
      BY <1>8 DEF Shown
    <2>1. CASE u \in a.doc
      BY Zenon, <1>9, <2>1 DEF Shown
    <2>2. CASE u \in Merged(R)
      <3>1. PICK x \in R : u = x.update
        BY <2>2, Zenon DEF Merged
      <3> QED
        BY <1>6, <1>10, <3>1
    <2> QED
      BY <2>1, <2>2
  <1>12. Logged(b)
    <2> SUFFICES ASSUME NEW x \in updates, x.generation = a.generation,
                        x.sequence <= n
                 PROVE  x.update \in d
      BY <1>8 DEF Logged
    <2>1. CASE x.sequence <= a.sequence
      BY Zenon, <1>9, <2>1 DEF Logged
    <2>2. CASE a.sequence < x.sequence
      <3>1. x \in R
        BY <2>2 DEF RowsBetween
      <3> QED
        BY <3>1, Zenon DEF Merged
    <2> QED
      BY <1>5, <1>6, <2>1, <2>2
  <1>13. b.started => Covered(b, seen, b.generation, b.sequence)
    <2>1. seen \in SUBSET Event /\ a.sequence \in Nat /\ n \in Nat
          /\ a.sequence <= n /\ a.generation \in 1 .. 2
      BY <1>1, <1>5, <1>9
    <2>2. a.started => Covered(b, seen, a.generation, n)
      BY Zenon, <1>8, <1>9, <2>1, CoveredFurther
    <2> QED
      BY Zenon, <1>8, <2>2
  <1>14. Within(b)
    <2>1. head.current \in Nat
      BY <1>9, HeadTyped DEF IInv, RowsInv
    <2> QED
      BY <1>5, <1>8, <1>9, <2>1 DEF Within
  <1>15. ActorOK(b, seen)
    BY Zenon, <1>8, <1>9, <1>11, <1>12, <1>13, <1>14 DEF ActorOK, Loading, HasBase
  <1> QED
    BY Zenon, <1>3, <1>4, <1>8, <1>15, QuietStep
-----------------------------------------------------------------------------
(***************************************************************************)
(* A client's update, committed before it is shown.                        *)
(***************************************************************************)
\* What the commit leaves: the stored state and the update are all that the
\* generation has, and all of it is committed.
LEMMA CommitIsStored ==
  ASSUME IInv, NEW u \in Updates, AppendUpdate(u)
  PROVE  /\ head # NoHead /\ head' # NoHead
         /\ head.current \in Nat /\ head'.current \in Sequences
         /\ head'.current \in Nat /\ head.current <= head'.current
         /\ Stored \in SUBSET Updates
         /\ \A v \in Stored \cup {u} :
              \E x \in history' : x.update = v /\ x.generation = head.generation
         /\ \A x \in updates' :
              x.generation = head.generation => x.update \in Stored \cup {u}
  <1> DEFINE g == head.generation
             y == [generation |-> g, sequence |-> head.current + 1,
                   update |-> u]
  <1>1. head # NoHead /\ RowsInv
    BY DEF AppendUpdate, IInv
  <1>2. RowsStep
    BY DEF RowsStep
  <1>3. /\ head.current \in Nat /\ head' # NoHead /\ head'.current \in Nat
        /\ head.current <= head'.current
    BY <1>1, <1>2, HeadTyped, StepMovesOn DEF RowsInv
  <1>4. head'.current \in Sequences
    <2>1. RowsInv'
      BY <1>1, <1>2, StepKeepsRows
    <2> QED
      BY <1>3, <2>1 DEF RowsInv, RowsTypeOK, HeadRow
  <1>5. Stored = StateAt(g, head.current)
    BY <1>1, StoredIsCommitted
  <1>6. /\ \A x \in history : x.update \in Updates
        /\ \A x \in updates : x \in history /\ x.sequence <= head.current
    BY <1>1, RowTyped
  <1>7. \A v \in Stored :
          \E x \in history : x.update = v /\ x.generation = g
    BY <1>5, Zenon DEF StateAt, Merged
  <1>8. \A x \in updates : x.generation = g => x.update \in Stored
    BY <1>5, <1>6, Zenon DEF StateAt, Merged
  <1>9. \/ u \in Stored /\ history' = history /\ updates' = updates
        \/ history' = history \cup {y} /\ updates' = updates \cup {y}
    BY DEF AppendUpdate, storeVars
  <1>10. y.update = u /\ y.generation = g
    OBVIOUS
  <1> HIDE DEF y
  <1>11. \A v \in Stored \cup {u} :
           \E x \in history' : x.update = v /\ x.generation = g
    BY <1>7, <1>9, <1>10
  <1>12. \A x \in updates' : x.generation = g => x.update \in Stored \cup {u}
    BY <1>8, <1>9, <1>10
  <1>13. Stored \in SUBSET Updates
    BY <1>6, <1>7
  <1> QED
    BY <1>1, <1>3, <1>4, <1>11, <1>12, <1>13

LEMMA ClientUpdateKeeps ==
  ASSUME IInv, NEW r \in Replicas, NEW u \in Updates, ClientUpdate(r, u)
  PROVE  IInv'
  <1>1. PICK a \in Actor, seen \in SUBSET stream :
          /\ a = actor[r] /\ seen = acked[r] /\ ActorOK(a, seen)
          /\ seen \in SUBSET Event
    BY ActorHere DEF ClientUpdate, Free
  <1>2. AppendUpdate(u) /\ a.mode = "ready"
    BY <1>1 DEF ClientUpdate, Free
  <1>3. /\ stream' = stream /\ acked' = [acked EXCEPT ![r] = seen]
    BY <1>1, ActorHere DEF ClientUpdate
  <1>4. StoreStep
    BY <1>2 DEF StoreStep
  <1>5. CASE head.generation # a.generation
    <2>1. actor' = [actor EXCEPT ![r] = a]
      BY <1>1, <1>5 DEF ClientUpdate
    <2>2. ActorOK(a, seen)'
      BY Zenon, <1>1, <1>4, StoreStepIsRowsStep, ActorKept DEF IInv
    <2>3. a \in Actor \cup {NoActor}
      OBVIOUS
    <2> QED
      BY Zenon, <1>3, <1>4, <2>1, <2>2, <2>3, ReplicaStep
  <1>6. CASE head.generation = a.generation
    <2>1. PICK d, n : /\ d = a.doc \cup Stored \cup {u}
                      /\ n = head'.current
      BY Zenon
    <2> DEFINE b == [a EXCEPT !.doc = d, !.sequence = n]
    <2>2. actor' = [actor EXCEPT ![r] = b]
      BY <1>1, <1>6, <2>1 DEF ClientUpdate
    <2>3. /\ head # NoHead /\ head' # NoHead
          /\ head.current \in Nat /\ n \in Sequences
          /\ n \in Nat /\ head.current <= n
          /\ Stored \in SUBSET Updates
          /\ \A v \in Stored \cup {u} :
               \E x \in history' : x.update = v /\ x.generation = a.generation
          /\ \A x \in updates' :
               x.generation = a.generation => x.update \in Stored \cup {u}
      BY <1>2, <1>6, <2>1, CommitIsStored
    <2>4. a.doc \in SUBSET Updates /\ a.sequence \in Nat /\ a.target \in Nat
          /\ a.generation \in 1 .. 2
      BY ActorTyped
    <2>5. d \in SUBSET Updates
      BY Zenon, <2>1, <2>3, <2>4
    <2>6. n \in Sequences
      BY <2>3
    <2>7. /\ b \in Actor /\ b.mode = a.mode /\ b.started = a.started
          /\ b.generation = a.generation /\ b.sequence = n /\ b.doc = d
          /\ b.target = a.target /\ b.closing = a.closing
      BY Zenon, <2>5, <2>6 DEF Actor
    <2>8. PICK c \in Actor : c = b
      BY <2>7
    <2> HIDE DEF b
    <2>9. /\ c.mode = "ready" /\ c.started = a.started
          /\ c.generation = a.generation /\ c.sequence = n /\ c.doc = d
          /\ c.target = a.target /\ c.closing = a.closing
      BY <1>2, <2>7, <2>8
    <2>10. /\ a.sequence <= head.current /\ a.target <= head.current
           /\ Shown(a)
           /\ a.started => Covered(a, seen, a.generation, a.sequence)
      BY Zenon, <1>1 DEF ActorOK, Within
    <2>11. Within(c)'
      BY <2>1, <2>3, <2>4, <2>9, <2>10 DEF Within
    <2>12. Shown(c)'
      <3>1. history \subseteq history'
        BY Zenon, <1>4, <2>3, StoreStepIsRowsStep, StepAddsPastHead DEF IInv
      <3>2. \A v \in d :
              \E x \in history' : x.update = v /\ x.generation = a.generation
        BY ZenonT(60), <2>1, <2>3, <2>10, <3>1 DEF Shown
      <3> QED
        BY <2>9, <3>2 DEF Shown
    <2>13. Logged(c)'
      BY Zenon, <2>1, <2>3, <2>9 DEF Logged
    <2>14. a.started => Covered(c, seen, a.generation, n)
      <3>1. a.sequence <= n
        BY <2>3, <2>4, <2>10
      <3> QED
        BY <1>1, <2>3, <2>4, <2>9, <2>10, <3>1, CoveredFurther
    <2>15. ActorOK(c, seen)'
      BY Zenon, <2>3, <2>9, <2>11, <2>12, <2>13, <2>14
      DEF ActorOK, Loading, HasBase, Covered
    <2>16. c \in Actor \cup {NoActor}
      OBVIOUS
    <2> QED
      BY Zenon, <1>3, <1>4, <2>2, <2>8, <2>15, <2>16, ReplicaStep
  <1> QED
    BY <1>5, <1>6
-----------------------------------------------------------------------------
(***************************************************************************)
(* The events.                                                             *)
(***************************************************************************)
LEMMA DeliverIdleKeeps ==
  ASSUME IInv, NEW r \in Replicas, NEW e \in stream, DeliverIdle(r, e)
  PROVE  IInv'
  <1>1. PICK seen \in SUBSET stream : seen = acked[r] \cup {e}
    BY Zenon, ActorHere
  <1>2. /\ acked' = [acked EXCEPT ![r] = seen]
        /\ actor' = [actor EXCEPT ![r] = NoActor]
        /\ UNCHANGED storeVars /\ stream' = stream
    BY <1>1 DEF DeliverIdle, IInv, TypeOK
  <1> QED
    BY Zenon, <1>2, QuietStep

LEMMA DeliverPurgedKeeps ==
  ASSUME IInv, NEW r \in Replicas, NEW e \in stream, DeliverPurged(r, e)
  PROVE  IInv'
  <1>1. PICK a \in Actor : a = actor[r] /\ ActorOK(a, acked[r])
    BY Zenon, ActorHere DEF DeliverPurged
  <1>2. PICK seen \in SUBSET stream : seen = acked[r] \cup {e}
    BY Zenon, ActorHere
  <1> DEFINE b == [a EXCEPT !.closing = TRUE]
  <1>3. /\ acked' = [acked EXCEPT ![r] = seen]
        /\ actor' = [actor EXCEPT ![r] = b]
        /\ UNCHANGED storeVars /\ stream' = stream
    BY <1>1, <1>2 DEF DeliverPurged
  <1>4. /\ b \in Actor /\ b.closing = TRUE /\ b.mode = a.mode
        /\ b.started = a.started /\ b.generation = a.generation
        /\ b.sequence = a.sequence /\ b.doc = a.doc
        /\ b.target = a.target /\ b.read = a.read
    BY Zenon DEF Actor
  <1> HIDE DEF b
  <1>5. ActorOK(b, seen)
    <2>1. /\ head # NoHead /\ Within(a) /\ Shown(a) /\ Logged(a) /\ HasBase(a)
          /\ a.mode \in {"snapshot", "rows"} => a.read.sequence <= head.current
      BY Zenon, <1>1 DEF ActorOK, Loading
    <2>2. Within(b) /\ Shown(b) /\ Logged(b)
      BY <1>4, <2>1 DEF Within, Shown, Logged
    <2>3. HasBase(b) /\ (b.mode \in {"snapshot", "rows"} =>
                            b.read.sequence <= head.current)
      BY <1>4, <2>1 DEF HasBase
    <2>4. \A g, s : Covered(b, seen, g, s)
      BY Zenon, <1>4 DEF Covered
    <2> QED
      BY Zenon, <1>4, <2>1, <2>2, <2>3, <2>4 DEF ActorOK, Loading
  <1> QED
    BY Zenon, <1>3, <1>4, <1>5, QuietStep

\* Between two commands an actor is at no load.
LEMMA TargetMoves ==
  ASSUME IInv, NEW r \in Replicas, NEW a \in Actor, a = actor[r],
         a.mode = "ready", NEW n \in Sequences,
         head # NoHead => n <= head.current,
         actor' = [actor EXCEPT ![r].target = n],
         NEW seen \in SUBSET stream, acked' = [acked EXCEPT ![r] = seen],
         ActorOK(a, acked[r]),
         \A e \in seen \ acked[r] : Behind(e, a.generation, a.sequence),
         UNCHANGED storeVars, stream' = stream
  PROVE  IInv'
  <1> DEFINE b == [a EXCEPT !.target = n]
  <1>1. actor' = [actor EXCEPT ![r] = b]
    OBVIOUS
  <1>2. /\ b \in Actor /\ b.closing = a.closing /\ b.mode = "ready"
        /\ b.started = a.started /\ b.generation = a.generation
        /\ b.sequence = a.sequence /\ b.doc = a.doc /\ b.target = n
    BY DEF Actor
  <1> HIDE DEF b
  <1>3. ActorOK(b, seen)
    BY <1>2 DEF ActorOK, Within, Shown, Logged, Covered, Loading, HasBase
  <1> QED
    BY Zenon, <1>1, <1>2, <1>3, QuietStep

LEMMA DeliverUpdatedKeeps ==
  ASSUME IInv, NEW r \in Replicas, NEW e \in stream, DeliverUpdated(r, e)
  PROVE  IInv'
  <1>1. PICK a \in Actor : a = actor[r] /\ ActorOK(a, acked[r])
    BY ActorHere DEF DeliverUpdated, Free
  <1>2. /\ e \in Event /\ e.sequence <= head.current
        /\ a.mode = "ready" /\ e.kind = "updated"
        /\ UNCHANGED storeVars /\ stream' = stream
        /\ acked[r] \in SUBSET stream
        /\ acked' = acked => acked' = [acked EXCEPT ![r] = acked[r]]
    BY <1>1, ActorHere DEF DeliverUpdated, Free, IInv, TypeOK, Events
  <1>3. CASE /\ e.generation = a.generation /\ e.sequence <= a.sequence
             /\ acked' = [acked EXCEPT ![r] = @ \cup {e}] /\ actor' = actor
    <2>1. PICK seen \in SUBSET stream : seen = acked[r] \cup {e}
      BY Zenon, <1>2
    <2>2. /\ acked' = [acked EXCEPT ![r] = seen]
          /\ actor' = [actor EXCEPT ![r] = a]
      BY <1>1, <1>3, <2>1 DEF IInv, TypeOK
    <2>3. Behind(e, a.generation, a.sequence)
      BY <1>3 DEF Behind
    <2>4. ActorOK(a, seen)
      BY Zenon, <1>1, <1>2, <2>1, <2>3 DEF ActorOK, Covered, Loading
    <2> QED
      BY Zenon, <1>2, <2>2, <2>4, QuietStep
  <1>4. CASE actor' = [actor EXCEPT ![r] = NoActor] /\ acked' = acked
    BY Zenon, <1>2, <1>4, EndKeeps
  <1>5. CASE actor' = [actor EXCEPT ![r].target = e.sequence] /\ acked' = acked
    <2>1. PICK n \in Sequences : n = e.sequence
      BY <1>2 DEF Event
    <2>2. PICK seen \in SUBSET stream : seen = acked[r]
      BY <1>2
    <2>3. /\ actor' = [actor EXCEPT ![r].target = n]
          /\ acked' = [acked EXCEPT ![r] = seen] /\ n <= head.current
      BY <1>2, <1>5, <2>1, <2>2
    <2>4. \A x \in seen \ acked[r] : Behind(x, a.generation, a.sequence)
      BY <2>2
    <2> QED
      BY Zenon, <1>1, <1>2, <2>3, <2>4, TargetMoves
  <1> QED
    BY <1>1, <1>3, <1>4, <1>5 DEF DeliverUpdated

LEMMA AcknowledgeKeeps ==
  ASSUME IInv, NEW r \in Replicas, NEW e \in stream, Acknowledge(r, e)
  PROVE  IInv'
  <1>1. PICK a \in Actor : a = actor[r] /\ ActorOK(a, acked[r])
    BY ActorHere DEF Acknowledge
  <1>2. /\ a.mode = "ready" /\ a.sequence >= a.target
        /\ e = [kind |-> "updated", generation |-> a.generation,
                sequence |-> a.target]
        /\ UNCHANGED storeVars /\ stream' = stream
        /\ actor' = [actor EXCEPT ![r].target = 0]
        /\ acked[r] \in SUBSET stream
    BY <1>1, ActorHere DEF Acknowledge
  <1>3. PICK seen \in SUBSET stream :
          /\ acked' = [acked EXCEPT ![r] = seen]
          /\ seen \subseteq acked[r] \cup {e}
    <2>1. CASE acked' = acked
      BY Zenon, <1>2, <2>1, ActorHere
    <2>2. CASE acked' = [acked EXCEPT ![r] = @ \cup {e}]
      BY Zenon, <1>2, <2>2
    <2> QED
      BY Zenon, <2>1, <2>2 DEF Acknowledge
  <1>4. Behind(e, a.generation, a.sequence)
    BY <1>2, ActorTyped DEF Behind
  <1>5. \A x \in seen \ acked[r] : Behind(x, a.generation, a.sequence)
    BY <1>3, <1>4
  <1>6. 0 \in Sequences /\ (head # NoHead => 0 <= head.current)
    BY StoreAssumption, HeadTyped DEF Sequences, IInv, RowsInv
  <1> QED
    BY Zenon, <1>1, <1>2, <1>3, <1>5, <1>6, TargetMoves

\* A step that no actor takes part in.
LEMMA ElsewhereKeeps ==
  ASSUME IInv, StoreStep, UNCHANGED <<stream, acked, actor>>
  PROVE  IInv'
  <1>1. /\ RowsInv' /\ StoreTypeOK' /\ outbox \subseteq outbox'
        /\ head' = NoHead => outbox' = {}
        /\ \A e \in outbox' : /\ e.generation <= head'.generation
                              /\ e.sequence <= head'.current
    BY StoreStepKeeps
  <1>2. TypeOK'
    BY <1>1 DEF IInv, TypeOK
  <1>3. Events'
    BY <1>1 DEF IInv, Events
  <1>4. Actors'
    BY StoreStepIsRowsStep, NoActorMoves DEF IInv
  <1> QED
    BY <1>1, <1>2, <1>3, <1>4 DEF IInv

LEMMA PublishKeeps ==
  ASSUME IInv, NEW e \in outbox, Publish(e)
  PROVE  IInv'
  <1>1. /\ stream' = stream \cup {e}
        /\ UNCHANGED <<storeVars, acked, actor>>
    BY DEF Publish
  <1>2. StoreStep
    BY <1>1 DEF StoreStep
  <1>3. /\ RowsInv' /\ StoreTypeOK'
    BY <1>2, StoreStepKeeps
  <1>4. TypeOK'
    BY Zenon, <1>1, <1>3 DEF IInv, TypeOK, StoreTypeOK
  <1>5. Events'
    BY <1>1 DEF IInv, Events, storeVars
  <1>6. Actors'
    BY <1>1, <1>2, StoreStepIsRowsStep, NoActorMoves DEF IInv
  <1> QED
    BY <1>3, <1>4, <1>5, <1>6 DEF IInv

-----------------------------------------------------------------------------
LEMMA InitKeeps == Init => IInv
  <1> SUFFICES ASSUME Init PROVE IInv
    OBVIOUS
  <1>1. RowsInv
    BY RowsInitOK DEF Init
  <1>2. TypeOK
    BY DEF Init, StoreInit, TypeOK, StoreTypeOK
  <1>3. Events
    BY DEF Init, StoreInit, Events
  <1>4. Actors
    BY DEF Init, Actors
  <1> QED
    BY <1>1, <1>2, <1>3, <1>4 DEF IInv

LEMMA NextKeeps == IInv /\ [Next]_vars => IInv'
  <1> SUFFICES ASSUME IInv, [Next]_vars PROVE IInv'
    OBVIOUS
  <1>1. CASE Maintain
    BY <1>1, ElsewhereKeeps DEF Maintain, StoreStep
  <1>2. ASSUME NEW u \in Updates, UpdateElsewhere(u) PROVE IInv'
    BY <1>2, ElsewhereKeeps DEF UpdateElsewhere, StoreStep
  <1>3. ASSUME NEW e \in outbox, Publish(e) PROVE IInv'
    BY <1>3, PublishKeeps
  <1>4. ASSUME NEW r \in Replicas, Start(r) PROVE IInv'
    BY <1>4, StartKeeps
  <1>5. ASSUME NEW r \in Replicas, Stop(r) \/ Invalidated(r) PROVE IInv'
    BY <1>5, EndKeeps DEF Stop, Invalidated
  <1>6. ASSUME NEW r \in Replicas, Load(r) PROVE IInv'
    BY <1>6, LoadHeadKeeps, LoadSnapshotKeeps, LoadRowsKeeps, ReloadRowsKeeps
    DEF Load
  <1>7. ASSUME NEW r \in Replicas, CatchUp(r) PROVE IInv'
    BY <1>7, CatchUpKeeps
  <1>8. ASSUME NEW r \in Replicas, NEW u \in Updates, ClientUpdate(r, u)
        PROVE  IInv'
    BY <1>8, ClientUpdateKeeps
  <1>9. ASSUME NEW r \in Replicas, NEW e \in stream, Deliver(r, e)
        PROVE  IInv'
    BY <1>9, DeliverIdleKeeps, DeliverPurgedKeeps, DeliverUpdatedKeeps,
       AcknowledgeKeeps
    DEF Deliver
  <1>10. CASE UNCHANGED vars
    BY <1>10, ElsewhereKeeps DEF vars, StoreStep
  <1> QED
    BY Zenon, <1>1, <1>2, <1>3, <1>4, <1>5, <1>6, <1>7, <1>8, <1>9, <1>10 DEF Next

\* What the invariant says of the actors.
LEMMA InvShows == IInv => OnlyCommittedShown /\ AckedIsApplied /\ LoggedIsShown
  <1> SUFFICES ASSUME IInv
               PROVE  OnlyCommittedShown /\ AckedIsApplied /\ LoggedIsShown
    OBVIOUS
  <1>1. \A r \in Replicas : actor[r] # NoActor => ActorOK(actor[r], acked[r])
    BY Zenon DEF IInv, Actors
  <1>2. OnlyCommittedShown
    BY Zenon, <1>1 DEF OnlyCommittedShown, ActorOK, Shown
  <1>3. AckedIsApplied
    BY Zenon, <1>1 DEF AckedIsApplied, ActorOK, Covered, Behind
  <1>4. LoggedIsShown
    BY Zenon, <1>1 DEF LoggedIsShown, ActorOK, Logged
  <1> QED
    BY <1>2, <1>3, <1>4

-----------------------------------------------------------------------------
(***************************************************************************)
(* The invariant is inductive: every transaction on the rows, every step   *)
(* of an actor and every delivery keeps it.                                *)
(***************************************************************************)
THEOREM ReplicaInvariance == Spec => []IInv
  BY InitKeeps, NextKeeps, PTL DEF Spec

(***************************************************************************)
(* The rows, the events and the actors keep their types: in particular an  *)
(* actor's sequence, its target and what a load reads stay within the log, *)
(* because none of them passes the head.                                   *)
(***************************************************************************)
THEOREM ReplicaTypes == Spec => []TypeOK
  BY ReplicaInvariance, PTL DEF IInv

(***************************************************************************)
(* However the statements of a load interleave with commits, compactions   *)
(* and a purge, and on whatever replica, an actor shows its clients only   *)
(* updates that were committed in the generation it serves.                *)
(***************************************************************************)
THEOREM ShownIsCommitted == Spec => []OnlyCommittedShown
  BY ReplicaInvariance, InvShows, PTL

(***************************************************************************)
(* An event that a replica has acknowledged, with or without an actor, is  *)
(* behind every actor of it that serves clients, or the actor is about to  *)
(* end.                                                                    *)
(***************************************************************************)
THEOREM AcknowledgedIsApplied == Spec => []AckedIsApplied
  BY ReplicaInvariance, InvShows, PTL

(***************************************************************************)
(* No actor passes over an update that is still in the log, neither by a   *)
(* load nor by catching up row by row nor by committing its own.           *)
(***************************************************************************)
THEOREM LogIsShown == Spec => []LoggedIsShown
  BY ReplicaInvariance, InvShows, PTL
=============================================================================
