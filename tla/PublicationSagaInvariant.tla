---------------------- MODULE PublicationSagaInvariant ----------------------
(***************************************************************************)
(* Proofs about the publication references of Attachment, and the          *)
(* inductive invariant of the publication saga that drives them, for any   *)
(* number of documents, owners, workers, attachments, generations,         *)
(* attempts and delayed calls.                                             *)
(*                                                                         *)
(* The first part is about AttachmentReferences alone and its              *)
(* specification RefSpec; the second states the invariant of the saga and  *)
(* proves the lemmas about its parts.                                      *)
(***************************************************************************)
EXTENDS PublicationSaga, TLAPS

(***************************************************************************)
(* What makes the properties inductive: a head that does not exist is      *)
(* empty, a staged generation is newer than the active one, and a hash     *)
(* column is set exactly when its generation is.                           *)
(***************************************************************************)
HeadOK(h) ==
  /\ ~h.present => h = NoHead
  /\ h.staged # 0 => h.staged > h.active /\ h.stagedHash \in Hashes
  /\ h.staged = 0 => h.stagedHash = NoHash
  /\ h.active # 0 => h.activeHash \in Hashes
  /\ h.active = 0 => h.activeHash = NoHash

RefInv ==
  /\ RefTypeOK
  /\ \A d \in Docs : HeadOK(head[d])
  /\ HeadDescribesReferences

-----------------------------------------------------------------------------
(***************************************************************************)
(* The initial state, without any head or row, satisfies the invariant.    *)
(***************************************************************************)
LEMMA RefInitOK == RefInit => RefInv
  <1> SUFFICES ASSUME RefInit PROVE RefInv
    OBVIOUS
  <1>1. NoHead \in Heads
    BY DEF NoHead, Heads
  <1>2. RefTypeOK
    BY <1>1 DEF RefInit, RefTypeOK
  <1>3. \A d \in Docs : HeadOK(head[d])
    BY Zenon DEF RefInit, HeadOK, NoHead
  <1>4. HeadDescribesReferences
    BY Zenon DEF RefInit, HeadDescribesReferences, Promised, NoHead
  <1> QED
    BY <1>2, <1>3, <1>4 DEF RefInv

(***************************************************************************)
(* A step replaces the head and the rows of one document.  If both have    *)
(* their types and fit together, the step keeps the invariant.             *)
(***************************************************************************)
LEMMA OneDocument ==
  ASSUME RefInv,
         NEW d \in Docs, NEW h \in Heads, NEW rs \in SUBSET References,
         HeadOK(h), rs = Promised(h),
         head' = [head EXCEPT ![d] = h],
         refs' = [refs EXCEPT ![d] = rs]
  PROVE  RefInv'
  <1>1. RefTypeOK'
    BY DEF RefInv, RefTypeOK
  <1>2. \A e \in Docs : head'[e] = IF e = d THEN h ELSE head[e]
    BY DEF RefInv, RefTypeOK
  <1>3. \A e \in Docs : refs'[e] = IF e = d THEN rs ELSE refs[e]
    BY DEF RefInv, RefTypeOK
  <1>4. \A e \in Docs : HeadOK(head'[e])
    BY <1>2 DEF RefInv
  <1>5. \A e \in Docs : refs'[e] = Promised(head'[e])
    BY <1>2, <1>3 DEF RefInv, HeadDescribesReferences
  <1> QED
    BY <1>1, <1>4, <1>5 DEF RefInv, HeadDescribesReferences

\* The hash of a command.
LEMMA HashOfCommand ==
  ASSUME NEW c \in Commands
  PROVE  /\ RequestHash(c) \in Hashes
         /\ RequestHash(c) # NoHash
         /\ RequestHash(c).ids = c.ids
         /\ c.generation \in Generations /\ c.generation \in Nat /\ c.generation > 0
         /\ c.doc \in Docs /\ c.owner \in Owners /\ c.ids \subseteq Attachments
  BY NoValueAssumption, BoundAssumption DEF RequestHash, Hashes, Commands, Generations

\* Staging over a head that promises its rows leaves those of the new head.
LEMMA StagedRefsPromised ==
  ASSUME NEW c \in Commands, NEW h, NEW new, HeadOK(h),
         h.active \in Nat, h.staged \in Nat,
         c.generation > h.active, c.generation > h.staged,
         new.active = h.active, new.activeHash = h.activeHash,
         new.staged = c.generation, new.stagedHash = RequestHash(c)
  PROVE  StagedRefs(h, Promised(h), c) = Promised(new)
  <1>1. ASSUME NEW r \in StagedRefs(h, Promised(h), c) PROVE r \in Promised(new)
    BY <1>1, HashOfCommand DEF StagedRefs, Promised, HeadOK
  <1>2. ASSUME NEW r \in Promised(new) PROVE r \in StagedRefs(h, Promised(h), c)
    BY <1>2, HashOfCommand DEF StagedRefs, Promised, HeadOK
  <1> QED
    BY Zenon, <1>1, <1>2

(***************************************************************************)
(* StagePublicationReferences keeps the invariant: the rows it leaves are  *)
(* the active ones, and the ones it adds are those of the command.         *)
(***************************************************************************)
LEMMA StageKeeps ==
  ASSUME RefInv, NEW c \in Commands, NEW valid \in BOOLEAN,
         StageApplies(head[c.doc], c, valid),
         StagePublicationReferences(c, valid)
  PROVE  RefInv' /\ c.generation > Latest(head[c.doc])
  <1> DEFINE d == c.doc
             h == head[d]
             new == [present |-> TRUE, owner |-> c.owner,
                     active |-> h.active, activeHash |-> h.activeHash,
                     staged |-> c.generation, stagedHash |-> RequestHash(c)]
  <1>1. /\ d \in Docs /\ h \in Heads /\ HeadOK(h) /\ refs[d] = Promised(h)
        /\ refs[d] \subseteq References
    BY HashOfCommand DEF RefInv, RefTypeOK, HeadDescribesReferences
  <1>2. /\ h.active \in Nat /\ h.staged \in Nat
        /\ h.active \in {0} \cup Generations /\ h.staged \in {0} \cup Generations
        /\ h.activeHash \in Hashes \cup {NoHash} /\ h.stagedHash \in Hashes \cup {NoHash}
        /\ h.present \in BOOLEAN
    BY <1>1, BoundAssumption DEF Heads, Generations
  <1>3. c.generation > h.active /\ c.generation > h.staged
    <2>1. CASE ~h.present
      BY <2>1, <1>1, HashOfCommand DEF HeadOK, NoHead
    <2>2. CASE h.present
      BY <2>2, <1>1, <1>2, HashOfCommand
         DEF StageApplies, StageOvertaken, StageRepeated, Latest, HeadOK
    <2> QED
      BY <2>1, <2>2, <1>2
  <1>4. new \in Heads
    BY <1>2, HashOfCommand DEF Heads
  <1>5. HeadOK(new)
    BY <1>1, <1>2, <1>3, HashOfCommand DEF HeadOK
  <1>6. StagedRefs(h, refs[d], c) = Promised(new)
    <2>1. /\ new.active = h.active /\ new.activeHash = h.activeHash
          /\ new.staged = c.generation /\ new.stagedHash = RequestHash(c)
      OBVIOUS
    <2>2. StagedRefs(h, Promised(h), c) = Promised(new)
      BY Zenon, <1>1, <1>2, <1>3, <2>1, StagedRefsPromised
    <2> QED
      BY Zenon, <1>1, <2>2
  <1>7. StagedRefs(h, refs[d], c) \in SUBSET References
    BY <1>1, HashOfCommand DEF StagedRefs, References
  <1>8. /\ head' = [head EXCEPT ![d] = new]
        /\ refs' = [refs EXCEPT ![d] = StagedRefs(h, refs[d], c)]
    BY DEF StagePublicationReferences
  <1>9. RefInv'
    BY Zenon, <1>1, <1>4, <1>5, <1>6, <1>7, <1>8, OneDocument
  <1> QED
    BY <1>2, <1>3, <1>9 DEF Latest

(***************************************************************************)
(* FinalizePublicationReferences keeps the invariant: the rows it leaves   *)
(* are those of the staged generation, which the stored hash describes.    *)
(***************************************************************************)
LEMMA FinalizeKeeps ==
  ASSUME RefInv, NEW c \in Commands,
         FinalizeApplies(head[c.doc], c),
         FinalizePublicationReferences(c)
  PROVE  /\ RefInv'
         /\ refs'[c.doc] \subseteq refs[c.doc]
         /\ Latest(head[c.doc]) = c.generation
         /\ Latest(head'[c.doc]) = c.generation
  <1> DEFINE d == c.doc
             h == head[d]
             new == [present |-> TRUE, owner |-> h.owner,
                     active |-> c.generation, activeHash |-> RequestHash(c),
                     staged |-> 0, stagedHash |-> NoHash]
             kept == {r \in refs[d] : r.generation >= c.generation}
  <1>1. /\ d \in Docs /\ h \in Heads /\ HeadOK(h) /\ refs[d] = Promised(h)
        /\ refs[d] \subseteq References
    BY HashOfCommand DEF RefInv, RefTypeOK, HeadDescribesReferences
  <1>2. /\ h.active \in Nat /\ h.staged \in Nat
        /\ h.owner \in Owners \cup {NoOwner}
    BY <1>1, BoundAssumption DEF Heads, Generations
  <1>3. /\ h.staged = c.generation /\ h.stagedHash = RequestHash(c)
        /\ h.active < c.generation
    BY <1>1, <1>2, HashOfCommand DEF FinalizeApplies, HeadOK
  <1>4. new \in Heads
    BY <1>2, HashOfCommand DEF Heads
  <1>5. HeadOK(new)
    BY HashOfCommand DEF HeadOK
  <1>6. kept = Promised(new)
    <2>1. Promised(new) = {[attachment |-> a, generation |-> c.generation] : a \in c.ids}
      BY HashOfCommand DEF Promised
    <2>2. \A r \in Promised(h) :
            r.generation >= c.generation
              <=> r \in {[attachment |-> a, generation |-> c.generation] : a \in c.ids}
      BY <1>2, <1>3, HashOfCommand DEF Promised
    <2>3. {[attachment |-> a, generation |-> c.generation] : a \in c.ids} \subseteq Promised(h)
      BY <1>3, HashOfCommand DEF Promised
    <2> QED
      BY Zenon, <1>1, <2>1, <2>2, <2>3
  <1>7. /\ head' = [head EXCEPT ![d] = new]
        /\ refs' = [refs EXCEPT ![d] = kept]
    BY DEF FinalizePublicationReferences
  <1>8. RefInv'
    <2>1. kept \in SUBSET References
      BY <1>1
    <2> QED
      BY Zenon, <1>1, <1>4, <1>5, <1>6, <1>7, <2>1, OneDocument
  <1>9. head'[d] = new /\ refs'[d] = kept
    BY Zenon, <1>1, <1>7 DEF RefInv, RefTypeOK
  <1> QED
    BY <1>2, <1>3, <1>8, <1>9, HashOfCommand DEF Latest

(***************************************************************************)
(* ClearPublicationReferences keeps the invariant: no row is left, and the *)
(* head remembers the generation that cleared it.                          *)
(***************************************************************************)
LEMMA ClearKeeps ==
  ASSUME RefInv, NEW c \in Commands, c.ids = {},
         ~ClearOvertaken(head[c.doc], c),
         ClearPublicationReferences(c)
  PROVE  /\ RefInv'
         /\ refs'[c.doc] = {}
         /\ Latest(head'[c.doc]) = c.generation
         /\ c.generation >= Latest(head[c.doc])
  <1> DEFINE d == c.doc
             h == head[d]
             new == [present |-> TRUE, owner |-> c.owner,
                     active |-> c.generation, activeHash |-> RequestHash(c),
                     staged |-> 0, stagedHash |-> NoHash]
  <1>1. d \in Docs /\ h \in Heads /\ HeadOK(h)
    BY HashOfCommand DEF RefInv, RefTypeOK
  <1>2. h.active \in Nat /\ h.staged \in Nat
    BY <1>1, BoundAssumption DEF Heads, Generations
  <1>3. new \in Heads
    BY HashOfCommand DEF Heads
  <1>4. HeadOK(new)
    BY HashOfCommand DEF HeadOK
  <1>5. Promised(new) = {}
    BY HashOfCommand DEF Promised
  <1>6. /\ head' = [head EXCEPT ![d] = new]
        /\ refs' = [refs EXCEPT ![d] = {}]
    BY DEF ClearPublicationReferences
  <1>7. RefInv'
    BY Zenon, <1>1, <1>3, <1>4, <1>5, <1>6, OneDocument
  <1>8. head'[d] = new /\ refs'[d] = {}
    BY <1>1, <1>6 DEF RefInv, RefTypeOK
  <1>9. Latest(h) <= c.generation
    <2>1. CASE ~h.present
      BY <2>1, <1>1, HashOfCommand DEF HeadOK, NoHead, Latest
    <2>2. CASE h.present
      BY <2>2, <1>2, HashOfCommand DEF ClearOvertaken, Latest
    <2> QED
      BY <2>1, <2>2
  <1> QED
    BY <1>2, <1>7, <1>8, <1>9, HashOfCommand DEF Latest

-----------------------------------------------------------------------------
\* The two action properties, as formulas about one step.
Fenced ==
  /\ \A d \in Docs : \A r \in refs'[d] \ refs[d] : r.generation > Latest(head[d])
  /\ \A d \in Docs : Latest(head'[d]) >= Latest(head[d])

\* The latest generation of a head is a number.
LEMMA LatestIsNat ==
  ASSUME RefInv, NEW d \in Docs
  PROVE  Latest(head[d]) \in Nat
  <1>1. head[d] \in Heads
    BY DEF RefInv, RefTypeOK
  <1>2. head[d].active \in Nat /\ head[d].staged \in Nat
    BY <1>1, BoundAssumption DEF Heads, Generations
  <1> QED
    BY <1>2 DEF Latest

LEMMA LatestIsNatAfter ==
  ASSUME RefInv', NEW d \in Docs
  PROVE  Latest(head'[d]) \in Nat
  <1>1. head'[d] \in Heads
    BY DEF RefInv, RefTypeOK
  <1>2. head'[d].active \in Nat /\ head'[d].staged \in Nat
    BY <1>1, BoundAssumption DEF Heads, Generations
  <1> QED
    BY <1>2 DEF Latest

\* A step that changes nothing keeps everything.
LEMMA Stutter ==
  ASSUME RefInv, UNCHANGED refVars
  PROVE  RefInv' /\ Fenced
  <1>1. RefInv'
    BY DEF RefInv, RefTypeOK, HeadDescribesReferences, refVars
  <1>2. Fenced
    BY LatestIsNat DEF Fenced, refVars
  <1> QED
    BY <1>1, <1>2

(***************************************************************************)
(* Every command keeps the invariant and respects the fence.               *)
(***************************************************************************)
LEMMA RefStep == RefInv /\ [RefNext]_refVars => RefInv' /\ Fenced
  <1> SUFFICES ASSUME RefInv, [RefNext]_refVars PROVE RefInv' /\ Fenced
    OBVIOUS
  <1>1. ASSUME NEW c \in Commands, NEW valid \in BOOLEAN,
               StagePublicationReferences(c, valid)
        PROVE  RefInv' /\ Fenced
    <2>1. CASE ~StageApplies(head[c.doc], c, valid)
      BY <1>1, <2>1, Stutter DEF StagePublicationReferences
    <2>2. CASE StageApplies(head[c.doc], c, valid)
      <3>1. RefInv' /\ c.generation > Latest(head[c.doc])
        BY <1>1, <2>2, StageKeeps
      <3>2. \A e \in Docs : e # c.doc => head'[e] = head[e] /\ refs'[e] = refs[e]
        BY <1>1, <2>2 DEF StagePublicationReferences, RefInv, RefTypeOK
      <3>3. /\ refs'[c.doc] = StagedRefs(head[c.doc], refs[c.doc], c)
            /\ head'[c.doc].staged = c.generation
            /\ head'[c.doc].active = head[c.doc].active
        BY <1>1, <2>2, HashOfCommand DEF StagePublicationReferences, RefInv, RefTypeOK
      <3>4. \A r \in refs'[c.doc] \ refs[c.doc] : r.generation = c.generation
        BY <3>3 DEF StagedRefs
      <3>5. Latest(head'[c.doc]) >= c.generation
        <4>1. head[c.doc].active \in Nat
          BY HashOfCommand, BoundAssumption DEF RefInv, RefTypeOK, Heads, Generations
        <4> QED
          BY <3>3, <4>1, HashOfCommand DEF Latest
      <3>6. /\ \A e \in Docs : Latest(head[e]) \in Nat
            /\ Latest(head'[c.doc]) \in Nat
        BY <3>1, LatestIsNat, HashOfCommand, BoundAssumption, <3>3
           DEF Latest, RefInv, RefTypeOK, Heads, Generations
      <3> QED
        BY <3>1, <3>2, <3>4, <3>5, <3>6, HashOfCommand DEF Fenced
    <2> QED
      BY <2>1, <2>2
  <1>2. ASSUME NEW c \in Commands, FinalizePublicationReferences(c)
        PROVE  RefInv' /\ Fenced
    <2>1. CASE ~FinalizeApplies(head[c.doc], c)
      BY <1>2, <2>1, Stutter DEF FinalizePublicationReferences
    <2>2. CASE FinalizeApplies(head[c.doc], c)
      <3>1. \A e \in Docs : e # c.doc => head'[e] = head[e] /\ refs'[e] = refs[e]
        BY <1>2, <2>2 DEF FinalizePublicationReferences, RefInv, RefTypeOK
      <3> QED
        BY SMTT(60), <1>2, <2>2, <3>1, FinalizeKeeps, LatestIsNat, HashOfCommand DEF Fenced
    <2> QED
      BY <2>1, <2>2
  <1>3. ASSUME NEW c \in Commands, c.ids = {}, ClearPublicationReferences(c)
        PROVE  RefInv' /\ Fenced
    <2>1. CASE ClearOvertaken(head[c.doc], c)
      BY Zenon, <1>3, <2>1, Stutter DEF ClearPublicationReferences
    <2>2. CASE ~ClearOvertaken(head[c.doc], c)
      <3>1. \A e \in Docs : e # c.doc => head'[e] = head[e] /\ refs'[e] = refs[e]
        BY <1>3, <2>2 DEF ClearPublicationReferences, RefInv, RefTypeOK
      <3> QED
        BY <1>3, <2>2, <3>1, ClearKeeps, LatestIsNat, HashOfCommand DEF Fenced
    <2> QED
      BY <2>1, <2>2
  <1>4. \A c \in Commands : Validations(c) \subseteq BOOLEAN
    BY Zenon DEF Validations
  <1> QED
    BY <1>1, <1>2, <1>3, <1>4, Stutter DEF RefNext

-----------------------------------------------------------------------------
\* The invariant holds in every reachable state.
THEOREM RefInvariance == RefSpec => []RefInv
  BY RefInitOK, RefStep, PTL DEF RefSpec

(***************************************************************************)
(* Head rows and reference rows keep their types.                          *)
(***************************************************************************)
THEOREM RefTypeCorrect == RefSpec => []RefTypeOK
  <1>1. RefInv => RefTypeOK
    BY DEF RefInv
  <1> QED
    BY <1>1, RefInvariance, PTL

(***************************************************************************)
(* The rows of attachment.references are always the ones the head answers  *)
(* for: a repeated command may be accepted on its hash, and no row is      *)
(* stranded at a generation nothing looks for.                             *)
(***************************************************************************)
THEOREM RowsMatchHead == RefSpec => []HeadDescribesReferences
  <1>1. RefInv => HeadDescribesReferences
    BY DEF RefInv
  <1> QED
    BY <1>1, RefInvariance, PTL

(***************************************************************************)
(* A delayed Stage never brings back references that a later command       *)
(* replaced or cleared.                                                    *)
(***************************************************************************)
THEOREM NoResurrection == RefSpec => NothingResurrected
  <1>1. RefInv /\ [RefNext]_refVars =>
          [\A d \in Docs : \A r \in refs'[d] \ refs[d] :
             r.generation > Latest(head[d])]_refVars
    BY RefStep DEF Fenced
  <1> QED
    BY <1>1, RefInvariance, PTL DEF RefSpec, NothingResurrected

(***************************************************************************)
(* The fence of a document, the newest generation its head has accepted,   *)
(* never moves back.                                                       *)
(***************************************************************************)
THEOREM FenceNeverRetreats == RefSpec => FenceMonotone
  <1>1. RefInv /\ [RefNext]_refVars =>
          [\A d \in Docs : Latest(head'[d]) >= Latest(head[d])]_refVars
    BY RefStep DEF Fenced
  <1> QED
    BY <1>1, RefInvariance, PTL DEF RefSpec, FenceMonotone

-----------------------------------------------------------------------------
(***************************************************************************)
(* The inductive invariant of the publication saga.                        *)
(*                                                                         *)
(* A generation of a document stands for one request.  Its job, the copies *)
(* of the job in the workers' hands, the calls under way and the hashes    *)
(* Attachment stores all describe that request, although they live in      *)
(* different places and outlast each other.  The invariant says so with a  *)
(* table of intents, one for each generation, that all of them agree with. *)
(***************************************************************************)

\* Some of the leaves take the solver a few seconds.
USE SMTT(60)

Intent ==
  {r \in [action : {"publish", "clear"}, ids : SUBSET Attachments] :
     r.action = "clear" => r.ids = {}}

Intents == [Docs -> [Generations -> Intent]]

\* What Attachment has accepted is what the generations ask for.
HeadFits(i, d) ==
  /\ Latest(head[d]) <= doc[d].generation
  /\ \A g \in Generations :
       /\ head[d].staged = g =>
            i[d][g].action = "publish" /\ head[d].stagedHash.ids = i[d][g].ids
       /\ head[d].active = g => head[d].activeHash.ids = i[d][g].ids

\* A job past the pending state has been staged, or overtaken, in Attachment.
JobFits(i, d, g) ==
  jobs[d][g] # NoJob =>
    /\ g <= doc[d].generation
    /\ jobs[d][g].action = i[d][g].action
    /\ jobs[d][g].ids = i[d][g].ids
    /\ jobs[d][g].state # "pending" => Latest(head[d]) >= g
    /\ jobs[d][g].state = "promoted" /\ g = doc[d].generation =>
         doc[d].status # "publishing"

\* So has the copy of a worker that goes on to mark or to complete it.
CopyFits(i, c) ==
  LET d == c.doc
      g == c.generation
  IN /\ g <= doc[d].generation
     /\ c.action = i[d][g].action
     /\ c.ids = i[d][g].ids
     /\ c.step = "clear" => c.action = "clear"
     /\ c.step \in {"stage", "mark", "promote", "finalize"} => c.action = "publish"
     /\ c.step = "mark" => Latest(head[d]) >= g
     /\ c.step = "complete" /\ c.action = "clear" => Latest(head[d]) >= g
     /\ c.step \in {"finalize", "complete"} /\ c.action = "publish" /\ g = doc[d].generation
          => doc[d].status # "publishing"

CallFits(i, x) ==
  LET c == x.command
  IN /\ c.generation <= doc[c.doc].generation
     /\ x.op = "clear" <=> i[c.doc][c.generation].action = "clear"
     /\ c.ids = i[c.doc][c.generation].ids

\* The last request on the document withdraws it, and Attachment has obeyed.
Withdrawn(i, d) == doc[d].generation # 0 /\ i[d][doc[d].generation].action = "clear"

Cleared(i, d) == Withdrawn(i, d) /\ head[d].active = doc[d].generation

Rows(g, ids) == {[attachment |-> a, generation |-> g] : a \in ids}

\* The status, the life and the purge of a document tell how far it has come.
DocFits(i, d) ==
  LET g == doc[d].generation
  IN /\ doc[d].status = "draft" => g = 0 \/ Cleared(i, d)
     /\ doc[d].status = "publishing" =>
          /\ g # 0
          /\ i[d][g].action = "publish"
          /\ jobs[d][g] # NoJob
          /\ ~jobs[d][g].parked
          /\ candidate[d] = g
     /\ doc[d].status = "published" =>
          /\ g # 0
          /\ i[d][g].action = "publish"
          /\ Latest(head[d]) = g
          /\ mediaRefs[d] = Rows(g, i[d][g].ids)
     /\ doc[d].status = "unpublishing" =>
          /\ Withdrawn(i, d)
          /\ doc[d].life # "gone" => jobs[d][g] # NoJob /\ ~jobs[d][g].parked
     /\ doc[d].life # "live" => Withdrawn(i, d)
     /\ Withdrawn(i, d) => jobs[d][g] # NoJob \/ Cleared(i, d)
     /\ doc[d].life = "gone" => Cleared(i, d)
     /\ purge[d] # "none" => doc[d].life = "due" /\ Cleared(i, d)
     /\ publication[d] <= g
     /\ publication[d] # 0 /\ publication[d] = g =>
          i[d][g].action = "publish" /\ mediaRefs[d] = Rows(g, i[d][g].ids)

Fits(i) ==
  /\ \A d \in Docs : HeadFits(i, d) /\ DocFits(i, d)
  /\ \A d \in Docs, g \in Generations : JobFits(i, d, g)
  /\ \A w \in Workers : hand[w] # Idle => CopyFits(i, hand[w])
  /\ \A x \in late : CallFits(i, x)

SagaInv == TypeOK /\ RefInv /\ \E i \in Intents : Fits(i)

-----------------------------------------------------------------------------
\* Generations are positive numbers.
LEMMA GenerationsAreNat == \A g \in Generations : g \in Nat /\ g > 0 /\ g \in 0 .. MaxGeneration
  BY BoundAssumption DEF Generations

\* The order of the numbers, one fact at a time.
LEMMA GeTrans == \A x, y, z \in Nat : x >= y /\ y >= z => x >= z
  OBVIOUS

LEMMA LeTrans == \A x, y, z \in Nat : x <= y /\ y <= z => x <= z
  OBVIOUS

LEMMA LeSame == \A x, y, z \in Nat : x <= y /\ y <= z /\ x = z => z = y
  OBVIOUS

LEMMA Between == \A x, y \in Nat : x >= y /\ x <= y => x = y
  OBVIOUS

LEMMA BelowDiffers == \A x, y, z \in Nat : x < y /\ y <= z => x # z
  OBVIOUS

LEMMA BelowIsLess == \A x, y \in Nat : x < y => y >= x
  OBVIOUS

LEMMA GeSelf == \A x \in Nat : x >= x /\ x <= x
  OBVIOUS

\* The latest generation of a head.
LEMMA LatestBounds ==
  ASSUME NEW h, h.active \in Nat, h.staged \in Nat
  PROVE  /\ Latest(h) \in Nat
         /\ h.active <= Latest(h) /\ h.staged <= Latest(h)
         /\ Latest(h) >= h.active /\ Latest(h) >= h.staged
  BY DEF Latest

LEMMA LatestStaged ==
  ASSUME NEW h, h.active < h.staged
  PROVE  Latest(h) = h.staged
  BY DEF Latest

LEMMA LatestActive ==
  ASSUME NEW h, h.active \in Nat, h.staged = 0
  PROVE  Latest(h) = h.active
  BY DEF Latest

\* What a stage or a clear call leaves when it answers without an error.
LEMMA StageAnswered ==
  ASSUME RefInv, NEW c \in Commands, NEW valid \in BOOLEAN,
         StagePublicationReferences(c, valid),
         Latest(head'[c.doc]) \in Nat, Latest(head'[c.doc]) >= Latest(head[c.doc]),
         StageAnswersOk(head[c.doc], c, valid)
  PROVE  Latest(head'[c.doc]) >= c.generation
  <1>1. /\ c.doc \in Docs /\ c.generation \in Nat /\ head[c.doc] \in Heads
        /\ head \in [Docs -> Heads]
    BY HashOfCommand DEF RefInv, RefTypeOK
  <1>2. head[c.doc].active \in Nat /\ head[c.doc].staged \in Nat
    BY <1>1, GenerationsAreNat DEF Heads
  <1>3. Latest(head[c.doc]) >= c.generation => Latest(head'[c.doc]) >= c.generation
    BY ZenonT(60), <1>1, <1>2, LatestBounds, GeTrans
  <1>4. CASE StageOvertaken(head[c.doc], c)
    BY ZenonT(60), <1>1, <1>2, <1>3, <1>4, LatestBounds, BelowIsLess DEF StageOvertaken
  <1>5. CASE StageRepeated(head[c.doc], c)
    BY ZenonT(60), <1>2, <1>3, <1>5, LatestBounds DEF StageRepeated
  <1>6. CASE StageApplies(head[c.doc], c, valid)
    <2>1. head'[c.doc].staged = c.generation /\ head'[c.doc].active = head[c.doc].active
      BY <1>1, <1>6 DEF StagePublicationReferences
    <2> QED
      BY ZenonT(60), <1>1, <1>2, <2>1, LatestBounds
  <1> QED
    BY ZenonT(60), <1>4, <1>5, <1>6 DEF StageAnswersOk

LEMMA ClearAnswered ==
  ASSUME RefInv, NEW c \in Commands, c.ids = {}, ClearPublicationReferences(c),
         Latest(head'[c.doc]) \in Nat, Latest(head'[c.doc]) >= Latest(head[c.doc])
  PROVE  Latest(head'[c.doc]) >= c.generation
  <1>1. c.doc \in Docs /\ c.generation \in Nat /\ Latest(head[c.doc]) \in Nat
    BY HashOfCommand, LatestIsNat
  <1>2. CASE ClearOvertaken(head[c.doc], c)
    BY ZenonT(60), <1>1, <1>2, GeTrans, BelowIsLess DEF ClearOvertaken
  <1>3. CASE ~ClearOvertaken(head[c.doc], c)
    BY ZenonT(60), <1>1, <1>3, ClearKeeps, GeSelf
  <1> QED
    BY Zenon, <1>2, <1>3

\* The command a worker sends is one Attachment knows.
LEMMA CommandInCommands ==
  ASSUME TypeOK, NEW w \in Workers, hand[w] # Idle
  PROVE  /\ hand[w] \in Hands
         /\ hand[w].doc \in Docs /\ hand[w].generation \in Generations
         /\ hand[w].ids \subseteq Attachments
         /\ Command(w) \in Commands
  <1>1. hand[w] \in Hands
    BY DEF TypeOK
  <1>2. /\ hand[w].doc \in Docs /\ hand[w].generation \in Generations
        /\ hand[w].ids \subseteq Attachments
    BY <1>1 DEF Hands
  <1> QED
    BY <1>1, <1>2, OwnerAssumption DEF Command, Commands

\* A job that is stored has its type.
LEMMA StoredInJobs ==
  ASSUME TypeOK, NEW d \in Docs, NEW g \in Generations, jobs[d][g] # NoJob
  PROVE  jobs[d][g] \in Jobs
  BY DEF TypeOK

\* Replacing the job of a worker by another.
LEMMA SetStoredType ==
  ASSUME TypeOK, NEW w \in Workers, hand[w] # Idle,
         NEW job \in Jobs \cup {NoJob}, SetStored(w, job)
  PROVE  /\ jobs' \in [Docs -> [Generations -> Jobs \cup {NoJob}]]
         /\ \A d \in Docs, g \in Generations :
              jobs'[d][g] = IF d = hand[w].doc /\ g = hand[w].generation
                              THEN job ELSE jobs[d][g]
  BY Zenon, CommandInCommands DEF TypeOK, SetStored

\* Moving a worker to its next step.
LEMMA GoToType ==
  ASSUME TypeOK, NEW w \in Workers, hand[w] # Idle,
         NEW step \in RemoteSteps \cup LocalSteps \cup {"fail"}, GoTo(w, step)
  PROVE  /\ hand' \in [Workers -> Hands \cup {Idle}]
         /\ \A v \in Workers : hand'[v] = IF v = w THEN [hand[w] EXCEPT !.step = step] ELSE hand[v]
         /\ [hand[w] EXCEPT !.step = step] \in Hands
  <1>1. hand[w] \in Hands
    BY CommandInCommands
  <1>2. [hand[w] EXCEPT !.step = step] \in Hands
    BY <1>1 DEF Hands
  <1> QED
    BY <1>2 DEF TypeOK, GoTo

\* Setting the status of a document.
LEMMA StatusType ==
  ASSUME TypeOK, NEW d \in Docs, NEW s \in Statuses, doc' = [doc EXCEPT ![d].status = s]
  PROVE  /\ doc' \in [Docs -> [life : Lives, status : Statuses, generation : 0 .. MaxGeneration]]
         /\ \A e \in Docs :
              /\ doc'[e].life = doc[e].life
              /\ doc'[e].generation = doc[e].generation
              /\ doc'[e].status = IF e = d THEN s ELSE doc[e].status
  <1>1. doc[d] \in [life : Lives, status : Statuses, generation : 0 .. MaxGeneration]
    BY DEF TypeOK
  <1> DEFINE row == [doc[d] EXCEPT !.status = s]
  <1>2. row \in [life : Lives, status : Statuses, generation : 0 .. MaxGeneration]
    BY <1>1
  <1>3. row.life = doc[d].life /\ row.generation = doc[d].generation /\ row.status = s
    BY <1>1
  <1>4. \A e \in Docs : doc'[e] = IF e = d THEN row ELSE doc[e]
    BY DEF TypeOK
  <1>5. doc' \in [Docs -> [life : Lives, status : Statuses, generation : 0 .. MaxGeneration]]
    <2> HIDE DEF row
    <2>1. doc' = [doc EXCEPT ![d] = row]
      BY DEF row
    <2> QED
      BY ZenonT(60), <1>2, <2>1 DEF TypeOK
  <1> QED
    BY <1>3, <1>4, <1>5

\* A worker that has finished.
LEMMA IdleType ==
  ASSUME TypeOK, NEW w \in Workers, hand' = [hand EXCEPT ![w] = Idle]
  PROVE  /\ hand' \in [Workers -> Hands \cup {Idle}]
         /\ \A v \in Workers : hand'[v] = IF v = w THEN Idle ELSE hand[v]
  BY DEF TypeOK

-----------------------------------------------------------------------------
(***************************************************************************)
(* Type correctness of every step.  The references are left to RefStep:    *)
(* each remote call is one of Attachment's commands.                       *)
(***************************************************************************)
RestTypeOK ==
  /\ doc \in [Docs -> [life : Lives, status : Statuses, generation : 0 .. MaxGeneration]]
  /\ candidate \in [Docs -> 0 .. MaxGeneration]
  /\ publication \in [Docs -> 0 .. MaxGeneration]
  /\ mediaRefs \in [Docs -> SUBSET References]
  /\ jobs \in [Docs -> [Generations -> Jobs \cup {NoJob}]]
  /\ hand \in [Workers -> Hands \cup {Idle}]
  /\ late \subseteq [op : RemoteSteps, command : Commands]
  /\ purge \in [Docs -> {"none", "checked", "collaboration"}]

\* The job table after a request: its own job, and what was parked.
LEMMA EnqueuedType ==
  ASSUME TypeOK, NEW d \in Docs, NEW g \in Generations, NEW job \in Jobs,
         jobs' = [jobs EXCEPT ![d] = Enqueued(d, g, job)]
  PROVE  /\ jobs' \in [Docs -> [Generations -> Jobs \cup {NoJob}]]
         /\ \A e \in Docs, k \in Generations :
              jobs'[e][k] = IF e # d THEN jobs[e][k]
                            ELSE IF k = g THEN job
                            ELSE IF jobs[d][k] # NoJob /\ jobs[d][k].parked THEN jobs[d][k]
                            ELSE NoJob
  <1>1. Enqueued(d, g, job) \in [Generations -> Jobs \cup {NoJob}]
    BY DEF Enqueued, TypeOK
  <1> QED
    BY <1>1 DEF TypeOK, Enqueued

\* A new job has its type.
LEMMA NewJobType ==
  ASSUME NEW action \in {"publish", "clear"}, NEW ids \in SUBSET Attachments
  PROVE  NewJob(action, ids) \in Jobs
  BY AttemptsAssumption DEF NewJob, Jobs

\* Requests keep the types of Knowledge's tables.
LEMMA RequestType ==
  ASSUME TypeOK, NEW d \in Docs, Request(d)
  PROVE  RestTypeOK'
  <1>1. ASSUME NEW ids \in MediaSets, PublishSnapshot(d, ids) PROVE RestTypeOK'
    <2>1. ids \in SUBSET Attachments
      BY MediaAssumption
    <2>2. jobs' \in [Docs -> [Generations -> Jobs \cup {NoJob}]]
      BY ZenonT(60), <1>1, <2>1, EnqueuedType, NewJobType DEF PublishSnapshot
    <2>3. doc' \in [Docs -> [life : Lives, status : Statuses, generation : 0 .. MaxGeneration]]
      BY <1>1, GenerationsAreNat DEF PublishSnapshot, TypeOK, Lives, Statuses
    <2> QED
      BY <1>1, <2>2, <2>3, GenerationsAreNat DEF PublishSnapshot, TypeOK, RestTypeOK
  <1>2. ASSUME NEW life \in {"live", "trashed"}, Withdraw(d, life) PROVE RestTypeOK'
    <2>2. jobs' \in [Docs -> [Generations -> Jobs \cup {NoJob}]]
      BY ZenonT(60), <1>2, EnqueuedType, NewJobType DEF Withdraw
    <2>3. doc' \in [Docs -> [life : Lives, status : Statuses, generation : 0 .. MaxGeneration]]
      BY Zenon, <1>2, GenerationsAreNat DEF Withdraw, TypeOK, Lives, Statuses
    <2>4. 0 \in 0 .. MaxGeneration
      BY BoundAssumption
    <2> QED
      BY Zenon, <1>2, <2>2, <2>3, <2>4 DEF Withdraw, TypeOK, RestTypeOK
  <1>3. CASE RestoreDeletedDocument(d)
    BY ZenonT(60), <1>3 DEF RestoreDeletedDocument, TypeOK, RestTypeOK, Lives
  <1>4. CASE PurgeDeletedDocument(d)
    BY ZenonT(60), <1>4 DEF PurgeDeletedDocument, TypeOK, RestTypeOK, Lives
  <1> QED
    BY <1>1, <1>2, <1>3, <1>4 DEF Request, SetPublication, SoftDeleteDocument

\* So does a claim.
LEMMA ClaimType ==
  ASSUME TypeOK, NEW w \in Workers, NEW d \in Docs, NEW g \in Generations,
         ClaimPublicationReferenceJob(w, d, g)
  PROVE  RestTypeOK'
  <1> DEFINE job == jobs[d][g]
             attempts == Least(job.attempts + 1, MaxAttempts)
             copy == [step |-> FirstStep(job), doc |-> d, generation |-> g,
                      action |-> job.action, ids |-> job.ids,
                      exhausted |-> attempts = MaxAttempts]
  <1>1. job \in Jobs
    BY StoredInJobs DEF ClaimPublicationReferenceJob
  <1>2. attempts \in 0 .. MaxAttempts
    BY <1>1, AttemptsAssumption DEF Least, Jobs
  <1>3. [job EXCEPT !.attempts = attempts] \in Jobs
    BY <1>1, <1>2 DEF Jobs
  <1>4. jobs' = [jobs EXCEPT ![d][g] = [job EXCEPT !.attempts = attempts]]
    BY DEF ClaimPublicationReferenceJob
  <1>5. jobs' \in [Docs -> [Generations -> Jobs \cup {NoJob}]]
    BY <1>3, <1>4 DEF TypeOK
  <1>6. FirstStep(job) \in RemoteSteps \cup LocalSteps
    BY <1>1 DEF FirstStep, Jobs, RemoteSteps, LocalSteps
  <1>7. copy \in Hands
    BY Zenon, <1>1, <1>6 DEF Jobs, Hands
  <1>8. hand' \in [Workers -> Hands \cup {Idle}]
    BY <1>7 DEF ClaimPublicationReferenceJob, TypeOK
  <1> QED
    BY <1>5, <1>8 DEF ClaimPublicationReferenceJob, TypeOK, RestTypeOK, docVars

\* So does every step of a worker, and every fault.
LEMMA WorkerType ==
  ASSUME TypeOK, NEW w \in Workers, WorkerStep(w) \/ StepFails(w) \/ WorkerCutOff(w)
  PROVE  RestTypeOK'
  <1> USE DEF RemoteSteps, LocalSteps
  <1>1. CASE CallStage(w) \/ CallFinalize(w) \/ CallClear(w)
    <2>1. \E step \in RemoteSteps \cup LocalSteps \cup {"fail"} : GoTo(w, step)
      BY Zenon, <1>1 DEF CallStage, CallFinalize, CallClear
    <2>2. hand' \in [Workers -> Hands \cup {Idle}]
      BY ZenonT(60), <1>1, <2>1, GoToType DEF CallStage, CallFinalize, CallClear, At
    <2>3. UNCHANGED <<doc, candidate, publication, mediaRefs, jobs, late, purge>>
      BY Zenon, <1>1 DEF CallStage, CallFinalize, CallClear, docVars
    <2> QED
      BY <2>2, <2>3 DEF TypeOK, RestTypeOK
  <1>2. CASE MarkPublicationReferencesStaged(w)
    <2>1. Stored(w) \in Jobs
      BY ZenonT(60), <1>2, CommandInCommands, StoredInJobs
         DEF MarkPublicationReferencesStaged, At, Stored
    <2>2. [Stored(w) EXCEPT !.state = "staged"] \in Jobs
      BY <2>1 DEF Jobs
    <2>3. jobs' \in [Docs -> [Generations -> Jobs \cup {NoJob}]]
      BY <1>2, <2>2, SetStoredType DEF MarkPublicationReferencesStaged, At
    <2>4. hand' \in [Workers -> Hands \cup {Idle}]
      BY ZenonT(60), <1>2, GoToType DEF MarkPublicationReferencesStaged, At
    <2> QED
      BY <1>2, <2>3, <2>4 DEF MarkPublicationReferencesStaged, TypeOK, RestTypeOK, docVars
  <1>3. CASE PromotePublication(w)
    <2>1. Stored(w) \in Jobs
      BY ZenonT(60), <1>3, CommandInCommands, StoredInJobs
         DEF PromotePublication, Promotable, At, Stored
    <2>2. [Stored(w) EXCEPT !.state = "promoted"] \in Jobs
      BY <2>1 DEF Jobs
    <2>3. jobs' \in [Docs -> [Generations -> Jobs \cup {NoJob}]]
      BY <1>3, <2>2, SetStoredType DEF PromotePublication, At
    <2>4. hand' \in [Workers -> Hands \cup {Idle}]
      BY ZenonT(60), <1>3, GoToType DEF PromotePublication, At
    <2>5. hand[w].doc \in Docs /\ hand[w].generation \in Generations /\ hand[w].ids \subseteq Attachments
      BY <1>3, CommandInCommands DEF PromotePublication, At
    <2>6. {[attachment |-> a, generation |-> hand[w].generation] : a \in hand[w].ids} \in SUBSET References
      BY <2>5 DEF References
    <2>7. mediaRefs' \in [Docs -> SUBSET References]
      BY <1>3, <2>5, <2>6 DEF PromotePublication, TypeOK
    <2>8. doc' \in [Docs -> [life : Lives, status : Statuses, generation : 0 .. MaxGeneration]]
      BY ZenonT(60), <1>3, <2>5, StatusType DEF PromotePublication, Statuses
    <2>9. /\ candidate' \in [Docs -> 0 .. MaxGeneration]
          /\ publication' \in [Docs -> 0 .. MaxGeneration]
      BY <1>3, <2>5, BoundAssumption DEF PromotePublication, TypeOK
    <2> QED
      BY Zenon, <1>3, <2>3, <2>4, <2>7, <2>8, <2>9 DEF PromotePublication, TypeOK, RestTypeOK
  <1>4. CASE PromotedBefore(w)
    <2>1. hand' \in [Workers -> Hands \cup {Idle}]
      BY ZenonT(60), <1>4, GoToType DEF PromotedBefore, At
    <2> QED
      BY Zenon, <1>4, <2>1 DEF PromotedBefore, TypeOK, RestTypeOK, docVars
  <1>5. CASE CompletePublicationReferenceJob(w)
    <2>1. jobs' \in [Docs -> [Generations -> Jobs \cup {NoJob}]]
      BY <1>5, SetStoredType DEF CompletePublicationReferenceJob, At
    <2>2. hand' \in [Workers -> Hands \cup {Idle}]
      BY ZenonT(60), <1>5, IdleType DEF CompletePublicationReferenceJob
    <2>3. hand[w].doc \in Docs
      BY <1>5, CommandInCommands DEF CompletePublicationReferenceJob, At
    <2>4. mediaRefs' \in [Docs -> SUBSET References]
      <3>1. {r \in mediaRefs[hand[w].doc] : r.generation # hand[w].generation} \in SUBSET References
        BY <2>3 DEF TypeOK
      <3> QED
        BY ZenonT(60), <1>5, <2>3, <3>1 DEF CompletePublicationReferenceJob, TypeOK
    <2>5. doc' \in [Docs -> [life : Lives, status : Statuses, generation : 0 .. MaxGeneration]]
      <3>1. doc' = doc \/ doc' = [doc EXCEPT ![hand[w].doc].status = "draft"]
        BY <1>5 DEF CompletePublicationReferenceJob
      <3>2. "draft" \in Statuses
        BY DEF Statuses
      <3>3. CASE doc' = doc
        BY <3>3 DEF TypeOK
      <3>4. CASE doc' = [doc EXCEPT ![hand[w].doc].status = "draft"]
        BY ZenonT(60), <2>3, <3>2, <3>4, StatusType
      <3> QED
        BY <3>1, <3>3, <3>4
    <2> QED
      BY <1>5, <2>1, <2>2, <2>4, <2>5 DEF CompletePublicationReferenceJob, TypeOK, RestTypeOK
  <1>6. CASE RetryPublicationReferenceJob(w) \/ WorkerCutOff(w)
    <2>1. hand' \in [Workers -> Hands \cup {Idle}]
      BY <1>6, IdleType DEF RetryPublicationReferenceJob, WorkerCutOff
    <2>2. UNCHANGED <<doc, candidate, publication, mediaRefs, jobs, late, purge>>
      BY <1>6 DEF RetryPublicationReferenceJob, WorkerCutOff, docVars
    <2> QED
      BY <2>1, <2>2 DEF TypeOK, RestTypeOK
  <1>7. CASE ParkPublicationReferenceJob(w)
    <2>1. hand' \in [Workers -> Hands \cup {Idle}]
      BY ZenonT(60), <1>7, IdleType DEF ParkPublicationReferenceJob
    <2>2. hand[w].doc \in Docs
      BY <1>7, CommandInCommands DEF ParkPublicationReferenceJob, At
    <2>3. doc' \in [Docs -> [life : Lives, status : Statuses, generation : 0 .. MaxGeneration]]
      <3>1. PICK s \in Statuses : doc' = doc \/ doc' = [doc EXCEPT ![hand[w].doc].status = s]
        BY ZenonT(60), <1>7 DEF ParkPublicationReferenceJob, Statuses
      <3>2. CASE doc' = doc
        BY <3>2 DEF TypeOK
      <3>3. CASE doc' = [doc EXCEPT ![hand[w].doc].status = s]
        BY ZenonT(60), <2>2, <3>3, StatusType
      <3> QED
        BY <3>1, <3>2, <3>3
    <2>4. jobs' \in [Docs -> [Generations -> Jobs \cup {NoJob}]]
      <3>1. CASE Stored(w) = NoJob
        BY <1>7, <3>1 DEF ParkPublicationReferenceJob, TypeOK
      <3>2. CASE Stored(w) # NoJob
        <4>1. Stored(w) \in Jobs
          BY ZenonT(60), <1>7, <3>2, CommandInCommands, StoredInJobs
             DEF ParkPublicationReferenceJob, At, Stored
        <4>2. [Stored(w) EXCEPT !.parked = TRUE] \in Jobs
          BY ZenonT(60), <4>1 DEF Jobs
        <4> QED
          BY <1>7, <3>2, <4>2, SetStoredType DEF ParkPublicationReferenceJob, At
      <3> QED
        BY <3>1, <3>2
    <2> QED
      BY <1>7, <2>1, <2>3, <2>4 DEF ParkPublicationReferenceJob, TypeOK, RestTypeOK
  <1>8. CASE CallFails(w)
    <2>1. hand' \in [Workers -> Hands \cup {Idle}]
      BY ZenonT(60), <1>8, GoToType DEF CallFails
    <2>2. late' \subseteq [op : RemoteSteps, command : Commands]
      <3>1. late \subseteq [op : RemoteSteps, command : Commands]
        BY Zenon DEF TypeOK
      <3>2. Command(w) \in Commands /\ hand[w].step \in RemoteSteps
        BY Zenon, <1>8, CommandInCommands DEF CallFails
      <3>3. [op |-> hand[w].step, command |-> Command(w)]
              \in [op : RemoteSteps, command : Commands]
        BY Zenon, <3>2
      <3> QED
        BY Zenon, <1>8, <3>1, <3>3 DEF CallFails
    <2> QED
      BY Zenon, <1>8, <2>1, <2>2 DEF CallFails, TypeOK, RestTypeOK, docVars
  <1>9. CASE LocalStepFails(w)
    <2>1. hand' \in [Workers -> Hands \cup {Idle}]
      BY ZenonT(60), <1>9, GoToType DEF LocalStepFails
    <2> QED
      BY Zenon, <1>9, <2>1 DEF LocalStepFails, TypeOK, RestTypeOK, docVars
  <1> QED
    BY <1>1, <1>2, <1>3, <1>4, <1>5, <1>6, <1>7, <1>8, <1>9 DEF WorkerStep, StepFails

\* So does every step of a purge pass.
LEMMA PurgeType ==
  ASSUME TypeOK, NEW d \in Docs, Purge(d)
  PROVE  RestTypeOK'
  <1>1. CASE RedrivePublicationReferenceClear(d)
    <2>1. \A g \in Generations : jobs[d][g] # NoJob =>
            [jobs[d][g] EXCEPT !.parked = FALSE, !.attempts = 0] \in Jobs
      <3>1. 0 \in 0 .. MaxAttempts
        BY AttemptsAssumption
      <3>2. ASSUME NEW job \in Jobs PROVE [job EXCEPT !.parked = FALSE, !.attempts = 0] \in Jobs
        BY ZenonT(60), <3>1 DEF Jobs
      <3> QED
        BY ZenonT(60), <3>2, StoredInJobs
    <2>2. jobs' \in [Docs -> [Generations -> Jobs \cup {NoJob}]]
      BY ZenonT(60), <1>1, <2>1 DEF RedrivePublicationReferenceClear, TypeOK
    <2> QED
      BY ZenonT(60), <1>1, <2>2 DEF RedrivePublicationReferenceClear, TypeOK, RestTypeOK, docVars
  <1>2. CASE PurgeCheck(d)
    BY <1>2 DEF PurgeCheck, TypeOK, RestTypeOK, docVars
  <1>3. CASE PurgeCollaboration(d)
    BY <1>3 DEF PurgeCollaboration, TypeOK, RestTypeOK, docVars
  <1>4. CASE PurgeFails(d)
    BY <1>4 DEF PurgeFails, TypeOK, RestTypeOK, docVars
  <1>5. CASE PurgeDocument(d)
    <2>1. jobs' \in [Docs -> [Generations -> Jobs \cup {NoJob}]]
      BY <1>5 DEF PurgeDocument, TypeOK
    <2>2. doc' \in [Docs -> [life : Lives, status : Statuses, generation : 0 .. MaxGeneration]]
      BY ZenonT(60), <1>5 DEF PurgeDocument, TypeOK, Lives
    <2> QED
      BY <1>5, <2>1, <2>2, BoundAssumption DEF PurgeDocument, TypeOK, RestTypeOK
  <1> QED
    BY <1>1, <1>2, <1>3, <1>4, <1>5 DEF Purge

-----------------------------------------------------------------------------
(***************************************************************************)
(* The steps of the saga that reach Attachment.  Remote(c, op) is the      *)
(* execution of one call, in time or late.                                 *)
(***************************************************************************)
Remote(c, op) ==
  \/ op = "stage" /\ \E valid \in Validations(c) : StagePublicationReferences(c, valid)
  \/ op = "finalize" /\ FinalizePublicationReferences(c)
  \/ op = "clear" /\ ClearPublicationReferences(c)

\* A command that agrees with the intent of its generation.
Intended(i, c, op) ==
  /\ c.generation <= doc[c.doc].generation
  /\ op = "clear" <=> i[c.doc][c.generation].action = "clear"
  /\ c.ids = i[c.doc][c.generation].ids

\* The intent of a generation, and what its type says.
LEMMA IntentOf ==
  ASSUME NEW i \in Intents, NEW d \in Docs, NEW g \in Generations
  PROVE  /\ i[d][g].action \in {"publish", "clear"}
         /\ i[d][g].ids \subseteq Attachments
         /\ i[d][g].action = "clear" => i[d][g].ids = {}
  <1>1. i[d][g] \in Intent
    BY DEF Intents
  <1> QED
    BY <1>1 DEF Intent

\* The calls of the workers are intended, and so are the late ones.
LEMMA WorkersCallIntended ==
  ASSUME TypeOK, NEW i \in Intents, Fits(i), NEW w \in Workers, hand[w] # Idle,
         hand[w].step \in RemoteSteps
  PROVE  Intended(i, Command(w), hand[w].step)
  <1>1. CopyFits(i, hand[w])
    BY DEF Fits
  <1>2. /\ Command(w).doc = hand[w].doc
        /\ Command(w).generation = hand[w].generation
        /\ Command(w).ids = hand[w].ids
    BY Zenon DEF Command
  <1> QED
    BY ZenonT(60), <1>1, <1>2 DEF Intended, CopyFits, RemoteSteps

\* A call on its way asks for what its generation intends.
LEMMA LateCallsIntended ==
  ASSUME TypeOK, NEW i \in Intents, Fits(i), NEW x \in late
  PROVE  Intended(i, x.command, x.op) /\ x.command \in Commands
  BY ZenonT(60) DEF Fits, CallFits, Intended, TypeOK

(***************************************************************************)
(* An intended call keeps what Attachment has accepted in line with the    *)
(* intents, never moves a fence back, leaves a cleared document cleared,   *)
(* and touches no other document.                                          *)
(***************************************************************************)
LEMMA RemoteKeeps ==
  ASSUME TypeOK, RefInv, NEW i \in Intents, \A d \in Docs : HeadFits(i, d),
         NEW c \in Commands, NEW op \in RemoteSteps, Intended(i, c, op), Remote(c, op),
         UNCHANGED doc
  PROVE  /\ RefInv'
         /\ \A d \in Docs : HeadFits(i, d)'
         /\ \A d \in Docs : Latest(head'[d]) >= Latest(head[d])
         /\ \A d \in Docs : Cleared(i, d) => Cleared(i, d)'
  <1>1. op = "clear" => c.ids = {}
    BY Zenon, IntentOf, HashOfCommand DEF Intended
  <1>2. RefNext
    BY Zenon, <1>1 DEF RefNext, Remote
  <1>3. RefInv' /\ Fenced
    BY <1>2, RefStep
  <1> DEFINE d == c.doc
             h == head[d]
             g == c.generation
  <1>4. /\ d \in Docs /\ h \in Heads /\ HeadOK(h) /\ HeadFits(i, d)
        /\ g \in Generations /\ g \in Nat /\ g > 0 /\ g <= doc[d].generation
        /\ doc[d].generation \in Nat
        /\ h.active \in Nat /\ h.staged \in Nat
    <2>1. d \in Docs /\ g \in Generations
      BY DEF Commands
    <2>2. h \in Heads /\ HeadOK(h) /\ HeadFits(i, d)
      BY Zenon, <2>1 DEF RefInv, RefTypeOK
    <2>3. g \in Nat /\ g > 0
      BY <2>1, GenerationsAreNat
    <2>4. h.active \in Nat /\ h.staged \in Nat
      BY <2>2, BoundAssumption DEF Heads, Generations
    <2>5. doc[d].generation \in Nat
      BY <2>1, BoundAssumption DEF TypeOK
    <2>6. g <= doc[d].generation
      BY Zenon DEF Intended
    <2> QED
      BY ZenonT(60), <2>1, <2>2, <2>3, <2>4, <2>5, <2>6
  <1>5. \/ head' = head
        \/ /\ op = "stage" /\ g > Latest(h)
           /\ head' = [head EXCEPT ![d] =
                [present |-> TRUE, owner |-> c.owner,
                 active |-> h.active, activeHash |-> h.activeHash,
                 staged |-> g, stagedHash |-> RequestHash(c)]]
        \/ /\ op = "finalize" /\ h.staged = g
           /\ head' = [head EXCEPT ![d] =
                [present |-> TRUE, owner |-> h.owner,
                 active |-> g, activeHash |-> RequestHash(c),
                 staged |-> 0, stagedHash |-> NoHash]]
        \/ /\ op = "clear" /\ g >= Latest(h)
           /\ head' = [head EXCEPT ![d] =
                [present |-> TRUE, owner |-> c.owner,
                 active |-> g, activeHash |-> RequestHash(c),
                 staged |-> 0, stagedHash |-> NoHash]]
    <2>1. CASE op = "stage"
      <3>1. PICK valid \in Validations(c) : StagePublicationReferences(c, valid)
        BY <2>1 DEF Remote
      <3>2. valid \in BOOLEAN
        BY ZenonT(60) DEF Validations
      <3>3. CASE StageApplies(h, c, valid)
        BY ZenonT(60), <2>1, <3>1, <3>2, <3>3, StageKeeps DEF StagePublicationReferences
      <3>4. CASE ~StageApplies(h, c, valid)
        BY Zenon, <3>1, <3>4 DEF StagePublicationReferences, refVars
      <3> QED
        BY ZenonT(60), <3>3, <3>4
    <2>2. CASE op = "finalize"
      BY ZenonT(60), <2>2 DEF Remote, FinalizePublicationReferences, FinalizeApplies, refVars
    <2>3. CASE op = "clear"
      <3>1. ClearPublicationReferences(c)
        BY <2>3 DEF Remote
      <3>2. CASE ClearOvertaken(h, c)
        BY Zenon, <3>1, <3>2 DEF ClearPublicationReferences, refVars
      <3>3. CASE ~ClearOvertaken(h, c)
        BY Zenon, <1>1, <2>3, <3>1, <3>3, ClearKeeps DEF ClearPublicationReferences
      <3> QED
        BY ZenonT(60), <3>2, <3>3
    <2> QED
      BY ZenonT(60), <2>1, <2>2, <2>3 DEF RemoteSteps
  <1>6. \A e \in Docs : e # d => head'[e] = head[e]
    BY Zenon, <1>5 DEF RefInv, RefTypeOK
  <1>7. HeadFits(i, d)' /\ (Cleared(i, d) => Cleared(i, d)')
    <2>1. CASE head' = head
      BY ZenonT(60), <2>1, <1>4 DEF HeadFits, Cleared, Withdrawn
    <2>2. CASE /\ op = "stage" /\ g > Latest(h)
               /\ head' = [head EXCEPT ![d] =
                    [present |-> TRUE, owner |-> c.owner,
                     active |-> h.active, activeHash |-> h.activeHash,
                     staged |-> g, stagedHash |-> RequestHash(c)]]
      <3>1. /\ head'[d].staged = g /\ head'[d].stagedHash.ids = c.ids
            /\ head'[d].active = h.active /\ head'[d].activeHash = h.activeHash
        BY ZenonT(60), <2>2, <1>4, HashOfCommand DEF RefInv, RefTypeOK
      <3>2. i[d][g].action = "publish" /\ c.ids = i[d][g].ids
        BY ZenonT(60), <2>2, <1>4, IntentOf DEF Intended
      <3>3. h.active < g
        BY <1>4, <2>2 DEF Latest
      <3>4. Latest(head'[d]) = g
        BY ZenonT(60), <3>1, <3>3, LatestStaged
      <3>5. h.active # doc[d].generation
        BY ZenonT(60), <1>4, <3>3, BelowDiffers
      <3> QED
        BY ZenonT(60), <1>4, <3>1, <3>2, <3>4, <3>5 DEF HeadFits, Cleared
    <2>3. CASE /\ op \in {"finalize", "clear"} /\ g >= Latest(h)
               /\ head'[d].active = g /\ head'[d].activeHash = RequestHash(c)
               /\ head'[d].staged = 0
      <3>1. head'[d].activeHash.ids = i[d][g].ids
        BY ZenonT(60), <2>3, HashOfCommand DEF Intended
      <3>2. HeadFits(i, d)'
        <4>1. Latest(head'[d]) = g
          BY ZenonT(60), <1>4, <2>3, LatestActive
        <4>2. 0 \notin Generations
          BY GenerationsAreNat
        <4> QED
          BY ZenonT(60), <1>4, <2>3, <3>1, <4>1, <4>2 DEF HeadFits
      <3>3. Cleared(i, d) => g = doc[d].generation
        <4>1. g >= h.active
          BY ZenonT(60), <1>4, <2>3, LatestBounds, GeTrans
        <4> QED
          BY ZenonT(60), <1>4, <4>1, Between DEF Cleared
      <3> QED
        BY ZenonT(60), <1>4, <2>3, <3>2, <3>3 DEF Cleared, Withdrawn
    <2>4. CASE /\ op = "finalize" /\ h.staged = g
               /\ head' = [head EXCEPT ![d] =
                    [present |-> TRUE, owner |-> h.owner,
                     active |-> g, activeHash |-> RequestHash(c),
                     staged |-> 0, stagedHash |-> NoHash]]
      <3>1. g >= Latest(h)
        <4>1. h.active < h.staged
          BY <1>4, <2>4 DEF HeadOK
        <4> QED
          BY ZenonT(60), <1>4, <2>4, <4>1, LatestStaged, GeSelf
      <3>2. /\ head'[d].active = g /\ head'[d].activeHash = RequestHash(c)
            /\ head'[d].staged = 0
        BY ZenonT(60), <1>4, <2>4 DEF RefInv, RefTypeOK
      <3> QED
        BY Zenon, <2>3, <2>4, <3>1, <3>2
    <2>5. CASE /\ op = "clear" /\ g >= Latest(h)
               /\ head' = [head EXCEPT ![d] =
                    [present |-> TRUE, owner |-> c.owner,
                     active |-> g, activeHash |-> RequestHash(c),
                     staged |-> 0, stagedHash |-> NoHash]]
      <3>1. /\ head'[d].active = g /\ head'[d].activeHash = RequestHash(c)
            /\ head'[d].staged = 0
        BY Zenon, <1>4, <2>5 DEF RefInv, RefTypeOK
      <3> QED
        BY Zenon, <2>3, <2>5, <3>1
    <2> QED
      BY ZenonT(60), <1>5, <2>1, <2>2, <2>4, <2>5
  <1>8. \A e \in Docs : HeadFits(i, e)' /\ (Cleared(i, e) => Cleared(i, e)')
    <2> SUFFICES ASSUME NEW e \in Docs
                 PROVE  HeadFits(i, e)' /\ (Cleared(i, e) => Cleared(i, e)')
      OBVIOUS
    <2>1. CASE e = d
      BY ZenonT(60), <1>7, <2>1
    <2>2. CASE e # d
      <3>1. head'[e] = head[e] /\ doc'[e] = doc[e] /\ HeadFits(i, e)
        BY ZenonT(60), <1>6, <2>2
      <3> QED
        BY ZenonT(60), <3>1 DEF HeadFits, Cleared, Withdrawn
    <2> QED
      BY <2>1, <2>2
  <1> QED
    BY Zenon, <1>3, <1>8 DEF Fenced

-----------------------------------------------------------------------------
(***************************************************************************)
(* Steps that leave Knowledge's tables alone.  Attachment's heads move     *)
(* only as RemoteKeeps allows, one worker moves on, calls come and go.     *)
(***************************************************************************)
HeadsMoveOn(i) ==
  /\ RefInv'
  /\ \A d \in Docs : HeadFits(i, d)'
  /\ \A d \in Docs : Latest(head'[d]) >= Latest(head[d])
  /\ \A d \in Docs : Cleared(i, d) => Cleared(i, d)'

\* A step that leaves Attachment alone moves no head.
LEMMA HeadsStay ==
  ASSUME TypeOK, RefInv, NEW i \in Intents, Fits(i), UNCHANGED <<head, refs, doc>>
  PROVE  HeadsMoveOn(i)
  <1>1. RefInv'
    BY Stutter DEF refVars
  <1>2. \A d \in Docs : HeadFits(i, d)' /\ (Cleared(i, d) => Cleared(i, d)')
    BY ZenonT(60) DEF Fits, HeadFits, Cleared, Withdrawn
  <1>3. \A d \in Docs : Latest(head'[d]) >= Latest(head[d])
    BY LatestIsNat
  <1> QED
    BY <1>1, <1>2, <1>3 DEF HeadsMoveOn

\* The copies in the workers' hands fit although a head has moved on.
LEMMA CopiesKeep ==
  ASSUME TypeOK, RefInv, NEW i \in Intents, HeadsMoveOn(i), UNCHANGED doc,
         NEW c \in Hands, CopyFits(i, c)
  PROVE  CopyFits(i, c)'
  <1>1. c.doc \in Docs /\ c.generation \in Nat
    BY GenerationsAreNat DEF Hands
  <1>2. Latest(head[c.doc]) \in Nat /\ Latest(head'[c.doc]) \in Nat
    BY Zenon, <1>1, LatestIsNat, LatestIsNatAfter DEF HeadsMoveOn
  <1>3. Latest(head[c.doc]) >= c.generation => Latest(head'[c.doc]) >= c.generation
    BY ZenonT(60), <1>1, <1>2, GeTrans DEF HeadsMoveOn
  <1> QED
    BY ZenonT(60), <1>3 DEF CopyFits

\* So do the documents and the jobs.
LEMMA TablesKeep ==
  ASSUME TypeOK, RefInv, NEW i \in Intents, Fits(i), HeadsMoveOn(i),
         UNCHANGED <<doc, candidate, publication, mediaRefs, jobs, purge>>
  PROVE  /\ \A d \in Docs : DocFits(i, d)'
         /\ \A d \in Docs, g \in Generations : JobFits(i, d, g)'
  <1>1. \A d \in Docs : Latest(head[d]) \in Nat /\ Latest(head'[d]) \in Nat
    BY Zenon, LatestIsNat, LatestIsNatAfter DEF HeadsMoveOn
  <1>2. ASSUME NEW d \in Docs PROVE DocFits(i, d)'
    <2>1. DocFits(i, d)
      BY DEF Fits
    <2>2. doc[d].generation \in Nat
      BY BoundAssumption DEF TypeOK
    <2>3. doc[d].status = "published" => Latest(head'[d]) = doc[d].generation
      <3>1. Latest(head'[d]) >= Latest(head[d]) /\ Latest(head'[d]) <= doc[d].generation
        BY ZenonT(60) DEF HeadsMoveOn, HeadFits
      <3>2. doc[d].status = "published" => Latest(head[d]) = doc[d].generation
        BY ZenonT(60), <2>1 DEF DocFits
      <3> QED
        BY <1>1, <2>2, <3>1, <3>2
    <2>4. Withdrawn(i, d)' <=> Withdrawn(i, d)
      BY Zenon DEF Withdrawn
    <2> QED
      BY ZenonT(60), <2>1, <2>3, <2>4 DEF DocFits, HeadsMoveOn
  <1>3. ASSUME NEW d \in Docs, NEW g \in Generations PROVE JobFits(i, d, g)'
    <2>1. JobFits(i, d, g)
      BY DEF Fits
    <2>2. /\ Latest(head'[d]) >= Latest(head[d]) /\ g \in Nat
          /\ Latest(head[d]) >= g => Latest(head'[d]) >= g
      BY <1>1, GenerationsAreNat DEF HeadsMoveOn
    <2> QED
      BY ZenonT(60), <2>1, <2>2 DEF JobFits
  <1> QED
    BY <1>2, <1>3

\* A step of one worker, and at most one call to Attachment.
LEMMA WorkerMoves ==
  ASSUME TypeOK, RefInv, NEW i \in Intents, Fits(i), HeadsMoveOn(i),
         UNCHANGED <<doc, candidate, publication, mediaRefs, jobs, purge>>,
         NEW w \in Workers,
         \A v \in Workers : v # w => hand'[v] = hand[v],
         hand'[w] # Idle => CopyFits(i, hand[w])',
         \A x \in late' : CallFits(i, x)
  PROVE  Fits(i)'
  <1>1. \A v \in Workers : hand'[v] # Idle => CopyFits(i, hand[v])'
    <2>1. ASSUME NEW v \in Workers, v # w, hand[v] # Idle
          PROVE  CopyFits(i, hand[v])'
      <3>1. hand[v] \in Hands /\ CopyFits(i, hand[v])
        BY ZenonT(60), <2>1, CommandInCommands DEF Fits
      <3>2. PICK c \in Hands : c = hand[v]
        BY ZenonT(60), <3>1
      <3>3. CopyFits(i, c)
        BY Zenon, <3>1, <3>2
      <3>4. CopyFits(i, c)'
        BY Zenon, <3>3, CopiesKeep
      <3>5. hand'[v] = c
        BY Zenon, <2>1, <3>2
      <3> QED
        BY ZenonT(60), <3>4, <3>5 DEF CopyFits
    <2> QED
      BY ZenonT(60), <2>1
  <1>2. \A x \in late' : CallFits(i, x)'
    BY ZenonT(60) DEF CallFits
  <1> QED
    BY ZenonT(60), <1>1, <1>2, TablesKeep DEF Fits, HeadsMoveOn

\* The copy of a worker fits its next step.
LEMMA StepFits ==
  ASSUME TypeOK, RefInv, NEW i \in Intents, Fits(i),
         NEW w \in Workers, hand[w] # Idle,
         NEW step \in {"mark", "promote", "finalize", "complete", "fail"}, GoTo(w, step),
         doc'[hand[w].doc].generation = doc[hand[w].doc].generation,
         step \in {"mark", "promote", "finalize"} => hand[w].action = "publish",
         step = "mark" => Latest(head'[hand[w].doc]) >= hand[w].generation,
         step = "complete" /\ hand[w].action = "clear" =>
           Latest(head'[hand[w].doc]) >= hand[w].generation,
         step \in {"finalize", "complete"} /\ hand[w].action = "publish" /\ Current(w) =>
           doc'[hand[w].doc].status # "publishing"
  PROVE  /\ CopyFits(i, hand[w])'
         /\ \A v \in Workers : v # w => hand'[v] = hand[v]
  <1>1. /\ hand'[w] = [hand[w] EXCEPT !.step = step]
        /\ \A v \in Workers : v # w => hand'[v] = hand[v]
    BY ZenonT(60), GoToType DEF RemoteSteps, LocalSteps
  <1>2. hand[w] \in Hands
    BY ZenonT(60), CommandInCommands
  <1>3. /\ hand'[w].step = step /\ hand'[w].doc = hand[w].doc
        /\ hand'[w].generation = hand[w].generation
        /\ hand'[w].action = hand[w].action /\ hand'[w].ids = hand[w].ids
    BY <1>1, <1>2 DEF Hands
  <1>4. CopyFits(i, hand[w])
    BY ZenonT(60) DEF Fits
  <1> QED
    BY ZenonT(60), <1>1, <1>3, <1>4 DEF CopyFits, Current

(***************************************************************************)
(* The remote calls.                                                       *)
(***************************************************************************)
LEMMA CallStageFits ==
  ASSUME TypeOK, RefInv, NEW i \in Intents, Fits(i), NEW w \in Workers, CallStage(w)
  PROVE  RefInv' /\ Fits(i)'
  <1> DEFINE c == Command(w)
             d == hand[w].doc
             h == head[d]
  <1>1. PICK valid \in Validations(c) :
          /\ StagePublicationReferences(c, valid)
          /\ GoTo(w, IF StageAnswersOk(h, c, valid) THEN "mark" ELSE "fail")
    BY ZenonT(60) DEF CallStage
  <1>2. /\ hand[w] # Idle /\ hand[w].step = "stage" /\ hand[w] \in Hands
        /\ c \in Commands /\ c.doc = d /\ c.generation = hand[w].generation
        /\ UNCHANGED <<doc, candidate, publication, mediaRefs, jobs, late, purge>>
    BY ZenonT(60), CommandInCommands DEF CallStage, At, Command, docVars
  <1>3. Intended(i, c, "stage") /\ Remote(c, "stage")
    BY ZenonT(60), <1>1, <1>2, WorkersCallIntended DEF Remote, RemoteSteps
  <1>4. HeadsMoveOn(i)
    BY ZenonT(60), <1>2, <1>3, RemoteKeeps DEF HeadsMoveOn, RemoteSteps, Fits
  <1>5. StageAnswersOk(h, c, valid) => Latest(head'[d]) >= c.generation
    <2>1. d \in Docs /\ valid \in BOOLEAN
      BY ZenonT(60), <1>2, CommandInCommands DEF Validations
    <2>2. Latest(head'[d]) \in Nat /\ Latest(head'[d]) >= Latest(h)
      BY ZenonT(60), <1>4, <2>1, LatestIsNatAfter DEF HeadsMoveOn
    <2> QED
      BY ZenonT(60), <1>1, <1>2, <2>1, <2>2, StageAnswered
  <1>6. hand[w].action = "publish"
    BY ZenonT(60), <1>2 DEF Fits, CopyFits
  <1>7. PICK step \in {"mark", "fail"} :
          GoTo(w, step) /\ (step = "mark" => StageAnswersOk(h, c, valid))
    BY ZenonT(60), <1>1
  <1>8. CopyFits(i, hand[w])' /\ \A v \in Workers : v # w => hand'[v] = hand[v]
    BY ZenonT(60), <1>2, <1>5, <1>6, <1>7, StepFits
  <1>9. \A x \in late' : CallFits(i, x)
    BY ZenonT(60), <1>2 DEF Fits
  <1> QED
    BY ZenonT(60), <1>2, <1>4, <1>8, <1>9, WorkerMoves DEF HeadsMoveOn

\* FinalizePublicationReferences, called by a worker.
LEMMA CallFinalizeFits ==
  ASSUME TypeOK, RefInv, NEW i \in Intents, Fits(i), NEW w \in Workers, CallFinalize(w)
  PROVE  RefInv' /\ Fits(i)'
  <1> DEFINE c == Command(w)
  <1>1. /\ hand[w] # Idle /\ hand[w].step = "finalize" /\ hand[w] \in Hands
        /\ c \in Commands
        /\ UNCHANGED <<doc, candidate, publication, mediaRefs, jobs, late, purge>>
    BY ZenonT(60), CommandInCommands DEF CallFinalize, At, docVars
  <1>2. Intended(i, c, "finalize") /\ Remote(c, "finalize")
    BY ZenonT(60), <1>1, WorkersCallIntended DEF Remote, RemoteSteps, CallFinalize
  <1>3. HeadsMoveOn(i)
    BY ZenonT(60), <1>1, <1>2, RemoteKeeps DEF HeadsMoveOn, RemoteSteps, Fits
  <1>4. CopyFits(i, hand[w])
    BY ZenonT(60), <1>1 DEF Fits
  <1>5. PICK step \in {"complete", "fail"} : GoTo(w, step)
    BY ZenonT(60) DEF CallFinalize
  <1>6. hand[w].action = "publish" /\ (Current(w) => doc[hand[w].doc].status # "publishing")
    BY ZenonT(60), <1>1, <1>4 DEF CopyFits, Current
  <1>7. CopyFits(i, hand[w])' /\ \A v \in Workers : v # w => hand'[v] = hand[v]
    BY ZenonT(60), <1>1, <1>5, <1>6, StepFits
  <1>8. \A x \in late' : CallFits(i, x)
    BY ZenonT(60), <1>1 DEF Fits
  <1> QED
    BY ZenonT(60), <1>1, <1>3, <1>7, <1>8, WorkerMoves DEF HeadsMoveOn

\* ClearPublicationReferences, called by a worker.
LEMMA CallClearFits ==
  ASSUME TypeOK, RefInv, NEW i \in Intents, Fits(i), NEW w \in Workers, CallClear(w)
  PROVE  RefInv' /\ Fits(i)'
  <1> DEFINE c == Command(w)
             d == hand[w].doc
  <1>1. /\ hand[w] # Idle /\ hand[w].step = "clear" /\ hand[w] \in Hands
        /\ c \in Commands /\ c.doc = d /\ c.generation = hand[w].generation
        /\ d \in Docs /\ c.ids = hand[w].ids
        /\ UNCHANGED <<doc, candidate, publication, mediaRefs, jobs, late, purge>>
    BY ZenonT(60), CommandInCommands DEF CallClear, At, docVars, Command
  <1>2. Intended(i, c, "clear") /\ Remote(c, "clear")
    BY ZenonT(60), <1>1, WorkersCallIntended DEF Remote, RemoteSteps, CallClear
  <1>3. HeadsMoveOn(i)
    BY ZenonT(60), <1>1, <1>2, RemoteKeeps DEF HeadsMoveOn, RemoteSteps, Fits
  <1>4. hand[w].action = "clear"
    BY ZenonT(60), <1>1 DEF Fits, CopyFits
  <1>5. Latest(head'[d]) >= hand[w].generation
    <2>1. Latest(head'[d]) \in Nat /\ Latest(head'[d]) >= Latest(head[d])
      BY ZenonT(60), <1>1, <1>3, LatestIsNatAfter DEF HeadsMoveOn
    <2>2. c.ids = {}
      BY ZenonT(60), <1>1, <1>2, IntentOf, CommandInCommands DEF Intended
    <2> QED
      BY ZenonT(60), <1>1, <2>1, <2>2, ClearAnswered DEF CallClear
  <1>6. GoTo(w, "complete")
    BY DEF CallClear
  <1>7. CopyFits(i, hand[w])' /\ \A v \in Workers : v # w => hand'[v] = hand[v]
    BY ZenonT(60), <1>1, <1>4, <1>5, <1>6, StepFits
  <1>8. \A x \in late' : CallFits(i, x)
    BY ZenonT(60), <1>1 DEF Fits
  <1> QED
    BY ZenonT(60), <1>1, <1>3, <1>7, <1>8, WorkerMoves DEF HeadsMoveOn

\* A call that is executed after its caller has given up.
LEMMA LateCallFits ==
  ASSUME TypeOK, RefInv, NEW i \in Intents, Fits(i), NEW x \in late, LateCall(x)
  PROVE  RefInv' /\ Fits(i)'
  <1>1. UNCHANGED <<doc, candidate, publication, mediaRefs, jobs, hand, purge>>
    BY DEF LateCall, docVars
  <1>2. x.command \in Commands /\ x.op \in RemoteSteps /\ Intended(i, x.command, x.op)
    BY ZenonT(60), LateCallsIntended DEF TypeOK
  <1>3. Remote(x.command, x.op)
    BY DEF LateCall, Remote
  <1>4. HeadsMoveOn(i)
    BY ZenonT(60), <1>1, <1>2, <1>3, RemoteKeeps DEF HeadsMoveOn, Fits
  <1>5. \A y \in late' : CallFits(i, y)
    BY DEF LateCall, Fits
  <1>6. CASE Workers = {}
    BY ZenonT(60), <1>1, <1>4, <1>5, <1>6, TablesKeep DEF Fits, HeadsMoveOn, CallFits
  <1>7. CASE Workers # {}
    <2>1. PICK w \in Workers : TRUE
      BY <1>7
    <2>2. ASSUME hand'[w] # Idle PROVE CopyFits(i, hand[w])'
      <3>1. hand[w] \in Hands /\ CopyFits(i, hand[w])
        BY ZenonT(60), <1>1, <2>2, CommandInCommands DEF Fits
      <3>2. PICK c \in Hands : c = hand[w]
        BY <3>1
      <3>3. CopyFits(i, c)
        BY <3>1, <3>2
      <3>4. CopyFits(i, c)'
        BY <1>1, <1>4, <3>3, CopiesKeep
      <3>5. hand'[w] = c
        BY <1>1, <3>2
      <3> QED
        BY ZenonT(60), <3>4, <3>5 DEF CopyFits
    <2> QED
      BY ZenonT(60), <1>1, <1>4, <1>5, <2>2, WorkerMoves DEF HeadsMoveOn
  <1> QED
    BY <1>6, <1>7

(***************************************************************************)
(* Failures, and the steps that only give the job back.                    *)
(***************************************************************************)
LEMMA FailureFits ==
  ASSUME TypeOK, RefInv, NEW i \in Intents, Fits(i), NEW w \in Workers,
         CallFails(w) \/ LocalStepFails(w)
  PROVE  RefInv' /\ Fits(i)'
  <1>1. /\ hand[w] # Idle /\ GoTo(w, "fail")
        /\ UNCHANGED <<head, refs, doc, candidate, publication, mediaRefs, jobs, purge>>
    BY ZenonT(60) DEF CallFails, LocalStepFails, docVars
  <1>2. HeadsMoveOn(i)
    BY <1>1, HeadsStay
  <1>3. CopyFits(i, hand[w])' /\ \A v \in Workers : v # w => hand'[v] = hand[v]
    BY ZenonT(60), <1>1, StepFits
  <1>4. \A x \in late' : CallFits(i, x)
    <2>1. CASE late' = late
      BY <2>1 DEF Fits
    <2>2. CASE late' # late
      <3>1. /\ hand[w].step \in RemoteSteps
            /\ late' = late \cup {[op |-> hand[w].step, command |-> Command(w)]}
        BY ZenonT(60), <2>2 DEF CallFails, LocalStepFails
      <3>2. Intended(i, Command(w), hand[w].step)
        BY ZenonT(60), <1>1, <3>1, WorkersCallIntended
      <3>3. CallFits(i, [op |-> hand[w].step, command |-> Command(w)])
        BY ZenonT(60), <3>2 DEF CallFits, Intended
      <3> QED
        BY Zenon, <3>1, <3>3 DEF Fits
    <2> QED
      BY <2>1, <2>2
  <1> QED
    BY ZenonT(60), <1>1, <1>2, <1>3, <1>4, WorkerMoves DEF HeadsMoveOn

\* A worker that gives its job back, or is cut off.
LEMMA GiveBackFits ==
  ASSUME TypeOK, RefInv, NEW i \in Intents, Fits(i), NEW w \in Workers,
         RetryPublicationReferenceJob(w) \/ WorkerCutOff(w)
  PROVE  RefInv' /\ Fits(i)'
  <1>1. /\ hand' = [hand EXCEPT ![w] = Idle]
        /\ UNCHANGED <<head, refs, doc, candidate, publication, mediaRefs, jobs, late, purge>>
    BY DEF RetryPublicationReferenceJob, WorkerCutOff, docVars
  <1>2. HeadsMoveOn(i)
    BY <1>1, HeadsStay
  <1>3. hand'[w] = Idle /\ \A v \in Workers : v # w => hand'[v] = hand[v]
    BY ZenonT(60), <1>1, IdleType
  <1>4. \A x \in late' : CallFits(i, x)
    BY <1>1 DEF Fits
  <1> QED
    BY ZenonT(60), <1>1, <1>2, <1>3, <1>4, WorkerMoves DEF HeadsMoveOn

\* A worker that finds its job promoted by another one.
LEMMA PromotedBeforeFits ==
  ASSUME TypeOK, RefInv, NEW i \in Intents, Fits(i), NEW w \in Workers, PromotedBefore(w)
  PROVE  RefInv' /\ Fits(i)'
  <1>1. /\ hand[w] # Idle /\ hand[w].step = "promote" /\ GoTo(w, "finalize")
        /\ hand[w].doc \in Docs /\ hand[w].generation \in Generations
        /\ UNCHANGED <<head, refs, doc, candidate, publication, mediaRefs, jobs, late, purge>>
    BY ZenonT(60), CommandInCommands DEF PromotedBefore, At, docVars
  <1>2. HeadsMoveOn(i)
    BY ZenonT(60), <1>1, HeadsStay
  <1>3. JobFits(i, hand[w].doc, hand[w].generation) /\ CopyFits(i, hand[w])
    BY ZenonT(60), <1>1 DEF Fits
  <1>4. hand[w].action = "publish" /\ (Current(w) => doc[hand[w].doc].status # "publishing")
    BY ZenonT(60), <1>1, <1>3 DEF PromotedBefore, Stored, JobFits, CopyFits, Current
  <1>5. CopyFits(i, hand[w])' /\ \A v \in Workers : v # w => hand'[v] = hand[v]
    BY ZenonT(60), <1>1, <1>4, StepFits
  <1>6. \A x \in late' : CallFits(i, x)
    BY ZenonT(60), <1>1 DEF Fits
  <1> QED
    BY ZenonT(60), <1>1, <1>2, <1>5, <1>6, WorkerMoves DEF HeadsMoveOn

-----------------------------------------------------------------------------
(***************************************************************************)
(* Steps on Knowledge's tables.  Generations only grow, only a new one     *)
(* makes a document publishing, and the intents of the old ones are kept.  *)
(***************************************************************************)
Advances(i, j) ==
  /\ UNCHANGED <<head, refs>>
  /\ \A d \in Docs :
       /\ doc'[d].generation \in Nat
       /\ doc[d].generation <= doc'[d].generation
       /\ doc'[d].generation = doc[d].generation /\ doc'[d].status = "publishing"
            => doc[d].status = "publishing"
  /\ \A d \in Docs, g \in Generations : g <= doc[d].generation => j[d][g] = i[d][g]

SameDocument(d) ==
  /\ doc'[d] = doc[d] /\ candidate'[d] = candidate[d] /\ publication'[d] = publication[d]
  /\ mediaRefs'[d] = mediaRefs[d] /\ purge'[d] = purge[d]
  /\ \A g \in Generations : jobs'[d][g] = jobs[d][g]

\* The generation of a document is a number, and a generation unless 0.
LEMMA GenerationIsNat ==
  ASSUME TypeOK, NEW d \in Docs
  PROVE  /\ doc[d].generation \in Nat
         /\ doc[d].generation # 0 => doc[d].generation \in Generations
  BY BoundAssumption DEF TypeOK, Generations

\* What such a step leaves alone still fits.
LEMMA AdvanceKeeps ==
  ASSUME TypeOK, RefInv, NEW i \in Intents, NEW j \in Intents, Fits(i), Advances(i, j)
  PROVE  /\ RefInv'
         /\ \A d \in Docs : HeadFits(j, d)'
         /\ \A c \in Hands : CopyFits(i, c) => CopyFits(j, c)'
         /\ \A x \in late : CallFits(j, x)'
         /\ \A d \in Docs, g \in Generations :
              jobs'[d][g] = jobs[d][g] => JobFits(j, d, g)'
         /\ \A d \in Docs : SameDocument(d) => DocFits(j, d)'
  <1>1. RefInv'
    BY Zenon, Stutter DEF Advances, refVars
  <1>2. ASSUME NEW d \in Docs PROVE HeadFits(j, d)'
    <2>1. HeadFits(i, d) /\ head'[d] = head[d]
      BY ZenonT(60) DEF Fits, Advances
    <2>2. /\ head[d].active \in Nat /\ head[d].staged \in Nat /\ doc[d].generation \in Nat
          /\ doc'[d].generation \in Nat /\ doc[d].generation <= doc'[d].generation
      <3>1. head[d] \in Heads
        BY ZenonT(60) DEF RefInv, RefTypeOK
      <3>2. head[d].active \in Nat /\ head[d].staged \in Nat
        BY <3>1, GenerationsAreNat DEF Heads
      <3>3. doc'[d].generation \in Nat /\ doc[d].generation <= doc'[d].generation
        BY ZenonT(60) DEF Advances
      <3> QED
        BY ZenonT(60), <3>2, <3>3, GenerationIsNat
    <2>3. /\ head[d].active <= doc[d].generation /\ head[d].staged <= doc[d].generation
          /\ Latest(head'[d]) <= doc'[d].generation
      <3>1. Latest(head[d]) <= doc[d].generation /\ Latest(head[d]) \in Nat
        BY ZenonT(60), <2>1, LatestIsNat DEF HeadFits
      <3>2. Latest(head[d]) <= doc'[d].generation
        BY ZenonT(60), <2>2, <3>1, LeTrans
      <3>3. head[d].active <= Latest(head[d]) /\ head[d].staged <= Latest(head[d])
        BY ZenonT(60), <2>2, LatestBounds
      <3> QED
        BY ZenonT(60), <2>1, <2>2, <3>1, <3>2, <3>3, LeTrans
    <2>4. ASSUME NEW g \in Generations, g = head[d].active \/ g = head[d].staged
          PROVE  j[d][g] = i[d][g]
      BY ZenonT(60), <2>3, <2>4 DEF Advances
    <2> QED
      BY ZenonT(60), <2>1, <2>3, <2>4 DEF HeadFits
  <1>3. ASSUME NEW c \in Hands, CopyFits(i, c) PROVE CopyFits(j, c)'
    <2>1. c.doc \in Docs /\ c.generation \in Generations /\ c.generation \in Nat
      BY GenerationsAreNat DEF Hands
    <2>2. j[c.doc][c.generation] = i[c.doc][c.generation]
      BY ZenonT(60), <1>3, <2>1 DEF Advances, CopyFits
    <2>3. doc[c.doc].generation \in Nat /\ head'[c.doc] = head[c.doc]
      BY ZenonT(60), <2>1, GenerationIsNat DEF Advances
    <2>4. /\ c.generation <= doc'[c.doc].generation
          /\ c.generation = doc'[c.doc].generation => doc'[c.doc].generation = doc[c.doc].generation
      <3>1. c.generation <= doc[c.doc].generation
        BY ZenonT(60), <1>3 DEF CopyFits
      <3>2. doc'[c.doc].generation \in Nat /\ doc[c.doc].generation <= doc'[c.doc].generation
        BY ZenonT(60), <2>1 DEF Advances
      <3> QED
        BY ZenonT(60), <2>1, <2>3, <3>1, <3>2, LeTrans, LeSame
    <2> QED
      BY ZenonT(60), <1>3, <2>1, <2>2, <2>3, <2>4 DEF CopyFits, Advances
  <1>4. ASSUME NEW x \in late PROVE CallFits(j, x)'
    <2>1. /\ x.command.doc \in Docs /\ x.command.generation \in Generations
          /\ x.command.generation \in Nat
      BY Zenon, GenerationsAreNat DEF TypeOK, Commands
    <2>2. CallFits(i, x) /\ doc[x.command.doc].generation \in Nat
      BY ZenonT(60), <2>1, GenerationIsNat DEF Fits
    <2>3. j[x.command.doc][x.command.generation] = i[x.command.doc][x.command.generation]
      BY ZenonT(60), <2>1, <2>2 DEF Advances, CallFits
    <2>4. x.command.generation <= doc[x.command.doc].generation
      BY ZenonT(60), <2>2 DEF CallFits
    <2>5. /\ doc'[x.command.doc].generation \in Nat
          /\ doc[x.command.doc].generation <= doc'[x.command.doc].generation
      BY ZenonT(60), <2>1 DEF Advances
    <2>6. x.command.generation <= doc'[x.command.doc].generation
      BY ZenonT(60), <2>1, <2>2, <2>4, <2>5, LeTrans
    <2> QED
      BY ZenonT(60), <2>2, <2>3, <2>6 DEF CallFits
  <1>5. ASSUME NEW d \in Docs, NEW g \in Generations, jobs'[d][g] = jobs[d][g]
        PROVE  JobFits(j, d, g)'
    <2>1. JobFits(i, d, g) /\ doc[d].generation \in Nat /\ g \in Nat /\ head'[d] = head[d]
      BY ZenonT(60), GenerationIsNat, GenerationsAreNat DEF Fits, Advances
    <2>2. jobs[d][g] # NoJob => j[d][g] = i[d][g]
      BY ZenonT(60), <2>1 DEF JobFits, Advances
    <2>3. g <= doc[d].generation =>
            /\ g <= doc'[d].generation
            /\ g = doc'[d].generation => doc'[d].generation = doc[d].generation
      BY ZenonT(60), <2>1, LeTrans, LeSame DEF Advances
    <2> QED
      BY ZenonT(60), <1>5, <2>1, <2>2, <2>3 DEF JobFits, Advances
  <1>6. ASSUME NEW d \in Docs, SameDocument(d) PROVE DocFits(j, d)'
    <2>1. DocFits(i, d) /\ head'[d] = head[d]
      BY ZenonT(60) DEF Fits, Advances
    <2>2. doc[d].generation # 0 => j[d][doc[d].generation] = i[d][doc[d].generation]
      BY ZenonT(60), GenerationIsNat, GeSelf DEF Advances
    <2>3. doc[d].generation # 0 =>
            jobs'[d][doc[d].generation] = jobs[d][doc[d].generation]
      BY ZenonT(60), <1>6, GenerationIsNat DEF SameDocument
    <2>4. (Withdrawn(j, d)' <=> Withdrawn(i, d)) /\ (Cleared(j, d)' <=> Cleared(i, d))
      BY ZenonT(60), <1>6, <2>1, <2>2 DEF Withdrawn, Cleared, SameDocument
    <2>5. Withdrawn(i, d) => doc[d].generation # 0
      BY DEF Withdrawn
    <2> QED
      BY ZenonT(60), <1>6, <2>1, <2>2, <2>3, <2>4, <2>5 DEF DocFits, SameDocument
  <1> QED
    BY ZenonT(60), <1>1, <1>2, <1>3, <1>4, <1>5, <1>6
=============================================================================
