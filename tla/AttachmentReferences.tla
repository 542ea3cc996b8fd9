------------------------ MODULE AttachmentReferences ------------------------
(***************************************************************************)
(* The publication references of the Attachment service: for every         *)
(* document one reference head (the generation that is active and the one  *)
(* that is staged) and the rows that keep attachments from being trashed.  *)
(*                                                                         *)
(* A command carries the generation Knowledge gave it.  Commands may be    *)
(* repeated, delayed and reordered on their way, so the module accepts     *)
(* every command at every moment; what the code guarantees comes from the  *)
(* generations alone.  Each command is one PostgreSQL transaction that     *)
(* holds the advisory lock of its document, hence one atomic step.         *)
(***************************************************************************)
EXTENDS Naturals

CONSTANTS
  Docs,           \* documents
  Owners,         \* users that own documents and attachments
  Attachments,    \* attachments
  MaxGeneration,  \* bound: the largest generation a command may carry
  NoOwner,        \* the owner of a head that does not exist
  NoHash          \* the empty string of an unset hash column

ASSUME BoundAssumption == MaxGeneration \in Nat \ {0}

VARIABLES
  head,  \* attachment.reference_heads, one per document
  refs   \* attachment.references of each document

refVars == <<head, refs>>

Generations == 1 .. MaxGeneration

(***************************************************************************)
(* RequestHash is a SHA-256 over document, owner, generation and sorted    *)
(* ids.  Heads are kept per document, so the document is left out.         *)
(***************************************************************************)
Hashes == [owner : Owners, generation : Generations, ids : SUBSET Attachments]

Commands ==
  [doc : Docs, owner : Owners, generation : Generations, ids : SUBSET Attachments]

RequestHash(c) ==
  [owner |-> c.owner, generation |-> c.generation, ids |-> c.ids]

References == [attachment : Attachments, generation : Generations]

ASSUME NoValueAssumption == NoOwner \notin Owners /\ NoHash \notin Hashes

(***************************************************************************)
(* A head row.  staged = 0 is the NULL of staged_generation, which the     *)
(* schema constrains to be positive.                                       *)
(***************************************************************************)
Heads ==
  [present : BOOLEAN, owner : Owners \cup {NoOwner},
   active : {0} \cup Generations, activeHash : Hashes \cup {NoHash},
   staged : {0} \cup Generations, stagedHash : Hashes \cup {NoHash}]

NoHead ==
  [present |-> FALSE, owner |-> NoOwner, active |-> 0, activeHash |-> NoHash,
   staged |-> 0, stagedHash |-> NoHash]

Latest(h) == IF h.staged > h.active THEN h.staged ELSE h.active

RefInit ==
  /\ head = [d \in Docs |-> NoHead]
  /\ refs = [d \in Docs |-> {}]

-----------------------------------------------------------------------------
(***************************************************************************)
(* StagePublicationReferences.  A generation that was overtaken is         *)
(* accepted and ignored, a repeated one is accepted if it is the same      *)
(* request, any other is staged if its attachments validate.  Whether the  *)
(* count query finds every attachment ready and owned depends on rows this *)
(* module leaves out: valid is its outcome.                                *)
(***************************************************************************)
\* Mutant: the staged generation does not fence.
StageOvertakenByActive(h, c) == h.present /\ c.generation < h.active

StageOvertaken(h, c) == h.present /\ c.generation < Latest(h)

StageRepeated(h, c) ==
  /\ h.present
  /\ ~StageOvertaken(h, c)
  /\ \/ h.staged = c.generation
     \/ h.active = c.generation /\ h.staged = 0

RepeatMatches(h, c) ==
  /\ h.owner = c.owner
  /\ RequestHash(c) = IF h.staged = c.generation THEN h.stagedHash ELSE h.activeHash

StageApplies(h, c, valid) == ~StageOvertaken(h, c) /\ ~StageRepeated(h, c) /\ valid

Validations(c) == IF c.ids = {} THEN {TRUE} ELSE BOOLEAN

\* Does the call return nil?
StageAnswersOk(h, c, valid) ==
  \/ StageOvertaken(h, c)
  \/ StageRepeated(h, c) /\ RepeatMatches(h, c)
  \/ StageApplies(h, c, valid)

\* Mutant: the rows of a staged generation that was given up stay behind.
StagedRefsKeepAbandoned(h, rs, c) ==
  {r \in rs : r.generation # c.generation}
  \cup {[attachment |-> a, generation |-> c.generation] : a \in c.ids}

StagedRefs(h, rs, c) ==
  {r \in rs : /\ r.generation # c.generation
              /\ ~(r.generation = h.staged /\ h.staged # h.active)}
  \cup {[attachment |-> a, generation |-> c.generation] : a \in c.ids}

StagePublicationReferences(c, valid) ==
  LET h == head[c.doc] IN
  IF StageApplies(h, c, valid)
    THEN /\ head' = [head EXCEPT ![c.doc] =
              [present |-> TRUE, owner |-> c.owner,
               active |-> h.active, activeHash |-> h.activeHash,
               staged |-> c.generation, stagedHash |-> RequestHash(c)]]
         /\ refs' = [refs EXCEPT ![c.doc] = StagedRefs(h, refs[c.doc], c)]
    ELSE UNCHANGED refVars

-----------------------------------------------------------------------------
(***************************************************************************)
(* FinalizePublicationReferences: the staged generation becomes the active *)
(* one and the references of every older generation go.                    *)
(***************************************************************************)
FinalizeOvertaken(h, c) == h.present /\ h.active > c.generation

FinalizeRepeated(h, c) == h.present /\ h.active = c.generation /\ h.staged = 0

FinalizeApplies(h, c) ==
  /\ h.present
  /\ ~FinalizeOvertaken(h, c)
  /\ ~FinalizeRepeated(h, c)
  /\ h.staged = c.generation
  /\ h.stagedHash = RequestHash(c)
  /\ h.owner = c.owner

FinalizeAnswersOk(h, c) ==
  \/ FinalizeOvertaken(h, c)
  \/ FinalizeRepeated(h, c) /\ h.activeHash = RequestHash(c) /\ h.owner = c.owner
  \/ FinalizeApplies(h, c)

\* Mutant: the references of the finalized generation go with the older ones.
FinalizeDropsCurrent(c) ==
  LET h == head[c.doc] IN
  IF FinalizeApplies(h, c)
    THEN /\ head' = [head EXCEPT ![c.doc] =
              [present |-> TRUE, owner |-> h.owner,
               active |-> c.generation, activeHash |-> RequestHash(c),
               staged |-> 0, stagedHash |-> NoHash]]
         /\ refs' = [refs EXCEPT ![c.doc] = {r \in @ : r.generation > c.generation}]
    ELSE UNCHANGED refVars

FinalizePublicationReferences(c) ==
  LET h == head[c.doc] IN
  IF FinalizeApplies(h, c)
    THEN /\ head' = [head EXCEPT ![c.doc] =
              [present |-> TRUE, owner |-> h.owner,
               active |-> c.generation, activeHash |-> RequestHash(c),
               staged |-> 0, stagedHash |-> NoHash]]
         /\ refs' = [refs EXCEPT ![c.doc] = {r \in @ : r.generation >= c.generation}]
    ELSE UNCHANGED refVars

-----------------------------------------------------------------------------
(***************************************************************************)
(* ClearPublicationReferences: the command names no attachment             *)
(* (publicationCommand refuses one that does) and always answers nil.      *)
(***************************************************************************)
ClearOvertaken(h, c) == h.present /\ c.generation < Latest(h)

ClearPublicationReferences(c) ==
  LET h == head[c.doc] IN
  IF ClearOvertaken(h, c)
    THEN UNCHANGED refVars
    ELSE /\ head' = [head EXCEPT ![c.doc] =
              [present |-> TRUE, owner |-> c.owner,
               active |-> c.generation, activeHash |-> RequestHash(c),
               staged |-> 0, stagedHash |-> NoHash]]
         /\ refs' = [refs EXCEPT ![c.doc] = {}]

-----------------------------------------------------------------------------
RefNext ==
  \E c \in Commands :
    \/ \E valid \in Validations(c) : StagePublicationReferences(c, valid)
    \/ FinalizePublicationReferences(c)
    \/ c.ids = {} /\ ClearPublicationReferences(c)

RefSpec == RefInit /\ [][RefNext]_refVars

-----------------------------------------------------------------------------
(***************************************************************************)
(* The columns keep their types: head rows and reference rows of the       *)
(* attachment schema.                                                      *)
(***************************************************************************)
RefTypeOK ==
  /\ head \in [Docs -> Heads]
  /\ refs \in [Docs -> SUBSET References]

\* The attachments a head promises for one of its two generations.
Promised(h) ==
  {[attachment |-> a, generation |-> h.active] :
      a \in IF h.activeHash = NoHash THEN {} ELSE h.activeHash.ids}
  \cup
  {[attachment |-> a, generation |-> h.staged] :
      a \in IF h.stagedHash = NoHash THEN {} ELSE h.stagedHash.ids}

(***************************************************************************)
(* After any sequence of Stage, Finalize and Clear commands, in any order  *)
(* and with repetitions, the rows are exactly the ones the head answers    *)
(* for.  A repeated command is accepted on the evidence of the stored hash *)
(* alone, without looking at the rows.  A row of a generation that is      *)
(* neither active nor staged would be stranded: Trash counts it and        *)
(* refuses, and no later command looks for that generation.                *)
(***************************************************************************)
HeadDescribesReferences == \A d \in Docs : refs[d] = Promised(head[d])

(***************************************************************************)
(* Generations fence: a step adds rows only for a generation newer than    *)
(* every generation the head has accepted.  A Stage that arrives after the *)
(* Clear or the Stage of a later generation brings nothing back.           *)
(***************************************************************************)
NothingResurrected ==
  [][\A d \in Docs : \A r \in refs'[d] \ refs[d] :
       r.generation > Latest(head[d])]_refVars

(***************************************************************************)
(* The newest generation a head has accepted never goes back.              *)
(***************************************************************************)
FenceMonotone == [][\A d \in Docs : Latest(head'[d]) >= Latest(head[d])]_refVars
=============================================================================
