----------------------- MODULE PublicationSagaProofs ------------------------
(***************************************************************************)
(* The theorems about the publication saga, for any number of documents,   *)
(* workers, attachments, generations, attempts and delayed calls.  Every   *)
(* transaction keeps the invariant of PublicationSagaInvariant: there is   *)
(* one lemma for each step of a worker, of the purge and of a request.     *)
(***************************************************************************)
EXTENDS PublicationSagaInvariant, TLAPS

\* Some of the leaves take the solver a few seconds.
USE SMTT(60)

\* A function changed at one place.
LEMMA OnePlace ==
  ASSUME NEW S, NEW T, NEW f \in [S -> T], NEW x \in S, NEW v, NEW f2,
         f2 = [f EXCEPT ![x] = v]
  PROVE  f2[x] = v /\ \A y \in S : y # x => f2[y] = f[y]
  OBVIOUS

\* A new job is not parked, and claims are counted up to their limit.
LEMMA NotParked ==
  ASSUME NEW action, NEW ids
  PROVE  ~NewJob(action, ids).parked
  BY DEF NewJob

LEMMA AboveIsMore == \A x, y \in Nat : x > y => y <= x /\ x # y
  OBVIOUS

LEMMA AboveIsNotLess == \A x, y \in Nat : x > y => ~(x <= y)
  OBVIOUS

LEMMA LeastAttempts ==
  ASSUME NEW job \in Jobs
  PROVE  Least(job.attempts + 1, MaxAttempts) \in 0 .. MaxAttempts
  BY AttemptsAssumption DEF Jobs, Least

\* The job a worker carries out is replaced.
LEMMA StoredReplaced ==
  ASSUME TypeOK, NEW w \in Workers, hand[w] # Idle, NEW job \in Jobs \cup {NoJob},
         SetStored(w, job)
  PROVE  /\ \A e \in Docs, k \in Generations :
              e # hand[w].doc \/ k # hand[w].generation => jobs'[e][k] = jobs[e][k]
         /\ jobs'[hand[w].doc][hand[w].generation] = job
  <1>1. hand[w].doc \in Docs /\ hand[w].generation \in Generations
    BY ZenonT(60), CommandInCommands
  <1> QED
    BY <1>1, SetStoredType

\* No document takes a new generation or begins to be published.
LEMMA GenerationsStay ==
  ASSUME TypeOK, NEW i \in Intents, UNCHANGED <<head, refs>>,
         \A e \in Docs :
           /\ doc'[e].generation = doc[e].generation
           /\ doc'[e].status = "publishing" => doc[e].status = "publishing"
  PROVE  Advances(i, i)
  BY ZenonT(60), GenerationIsNat, GeSelf DEF Advances

(***************************************************************************)
(* It is enough to look at one document, one worker and the jobs that      *)
(* change.                                                                 *)
(***************************************************************************)
LEMMA OneOfEach ==
  ASSUME TypeOK, RefInv, NEW i \in Intents, NEW j \in Intents, Fits(i), Advances(i, j),
         late' = late,
         NEW d \in Docs, DocFits(j, d)', \A e \in Docs : e # d => SameDocument(e),
         \A g \in Generations : jobs'[d][g] # jobs[d][g] => JobFits(j, d, g)',
         \A v \in Workers : hand'[v] = hand[v] \/ hand'[v] = Idle \/ CopyFits(j, hand[v])'
  PROVE  RefInv' /\ Fits(j)'
  <1>1. \A e \in Docs : DocFits(j, e)'
    BY AdvanceKeeps
  <1>2. \A e \in Docs, g \in Generations : JobFits(j, e, g)'
    BY ZenonT(60), AdvanceKeeps DEF SameDocument
  <1>3. ASSUME NEW v \in Workers, hand'[v] # Idle PROVE CopyFits(j, hand[v])'
    <2>1. CASE hand'[v] = hand[v]
      <3>1. hand[v] \in Hands /\ CopyFits(i, hand[v])
        BY <1>3, <2>1, CommandInCommands DEF Fits
      <3>2. PICK c \in Hands : c = hand[v]
        BY <3>1
      <3>3. CopyFits(i, c)
        BY <3>1, <3>2
      <3>4. CopyFits(j, c)'
        BY <3>3, AdvanceKeeps
      <3>5. hand'[v] = c
        BY <2>1, <3>2
      <3> QED
        BY ZenonT(60), <3>4, <3>5 DEF CopyFits
    <2> QED
      BY <1>3, <2>1
  <1> QED
    BY <1>1, <1>2, <1>3, AdvanceKeeps DEF Fits

\* Nothing about the documents but their jobs changes.
LEMMA SameDocsAdvance ==
  ASSUME TypeOK, NEW i \in Intents, UNCHANGED <<head, refs, doc>>
  PROVE  Advances(i, i)
  BY GenerationIsNat DEF Advances

\* A worker that changes the status of its document changes nothing else.
LEMMA StatusOfOne ==
  ASSUME TypeOK, NEW d \in Docs, NEW s \in Statuses, NEW cond \in BOOLEAN,
         doc' = IF cond THEN [doc EXCEPT ![d].status = s] ELSE doc
  PROVE  /\ \A e \in Docs :
              /\ doc'[e].life = doc[e].life
              /\ doc'[e].generation = doc[e].generation
              /\ e # d => doc'[e] = doc[e]
         /\ ~cond => doc'[d].status = doc[d].status
         /\ cond => doc'[d].status = s
  <1>1. CASE cond
    <2>1. doc' = [doc EXCEPT ![d].status = s]
      BY <1>1
    <2>2. \A e \in Docs : e # d => doc'[e] = doc[e]
      BY <2>1 DEF TypeOK
    <2>3. \A e \in Docs :
            /\ doc'[e].life = doc[e].life
            /\ doc'[e].generation = doc[e].generation
            /\ doc'[e].status = IF e = d THEN s ELSE doc[e].status
      BY ZenonT(60), <2>1, StatusType
    <2>4. doc'[d].status = s
      BY <2>3
    <2> QED
      BY <1>1, <2>2, <2>3, <2>4
  <1>2. CASE ~cond
    BY <1>2
  <1> QED
    BY <1>1, <1>2

\* The status does not change what the invariant says when only the job table does.
LEMMA JobsChangeDocFits ==
  ASSUME TypeOK, NEW i \in Intents, NEW d \in Docs, DocFits(i, d),
         UNCHANGED <<head, doc, candidate, publication, mediaRefs, purge>>,
         \A k \in Generations : jobs[d][k] # NoJob =>
           jobs'[d][k] # NoJob /\ (jobs'[d][k].parked => jobs[d][k].parked)
  PROVE  DocFits(i, d)'
  <1> DEFINE k == doc[d].generation
  <1>1. /\ Withdrawn(i, d)' <=> Withdrawn(i, d)
        /\ Cleared(i, d)' <=> Cleared(i, d)
    BY DEF Withdrawn, Cleared
  <1>2. k # 0 => k \in Generations
    BY GenerationIsNat
  <1>3. k # 0 /\ jobs[d][k] # NoJob =>
          jobs'[d][k] # NoJob /\ (jobs'[d][k].parked => jobs[d][k].parked)
    BY <1>2
  <1>4. Withdrawn(i, d) => k # 0
    BY DEF Withdrawn
  <1> QED
    BY ZenonT(60), <1>1, <1>3, <1>4 DEF DocFits

\* ClaimPublicationReferenceJobs, for one job.
LEMMA ClaimFits ==
  ASSUME TypeOK, RefInv, NEW i \in Intents, Fits(i),
         NEW w \in Workers, NEW d \in Docs, NEW g \in Generations,
         ClaimPublicationReferenceJob(w, d, g)
  PROVE  RefInv' /\ Fits(i)'
  <1> DEFINE job == jobs[d][g]
  <1>1. /\ UNCHANGED <<head, refs, doc, candidate, publication, mediaRefs, late, purge>>
        /\ job # NoJob /\ job \in Jobs /\ ~job.parked /\ JobFits(i, d, g) /\ DocFits(i, d)
    BY StoredInJobs DEF ClaimPublicationReferenceJob, docVars, Fits
  <1>2. PICK n : jobs' = [jobs EXCEPT ![d][g].attempts = n]
    BY ZenonT(60) DEF ClaimPublicationReferenceJob
  <1>3. /\ \A e \in Docs, k \in Generations : e # d \/ k # g => jobs'[e][k] = jobs[e][k]
        /\ jobs'[d][g] = [job EXCEPT !.attempts = n]
    BY ZenonT(60), <1>2 DEF TypeOK
  <1>4. /\ jobs'[d][g] # NoJob /\ jobs'[d][g].action = job.action
        /\ jobs'[d][g].ids = job.ids /\ jobs'[d][g].state = job.state
        /\ jobs'[d][g].parked = job.parked
    <2>1. jobs'[d][g] \in Jobs \cup {NoJob}
      BY ClaimType DEF RestTypeOK
    <2>2. /\ jobs'[d][g].action = job.action /\ jobs'[d][g].ids = job.ids
          /\ jobs'[d][g].state = job.state /\ jobs'[d][g].parked = job.parked
      BY <1>1, <1>3 DEF Jobs
    <2>3. jobs'[d][g] # NoJob
      <3>1. LET a == Least(job.attempts + 1, MaxAttempts)
            IN jobs'[d][g] = [job EXCEPT !.attempts = a] /\ a \in 0 .. MaxAttempts
        <4>1. jobs' = [jobs EXCEPT ![d][g].attempts = Least(job.attempts + 1, MaxAttempts)]
          BY ZenonT(60) DEF ClaimPublicationReferenceJob
        <4>2. jobs'[d][g] = [job EXCEPT !.attempts = Least(job.attempts + 1, MaxAttempts)]
          BY ZenonT(60), <4>1 DEF TypeOK
        <4>3. Least(job.attempts + 1, MaxAttempts) \in 0 .. MaxAttempts
          BY <1>1, LeastAttempts
        <4> QED
          BY ZenonT(60), <4>2, <4>3
      <3>2. jobs'[d][g] \in Jobs
        BY <1>1, <3>1 DEF Jobs
      <3> QED
        BY <3>2, NoRowAssumption
    <2> QED
      BY <2>2, <2>3
  <1>5. DocFits(i, d)'
    BY ZenonT(60), <1>1, <1>3, <1>4, JobsChangeDocFits
  <1>6. JobFits(i, d, g)'
    BY ZenonT(60), <1>1, <1>4 DEF JobFits
  <1>7. CopyFits(i, hand[w])'
    <2>1. hand'[w] = [step |-> FirstStep(job), doc |-> d, generation |-> g,
                      action |-> job.action, ids |-> job.ids,
                      exhausted |-> Least(job.attempts + 1, MaxAttempts) = MaxAttempts]
      BY DEF ClaimPublicationReferenceJob, TypeOK
    <2>2. \/ FirstStep(job) = "clear" /\ job.action = "clear"
          \/ FirstStep(job) = "stage" /\ job.action = "publish"
          \/ FirstStep(job) = "promote" /\ job.action = "publish"
          \/ FirstStep(job) = "finalize" /\ job.action = "publish" /\ job.state = "promoted"
      BY ZenonT(60), <1>1 DEF FirstStep, Jobs
    <2>3. /\ hand'[w].doc = d /\ hand'[w].generation = g /\ hand'[w].step = FirstStep(job)
          /\ hand'[w].action = job.action /\ hand'[w].ids = job.ids
      BY <2>1
    <2>4. /\ g <= doc[d].generation /\ job.action = i[d][g].action /\ job.ids = i[d][g].ids
          /\ job.state = "promoted" /\ g = doc[d].generation => doc[d].status # "publishing"
      BY ZenonT(60), <1>1 DEF JobFits
    <2> QED
      BY ZenonT(60), <1>1, <2>2, <2>3, <2>4 DEF CopyFits
  <1>8. \A v \in Workers : v # w => hand'[v] = hand[v]
    BY DEF ClaimPublicationReferenceJob, TypeOK
  <1> QED
    BY <1>1, <1>3, <1>5, <1>6, <1>7, <1>8, SameDocsAdvance, OneOfEach DEF SameDocument

(***************************************************************************)
(* The row of the job in a worker's hand, and the document it is about.    *)
(***************************************************************************)
LEMMA InHand ==
  ASSUME TypeOK, NEW i \in Intents, Fits(i), NEW w \in Workers, hand[w] # Idle
  PROVE  \E d \in Docs, g \in Generations :
           /\ d = hand[w].doc /\ g = hand[w].generation
           /\ Stored(w) = jobs[d][g]
           /\ jobs[d][g] # NoJob => jobs[d][g] \in Jobs
           /\ g \in Nat /\ doc[d].generation \in Nat
           /\ HeadFits(i, d) /\ JobFits(i, d, g) /\ DocFits(i, d) /\ CopyFits(i, hand[w])
  BY ZenonT(60), CommandInCommands, StoredInJobs, GenerationsAreNat, GenerationIsNat
     DEF Fits, Stored

\* MarkPublicationReferencesStaged.
LEMMA MarkFits ==
  ASSUME TypeOK, RefInv, NEW i \in Intents, Fits(i), NEW w \in Workers,
         MarkPublicationReferencesStaged(w)
  PROVE  RefInv' /\ Fits(i)'
  <1>1. /\ UNCHANGED <<head, refs, doc, candidate, publication, mediaRefs, late, purge>>
        /\ hand[w] # Idle /\ hand[w].step = "mark"
    BY DEF MarkPublicationReferencesStaged, docVars, At
  <1>2. PICK d \in Docs, g \in Generations :
           /\ d = hand[w].doc /\ g = hand[w].generation
           /\ Stored(w) = jobs[d][g]
           /\ jobs[d][g] # NoJob => jobs[d][g] \in Jobs
           /\ g \in Nat /\ doc[d].generation \in Nat
           /\ HeadFits(i, d) /\ JobFits(i, d, g) /\ DocFits(i, d) /\ CopyFits(i, hand[w])
    BY ZenonT(60), <1>1, InHand
  <1> DEFINE job == jobs[d][g]
  <1>3. job \in Jobs /\ job # NoJob /\ ~job.parked /\ [job EXCEPT !.state = "staged"] \in Jobs
    BY ZenonT(60), <1>2 DEF MarkPublicationReferencesStaged, Jobs
  <1>4. /\ \A e \in Docs, k \in Generations : e # d \/ k # g => jobs'[e][k] = jobs[e][k]
        /\ jobs'[d][g] = [job EXCEPT !.state = "staged"]
    <2>1. SetStored(w, [job EXCEPT !.state = "staged"])
      BY ZenonT(60), <1>2 DEF MarkPublicationReferencesStaged
    <2>2. /\ \A e \in Docs, k \in Generations :
               e # hand[w].doc \/ k # hand[w].generation => jobs'[e][k] = jobs[e][k]
          /\ jobs'[hand[w].doc][hand[w].generation] = [job EXCEPT !.state = "staged"]
      BY ZenonT(60), <1>1, <1>3, <2>1, StoredReplaced
    <2> QED
      BY ZenonT(60), <1>2, <2>2
  <1>5. /\ jobs'[d][g] # NoJob /\ jobs'[d][g].action = job.action
        /\ jobs'[d][g].ids = job.ids /\ jobs'[d][g].state = "staged"
        /\ jobs'[d][g].parked = job.parked
    BY <1>3, <1>4, NoRowAssumption DEF Jobs
  <1>6. DocFits(i, d)'
    <2>1. \A k \in Generations : jobs[d][k] # NoJob =>
            jobs'[d][k] # NoJob /\ (jobs'[d][k].parked => jobs[d][k].parked)
      BY ZenonT(60), <1>4, <1>5
    <2>2. DocFits(i, d) /\ UNCHANGED <<head, doc, candidate, publication, mediaRefs, purge>>
      BY ZenonT(60), <1>1, <1>2
    <2> QED
      BY <2>1, <2>2, JobsChangeDocFits
  <1>7. JobFits(i, d, g)'
    BY ZenonT(60), <1>1, <1>2, <1>3, <1>5 DEF JobFits, CopyFits
  <1>8. PICK step \in {"promote", "fail"} : GoTo(w, step)
    BY DEF MarkPublicationReferencesStaged
  <1>9. hand[w].action = "publish"
    BY ZenonT(60), <1>1, <1>2 DEF CopyFits
  <1>10. CopyFits(i, hand[w])' /\ \A v \in Workers : v # w => hand'[v] = hand[v]
    BY Zenon, <1>1, <1>8, <1>9, StepFits
  <1>11. \A v \in Workers : hand'[v] = hand[v] \/ CopyFits(i, hand[v])'
    BY <1>10
  <1> QED
    BY <1>1, <1>4, <1>6, <1>7, <1>11, SameDocsAdvance, OneOfEach DEF SameDocument

\* PromotePublication.
LEMMA PromoteFits ==
  ASSUME TypeOK, RefInv, NEW i \in Intents, Fits(i), NEW w \in Workers, PromotePublication(w)
  PROVE  RefInv' /\ Fits(i)'
  <1>1. /\ UNCHANGED <<head, refs, late, purge>>
        /\ hand[w] # Idle /\ hand[w].step = "promote" /\ Promotable(w)
    BY DEF PromotePublication, At
  <1>2. PICK d \in Docs, g \in Generations :
           /\ d = hand[w].doc /\ g = hand[w].generation
           /\ Stored(w) = jobs[d][g]
           /\ jobs[d][g] # NoJob => jobs[d][g] \in Jobs
           /\ g \in Nat /\ doc[d].generation \in Nat
           /\ HeadFits(i, d) /\ JobFits(i, d, g) /\ DocFits(i, d) /\ CopyFits(i, hand[w])
    BY <1>1, InHand
  <1> DEFINE job == jobs[d][g]
  <1>3. /\ job \in Jobs /\ job # NoJob /\ [job EXCEPT !.state = "promoted"] \in Jobs
        /\ job.state = "staged" /\ doc[d].life = "live" /\ doc[d].generation = g
        /\ doc[d].status = "publishing" /\ candidate[d] = g
    <2>1. /\ job \in Jobs /\ job # NoJob
          /\ job.state = "staged" /\ doc[d].life = "live" /\ doc[d].generation = g
          /\ doc[d].status = "publishing" /\ candidate[d] = g
      BY ZenonT(60), <1>1, <1>2 DEF Promotable, Current
    <2>2. [job EXCEPT !.state = "promoted"] \in Jobs
      BY <2>1 DEF Jobs
    <2> QED
      BY <2>1, <2>2
  <1>4. /\ \A e \in Docs, k \in Generations : e # d \/ k # g => jobs'[e][k] = jobs[e][k]
        /\ jobs'[d][g] = [job EXCEPT !.state = "promoted"]
    <2>1. PICK new \in Jobs : new = [job EXCEPT !.state = "promoted"]
      BY <1>3
    <2>2. SetStored(w, new)
      BY ZenonT(60), <1>2, <2>1 DEF PromotePublication
    <2>3. /\ \A e \in Docs, k \in Generations :
               e # hand[w].doc \/ k # hand[w].generation => jobs'[e][k] = jobs[e][k]
          /\ jobs'[hand[w].doc][hand[w].generation] = new
      BY ZenonT(60), <1>1, <2>2, StoredReplaced
    <2> QED
      BY ZenonT(60), <1>2, <2>1, <2>3
  <1>5. /\ jobs'[d][g] # NoJob /\ jobs'[d][g].action = job.action
        /\ jobs'[d][g].ids = job.ids /\ jobs'[d][g].state = "promoted"
    BY <1>3, <1>4, NoRowAssumption DEF Jobs
  <1>6. \A e \in Docs :
           /\ doc'[e].life = doc[e].life /\ doc'[e].generation = doc[e].generation
           /\ doc'[e].status = IF e = d THEN "published" ELSE doc[e].status
           /\ e # d => doc'[e] = doc[e]
    <2>1. "published" \in Statuses /\ doc' = [doc EXCEPT ![d].status = "published"]
      BY ZenonT(60), <1>2 DEF Statuses, PromotePublication
    <2>2. \A e \in Docs : e # d => doc'[e] = doc[e]
      BY <2>1 DEF TypeOK
    <2> QED
      BY ZenonT(60), <2>1, <2>2, StatusType
  <1>7. mediaRefs'[d] = Rows(g, i[d][g].ids)
    BY ZenonT(60), <1>2 DEF PromotePublication, TypeOK, CopyFits, Rows
  <1>8. Latest(head'[d]) = g
    <2>1. Latest(head[d]) >= g /\ Latest(head[d]) <= g
      BY ZenonT(60), <1>2, <1>3 DEF JobFits, HeadFits
    <2> QED
      BY ZenonT(60), <1>1, <1>2, <2>1, LatestIsNat, Between
  <1>9. hand[w].action = "publish" /\ i[d][g].action = "publish"
    BY ZenonT(60), <1>1, <1>2 DEF CopyFits
  <1>10. DocFits(i, d)'
    <2>1. ~Withdrawn(i, d) /\ ~Withdrawn(i, d)'
      BY <1>3, <1>6, <1>9 DEF Withdrawn
    <2>2. purge'[d] = "none"
      BY ZenonT(60), <1>1, <1>2, <1>3 DEF DocFits
    <2>3. g # 0 /\ publication'[d] = g /\ publication'[d] <= doc'[d].generation
      <3>1. publication' = [publication EXCEPT ![d] = candidate[d]]
        BY ZenonT(60), <1>2 DEF PromotePublication
      <3>2. publication'[d] = g /\ doc'[d].generation = g
        BY ZenonT(60), <1>3, <1>6, <3>1 DEF TypeOK
      <3>3. g # 0
        BY GenerationsAreNat
      <3> QED
        BY ZenonT(60), <1>2, <3>2, <3>3, GeSelf
    <2> QED
      BY ZenonT(60), <1>3, <1>6, <1>7, <1>8, <1>9, <2>1, <2>2, <2>3 DEF DocFits
  <1>11. JobFits(i, d, g)'
    BY ZenonT(60), <1>1, <1>2, <1>3, <1>5, <1>6, <1>8 DEF JobFits
  <1>12. PICK step \in {"finalize", "fail"} : GoTo(w, step)
    BY DEF PromotePublication
  <1>13. CopyFits(i, hand[w])' /\ \A v \in Workers : v # w => hand'[v] = hand[v]
    BY ZenonT(60), <1>1, <1>2, <1>6, <1>9, <1>12, StepFits
  <1>14. \A v \in Workers : hand'[v] = hand[v] \/ CopyFits(i, hand[v])'
    BY <1>13
  <1>15. Advances(i, i)
    BY ZenonT(60), <1>1, <1>3, <1>6, GenerationsStay
  <1>16. \A e \in Docs : e # d => SameDocument(e)
    <2>1. /\ publication' = [publication EXCEPT ![d] = candidate[d]]
          /\ candidate' = [candidate EXCEPT ![d] = 0]
          /\ mediaRefs' = [mediaRefs EXCEPT ![d] =
               {[attachment |-> a, generation |-> g] : a \in hand[w].ids}]
      BY ZenonT(60), <1>2 DEF PromotePublication
    <2>2. \A e \in Docs : e # d =>
            /\ publication'[e] = publication[e] /\ candidate'[e] = candidate[e]
            /\ mediaRefs'[e] = mediaRefs[e]
      BY ZenonT(60), <2>1 DEF TypeOK
    <2> QED
      BY ZenonT(60), <1>1, <1>4, <1>6, <2>2 DEF SameDocument
  <1> QED
    BY <1>1, <1>4, <1>10, <1>11, <1>14, <1>15, <1>16, OneOfEach

\* CompletePublicationReferenceJob, of a publish and of a clear job.
LEMMA CompleteFits ==
  ASSUME TypeOK, RefInv, NEW i \in Intents, Fits(i), NEW w \in Workers,
         CompletePublicationReferenceJob(w)
  PROVE  RefInv' /\ Fits(i)'
  <1>1. /\ UNCHANGED <<head, refs, candidate, publication, late, purge>>
        /\ hand[w] # Idle /\ hand[w].step = "complete"
    BY DEF CompletePublicationReferenceJob, At
  <1>2. PICK d \in Docs, g \in Generations :
           /\ d = hand[w].doc /\ g = hand[w].generation
           /\ Stored(w) = jobs[d][g]
           /\ jobs[d][g] # NoJob => jobs[d][g] \in Jobs
           /\ g \in Nat /\ doc[d].generation \in Nat
           /\ HeadFits(i, d) /\ JobFits(i, d, g) /\ DocFits(i, d) /\ CopyFits(i, hand[w])
    BY <1>1, InHand
  <1>3. /\ \A e \in Docs, k \in Generations : e # d \/ k # g => jobs'[e][k] = jobs[e][k]
        /\ jobs'[d][g] = NoJob
    <2>1. SetStored(w, NoJob)
      BY ZenonT(60) DEF CompletePublicationReferenceJob
    <2>2. /\ \A e \in Docs, k \in Generations :
               e # hand[w].doc \/ k # hand[w].generation => jobs'[e][k] = jobs[e][k]
          /\ jobs'[hand[w].doc][hand[w].generation] = NoJob
      BY ZenonT(60), <1>1, <2>1, StoredReplaced
    <2> QED
      BY ZenonT(60), <1>2, <2>2
  <1>4. JobFits(i, d, g)'
    BY <1>3 DEF JobFits
  <1>5. \A v \in Workers : hand'[v] = hand[v] \/ hand'[v] = Idle
    BY IdleType DEF CompletePublicationReferenceJob
  <1>6. hand[w].action \in {"publish", "clear"} /\ hand[w].action = i[d][g].action
    BY ZenonT(60), <1>1, <1>2, CommandInCommands DEF CopyFits, Hands
  <1>7. CASE hand[w].action = "publish"
    <2>1. UNCHANGED <<doc, mediaRefs>>
      BY <1>7 DEF CompletePublicationReferenceJob
    <2>2. g = doc[d].generation => doc[d].status # "publishing"
      BY ZenonT(60), <1>1, <1>2, <1>7 DEF CopyFits
    <2>3. /\ Withdrawn(i, d)' <=> Withdrawn(i, d)
          /\ Cleared(i, d)' <=> Cleared(i, d)
          /\ Withdrawn(i, d) => doc[d].generation # g /\ doc[d].generation # 0
      BY ZenonT(60), <1>1, <1>6, <1>7, <2>1 DEF Withdrawn, Cleared
    <2>4. doc[d].generation # 0 /\ doc[d].generation # g =>
            jobs'[d][doc[d].generation] = jobs[d][doc[d].generation]
      BY <1>3, GenerationIsNat
    <2>5. DocFits(i, d)'
      BY ZenonT(60), <1>1, <1>2, <2>1, <2>2, <2>3, <2>4 DEF DocFits
    <2>6. \A e \in Docs : e # d => SameDocument(e)
      BY ZenonT(60), <1>1, <1>3, <2>1 DEF SameDocument
    <2> QED
      BY ZenonT(60), <1>1, <1>3, <1>4, <1>5, <2>1, <2>5, <2>6, SameDocsAdvance, OneOfEach
  <1>8. CASE hand[w].action = "clear"
    <2> DEFINE cond == doc[d].generation = g
    <2>1. /\ \A e \in Docs :
               /\ doc'[e].life = doc[e].life /\ doc'[e].generation = doc[e].generation
               /\ e # d => doc'[e] = doc[e]
          /\ doc[d].generation # g => doc'[d].status = doc[d].status
          /\ doc[d].generation = g => doc'[d].status = "draft"
      <3>1. doc' = IF cond THEN [doc EXCEPT ![d].status = "draft"] ELSE doc
        BY ZenonT(60), <1>2, <1>8 DEF CompletePublicationReferenceJob, Current
      <3>2. "draft" \in Statuses
        BY DEF Statuses
      <3>0. cond \in BOOLEAN
        OBVIOUS
      <3> HIDE DEF cond
      <3>3. /\ \A e \in Docs :
                 /\ doc'[e].life = doc[e].life /\ doc'[e].generation = doc[e].generation
                 /\ e # d => doc'[e] = doc[e]
            /\ ~cond => doc'[d].status = doc[d].status
            /\ cond => doc'[d].status = "draft"
        BY <3>0, <3>1, <3>2, StatusOfOne
      <3> QED
        BY <3>3 DEF cond
    <2>2. /\ mediaRefs'[d] = {r \in mediaRefs[d] : r.generation # g}
          /\ \A e \in Docs : e # d => mediaRefs'[e] = mediaRefs[e]
      <3>1. mediaRefs' = [mediaRefs EXCEPT ![d] = {r \in mediaRefs[d] : r.generation # g}]
        BY ZenonT(60), <1>2, <1>8 DEF CompletePublicationReferenceJob
      <3> QED
        BY ZenonT(60), <3>1 DEF TypeOK
    <2>3. g # 0 /\ Latest(head[d]) >= g
      <3>1. g # 0
        BY GenerationsAreNat
      <3>2. Latest(head[d]) >= g
        BY ZenonT(60), <1>1, <1>2, <1>8 DEF CopyFits
      <3> QED
        BY ZenonT(60), <3>1, <3>2
    <2>4. /\ Withdrawn(i, d)' <=> Withdrawn(i, d)
          /\ Cleared(i, d)' <=> Cleared(i, d)
      BY ZenonT(60), <1>1, <2>1 DEF Withdrawn, Cleared
    <2>5. doc[d].generation = g => Cleared(i, d)
      <3>1. head[d].staged # g
        BY ZenonT(60), <1>2, <1>6, <1>8 DEF HeadFits
      <3>2. head[d].active \in Nat /\ head[d].staged \in Nat
        BY BoundAssumption DEF RefInv, RefTypeOK, Heads, Generations
      <3>3. Latest(head[d]) <= doc[d].generation
        BY ZenonT(60), <1>2 DEF HeadFits
      <3>4. doc[d].generation = g => Latest(head[d]) = g
        BY ZenonT(60), <1>2, <2>3, <3>3, LatestIsNat, Between
      <3>5. doc[d].generation = g => head[d].active = g
        BY <3>1, <3>4 DEF Latest
      <3> QED
        BY ZenonT(60), <1>6, <1>8, <2>3, <3>5 DEF Cleared, Withdrawn
    <2>6. DocFits(i, d)'
      <3>1. CASE doc[d].generation = g
        <4>1. DocFits(i, d) /\ publication'[d] = publication[d]
          BY ZenonT(60), <1>1, <1>2
        <4>2. publication[d] # 0 => publication[d] # g
          BY ZenonT(60), <1>6, <1>8, <3>1, <4>1 DEF DocFits
        <4> QED
          BY ZenonT(60), <1>1, <2>1, <2>4, <2>5, <3>1, <4>1, <4>2 DEF DocFits
      <3>2. CASE doc[d].generation # g
        <4>1. doc[d].generation # 0 =>
                jobs'[d][doc[d].generation] = jobs[d][doc[d].generation]
          BY <1>3, <3>2, GenerationIsNat
        <4>2. doc[d].status = "published" \/ (publication[d] # 0 /\ publication[d] = doc[d].generation)
                => mediaRefs'[d] = mediaRefs[d]
          <5>1. SUFFICES ASSUME \/ doc[d].status = "published"
                                \/ publication[d] # 0 /\ publication[d] = doc[d].generation
                         PROVE  mediaRefs'[d] = mediaRefs[d]
            OBVIOUS
          <5>2. mediaRefs[d] = Rows(doc[d].generation, i[d][doc[d].generation].ids)
            BY ZenonT(60), <1>2, <5>1 DEF DocFits
          <5>3. \A r \in mediaRefs[d] : r.generation # g
            BY <3>2, <5>2 DEF Rows
          <5> QED
            BY <2>2, <5>3
        <4>3. Withdrawn(i, d) => doc[d].generation # 0
          BY DEF Withdrawn
        <4> QED
          <5>1. DocFits(i, d)
            BY ZenonT(60), <1>2
          <5>2. /\ doc'[d].life = doc[d].life /\ doc'[d].generation = doc[d].generation
                /\ doc'[d].status = doc[d].status
            BY <2>1, <3>2
          <5>3. /\ head' = head /\ candidate' = candidate /\ publication' = publication
                /\ purge' = purge
            BY <1>1
          <5> QED
            BY ZenonT(60), <2>4, <4>1, <4>2, <4>3, <5>1, <5>2, <5>3 DEF DocFits
      <3> QED
        BY <3>1, <3>2
    <2>7. Advances(i, i)
      BY ZenonT(60), <1>1, <2>1, GenerationsStay
    <2>8. \A e \in Docs : e # d => SameDocument(e)
      BY ZenonT(60), <1>1, <1>3, <2>1, <2>2 DEF SameDocument
    <2> QED
      BY ZenonT(60), <1>1, <1>3, <1>4, <1>5, <2>6, <2>7, <2>8, OneOfEach
  <1> QED
    BY <1>6, <1>7, <1>8

\* ParkPublicationReferenceJob.
LEMMA ParkFits ==
  ASSUME TypeOK, RefInv, NEW i \in Intents, Fits(i), NEW w \in Workers,
         ParkPublicationReferenceJob(w)
  PROVE  RefInv' /\ Fits(i)'
  <1>1. /\ UNCHANGED <<head, refs, candidate, publication, mediaRefs, late, purge>>
        /\ hand[w] # Idle /\ hand' = [hand EXCEPT ![w] = Idle]
    BY DEF ParkPublicationReferenceJob, At
  <1>2. PICK d \in Docs, g \in Generations :
           /\ d = hand[w].doc /\ g = hand[w].generation
           /\ Stored(w) = jobs[d][g]
           /\ jobs[d][g] # NoJob => jobs[d][g] \in Jobs
           /\ g \in Nat /\ doc[d].generation \in Nat
           /\ HeadFits(i, d) /\ JobFits(i, d, g) /\ DocFits(i, d) /\ CopyFits(i, hand[w])
    BY ZenonT(60), <1>1, InHand
  <1> DEFINE job == jobs[d][g]
  <1>3. \A v \in Workers : hand'[v] = hand[v] \/ hand'[v] = Idle
    BY <1>1, IdleType
  <1>4. CASE job = NoJob
    <2>1. UNCHANGED <<jobs, doc>>
      BY <1>2, <1>4 DEF ParkPublicationReferenceJob
    <2>2. DocFits(i, d)'
      BY ZenonT(60), <1>1, <1>2, <2>1, JobsChangeDocFits
    <2> QED
      BY ZenonT(60), <1>1, <1>3, <2>1, <2>2, SameDocsAdvance, OneOfEach DEF SameDocument
  <1>5. CASE job # NoJob
    <2>1. job \in Jobs /\ [job EXCEPT !.parked = TRUE] \in Jobs
      BY ZenonT(60), <1>2, <1>5 DEF Jobs
    <2>2. /\ \A e \in Docs, k \in Generations : e # d \/ k # g => jobs'[e][k] = jobs[e][k]
          /\ jobs'[d][g] = [job EXCEPT !.parked = TRUE]
      <3>1. SetStored(w, [job EXCEPT !.parked = TRUE])
        BY ZenonT(60), <1>2, <1>5 DEF ParkPublicationReferenceJob
      <3>2. /\ \A e \in Docs, k \in Generations :
                 e # hand[w].doc \/ k # hand[w].generation => jobs'[e][k] = jobs[e][k]
            /\ jobs'[hand[w].doc][hand[w].generation] = [job EXCEPT !.parked = TRUE]
        BY ZenonT(60), <1>1, <2>1, <3>1, StoredReplaced
      <3> QED
        BY ZenonT(60), <1>2, <3>2
    <2>3. /\ jobs'[d][g] # NoJob /\ jobs'[d][g].action = job.action
          /\ jobs'[d][g].ids = job.ids /\ jobs'[d][g].state = job.state
      BY ZenonT(60), <2>1, <2>2, NoRowAssumption DEF Jobs
    <2>4. PICK s \in {"publish_failed", "unpublish_failed"} :
            doc' = IF Current(w) THEN [doc EXCEPT ![d].status = s] ELSE doc
      BY ZenonT(60), <1>2, <1>5 DEF ParkPublicationReferenceJob
    <2> DEFINE cond == doc[d].generation = g
    <2>5. /\ \A e \in Docs :
               /\ doc'[e].life = doc[e].life /\ doc'[e].generation = doc[e].generation
               /\ e # d => doc'[e] = doc[e]
          /\ doc[d].generation # g => doc'[d].status = doc[d].status
          /\ doc[d].generation = g => doc'[d].status = s
      <3>1. doc' = IF cond THEN [doc EXCEPT ![d].status = s] ELSE doc
        BY ZenonT(60), <1>2, <2>4 DEF Current
      <3>2. s \in Statuses
        BY DEF Statuses
      <3>0. cond \in BOOLEAN
        OBVIOUS
      <3> HIDE DEF cond
      <3>3. /\ \A e \in Docs :
                 /\ doc'[e].life = doc[e].life /\ doc'[e].generation = doc[e].generation
                 /\ e # d => doc'[e] = doc[e]
            /\ ~cond => doc'[d].status = doc[d].status
            /\ cond => doc'[d].status = s
        BY <3>0, <3>1, <3>2, StatusOfOne
      <3> QED
        BY <3>3 DEF cond
    <2>6. /\ Withdrawn(i, d)' <=> Withdrawn(i, d)
          /\ Cleared(i, d)' <=> Cleared(i, d)
          /\ Withdrawn(i, d) => doc[d].generation # 0
      BY ZenonT(60), <1>1, <2>5 DEF Withdrawn, Cleared
    <2>7. DocFits(i, d)'
      <3>1. CASE doc[d].generation = g
        BY ZenonT(60), <1>1, <1>2, <2>3, <2>5, <2>6, <3>1 DEF DocFits
      <3>2. CASE doc[d].generation # g
        <4>1. doc[d].generation # 0 =>
                jobs'[d][doc[d].generation] = jobs[d][doc[d].generation]
          BY <2>2, <3>2, GenerationIsNat
        <4> QED
          BY ZenonT(60), <1>1, <1>2, <2>5, <2>6, <3>2, <4>1 DEF DocFits
      <3> QED
        BY <3>1, <3>2
    <2>8. JobFits(i, d, g)'
      BY ZenonT(60), <1>1, <1>2, <1>5, <2>3, <2>5 DEF JobFits
    <2>9. Advances(i, i)
      BY ZenonT(60), <1>1, <2>4, <2>5, GenerationsStay
    <2>10. \A e \in Docs : e # d => SameDocument(e)
      BY <1>1, <2>2, <2>5 DEF SameDocument
    <2> QED
      BY <1>1, <1>3, <2>2, <2>7, <2>8, <2>9, <2>10, OneOfEach
  <1> QED
    BY <1>4, <1>5

\* RedrivePublicationReferenceClear.
LEMMA RedriveFits ==
  ASSUME TypeOK, RefInv, NEW i \in Intents, Fits(i), NEW d \in Docs,
         RedrivePublicationReferenceClear(d)
  PROVE  RefInv' /\ Fits(i)'
  <1>1. UNCHANGED <<head, refs, doc, candidate, publication, mediaRefs, hand, late, purge>>
    BY ZenonT(60) DEF RedrivePublicationReferenceClear, docVars
  <1>2. \A e \in Docs, k \in Generations : e # d => jobs'[e][k] = jobs[e][k]
    BY ZenonT(60) DEF RedrivePublicationReferenceClear, TypeOK
  <1>3. ASSUME NEW k \in Generations, jobs[d][k] # NoJob
        PROVE  /\ jobs'[d][k] # NoJob /\ (jobs'[d][k].parked => jobs[d][k].parked)
               /\ jobs'[d][k].action = jobs[d][k].action /\ jobs'[d][k].ids = jobs[d][k].ids
               /\ jobs'[d][k].state = jobs[d][k].state
    <2>1. jobs[d][k] \in Jobs
      BY <1>3, StoredInJobs
    <2>2. \/ jobs'[d][k] = jobs[d][k]
          \/ jobs'[d][k] = [jobs[d][k] EXCEPT !.parked = FALSE, !.attempts = 0]
      BY ZenonT(60) DEF RedrivePublicationReferenceClear, TypeOK
    <2>3. ASSUME NEW job \in Jobs
          PROVE  LET new == [job EXCEPT !.parked = FALSE, !.attempts = 0]
                 IN /\ new \in Jobs /\ ~new.parked /\ new.action = job.action
                    /\ new.ids = job.ids /\ new.state = job.state
      <3>1. 0 \in 0 .. MaxAttempts
        BY AttemptsAssumption
      <3>2. [job EXCEPT !.parked = FALSE, !.attempts = 0] \in Jobs
        BY ZenonT(60), <3>1 DEF Jobs
      <3> QED
        BY <3>2 DEF Jobs
    <2>4. CASE jobs'[d][k] = jobs[d][k]
      BY <1>3, <2>4
    <2>5. CASE jobs'[d][k] = [jobs[d][k] EXCEPT !.parked = FALSE, !.attempts = 0]
      <3>1. PICK job \in Jobs : job = jobs[d][k]
        BY <2>1
      <3>2. jobs'[d][k] = [job EXCEPT !.parked = FALSE, !.attempts = 0]
        BY <2>5, <3>1
      <3>3. /\ jobs'[d][k] \in Jobs /\ ~jobs'[d][k].parked
            /\ jobs'[d][k].action = job.action /\ jobs'[d][k].ids = job.ids
            /\ jobs'[d][k].state = job.state
        BY ZenonT(60), <2>3, <3>2
      <3> QED
        BY ZenonT(60), <3>1, <3>3, NoRowAssumption
    <2> QED
      BY Zenon, <2>2, <2>4, <2>5
  <1>4. \A k \in Generations : jobs[d][k] = NoJob => jobs'[d][k] = NoJob
    BY ZenonT(60) DEF RedrivePublicationReferenceClear, TypeOK
  <1>5. DocFits(i, d)'
    <2>1. DocFits(i, d)
      BY DEF Fits
    <2>2. \A k \in Generations : jobs[d][k] # NoJob =>
            jobs'[d][k] # NoJob /\ (jobs'[d][k].parked => jobs[d][k].parked)
      BY <1>3
    <2> QED
      BY ZenonT(60), <1>1, <2>1, <2>2, JobsChangeDocFits
  <1>6. ASSUME NEW k \in Generations PROVE JobFits(i, d, k)'
    <2>1. JobFits(i, d, k)
      BY DEF Fits
    <2> QED
      BY ZenonT(60), <1>1, <1>3, <1>4, <2>1 DEF JobFits
  <1> QED
    BY ZenonT(60), <1>1, <1>2, <1>5, <1>6, SameDocsAdvance, OneOfEach DEF SameDocument

\* A pass that has checked the jobs of a document knows that Attachment has obeyed.
LEMMA PurgePassFits ==
  ASSUME TypeOK, RefInv, NEW i \in Intents, Fits(i), NEW d \in Docs,
         PurgeCheck(d) \/ PurgeCollaboration(d) \/ PurgeFails(d)
  PROVE  RefInv' /\ Fits(i)'
  <1>1. UNCHANGED <<head, refs, doc, candidate, publication, mediaRefs, jobs, hand, late>>
    BY ZenonT(60) DEF PurgeCheck, PurgeCollaboration, PurgeFails, docVars
  <1>2. \A e \in Docs : e # d => SameDocument(e)
    BY ZenonT(60), <1>1 DEF SameDocument, PurgeCheck, PurgeCollaboration, PurgeFails, TypeOK
  <1>3. DocFits(i, d) /\ \A k \in Generations : JobFits(i, d, k)
    BY DEF Fits
  <1>4. /\ Withdrawn(i, d)' <=> Withdrawn(i, d)
        /\ Cleared(i, d)' <=> Cleared(i, d)
    BY ZenonT(60), <1>1 DEF Withdrawn, Cleared
  <1>5. purge'[d] # "none" => doc[d].life = "due" /\ Cleared(i, d)
    <2>1. CASE PurgeCheck(d)
      <3>1. doc[d].life = "due" /\ Withdrawn(i, d)
        BY ZenonT(60), <1>3, <2>1 DEF PurgeCheck, DocFits
      <3>2. doc[d].generation \in Generations /\ i[d][doc[d].generation].action = "clear"
        BY <3>1, GenerationIsNat DEF Withdrawn
      <3>3. jobs[d][doc[d].generation] = NoJob
        BY ZenonT(60), <1>3, <2>1, <3>2 DEF PurgeCheck, HasPendingPublicationReferenceClear, JobFits
      <3> QED
        BY ZenonT(60), <1>3, <3>1, <3>3 DEF DocFits
    <2>2. CASE PurgeCollaboration(d)
      BY ZenonT(60), <1>3, <2>2 DEF PurgeCollaboration, DocFits
    <2>3. CASE PurgeFails(d)
      BY <2>3 DEF PurgeFails, TypeOK
    <2> QED
      BY ZenonT(60), <2>1, <2>2, <2>3
  <1>6. DocFits(i, d)'
    BY ZenonT(60), <1>1, <1>3, <1>4, <1>5 DEF DocFits
  <1> QED
    BY <1>1, <1>2, <1>6, SameDocsAdvance, OneOfEach

\* A change of life keeps status and generation.
LEMMA LifeOfOne ==
  ASSUME TypeOK, NEW d \in Docs, NEW life \in Lives, doc' = [doc EXCEPT ![d].life = life]
  PROVE  /\ \A e \in Docs :
              /\ doc'[e].status = doc[e].status
              /\ doc'[e].generation = doc[e].generation
              /\ e # d => doc'[e] = doc[e]
         /\ doc'[d].life = life
  <1>1. doc[d] \in [life : Lives, status : Statuses, generation : 0 .. MaxGeneration]
    BY DEF TypeOK
  <1>2. /\ \A e \in Docs : e # d => doc'[e] = doc[e]
        /\ doc'[d] = [doc[d] EXCEPT !.life = life]
    BY DEF TypeOK
  <1>3. doc'[d].life = life /\ doc'[d].status = doc[d].status
        /\ doc'[d].generation = doc[d].generation
    BY <1>1, <1>2
  <1> QED
    BY <1>2, <1>3

\* PurgeDocument.
LEMMA PurgeDocumentFits ==
  ASSUME TypeOK, RefInv, NEW i \in Intents, Fits(i), NEW d \in Docs, PurgeDocument(d)
  PROVE  RefInv' /\ Fits(i)'
  <1>1. /\ UNCHANGED <<head, refs, hand, late>>
        /\ purge[d] = "collaboration" /\ doc[d].life = "due"
        /\ doc' = [doc EXCEPT ![d].life = "gone"]
    BY DEF PurgeDocument
  <1>2. "gone" \in Lives
    BY DEF Lives
  <1>3. /\ \A e \in Docs :
             /\ doc'[e].status = doc[e].status
             /\ doc'[e].generation = doc[e].generation
             /\ e # d => doc'[e] = doc[e]
        /\ doc'[d].life = "gone"
    BY ZenonT(60), <1>1, <1>2, LifeOfOne
  <1>4. /\ \A k \in Generations : jobs'[d][k] = NoJob
        /\ purge'[d] = "none" /\ publication'[d] = 0
        /\ \A e \in Docs : e # d => SameDocument(e)
    BY <1>3 DEF PurgeDocument, SameDocument, TypeOK
  <1>5. DocFits(i, d)
    BY DEF Fits
  <1>6. Cleared(i, d) /\ Withdrawn(i, d) /\ i[d][doc[d].generation].action = "clear"
    BY ZenonT(60), <1>1, <1>5 DEF DocFits, Cleared, Withdrawn
  <1>7. Cleared(i, d)' /\ Withdrawn(i, d)'
    BY ZenonT(60), <1>1, <1>3, <1>6 DEF Cleared, Withdrawn
  <1>8. doc'[d].status \notin {"publishing", "published"}
    BY ZenonT(60), <1>3, <1>5, <1>6 DEF DocFits
  <1>9. DocFits(i, d)'
    <2>1. publication'[d] <= doc'[d].generation /\ publication'[d] = 0
      <3>1. 0 <= doc[d].generation
        BY GenerationIsNat
      <3> QED
        BY ZenonT(60), <1>3, <1>4, <3>1
    <2> QED
      BY ZenonT(60), <1>3, <1>4, <1>7, <1>8, <2>1 DEF DocFits
  <1>10. Advances(i, i)
    BY ZenonT(60), <1>1, <1>3, GenerationsStay
  <1>11. \A k \in Generations : JobFits(i, d, k)'
    BY ZenonT(60), <1>4 DEF JobFits
  <1> QED
    BY <1>1, <1>4, <1>9, <1>10, <1>11, OneOfEach

\* RestoreDeletedDocument and PurgeDeletedDocument.
LEMMA RestoreFits ==
  ASSUME TypeOK, RefInv, NEW i \in Intents, Fits(i), NEW d \in Docs,
         RestoreDeletedDocument(d) \/ PurgeDeletedDocument(d)
  PROVE  RefInv' /\ Fits(i)'
  <1>1. /\ UNCHANGED <<head, refs, candidate, publication, mediaRefs, jobs, hand, late, purge>>
        /\ doc[d].life = "trashed"
    BY DEF RestoreDeletedDocument, PurgeDeletedDocument
  <1>2. PICK life \in {"live", "due"} : doc' = [doc EXCEPT ![d].life = life]
    BY DEF RestoreDeletedDocument, PurgeDeletedDocument
  <1>3. /\ \A e \in Docs :
             /\ doc'[e].status = doc[e].status
             /\ doc'[e].generation = doc[e].generation
             /\ e # d => doc'[e] = doc[e]
        /\ doc'[d].life = life
    <2>1. life \in Lives
      BY DEF Lives
    <2> QED
      BY ZenonT(60), <1>2, <2>1, LifeOfOne
  <1>4. DocFits(i, d)
    BY DEF Fits
  <1>5. Withdrawn(i, d) /\ purge[d] = "none" /\ doc[d].life # "gone"
    BY ZenonT(60), <1>1, <1>4 DEF DocFits
  <1>6. /\ Withdrawn(i, d)' <=> Withdrawn(i, d)
        /\ Cleared(i, d)' <=> Cleared(i, d)
    BY ZenonT(60), <1>1, <1>3 DEF Withdrawn, Cleared
  <1>7. DocFits(i, d)'
    BY ZenonT(60), <1>1, <1>3, <1>4, <1>5, <1>6 DEF DocFits
  <1>8. Advances(i, i)
    BY ZenonT(60), <1>1, <1>3, GenerationsStay
  <1>9. \A e \in Docs : e # d => SameDocument(e)
    BY ZenonT(60), <1>1, <1>3 DEF SameDocument
  <1> QED
    BY ZenonT(60), <1>1, <1>7, <1>8, <1>9, OneOfEach

\* A job that was just enqueued fits when it asks for what its generation does.
LEMMA NewJobFits ==
  ASSUME NEW j \in Intents, NEW d \in Docs, NEW g \in Generations,
         g <= doc'[d].generation,
         jobs'[d][g] = NewJob(j[d][g].action, j[d][g].ids)
  PROVE  JobFits(j, d, g)'
  <1>1. /\ jobs'[d][g].action = j[d][g].action
        /\ jobs'[d][g].ids = j[d][g].ids
        /\ jobs'[d][g].state = "pending"
    BY DEF NewJob
  <1> QED
    BY ZenonT(60), <1>1 DEF JobFits

(***************************************************************************)
(* A request opens a new generation.  Its intent joins the table; the jobs *)
(* of earlier generations that are not parked go.                          *)
(***************************************************************************)
LEMMA NewGeneration ==
  ASSUME TypeOK, RefInv, NEW i \in Intents, Fits(i), NEW d \in Docs,
         NEW g \in Generations, g = doc[d].generation + 1,
         NEW n \in Intent,
         UNCHANGED <<head, refs, hand, late, purge>>,
         jobs'[d] = Enqueued(d, g, NewJob(n.action, n.ids)),
         \A e \in Docs : e # d => jobs'[e] = jobs[e],
         doc'[d].generation = g,
         \A e \in Docs : e # d =>
           /\ doc'[e] = doc[e] /\ candidate'[e] = candidate[e]
           /\ publication'[e] = publication[e] /\ mediaRefs'[e] = mediaRefs[e],
         \A j \in Intents : j[d][g] = n => DocFits(j, d)'
  PROVE  RefInv' /\ \E j \in Intents : Fits(j)'
  <1> DEFINE j == [i EXCEPT ![d][g] = n]
  <1>1. /\ j \in Intents
        /\ j[d][g] = n
        /\ \A e \in Docs, k \in Generations : e # d \/ k # g => j[e][k] = i[e][k]
    <2>1. i \in [Docs -> [Generations -> Intent]] /\ i[d] \in [Generations -> Intent]
      BY ZenonT(60) DEF Intents
    <2>2. j = [i EXCEPT ![d] = [i[d] EXCEPT ![g] = n]]
      BY ZenonT(60), <2>1
    <2>3. [i[d] EXCEPT ![g] = n] \in [Generations -> Intent]
      BY ZenonT(60), <2>1
    <2> QED
      BY ZenonT(60), <2>1, <2>2, <2>3 DEF Intents
  <1> HIDE DEF j
  <1>2. g \in Nat /\ doc[d].generation \in Nat /\ g > doc[d].generation
    <2>1. g \in Nat /\ doc[d].generation \in Nat
      BY ZenonT(60), GenerationsAreNat, GenerationIsNat
    <2> QED
      BY <2>1
  <1>3. Advances(i, j)
    <2>1. ASSUME NEW e \in Docs
          PROVE  /\ doc'[e].generation \in Nat
                 /\ doc[e].generation <= doc'[e].generation
                 /\ doc'[e].generation = doc[e].generation /\ doc'[e].status = "publishing"
                      => doc[e].status = "publishing"
      <3>1. CASE e = d
        BY ZenonT(60), <1>2, <3>1, AboveIsMore
      <3>2. CASE e # d
        BY ZenonT(60), <3>2, GenerationIsNat, GeSelf
      <3> QED
        BY ZenonT(60), <3>1, <3>2
    <2>2. ASSUME NEW e \in Docs, NEW k \in Generations, k <= doc[e].generation
          PROVE  j[e][k] = i[e][k]
      <3>1. ~(e = d /\ k = g)
        BY ZenonT(60), <1>2, <2>2, AboveIsNotLess
      <3> QED
        BY ZenonT(60), <1>1, <3>1
    <2> QED
      BY ZenonT(60), <2>1, <2>2 DEF Advances
  <1>4. NewJob(n.action, n.ids) \in Jobs
    BY ZenonT(60), NewJobType DEF Intent
  <1>5. \A e \in Docs, k \in Generations :
          jobs'[e][k] = IF e # d THEN jobs[e][k]
                        ELSE IF k = g THEN NewJob(n.action, n.ids)
                        ELSE IF jobs[d][k] # NoJob /\ jobs[d][k].parked THEN jobs[d][k]
                        ELSE NoJob
    <2>1. \A k \in Generations :
            jobs'[d][k] = IF k = g THEN NewJob(n.action, n.ids)
                          ELSE IF jobs[d][k] # NoJob /\ jobs[d][k].parked THEN jobs[d][k]
                          ELSE NoJob
      BY ZenonT(60) DEF Enqueued
    <2> QED
      BY ZenonT(60), <2>1
  <1>6. \A e \in Docs : e # d => SameDocument(e)
    BY ZenonT(60), <1>5 DEF SameDocument
  <1>7. ASSUME NEW k \in Generations, jobs'[d][k] # jobs[d][k] PROVE JobFits(j, d, k)'
    <2>1. CASE k = g
      <3>1. jobs'[d][g] = NewJob(n.action, n.ids)
        BY ZenonT(60), <1>5
      <3>2. g <= doc'[d].generation
        BY ZenonT(60), <1>2, GeSelf
      <3>3. j \in Intents /\ j[d][g] = n
        BY ZenonT(60), <1>1
      <3>4. jobs'[d][g] = NewJob(j[d][g].action, j[d][g].ids)
        BY ZenonT(60), <3>1, <3>3
      <3>5. JobFits(j, d, g)'
        BY ZenonT(60), <3>2, <3>3, <3>4, NewJobFits
      <3> QED
        BY ZenonT(60), <2>1, <3>5
    <2>2. CASE k # g
      <3>1. jobs'[d][k] = NoJob
        BY ZenonT(60), <1>5, <1>7, <2>2
      <3> QED
        BY ZenonT(60), <3>1 DEF JobFits
    <2> QED
      BY ZenonT(60), <2>1, <2>2
  <1>8. DocFits(j, d)'
    BY ZenonT(60), <1>1
  <1>9. RefInv' /\ Fits(j)'
    BY ZenonT(60), <1>1, <1>3, <1>6, <1>7, <1>8, OneOfEach
  <1> QED
    BY ZenonT(60), <1>1, <1>9

\* PublishSnapshot.
LEMMA PublishFits ==
  ASSUME TypeOK, RefInv, NEW i \in Intents, Fits(i), NEW d \in Docs,
         NEW ids \in MediaSets, PublishSnapshot(d, ids)
  PROVE  RefInv' /\ \E j \in Intents : Fits(j)'
  <1>1. PICK g \in Generations : g = doc[d].generation + 1
    BY DEF PublishSnapshot
  <1> DEFINE n == [action |-> "publish", ids |-> ids]
  <1>2. n \in Intent /\ n.action = "publish" /\ n.ids = ids
    BY MediaAssumption DEF Intent
  <1>3. /\ UNCHANGED <<head, refs, hand, late, purge>>
        /\ jobs' = [jobs EXCEPT ![d] = Enqueued(d, g, NewJob(n.action, n.ids))]
        /\ doc[d].life = "live" /\ candidate' = [candidate EXCEPT ![d] = g]
        /\ doc' = [doc EXCEPT ![d].status = "publishing", ![d].generation = g]
        /\ mediaRefs' = mediaRefs /\ publication' = publication
    BY <1>1 DEF PublishSnapshot
  <1>4. /\ doc'[d].status = "publishing" /\ doc'[d].generation = g /\ doc'[d].life = "live"
        /\ \A e \in Docs : e # d => doc'[e] = doc[e]
    <2>1. doc[d] \in [life : Lives, status : Statuses, generation : 0 .. MaxGeneration]
      BY DEF TypeOK
    <2>2. /\ doc'[d] = [doc[d] EXCEPT !.status = "publishing", !.generation = g]
          /\ \A e \in Docs : e # d => doc'[e] = doc[e]
      BY <1>3 DEF TypeOK
    <2>3. doc'[d] = [life |-> doc[d].life, status |-> "publishing", generation |-> g]
      BY ZenonT(60), <2>1, <2>2
    <2> QED
      BY ZenonT(60), <1>3, <2>2, <2>3
  <1>5. candidate'[d] = g /\ \A e \in Docs : e # d => candidate'[e] = candidate[e]
    BY <1>3 DEF TypeOK
  <1>6. purge[d] = "none"
    BY ZenonT(60), <1>3 DEF Fits, DocFits
  <1>7. jobs'[d][g] # NoJob /\ ~jobs'[d][g].parked
    <2>1. NewJob(n.action, n.ids) \in Jobs
      BY <1>2, NewJobType DEF Intent
    <2>2. jobs'[d][g] = NewJob(n.action, n.ids)
      <3>1. jobs'[d] = Enqueued(d, g, NewJob(n.action, n.ids))
        BY <1>3 DEF TypeOK
      <3> QED
        BY ZenonT(60), <3>1 DEF Enqueued
    <2>3. ~jobs'[d][g].parked
      BY ZenonT(60), <2>2, NotParked
    <2> QED
      BY ZenonT(60), <2>1, <2>2, <2>3, NoRowAssumption
  <1>8. ASSUME NEW j \in Intents, j[d][g] = n PROVE DocFits(j, d)'
    <2>1. g # 0 /\ j[d][g].action = "publish"
      <3>1. g # 0
        BY GenerationsAreNat
      <3> QED
        BY ZenonT(60), <1>2, <1>8, <3>1
    <2>2. ~Withdrawn(j, d)'
      BY ZenonT(60), <1>4, <2>1 DEF Withdrawn
    <2> QED
      <3>1. publication'[d] <= g /\ publication'[d] # g
        <4>1. DocFits(i, d)
          BY DEF Fits
        <4>2. publication[d] <= doc[d].generation
          BY ZenonT(60), <4>1 DEF DocFits
        <4>3. publication[d] \in Nat
          BY BoundAssumption DEF TypeOK
        <4> QED
          BY <1>1, <1>3, <4>2, <4>3, GenerationIsNat
      <3> QED
        BY ZenonT(60), <1>3, <1>4, <1>5, <1>6, <1>7, <2>1, <2>2, <3>1 DEF DocFits
  <1>9. /\ jobs'[d] = Enqueued(d, g, NewJob(n.action, n.ids))
        /\ \A e \in Docs : e # d => jobs'[e] = jobs[e]
    BY <1>3 DEF TypeOK
  <1>10. /\ doc'[d].generation = g
         /\ \A e \in Docs : e # d =>
              /\ doc'[e] = doc[e] /\ candidate'[e] = candidate[e]
              /\ publication'[e] = publication[e] /\ mediaRefs'[e] = mediaRefs[e]
    BY ZenonT(60), <1>3, <1>4, <1>5
  <1> HIDE DEF n
  <1>11. PICK m \in Intent : m = n
    BY <1>2
  <1> QED
    BY ZenonT(60), <1>1, <1>3, <1>8, <1>9, <1>10, <1>11, NewGeneration

\* SetPublication and SoftDeleteDocument.
LEMMA WithdrawFits ==
  ASSUME TypeOK, RefInv, NEW i \in Intents, Fits(i), NEW d \in Docs,
         NEW life \in {"live", "trashed"}, Withdraw(d, life)
  PROVE  RefInv' /\ \E j \in Intents : Fits(j)'
  <1>1. PICK g \in Generations : g = doc[d].generation + 1
    BY DEF Withdraw
  <1> DEFINE n == [action |-> "clear", ids |-> {}]
  <1>2. n \in Intent /\ n.action = "clear" /\ n.ids = {}
    BY ZenonT(60) DEF Intent
  <1>3. /\ UNCHANGED <<head, refs, hand, late, purge>>
        /\ jobs' = [jobs EXCEPT ![d] = Enqueued(d, g, NewJob(n.action, n.ids))]
        /\ doc[d].life = "live" /\ candidate' = [candidate EXCEPT ![d] = 0]
        /\ doc' = [doc EXCEPT ![d] =
             [life |-> life, status |-> "unpublishing", generation |-> g]]
        /\ mediaRefs' = [mediaRefs EXCEPT ![d] = {}]
        /\ publication' = [publication EXCEPT ![d] = 0]
    BY ZenonT(60), <1>1 DEF Withdraw
  <1>4. /\ doc'[d].status = "unpublishing" /\ doc'[d].generation = g /\ doc'[d].life = life
        /\ \A e \in Docs : e # d => doc'[e] = doc[e]
    BY ZenonT(60), <1>3 DEF TypeOK
  <1>5. /\ publication'[d] = 0
        /\ \A e \in Docs : e # d =>
             /\ candidate'[e] = candidate[e] /\ publication'[e] = publication[e]
             /\ mediaRefs'[e] = mediaRefs[e]
    BY ZenonT(60), <1>3 DEF TypeOK
  <1>6. purge[d] = "none"
    BY ZenonT(60), <1>3 DEF Fits, DocFits
  <1>7. jobs'[d][g] # NoJob /\ ~jobs'[d][g].parked
    <2>1. NewJob(n.action, n.ids) \in Jobs
      BY ZenonT(60), <1>2, NewJobType DEF Intent
    <2>2. jobs'[d][g] = NewJob(n.action, n.ids)
      <3>1. jobs'[d] = Enqueued(d, g, NewJob(n.action, n.ids))
        BY ZenonT(60), <1>3 DEF TypeOK
      <3> QED
        BY ZenonT(60), <3>1 DEF Enqueued
    <2>3. ~jobs'[d][g].parked
      BY ZenonT(60), <2>2, NotParked
    <2> QED
      BY ZenonT(60), <2>1, <2>2, <2>3, NoRowAssumption
  <1>8. ASSUME NEW j \in Intents, j[d][g] = n PROVE DocFits(j, d)'
    <2>1. g # 0 /\ j[d][g].action = "clear"
      <3>1. g # 0
        BY GenerationsAreNat
      <3> QED
        BY ZenonT(60), <1>2, <1>8, <3>1
    <2>2. Withdrawn(j, d)'
      BY ZenonT(60), <1>4, <2>1 DEF Withdrawn
    <2>3. doc'[d].status \notin {"draft", "publishing", "published"} /\ doc'[d].life # "gone"
      BY ZenonT(60), <1>4
    <2>4. purge'[d] = "none" /\ publication'[d] = 0 /\ 0 <= g
      <3>1. 0 <= g
        BY GenerationsAreNat
      <3> QED
        BY ZenonT(60), <1>3, <1>5, <1>6, <3>1
    <2> QED
      BY ZenonT(60), <1>4, <1>7, <2>2, <2>3, <2>4 DEF DocFits
  <1>9. /\ jobs'[d] = Enqueued(d, g, NewJob(n.action, n.ids))
        /\ \A e \in Docs : e # d => jobs'[e] = jobs[e]
    BY ZenonT(60), <1>3 DEF TypeOK
  <1>10. /\ doc'[d].generation = g
         /\ \A e \in Docs : e # d =>
              /\ doc'[e] = doc[e] /\ candidate'[e] = candidate[e]
              /\ publication'[e] = publication[e] /\ mediaRefs'[e] = mediaRefs[e]
    BY ZenonT(60), <1>3, <1>4, <1>5
  <1> HIDE DEF n
  <1>11. PICK m \in Intent : m = n
    BY ZenonT(60), <1>2
  <1> QED
    BY ZenonT(60), <1>1, <1>3, <1>8, <1>9, <1>10, <1>11, NewGeneration

-----------------------------------------------------------------------------
(***************************************************************************)
(* The invariant holds in the initial state and is kept by every step.     *)
(***************************************************************************)
LEMMA InitFits == Init => SagaInv
  <1> SUFFICES ASSUME Init PROVE SagaInv
    OBVIOUS
  <1>1. RefInv
    BY RefInitOK DEF Init
  <1>2. TypeOK
    <2>1. RefTypeOK
      BY <1>1 DEF RefInv
    <2>2. 0 \in 0 .. MaxGeneration
      BY BoundAssumption
    <2> QED
      BY Zenon, <2>1, <2>2 DEF Init, TypeOK, Lives, Statuses
  <1> DEFINE i == [d \in Docs |-> [g \in Generations |-> [action |-> "clear", ids |-> {}]]]
  <1>3. i \in Intents
    BY Zenon DEF Intents, Intent
  <1> HIDE DEF i
  <1>4. ASSUME NEW d \in Docs PROVE HeadFits(i, d) /\ DocFits(i, d)
    <2>1. /\ head[d].staged = 0 /\ head[d].active = 0 /\ doc[d].generation = 0
          /\ doc[d].status = "draft" /\ doc[d].life = "live" /\ purge[d] = "none"
          /\ publication[d] = 0
      BY Zenon DEF Init, RefInit, NoHead
    <2>2. HeadFits(i, d)
      BY <2>1, GenerationsAreNat DEF HeadFits, Latest
    <2>3. DocFits(i, d)
      BY <2>1 DEF DocFits, Withdrawn
    <2> QED
      BY <2>2, <2>3
  <1>5. /\ \A d \in Docs, g \in Generations : JobFits(i, d, g)
        /\ \A w \in Workers : hand[w] = Idle
        /\ late = {}
    BY Zenon DEF Init, JobFits
  <1>6. Fits(i)
    BY <1>4, <1>5 DEF Fits
  <1> QED
    BY <1>1, <1>2, <1>3, <1>6 DEF SagaInv

\* A step that changes nothing.
LEMMA StutterFits ==
  ASSUME TypeOK, RefInv, NEW i \in Intents, Fits(i), UNCHANGED vars
  PROVE  TypeOK' /\ RefInv' /\ Fits(i)'
  <1>1. TypeOK'
    BY Zenon DEF vars, TypeOK, RefTypeOK
  <1>2. RefInv'
    BY Stutter DEF vars, refVars
  <1>3. /\ \A d \in Docs : HeadFits(i, d)' /\ DocFits(i, d)'
        /\ \A d \in Docs, g \in Generations : JobFits(i, d, g)'
    <2>1. Advances(i, i)
      BY SameDocsAdvance DEF vars
    <2>2. \A d \in Docs : SameDocument(d) /\ \A g \in Generations : jobs'[d][g] = jobs[d][g]
      BY Zenon DEF vars, SameDocument
    <2> QED
      BY Zenon, <2>1, <2>2, AdvanceKeeps
  <1>4. \A w \in Workers : hand'[w] # Idle => CopyFits(i, hand[w])'
    BY ZenonT(60) DEF vars, Fits, CopyFits
  <1>5. \A x \in late' : CallFits(i, x)'
    BY ZenonT(60) DEF vars, Fits, CallFits
  <1> QED
    BY Zenon, <1>1, <1>2, <1>3, <1>4, <1>5 DEF Fits

\* The types of Knowledge's tables are kept by every step.
LEMMA NextType ==
  ASSUME TypeOK, Next
  PROVE  RestTypeOK'
  <1>1. ASSUME NEW x \in late, LateCall(x) PROVE RestTypeOK'
    BY <1>1 DEF LateCall, docVars, TypeOK, RestTypeOK
  <1> QED
    BY <1>1, RequestType, PurgeType, ClaimType, WorkerType DEF Next, Steady, Claim

\* Every step keeps the invariant, with the same intents or one more.
LEMMA NextFits ==
  ASSUME TypeOK, RefInv, NEW i \in Intents, Fits(i), Next
  PROVE  RefInv' /\ \E j \in Intents : Fits(j)'
  <1>1. ASSUME NEW d \in Docs, Request(d) PROVE RefInv' /\ \E j \in Intents : Fits(j)'
    <2>1. CASE \E ids \in MediaSets : PublishSnapshot(d, ids)
      BY <2>1, PublishFits
    <2>2. CASE SetPublication(d) \/ SoftDeleteDocument(d)
      BY <2>2, WithdrawFits DEF SetPublication, SoftDeleteDocument
    <2>3. CASE RestoreDeletedDocument(d) \/ PurgeDeletedDocument(d)
      BY <2>3, RestoreFits
    <2> QED
      BY <1>1, <2>1, <2>2, <2>3 DEF Request
  <1>2. ASSUME NEW d \in Docs, Purge(d) PROVE RefInv' /\ Fits(i)'
    BY <1>2, RedriveFits, PurgePassFits, PurgeDocumentFits DEF Purge
  <1>3. ASSUME Claim PROVE RefInv' /\ Fits(i)'
    BY <1>3, ClaimFits DEF Claim
  <1>4. ASSUME NEW w \in Workers, WorkerStep(w) PROVE RefInv' /\ Fits(i)'
    BY Zenon, <1>4, CallStageFits, CallFinalizeFits, CallClearFits, MarkFits, PromoteFits,
       PromotedBeforeFits, CompleteFits, GiveBackFits, ParkFits DEF WorkerStep
  <1>5. ASSUME NEW w \in Workers, StepFails(w) \/ WorkerCutOff(w) PROVE RefInv' /\ Fits(i)'
    BY <1>5, FailureFits, GiveBackFits DEF StepFails
  <1>6. ASSUME NEW x \in late, LateCall(x) PROVE RefInv' /\ Fits(i)'
    BY <1>6, LateCallFits
  <1> QED
    BY <1>1, <1>2, <1>3, <1>4, <1>5, <1>6 DEF Next, Steady

\* The invariant is inductive.
LEMMA SagaStep == SagaInv /\ [Next]_vars => SagaInv'
  <1> SUFFICES ASSUME SagaInv, [Next]_vars PROVE SagaInv'
    OBVIOUS
  <1>1. PICK i \in Intents : Fits(i)
    BY DEF SagaInv
  <1>2. TypeOK /\ RefInv
    BY DEF SagaInv
  <1>3. CASE Next
    <2>1. RefInv' /\ \E j \in Intents : Fits(j)'
      BY <1>1, <1>2, <1>3, NextFits
    <2>2. TypeOK'
      BY ZenonT(60), <1>2, <1>3, <2>1, NextType DEF TypeOK, RestTypeOK, RefInv
    <2> QED
      BY <2>1, <2>2 DEF SagaInv
  <1>4. CASE UNCHANGED vars
    BY <1>1, <1>2, <1>4, StutterFits DEF SagaInv
  <1> QED
    BY <1>3, <1>4

-----------------------------------------------------------------------------
(***************************************************************************)
(* The theorems.                                                           *)
(***************************************************************************)

\* The invariant holds throughout: every job, copy, call and stored hash of a
\* generation describes the one request that took that generation.
THEOREM SagaInvariance == Spec => []SagaInv
  BY InitFits, SagaStep, PTL DEF Spec

\* The rows, copies and calls keep their types.
THEOREM SagaTypeCorrect == Spec => []TypeOK
  <1>1. SagaInv => TypeOK
    BY DEF SagaInv
  <1> QED
    BY <1>1, SagaInvariance, PTL

(***************************************************************************)
(* Whatever the workers of Knowledge and the network do, the attachments   *)
(* of a published document are held in the Attachment service.             *)
(***************************************************************************)
THEOREM PublishedMediaHeld == Spec => []PublishedMediaIsHeld
  <1>1. ASSUME SagaInv PROVE PublishedMediaIsHeld
    <2>1. SUFFICES ASSUME NEW d \in Docs, doc[d].status = "published"
                   PROVE  mediaRefs[d] \subseteq refs[d]
      BY DEF PublishedMediaIsHeld
    <2>2. PICK i \in Intents : Fits(i)
      BY <1>1 DEF SagaInv
    <2>3. HeadFits(i, d) /\ DocFits(i, d) /\ HeadOK(head[d]) /\ refs[d] = Promised(head[d])
      BY Zenon, <1>1, <2>2 DEF Fits, SagaInv, RefInv, HeadDescribesReferences
    <2>4. PICK g \in Generations : g = doc[d].generation /\ g # 0
      BY ZenonT(60), <1>1, <2>1, <2>3, GenerationIsNat DEF DocFits, SagaInv
    <2>5. Latest(head[d]) = g /\ mediaRefs[d] = Rows(g, i[d][g].ids)
      BY ZenonT(60), <2>1, <2>3, <2>4 DEF DocFits
    <2>6. CASE head[d].staged = g
      <3>1. head[d].stagedHash # NoHash /\ head[d].stagedHash.ids = i[d][g].ids
        BY ZenonT(60), <2>3, <2>4, <2>6, NoValueAssumption DEF HeadFits, HeadOK
      <3> QED
        BY ZenonT(60), <2>3, <2>5, <2>6, <3>1 DEF Promised, Rows
    <2>7. CASE head[d].staged # g
      <3>1. head[d].active = g
        BY <2>5, <2>7 DEF Latest
      <3>2. head[d].activeHash # NoHash /\ head[d].activeHash.ids = i[d][g].ids
        BY ZenonT(60), <2>3, <2>4, <3>1, NoValueAssumption DEF HeadFits, HeadOK
      <3> QED
        BY ZenonT(60), <2>3, <2>5, <3>1, <3>2 DEF Promised, Rows
    <2> QED
      BY <2>6, <2>7
  <1> QED
    BY <1>1, SagaInvariance, PTL

(***************************************************************************)
(* No attachment is held for a draft or for a document that was purged,    *)
(* although a purge deletes the jobs and calls may still be under way.     *)
(***************************************************************************)
THEOREM WithdrawnHoldsNothing == Spec => []NothingHeldWhenWithdrawn
  <1>1. ASSUME SagaInv PROVE NothingHeldWhenWithdrawn
    <2>1. SUFFICES ASSUME NEW d \in Docs, doc[d].status = "draft" \/ doc[d].life = "gone"
                   PROVE  refs[d] = {}
      BY DEF NothingHeldWhenWithdrawn
    <2>2. PICK i \in Intents : Fits(i)
      BY <1>1 DEF SagaInv
    <2>3. HeadFits(i, d) /\ DocFits(i, d) /\ HeadOK(head[d]) /\ refs[d] = Promised(head[d])
      BY <1>1, <2>2 DEF Fits, SagaInv, RefInv, HeadDescribesReferences
    <2>4. /\ head[d].active \in Nat /\ head[d].staged \in Nat /\ doc[d].generation \in Nat
          /\ doc[d].generation # 0 => doc[d].generation \in Generations
      <3>1. head[d] \in Heads
        BY Zenon, <1>1 DEF SagaInv, RefInv, RefTypeOK
      <3>2. head[d].active \in Nat /\ head[d].staged \in Nat
        BY <3>1, BoundAssumption DEF Heads, Generations
      <3> QED
        BY Zenon, <1>1, <3>2, GenerationIsNat DEF SagaInv
    <2>5. head[d].staged <= doc[d].generation /\ head[d].active <= doc[d].generation
      BY <2>3, <2>4 DEF HeadFits, Latest
    <2>6. CASE doc[d].generation = 0
      <3>1. head[d].stagedHash = NoHash /\ head[d].activeHash = NoHash
        BY <2>3, <2>4, <2>5, <2>6 DEF HeadOK
      <3> QED
        BY Zenon, <2>3, <3>1 DEF Promised
    <2>7. CASE Cleared(i, d)
      <3>1. PICK g \in Generations :
              g = doc[d].generation /\ head[d].active = g /\ i[d][g].action = "clear"
        BY ZenonT(60), <2>4, <2>7 DEF Cleared, Withdrawn
      <3>2. i[d][g].ids = {}
        BY Zenon, <3>1 DEF Intents, Intent
      <3>3. head[d].activeHash.ids = {}
        BY ZenonT(60), <2>3, <3>1, <3>2 DEF HeadFits
      <3>4. head[d].staged = 0 /\ head[d].stagedHash = NoHash
        <4>1. ~(head[d].staged > head[d].active)
          BY <2>4, <2>5, <3>1
        <4> QED
          BY Zenon, <2>3, <4>1 DEF HeadOK
      <3> QED
        BY Zenon, <2>3, <3>3, <3>4 DEF Promised
    <2> QED
      BY ZenonT(60), <2>1, <2>3, <2>6, <2>7 DEF DocFits
  <1> QED
    BY <1>1, SagaInvariance, PTL

(***************************************************************************)
(* A request that is still shown as under way has a job that a worker can  *)
(* claim, and a candidate if it is a publication.                          *)
(***************************************************************************)
THEOREM RequestsKeepJobs == Spec => []RequestHasJob
  <1>1. ASSUME SagaInv PROVE RequestHasJob
    <2>1. PICK i \in Intents : Fits(i)
      BY <1>1 DEF SagaInv
    <2>2. ASSUME NEW d \in Docs, doc[d].life # "gone",
                 doc[d].status \in {"publishing", "unpublishing"}
          PROVE  /\ doc[d].generation \in Generations
                 /\ jobs[d][doc[d].generation] # NoJob
                 /\ ~jobs[d][doc[d].generation].parked
                 /\ doc[d].status = "publishing" =>
                      jobs[d][doc[d].generation].action = "publish"
                      /\ candidate[d] = doc[d].generation
                 /\ doc[d].status = "unpublishing" =>
                      jobs[d][doc[d].generation].action = "clear"
      <3>1. DocFits(i, d) /\ \A g \in Generations : JobFits(i, d, g)
        BY <2>1 DEF Fits
      <3>2. doc[d].generation # 0
        BY ZenonT(60), <2>2, <3>1 DEF DocFits, Withdrawn
      <3>3. PICK g \in Generations : g = doc[d].generation
        BY <1>1, <3>2, GenerationIsNat DEF SagaInv
      <3>4. /\ jobs[d][g] # NoJob /\ ~jobs[d][g].parked
            /\ doc[d].status = "publishing" => i[d][g].action = "publish" /\ candidate[d] = g
            /\ doc[d].status = "unpublishing" => i[d][g].action = "clear"
        BY ZenonT(60), <2>2, <3>1, <3>3 DEF DocFits, Withdrawn
      <3> QED
        BY ZenonT(60), <3>1, <3>3, <3>4 DEF JobFits
    <2> QED
      BY ZenonT(60), <2>2 DEF RequestHasJob
  <1> QED
    BY <1>1, SagaInvariance, PTL

-----------------------------------------------------------------------------
(***************************************************************************)
(* What a step may do to the public side of a document: nothing, promote   *)
(* its latest request, drop the rows of a generation that was a clear, or  *)
(* withdraw it.                                                            *)
(***************************************************************************)
Untouched(d) == publication'[d] = publication[d] /\ mediaRefs'[d] = mediaRefs[d]

Promoted(i, d) ==
  LET g == doc[d].generation
  IN publication'[d] = g /\ mediaRefs'[d] = Rows(g, i[d][g].ids)

ClearRowsDropped(i, d) ==
  /\ publication'[d] = publication[d]
  /\ \E k \in Generations :
       i[d][k].action = "clear" /\ mediaRefs'[d] = {r \in mediaRefs[d] : r.generation # k}

TakenDown(i, d) ==
  /\ publication'[d] = 0
  /\ mediaRefs'[d] = {}
  /\ doc'[d].generation # doc[d].generation \/ Withdrawn(i, d)

\* Every step does one of the four.
LEMMA PublicSide ==
  ASSUME TypeOK, NEW i \in Intents, Fits(i), Next, NEW d \in Docs
  PROVE  Untouched(d) \/ Promoted(i, d) \/ ClearRowsDropped(i, d) \/ TakenDown(i, d)
  <1>1. ASSUME NEW e \in Docs, NEW life \in {"live", "trashed"}, Withdraw(e, life)
        PROVE  Untouched(d) \/ TakenDown(i, d)
    <2>1. CASE e # d
      BY ZenonT(60), <1>1, <2>1 DEF Withdraw, Untouched, TypeOK
    <2>2. CASE e = d
      <3>1. publication'[d] = 0 /\ mediaRefs'[d] = {} /\ doc'[d].generation = doc[d].generation + 1
        BY ZenonT(60), <1>1, <2>2 DEF Withdraw, TypeOK
      <3> QED
        BY <3>1, GenerationIsNat DEF TakenDown
    <2> QED
      BY <2>1, <2>2
  <1>2. ASSUME NEW e \in Docs, PurgeDocument(e)
        PROVE  Untouched(d) \/ TakenDown(i, d)
    <2>1. CASE e # d
      BY <1>2, <2>1 DEF PurgeDocument, Untouched, TypeOK
    <2>2. CASE e = d
      <3>1. publication'[d] = 0 /\ mediaRefs'[d] = {} /\ doc[d].life = "due"
        BY <1>2, <2>2 DEF PurgeDocument, TypeOK
      <3>2. Withdrawn(i, d)
        BY ZenonT(60), <3>1 DEF Fits, DocFits
      <3> QED
        BY Zenon, <3>1, <3>2 DEF TakenDown
    <2> QED
      BY <2>1, <2>2
  <1>3. ASSUME NEW w \in Workers, PromotePublication(w)
        PROVE  Untouched(d) \/ Promoted(i, d)
    <2>1. hand[w] # Idle /\ Promotable(w)
      BY <1>3 DEF PromotePublication, At
    <2>2. PICK e \in Docs, g \in Generations :
            /\ e = hand[w].doc /\ g = hand[w].generation /\ hand[w].ids = i[e][g].ids
      BY ZenonT(60), <2>1, CommandInCommands DEF Fits, CopyFits
    <2>3. doc[e].generation = g /\ candidate[e] = g
      BY ZenonT(60), <2>1, <2>2 DEF Promotable, Current
    <2>4. CASE e # d
      BY ZenonT(60), <1>3, <2>2, <2>4 DEF PromotePublication, Untouched, TypeOK
    <2>5. CASE e = d
      <3>1. publication'[d] = g /\ mediaRefs'[d] = Rows(g, i[d][g].ids)
        <4>1. /\ publication' = [publication EXCEPT ![e] = candidate[e]]
              /\ mediaRefs' = [mediaRefs EXCEPT ![e] =
                   {[attachment |-> a, generation |-> g] : a \in hand[w].ids}]
          BY ZenonT(60), <1>3, <2>2 DEF PromotePublication
        <4>2. publication'[e] = g /\ mediaRefs'[e] = Rows(g, hand[w].ids)
          BY ZenonT(60), <2>3, <4>1 DEF TypeOK, Rows
        <4> QED
          BY ZenonT(60), <2>2, <2>5, <4>2
      <3> QED
        BY Zenon, <2>3, <2>5, <3>1 DEF Promoted
    <2> QED
      BY <2>4, <2>5
  <1>4. ASSUME NEW w \in Workers, CompletePublicationReferenceJob(w)
        PROVE  Untouched(d) \/ ClearRowsDropped(i, d)
    <2>1. hand[w] # Idle /\ publication' = publication
      BY <1>4 DEF CompletePublicationReferenceJob, At
    <2>2. PICK e \in Docs, g \in Generations :
            /\ e = hand[w].doc /\ g = hand[w].generation /\ hand[w].action = i[e][g].action
      BY ZenonT(60), <2>1, CommandInCommands DEF Fits, CopyFits
    <2>3. CASE hand[w].action = "clear"
      <3>1. mediaRefs' = [mediaRefs EXCEPT ![e] = {r \in @ : r.generation # g}]
        BY <1>4, <2>2, <2>3 DEF CompletePublicationReferenceJob
      <3>2. mediaRefs'[d] = IF e = d THEN {r \in mediaRefs[d] : r.generation # g} ELSE mediaRefs[d]
        BY ZenonT(60), <3>1 DEF TypeOK
      <3> QED
        BY ZenonT(60), <2>1, <2>2, <2>3, <3>2 DEF ClearRowsDropped, Untouched
    <2>4. CASE hand[w].action # "clear"
      BY <1>4, <2>1, <2>4 DEF CompletePublicationReferenceJob, Untouched
    <2> QED
      BY <2>3, <2>4
  <1>5. ASSUME NEW e \in Docs, Request(e) \/ Purge(e)
        PROVE  Untouched(d) \/ TakenDown(i, d)
    <2>1. CASE SetPublication(e) \/ SoftDeleteDocument(e) \/ PurgeDocument(e)
      BY <1>1, <1>2, <2>1 DEF SetPublication, SoftDeleteDocument
    <2>2. CASE (\E ids \in MediaSets : PublishSnapshot(e, ids))
               \/ RestoreDeletedDocument(e) \/ PurgeDeletedDocument(e)
      BY <2>2 DEF PublishSnapshot, RestoreDeletedDocument, PurgeDeletedDocument, Untouched
    <2>3. CASE RedrivePublicationReferenceClear(e) \/ PurgeCheck(e)
               \/ PurgeCollaboration(e) \/ PurgeFails(e)
      BY ZenonT(60), <2>3 DEF RedrivePublicationReferenceClear, PurgeCheck, PurgeCollaboration,
                  PurgeFails, docVars, Untouched
    <2> QED
      BY <1>5, <2>1, <2>2, <2>3 DEF Request, Purge
  <1>6. ASSUME NEW w \in Workers, WorkerStep(w) \/ StepFails(w) \/ WorkerCutOff(w)
        PROVE  Untouched(d) \/ Promoted(i, d) \/ ClearRowsDropped(i, d)
    <2>1. CASE PromotePublication(w) \/ CompletePublicationReferenceJob(w)
      BY <1>3, <1>4, <2>1
    <2>2. CASE \/ CallStage(w) \/ CallFinalize(w) \/ CallClear(w)
               \/ MarkPublicationReferencesStaged(w) \/ PromotedBefore(w)
               \/ RetryPublicationReferenceJob(w) \/ ParkPublicationReferenceJob(w)
      BY ZenonT(60), <2>2 DEF CallStage, CallFinalize, CallClear, MarkPublicationReferencesStaged,
                  PromotedBefore, RetryPublicationReferenceJob, ParkPublicationReferenceJob,
                  docVars, Untouched
    <2>3. CASE StepFails(w) \/ WorkerCutOff(w)
      BY ZenonT(60), <2>3 DEF StepFails, CallFails, LocalStepFails, WorkerCutOff, docVars, Untouched
    <2> QED
      BY <1>6, <2>1, <2>2, <2>3 DEF WorkerStep
  <1>7. CASE Claim \/ \E x \in late : LateCall(x)
    BY <1>7 DEF Claim, ClaimPublicationReferenceJob, LateCall, docVars, Untouched
  <1> QED
    BY Zenon, <1>5, <1>6, <1>7 DEF Next, Steady

(***************************************************************************)
(* Only the request the document is at is ever promoted.                   *)
(***************************************************************************)
THEOREM LatestPromoted == Spec => OnlyLatestPromoted
  <1> DEFINE P(d) ==
        /\ publication'[d] \in {publication[d], 0, doc[d].generation}
        /\ \A r \in mediaRefs'[d] \ mediaRefs[d] : r.generation = doc[d].generation
  <1>1. ASSUME SagaInv, [Next]_vars, NEW d \in Docs PROVE P(d)
    <2>1. CASE Next
      <3>1. PICK i \in Intents : Fits(i)
        BY <1>1 DEF SagaInv
      <3>2. Untouched(d) \/ Promoted(i, d) \/ ClearRowsDropped(i, d) \/ TakenDown(i, d)
        BY <1>1, <2>1, <3>1, PublicSide DEF SagaInv
      <3>3. CASE Promoted(i, d)
        BY <3>3 DEF Promoted, Rows
      <3>4. CASE Untouched(d) \/ ClearRowsDropped(i, d) \/ TakenDown(i, d)
        BY Zenon, <3>4 DEF Untouched, ClearRowsDropped, TakenDown
      <3> QED
        BY Zenon, <3>2, <3>3, <3>4
    <2>2. CASE UNCHANGED vars
      BY <2>2 DEF vars
    <2> QED
      BY ZenonT(60), <1>1, <2>1, <2>2
  <1>2. SagaInv /\ [Next]_vars => [\A d \in Docs : P(d)]_vars
    BY <1>1
  <1> QED
    BY <1>2, SagaInvariance, PTL DEF Spec, OnlyLatestPromoted

(***************************************************************************)
(* What is public at the current generation stays, with its media rows,    *)
(* until the next request, whatever clear jobs of earlier generations are  *)
(* still being completed.                                                  *)
(***************************************************************************)
THEOREM PublicationKept == Spec => PublicationKeptUntilNextRequest
  <1> DEFINE P(d) ==
        /\ publication[d] # 0
        /\ publication[d] = doc[d].generation
        /\ doc'[d].generation = doc[d].generation
        => publication'[d] = publication[d] /\ mediaRefs'[d] = mediaRefs[d]
  <1>1. ASSUME SagaInv, [Next]_vars, NEW d \in Docs PROVE P(d)
    <2>1. CASE Next
      <3>1. PICK i \in Intents : Fits(i)
        BY <1>1 DEF SagaInv
      <3>2. Untouched(d) \/ Promoted(i, d) \/ ClearRowsDropped(i, d) \/ TakenDown(i, d)
        BY <1>1, <2>1, <3>1, PublicSide DEF SagaInv
      <3>3. SUFFICES ASSUME publication[d] # 0, publication[d] = doc[d].generation,
                            doc'[d].generation = doc[d].generation
                     PROVE  Untouched(d)
        BY Zenon DEF Untouched
      <3> DEFINE g == doc[d].generation
      <3>4. i[d][g].action = "publish" /\ mediaRefs[d] = Rows(g, i[d][g].ids)
        BY ZenonT(60), <3>1, <3>3 DEF Fits, DocFits
      <3>5. CASE Promoted(i, d)
        BY ZenonT(60), <3>3, <3>4, <3>5 DEF Promoted, Untouched
      <3>6. CASE ClearRowsDropped(i, d)
        <4>1. PICK k \in Generations : /\ i[d][k].action = "clear"
                                       /\ mediaRefs'[d] = {r \in mediaRefs[d] : r.generation # k}
          BY Zenon, <3>6 DEF ClearRowsDropped
        <4>2. k # g
          BY ZenonT(60), <3>4, <4>1
        <4>3. \A r \in mediaRefs[d] : r.generation = g
          BY <3>4 DEF Rows
        <4>4. \A r \in mediaRefs[d] : r.generation # k
          BY Zenon, <4>2, <4>3
        <4> QED
          BY Zenon, <3>6, <4>1, <4>4 DEF ClearRowsDropped, Untouched
      <3>7. CASE TakenDown(i, d)
        BY ZenonT(60), <3>3, <3>4, <3>7 DEF TakenDown, Withdrawn
      <3> QED
        BY <3>2, <3>5, <3>6, <3>7
    <2>2. CASE UNCHANGED vars
      BY <2>2 DEF vars
    <2> QED
      BY Zenon, <1>1, <2>1, <2>2
  <1>2. SagaInv /\ [Next]_vars => [\A d \in Docs : P(d)]_vars
    BY <1>1
  <1> QED
    BY <1>2, SagaInvariance, PTL DEF Spec, PublicationKeptUntilNextRequest
=============================================================================
