------------------------- MODULE AttachmentLifecycle -------------------------
(***************************************************************************)
(* One owner's attachments in the Attachment service, from the multipart   *)
(* upload through the ClamAV scan to trash and restore.                    *)
(*                                                                         *)
(* The actors are request handlers (create, complete and stage span        *)
(* several steps, because they call the object store between transactions  *)
(* or read a row they do not lock), the scan workers, and time, which ends *)
(* leases and backoffs.  A transaction that locks every row it decides on  *)
(* is one step.  PostgreSQL runs at READ COMMITTED, so a transaction that  *)
(* counts rows it does not lock is two.                                    *)
(***************************************************************************)
EXTENDS Naturals, FiniteSetsExt

CONSTANTS
  Attachments,      \* attachment ids; domain.NewID takes an unused one
  Keys,             \* idempotency keys
  NoKey,            \* the empty key of a create that sends none
  Sizes,            \* declared sizes, in units of quota
  MaxUserBytes,     \* the owner's quota, in the same units
  Requests,         \* request handlers that run at the same time
  Scanners,         \* scan workers, one per replica of the service
  MaxScanAttempts,  \* maxScanAttempts
  MaxLost,          \* bound: scans that end without RetryScan or CompleteScan
  MaxLostCommits,   \* bound: commits whose acknowledgement is lost
  None              \* no handler, no attachment

ASSUME LifecycleAssumption ==
  /\ Sizes \subseteq Nat \ {0}
  /\ MaxUserBytes \in Nat
  /\ MaxScanAttempts \in Nat \ {0}
  /\ MaxLost \in Nat
  /\ MaxLostCommits \in Nat
  /\ NoKey \notin Keys
  /\ None \notin Attachments \cup Requests

VARIABLES
  row,          \* attachment.attachments: status, declared size, idempotency key
  multipart,    \* the object store's upload of each attachment
  content,      \* what the client really uploaded
  job,          \* attachment.scan_jobs
  referenced,   \* attachments with a row in attachment.references
  request,      \* the request handlers
  keyLock,      \* holder of the advisory lock of each idempotency key
  scanner,      \* the attachment each scan worker is scanning
  lost,         \* scans lost so far
  lostCommits   \* commit acknowledgements lost so far

uploadVars == <<row, multipart, content, request, keyLock, lostCommits>>
scanVars == <<job, scanner, lost>>
vars == <<uploadVars, scanVars, referenced>>

Statuses ==
  {"absent", "pending_upload", "scanning", "ready", "rejected", "scan_parked", "trashed"}

Rows == [status : Statuses, size : Sizes \cup {0}, key : Keys \cup {NoKey}]

NoRow == [status |-> "absent", size |-> 0, key |-> NoKey]

(***************************************************************************)
(* refused stands for an infected object and for one whose size or digest  *)
(* is not the declared one.  ClamAV's verdict is a function of the object. *)
(***************************************************************************)
Contents == {"clean", "refused"}

Jobs == [present : BOOLEAN, attempts : 0 .. MaxScanAttempts + MaxLost,
         due : BOOLEAN, leased : BOOLEAN, parked : BOOLEAN]

NoJob == [present |-> FALSE, attempts |-> 0, due |-> FALSE, leased |-> FALSE,
          parked |-> FALSE]

Idle == [pc |-> "idle", attachment |-> None, key |-> NoKey, size |-> 0]

HandlerSteps ==
  {"idle", "lookup", "insert", "abort", "completing", "marking", "staging"}

Init ==
  /\ row = [a \in Attachments |-> NoRow]
  /\ multipart = [a \in Attachments |-> "none"]
  /\ content = [a \in Attachments |-> "none"]
  /\ job = [a \in Attachments |-> NoJob]
  /\ referenced = {}
  /\ request = [p \in Requests |-> Idle]
  /\ keyLock = [k \in Keys |-> None]
  /\ scanner = [w \in Scanners |-> None]
  /\ lost = 0
  /\ lostCommits = 0

Goto(p, step) == request' = [request EXCEPT ![p].pc = step]

Finish(p) == request' = [request EXCEPT ![p] = Idle]

-----------------------------------------------------------------------------
(***************************************************************************)
(* CreateAttachment opens the upload at the object store before it knows   *)
(* whether the request is new.                                             *)
(***************************************************************************)
StartMultipart(p, k, size) ==
  /\ request[p].pc = "idle"
  /\ \E a \in Attachments :
       /\ multipart[a] = "none"
       /\ multipart' = [multipart EXCEPT ![a] = "open"]
       /\ request' = [request EXCEPT ![p] =
            [pc |-> "lookup", attachment |-> a, key |-> k, size |-> size]]
  /\ UNCHANGED <<row, content, keyLock, lostCommits, scanVars, referenced>>

\* The statuses whose bytes the quota query adds up.
Counted == {"pending_upload", "scanning", "scan_parked", "ready", "trashed"}

Used ==
  LET counted == {a \in Attachments : row[a].status \in Counted} IN
  MapThenSumSet(LAMBDA a : row[a].size, counted)

SameKey(k) == {a \in Attachments : row[a].status # "absent" /\ row[a].key = k}

(***************************************************************************)
(* The first half of the create transaction: it waits for the lock of the  *)
(* idempotency key, looks for the key's row, and otherwise adds up the     *)
(* quota.  An existing row (of the same request or of another one) and a   *)
(* full quota both end in the abort of this request's own upload.          *)
(***************************************************************************)
CreateLookup(p) ==
  LET k == request[p].key
      found == k \in Keys /\ SameKey(k) # {}
      full == Used + request[p].size > MaxUserBytes
  IN /\ request[p].pc = "lookup"
     /\ k \in Keys => keyLock[k] = None
     /\ \/ /\ found \/ full
           /\ Goto(p, "abort")
           /\ UNCHANGED keyLock
        \/ /\ ~found /\ ~full
           /\ Goto(p, "insert")
           /\ keyLock' = [j \in Keys |-> IF j = k THEN p ELSE keyLock[j]]
     /\ UNCHANGED <<row, multipart, content, lostCommits, scanVars, referenced>>

ReleaseKey(p) == keyLock' = [j \in Keys |-> IF keyLock[j] = p THEN None ELSE keyLock[j]]

InsertRow(p) ==
  row' = [row EXCEPT ![request[p].attachment] =
    [status |-> "pending_upload", size |-> request[p].size, key |-> request[p].key]]

\* The second half: the row is inserted and the handler answers with its URLs.
CreateInsert(p) ==
  /\ request[p].pc = "insert"
  /\ InsertRow(p)
  /\ ReleaseKey(p)
  /\ Finish(p)
  /\ UNCHANGED <<multipart, content, lostCommits, scanVars, referenced>>

\* The transaction fails and is rolled back.
CreateFails(p) ==
  /\ request[p].pc = "insert"
  /\ ReleaseKey(p)
  /\ Goto(p, "abort")
  /\ UNCHANGED <<row, multipart, content, lostCommits, scanVars, referenced>>

\* The transaction commits, but the handler is told that it failed.
CreateCommitUnacknowledged(p) ==
  /\ request[p].pc = "insert"
  /\ lostCommits < MaxLostCommits
  /\ lostCommits' = lostCommits + 1
  /\ InsertRow(p)
  /\ ReleaseKey(p)
  /\ Goto(p, "abort")
  /\ UNCHANGED <<multipart, content, scanVars, referenced>>

\* Mutant: the upload of the row that was found is aborted, not this request's.
AbortMultipartOfKey(p) ==
  /\ request[p].pc = "abort"
  /\ multipart' = [a \in Attachments |->
       IF a \in SameKey(request[p].key) \cup {request[p].attachment}
         THEN "aborted" ELSE multipart[a]]
  /\ Finish(p)
  /\ UNCHANGED <<row, content, keyLock, lostCommits, scanVars, referenced>>

\* The abort of the request's own upload; its failure changes nothing.
AbortMultipart(p) ==
  /\ request[p].pc = "abort"
  /\ \/ multipart' = [multipart EXCEPT ![request[p].attachment] = "aborted"]
     \/ UNCHANGED multipart
  /\ Finish(p)
  /\ UNCHANGED <<row, content, keyLock, lostCommits, scanVars, referenced>>

-----------------------------------------------------------------------------
(***************************************************************************)
(* CompleteAttachment: read the row, complete the upload at the store,     *)
(* then mark the row and queue its scan.                                   *)
(***************************************************************************)
BeginComplete(p, a) ==
  /\ request[p].pc = "idle"
  /\ row[a].status = "pending_upload"
  /\ request' = [request EXCEPT ![p] = [Idle EXCEPT !.pc = "completing", !.attachment = a]]
  /\ UNCHANGED <<row, multipart, content, keyLock, lostCommits, scanVars, referenced>>

CompleteMultipart(p) ==
  LET a == request[p].attachment IN
  /\ request[p].pc = "completing"
  /\ \/ /\ multipart[a] = "open"
        /\ multipart' = [multipart EXCEPT ![a] = "completed"]
        /\ \E c \in Contents : content' = [content EXCEPT ![a] = c]
        /\ Goto(p, "marking")
     \/ /\ multipart[a] # "open"
        /\ Finish(p)
        /\ UNCHANGED <<multipart, content>>
  /\ UNCHANGED <<row, keyLock, lostCommits, scanVars, referenced>>

\* Mutant: the status moves on before the job is queued, and the job is lost.
MarkScanningWithoutJob(p) ==
  LET a == request[p].attachment IN
  /\ request[p].pc = "marking"
  /\ row' = IF row[a].status = "pending_upload"
              THEN [row EXCEPT ![a].status = "scanning"] ELSE row
  /\ Finish(p)
  /\ UNCHANGED <<multipart, content, keyLock, lostCommits, scanVars, referenced>>

MarkScanning(p) ==
  LET a == request[p].attachment IN
  /\ request[p].pc = "marking"
  /\ \/ /\ row[a].status = "pending_upload"
        /\ row' = [row EXCEPT ![a].status = "scanning"]
        /\ job' = [job EXCEPT ![a] = [NoJob EXCEPT !.present = TRUE, !.due = TRUE]]
     \/ /\ row[a].status # "pending_upload"
        /\ UNCHANGED <<row, job>>
  /\ Finish(p)
  /\ UNCHANGED <<multipart, content, keyLock, lostCommits, scanner, lost, referenced>>

\* A handler dies between two of its steps; its transaction and lock go with it.
HandlerDies(p) ==
  /\ request[p].pc # "idle"
  /\ ReleaseKey(p)
  /\ Finish(p)
  /\ UNCHANGED <<row, multipart, content, lostCommits, scanVars, referenced>>

-----------------------------------------------------------------------------
(***************************************************************************)
(* The scan workers.  Claim takes a due job that is not leased and counts  *)
(* the attempt.  A job whose attachment is not being scanned makes Claim   *)
(* fail, which rolls back the deletion it has just asked for.              *)
(***************************************************************************)
\* Mutant: a lease does not keep other workers away.
ClaimableIgnoringLease(a) ==
  /\ job[a].present /\ job[a].due /\ ~job[a].parked
  /\ row[a].status = "scanning"

Claimable(a) ==
  /\ job[a].present /\ job[a].due /\ ~job[a].leased /\ ~job[a].parked
  /\ row[a].status = "scanning"

Claim(w, a) ==
  /\ scanner[w] = None
  /\ Claimable(a)
  /\ job' = [job EXCEPT ![a].attempts = @ + 1, ![a].leased = TRUE]
  /\ scanner' = [scanner EXCEPT ![w] = a]
  /\ UNCHANGED <<uploadVars, lost, referenced>>

\* Mutant: the job is parked but the attachment stays in scanning.
RetryScanParksJobOnly(w) ==
  LET a == scanner[w] IN
  /\ a # None
  /\ job' = [job EXCEPT ![a] =
       IF @.attempts >= MaxScanAttempts
         THEN [@ EXCEPT !.parked = TRUE, !.leased = FALSE]
         ELSE [@ EXCEPT !.due = FALSE, !.leased = FALSE]]
  /\ scanner' = [scanner EXCEPT ![w] = None]
  /\ UNCHANGED <<uploadVars, lost, referenced>>

\* Mutant: the limit on attempts is never applied.
RetryScanNeverParks(w) ==
  LET a == scanner[w] IN
  /\ a # None
  /\ job' = [job EXCEPT ![a].due = FALSE, ![a].leased = FALSE]
  /\ scanner' = [scanner EXCEPT ![w] = None]
  /\ UNCHANGED <<uploadVars, lost, referenced>>

\* The object cannot be opened or the scan fails: RetryScan.
RetryScan(w) ==
  LET a == scanner[w] IN
  /\ a # None
  /\ \/ /\ row[a].status = "scanning" /\ job[a].present
        /\ job[a].attempts >= MaxScanAttempts
        /\ row' = [row EXCEPT ![a].status = "scan_parked"]
        /\ job' = [job EXCEPT ![a].parked = TRUE, ![a].leased = FALSE]
     \/ /\ row[a].status = "scanning" /\ job[a].present
        /\ job[a].attempts < MaxScanAttempts
        /\ job' = [job EXCEPT ![a].due = FALSE, ![a].leased = FALSE]
        /\ UNCHANGED row
     \/ /\ ~(row[a].status = "scanning" /\ job[a].present)
        /\ UNCHANGED <<row, job>>
  /\ scanner' = [scanner EXCEPT ![w] = None]
  /\ UNCHANGED <<multipart, content, request, keyLock, lostCommits, lost, referenced>>

\* The verdict is in.  CompleteScan writes it whatever the status is.
CompleteScan(w) ==
  LET a == scanner[w] IN
  /\ a # None
  /\ row' = [row EXCEPT ![a].status = IF content[a] = "clean" THEN "ready" ELSE "rejected"]
  /\ job' = [job EXCEPT ![a] = NoJob]
  /\ scanner' = [scanner EXCEPT ![w] = None]
  /\ UNCHANGED <<multipart, content, request, keyLock, lostCommits, lost, referenced>>

(***************************************************************************)
(* The worker dies, or its 20-minute context ends: RetryScan gets the same *)
(* context, so it fails too and the job keeps its lease.                   *)
(***************************************************************************)
ScanLost(w) ==
  /\ scanner[w] # None
  /\ lost < MaxLost
  /\ lost' = lost + 1
  /\ scanner' = [scanner EXCEPT ![w] = None]
  /\ UNCHANGED <<uploadVars, job, referenced>>

\* scanLease (30 minutes) outlives the worker's context (20 minutes).
LeaseExpires(a) ==
  /\ job[a].leased
  /\ \A w \in Scanners : scanner[w] # a
  /\ job' = [job EXCEPT ![a].leased = FALSE]
  /\ UNCHANGED <<uploadVars, scanner, lost, referenced>>

BackoffElapses(a) ==
  /\ job[a].present /\ ~job[a].due
  /\ job' = [job EXCEPT ![a].due = TRUE]
  /\ UNCHANGED <<uploadVars, scanner, lost, referenced>>

-----------------------------------------------------------------------------
Trash(a) ==
  /\ a \notin referenced
  /\ row[a].status \in {"ready", "rejected", "scan_parked"}
  /\ row' = [row EXCEPT ![a].status = "trashed"]
  /\ UNCHANGED <<multipart, content, request, keyLock, lostCommits, scanVars, referenced>>

Restore(a) ==
  /\ row[a].status = "trashed"
  /\ row' = [row EXCEPT ![a].status = "ready"]
  /\ UNCHANGED <<multipart, content, request, keyLock, lostCommits, scanVars, referenced>>

(***************************************************************************)
(* The part of the reference transactions that touches attachments:        *)
(* StagePublicationReferences counts the ready ones without locking them,  *)
(* then inserts its rows; Clear and Finalize delete rows.  Which command   *)
(* is accepted is the subject of AttachmentReferences.                     *)
(***************************************************************************)
StageValidate(p, a) ==
  /\ request[p].pc = "idle"
  /\ row[a].status = "ready"
  /\ request' = [request EXCEPT ![p] = [Idle EXCEPT !.pc = "staging", !.attachment = a]]
  /\ UNCHANGED <<row, multipart, content, keyLock, lostCommits, scanVars, referenced>>

StageInsert(p) ==
  /\ request[p].pc = "staging"
  /\ referenced' = referenced \cup {request[p].attachment}
  /\ Finish(p)
  /\ UNCHANGED <<row, multipart, content, keyLock, lostCommits, scanVars>>

Unreference(a) ==
  /\ a \in referenced
  /\ referenced' = referenced \ {a}
  /\ UNCHANGED <<uploadVars, scanVars>>

-----------------------------------------------------------------------------
HandlerNext(p) ==
  \/ \E k \in Keys \cup {NoKey}, size \in Sizes : StartMultipart(p, k, size)
  \/ CreateLookup(p)
  \/ CreateInsert(p)
  \/ CreateFails(p)
  \/ CreateCommitUnacknowledged(p)
  \/ AbortMultipart(p)
  \/ \E a \in Attachments : BeginComplete(p, a)
  \/ CompleteMultipart(p)
  \/ MarkScanning(p)
  \/ \E a \in Attachments : StageValidate(p, a)
  \/ StageInsert(p)
  \/ HandlerDies(p)

ScanEnds(w) == RetryScan(w) \/ CompleteScan(w) \/ ScanLost(w)

Next ==
  \/ \E p \in Requests : HandlerNext(p)
  \/ \E w \in Scanners, a \in Attachments : Claim(w, a)
  \/ \E w \in Scanners : ScanEnds(w)
  \/ \E a \in Attachments :
       LeaseExpires(a) \/ BackoffElapses(a) \/ Trash(a) \/ Restore(a) \/ Unreference(a)

Spec == Init /\ [][Next]_vars

(***************************************************************************)
(* Every worker ticks for ever and asks for a job each time; a scan ends   *)
(* because its context does; leases and backoffs are clock readings.       *)
(***************************************************************************)
Fairness ==
  /\ \A a \in Attachments :
       /\ WF_vars(\E w \in Scanners : Claim(w, a))
       /\ WF_vars(LeaseExpires(a))
       /\ WF_vars(BackoffElapses(a))
  /\ \A w \in Scanners : WF_vars(ScanEnds(w))

LiveSpec == Spec /\ Fairness

-----------------------------------------------------------------------------
(***************************************************************************)
(* The columns, the upload states and the handlers keep their types.       *)
(***************************************************************************)
TypeOK ==
  /\ row \in [Attachments -> Rows]
  /\ multipart \in [Attachments -> {"none", "open", "completed", "aborted"}]
  /\ content \in [Attachments -> Contents \cup {"none"}]
  /\ job \in [Attachments -> Jobs]
  /\ referenced \subseteq Attachments
  /\ request \in [Requests -> [pc : HandlerSteps, attachment : Attachments \cup {None},
                               key : Keys \cup {NoKey}, size : Sizes \cup {0}]]
  /\ keyLock \in [Keys -> Requests \cup {None}]
  /\ scanner \in [Scanners -> Attachments \cup {None}]
  /\ lost \in 0 .. MaxLost
  /\ lostCommits \in 0 .. MaxLostCommits

(***************************************************************************)
(* The status column and the job table agree: an attachment is in scanning *)
(* exactly while it has an unparked job.  Without the job nothing would    *)
(* ever scan it.  An unparked job without the status would fail every      *)
(* Claim that meets it, and as the oldest job it would block the others.   *)
(***************************************************************************)
JobFollowsStatus ==
  \A a \in Attachments :
    (row[a].status = "scanning") <=> (job[a].present /\ ~job[a].parked)

(***************************************************************************)
(* CompleteScan writes its verdict without looking at the status.  Still   *)
(* no verdict lands on an attachment that is not being scanned, so a       *)
(* trashed attachment does not come back by a late scan: the lease keeps a *)
(* second worker away until the first one's context has ended.             *)
(***************************************************************************)
VerdictOnlyWhileScanning ==
  \A w \in Scanners : scanner[w] # None => row[scanner[w]].status = "scanning"

(***************************************************************************)
(* A retry of CreateAttachment gets the row of its idempotency key and the *)
(* URLs of that row's upload, so the upload of a pending row must not have *)
(* been aborted by another request.  It may have been once a commit has    *)
(* been taken for a failure.                                               *)
(***************************************************************************)
RetryReusesUpload ==
  lostCommits = 0 =>
    \A a \in Attachments :
      row[a].status = "pending_upload" => multipart[a] \in {"open", "completed"}

(***************************************************************************)
(* A scan settles: after finitely many lost workers the attachment leaves  *)
(* scanning for ready, rejected or scan_parked.                            *)
(***************************************************************************)
ScanSettles ==
  \A a \in Attachments : (row[a].status = "scanning") ~> (row[a].status # "scanning")

(***************************************************************************)
(* What docs/attachment-service.md says of references (line 10): an        *)
(* attachment that is referenced is not trashed.                           *)
(***************************************************************************)
ReferencedNotTrashed == \A a \in referenced : row[a].status # "trashed"
=============================================================================
