---------------------- MODULE AttachmentLifecycleProofs ----------------------
(***************************************************************************)
(* The safety properties of an attachment's life hold for every number of  *)
(* attachments, handlers, scan workers, attempts and losses.  The          *)
(* invariant has two halves that meet in the status of a row: who may      *)
(* still touch an upload, and who may still touch a scan job.              *)
(***************************************************************************)
EXTENDS AttachmentLifecycle, TLAPS

-----------------------------------------------------------------------------
(***************************************************************************)
(* Uploads.  A create owns the upload it has opened until it has answered: *)
(* up to its insert nobody else knows the attachment, and no two creates   *)
(* have the same one.                                                      *)
(***************************************************************************)
Owning == {"lookup", "insert", "abort"}

RequestOK(p) ==
  LET a == request[p].attachment IN
  /\ request[p].pc # "idle" => a \in Attachments
  /\ request[p].pc \in Owning => multipart[a] # "none"
  /\ request[p].pc \in {"lookup", "insert"} =>
       row[a].status = "absent" /\ multipart[a] = "open"
  /\ request[p].pc = "abort" /\ lostCommits = 0 => row[a].status = "absent"
  /\ request[p].pc = "completing" => row[a].status # "absent"

OwnersApart ==
  \A p, q \in Requests :
    /\ request[p].pc \in Owning
    /\ request[q].pc \in Owning
    /\ request[p].attachment = request[q].attachment
    => p = q

UploadOK(a) ==
  /\ multipart[a] = "none" => row[a].status = "absent"
  /\ lostCommits = 0 /\ row[a].status = "pending_upload" =>
       multipart[a] \in {"open", "completed"}

Uploads ==
  /\ \A p \in Requests : RequestOK(p)
  /\ OwnersApart
  /\ \A a \in Attachments : UploadOK(a)

(***************************************************************************)
(* Scans.  A worker holds the lease of what it scans, alone.  A job that   *)
(* nobody is scanning has had fewer attempts than the limit and the scans  *)
(* that were lost; the last attempt can only be one under way.             *)
(***************************************************************************)
Unattended(a) == job[a].leased => \A w \in Scanners : scanner[w] # a

JobOK(a) ==
  /\ (row[a].status = "scanning") <=> (job[a].present /\ ~job[a].parked)
  /\ job[a].leased => row[a].status = "scanning"
  /\ job[a].attempts <= MaxScanAttempts + lost
  /\ row[a].status = "scanning" /\ Unattended(a) =>
       job[a].attempts < MaxScanAttempts + lost

ScannerOK(w) ==
  scanner[w] # None =>
    row[scanner[w]].status = "scanning" /\ job[scanner[w]].leased

ScannersApart ==
  \A v, w \in Scanners : scanner[v] # None /\ scanner[v] = scanner[w] => v = w

Scans ==
  /\ \A a \in Attachments : JobOK(a)
  /\ \A w \in Scanners : ScannerOK(w)
  /\ ScannersApart

IInv == TypeOK /\ Uploads /\ Scans

-----------------------------------------------------------------------------
Request == [pc : HandlerSteps, attachment : Attachments \cup {None},
            key : Keys \cup {NoKey}, size : Sizes \cup {0}]

LEMMA Markers ==
  /\ Idle \in Request
  /\ NoRow \in Rows
  /\ NoJob \in Jobs
  BY LifecycleAssumption
     DEF Idle, Request, HandlerSteps, NoRow, Rows, Statuses, NoJob, Jobs

LEMMA InitInv == Init => IInv
  <1> SUFFICES ASSUME Init PROVE IInv
    OBVIOUS
  <1>1. TypeOK
    BY Markers, LifecycleAssumption DEF Init, TypeOK, Request
  <1>2. Uploads
    BY DEF Init, Uploads, RequestOK, OwnersApart, UploadOK, Owning, Idle, NoRow
  <1>3. ASSUME NEW a \in Attachments PROVE JobOK(a)
    BY <1>1, LifecycleAssumption DEF Init, JobOK, NoRow, NoJob
  <1>4. Scans
    BY <1>3 DEF Init, Scans, ScannerOK, ScannersApart
  <1> QED
    BY <1>1, <1>2, <1>4 DEF IInv

-----------------------------------------------------------------------------
(***************************************************************************)
(* What most steps have in common.                                         *)
(***************************************************************************)
\* A step that opens and aborts no upload keeps the uploads' half if a row it
\* changes was there and is not pending after it, and the handlers it moves
\* own nothing after it.
LEMMA UploadsKept ==
  ASSUME TypeOK, Uploads,
         multipart' = multipart, lostCommits' = lostCommits,
         \A a \in Attachments :
           \/ row'[a].status = row[a].status
           \/ /\ row[a].status # "absent"
              /\ row'[a].status \notin {"absent", "pending_upload"},
         \A p \in Requests :
           \/ request'[p] = request[p]
           \/ request'[p].pc = "idle"
           \/ request'[p].pc = "staging" /\ request'[p].attachment \in Attachments
  PROVE  Uploads'
  <1>1. ASSUME NEW p \in Requests PROVE RequestOK(p)'
    BY <1>1 DEF Uploads, RequestOK, Owning
  <1>2. OwnersApart'
    BY DEF Uploads, OwnersApart, Owning
  <1>3. ASSUME NEW a \in Attachments PROVE UploadOK(a)'
    BY <1>3 DEF Uploads, UploadOK
  <1> QED
    BY <1>1, <1>2, <1>3 DEF Uploads

\* A handler that takes no step is as it was, if its own upload and row are.
LEMMA RequestKept ==
  ASSUME Uploads, NEW q \in Requests, request'[q] = request[q],
         request[q].pc \in {"lookup", "insert"} =>
           multipart'[request[q].attachment] = multipart[request[q].attachment],
         request[q].pc \in Owning =>
           /\ multipart'[request[q].attachment] # "none"
           /\ row'[request[q].attachment] = row[request[q].attachment],
         \A b \in Attachments : row[b].status # "absent" => row'[b].status # "absent",
         lostCommits' = 0 => lostCommits = 0
  PROVE  RequestOK(q)'
  <1>1. RequestOK(q)
    BY Zenon DEF Uploads
  <1>2. CASE request[q].pc \in Owning
    BY Zenon, <1>1, <1>2 DEF RequestOK, Owning
  <1>3. CASE request[q].pc \notin Owning
    BY Zenon, <1>1, <1>3 DEF RequestOK, Owning
  <1> QED
    BY Zenon, <1>2, <1>3

LEMMA OwnersKept ==
  ASSUME OwnersApart,
         \A q \in Requests : request'[q].pc \in Owning =>
           /\ request[q].pc \in Owning
           /\ request'[q].attachment = request[q].attachment
  PROVE  OwnersApart'
  BY Zenon DEF OwnersApart

\* A step that leaves the jobs and the workers alone keeps the scans' half if
\* no attachment enters or leaves scanning.
LEMMA ScansKept ==
  ASSUME Scans, TypeOK, UNCHANGED scanVars,
         \A a \in Attachments :
           (row'[a].status = "scanning") <=> (row[a].status = "scanning")
  PROVE  Scans'
  <1>1. ASSUME NEW a \in Attachments PROVE JobOK(a)'
    BY <1>1 DEF Scans, JobOK, Unattended, scanVars
  <1>2. ASSUME NEW w \in Scanners PROVE ScannerOK(w)'
    BY <1>2 DEF Scans, ScannerOK, scanVars, TypeOK
  <1> QED
    BY <1>1, <1>2 DEF Scans, ScannersApart, scanVars

\* An update of the status column changes one row.
LEMMA StatusSet ==
  ASSUME TypeOK, NEW a \in Attachments, NEW s \in Statuses,
         row' = [row EXCEPT ![a].status = s]
  PROVE  /\ row' \in [Attachments -> Rows]
         /\ row'[a].status = s
         /\ \A b \in Attachments : b # a => row'[b] = row[b]
  <1>1. row \in [Attachments -> Rows]
    BY DEF TypeOK
  <1> QED
    BY <1>1 DEF Rows

\* A step on the job of one attachment keeps the scans' half if it leaves the
\* others alone and what is said of that attachment still holds.
LEMMA ScansMoved ==
  ASSUME TypeOK, TypeOK', Scans, lost' = lost, NEW a \in Attachments,
         \A b \in Attachments : b # a =>
           /\ row'[b] = row[b]
           /\ job'[b] = job[b]
           /\ \A w \in Scanners : (scanner'[w] = b) <=> (scanner[w] = b),
         JobOK(a)',
         \A w \in Scanners : scanner'[w] = a =>
           row'[a].status = "scanning" /\ job'[a].leased,
         \A v, w \in Scanners : scanner'[v] = a /\ scanner'[w] = a => v = w
  PROVE  Scans'
  <1>1. ASSUME NEW b \in Attachments PROVE JobOK(b)'
    BY <1>1 DEF Scans, JobOK, Unattended
  <1>2. ASSUME NEW w \in Scanners PROVE ScannerOK(w)'
    <2>1. CASE scanner'[w] = a
      BY <2>1 DEF ScannerOK
    <2>2. CASE scanner'[w] # a
      BY <2>2 DEF ScannerOK, Scans, TypeOK
    <2> QED
      BY <2>1, <2>2
  <1>3. ScannersApart'
    <2> SUFFICES ASSUME NEW v \in Scanners, NEW w \in Scanners,
                        scanner'[v] # None, scanner'[v] = scanner'[w]
                 PROVE  v = w
      BY DEF ScannersApart
    <2>1. CASE scanner'[v] = a
      BY Zenon, <2>1
    <2>2. CASE scanner'[v] # a
      BY <2>2 DEF ScannersApart, Scans, TypeOK
    <2> QED
      BY <2>1, <2>2
  <1> QED
    BY <1>1, <1>2, <1>3 DEF Scans

\* A handler that finishes has the type of a handler.
LEMMA Finished ==
  ASSUME TypeOK, NEW p \in Requests, Finish(p)
  PROVE  /\ request' \in [Requests -> Request]
         /\ request'[p] = Idle
         /\ \A q \in Requests : q # p => request'[q] = request[q]
  BY Markers DEF TypeOK, Finish, Request

\* So has one that goes on to its next step.
LEMMA Gone ==
  ASSUME TypeOK, NEW p \in Requests, NEW step \in HandlerSteps, Goto(p, step)
  PROVE  /\ request' \in [Requests -> Request]
         /\ request'[p].pc = step
         /\ request'[p].attachment = request[p].attachment
         /\ \A q \in Requests : q # p => request'[q] = request[q]
  BY ZenonT(60) DEF TypeOK, Goto, Request

LEMMA Released ==
  ASSUME TypeOK, NEW p \in Requests, ReleaseKey(p)
  PROVE  keyLock' \in [Keys -> Requests \cup {None}]
  BY DEF TypeOK, ReleaseKey

-----------------------------------------------------------------------------
(***************************************************************************)
(* The handlers.  None but MarkScanning looks at the scans' half.          *)
(***************************************************************************)
LEMMA StartMultipartInv ==
  ASSUME IInv, NEW p \in Requests, NEW k \in Keys \cup {NoKey},
         NEW size \in Sizes, StartMultipart(p, k, size)
  PROVE  IInv'
  <1> DEFINE r(a) == [pc |-> "lookup", attachment |-> a, key |-> k, size |-> size]
  <1>1. PICK a \in Attachments :
          /\ multipart[a] = "none"
          /\ multipart' = [multipart EXCEPT ![a] = "open"]
          /\ request' = [request EXCEPT ![p] = r(a)]
    BY Zenon DEF StartMultipart
  <1>2. r(a) \in Request
    BY DEF Request, HandlerSteps
  <1>3. TypeOK'
    BY <1>1, <1>2 DEF IInv, TypeOK, StartMultipart, Request, scanVars
  <1>4. /\ multipart'[a] = "open"
        /\ \A b \in Attachments : b # a => multipart'[b] = multipart[b]
        /\ request'[p] = r(a)
        /\ \A q \in Requests : q # p => request'[q] = request[q]
    BY <1>1 DEF IInv, TypeOK
  <1>5. row' = row /\ lostCommits' = lostCommits
    BY DEF StartMultipart
  <1>6. row[a].status = "absent"
    BY <1>1 DEF IInv, Uploads, UploadOK
  <1>7. \A q \in Requests : q # p /\ request[q].pc \in Owning =>
          request[q].attachment # a
    BY <1>1 DEF IInv, Uploads, RequestOK
  <1>8. ASSUME NEW q \in Requests PROVE RequestOK(q)'
    <2>1. CASE q = p
      BY <1>4, <1>5, <1>6, <2>1 DEF RequestOK, Owning
    <2>2. CASE q # p
      BY <1>4, <1>5, <1>7, <2>2 DEF RequestOK, Owning, IInv, Uploads
    <2> QED
      BY <2>1, <2>2
  <1>9. OwnersApart'
    BY <1>4, <1>7 DEF OwnersApart, IInv, Uploads
  <1>10. ASSUME NEW b \in Attachments PROVE UploadOK(b)'
    BY <1>4, <1>5, <1>6 DEF UploadOK, IInv, Uploads
  <1>11. Scans'
    BY <1>5, ScansKept DEF IInv, StartMultipart
  <1> QED
    BY <1>3, <1>8, <1>9, <1>10, <1>11 DEF IInv, Uploads

\* A create that goes on from its lookup or fails in its transaction keeps
\* what it owns; the row is not there yet.
LEMMA CreateGoesOn ==
  ASSUME IInv, NEW p \in Requests, NEW step \in {"insert", "abort"},
         request[p].pc \in {"lookup", "insert"}, Goto(p, step),
         keyLock' \in [Keys -> Requests \cup {None}],
         UNCHANGED <<row, multipart, content, lostCommits, scanVars, referenced>>
  PROVE  IInv'
  <1>1. /\ request' \in [Requests -> Request]
        /\ request'[p].pc = step
        /\ request'[p].attachment = request[p].attachment
        /\ \A q \in Requests : q # p => request'[q] = request[q]
    BY Gone DEF IInv, HandlerSteps
  <1>2. TypeOK'
    BY <1>1 DEF IInv, TypeOK, Request, scanVars
  <1>3. ASSUME NEW q \in Requests PROVE RequestOK(q)'
    BY <1>1 DEF IInv, Uploads, RequestOK, Owning
  <1>4. OwnersApart'
    BY <1>1 DEF IInv, Uploads, OwnersApart, Owning
  <1>5. \A a \in Attachments : UploadOK(a)'
    BY DEF IInv, Uploads, UploadOK
  <1>6. Scans'
    BY ScansKept DEF IInv
  <1> QED
    BY <1>2, <1>3, <1>4, <1>5, <1>6 DEF IInv, Uploads

LEMMA CreateLookupInv ==
  ASSUME IInv, NEW p \in Requests, CreateLookup(p)
  PROVE  IInv'
  <1>1. keyLock' \in [Keys -> Requests \cup {None}]
    BY DEF IInv, TypeOK, CreateLookup
  <1>2. \E step \in {"insert", "abort"} : Goto(p, step)
    BY Zenon DEF CreateLookup
  <1>3. /\ request[p].pc = "lookup"
        /\ UNCHANGED <<row, multipart, content, lostCommits, scanVars, referenced>>
    BY DEF CreateLookup
  <1> QED
    BY <1>1, <1>2, <1>3, CreateGoesOn

LEMMA CreateFailsInv ==
  ASSUME IInv, NEW p \in Requests, CreateFails(p)
  PROVE  IInv'
  <1>1. keyLock' \in [Keys -> Requests \cup {None}]
    BY Released DEF IInv, CreateFails
  <1> QED
    BY <1>1, CreateGoesOn DEF CreateFails

\* The row that a create inserts was known to nobody else.
LEMMA Inserted ==
  ASSUME IInv, NEW p \in Requests, request[p].pc = "insert", InsertRow(p)
  PROVE  LET a == request[p].attachment
         IN  /\ a \in Attachments
             /\ row' \in [Attachments -> Rows]
             /\ row[a].status = "absent"
             /\ row'[a].status = "pending_upload"
             /\ multipart[a] = "open"
             /\ \A b \in Attachments : b # a => row'[b] = row[b]
             /\ \A q \in Requests :
                  q # p /\ request[q].pc \in Owning => request[q].attachment # a
             /\ \A q \in Requests : request[q].pc # "idle" =>
                                       request[q].attachment \in Attachments
  <1> DEFINE a == request[p].attachment
  <1>1. a \in Attachments /\ row[a].status = "absent" /\ multipart[a] = "open"
    BY DEF IInv, Uploads, RequestOK
  <1>2. [status |-> "pending_upload", size |-> request[p].size,
         key |-> request[p].key] \in Rows
    BY DEF IInv, TypeOK, Rows, Statuses
  <1>3. \A q \in Requests :
          q # p /\ request[q].pc \in Owning => request[q].attachment # a
    BY DEF IInv, Uploads, OwnersApart, Owning
  <1>4. \A q \in Requests : request[q].pc # "idle" =>
                              request[q].attachment \in Attachments
    BY DEF IInv, Uploads, RequestOK
  <1> QED
    BY <1>1, <1>2, <1>3, <1>4 DEF InsertRow, IInv, TypeOK

LEMMA CreateInsertInv ==
  ASSUME IInv, NEW p \in Requests, CreateInsert(p)
  PROVE  IInv'
  <1> DEFINE a == request[p].attachment
  <1>1. request[p].pc = "insert" /\ InsertRow(p) /\ ReleaseKey(p) /\ Finish(p)
        /\ UNCHANGED <<multipart, content, lostCommits, scanVars, referenced>>
    BY DEF CreateInsert
  <1>2. /\ a \in Attachments
        /\ row[a].status = "absent" /\ row'[a].status = "pending_upload"
        /\ multipart[a] = "open"
        /\ \A b \in Attachments : b # a => row'[b] = row[b]
        /\ \A q \in Requests :
             q # p /\ request[q].pc \in Owning => request[q].attachment # a
        /\ row' \in [Attachments -> Rows]
        /\ \A q \in Requests : request[q].pc # "idle" =>
                                 request[q].attachment \in Attachments
    BY Zenon, <1>1, Inserted
  <1>3. /\ request' \in [Requests -> Request]
        /\ request'[p] = Idle
        /\ \A q \in Requests : q # p => request'[q] = request[q]
    BY <1>1, Finished DEF IInv
  <1>4. TypeOK'
    BY <1>1, <1>2, <1>3, Released DEF IInv, TypeOK, Request, scanVars
  <1>5. ASSUME NEW q \in Requests PROVE RequestOK(q)'
    <2>1. CASE q = p
      BY <1>3, <2>1 DEF RequestOK, Idle, Owning
    <2>2. CASE q # p
      <3>0. request[q].pc \in Owning => multipart[request[q].attachment] # "none"
        BY Zenon DEF IInv, Uploads, RequestOK
      <3>1. request[q].pc \in Owning =>
              /\ multipart'[request[q].attachment] # "none"
              /\ row'[request[q].attachment] = row[request[q].attachment]
        BY Zenon, <1>1, <1>2, <2>2, <3>0 DEF Owning
      <3>2. \A b \in Attachments : row[b].status # "absent" => row'[b].status # "absent"
        BY Zenon, <1>2
      <3>3. /\ request'[q] = request[q] /\ multipart' = multipart
            /\ lostCommits' = 0 => lostCommits = 0
        BY Zenon, <1>1, <1>3, <2>2
      <3> QED
        BY Zenon, <3>1, <3>2, <3>3, RequestKept DEF IInv
    <2> QED
      BY <2>1, <2>2
  <1>6. OwnersApart'
    <2>0. request'[p].pc \notin Owning
      BY <1>3 DEF Owning, Idle
    <2>1. ASSUME NEW q \in Requests, request'[q].pc \in Owning
          PROVE  /\ request[q].pc \in Owning
                 /\ request'[q].attachment = request[q].attachment
      BY Zenon, <1>3, <2>0, <2>1
    <2> QED
      BY Zenon, <2>1, OwnersKept DEF IInv, Uploads
  <1>7. ASSUME NEW b \in Attachments PROVE UploadOK(b)'
    BY Zenon, <1>1, <1>2 DEF UploadOK, IInv, Uploads
  <1>8. Scans'
    BY Zenon, <1>1, <1>2, ScansKept DEF IInv
  <1> QED
    BY <1>4, <1>5, <1>6, <1>7, <1>8 DEF IInv, Uploads

LEMMA CreateCommitUnacknowledgedInv ==
  ASSUME IInv, NEW p \in Requests, CreateCommitUnacknowledged(p)
  PROVE  IInv'
  <1> DEFINE a == request[p].attachment
  <1>1. /\ request[p].pc = "insert" /\ InsertRow(p) /\ ReleaseKey(p)
        /\ Goto(p, "abort") /\ lostCommits < MaxLostCommits
        /\ lostCommits' = lostCommits + 1
        /\ UNCHANGED <<multipart, content, scanVars, referenced>>
    BY DEF CreateCommitUnacknowledged
  <1>2. /\ a \in Attachments
        /\ row[a].status = "absent" /\ row'[a].status = "pending_upload"
        /\ multipart[a] = "open"
        /\ \A b \in Attachments : b # a => row'[b] = row[b]
        /\ \A q \in Requests :
             q # p /\ request[q].pc \in Owning => request[q].attachment # a
        /\ row' \in [Attachments -> Rows]
        /\ \A q \in Requests : request[q].pc # "idle" =>
                                 request[q].attachment \in Attachments
    BY Zenon, <1>1, Inserted
  <1>3. /\ request' \in [Requests -> Request]
        /\ request'[p].pc = "abort" /\ request'[p].attachment = a
        /\ \A q \in Requests : q # p => request'[q] = request[q]
    BY Zenon, <1>1, Gone DEF IInv, HandlerSteps
  <1>4. lostCommits' \in 0 .. MaxLostCommits /\ lostCommits' # 0
    BY <1>1, LifecycleAssumption DEF IInv, TypeOK
  <1>5. TypeOK'
    BY Zenon, <1>1, <1>2, <1>3, <1>4, Released DEF IInv, TypeOK, Request, scanVars
  <1>6. ASSUME NEW q \in Requests PROVE RequestOK(q)'
    <2>1. CASE q = p
      BY Zenon, <1>1, <1>2, <1>3, <1>4, <2>1 DEF RequestOK, Owning
    <2>2. CASE q # p
      <3>0. request[q].pc \in Owning => multipart[request[q].attachment] # "none"
        BY Zenon DEF IInv, Uploads, RequestOK
      <3>1. request[q].pc \in Owning =>
              /\ multipart'[request[q].attachment] # "none"
              /\ row'[request[q].attachment] = row[request[q].attachment]
        BY Zenon, <1>1, <1>2, <2>2, <3>0 DEF Owning
      <3>2. \A b \in Attachments : row[b].status # "absent" => row'[b].status # "absent"
        BY Zenon, <1>2
      <3>3. /\ request'[q] = request[q] /\ multipart' = multipart
            /\ lostCommits' = 0 => lostCommits = 0
        BY Zenon, <1>1, <1>3, <1>4, <2>2
      <3> QED
        BY Zenon, <3>1, <3>2, <3>3, RequestKept DEF IInv
    <2> QED
      BY <2>1, <2>2
  <1>7. OwnersApart'
    BY Zenon, <1>1, <1>3, OwnersKept DEF IInv, Uploads, Owning
  <1>8. ASSUME NEW b \in Attachments PROVE UploadOK(b)'
    BY Zenon, <1>1, <1>2, <1>4 DEF UploadOK, IInv, Uploads
  <1>9. Scans'
    BY Zenon, <1>1, <1>2, ScansKept DEF IInv
  <1> QED
    BY <1>5, <1>6, <1>7, <1>8, <1>9 DEF IInv, Uploads

\* The upload that is aborted is the handler's own: as long as no commit was
\* taken for a failure it has no row.
LEMMA AbortMultipartInv ==
  ASSUME IInv, NEW p \in Requests, AbortMultipart(p)
  PROVE  IInv'
  <1> DEFINE a == request[p].attachment
  <1>1. /\ request[p].pc = "abort" /\ Finish(p)
        /\ UNCHANGED <<row, content, keyLock, lostCommits, scanVars, referenced>>
    BY Zenon DEF AbortMultipart
  <1>2. /\ a \in Attachments
        /\ lostCommits = 0 => row[a].status = "absent"
        /\ multipart[a] # "none"
    BY <1>1 DEF IInv, Uploads, RequestOK, Owning
  <1>3. \A q \in Requests :
          q # p /\ request[q].pc \in Owning => request[q].attachment # a
    BY <1>1 DEF IInv, Uploads, OwnersApart, Owning
  <1>4. /\ request' \in [Requests -> Request]
        /\ request'[p] = Idle
        /\ \A q \in Requests : q # p => request'[q] = request[q]
    BY <1>1, Finished DEF IInv
  <1>5. /\ multipart' \in [Attachments -> {"none", "open", "completed", "aborted"}]
        /\ multipart'[a] # "none"
        /\ \A b \in Attachments : b # a => multipart'[b] = multipart[b]
    BY <1>2 DEF AbortMultipart, IInv, TypeOK
  <1>6. TypeOK'
    BY <1>1, <1>4, <1>5 DEF IInv, TypeOK, Request, scanVars
  <1>7. ASSUME NEW q \in Requests PROVE RequestOK(q)'
    <2>1. CASE q = p
      BY <1>4, <2>1 DEF RequestOK, Idle, Owning
    <2>2. CASE q # p
      BY Zenon, <1>1, <1>3, <1>4, <1>5, <2>2, RequestKept DEF IInv, Uploads, RequestOK, Owning
    <2> QED
      BY <2>1, <2>2
  <1>8. OwnersApart'
    BY <1>4 DEF IInv, Uploads, OwnersApart, Owning, Idle
  <1>9. ASSUME NEW b \in Attachments PROVE UploadOK(b)'
    BY Zenon, <1>1, <1>2, <1>5 DEF UploadOK, IInv, Uploads
  <1>10. Scans'
    BY <1>1, ScansKept DEF IInv
  <1> QED
    BY <1>6, <1>7, <1>8, <1>9, <1>10 DEF IInv, Uploads

LEMMA BeginCompleteInv ==
  ASSUME IInv, NEW p \in Requests, NEW a \in Attachments, BeginComplete(p, a)
  PROVE  IInv'
  <1> DEFINE r == [Idle EXCEPT !.pc = "completing", !.attachment = a]
  <1>1. /\ row[a].status = "pending_upload"
        /\ request' = [request EXCEPT ![p] = r]
        /\ UNCHANGED <<row, multipart, content, keyLock, lostCommits, scanVars,
                       referenced>>
    BY DEF BeginComplete
  <1>2. r \in Request /\ r.pc = "completing" /\ r.attachment = a
    BY Zenon, Markers DEF Idle, Request, HandlerSteps
  <1>3. /\ request' \in [Requests -> Request]
        /\ request'[p] = r
        /\ \A q \in Requests : q # p => request'[q] = request[q]
    BY <1>1, <1>2 DEF IInv, TypeOK, Request
  <1>4. TypeOK'
    BY <1>1, <1>3 DEF IInv, TypeOK, Request, scanVars
  <1>5. ASSUME NEW q \in Requests PROVE RequestOK(q)'
    <2>1. CASE q = p
      BY <1>1, <1>2, <1>3, <2>1 DEF RequestOK, Owning
    <2>2. CASE q # p
      BY <1>1, <1>3, <2>2 DEF RequestOK, IInv, Uploads
    <2> QED
      BY <2>1, <2>2
  <1>6. OwnersApart'
    <2>1. request'[p].pc \notin Owning
      BY <1>2, <1>3 DEF Owning
    <2> QED
      BY Zenon, <1>3, <2>1 DEF IInv, Uploads, OwnersApart
  <1>7. \A b \in Attachments : UploadOK(b)'
    BY <1>1 DEF UploadOK, IInv, Uploads
  <1>8. Scans'
    BY <1>1, ScansKept DEF IInv
  <1> QED
    BY <1>4, <1>5, <1>6, <1>7, <1>8 DEF IInv, Uploads

LEMMA CompleteMultipartInv ==
  ASSUME IInv, NEW p \in Requests, CompleteMultipart(p)
  PROVE  IInv'
  <1> DEFINE a == request[p].attachment
  <1>1. /\ request[p].pc = "completing"
        /\ UNCHANGED <<row, keyLock, lostCommits, scanVars, referenced>>
    BY DEF CompleteMultipart
  <1>2. a \in Attachments /\ row[a].status # "absent"
    BY <1>1 DEF IInv, Uploads, RequestOK
  <1>3. Scans'
    BY <1>1, ScansKept DEF IInv
  <1>4. CASE multipart[a] = "open"
    <2>1. PICK c \in Contents : content' = [content EXCEPT ![a] = c]
      BY <1>4 DEF CompleteMultipart
    <2>2. multipart' = [multipart EXCEPT ![a] = "completed"] /\ Goto(p, "marking")
      BY <1>4 DEF CompleteMultipart
    <2>3. /\ request' \in [Requests -> Request]
          /\ request'[p].pc = "marking" /\ request'[p].attachment = a
          /\ \A q \in Requests : q # p => request'[q] = request[q]
      BY <2>2, Gone DEF IInv, HandlerSteps
    <2>4. /\ multipart'[a] = "completed"
          /\ \A b \in Attachments : b # a => multipart'[b] = multipart[b]
          /\ multipart' \in [Attachments -> {"none", "open", "completed", "aborted"}]
          /\ content' \in [Attachments -> Contents \cup {"none"}]
      BY <1>2, <2>1, <2>2 DEF IInv, TypeOK
    <2>5. TypeOK'
      BY Zenon, <1>1, <2>3, <2>4 DEF IInv, TypeOK, Request, scanVars
    <2>6. ASSUME NEW q \in Requests PROVE RequestOK(q)'
      <3>1. CASE q = p
        BY <1>2, <2>3, <3>1 DEF RequestOK, Owning
      <3>2. CASE q # p
        <4>1. /\ request[q].pc \in Owning => /\ request[q].attachment \in Attachments
                                            /\ multipart[request[q].attachment] # "none"
              /\ request[q].pc \in {"lookup", "insert"} => request[q].attachment # a
          BY Zenon, <1>2 DEF IInv, Uploads, RequestOK, Owning
        <4>2. /\ request'[q] = request[q] /\ row' = row /\ lostCommits' = lostCommits
              /\ request[q].pc \in Owning => multipart'[request[q].attachment] # "none"
          BY Zenon, <1>1, <2>3, <2>4, <3>2, <4>1
        <4>3. request[q].pc \in {"lookup", "insert"} =>
                multipart'[request[q].attachment] = multipart[request[q].attachment]
          BY Zenon, <2>4, <4>1 DEF Owning
        <4> QED
          BY Zenon, <4>2, <4>3, RequestKept DEF IInv
      <3> QED
        BY <3>1, <3>2
    <2>7. OwnersApart'
      BY <2>3 DEF IInv, Uploads, OwnersApart, Owning
    <2>8. ASSUME NEW b \in Attachments PROVE UploadOK(b)'
      BY Zenon, <1>1, <1>2, <2>4 DEF UploadOK, IInv, Uploads
    <2> QED
      BY <1>3, <2>5, <2>6, <2>7, <2>8 DEF IInv, Uploads
  <1>5. CASE multipart[a] # "open"
    <2>1. Finish(p) /\ UNCHANGED <<multipart, content>>
      BY Zenon, <1>5 DEF CompleteMultipart
    <2>2. /\ request' \in [Requests -> Request]
          /\ request'[p] = Idle
          /\ \A q \in Requests : q # p => request'[q] = request[q]
      BY <2>1, Finished DEF IInv
    <2>3. TypeOK'
      BY <1>1, <2>1, <2>2 DEF IInv, TypeOK, Request, scanVars
    <2>4. Uploads'
      <3>0. request'[p].pc = "idle"
        BY <2>2 DEF Idle
      <3>1. \A q \in Requests : request'[q] = request[q] \/ request'[q].pc = "idle"
        BY Zenon, <2>2, <3>0
      <3>2. \A b \in Attachments : row'[b].status = row[b].status
        BY Zenon, <1>1
      <3> QED
        BY Zenon, <1>1, <2>1, <3>1, <3>2, UploadsKept DEF IInv
    <2> QED
      BY <1>3, <2>3, <2>4 DEF IInv
  <1> QED
    BY <1>4, <1>5

\* Handlers that end, or that only read and write references.
LEMMA HandlerDiesInv ==
  ASSUME IInv, NEW p \in Requests, HandlerDies(p)
  PROVE  IInv'
  <1>1. /\ request' \in [Requests -> Request]
        /\ request'[p] = Idle
        /\ \A q \in Requests : q # p => request'[q] = request[q]
    BY Finished DEF IInv, HandlerDies
  <1>2. TypeOK'
    BY Zenon, <1>1, Released DEF IInv, TypeOK, Request, scanVars, HandlerDies
  <1>3. Uploads'
    BY <1>1, UploadsKept DEF IInv, Idle, HandlerDies
  <1> QED
    BY <1>2, <1>3, ScansKept DEF IInv, HandlerDies

LEMMA StageValidateInv ==
  ASSUME IInv, NEW p \in Requests, NEW a \in Attachments, StageValidate(p, a)
  PROVE  IInv'
  <1> DEFINE r == [Idle EXCEPT !.pc = "staging", !.attachment = a]
  <1>1. r \in Request /\ r.pc = "staging" /\ r.attachment = a
    BY Zenon, Markers DEF Idle, Request, HandlerSteps
  <1>2. /\ request' \in [Requests -> Request]
        /\ request'[p] = r
        /\ \A q \in Requests : q # p => request'[q] = request[q]
    BY <1>1 DEF IInv, TypeOK, Request, StageValidate
  <1>3. TypeOK'
    BY <1>2 DEF IInv, TypeOK, Request, scanVars, StageValidate
  <1>4. Uploads'
    BY <1>1, <1>2, UploadsKept DEF IInv, StageValidate
  <1> QED
    BY <1>3, <1>4, ScansKept DEF IInv, StageValidate

LEMMA StageInsertInv ==
  ASSUME IInv, NEW p \in Requests, StageInsert(p)
  PROVE  IInv'
  <1>1. /\ request' \in [Requests -> Request]
        /\ request'[p] = Idle
        /\ \A q \in Requests : q # p => request'[q] = request[q]
    BY Finished DEF IInv, StageInsert
  <1>2. request[p].attachment \in Attachments
    BY Zenon DEF IInv, Uploads, RequestOK, StageInsert
  <1>3. TypeOK'
    BY Zenon, <1>1, <1>2 DEF IInv, TypeOK, Request, scanVars, StageInsert
  <1>4. Uploads'
    BY <1>1, UploadsKept DEF IInv, Idle, StageInsert
  <1> QED
    BY <1>3, <1>4, ScansKept DEF IInv, StageInsert

LEMMA MarkScanningInv ==
  ASSUME IInv, NEW p \in Requests, MarkScanning(p)
  PROVE  IInv'
  <1> DEFINE j == [NoJob EXCEPT !.present = TRUE, !.due = TRUE]
  <1>1. /\ request[p].pc = "marking" /\ Finish(p)
        /\ UNCHANGED <<multipart, content, keyLock, lostCommits, scanner, lost,
                       referenced>>
    BY DEF MarkScanning
  <1>2. PICK a \in Attachments : a = request[p].attachment
    BY Zenon, <1>1 DEF IInv, Uploads, RequestOK
  <1>3. /\ request' \in [Requests -> Request]
        /\ request'[p] = Idle
        /\ \A q \in Requests : q # p => request'[q] = request[q]
    BY <1>1, Finished DEF IInv
  <1>4. CASE row[a].status # "pending_upload"
    <2>1. UNCHANGED <<row, job>>
      BY <1>2, <1>4 DEF MarkScanning
    <2>2. TypeOK'
      BY <1>1, <1>3, <2>1 DEF IInv, TypeOK, Request
    <2>3. Uploads'
      BY <1>1, <1>3, <2>1, UploadsKept DEF IInv, Idle
    <2> QED
      BY <1>1, <2>1, <2>2, <2>3, ScansKept DEF IInv, scanVars
  <1>5. CASE row[a].status = "pending_upload"
    <2>1. /\ row' = [row EXCEPT ![a].status = "scanning"]
          /\ job' = [job EXCEPT ![a] = j]
      BY <1>2, <1>5 DEF MarkScanning
    <2>2. /\ j \in Jobs /\ j.present /\ ~j.parked /\ ~j.leased
          /\ j.attempts = 0
      BY Zenon, Markers DEF NoJob, Jobs
    <2>3. /\ row' \in [Attachments -> Rows] /\ row'[a].status = "scanning"
          /\ \A b \in Attachments : b # a => row'[b] = row[b]
      BY SMTT(60), <1>2, <2>1 DEF IInv, TypeOK, Rows, Statuses
    <2>4. /\ job' \in [Attachments -> Jobs] /\ job'[a] = j
          /\ \A b \in Attachments : b # a => job'[b] = job[b]
      BY <1>2, <2>1, <2>2 DEF IInv, TypeOK
    <2>5. TypeOK'
      BY <1>1, <1>3, <2>3, <2>4 DEF IInv, TypeOK, Request
    <2>6. Uploads'
      BY <1>1, <1>3, <1>5, <2>3, UploadsKept DEF IInv, Idle
    <2>7. JobOK(a)'
      <3>1. 0 < MaxScanAttempts + lost /\ 0 <= MaxScanAttempts + lost
        BY LifecycleAssumption DEF IInv, TypeOK
      <3> QED
        BY <1>1, <2>2, <2>3, <2>4, <3>1 DEF JobOK
    <2>8. \A w \in Scanners : scanner'[w] # a
      BY Zenon, <1>1, <1>2, <1>5, LifecycleAssumption DEF ScannerOK, IInv, Scans
    <2>9. Scans'
      BY <1>1, <1>2, <2>3, <2>4, <2>5, <2>7, <2>8, ScansMoved DEF IInv
    <2> QED
      BY <2>5, <2>6, <2>9 DEF IInv
  <1> QED
    BY <1>4, <1>5

LEMMA HandlerInv ==
  ASSUME IInv, NEW p \in Requests, HandlerNext(p)
  PROVE  IInv'
  BY StartMultipartInv, CreateLookupInv, CreateInsertInv, CreateFailsInv,
     CreateCommitUnacknowledgedInv, AbortMultipartInv, BeginCompleteInv,
     CompleteMultipartInv, MarkScanningInv, StageValidateInv, StageInsertInv,
     HandlerDiesInv
  DEF HandlerNext

LEMMA ClaimInv ==
  ASSUME IInv, NEW w \in Scanners, NEW a \in Attachments, Claim(w, a)
  PROVE  IInv'
  <1>1. /\ scanner[w] = None /\ UNCHANGED <<uploadVars, lost, referenced>>
        /\ job[a].present /\ ~job[a].leased /\ ~job[a].parked
        /\ row[a].status = "scanning"
        /\ job' = [job EXCEPT ![a].attempts = @ + 1, ![a].leased = TRUE]
        /\ scanner' = [scanner EXCEPT ![w] = a]
    BY DEF Claim, Claimable
  <1>2. /\ job[a] \in Jobs /\ lost \in 0 .. MaxLost
        /\ job[a].attempts < MaxScanAttempts + lost
    BY <1>1 DEF IInv, TypeOK, Scans, JobOK, Unattended
  <1>3. job[a].attempts + 1 \in 0 .. MaxScanAttempts + MaxLost
    BY <1>2, LifecycleAssumption DEF Jobs
  <1>4. /\ job' \in [Attachments -> Jobs]
        /\ job'[a].present /\ job'[a].leased /\ ~job'[a].parked
        /\ job'[a].attempts = job[a].attempts + 1
        /\ \A b \in Attachments : b # a => job'[b] = job[b]
    <2> DEFINE j == [job[a] EXCEPT !.attempts = job[a].attempts + 1, !.leased = TRUE]
    <2>1. /\ j \in Jobs /\ j.present /\ j.leased /\ ~j.parked
          /\ j.attempts = job[a].attempts + 1
      BY Zenon, <1>1, <1>2, <1>3 DEF Jobs
    <2>2. job' = [job EXCEPT ![a] = j]
      BY Zenon, <1>1 DEF IInv, TypeOK
    <2> HIDE DEF j
    <2> QED
      BY Zenon, <2>1, <2>2 DEF IInv, TypeOK
  <1>5. /\ scanner' \in [Scanners -> Attachments \cup {None}]
        /\ scanner'[w] = a
        /\ \A v \in Scanners : v # w => scanner'[v] = scanner[v]
    BY <1>1 DEF IInv, TypeOK
  <1>6. TypeOK'
    BY <1>1, <1>4, <1>5 DEF IInv, TypeOK, uploadVars
  <1>7. Uploads'
    BY <1>1, UploadsKept DEF IInv, uploadVars
  <1>8. JobOK(a)'
    <2>1. ~Unattended(a)'
      BY Zenon, <1>4, <1>5 DEF Unattended
    <2>2. job[a].attempts + 1 <= MaxScanAttempts + lost
      BY <1>2, LifecycleAssumption DEF Jobs
    <2> QED
      BY <1>1, <1>4, <2>1, <2>2 DEF JobOK, uploadVars
  <1>9. \A v \in Scanners : scanner[v] # a
    BY <1>1, LifecycleAssumption DEF IInv, Scans, ScannerOK
  <1>10. Scans'
    BY <1>1, <1>4, <1>5, <1>6, <1>8, <1>9, LifecycleAssumption, ScansMoved
       DEF IInv, uploadVars
  <1> QED
    BY <1>6, <1>7, <1>10 DEF IInv

\* A worker that lets go of its attachment leaves nobody on it.
LEMMA LetGo ==
  ASSUME IInv, NEW w \in Scanners, scanner[w] # None,
         scanner' = [scanner EXCEPT ![w] = None]
  PROVE  /\ scanner[w] \in Attachments
         /\ row[scanner[w]].status = "scanning"
         /\ job[scanner[w]].present /\ job[scanner[w]].leased
         /\ ~job[scanner[w]].parked
         /\ scanner' \in [Scanners -> Attachments \cup {None}]
         /\ \A v \in Scanners : scanner'[v] # scanner[w]
         /\ \A v \in Scanners : \A b \in Attachments :
              b # scanner[w] => ((scanner'[v] = b) <=> (scanner[v] = b))
  <1>1. scanner[w] \in Attachments
    BY DEF IInv, TypeOK
  <1>2. /\ scanner' \in [Scanners -> Attachments \cup {None}]
        /\ scanner'[w] = None
        /\ \A v \in Scanners : v # w => scanner'[v] = scanner[v]
    BY DEF IInv, TypeOK
  <1>3. \A v \in Scanners : scanner'[v] # scanner[w]
    BY <1>2 DEF IInv, Scans, ScannersApart
  <1>4. \A v \in Scanners : \A b \in Attachments :
          b # scanner[w] => ((scanner'[v] = b) <=> (scanner[v] = b))
    BY <1>2, LifecycleAssumption
  <1>5. /\ row[scanner[w]].status = "scanning"
        /\ job[scanner[w]].present /\ job[scanner[w]].leased
        /\ ~job[scanner[w]].parked
    BY Zenon, <1>1 DEF IInv, Scans, ScannerOK, JobOK
  <1> QED
    BY Zenon, <1>1, <1>2, <1>3, <1>4, <1>5

LEMMA RetryScanInv ==
  ASSUME IInv, NEW w \in Scanners, RetryScan(w)
  PROVE  IInv'
  <1>1. /\ scanner[w] # None /\ scanner' = [scanner EXCEPT ![w] = None]
        /\ UNCHANGED <<multipart, content, request, keyLock, lostCommits, lost,
                       referenced>>
    BY DEF RetryScan
  <1>0. PICK a \in Attachments : a = scanner[w]
    BY Zenon, <1>1, LetGo
  <1>2. /\ a \in Attachments /\ row[a].status = "scanning"
        /\ job[a].present /\ job[a].leased /\ ~job[a].parked
        /\ scanner' \in [Scanners -> Attachments \cup {None}]
        /\ \A v \in Scanners : scanner'[v] # a
        /\ \A v \in Scanners : \A b \in Attachments :
             b # a => ((scanner'[v] = b) <=> (scanner[v] = b))
    BY ZenonT(60), <1>0, <1>1, LetGo
  <1>3. /\ job[a].attempts \in Nat /\ lost \in Nat
        /\ job[a].attempts <= MaxScanAttempts + lost
    BY <1>2, LifecycleAssumption DEF IInv, TypeOK, Jobs, Scans, JobOK
  <1> DEFINE Parked ==
               /\ row' = [row EXCEPT ![a].status = "scan_parked"]
               /\ job' = [job EXCEPT ![a].parked = TRUE, ![a].leased = FALSE]
             Delayed ==
               /\ job[a].attempts < MaxScanAttempts
               /\ UNCHANGED row
               /\ job' = [job EXCEPT ![a].due = FALSE, ![a].leased = FALSE]
  <1>4. CASE Parked
    <2>1. Parked
      BY <1>4
    <2>2. /\ row' \in [Attachments -> Rows]
          /\ row'[a].status = "scan_parked"
          /\ \A b \in Attachments : b # a => row'[b] = row[b]
      <3>1. "scan_parked" \in Statuses
        BY DEF Statuses
      <3> QED
        BY Zenon, <1>2, <2>1, <3>1, StatusSet DEF IInv
    <2>3. /\ job' \in [Attachments -> Jobs]
          /\ job'[a].parked /\ ~job'[a].leased
          /\ job'[a].attempts = job[a].attempts
          /\ \A b \in Attachments : b # a => job'[b] = job[b]
      BY <1>2, <2>1 DEF IInv, TypeOK, Jobs
    <2>4. TypeOK'
      BY Zenon, <1>1, <1>2, <2>2, <2>3 DEF IInv, TypeOK
    <2>5. Uploads'
      BY Zenon, <1>1, <1>2, <2>2, UploadsKept DEF IInv
    <2>6. JobOK(a)'
      BY Zenon, <1>1, <1>3, <2>2, <2>3 DEF JobOK
    <2>7. Scans'
      BY <1>0, <1>1, <1>2, <2>2, <2>3, <2>4, <2>6, ScansMoved DEF IInv
    <2> QED
      BY <2>4, <2>5, <2>7 DEF IInv
  <1>5. CASE Delayed
    <2>1. Delayed
      BY <1>5
    <2>2. /\ job' \in [Attachments -> Jobs]
          /\ job'[a].present = job[a].present
          /\ job'[a].parked = job[a].parked /\ ~job'[a].leased
          /\ job'[a].attempts = job[a].attempts
          /\ \A b \in Attachments : b # a => job'[b] = job[b]
      BY <1>2, <2>1 DEF IInv, TypeOK, Jobs
    <2>3. TypeOK'
      BY <1>1, <1>2, <2>1, <2>2 DEF IInv, TypeOK
    <2>4. Uploads'
      BY <1>1, <2>1, UploadsKept DEF IInv
    <2>5. JobOK(a)'
      <3>1. job[a].attempts < MaxScanAttempts + lost
        BY <1>3, <1>5, LifecycleAssumption
      <3> QED
        BY <1>1, <1>2, <1>3, <2>1, <2>2, <3>1 DEF JobOK
    <2>6. Scans'
      BY <1>0, <1>1, <1>2, <2>1, <2>2, <2>3, <2>5, ScansMoved DEF IInv
    <2> QED
      BY <2>3, <2>4, <2>6 DEF IInv
  <1>6. Parked \/ Delayed
    BY Zenon, <1>0, <1>2 DEF RetryScan
  <1> QED
    BY Zenon, <1>4, <1>5, <1>6

LEMMA CompleteScanInv ==
  ASSUME IInv, NEW w \in Scanners, CompleteScan(w)
  PROVE  IInv'
  <1>1. /\ scanner[w] # None /\ scanner' = [scanner EXCEPT ![w] = None]
        /\ UNCHANGED <<multipart, content, request, keyLock, lostCommits, lost,
                       referenced>>
    BY DEF CompleteScan
  <1>2. PICK a \in Attachments : a = scanner[w]
    BY Zenon, <1>1, LetGo
  <1>3. /\ a \in Attachments /\ row[a].status = "scanning"
        /\ scanner' \in [Scanners -> Attachments \cup {None}]
        /\ \A v \in Scanners : scanner'[v] # a
        /\ \A v \in Scanners : \A b \in Attachments :
             b # a => ((scanner'[v] = b) <=> (scanner[v] = b))
    BY ZenonT(60), <1>1, <1>2, LetGo
  <1>4. PICK verdict \in {"ready", "rejected"} :
          row' = [row EXCEPT ![a].status = verdict]
    BY Zenon, <1>2 DEF CompleteScan
  <1>5. job' = [job EXCEPT ![a] = NoJob]
    BY <1>2 DEF CompleteScan
  <1>6. /\ row' \in [Attachments -> Rows] /\ row'[a].status = verdict
        /\ \A b \in Attachments : b # a => row'[b] = row[b]
    <2>1. verdict \in Statuses
      BY <1>4 DEF Statuses
    <2> QED
      BY Zenon, <1>3, <1>4, <2>1, StatusSet DEF IInv
  <1>7. /\ job' \in [Attachments -> Jobs] /\ job'[a] = NoJob
        /\ \A b \in Attachments : b # a => job'[b] = job[b]
    BY Zenon, <1>3, <1>5, Markers DEF IInv, TypeOK
  <1>8. TypeOK'
    BY Zenon, <1>1, <1>3, <1>6, <1>7 DEF IInv, TypeOK
  <1>9. Uploads'
    BY <1>1, <1>3, <1>4, <1>6, UploadsKept DEF IInv
  <1>10. JobOK(a)'
    <2>1. 0 <= MaxScanAttempts + lost
      BY LifecycleAssumption DEF IInv, TypeOK
    <2>2. row'[a].status # "scanning"
      BY <1>4, <1>6
    <2> QED
      BY <1>1, <1>7, <2>1, <2>2 DEF JobOK, NoJob
  <1>11. Scans'
    BY <1>1, <1>2, <1>3, <1>6, <1>7, <1>8, <1>10, ScansMoved DEF IInv
  <1> QED
    BY <1>8, <1>9, <1>11 DEF IInv

LEMMA ScanLostInv ==
  ASSUME IInv, NEW w \in Scanners, ScanLost(w)
  PROVE  IInv'
  <1>1. /\ scanner[w] # None /\ scanner' = [scanner EXCEPT ![w] = None]
        /\ lost < MaxLost /\ lost' = lost + 1
        /\ UNCHANGED <<uploadVars, job, referenced>>
    BY DEF ScanLost
  <1>2. /\ scanner' \in [Scanners -> Attachments \cup {None}]
        /\ scanner'[w] = None
        /\ \A v \in Scanners : v # w => scanner'[v] = scanner[v]
    BY <1>1 DEF IInv, TypeOK
  <1>3. lost \in Nat /\ lost' \in 0 .. MaxLost
    BY <1>1, LifecycleAssumption DEF IInv, TypeOK
  <1>4. TypeOK'
    BY Zenon, <1>1, <1>2, <1>3 DEF IInv, TypeOK, uploadVars
  <1>5. Uploads'
    BY Zenon, <1>1, UploadsKept DEF IInv, uploadVars
  <1>6. ASSUME NEW b \in Attachments PROVE JobOK(b)'
    <2>1. job[b].attempts \in Nat /\ job[b].attempts <= MaxScanAttempts + lost
      BY DEF IInv, TypeOK, Jobs, Scans, JobOK
    <2>2. job[b].attempts < MaxScanAttempts + lost'
      BY <1>1, <1>3, <2>1, LifecycleAssumption
    <2>3. job[b].attempts <= MaxScanAttempts + lost'
      BY <1>3, <2>1, <2>2, LifecycleAssumption
    <2> QED
      BY Zenon, <1>1, <2>2, <2>3 DEF IInv, Scans, JobOK, uploadVars
  <1>7. ASSUME NEW v \in Scanners PROVE ScannerOK(v)'
    BY Zenon, <1>1, <1>2 DEF IInv, Scans, ScannerOK, uploadVars
  <1>8. ScannersApart'
    BY <1>2 DEF IInv, Scans, ScannersApart
  <1> QED
    BY <1>4, <1>5, <1>6, <1>7, <1>8 DEF IInv, Scans

LEMMA LeaseExpiresInv ==
  ASSUME IInv, NEW a \in Attachments, LeaseExpires(a)
  PROVE  IInv'
  <1>1. /\ job[a].leased /\ \A w \in Scanners : scanner[w] # a
        /\ job' = [job EXCEPT ![a].leased = FALSE]
        /\ UNCHANGED <<uploadVars, scanner, lost, referenced>>
    BY DEF LeaseExpires
  <1>2. /\ job' \in [Attachments -> Jobs]
        /\ job'[a].present = job[a].present /\ job'[a].parked = job[a].parked
        /\ job'[a].attempts = job[a].attempts /\ ~job'[a].leased
        /\ \A b \in Attachments : b # a => job'[b] = job[b]
    BY ZenonT(60), <1>1 DEF IInv, TypeOK, Jobs
  <1>3. TypeOK'
    BY <1>1, <1>2 DEF IInv, TypeOK, uploadVars
  <1>4. Uploads'
    BY <1>1, UploadsKept DEF IInv, uploadVars
  <1>5. JobOK(a)'
    BY <1>1, <1>2 DEF IInv, Scans, JobOK, Unattended, uploadVars
  <1>6. Scans'
    BY <1>1, <1>2, <1>3, <1>5, ScansMoved DEF IInv, uploadVars
  <1> QED
    BY <1>3, <1>4, <1>6 DEF IInv

LEMMA BackoffElapsesInv ==
  ASSUME IInv, NEW a \in Attachments, BackoffElapses(a)
  PROVE  IInv'
  <1>1. /\ job' = [job EXCEPT ![a].due = TRUE]
        /\ UNCHANGED <<uploadVars, scanner, lost, referenced>>
    BY DEF BackoffElapses
  <1>2. /\ job' \in [Attachments -> Jobs]
        /\ job'[a].present = job[a].present /\ job'[a].parked = job[a].parked
        /\ job'[a].attempts = job[a].attempts /\ job'[a].leased = job[a].leased
        /\ \A b \in Attachments : b # a => job'[b] = job[b]
    BY ZenonT(60), <1>1 DEF IInv, TypeOK, Jobs
  <1>3. TypeOK'
    BY <1>1, <1>2 DEF IInv, TypeOK, uploadVars
  <1>4. Uploads'
    BY <1>1, UploadsKept DEF IInv, uploadVars
  <1>5. JobOK(a)'
    BY <1>1, <1>2 DEF IInv, Scans, JobOK, Unattended, uploadVars
  <1>6. \A w \in Scanners : scanner'[w] = a =>
          row'[a].status = "scanning" /\ job'[a].leased
    BY <1>1, <1>2, LifecycleAssumption DEF IInv, Scans, ScannerOK, uploadVars
  <1>7. \A v, w \in Scanners : scanner'[v] = a /\ scanner'[w] = a => v = w
    BY <1>1, LifecycleAssumption DEF IInv, Scans, ScannersApart
  <1>8. Scans'
    BY <1>1, <1>2, <1>3, <1>5, <1>6, <1>7, ScansMoved DEF IInv, uploadVars
  <1> QED
    BY <1>3, <1>4, <1>8 DEF IInv

LEMMA TrashInv ==
  ASSUME IInv, NEW a \in Attachments, Trash(a)
  PROVE  IInv'
  <1>1. /\ row[a].status \in {"ready", "rejected", "scan_parked"}
        /\ row' = [row EXCEPT ![a].status = "trashed"]
        /\ UNCHANGED <<multipart, content, request, keyLock, lostCommits,
                       scanVars, referenced>>
    BY DEF Trash
  <1>2. "trashed" \in Statuses
    BY DEF Statuses
  <1>3. /\ row' \in [Attachments -> Rows] /\ row'[a].status = "trashed"
        /\ \A b \in Attachments : b # a => row'[b] = row[b]
    BY Zenon, <1>1, <1>2, StatusSet DEF IInv
  <1>4. TypeOK'
    BY <1>1, <1>3 DEF IInv, TypeOK, scanVars
  <1>5. Uploads'
    BY <1>1, <1>3, UploadsKept DEF IInv
  <1>6. Scans'
    BY <1>1, <1>3, ScansKept DEF IInv
  <1> QED
    BY <1>4, <1>5, <1>6 DEF IInv

LEMMA RestoreInv ==
  ASSUME IInv, NEW a \in Attachments, Restore(a)
  PROVE  IInv'
  <1>1. /\ row[a].status = "trashed"
        /\ row' = [row EXCEPT ![a].status = "ready"]
        /\ UNCHANGED <<multipart, content, request, keyLock, lostCommits,
                       scanVars, referenced>>
    BY DEF Restore
  <1>2. "ready" \in Statuses
    BY DEF Statuses
  <1>3. /\ row' \in [Attachments -> Rows] /\ row'[a].status = "ready"
        /\ \A b \in Attachments : b # a => row'[b] = row[b]
    BY Zenon, <1>1, <1>2, StatusSet DEF IInv
  <1>4. TypeOK'
    BY <1>1, <1>3 DEF IInv, TypeOK, scanVars
  <1>5. Uploads'
    BY <1>1, <1>3, UploadsKept DEF IInv
  <1>6. Scans'
    BY <1>1, <1>3, ScansKept DEF IInv
  <1> QED
    BY <1>4, <1>5, <1>6 DEF IInv

LEMMA UnreferenceInv ==
  ASSUME IInv, NEW a \in Attachments, Unreference(a)
  PROVE  IInv'
  <1>1. /\ referenced' = referenced \ {a}
        /\ UNCHANGED <<uploadVars, scanVars>>
    BY DEF Unreference
  <1>2. TypeOK'
    BY Zenon, <1>1 DEF IInv, TypeOK, uploadVars, scanVars
  <1>3. Uploads'
    BY Zenon, <1>1, UploadsKept DEF IInv, uploadVars
  <1>4. Scans'
    BY <1>1, ScansKept DEF IInv, uploadVars
  <1> QED
    BY <1>2, <1>3, <1>4 DEF IInv

LEMMA NextInv == IInv /\ [Next]_vars => IInv'
  <1> SUFFICES ASSUME IInv, [Next]_vars PROVE IInv'
    OBVIOUS
  <1>1. ASSUME NEW p \in Requests, HandlerNext(p) PROVE IInv'
    BY <1>1, HandlerInv
  <1>2. ASSUME NEW w \in Scanners, NEW a \in Attachments, Claim(w, a) PROVE IInv'
    BY <1>2, ClaimInv
  <1>3. ASSUME NEW w \in Scanners, ScanEnds(w) PROVE IInv'
    BY <1>3, RetryScanInv, CompleteScanInv, ScanLostInv DEF ScanEnds
  <1>4. ASSUME NEW a \in Attachments,
               \/ LeaseExpires(a) \/ BackoffElapses(a)
               \/ Trash(a) \/ Restore(a) \/ Unreference(a)
        PROVE  IInv'
    BY <1>4, LeaseExpiresInv, BackoffElapsesInv, TrashInv, RestoreInv,
       UnreferenceInv
  <1>5. ASSUME UNCHANGED vars PROVE IInv'
    <2>1. TypeOK'
      BY Zenon, <1>5 DEF IInv, TypeOK, vars, uploadVars, scanVars
    <2>2. Uploads'
      BY Zenon, <1>5, UploadsKept DEF IInv, vars, uploadVars
    <2>3. Scans'
      BY <1>5, ScansKept DEF IInv, vars, uploadVars
    <2> QED
      BY <2>1, <2>2, <2>3 DEF IInv
  <1> QED
    BY <1>1, <1>2, <1>3, <1>4, <1>5 DEF Next

-----------------------------------------------------------------------------
(***************************************************************************)
(* The invariant is inductive: every step of a handler and of a scan       *)
(* worker, every lease and backoff that runs out, and the trash keep it.   *)
(***************************************************************************)
THEOREM LifecycleInvariance == Spec => []IInv
  BY InitInv, NextInv, PTL DEF Spec

(***************************************************************************)
(* Rows, uploads, jobs and handlers keep their types.  The attempts of a   *)
(* job never exceed maxScanAttempts by more than the scans that were lost: *)
(* Claim counts without a limit, RetryScan is what enforces it.            *)
(***************************************************************************)
THEOREM LifecycleTypes == Spec => []TypeOK
  BY LifecycleInvariance, PTL DEF IInv

(***************************************************************************)
(* An attachment is in scanning exactly while it has an unparked job: the  *)
(* two tables that markScanning, RetryScan and CompleteScan write agree.   *)
(***************************************************************************)
THEOREM JobsFollowStatus == Spec => []JobFollowsStatus
  <1>1. IInv => JobFollowsStatus
    BY Zenon DEF IInv, Scans, JobOK, JobFollowsStatus
  <1> QED
    BY <1>1, LifecycleInvariance, PTL

(***************************************************************************)
(* CompleteScan writes its verdict without looking at the status, and      *)
(* still only on an attachment in scanning: the worker that scans it holds *)
(* the lease of its job, alone, for as long as it scans.                   *)
(***************************************************************************)
THEOREM VerdictsLandWhileScanning == Spec => []VerdictOnlyWhileScanning
  <1>1. IInv => VerdictOnlyWhileScanning
    BY Zenon DEF IInv, Scans, ScannerOK, VerdictOnlyWhileScanning
  <1> QED
    BY <1>1, LifecycleInvariance, PTL

(***************************************************************************)
(* While no commit has been taken for a failure, the upload of a pending   *)
(* row has not been aborted, so a retry of CreateAttachment with the same  *)
(* idempotency key gets URLs that work.                                    *)
(***************************************************************************)
THEOREM RetriesReuseUploads == Spec => []RetryReusesUpload
  <1>1. IInv => RetryReusesUpload
    BY DEF IInv, Uploads, UploadOK, RetryReusesUpload
  <1> QED
    BY <1>1, LifecycleInvariance, PTL
=============================================================================
