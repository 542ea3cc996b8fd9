------------------------- MODULE ConfigurationSync -------------------------
(***************************************************************************)
(* One configuration namespace (email), from the PUT that writes a         *)
(* revision in Platform to the SMTP settings Identity sends mail with:     *)
(*   - the store and its transactional outbox                              *)
(*     (services/platform/internal/repository/store.go);                   *)
(*   - the outbox publisher (services/platform/internal/worker/outbox.go); *)
(*   - the durable JetStream consumer (pkg/nats), external;                *)
(*   - the configuration worker of Identity, whose event handler and       *)
(*     periodic reconciliation run concurrently                            *)
(*     (services/identity/internal/configsync/worker.go).                  *)
(* The content of a revision is its number. A PUT is one transaction, so   *)
(* one step; a PUT that is refused or that repeats an idempotency key      *)
(* writes nothing and is no step.                                          *)
(***************************************************************************)
EXTENDS Integers, FiniteSets, FiniteSetsExt

CONSTANTS MaxRevision,  \* bound: revisions written
          MaxDeliver    \* deliveries of one event by the durable consumer

ASSUME ConfigurationAssumption ==
    /\ MaxRevision \in Nat \ {0}
    /\ MaxDeliver \in Nat \ {0}

VARIABLES
    desired,    \* the newest revision of configurations, 0: none written
    outbox,     \* config_outbox, by revision
    event,      \* the event of a revision at the durable consumer
    delivery,   \* config_deliveries: what Identity reported of each revision
    thread,     \* Identity's event handler and its reconciliation
    running,    \* revision of the SMTP settings in use, 0: the config file
    ran         \* every revision Identity has ever switched to

syncVars == <<desired, outbox, event, delivery, thread, running, ran>>

Revisions == 1..MaxRevision

----------------------------------------------------------------------------
(* Platform: writing and announcing a revision *)

\* Put: the next revision, its history row and its outbox row, in one
\* transaction.
Put ==
    /\ desired < MaxRevision
    /\ desired' = desired + 1
    /\ outbox' = [outbox EXCEPT ![desired + 1] = "pending"]
    /\ UNCHANGED <<event, delivery, thread, running, ran>>

\* ClaimOutbox takes unpublished, unparked rows.  How many attempts a row has
\* had is left open.
Claimable(r) == outbox[r] = "pending"

Processed(r, status) == outbox' = [outbox EXCEPT ![r] = status]

\* JetStream drops a copy of an event within its deduplication window and
\* stores it again after that.
Stored(r) ==
    \/ /\ event[r].state \in {"none", "settled"}
       /\ event' = [event EXCEPT ![r] = [state |-> "waiting", count |-> 0]]
    \/ event[r].state # "none" /\ event' = event

\* process: the server acknowledged the event and the row is marked.
Publish(r) ==
    /\ Claimable(r)
    /\ Stored(r)
    /\ Processed(r, "published")
    /\ UNCHANGED <<desired, delivery, thread, running, ran>>

\* The publisher stops between the acknowledgement and the mark: the row is
\* claimed again once its lease is over.
PublishUnmarked(r) ==
    /\ Claimable(r)
    /\ Stored(r)
    /\ Processed(r, "pending")
    /\ UNCHANGED <<desired, delivery, thread, running, ran>>

\* Publish failed, though the server may have stored the event: ParkOutbox
\* after the last attempt, RetryOutbox before.
PublishFails(r) ==
    /\ Claimable(r)
    /\ event' = event \/ Stored(r)
    /\ \E status \in {"pending", "parked"} : Processed(r, status)
    /\ UNCHANGED <<desired, delivery, thread, running, ran>>

----------------------------------------------------------------------------
(* Applying a revision in Identity *)

Threads == {"handle", "reconcile"}
Resting == [stage |-> "idle", revision |-> 0, status |-> "none"]
Terminal == {"applied", "parked"}

\* A row in a status that is not terminal is like no row: whatever is reported
\* next is accepted.
Row(status) == IF status \in Terminal THEN status ELSE "open"

\* acceptDeliveryUpdate: a terminal status only accepts itself.
AcceptDeliveryUpdate(current, next) == current \in Terminal => current = next

\* Acknowledged or dead-lettered: its deliveries no longer count.
Settled(r) == [event EXCEPT ![r] = [state |-> "settled", count |-> 0]]

\* Mutant: an event is given back whatever its deliveries.
NackedForEver(r) == [event EXCEPT ![r].state = "waiting"]

\* A durable consumer redelivers until MaxDeliver.
Nacked(r) ==
    IF event[r].count < MaxDeliver
    THEN [event EXCEPT ![r].state = "waiting"]
    ELSE Settled(r)

Reports(t, r, status) ==
    thread' = [thread EXCEPT ![t] = [stage |-> "check", revision |-> r, status |-> status]]

\* JetStream hands an event to the handler, which serves one at a time.
Deliver(r) ==
    /\ thread["handle"] = Resting /\ event[r].state = "waiting"
    /\ event' = [event EXCEPT ![r] = [state |-> "handling", count |-> @.count + 1]]
    /\ Reports("handle", r, "validating")
    /\ UNCHANGED <<desired, outbox, delivery, running, ran>>

\* Mutant: a parked revision counts as done.
TerminalRevision ==
    Max({0} \cup {r \in Revisions : delivery[r] \in Terminal})

\* ConsumerState: the highest revision whose row says applied.
AppliedRevision ==
    Max({0} \cup {r \in Revisions : delivery[r] = "applied"})

\* reconcile: the desired revision, unless it is reported applied.
Reconcile ==
    /\ thread["reconcile"] = Resting
    /\ desired > AppliedRevision
    /\ Reports("reconcile", desired, "validating")
    /\ UNCHANGED <<desired, outbox, event, delivery, running, ran>>

\* What follows a report: ApplyConfig after "validating"; after the others the
\* handler settles its event and the reconciliation returns.  When the
\* acknowledgement is lost the event is delivered again.
Reported(t) ==
    LET r == thread[t].revision  status == thread[t].status IN
    IF status = "validating"
    THEN thread' = [thread EXCEPT ![t].stage = "apply"] /\ UNCHANGED event
    ELSE /\ thread' = [thread EXCEPT ![t] = Resting]
         /\ event' \in IF t = "reconcile" THEN {event}
                       ELSE IF status = "retrying" THEN {Nacked(r)}
                       ELSE {Settled(r), Nacked(r)}

\* ReportDelivery reads the row and decides ...
ReportChecked(t) ==
    /\ thread[t].stage = "check"
    /\ IF AcceptDeliveryUpdate(delivery[thread[t].revision], thread[t].status)
       THEN thread' = [thread EXCEPT ![t].stage = "save"] /\ UNCHANGED event
       ELSE Reported(t)
    /\ UNCHANGED <<desired, outbox, delivery, running, ran>>

Saved(t) ==
    [delivery EXCEPT ![thread[t].revision] = Row(thread[t].status)]

\* ... and saves it in a second statement, outside a transaction.
ReportSaved(t) ==
    /\ thread[t].stage = "save"
    /\ delivery' = Saved(t)
    /\ Reported(t)
    /\ UNCHANGED <<desired, outbox, running, ran>>

\* The call to Platform returns an error, its row saved or not: the handler
\* gives the event back, or dead-letters it when it was reporting "parked".
ReportFails(t) ==
    /\ thread[t].stage \in {"check", "save"}
    /\ \/ UNCHANGED delivery
       \/ thread[t].stage = "save" /\ delivery' = Saved(t)
    /\ thread' = [thread EXCEPT ![t] = Resting]
    /\ event' = IF t = "reconcile" THEN event
                ELSE IF thread[t].status = "parked" THEN Settled(thread[t].revision)
                     ELSE Nacked(thread[t].revision)
    /\ UNCHANGED <<desired, outbox, running, ran>>

\* ApplyConfig: the probe succeeds and the settings are swapped in.
ApplyConfig(t) ==
    /\ thread[t].stage = "apply"
    /\ running' = thread[t].revision
    /\ ran' = ran \cup {thread[t].revision}
    /\ Reports(t, thread[t].revision, "applied")
    /\ UNCHANGED <<desired, outbox, event, delivery>>

\* Mutant: the error of the probe is dropped.
ApplyFailsSilently(t) ==
    /\ thread[t].stage = "apply"
    /\ Reports(t, thread[t].revision, "applied")
    /\ UNCHANGED <<desired, outbox, event, delivery, running, ran>>

\* The probe, or the read of the revision, fails: the last-good settings stay.
ApplyFails(t) ==
    LET r == thread[t].revision IN
    /\ thread[t].stage = "apply"
    /\ Reports(t, r, IF t = "handle" /\ event[r].count >= MaxDeliver
                     THEN "parked" ELSE "retrying")
    /\ UNCHANGED <<desired, outbox, event, delivery, running, ran>>

\* Identity restarts: NewWorker starts from the configuration file, and the
\* unacknowledged event is delivered again.
Restart ==
    /\ running # 0 \/ \E t \in Threads : thread[t] # Resting
    /\ running' = 0
    /\ thread' = [t \in Threads |-> Resting]
    /\ event' = IF thread["handle"] = Resting THEN event
                ELSE Nacked(thread["handle"].revision)
    /\ UNCHANGED <<desired, outbox, delivery, ran>>

----------------------------------------------------------------------------
SyncInit ==
    /\ desired = 0
    /\ outbox = [r \in Revisions |-> "none"]
    /\ event = [r \in Revisions |-> [state |-> "none", count |-> 0]]
    /\ delivery = [r \in Revisions |-> "open"]
    /\ thread = [t \in Threads |-> Resting]
    /\ running = 0
    /\ ran = {}

Relay(r) == Publish(r) \/ PublishUnmarked(r) \/ PublishFails(r)

Report(t) == ReportChecked(t) \/ ReportSaved(t)

SyncNext ==
    \/ Put
    \/ \E r \in Revisions : Relay(r) \/ Deliver(r)
    \/ Reconcile
    \/ \E t \in Threads : Report(t) \/ ReportFails(t) \/ ApplyConfig(t) \/ ApplyFails(t)
    \/ Restart

SyncSpec == SyncInit /\ [][SyncNext]_syncVars

(* The ticker of the configuration worker keeps firing, and a report or an *)
(* SMTP probe that is tried again and again succeeds at last. Nothing is   *)
(* assumed of the publisher and of JetStream: every event may be lost.     *)
SyncFairness ==
    /\ WF_syncVars(Reconcile)
    /\ SF_syncVars(ReportChecked("reconcile")) /\ SF_syncVars(ReportSaved("reconcile"))
    /\ SF_syncVars(ApplyConfig("reconcile"))

SyncLiveSpec == SyncSpec /\ SyncFairness

----------------------------------------------------------------------------
(* Properties *)

SyncTypeOK ==
    /\ desired \in 0..MaxRevision
    /\ outbox \in [Revisions -> {"none", "pending", "published", "parked"}]
    /\ event \in [Revisions -> [state : {"none", "waiting", "handling", "settled"},
                                count : 0..MaxDeliver]]
    /\ delivery \in [Revisions -> Terminal \cup {"open"}]
    /\ thread \in [Threads -> [stage : {"idle", "check", "save", "apply"},
                               revision : 0..MaxRevision,
                               status : {"none", "validating", "retrying"} \cup Terminal]]
    /\ running \in ran \cup {0} /\ ran \subseteq 1..desired

\* A revision reported applied is one Identity switched to, whichever of the
\* handler and the reconciliation reported it last.
AppliedWasRun == \A r \in Revisions : delivery[r] = "applied" => r \in ran

\* Identity switches to the newest revision even when its event is parked in
\* the outbox, exhausted or lost with a restart: the reconciliation finds it.
DesiredIsRun == (desired > 0) ~> (desired \in ran)

\* Identity does not stay on other settings than the newest revision: not after
\* a lost event, and not after a restart.
StaysOnDesired == (running # desired) ~> (running = desired)
=============================================================================
