-------------------------------- MODULE Blasts --------------------------------
(***************************************************************************)
(* One blast: the admin's handlers, the background expansion into delivery *)
(* rows, the delivery worker and the provider's status webhooks, all over  *)
(* the same two tables.  An action is what a handler does between two      *)
(* awaits; what it has read is kept in `reqs` or in `worker`.              *)
(***************************************************************************)
EXTENDS Naturals, FiniteSets

CONSTANTS
  Recipients,   \* subscriber-channel pairs the blast targets
  None,
  RawRows,      \* drainDeliveryBatch hands out the driver's rows, with the columns' names
  MaxRetries,   \* BLAST_MAX_RETRIES
  MaxReqs,      \* bound: handlers in flight at once
  MaxAdmin,     \* bound: retries asked for by an admin
  MaxCrashes    \* bound: restarts of the server

ASSUME BlastConstants ==
  /\ None \notin Recipients
  /\ RawRows \in BOOLEAN
  /\ MaxRetries \in Nat \ {0}
  /\ MaxReqs \in Nat /\ MaxAdmin \in Nat /\ MaxCrashes \in Nat

VARIABLES
  status,       \* blasts.status; "deleted": the row is gone
  row,          \* blast_deliveries.status; "none": no row, "backoff": pending
                \* with next_retry_at in the future
  attempts,     \* blast_deliveries.attempts, counted up to MaxRetries
  subscribed,   \* recipients whose subscriber is active
  awaited,      \* recipients whose current external_id the provider has yet to report on
  worker,       \* the delivery worker, one poll at a time (`processing`)
  reqs,         \* other handlers, between two awaits
  adminRetries, crashes,
  copies,       \* history: messages accepted since the last reported failure
  tries,        \* history: sends since an admin last asked for a retry
  lateCancel,   \* history: messages accepted while the blast is cancelled
  lateOptOut    \* history: messages accepted after the recipient opted out

tables == <<status, row, attempts>>
counts == <<copies, tries, lateCancel, lateOptOut>>
vars == <<status, row, attempts, subscribed, awaited, worker, reqs, adminRetries,
          crashes, copies, tries, lateCancel, lateOptOut>>

----------------------------------------------------------------------------
Statuses == {"draft", "scheduled", "sending", "sent", "cancelled", "deleted"}
Terminal == {"sent", "delivered", "failed", "opted_out"}
RowStates == Terminal \cup {"none", "pending", "backoff", "sending", "cancelled"}

Kinds == {"expand", "schedule", "cancel", "delete", "retryAll", "retryOne",
          "delivered", "failed", "sync", "workerSync"}

(* What a handler has read: the blast's status, some deliveries, the        *)
(* attempts of one, whether all deliveries were terminal.                  *)
Request == [kind : Kinds, phase : {"read", "find", "rows", "write", "done"},
            read : Statuses, who : SUBSET Recipients, n : 0..MaxRetries, complete : BOOLEAN]

Req(kind, phase) == [kind |-> kind, phase |-> phase, read |-> "draft", who |-> {},
                     n |-> 0, complete |-> FALSE]

CanServe == Cardinality(reqs) < MaxReqs
Start(q) == reqs' = reqs \cup {q}
Become(q, p) == reqs' = (reqs \ {q}) \cup {p}
Finish(q) == reqs' = reqs \ {q}

WorkerAt == {"idle", "drain", "check", "optout", "send", "mark", "syncing"}
Worker == [at : WorkerAt, batch : SUBSET Recipients, now : Recipients \cup {None},
           drained : [Recipients -> 0..MaxRetries], ok : BOOLEAN]
Idle == [at |-> "idle", batch |-> {}, now |-> None,
         drained |-> [r \in Recipients |-> 0], ok |-> FALSE]

TypeOK ==
  /\ status \in Statuses
  /\ row \in [Recipients -> RowStates]
  /\ attempts \in [Recipients -> 0..MaxRetries]
  /\ subscribed \subseteq Recipients
  /\ awaited \subseteq Recipients
  /\ worker \in Worker
  /\ reqs \subseteq Request
  /\ adminRetries \in 0..MaxAdmin
  /\ crashes \in 0..MaxCrashes
  /\ copies \in [Recipients -> 0..2]
  /\ tries \in [Recipients -> 0..(MaxRetries + 1)]
  /\ lateCancel \in 0..2
  /\ lateOptOut \in [Recipients -> 0..2]

Init ==
  /\ status = "draft"
  /\ row = [r \in Recipients |-> "none"]
  /\ attempts = [r \in Recipients |-> 0]
  /\ subscribed = Recipients
  /\ awaited = {}
  /\ worker = Idle
  /\ reqs = {}
  /\ adminRetries = 0 /\ crashes = 0
  /\ copies = [r \in Recipients |-> 0]
  /\ tries = [r \in Recipients |-> 0]
  /\ lateCancel = 0
  /\ lateOptOut = [r \in Recipients |-> 0]

UpTo(limit, n) == IF n > limit THEN limit ELSE n

(* UPDATE blasts ... WHERE id: unconditional, nothing if the row is gone.  *)
SetStatus(s) ==
  /\ status' = IF status = "deleted" THEN status ELSE s
  /\ lateCancel' = IF status' = status THEN lateCancel ELSE 0

KeepStatus == UNCHANGED <<status, lateCancel>>

(* Mutant: the limit is compared with the attempts before this one.        *)
FailDeliveryOneMore(r, n) ==
  /\ row' = [row EXCEPT ![r] = IF @ = "none" THEN @
                               ELSE IF n >= MaxRetries THEN "failed" ELSE "backoff"]
  /\ attempts' = [attempts EXCEPT ![r] = UpTo(MaxRetries, n + 1)]
  /\ copies' = [copies EXCEPT ![r] = 0]

(* computeRetryDecision and the UPDATE of markDeliveryFailed, given the    *)
(* attempts the caller had read.                                           *)
FailDelivery(r, n) ==
  /\ row' = [row EXCEPT ![r] = IF @ = "none" THEN @
                               ELSE IF n + 1 >= MaxRetries THEN "failed" ELSE "backoff"]
  /\ attempts' = [attempts EXCEPT ![r] = UpTo(MaxRetries, n + 1)]
  /\ copies' = [copies EXCEPT ![r] = 0]

----------------------------------------------------------------------------
(* The admin's handlers. *)

(* POST /:id/send, or the poller of due scheduled blasts: the conditional  *)
(* UPDATE, then the expansion, in the background or by the poller.         *)
Send ==
  /\ CanServe
  /\ status \in {"draft", "scheduled"}
  /\ SetStatus("sending")
  /\ Start(Req("expand", "read"))
  /\ UNCHANGED <<row, attempts, subscribed, awaited, worker, adminRetries, crashes,
                 copies, tries, lateOptOut>>

ExpandReads(q) ==
  /\ q.kind = "expand" /\ q.phase = "read"
  /\ IF status = "sending"
       THEN Become(q, [q EXCEPT !.phase = "rows", !.who = subscribed])
       ELSE Finish(q)
  /\ UNCHANGED <<tables, subscribed, awaited, worker, adminRetries, crashes, counts>>

(* INSERT ... ON CONFLICT DO NOTHING on (blast, subscriber, channel).      *)
ExpandInserts(q) ==
  /\ q.kind = "expand" /\ q.phase = "rows"
  /\ row' = [r \in Recipients |->
               IF r \in q.who /\ row[r] = "none" /\ status # "deleted"
                 THEN "pending" ELSE row[r]]
  /\ Finish(q)
  /\ KeepStatus
  /\ UNCHANGED <<attempts, subscribed, awaited, worker, adminRetries, crashes,
                 copies, tries, lateOptOut>>

(* The read that opens schedule, deleteBlast, cancel and the two retries.  *)
Allowed(kind) ==
  CASE kind \in {"schedule", "delete"} -> {"draft"}
    [] kind = "cancel" -> {"scheduled", "sending"}
    [] kind \in {"retryAll", "retryOne"} -> {"sending", "sent"}

AdminReads(kind) ==
  /\ CanServe
  /\ status \in Allowed(kind)
  /\ kind \in {"retryAll", "retryOne"} => adminRetries < MaxAdmin
  /\ adminRetries' = IF kind \in {"retryAll", "retryOne"} THEN adminRetries + 1 ELSE adminRetries
  /\ LET phase == CASE kind \in {"schedule", "delete"} -> "write"
                    [] kind \in {"cancel", "retryAll"} -> "rows"
                    [] kind = "retryOne" -> "find"
     IN Start([Req(kind, phase) EXCEPT !.read = status])
  /\ UNCHANGED <<tables, subscribed, awaited, worker, crashes, counts>>

ScheduleWrites(q) ==
  /\ q.kind = "schedule" /\ q.phase = "write"
  /\ SetStatus("scheduled")
  /\ Finish(q)
  /\ UNCHANGED <<row, attempts, subscribed, awaited, worker, adminRetries, crashes,
                 copies, tries, lateOptOut>>

(* Deleting the blast deletes its deliveries.                              *)
DeleteCommits(q) ==
  /\ q.kind = "delete" /\ q.phase = "write"
  /\ SetStatus("deleted")
  /\ row' = [r \in Recipients |-> "none"]
  /\ awaited' = {}
  /\ Finish(q)
  /\ UNCHANGED <<attempts, subscribed, worker, adminRetries, crashes, copies, tries, lateOptOut>>

CancelRows(q) ==
  /\ q.kind = "cancel" /\ q.phase = "rows"
  /\ row' = [r \in Recipients |->
               IF row[r] \in {"pending", "backoff", "sending"} THEN "cancelled" ELSE row[r]]
  /\ Become(q, [q EXCEPT !.phase = "write"])
  /\ KeepStatus
  /\ UNCHANGED <<attempts, subscribed, awaited, worker, adminRetries, crashes,
                 copies, tries, lateOptOut>>

CancelWrites(q) ==
  /\ q.kind = "cancel" /\ q.phase = "write"
  /\ SetStatus("cancelled")
  /\ Finish(q)
  /\ UNCHANGED <<row, attempts, subscribed, awaited, worker, adminRetries, crashes,
                 copies, tries, lateOptOut>>

(* What both retries do to the deliveries they reset, counting on from n.  *)
ResetRows(rs, n) ==
  /\ row' = [r \in Recipients |-> IF r \in rs THEN "pending" ELSE row[r]]
  /\ attempts' = [r \in Recipients |->
                    IF r \in rs THEN UpTo(MaxRetries, n[r] + 1) ELSE attempts[r]]
  /\ copies' = [r \in Recipients |-> IF r \in rs THEN 0 ELSE copies[r]]
  /\ tries' = [r \in Recipients |-> IF r \in rs THEN 0 ELSE tries[r]]

RetryAllRows(q) ==
  /\ q.kind = "retryAll" /\ q.phase = "rows"
  /\ LET failed == {r \in Recipients : row[r] = "failed"}
     IN /\ ResetRows(failed, attempts)
        /\ IF q.read = "sent" /\ failed # {}
             THEN Become(q, [q EXCEPT !.phase = "write"])
             ELSE Finish(q)
  /\ KeepStatus
  /\ UNCHANGED <<subscribed, awaited, worker, adminRetries, crashes, lateOptOut>>

RetryOneFinds(q) ==
  /\ q.kind = "retryOne" /\ q.phase = "find"
  /\ \/ \E r \in Recipients :
          /\ row[r] = "failed"
          /\ Become(q, [q EXCEPT !.phase = "rows", !.who = {r}, !.n = attempts[r]])
     \/ /\ \E r \in Recipients : row[r] # "failed"
        /\ Finish(q)
  /\ UNCHANGED <<tables, subscribed, awaited, worker, adminRetries, crashes, counts>>

(* UPDATE ... WHERE id: unconditional, counting on from the attempts read  *)
(* earlier; the status read earlier decides whether the blast goes back to *)
(* sending.                                                                *)
RetryOneRow(q) ==
  /\ q.kind = "retryOne" /\ q.phase = "rows"
  /\ ResetRows({r \in q.who : row[r] # "none"}, [r \in q.who |-> q.n])
  /\ IF q.read = "sent"
       THEN Become(q, [q EXCEPT !.phase = "write", !.who = {}])
       ELSE Finish(q)
  /\ KeepStatus
  /\ UNCHANGED <<subscribed, awaited, worker, adminRetries, crashes, lateOptOut>>

RetryReopens(q) ==
  /\ q.kind \in {"retryAll", "retryOne"} /\ q.phase = "write"
  /\ SetStatus("sending")
  /\ Finish(q)
  /\ UNCHANGED <<row, attempts, subscribed, awaited, worker, adminRetries, crashes,
                 copies, tries, lateOptOut>>

----------------------------------------------------------------------------
(* syncBlastStats: count, read the blast, write; by a webhook or the worker*)
(* (which then polls again).                                               *)

SyncKinds == {"sync", "workerSync"}

SyncCounts(q) ==
  /\ q.kind \in SyncKinds /\ q.phase = "rows"
  /\ Become(q, [q EXCEPT !.phase = "read",
                         !.complete = \A r \in Recipients : row[r] \in Terminal \cup {"none"}])
  /\ UNCHANGED <<tables, subscribed, awaited, worker, adminRetries, crashes, counts>>

SyncReads(q) ==
  /\ q.kind \in SyncKinds /\ q.phase = "read"
  /\ Become(q, [q EXCEPT !.phase = "write", !.read = status])
  /\ UNCHANGED <<tables, subscribed, awaited, worker, adminRetries, crashes, counts>>

(* Mutant: only the counts are written, never the status.                  *)
SyncWritesStats(q) ==
  /\ q.kind \in SyncKinds /\ q.phase = "write"
  /\ Finish(q)
  /\ worker' = IF q.kind = "workerSync" THEN Idle ELSE worker
  /\ UNCHANGED <<tables, subscribed, awaited, adminRetries, crashes, counts>>

SyncWrites(q) ==
  /\ q.kind \in SyncKinds /\ q.phase = "write"
  /\ IF q.complete /\ q.read = "sending" THEN SetStatus("sent") ELSE KeepStatus
  /\ Finish(q)
  /\ worker' = IF q.kind = "workerSync" THEN Idle ELSE worker
  /\ UNCHANGED <<row, attempts, subscribed, awaited, adminRetries, crashes,
                 copies, tries, lateOptOut>>

----------------------------------------------------------------------------
(* The delivery worker: pollForWork and processBlastBatch. *)

(* getSendingBlasts, and the re-check of the blast.                        *)
Poll ==
  /\ worker.at = "idle"
  /\ status = "sending"
  /\ worker' = [worker EXCEPT !.at = "drain"]
  /\ UNCHANGED <<tables, subscribed, awaited, reqs, adminRetries, crashes, counts>>

StartSync ==
  /\ worker' = [Idle EXCEPT !.at = "syncing"]
  /\ Start(Req("workerSync", "rows"))

(* Mutant: the due rows are read but not claimed.                          *)
DrainUnclaimed ==
  /\ worker.at = "drain"
  /\ LET due == {r \in Recipients : row[r] = "pending"}
     IN IF due = {}
          THEN StartSync
          ELSE /\ worker' = [worker EXCEPT !.at = "check", !.batch = due,
                               !.drained = [r \in Recipients |->
                                              IF r \in due THEN attempts[r] ELSE 0]]
               /\ UNCHANGED reqs
  /\ UNCHANGED <<tables, subscribed, awaited, adminRetries, crashes, counts>>

(* drainDeliveryBatch: due pending rows become `sending` in one statement. *)
Drain ==
  /\ worker.at = "drain"
  /\ LET due == {r \in Recipients : row[r] = "pending"}
     IN /\ row' = [r \in Recipients |-> IF r \in due THEN "sending" ELSE row[r]]
        /\ IF due = {}
             THEN StartSync
             ELSE /\ worker' = [worker EXCEPT !.at = "check", !.batch = due,
                                  !.drained = [r \in Recipients |->
                                                 IF r \in due THEN attempts[r] ELSE 0]]
                  /\ UNCHANGED reqs
  /\ KeepStatus
  /\ UNCHANGED <<attempts, subscribed, awaited, adminRetries, crashes,
                 copies, tries, lateOptOut>>

(* Mutant: the batch goes on whatever has become of the blast.             *)
WorkerChecksNothing ==
  /\ worker.at = "check"
  /\ IF worker.batch = {}
       THEN StartSync
       ELSE /\ \E r \in worker.batch : worker' = [worker EXCEPT !.at = "optout", !.now = r]
            /\ UNCHANGED reqs
  /\ UNCHANGED <<tables, subscribed, awaited, adminRetries, crashes, counts>>

(* Before each delivery the blast is read again; a blast that is no longer *)
(* sending stops the batch, and what is left of it stays `sending`.        *)
WorkerChecks ==
  /\ worker.at = "check"
  /\ IF worker.batch = {}
       THEN StartSync
       ELSE /\ IF status = "sending"
                 THEN \E r \in worker.batch :
                        worker' = [worker EXCEPT !.at = "optout", !.now = r]
                 ELSE worker' = Idle
            /\ UNCHANGED reqs
  /\ UNCHANGED <<tables, subscribed, awaited, adminRetries, crashes, counts>>

(* Done with one delivery of the batch.                                    *)
NextDelivery ==
  worker' = [worker EXCEPT !.at = "check", !.now = None, !.ok = FALSE,
                           !.batch = @ \ {worker.now}, !.drained[worker.now] = 0]

(* Mutant: the subscriber is not read again.                               *)
WorkerTrustsExpansion ==
  /\ worker.at = "optout"
  /\ worker' = [worker EXCEPT !.at = "send"]
  /\ UNCHANGED <<tables, subscribed, awaited, reqs, adminRetries, crashes, counts>>

(* isSubscriberActive is asked for `delivery.subscriberId`, which a raw row *)
(* (it has `subscriber_id`) does not have: the query then finds nobody.    *)
ActiveWhenAsked == IF RawRows THEN {} ELSE subscribed

WorkerChecksOptOut ==
  /\ worker.at = "optout"
  /\ LET r == worker.now
     IN IF r \in ActiveWhenAsked
          THEN worker' = [worker EXCEPT !.at = "send"] /\ UNCHANGED row
          ELSE /\ NextDelivery
               /\ row' = [row EXCEPT ![r] = IF @ = "none" THEN @ ELSE "opted_out"]
  /\ KeepStatus
  /\ UNCHANGED <<attempts, subscribed, awaited, reqs, adminRetries, crashes,
                 copies, tries, lateOptOut>>

(* The provider accepts the message or not; an error (a timeout) may hide  *)
(* that it did.  With no adapter or identifier nothing is sent.            *)
WorkerSends ==
  /\ worker.at = "send"
  /\ LET r == worker.now
     IN \E accepted, ok \in BOOLEAN :
          /\ ok => accepted
          /\ worker' = [worker EXCEPT !.at = "mark", !.ok = ok]
          /\ tries' = [tries EXCEPT ![r] = UpTo(MaxRetries + 1, @ + 1)]
          /\ IF accepted
               THEN /\ copies' = [copies EXCEPT ![r] = UpTo(2, @ + 1)]
                    /\ lateCancel' = IF status = "cancelled" THEN UpTo(2, lateCancel + 1) ELSE 0
                    /\ lateOptOut' = IF r \in subscribed THEN lateOptOut
                                     ELSE [lateOptOut EXCEPT ![r] = UpTo(2, @ + 1)]
               ELSE UNCHANGED <<copies, lateCancel, lateOptOut>>
  /\ UNCHANGED <<tables, subscribed, awaited, reqs, adminRetries, crashes>>

(* markDeliverySent with the new external_id, or markDeliveryFailed.       *)
WorkerMarks ==
  /\ worker.at = "mark"
  /\ LET r == worker.now
     IN IF worker.ok
          THEN /\ row' = [row EXCEPT ![r] = IF @ = "none" THEN @ ELSE "sent"]
               /\ attempts' = [attempts EXCEPT ![r] = UpTo(MaxRetries, @ + 1)]
               /\ awaited' = IF row[r] = "none" THEN awaited ELSE awaited \cup {r}
               /\ UNCHANGED copies
          ELSE FailDelivery(r, worker.drained[r]) /\ UNCHANGED awaited
  /\ NextDelivery
  /\ KeepStatus
  /\ UNCHANGED <<subscribed, reqs, adminRetries, crashes, tries, lateOptOut>>

----------------------------------------------------------------------------
(* The provider's status webhooks: find the delivery, mark it, sync. *)

(* The provider reports at most once on each message: a webhook repeated   *)
(* is refused before it gets here (services/webhook-replay.ts).            *)
StatusFinds(kind, r) ==
  /\ CanServe
  /\ kind \in {"delivered", "failed"}
  /\ r \in awaited
  /\ awaited' = awaited \ {r}
  /\ Start([Req(kind, "rows") EXCEPT !.who = {r}, !.n = attempts[r]])
  /\ UNCHANGED <<tables, subscribed, worker, adminRetries, crashes, counts>>

StatusDelivered(q, r) ==
  /\ q.kind = "delivered" /\ r \in q.who
  /\ row' = [row EXCEPT ![r] = IF @ = "none" THEN @ ELSE "delivered"]
  /\ Become(q, Req("sync", "rows"))
  /\ KeepStatus
  /\ UNCHANGED <<attempts, subscribed, awaited, worker, adminRetries, crashes,
                 copies, tries, lateOptOut>>

StatusFailed(q, r) ==
  /\ q.kind = "failed" /\ r \in q.who
  /\ FailDelivery(r, q.n)
  /\ Become(q, Req("sync", "rows"))
  /\ KeepStatus
  /\ UNCHANGED <<subscribed, awaited, worker, adminRetries, crashes, tries, lateOptOut>>

----------------------------------------------------------------------------
(* Recipients, time, restarts. *)

OptOut(r) ==
  /\ r \in subscribed
  /\ subscribed' = subscribed \ {r}
  /\ UNCHANGED <<tables, awaited, worker, reqs, adminRetries, crashes, counts>>

BackoffElapses(r) ==
  /\ row[r] = "backoff"
  /\ row' = [row EXCEPT ![r] = "pending"]
  /\ UNCHANGED <<status, attempts, subscribed, awaited, worker, reqs, adminRetries, crashes,
                 counts>>

(* A restart loses the handlers, the expansion and the worker's batch.     *)
Crash ==
  /\ crashes < MaxCrashes
  /\ crashes' = crashes + 1
  /\ worker' = Idle
  /\ reqs' = {}
  /\ UNCHANGED <<tables, subscribed, awaited, adminRetries, counts>>

----------------------------------------------------------------------------
HandlerStep(q) ==
  \/ ExpandReads(q) \/ ExpandInserts(q)
  \/ ScheduleWrites(q) \/ DeleteCommits(q)
  \/ CancelRows(q) \/ CancelWrites(q)
  \/ RetryAllRows(q) \/ RetryOneFinds(q) \/ RetryOneRow(q) \/ RetryReopens(q)
  \/ SyncCounts(q) \/ SyncReads(q) \/ SyncWrites(q)
  \/ \E r \in Recipients : StatusDelivered(q, r) \/ StatusFailed(q, r)

WorkerStep == Drain \/ WorkerChecks \/ WorkerChecksOptOut \/ WorkerSends \/ WorkerMarks

AdminKinds == {"schedule", "delete", "cancel", "retryAll", "retryOne"}

Next ==
  \/ Send
  \/ \E kind \in AdminKinds : AdminReads(kind)
  \/ \E q \in reqs : HandlerStep(q)
  \/ Poll \/ WorkerStep
  \/ \E r \in Recipients : OptOut(r) \/ BackoffElapses(r)
  \/ \E kind \in {"delivered", "failed"}, r \in Recipients : StatusFinds(kind, r)
  \/ Crash

Spec == Init /\ [][Next]_vars

(* Handlers run on, the worker polls every 10 seconds, backoffs elapse;    *)
(* nothing is assumed of admins, recipients or the provider's reports.     *)
FairSpec ==
  /\ Spec
  /\ \A kind \in Kinds : WF_vars(\E q \in reqs : q.kind = kind /\ HandlerStep(q))
  /\ WF_vars(Poll \/ WorkerStep)
  /\ \A r \in Recipients : WF_vars(BackoffElapses(r))

----------------------------------------------------------------------------
(* Properties. *)

(* A message the provider accepted is not sent again unless a failure was  *)
(* reported since (to the worker or by webhook) or an admin asked for it:  *)
(* markDeliverySent retires rows, a second expansion leaves them alone.    *)
NoBlindResend == \A r \in Recipients : copies[r] <= 1

(* computeRetryDecision's limit holds across webhook failures, stale       *)
(* attempt counts and restarts: so many sends between two admin retries.   *)
RetryBudget == \A r \in Recipients : tries[r] <= MaxRetries

(* The worker re-reads the blast before each delivery, so at most one      *)
(* message, the one in flight, goes out after a cancel.                    *)
CancelStopsSending == lateCancel <= 1

(* The worker re-reads the subscriber before each delivery: at most the    *)
(* message in flight reaches somebody who has opted out.                   *)
OptOutStopsSending == \A r \in Recipients : lateOptOut[r] <= 1

(* A delivery claimed by a batch that a restart or a stop has dropped:     *)
(* nothing ever picks it up again.                                         *)
Orphan(r) == row[r] = "sending" /\ r \notin worker.batch

(* A blast does not stay in sending for ever, unless a delivery was        *)
(* orphaned or a cancelled blast was put back to sending.                  *)
BlastFinishes ==
  status = "sending" ~>
    (status # "sending" \/ \E r \in Recipients : Orphan(r) \/ row[r] = "cancelled")

(* What the comment in syncBlastStats says: never overwrite `cancelled`.   *)
SyncKeepsCancelled ==
  [][status = "cancelled" => status' # "sent"]_vars

(* What the comment on markDeliveryOptedOut says: a delivery is opted out  *)
(* because its subscriber unsubscribed.                                    *)
OptedOutUnsubscribed ==
  \A r \in Recipients : row[r] = "opted_out" => r \notin subscribed
=============================================================================
