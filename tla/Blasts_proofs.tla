---------------------------- MODULE Blasts_proofs ----------------------------
(***************************************************************************)
(* What Blasts guarantees for any recipients, any number of handlers in    *)
(* flight, retries and restarts, and in whichever shape the driver hands   *)
(* out its rows.                                                           *)
(***************************************************************************)
EXTENDS Blasts, TLAPS

(* Messages after a cancel are counted while the blast is cancelled, and   *)
(* the worker that has sent one does not begin another delivery.           *)
CancelSeen ==
  lateCancel > 0 => /\ lateCancel = 1
                    /\ status = "cancelled"
                    /\ worker.at \notin {"optout", "send"}

(* Likewise for a recipient who has opted out, and does not come back.     *)
OptOutSeen(r) ==
  lateOptOut[r] > 0 => /\ lateOptOut[r] = 1
                       /\ r \notin subscribed
                       /\ ~(worker.at = "send" /\ worker.now = r)

(* The worker is at a delivery of its batch when it asks, sends or marks.  *)
WorkerTrue ==
  worker.at \in {"optout", "send", "mark"} => worker.now \in Recipients

(* The inductive invariant.                                                *)
IInv ==
  /\ TypeOK
  /\ WorkerTrue
  /\ CancelSeen
  /\ \A r \in Recipients : OptOutSeen(r)

----------------------------------------------------------------------------
(* Types. *)

Tries == 0..(MaxRetries + 1)

(* The numbers a counter may be cut off at.                                *)
LEMMA UpToBounds ==
  ASSUME NEW limit \in Nat, NEW n \in Nat
  PROVE  UpTo(limit, n) \in 0..limit
  BY DEF UpTo

(* The blast gets a status, and the history of cancels goes on or begins   *)
(* anew with it.                                                           *)
LEMMA SetStatusSets ==
  ASSUME TypeOK, NEW s \in Statuses, SetStatus(s)
  PROVE  /\ status' \in Statuses
         /\ lateCancel' \in 0..2
         /\ lateCancel' = 0 \/ UNCHANGED <<status, lateCancel>>
  BY DEF TypeOK, SetStatus

(* Handlers begin, go on and end with requests.                            *)
LEMMA RequestTypes ==
  ASSUME TypeOK, NEW q, NEW p \in Request
  PROVE  /\ Start(p) => reqs' \subseteq Request
         /\ Become(q, p) => reqs' \subseteq Request
         /\ Finish(q) => reqs' \subseteq Request
  BY DEF TypeOK, Start, Become, Finish

(* The requests handlers begin with.                                       *)
LEMMA NewRequests ==
  ASSUME NEW kind \in Kinds, NEW phase \in {"read", "find", "rows", "write", "done"}
  PROVE  Req(kind, phase) \in Request
  BY BlastConstants DEF Req, Request, Statuses

(* A failure is recorded in the delivery's row.                            *)
LEMMA FailDeliverySets ==
  ASSUME TypeOK, NEW r \in Recipients, NEW n \in 0..MaxRetries, FailDelivery(r, n)
  PROVE  /\ row' \in [Recipients -> RowStates]
         /\ attempts' \in [Recipients -> 0..MaxRetries]
         /\ copies' \in [Recipients -> 0..2]
  <1>1. UpTo(MaxRetries, n + 1) \in 0..MaxRetries
    BY UpToBounds, BlastConstants
  <1>2. row' \in [Recipients -> RowStates]
    BY DEF TypeOK, FailDelivery, RowStates, Terminal
  <1> QED  BY <1>1, <1>2 DEF TypeOK, FailDelivery

(* Deliveries are reset.                                                   *)
LEMMA ResetRowsSets ==
  ASSUME TypeOK, NEW rs, NEW n, \A r \in rs : n[r] \in 0..MaxRetries, ResetRows(rs, n)
  PROVE  /\ row' \in [Recipients -> RowStates]
         /\ attempts' \in [Recipients -> 0..MaxRetries]
         /\ copies' \in [Recipients -> 0..2]
         /\ tries' \in [Recipients -> Tries]
  <1>1. \A r \in rs : UpTo(MaxRetries, n[r] + 1) \in 0..MaxRetries
    <2> SUFFICES ASSUME NEW r \in rs
                 PROVE  UpTo(MaxRetries, n[r] + 1) \in 0..MaxRetries
      OBVIOUS
    <2>1. n[r] + 1 \in Nat
      BY BlastConstants
    <2> QED  BY <2>1, UpToBounds, BlastConstants
  <1>2. attempts' \in [Recipients -> 0..MaxRetries]
    BY <1>1 DEF TypeOK, ResetRows
  <1>3. row' \in [Recipients -> RowStates]
    BY DEF TypeOK, ResetRows, RowStates
  <1>4. copies' \in [Recipients -> 0..2] /\ tries' \in [Recipients -> Tries]
    BY BlastConstants DEF TypeOK, ResetRows, Tries
  <1> QED  BY <1>2, <1>3, <1>4

(* The idle worker, and one that has done with a delivery.                 *)
LEMMA WorkerTypes ==
  ASSUME TypeOK
  PROVE  /\ Idle \in Worker /\ Idle.at = "idle"
         /\ [Idle EXCEPT !.at = "syncing"] \in Worker
         /\ [Idle EXCEPT !.at = "syncing"].at = "syncing"
         /\ StartSync => worker' \in Worker /\ worker'.at = "syncing" /\ reqs' \subseteq Request
         /\ NextDelivery => worker' \in Worker /\ worker'.at = "check"
  <1>1. Idle \in Worker /\ Idle.at = "idle"
    BY BlastConstants DEF Idle, Worker, WorkerAt
  <1>2. [Idle EXCEPT !.at = "syncing"] \in Worker /\ [Idle EXCEPT !.at = "syncing"].at = "syncing"
    BY <1>1 DEF Worker, WorkerAt
  <1>3. ASSUME StartSync
        PROVE  worker' \in Worker /\ worker'.at = "syncing" /\ reqs' \subseteq Request
    <2>1. Req("workerSync", "rows") \in Request
      BY NewRequests DEF Kinds
    <2> QED  BY <1>2, <1>3, <2>1, RequestTypes DEF StartSync
  <1>4. ASSUME NextDelivery  PROVE worker' \in Worker /\ worker'.at = "check"
    <2>1. worker \in Worker
      BY DEF TypeOK
    <2>2. [worker.drained EXCEPT ![worker.now] = 0] \in [Recipients -> 0..MaxRetries]
      <3>1. worker.drained \in [Recipients -> 0..MaxRetries]
        BY <2>1 DEF Worker
      <3>2. 0 \in 0..MaxRetries
        BY BlastConstants
      <3> QED  BY <3>1, <3>2
    <2> QED  BY <1>4, <2>1, <2>2 DEF NextDelivery, Worker, WorkerAt
  <1> QED  BY <1>1, <1>2, <1>3, <1>4

(* A step that only concerns handlers, or the world outside, keeps what is *)
(* known of late messages.                                                 *)
LEMMA QuietKeeps ==
  ASSUME IInv, TypeOK',
         lateCancel' = 0 \/ UNCHANGED <<status, lateCancel>>,
         UNCHANGED lateOptOut, subscribed' \subseteq subscribed,
         worker' = worker \/ worker'.at \notin {"optout", "send", "mark"}
  PROVE  IInv'
  <1>1. WorkerTrue'
    BY DEF IInv, WorkerTrue
  <1>2. CancelSeen'
    BY DEF IInv, CancelSeen
  <1>3. \A r \in Recipients : OptOutSeen(r)'
    BY DEF IInv, OptOutSeen
  <1> QED  BY <1>1, <1>2, <1>3 DEF IInv

(* A handler's step that leaves the deliveries and the worker alone.       *)
LEMMA StatusStepKeeps ==
  ASSUME IInv, status' \in Statuses, lateCancel' \in 0..2,
         lateCancel' = 0 \/ UNCHANGED <<status, lateCancel>>,
         reqs' \subseteq Request, adminRetries' \in 0..MaxAdmin,
         UNCHANGED <<row, attempts, subscribed, awaited, worker, crashes, copies, tries, lateOptOut>>
  PROVE  IInv'
  <1>1. TypeOK'
    BY DEF IInv, TypeOK
  <1> QED  BY <1>1, QuietKeeps DEF IInv

(* A handler's step that leaves the blast and the worker alone.            *)
LEMMA RowStepKeeps ==
  ASSUME IInv, row' \in [Recipients -> RowStates], attempts' \in [Recipients -> 0..MaxRetries],
         copies' \in [Recipients -> 0..2], tries' \in [Recipients -> Tries],
         awaited' \subseteq Recipients, subscribed' \subseteq subscribed, reqs' \subseteq Request,
         UNCHANGED <<status, worker, adminRetries, crashes, lateCancel, lateOptOut>>
  PROVE  IInv'
  <1>1. TypeOK'
    BY DEF IInv, TypeOK, Tries
  <1> QED  BY <1>1, QuietKeeps DEF IInv

(* What stays the same has its type.                                       *)
LEMMA TypesApart ==
  ASSUME IInv
  PROVE  /\ status \in Statuses /\ lateCancel \in 0..2 /\ adminRetries \in 0..MaxAdmin
         /\ row \in [Recipients -> RowStates] /\ attempts \in [Recipients -> 0..MaxRetries]
         /\ copies \in [Recipients -> 0..2] /\ tries \in [Recipients -> Tries]
         /\ awaited \subseteq Recipients /\ subscribed \subseteq Recipients
         /\ reqs \subseteq Request /\ worker \in Worker /\ TypeOK
  BY DEF IInv, TypeOK, Tries

----------------------------------------------------------------------------
(* Handlers. *)

(* Sending, scheduling, cancelling and reopening write the blast's status. *)
LEMMA StatusWritesKeep ==
  ASSUME IInv, NEW q,
         Send \/ ScheduleWrites(q) \/ CancelWrites(q) \/ RetryReopens(q)
  PROVE  IInv'
  <1>1. PICK s \in Statuses : SetStatus(s)
    BY DEF Send, ScheduleWrites, CancelWrites, RetryReopens, Statuses
  <1>2. /\ status' \in Statuses /\ lateCancel' \in 0..2
        /\ lateCancel' = 0 \/ UNCHANGED <<status, lateCancel>>
    BY <1>1, SetStatusSets DEF IInv
  <1>3. Req("expand", "read") \in Request
    BY NewRequests DEF Kinds
  <1>4. reqs' \subseteq Request
    BY <1>3, RequestTypes DEF IInv, Send, ScheduleWrites, CancelWrites, RetryReopens
  <1>5. UNCHANGED <<row, attempts, subscribed, awaited, worker, adminRetries, crashes, copies,
                    tries, lateOptOut>>
    BY DEF Send, ScheduleWrites, CancelWrites, RetryReopens
  <1> QED  BY <1>2, <1>4, <1>5, TypesApart, StatusStepKeeps

(* Handlers that only read.                                                *)
LEMMA ReadsKeep ==
  ASSUME IInv, NEW q \in reqs, ExpandReads(q) \/ RetryOneFinds(q) \/ SyncCounts(q) \/ SyncReads(q)
  PROVE  IInv'
  <1>1. q \in Request /\ TypeOK
    BY DEF IInv, TypeOK
  <1>2. UNCHANGED <<status, row, attempts, subscribed, awaited, worker, adminRetries, crashes,
                    copies, tries, lateCancel, lateOptOut>>
    BY DEF ExpandReads, RetryOneFinds, SyncCounts, SyncReads, tables, counts
  <1>3. \A p \in Request : Become(q, p) => reqs' \subseteq Request
    BY <1>1, RequestTypes
  <1>4. Finish(q) => reqs' \subseteq Request
    BY <1>1, RequestTypes
  <1>5. reqs' \subseteq Request
    <2>1. CASE ExpandReads(q)
      <3>1. [q EXCEPT !.phase = "rows", !.who = subscribed] \in Request
        BY <1>1, TypesApart DEF Request
      <3> QED  BY <1>3, <1>4, <2>1, <3>1 DEF ExpandReads
    <2>2. CASE RetryOneFinds(q)
      <3>1. \A r \in Recipients :
              [q EXCEPT !.phase = "rows", !.who = {r}, !.n = attempts[r]] \in Request
        BY <1>1, TypesApart DEF Request
      <3> QED  BY <1>3, <1>4, <2>2, <3>1 DEF RetryOneFinds
    <2>3. CASE SyncCounts(q)
      <3>1. \A b \in BOOLEAN : [q EXCEPT !.phase = "read", !.complete = b] \in Request
        BY <1>1, Zenon DEF Request
      <3> DEFINE b == \A r \in Recipients : row[r] \in Terminal \cup {"none"}
      <3>2. b \in BOOLEAN /\ Become(q, [q EXCEPT !.phase = "read", !.complete = b])
        BY <2>3 DEF SyncCounts
      <3> HIDE DEF b
      <3> QED  BY <1>3, <3>1, <3>2
    <2>4. CASE SyncReads(q)
      <3>1. [q EXCEPT !.phase = "write", !.read = status] \in Request
        BY <1>1, TypesApart DEF Request
      <3> QED  BY <1>3, <2>4, <3>1 DEF SyncReads
    <2> QED  BY <2>1, <2>2, <2>3, <2>4
  <1> QED  BY <1>2, <1>5, TypesApart, StatusStepKeeps

(* A handler that begins with the blast's status.                          *)
LEMMA AdminReadsKeeps ==
  ASSUME IInv, NEW kind \in AdminKinds, AdminReads(kind)
  PROVE  IInv'
  <1>1. adminRetries' \in 0..MaxAdmin
    BY TypesApart, BlastConstants DEF AdminReads, IInv, TypeOK
  <1>2. PICK phase \in {"read", "find", "rows", "write", "done"} :
          Start([Req(kind, phase) EXCEPT !.read = status])
    BY DEF AdminReads, AdminKinds
  <1>3. Req(kind, phase) \in Request
    BY NewRequests DEF AdminKinds, Kinds
  <1>4. [Req(kind, phase) EXCEPT !.read = status] \in Request
    BY <1>3, TypesApart DEF Request
  <1>5. reqs' \subseteq Request
    BY <1>2, <1>4, RequestTypes DEF IInv
  <1>6. UNCHANGED <<status, row, attempts, subscribed, awaited, worker, crashes, copies, tries,
                    lateCancel, lateOptOut>>
    BY DEF AdminReads, tables, counts
  <1> QED  BY <1>1, <1>5, <1>6, TypesApart, StatusStepKeeps

(* The expansion, a cancel and both retries write deliveries.              *)
LEMMA RowWritesKeep ==
  ASSUME IInv, NEW q \in reqs,
         ExpandInserts(q) \/ CancelRows(q) \/ RetryAllRows(q) \/ RetryOneRow(q)
  PROVE  IInv'
  <1>1. q \in Request /\ TypeOK
    BY DEF IInv, TypeOK
  <1>2. UNCHANGED <<status, worker, adminRetries, crashes, lateCancel, lateOptOut>>
        /\ UNCHANGED <<subscribed, awaited>>
    BY DEF ExpandInserts, CancelRows, RetryAllRows, RetryOneRow, KeepStatus
  <1>3. reqs' \subseteq Request
    <2>1. [q EXCEPT !.phase = "write"] \in Request
      BY <1>1 DEF Request
    <2>2. [q EXCEPT !.phase = "write", !.who = {}] \in Request
      BY <1>1 DEF Request
    <2>3. /\ Finish(q) => reqs' \subseteq Request
          /\ Become(q, [q EXCEPT !.phase = "write"]) => reqs' \subseteq Request
          /\ Become(q, [q EXCEPT !.phase = "write", !.who = {}]) => reqs' \subseteq Request
      BY <1>1, <2>1, <2>2, RequestTypes
    <2> QED  BY <2>3 DEF ExpandInserts, CancelRows, RetryAllRows, RetryOneRow
  <1>4. /\ row' \in [Recipients -> RowStates] /\ attempts' \in [Recipients -> 0..MaxRetries]
        /\ copies' \in [Recipients -> 0..2] /\ tries' \in [Recipients -> Tries]
    <2>1. CASE ExpandInserts(q)
      BY <2>1, TypesApart DEF ExpandInserts, RowStates
    <2>2. CASE CancelRows(q)
      BY <2>2, TypesApart DEF CancelRows, RowStates
    <2>3. CASE RetryAllRows(q)
      <3> DEFINE failed == {r \in Recipients : row[r] = "failed"}
      <3>1. ResetRows(failed, attempts)
        BY <2>3 DEF RetryAllRows
      <3>2. \A r \in failed : attempts[r] \in 0..MaxRetries
        BY <1>1 DEF TypeOK
      <3> HIDE DEF failed
      <3> QED  BY <1>1, <3>1, <3>2, ResetRowsSets
    <2>4. CASE RetryOneRow(q)
      <3> DEFINE found == {r \in q.who : row[r] # "none"}
                 n == [r \in q.who |-> q.n]
      <3>1. ResetRows(found, n)
        BY <2>4 DEF RetryOneRow
      <3>2. \A r \in found : n[r] \in 0..MaxRetries
        BY <1>1 DEF Request
      <3> HIDE DEF found, n
      <3> QED  BY <1>1, <3>1, <3>2, ResetRowsSets
    <2> QED  BY <2>1, <2>2, <2>3, <2>4
  <1> QED  BY <1>2, <1>3, <1>4, TypesApart, RowStepKeeps

(* The provider's reports are found and marked.                            *)
LEMMA ReportsKeep ==
  ASSUME IInv, NEW r \in Recipients, NEW q, NEW kind,
         \/ StatusFinds(kind, r)
         \/ q \in reqs /\ (StatusDelivered(q, r) \/ StatusFailed(q, r))
  PROVE  IInv'
  <1>1. TypeOK /\ (q \in reqs => q \in Request)
    BY DEF IInv, TypeOK
  <1>2. UNCHANGED <<status, worker, adminRetries, crashes, lateCancel, lateOptOut, subscribed, tries>>
    BY DEF StatusFinds, StatusDelivered, StatusFailed, KeepStatus, tables, counts
  <1>3. awaited' \subseteq Recipients
    BY TypesApart DEF StatusFinds, StatusDelivered, StatusFailed
  <1>4. /\ row' \in [Recipients -> RowStates] /\ attempts' \in [Recipients -> 0..MaxRetries]
        /\ copies' \in [Recipients -> 0..2]
    <2>1. CASE StatusFinds(kind, r)
      <3>1. row' = row /\ attempts' = attempts /\ copies' = copies
        BY <2>1 DEF StatusFinds, tables, counts
      <3> QED  BY <3>1, TypesApart
    <2>2. CASE q \in reqs /\ StatusDelivered(q, r)
      BY <2>2, TypesApart DEF StatusDelivered, RowStates, Terminal
    <2>3. CASE q \in reqs /\ StatusFailed(q, r)
      <3>1. q.n \in 0..MaxRetries
        BY <1>1, <2>3 DEF Request
      <3> QED  BY <1>1, <2>3, <3>1, FailDeliverySets DEF StatusFailed
    <2> QED  BY <2>1, <2>2, <2>3
  <1>5. reqs' \subseteq Request
    <2>1. CASE StatusFinds(kind, r)
      <3>1. Req(kind, "rows") \in Request
        BY <2>1, NewRequests DEF StatusFinds, Kinds
      <3>2. [Req(kind, "rows") EXCEPT !.who = {r}, !.n = attempts[r]] \in Request
        BY <3>1, TypesApart DEF Request
      <3> QED  BY <1>1, <2>1, <3>2, RequestTypes DEF StatusFinds
    <2>2. CASE q \in reqs /\ (StatusDelivered(q, r) \/ StatusFailed(q, r))
      <3>1. Req("sync", "rows") \in Request
        BY NewRequests DEF Kinds
      <3> QED  BY <1>1, <2>2, <3>1, RequestTypes DEF StatusDelivered, StatusFailed
    <2> QED  BY <2>1, <2>2
  <1> QED  BY <1>2, <1>3, <1>4, <1>5, TypesApart, RowStepKeeps

(* Recipients leave, backoffs elapse.                                      *)
LEMMA WorldKeeps ==
  ASSUME IInv, NEW r \in Recipients, OptOut(r) \/ BackoffElapses(r)
  PROVE  IInv'
  <1>1. UNCHANGED <<status, worker, adminRetries, crashes, lateCancel, lateOptOut, attempts, copies,
                    tries, awaited, reqs>>
    BY DEF OptOut, BackoffElapses, tables, counts
  <1>2. row' = row \/ row' = [row EXCEPT ![r] = "pending"]
    BY DEF OptOut, BackoffElapses, tables
  <1>3. row' \in [Recipients -> RowStates] /\ subscribed' \subseteq subscribed
    BY <1>2, TypesApart DEF OptOut, BackoffElapses, RowStates
  <1> QED  BY <1>1, <1>3, TypesApart, RowStepKeeps

(* Deleting the blast, writing a sync, and a restart.                      *)
LEMMA EndsKeep ==
  ASSUME IInv, NEW q, DeleteCommits(q) \/ SyncWrites(q) \/ Crash
  PROVE  IInv'
  <1>1. TypeOK
    BY DEF IInv
  <1>2. /\ status' \in Statuses /\ lateCancel' \in 0..2
        /\ lateCancel' = 0 \/ UNCHANGED <<status, lateCancel>>
    <2>1. CASE DeleteCommits(q)
      BY <1>1, <2>1, SetStatusSets DEF DeleteCommits, Statuses
    <2>2. CASE SyncWrites(q)
      BY <1>1, <2>2, SetStatusSets, TypesApart DEF SyncWrites, KeepStatus, Statuses
    <2>3. CASE Crash
      BY <2>3, TypesApart DEF Crash, tables, counts
    <2> QED  BY <2>1, <2>2, <2>3
  <1>3. worker' \in {worker, Idle}
    BY DEF DeleteCommits, SyncWrites, Crash
  <1>4. reqs' \subseteq Request
    BY TypesApart DEF DeleteCommits, SyncWrites, Crash, Finish
  <1>5. row' \in [Recipients -> RowStates] /\ awaited' \subseteq Recipients
    BY TypesApart DEF DeleteCommits, SyncWrites, Crash, tables, RowStates
  <1>6. UNCHANGED <<attempts, subscribed, adminRetries, copies, tries, lateOptOut>>
    BY DEF DeleteCommits, SyncWrites, Crash, tables, counts
  <1>7. crashes' \in 0..MaxCrashes
    BY <1>1, BlastConstants DEF DeleteCommits, SyncWrites, Crash, TypeOK
  <1>8. worker' \in Worker /\ (worker' = worker \/ worker'.at = "idle")
    BY <1>1, <1>3, TypesApart, WorkerTypes
  <1>9. TypeOK'
    BY <1>1, <1>2, <1>4, <1>5, <1>6, <1>7, <1>8 DEF TypeOK
  <1> QED  BY <1>2, <1>6, <1>8, <1>9, QuietKeeps

----------------------------------------------------------------------------
(* The delivery worker. *)

(* Polling and draining lead to no message by themselves.                  *)
LEMMA DrainKeeps ==
  ASSUME IInv, Poll \/ Drain
  PROVE  IInv'
  <1>1. worker \in Worker /\ TypeOK
    BY TypesApart
  <1>2. /\ worker' \in Worker /\ worker'.at \notin {"optout", "send", "mark"}
        /\ reqs' \subseteq Request
    <2>1. CASE Poll
      BY <1>1, <2>1, TypesApart DEF Poll, Worker, WorkerAt
    <2>2. CASE Drain /\ StartSync
      BY <1>1, <2>2, WorkerTypes
    <2>3. CASE Drain /\ ~StartSync
      <3>1. PICK due \in SUBSET Recipients :
              /\ worker' = [worker EXCEPT !.at = "check", !.batch = due,
                              !.drained = [r \in Recipients |-> IF r \in due THEN attempts[r] ELSE 0]]
              /\ UNCHANGED reqs
        BY <2>3 DEF Drain
      <3>2. [r \in Recipients |-> IF r \in due THEN attempts[r] ELSE 0]
              \in [Recipients -> 0..MaxRetries]
        BY TypesApart, BlastConstants
      <3> QED  BY <1>1, <3>1, <3>2, TypesApart DEF Worker, WorkerAt
    <2> QED  BY <2>1, <2>2, <2>3
  <1>3. row' \in [Recipients -> RowStates]
    BY TypesApart DEF Poll, Drain, tables, RowStates
  <1>4. UNCHANGED <<status, attempts, subscribed, awaited, adminRetries, crashes, copies, tries,
                    lateCancel, lateOptOut>>
    BY DEF Poll, Drain, KeepStatus, tables, counts
  <1>5. TypeOK'
    BY <1>1, <1>2, <1>3, <1>4 DEF TypeOK
  <1> QED  BY <1>2, <1>4, <1>5, QuietKeeps

(* A delivery is begun only under a blast that is still sending.           *)
LEMMA WorkerChecksKeeps ==
  ASSUME IInv, WorkerChecks
  PROVE  IInv'
  <1>1. worker \in Worker /\ TypeOK
    BY TypesApart
  <1>2. UNCHANGED <<status, row, attempts, subscribed, awaited, adminRetries, crashes, copies, tries,
                    lateCancel, lateOptOut>>
    BY DEF WorkerChecks, tables, counts
  <1>3. CASE StartSync \/ (worker' = Idle /\ UNCHANGED reqs)
    <2>1. /\ worker' \in Worker /\ worker'.at \notin {"optout", "send", "mark"}
          /\ reqs' \subseteq Request
      BY <1>1, <1>3, WorkerTypes, TypesApart
    <2>2. TypeOK'
      BY <1>1, <1>2, <2>1 DEF TypeOK
    <2> QED  BY <1>2, <2>1, <2>2, QuietKeeps
  <1>4. CASE /\ status = "sending" /\ UNCHANGED reqs
             /\ \E r \in worker.batch : worker' = [worker EXCEPT !.at = "optout", !.now = r]
    <2>1. PICK r \in Recipients : worker' = [worker EXCEPT !.at = "optout", !.now = r]
      BY <1>1, <1>4 DEF Worker
    <2>2. worker' \in Worker /\ worker'.at = "optout" /\ worker'.now = r
      BY <1>1, <2>1 DEF Worker, WorkerAt
    <2>3. TypeOK'
      BY <1>1, <1>2, <1>4, <2>2 DEF TypeOK
    <2>4. CancelSeen'
      BY <1>2, <1>4 DEF IInv, CancelSeen
    <2>5. WorkerTrue' /\ \A s \in Recipients : OptOutSeen(s)'
      BY <1>2, <2>2 DEF IInv, WorkerTrue, OptOutSeen
    <2> QED  BY <2>3, <2>4, <2>5 DEF IInv
  <1> QED  BY <1>3, <1>4 DEF WorkerChecks

(* It goes on only to a recipient who is subscribed.                       *)
LEMMA WorkerChecksOptOutKeeps ==
  ASSUME IInv, WorkerChecksOptOut
  PROVE  IInv'
  <1>1. worker \in Worker /\ TypeOK /\ worker.at = "optout" /\ worker.now \in Recipients
    BY TypesApart DEF WorkerChecksOptOut, IInv, WorkerTrue
  <1>2. UNCHANGED <<status, attempts, subscribed, awaited, reqs, adminRetries, crashes, copies, tries,
                    lateCancel, lateOptOut>>
    BY DEF WorkerChecksOptOut, KeepStatus
  <1>3. row' \in [Recipients -> RowStates]
    BY TypesApart DEF WorkerChecksOptOut, RowStates, Terminal
  <1>4. CASE NextDelivery
    <2>1. worker' \in Worker /\ worker'.at = "check"
      BY <1>1, <1>4, WorkerTypes
    <2>2. TypeOK'
      BY <1>1, <1>2, <1>3, <2>1 DEF TypeOK
    <2> QED  BY <1>2, <2>1, <2>2, QuietKeeps
  <1>5. CASE worker.now \in ActiveWhenAsked /\ worker' = [worker EXCEPT !.at = "send"]
    <2>1. worker' \in Worker /\ worker'.at = "send" /\ worker'.now = worker.now
      BY <1>1, <1>5 DEF Worker, WorkerAt
    <2>2. worker.now \in subscribed
      BY <1>5 DEF ActiveWhenAsked
    <2>3. TypeOK'
      BY <1>1, <1>2, <1>3, <2>1 DEF TypeOK
    <2>4. WorkerTrue' /\ CancelSeen'
      BY <1>1, <1>2, <2>1 DEF IInv, WorkerTrue, CancelSeen
    <2>5. \A r \in Recipients : OptOutSeen(r)'
      BY <1>2, <2>1, <2>2 DEF IInv, OptOutSeen
    <2> QED  BY <2>3, <2>4, <2>5 DEF IInv
  <1> QED  BY <1>4, <1>5 DEF WorkerChecksOptOut

(* The message in flight is the first that may be late.                    *)
LEMMA WorkerSendsKeeps ==
  ASSUME IInv, WorkerSends
  PROVE  IInv'
  <1>1. worker \in Worker /\ TypeOK /\ worker.at = "send"
    BY TypesApart DEF WorkerSends
  <1>2. PICK r \in Recipients : r = worker.now
    BY <1>1 DEF IInv, WorkerTrue
  <1>3. lateCancel = 0 /\ lateOptOut[r] = 0
    BY <1>1, <1>2 DEF IInv, TypeOK, CancelSeen, OptOutSeen
  <1>4. PICK accepted \in BOOLEAN, ok \in BOOLEAN :
          /\ worker' = [worker EXCEPT !.at = "mark", !.ok = ok]
          /\ tries' = [tries EXCEPT ![r] = UpTo(MaxRetries + 1, @ + 1)]
          /\ IF accepted
               THEN /\ copies' = [copies EXCEPT ![r] = UpTo(2, @ + 1)]
                    /\ lateCancel' = IF status = "cancelled" THEN UpTo(2, lateCancel + 1) ELSE 0
                    /\ lateOptOut' = IF r \in subscribed THEN lateOptOut
                                     ELSE [lateOptOut EXCEPT ![r] = UpTo(2, @ + 1)]
               ELSE UNCHANGED <<copies, lateCancel, lateOptOut>>
    BY <1>2 DEF WorkerSends
  <1>5. UNCHANGED <<status, row, attempts, subscribed, awaited, reqs, adminRetries, crashes>>
    BY DEF WorkerSends, tables
  <1>6. worker' \in Worker /\ worker'.at = "mark" /\ worker'.now = r
    <2>1. worker' = [worker EXCEPT !.at = "mark", !.ok = ok]
      BY <1>4
    <2>2. worker' \in Worker
      BY <1>1, <2>1, Zenon DEF Worker, WorkerAt
    <2> QED  BY <1>1, <1>2, <2>1, <2>2 DEF Worker
  <1>7. UpTo(2, 1) = 1
    BY DEF UpTo
  <1>8. lateCancel' \in {0, 1} /\ (lateCancel' = 1 => status' = "cancelled")
    BY <1>3, <1>4, <1>5, <1>7
  <1>9. /\ lateOptOut' \in [Recipients -> 0..2]
        /\ lateOptOut'[r] \in {0, 1} /\ (lateOptOut'[r] = 1 => r \notin subscribed)
        /\ \A s \in Recipients \ {r} : lateOptOut'[s] = lateOptOut[s]
    BY <1>1, <1>3, <1>4, <1>7 DEF TypeOK
  <1>10. tries' \in [Recipients -> Tries]
    <2>1. UpTo(MaxRetries + 1, tries[r] + 1) \in Tries
      <3>1. MaxRetries + 1 \in Nat /\ tries[r] + 1 \in Nat
        BY TypesApart, BlastConstants DEF Tries
      <3> QED  BY <3>1, UpToBounds DEF Tries
    <2> QED  BY <1>4, <2>1, TypesApart
  <1>11. copies' \in [Recipients -> 0..2]
    <2>1. UpTo(2, copies[r] + 1) \in 0..2
      <3>1. copies[r] + 1 \in Nat
        BY TypesApart
      <3> QED  BY <3>1, UpToBounds
    <2> QED  BY <1>4, <2>1, TypesApart
  <1>12. TypeOK'
    BY <1>1, <1>5, <1>6, <1>8, <1>9, <1>10, <1>11 DEF TypeOK, Tries
  <1>13. WorkerTrue' /\ CancelSeen'
    BY <1>6, <1>8 DEF WorkerTrue, CancelSeen
  <1>14. \A s \in Recipients : OptOutSeen(s)'
    BY <1>1, <1>5, <1>6, <1>9 DEF IInv, OptOutSeen
  <1> QED  BY <1>12, <1>13, <1>14 DEF IInv

(* What came of it is marked, and the worker checks again.                 *)
LEMMA WorkerMarksKeeps ==
  ASSUME IInv, WorkerMarks
  PROVE  IInv'
  <1>1. worker \in Worker /\ TypeOK
    BY TypesApart
  <1>2. PICK r \in Recipients : r = worker.now
    BY DEF IInv, WorkerTrue, WorkerMarks
  <1>3. UNCHANGED <<status, subscribed, reqs, adminRetries, crashes, tries, lateCancel, lateOptOut>>
    BY DEF WorkerMarks, KeepStatus
  <1>4. worker' \in Worker /\ worker'.at = "check"
    BY <1>1, WorkerTypes DEF WorkerMarks
  <1>5. /\ row' \in [Recipients -> RowStates] /\ attempts' \in [Recipients -> 0..MaxRetries]
        /\ copies' \in [Recipients -> 0..2] /\ awaited' \subseteq Recipients
    <2>1. CASE worker.ok
      <3>1. UpTo(MaxRetries, attempts[r] + 1) \in 0..MaxRetries
        <4>1. MaxRetries \in Nat /\ attempts[r] + 1 \in Nat
          BY TypesApart, BlastConstants
        <4> QED  BY <4>1, UpToBounds
      <3>2. /\ row' = [row EXCEPT ![r] = IF @ = "none" THEN @ ELSE "sent"]
            /\ attempts' = [attempts EXCEPT ![r] = UpTo(MaxRetries, @ + 1)]
            /\ awaited' = IF row[r] = "none" THEN awaited ELSE awaited \cup {r}
            /\ UNCHANGED copies
        BY <1>2, <2>1 DEF WorkerMarks
      <3> QED  BY <3>1, <3>2, TypesApart DEF RowStates, Terminal
    <2>2. CASE ~worker.ok
      <3>1. worker.drained[r] \in 0..MaxRetries
        BY <1>1 DEF Worker
      <3>2. FailDelivery(r, worker.drained[r]) /\ UNCHANGED awaited
        BY <1>2, <2>2 DEF WorkerMarks
      <3> QED  BY <1>1, <3>1, <3>2, FailDeliverySets, TypesApart
    <2> QED  BY <2>1, <2>2
  <1>6. TypeOK'
    BY <1>1, <1>3, <1>4, <1>5 DEF TypeOK
  <1> QED  BY <1>3, <1>4, <1>6, QuietKeeps

----------------------------------------------------------------------------
(* Theorems. *)

(* Nothing has been sent at the beginning.                                 *)
LEMMA InitIInv == Init => IInv
  <1> SUFFICES ASSUME Init  PROVE IInv
    OBVIOUS
  <1>1. worker \in Worker
    BY BlastConstants DEF Init, Idle, Worker, WorkerAt
  <1>2. TypeOK
    BY <1>1, BlastConstants DEF Init, TypeOK, Statuses, RowStates
  <1>3. WorkerTrue /\ CancelSeen /\ \A r \in Recipients : OptOutSeen(r)
    BY DEF Init, Idle, WorkerTrue, CancelSeen, OptOutSeen
  <1> QED  BY <1>2, <1>3 DEF IInv

(* Every step keeps the invariant.                                         *)
LEMMA NextIInv == IInv /\ [Next]_vars => IInv'
  <1> SUFFICES ASSUME IInv, [Next]_vars  PROVE IInv'
    OBVIOUS
  <1>1. CASE UNCHANGED vars
    <2>1. TypeOK'
      BY <1>1 DEF vars, IInv, TypeOK
    <2> QED  BY <1>1, <2>1, QuietKeeps DEF vars
  <1>2. CASE Send
    BY <1>2, StatusWritesKeep
  <1>3. ASSUME NEW kind \in AdminKinds, AdminReads(kind)  PROVE IInv'
    BY <1>3, AdminReadsKeeps
  <1>4. ASSUME NEW q \in reqs, HandlerStep(q)  PROVE IInv'
    <2>1. CASE ScheduleWrites(q) \/ CancelWrites(q) \/ RetryReopens(q)
      BY <2>1, StatusWritesKeep
    <2>2. CASE ExpandReads(q) \/ RetryOneFinds(q) \/ SyncCounts(q) \/ SyncReads(q)
      BY <2>2, ReadsKeep
    <2>3. CASE ExpandInserts(q) \/ CancelRows(q) \/ RetryAllRows(q) \/ RetryOneRow(q)
      BY <2>3, RowWritesKeep
    <2>4. CASE DeleteCommits(q) \/ SyncWrites(q)
      BY <2>4, EndsKeep
    <2>5. ASSUME NEW r \in Recipients, StatusDelivered(q, r) \/ StatusFailed(q, r)  PROVE IInv'
      BY <2>5, ReportsKeep
    <2> QED  BY <1>4, <2>1, <2>2, <2>3, <2>4, <2>5 DEF HandlerStep
  <1>5. CASE Poll \/ WorkerStep
    BY <1>5, DrainKeeps, WorkerChecksKeeps, WorkerChecksOptOutKeeps, WorkerSendsKeeps,
       WorkerMarksKeeps DEF WorkerStep
  <1>6. ASSUME NEW r \in Recipients, OptOut(r) \/ BackoffElapses(r)  PROVE IInv'
    BY <1>6, WorldKeeps
  <1>7. ASSUME NEW kind, NEW r \in Recipients, StatusFinds(kind, r)  PROVE IInv'
    BY <1>7, ReportsKeep
  <1>8. CASE Crash
    BY <1>8, EndsKeep
  <1> QED  BY <1>1, <1>2, <1>3, <1>4, <1>5, <1>6, <1>7, <1>8 DEF Next

(* The inductive invariant: after a message that went out too late, the    *)
(* delivery worker is at no further one.                                   *)
THEOREM InvHolds == Spec => []IInv
  BY InitIInv, NextIInv, PTL DEF Spec

(* Every reachable state has the declared types.                           *)
THEOREM TypeCorrect == Spec => []TypeOK
  <1>1. IInv => TypeOK
    BY DEF IInv
  <1> QED  BY <1>1, InvHolds, PTL

(* processBlastBatch lets at most the message in flight go out after a     *)
(* cancel, whatever retries, polls and restarts interleave.                *)
THEOREM CancelStopsSendingHolds == Spec => []CancelStopsSending
  <1>1. IInv => CancelStopsSending
    BY DEF IInv, TypeOK, CancelSeen, CancelStopsSending
  <1> QED  BY <1>1, InvHolds, PTL

(* At most the message in flight reaches somebody who has opted out.       *)
THEOREM OptOutStopsSendingHolds == Spec => []OptOutStopsSending
  <1>1. IInv => OptOutStopsSending
    BY DEF IInv, TypeOK, OptOutSeen, OptOutStopsSending
  <1> QED  BY <1>1, InvHolds, PTL
----------------------------------------------------------------------------
(* Who holds a delivery. *)

(* A webhook's handler that has found r's delivery and not yet marked it.  *)
Reports(q, r) == q \in reqs /\ q.kind \in {"delivered", "failed"} /\ r \in q.who
NoReport(r) == ~ \E q \in reqs : Reports(q, r)

(* Nobody is about to mark r's delivery.                                   *)
Quiet(r) == r \notin worker.batch /\ r \notin awaited /\ NoReport(r)

AtMark(r) == worker.at = "mark" /\ worker.now = r

(* At most one of the worker, the provider and one webhook's handler is.   *)
OneHolder(r) ==
  /\ r \in worker.batch => r \notin awaited /\ NoReport(r)
  /\ r \in awaited => NoReport(r)
  /\ \A q, p \in reqs : Reports(q, r) /\ Reports(p, r) => q = p

(* A delivery to be sent, or to be retried by an admin, is nobody's yet.   *)
Unsent(r) ==
  row[r] \in {"pending", "backoff", "failed"} => Quiet(r) /\ copies[r] = 0

(* Nor is one that the expansion may still insert.                         *)
Untouched(r) ==
  row[r] = "none" /\ status # "deleted" => Quiet(r) /\ copies[r] = 0 /\ tries[r] = 0

SentOnce(r) ==
  /\ copies[r] <= 1
  /\ r \in worker.batch /\ ~AtMark(r) => copies[r] = 0

(* Whoever marks a delivery next counts every send of it, and by the       *)
(* attempts that its row still has.                                        *)
Counted(r) ==
  /\ tries[r] <= MaxRetries
  /\ row[r] \in {"pending", "backoff"} => tries[r] < MaxRetries /\ tries[r] <= attempts[r]
  /\ r \in worker.batch =>
       /\ worker.drained[r] = attempts[r]
       /\ AtMark(r) => tries[r] <= attempts[r] + 1
       /\ ~AtMark(r) => tries[r] < MaxRetries /\ tries[r] <= attempts[r]
  /\ r \in awaited => tries[r] <= attempts[r]
  /\ \A q \in reqs : Reports(q, r) =>
       tries[r] <= attempts[r] /\ (q.kind = "failed" => q.n = attempts[r])

Once(r) == OneHolder(r) /\ Unsent(r) /\ Untouched(r) /\ SentOnce(r) /\ Counted(r)

(* The worker sends and marks deliveries of its batch.                     *)
NowInBatch == worker.at \in {"optout", "send", "mark"} => worker.now \in worker.batch

(* The inductive invariant, as long as single retries are fresh.           *)
Single == NowInBatch /\ \A r \in Recipients : Once(r)

(* The handler of a single retry resets the row it has found failed: no    *)
(* other retry has reset that row in between.                              *)
Fresh ==
  \A q \in reqs : q.kind = "retryOne" /\ q.phase = "rows" =>
    \A r \in q.who : row[r] \in {"failed", "none"}

(* What keeps a delivery's holder single in a step that is not about it:   *)
(* nobody takes it up, and its row is not made one to send.                *)
Apart(r) ==
  /\ \/ row'[r] = row[r]
     \/ row'[r] \notin {"pending", "backoff", "failed", "none"}
     \/ row'[r] = "none" /\ status' = "deleted"
  /\ attempts'[r] = attempts[r] /\ copies'[r] = copies[r] /\ tries'[r] = tries[r]
  /\ r \in worker'.batch => /\ r \in worker.batch
                            /\ worker'.drained[r] = worker.drained[r]
                            /\ AtMark(r)' <=> AtMark(r)
  /\ r \in awaited' => r \in awaited
  /\ \A q : Reports(q, r)' => Reports(q, r)

(* A blast that has been deleted stays so.                                 *)
StaysDeleted == status' # "deleted" => status # "deleted"

(* Such a step keeps it single.                                            *)
LEMMA ApartKeeps ==
  ASSUME NEW r \in Recipients, Once(r), Apart(r), StaysDeleted
  PROVE  Once(r)'
  <1>1. OneHolder(r)'
    BY DEF Once, Apart, OneHolder, NoReport, Reports
  <1>2. Quiet(r) => Quiet(r)'
    BY DEF Apart, Quiet, NoReport, Reports
  <1>3. Unsent(r)' /\ Untouched(r)'
    BY <1>2 DEF Once, Apart, Unsent, Untouched, StaysDeleted
  <1>4. SentOnce(r)'
    BY DEF Once, Apart, SentOnce
  <1>5. Counted(r)'
    <2>1. \A q \in reqs' : Reports(q, r)' => q \in reqs /\ Reports(q, r)
      BY DEF Apart, Reports
    <2> QED  BY <2>1 DEF Once, Apart, Counted
  <1> QED  BY <1>1, <1>3, <1>4, <1>5 DEF Once

(* Handlers that are not a webhook's report nothing.                       *)
LEMMA NoNewReports ==
  ASSUME NEW r, \A p \in reqs' : p \in reqs \/ p.kind \notin {"delivered", "failed"}
  PROVE  \A q : Reports(q, r)' => Reports(q, r)
  BY DEF Reports

(* Status changes never bring a deleted blast back.                        *)
LEMMA SetStatusKeepsDeleted ==
  ASSUME NEW s \in Statuses, SetStatus(s)
  PROVE  StaysDeleted
  BY DEF SetStatus, StaysDeleted

(* What a new handler reports, and what one goes on to report.             *)
LEMMA RequestKinds ==
  ASSUME NEW kind, NEW phase
  PROVE  Req(kind, phase).kind = kind
  BY DEF Req

(* A step of handlers other than webhooks' that leaves deliveries and the  *)
(* worker's batch alone.                                                   *)
LEMMA HandlerStepKeeps ==
  ASSUME Single, StaysDeleted, UNCHANGED <<row, attempts, copies, tries>>,
         awaited' \subseteq awaited,
         worker' = worker \/ (worker'.batch = {} /\ worker'.at \notin {"optout", "send", "mark"}),
         \A p \in reqs' : p \in reqs \/ p.kind \notin {"delivered", "failed"}
  PROVE  Single'
  <1>1. NowInBatch'
    BY DEF Single, NowInBatch
  <1>2. ASSUME NEW r \in Recipients  PROVE Once(r)'
    <2>1. Apart(r)
      BY NoNewReports DEF Apart, AtMark
    <2> QED  BY <2>1, ApartKeeps DEF Single
  <1> QED  BY <1>1, <1>2 DEF Single

(* Sending, scheduling, cancelling and reopening a blast.                  *)
LEMMA StatusWritesSingle ==
  ASSUME IInv, Single, NEW q, Send \/ ScheduleWrites(q) \/ CancelWrites(q) \/ RetryReopens(q)
  PROVE  Single'
  <1>1. PICK s \in Statuses : SetStatus(s)
    BY DEF Send, ScheduleWrites, CancelWrites, RetryReopens, Statuses
  <1>2. StaysDeleted
    BY <1>1, SetStatusKeepsDeleted
  <1>3. \A p \in reqs' : p \in reqs \/ p.kind \notin {"delivered", "failed"}
    BY RequestKinds DEF Send, ScheduleWrites, CancelWrites, RetryReopens, Start, Finish
  <1>4. UNCHANGED <<row, attempts, copies, tries, awaited, worker>>
    BY DEF Send, ScheduleWrites, CancelWrites, RetryReopens
  <1> QED  BY <1>2, <1>3, <1>4, HandlerStepKeeps

(* Handlers that only read.                                                *)
LEMMA ReadsSingle ==
  ASSUME IInv, Single, NEW q \in reqs,
         ExpandReads(q) \/ RetryOneFinds(q) \/ SyncCounts(q) \/ SyncReads(q)
  PROVE  Single'
  <1>1. UNCHANGED <<status, row, attempts, copies, tries, awaited, worker>> /\ StaysDeleted
    BY DEF ExpandReads, RetryOneFinds, SyncCounts, SyncReads, tables, counts, StaysDeleted
  <1>2. q \in Request /\ q.kind \notin {"delivered", "failed"}
    BY TypesApart DEF ExpandReads, RetryOneFinds, SyncCounts, SyncReads, SyncKinds
  <1>3. \A p \in reqs' : p \in reqs \/ p.kind = q.kind
    <2>1. CASE ExpandReads(q)
      <3>1. [q EXCEPT !.phase = "rows", !.who = subscribed].kind = q.kind
        BY <1>2 DEF Request
      <3> QED  BY <2>1, <3>1 DEF ExpandReads, Become, Finish
    <2>2. CASE RetryOneFinds(q)
      <3>1. \A r : [q EXCEPT !.phase = "rows", !.who = {r}, !.n = attempts[r]].kind = q.kind
        BY <1>2 DEF Request
      <3> QED  BY <2>2, <3>1 DEF RetryOneFinds, Become, Finish
    <2>3. CASE SyncCounts(q)
      <3> DEFINE b == \A r \in Recipients : row[r] \in Terminal \cup {"none"}
      <3>1. Become(q, [q EXCEPT !.phase = "read", !.complete = b])
        BY <2>3 DEF SyncCounts
      <3> HIDE DEF b
      <3>2. [q EXCEPT !.phase = "read", !.complete = b].kind = q.kind
        BY <1>2, Zenon DEF Request
      <3> QED  BY <3>1, <3>2 DEF Become
    <2>4. CASE SyncReads(q)
      BY <1>2, <2>4 DEF SyncReads, Become, Request
    <2> QED  BY <2>1, <2>2, <2>3, <2>4
  <1> QED  BY <1>1, <1>2, <1>3, HandlerStepKeeps

(* A handler that begins with the blast's status.                          *)
LEMMA AdminReadsSingle ==
  ASSUME IInv, Single, NEW kind \in AdminKinds, AdminReads(kind)
  PROVE  Single'
  <1>1. PICK phase \in {"read", "find", "rows", "write", "done"} :
          Start([Req(kind, phase) EXCEPT !.read = status])
    BY DEF AdminReads, AdminKinds
  <1>2. [Req(kind, phase) EXCEPT !.read = status].kind = kind
    BY DEF Req
  <1>3. \A p \in reqs' : p \in reqs \/ p.kind \notin {"delivered", "failed"}
    BY <1>1, <1>2 DEF Start, AdminKinds
  <1>4. UNCHANGED <<status, row, attempts, copies, tries, awaited, worker>> /\ StaysDeleted
    BY DEF AdminReads, tables, counts, StaysDeleted
  <1> QED  BY <1>3, <1>4, HandlerStepKeeps

(* Writing a sync, a restart, an opt-out, and the worker between batches.  *)
LEMMA EndsSingle ==
  ASSUME IInv, Single, NEW q, NEW r,
         SyncWrites(q) \/ Crash \/ OptOut(r) \/ UNCHANGED vars
  PROVE  Single'
  <1>1. UNCHANGED <<row, attempts, copies, tries, awaited>>
    BY DEF SyncWrites, Crash, OptOut, tables, counts, vars
  <1>2. worker' \in {worker, Idle} /\ reqs' \subseteq reqs
    BY DEF SyncWrites, Crash, OptOut, Finish, vars
  <1>3. Idle.batch = {} /\ Idle.at = "idle"
    BY DEF Idle
  <1>4. StaysDeleted
    BY SetStatusKeepsDeleted
       DEF SyncWrites, Crash, OptOut, tables, vars, KeepStatus, Statuses, StaysDeleted
  <1> QED  BY <1>1, <1>2, <1>3, <1>4, HandlerStepKeeps

(* A cancel writes no row anew, and deleting the blast ends its rows.      *)
LEMMA RowsEndSingle ==
  ASSUME IInv, Single, NEW q \in reqs, CancelRows(q) \/ DeleteCommits(q)
  PROVE  Single'
  <1>1. UNCHANGED <<attempts, copies, tries, worker>> /\ awaited' \subseteq awaited
    BY DEF CancelRows, DeleteCommits
  <1>2. \A p \in reqs' : p \in reqs \/ p.kind \notin {"delivered", "failed"}
    <2>1. q \in Request
      BY TypesApart
    <2> QED  BY <2>1 DEF CancelRows, DeleteCommits, Become, Finish, Request
  <1>3. StaysDeleted /\ \A r \in Recipients :
          \/ row'[r] = row[r] 
          \/ row'[r] = "cancelled"
          \/ row'[r] = "none" /\ status' = "deleted"
    BY DEF CancelRows, DeleteCommits, KeepStatus, SetStatus, StaysDeleted
  <1>4. NowInBatch'
    BY <1>1 DEF Single, NowInBatch
  <1>5. ASSUME NEW r \in Recipients  PROVE Once(r)'
    <2>1. Apart(r)
      BY <1>1, <1>2, <1>3, NoNewReports DEF Apart, AtMark
    <2> QED  BY <1>3, <2>1, ApartKeeps DEF Single
  <1> QED  BY <1>4, <1>5 DEF Single

(* A delivery becomes pending: nobody has it, and it has sends left.       *)
LEMMA PendingKeeps ==
  ASSUME NEW r \in Recipients, Once(r), Quiet(r), row'[r] = "pending",
         copies'[r] = 0, tries'[r] \in Nat, attempts'[r] \in Nat,
         tries'[r] < MaxRetries, tries'[r] <= attempts'[r],
         UNCHANGED <<awaited, worker>>, \A q : Reports(q, r)' => Reports(q, r)
  PROVE  Once(r)'
  <1>1. Quiet(r)'
    BY DEF Quiet, NoReport, Reports
  <1>2. r \notin worker'.batch /\ r \notin awaited' /\ \A q : ~Reports(q, r)'
    BY <1>1 DEF Quiet, NoReport, Reports
  <1>3. OneHolder(r)' /\ Unsent(r)' /\ Untouched(r)' /\ SentOnce(r)'
    BY <1>1, <1>2 DEF OneHolder, Unsent, Untouched, SentOnce
  <1>4. Counted(r)'
    BY <1>2, BlastConstants DEF Counted
  <1> QED  BY <1>3, <1>4 DEF Once

(* The expansion inserts what no row is for, both retries reset what has   *)
(* failed: none of it is anybody's.                                        *)
LEMMA RowsBecomePendingSingle ==
  ASSUME IInv, Single, Fresh, NEW q \in reqs,
         ExpandInserts(q) \/ RetryAllRows(q) \/ RetryOneRow(q)
  PROVE  Single'
  <1>1. UNCHANGED <<status, worker, awaited>> /\ StaysDeleted
    BY DEF ExpandInserts, RetryAllRows, RetryOneRow, KeepStatus, StaysDeleted
  <1>2. \A p \in reqs' : p \in reqs \/ p.kind \notin {"delivered", "failed"}
    <2>1. q \in Request
      BY TypesApart
    <2>2. /\ [q EXCEPT !.phase = "write"].kind = q.kind
          /\ [q EXCEPT !.phase = "write", !.who = {}].kind = q.kind
      BY <2>1 DEF Request
    <2> QED  BY <2>2 DEF ExpandInserts, RetryAllRows, RetryOneRow, Become, Finish
  <1>3. \A r \in Recipients :
          \/ row'[r] = row[r] /\ attempts'[r] = attempts[r] /\ copies'[r] = copies[r]
                              /\ tries'[r] = tries[r]
          \/ /\ row[r] = "none" /\ status # "deleted"
             /\ row'[r] = "pending"
             /\ UNCHANGED <<attempts, copies, tries>>
          \/ /\ row[r] = "failed"
             /\ row'[r] = "pending" /\ copies'[r] = 0 /\ tries'[r] = 0
    <2>1. CASE ExpandInserts(q)
      BY <2>1 DEF ExpandInserts
    <2>2. CASE RetryAllRows(q)
      BY <2>2, TypesApart DEF RetryAllRows, ResetRows
    <2>3. CASE RetryOneRow(q)
      <3>1. \A r \in q.who : row[r] \in {"failed", "none"}
        BY <2>3 DEF RetryOneRow, Fresh
      <3> QED  BY <2>3, <3>1, TypesApart DEF RetryOneRow, ResetRows
    <2> QED  BY <2>1, <2>2, <2>3
  <1>4. attempts' \in [Recipients -> 0..MaxRetries] /\ tries' \in [Recipients -> Tries]
    BY RowWritesKeep, TypesApart DEF IInv, TypeOK, Tries
  <1>5. NowInBatch'
    BY <1>1 DEF Single, NowInBatch
  <1>6. ASSUME NEW r \in Recipients  PROVE Once(r)'
    <2>1. Once(r) /\ \A p : Reports(p, r)' => Reports(p, r)
      BY <1>2, NoNewReports DEF Single
    <2>2. attempts'[r] \in Nat /\ tries'[r] \in Nat
      BY <1>4, BlastConstants DEF Tries
    <2>3. CASE /\ row'[r] = row[r] /\ attempts'[r] = attempts[r] /\ copies'[r] = copies[r]
               /\ tries'[r] = tries[r]
      <3>1. Apart(r)
        BY <1>1, <2>1, <2>3 DEF Apart, AtMark
      <3> QED  BY <1>1, <2>1, <3>1, ApartKeeps
    <2>4. CASE /\ row[r] = "none" /\ status # "deleted"
               /\ row'[r] = "pending"
               /\ UNCHANGED <<attempts, copies, tries>>
      <3>1. Quiet(r) /\ copies[r] = 0 /\ tries[r] = 0
        BY <2>1, <2>4 DEF Once, Untouched
      <3>2. tries'[r] < MaxRetries /\ tries'[r] <= attempts'[r]
        BY <2>2, <2>4, <3>1, BlastConstants
      <3> QED  BY <1>1, <2>1, <2>2, <2>4, <3>1, <3>2, PendingKeeps
    <2>5. CASE /\ row[r] = "failed"
               /\ row'[r] = "pending" /\ copies'[r] = 0 /\ tries'[r] = 0
      <3>1. Quiet(r)
        BY <2>1, <2>5 DEF Once, Unsent
      <3>2. tries'[r] < MaxRetries /\ tries'[r] <= attempts'[r]
        BY <2>2, <2>5, BlastConstants
      <3> QED  BY <1>1, <2>1, <2>2, <2>5, <3>1, <3>2, PendingKeeps
    <2> QED  BY <1>3, <2>3, <2>4, <2>5
  <1> QED  BY <1>5, <1>6 DEF Single

(* A delivery whose backoff elapses is nobody's, and has a send left.      *)
LEMMA BackoffSingle ==
  ASSUME IInv, Single, NEW b \in Recipients, BackoffElapses(b)
  PROVE  Single'
  <1>1. UNCHANGED <<status, worker, awaited, attempts, copies, tries, reqs>> /\ StaysDeleted
    BY DEF BackoffElapses, counts, StaysDeleted
  <1>2. NowInBatch'
    BY <1>1 DEF Single, NowInBatch
  <1>3. ASSUME NEW r \in Recipients  PROVE Once(r)'
    <2>1. Once(r) /\ \A p : Reports(p, r)' => Reports(p, r)
      BY <1>1 DEF Single, Reports
    <2>2. CASE r = b
      <3>1. row[r] = "backoff" /\ row'[r] = "pending"
        BY <2>2, TypesApart DEF BackoffElapses
      <3>2. Quiet(r) /\ copies[r] = 0 /\ tries[r] < MaxRetries /\ tries[r] <= attempts[r]
        BY <2>1, <3>1 DEF Once, Unsent, Counted
      <3>3. tries[r] \in Nat /\ attempts[r] \in Nat
        BY TypesApart, BlastConstants DEF Tries
      <3> QED  BY <1>1, <2>1, <3>1, <3>2, <3>3, PendingKeeps
    <2>3. CASE r # b
      <3>1. Apart(r)
        BY <1>1, <2>1, <2>3 DEF BackoffElapses, Apart, AtMark
      <3> QED  BY <1>1, <2>1, <3>1, ApartKeeps
    <2> QED  BY <2>2, <2>3
  <1> QED  BY <1>2, <1>3 DEF Single

(* The worker's moves that claim nothing and mark nothing.                 *)
LEMMA WorkerMovesSingle ==
  ASSUME IInv, Single, Poll \/ WorkerChecks
  PROVE  Single'
  <1>1. UNCHANGED <<status, row, attempts, copies, tries, awaited>> /\ StaysDeleted
    BY DEF Poll, WorkerChecks, tables, counts, StaysDeleted
  <1>2. \A p \in reqs' : p \in reqs \/ p.kind \notin {"delivered", "failed"}
    <2>1. StartSync => \A p \in reqs' : p \in reqs \/ p.kind \notin {"delivered", "failed"}
      BY RequestKinds DEF StartSync, Start
    <2>2. StartSync \/ UNCHANGED reqs
      BY DEF Poll, WorkerChecks
    <2> QED  BY <2>1, <2>2
  <1>3. worker \in Worker
    BY TypesApart
  <1>4. /\ worker.at # "mark" /\ worker'.at \notin {"send", "mark"}
        /\ \/ worker'.batch = {} /\ worker'.at # "optout"
           \/ /\ worker'.batch = worker.batch /\ worker'.drained = worker.drained
              /\ worker'.at = "optout" => worker'.now \in worker.batch
    <2>1. worker.at # "mark"
      BY DEF Poll, WorkerChecks
    <2>2. CASE Poll
      BY <1>3, <2>1, <2>2 DEF Poll, Worker
    <2>3. CASE StartSync \/ worker' = Idle
      BY <2>1, <2>3 DEF StartSync, Idle
    <2>4. ASSUME NEW r \in worker.batch, worker' = [worker EXCEPT !.at = "optout", !.now = r]
          PROVE  /\ worker'.at = "optout" /\ worker'.now \in worker.batch
                 /\ worker'.batch = worker.batch /\ worker'.drained = worker.drained
      BY <1>3, <2>4 DEF Worker
    <2> QED  BY <2>1, <2>2, <2>3, <2>4 DEF WorkerChecks
  <1>5. NowInBatch'
    BY <1>4 DEF NowInBatch
  <1>6. ASSUME NEW r \in Recipients  PROVE Once(r)'
    <2>1. Apart(r)
      BY <1>1, <1>2, <1>4, NoNewReports DEF Apart, AtMark
    <2> QED  BY <1>1, <2>1, ApartKeeps DEF Single
  <1> QED  BY <1>5, <1>6 DEF Single

(* A delivery that is due is claimed before anybody else has it, with the  *)
(* attempts its row has.                                                   *)
LEMMA DrainSingle ==
  ASSUME IInv, Single, Drain
  PROVE  Single'
  <1> DEFINE due == {r \in Recipients : row[r] = "pending"}
  <1>1. UNCHANGED <<status, attempts, copies, tries, awaited>> /\ StaysDeleted
    BY DEF Drain, KeepStatus, StaysDeleted
  <1>2. \A p \in reqs' : p \in reqs \/ p.kind \notin {"delivered", "failed"}
    BY RequestKinds DEF Drain, StartSync, Start
  <1>3. worker \in Worker /\ worker.at = "drain"
    BY TypesApart DEF Drain
  <1>4. \/ due = {} /\ worker'.batch = {} /\ worker'.at = "syncing"
        \/ /\ worker'.batch = due /\ worker'.at = "check"
           /\ worker'.drained = [r \in Recipients |-> IF r \in due THEN attempts[r] ELSE 0]
    BY <1>3 DEF Drain, StartSync, Idle, Worker
  <1>5. row' = [r \in Recipients |-> IF r \in due THEN "sending" ELSE row[r]]
    BY DEF Drain
  <1>6. NowInBatch'
    BY <1>4 DEF NowInBatch
  <1>7. ASSUME NEW r \in Recipients  PROVE Once(r)'
    <2>1. Once(r) /\ (\A p : Reports(p, r)' => Reports(p, r)) /\ ~AtMark(r)'
      BY <1>2, <1>4, NoNewReports DEF Single, AtMark
    <2>2. CASE r \in due
      <3>1. row'[r] = "sending" /\ r \in worker'.batch /\ worker'.drained[r] = attempts'[r]
        BY <1>1, <1>4, <1>5, <2>2
      <3>2. /\ Quiet(r) /\ copies[r] = 0
            /\ tries[r] < MaxRetries /\ tries[r] <= attempts[r] /\ tries[r] <= MaxRetries
        BY <2>1, <2>2 DEF Once, Unsent, Counted
      <3>3. r \notin awaited' /\ \A p : ~Reports(p, r)'
        BY <1>1, <2>1, <3>2 DEF Quiet, NoReport, Reports
      <3>4. OneHolder(r)' /\ Unsent(r)' /\ Untouched(r)' /\ SentOnce(r)'
        BY <1>1, <2>1, <3>1, <3>2, <3>3 DEF OneHolder, Unsent, Untouched, SentOnce, NoReport
      <3>5. Counted(r)'
        BY <1>1, <2>1, <3>1, <3>2, <3>3 DEF Counted
      <3> QED  BY <3>4, <3>5 DEF Once
    <2>3. CASE r \notin due
      <3>1. Apart(r)
        BY <1>1, <1>4, <1>5, <2>1, <2>3 DEF Apart
      <3> QED  BY <1>1, <2>1, <3>1, ApartKeeps
    <2> QED  BY <2>2, <2>3
  <1> QED  BY <1>6, <1>7 DEF Single

(* The worker lets go of the delivery it is done with.                     *)
LEMMA NextDeliveryLetsGo ==
  ASSUME IInv, NextDelivery
  PROVE  /\ worker'.at = "check" /\ worker'.batch = worker.batch \ {worker.now}
         /\ \A r \in Recipients : r # worker.now => worker'.drained[r] = worker.drained[r]
  <1>1. worker \in Worker /\ worker.drained \in [Recipients -> 0..MaxRetries]
    BY TypesApart DEF Worker
  <1> QED  BY <1>1 DEF NextDelivery, Worker

(* A delivery is sent only after the worker has asked for its subscriber.  *)
LEMMA WorkerChecksOptOutSingle ==
  ASSUME IInv, Single, WorkerChecksOptOut
  PROVE  Single'
  <1>1. UNCHANGED <<status, attempts, copies, tries, awaited, reqs>> /\ StaysDeleted
    BY DEF WorkerChecksOptOut, KeepStatus, StaysDeleted
  <1>2. PICK n \in Recipients : n = worker.now
    BY DEF IInv, WorkerTrue, WorkerChecksOptOut
  <1>3. worker \in Worker /\ worker.at = "optout" /\ n \in worker.batch
    BY <1>2, TypesApart DEF WorkerChecksOptOut, Single, NowInBatch
  <1>4. CASE NextDelivery /\ row' = [row EXCEPT ![n] = IF @ = "none" THEN @ ELSE "opted_out"]
    <2>1. NowInBatch'
      BY <1>4, NextDeliveryLetsGo DEF NowInBatch
    <2>2. ASSUME NEW r \in Recipients  PROVE Once(r)'
      <3>1. row'[r] = row[r] \/ row'[r] = "opted_out"
        BY <1>4, TypesApart
      <3>2. Apart(r)
        BY <1>1, <1>2, <1>3, <1>4, <3>1, NextDeliveryLetsGo DEF Apart, AtMark, Reports
      <3> QED  BY <1>1, <3>2, ApartKeeps DEF Single
    <2> QED  BY <2>1, <2>2 DEF Single
  <1>5. CASE worker' = [worker EXCEPT !.at = "send"] /\ UNCHANGED row
    <2>1. /\ worker'.at = "send" /\ worker'.now = worker.now /\ worker'.batch = worker.batch
          /\ worker'.drained = worker.drained
      BY <1>3, <1>5 DEF Worker
    <2>2. NowInBatch'
      BY <1>2, <1>3, <2>1 DEF NowInBatch
    <2>3. ASSUME NEW r \in Recipients  PROVE Once(r)'
      <3>1. Apart(r)
        BY <1>1, <1>3, <1>5, <2>1 DEF Apart, AtMark, Reports
      <3> QED  BY <1>1, <3>1, ApartKeeps DEF Single
    <2> QED  BY <2>2, <2>3 DEF Single
  <1> QED  BY <1>2, <1>4, <1>5 DEF WorkerChecksOptOut

(* A message is sent from a delivery whose copy had not been sent.         *)
LEMMA WorkerSendsSingle ==
  ASSUME IInv, Single, WorkerSends
  PROVE  Single'
  <1>1. UNCHANGED <<status, row, attempts, awaited, reqs>> /\ StaysDeleted
    BY DEF WorkerSends, tables, StaysDeleted
  <1>2. PICK n \in Recipients : n = worker.now
    BY DEF IInv, WorkerTrue, WorkerSends
  <1>3. worker \in Worker /\ worker.at = "send" /\ n \in worker.batch
    BY <1>2, TypesApart DEF WorkerSends, Single, NowInBatch
  <1>4. /\ worker'.at = "mark" /\ worker'.now = n /\ worker'.batch = worker.batch
        /\ worker'.drained = worker.drained
    <2>1. PICK ok \in BOOLEAN : worker' = [worker EXCEPT !.at = "mark", !.ok = ok]
      BY DEF WorkerSends
    <2> QED  BY <1>2, <1>3, <2>1, Zenon DEF Worker
  <1>5. /\ tries' = [tries EXCEPT ![n] = UpTo(MaxRetries + 1, @ + 1)]
        /\ copies' = copies \/ copies' = [copies EXCEPT ![n] = UpTo(2, @ + 1)]
    BY <1>2 DEF WorkerSends
  <1>6. NowInBatch'
    BY <1>3, <1>4 DEF NowInBatch
  <1>7. ASSUME NEW r \in Recipients  PROVE Once(r)'
    <2>1. Once(r) /\ (\A p : Reports(p, r)' <=> Reports(p, r)) /\ ~AtMark(r)
      BY <1>1, <1>3 DEF Single, Reports, AtMark
    <2>2. CASE r = n
      <3>1. /\ r \in worker.batch /\ r \in worker'.batch /\ AtMark(r)'
            /\ copies[r] = 0 /\ tries[r] < MaxRetries /\ tries[r] <= attempts[r]
            /\ worker.drained[r] = attempts[r]
            /\ r \notin awaited /\ \A p : ~Reports(p, r)
        BY <1>3, <1>4, <2>1, <2>2 DEF Once, SentOnce, Counted, OneHolder, NoReport, AtMark, Reports
      <3>2. row[r] \notin {"pending", "backoff", "failed"} /\ (row[r] = "none" => status = "deleted")
        BY <2>1, <3>1 DEF Once, Unsent, Untouched, Quiet
      <3>3. tries[r] \in Nat /\ attempts[r] \in Nat /\ MaxRetries \in Nat
        BY TypesApart, BlastConstants DEF Tries
      <3>4. tries'[r] = tries[r] + 1
        <4>1. UpTo(MaxRetries + 1, tries[r] + 1) = tries[r] + 1
          BY <3>1, <3>3 DEF UpTo
        <4> QED  BY <1>5, <2>2, <4>1, TypesApart
      <3>5. copies'[r] \in {0, 1}
        <4>1. UpTo(2, 0 + 1) = 1
          BY DEF UpTo
        <4> QED  BY <1>5, <2>2, <3>1, <4>1, TypesApart
      <3>6. OneHolder(r)' /\ Unsent(r)' /\ Untouched(r)' /\ SentOnce(r)'
        BY <1>1, <2>1, <3>1, <3>2, <3>5 DEF OneHolder, Unsent, Untouched, SentOnce, NoReport
      <3>7. tries'[r] <= MaxRetries /\ tries'[r] <= attempts[r] + 1
        BY <3>1, <3>3, <3>4
      <3>8. Counted(r)'
        BY <1>1, <1>4, <2>1, <3>1, <3>2, <3>7 DEF Counted
      <3> QED  BY <3>6, <3>8 DEF Once
    <2>3. CASE r # n
      <3>1. tries'[r] = tries[r] /\ copies'[r] = copies[r]
        BY <1>5, <2>3, TypesApart
      <3>2. Apart(r)
        BY <1>1, <1>4, <2>1, <2>3, <3>1 DEF Apart, AtMark
      <3> QED  BY <1>1, <2>1, <3>2, ApartKeeps
    <2> QED  BY <2>2, <2>3
  <1> QED  BY <1>6, <1>7 DEF Single

(* A failure recorded by whoever alone had the delivery, with the attempts *)
(* of its row, makes it due again only if it has sends left.               *)
LEMMA FailureKeeps ==
  ASSUME IInv, NEW r \in Recipients, FailDelivery(r, attempts[r]),
         Quiet(r)', StaysDeleted, UNCHANGED <<status, tries>>,
         row[r] = "none" => status = "deleted",
         tries[r] <= MaxRetries, tries[r] <= attempts[r] + 1
  PROVE  Once(r)'
  <1>1. /\ tries[r] \in Nat /\ attempts[r] \in 0..MaxRetries /\ attempts[r] \in Nat
        /\ MaxRetries \in Nat
    BY TypesApart, BlastConstants DEF Tries
  <1>2. /\ row'[r] = IF row[r] = "none" THEN "none"
                     ELSE IF attempts[r] + 1 >= MaxRetries THEN "failed" ELSE "backoff"
        /\ attempts'[r] = UpTo(MaxRetries, attempts[r] + 1)
        /\ copies'[r] = 0
    BY TypesApart DEF FailDelivery
  <1>3. /\ r \notin worker'.batch /\ r \notin awaited' /\ \A q : ~Reports(q, r)'
        /\ NoReport(r)'
    BY DEF Quiet, NoReport, Reports
  <1>4. OneHolder(r)' /\ Unsent(r)' /\ SentOnce(r)'
    BY <1>2, <1>3 DEF OneHolder, Unsent, SentOnce
  <1>5. Untouched(r)'
    <2>1. row'[r] = "none" => status' = "deleted"
      BY <1>2
    <2> QED  BY <2>1 DEF Untouched
  <1>6. row'[r] \in {"pending", "backoff"} =>
          tries'[r] < MaxRetries /\ tries'[r] <= attempts'[r]
    <2>1. CASE row'[r] = "backoff"
      <3>1. attempts[r] + 1 < MaxRetries
        BY <1>1, <1>2, <2>1
      <3>2. attempts'[r] = attempts[r] + 1
        BY <1>1, <1>2, <3>1 DEF UpTo
      <3> QED  BY <1>1, <3>1, <3>2
    <2>2. CASE row'[r] # "backoff"
      BY <1>2, <2>2
    <2> QED  BY <2>1, <2>2
  <1>7. Counted(r)'
    BY <1>3, <1>6 DEF Counted
  <1> QED  BY <1>4, <1>5, <1>7 DEF Once

(* What came of a send is marked by the only one that has the delivery.    *)
LEMMA WorkerMarksSingle ==
  ASSUME IInv, Single, WorkerMarks
  PROVE  Single'
  <1>1. UNCHANGED <<status, reqs, tries>> /\ StaysDeleted
    BY DEF WorkerMarks, KeepStatus, StaysDeleted
  <1>2. PICK n \in Recipients : n = worker.now
    BY DEF IInv, WorkerTrue, WorkerMarks
  <1>3. worker.at = "mark" /\ n \in worker.batch /\ AtMark(n)
    BY <1>2 DEF WorkerMarks, Single, NowInBatch, AtMark
  <1>4. /\ worker'.at = "check" /\ worker'.batch = worker.batch \ {n}
        /\ \A r \in Recipients : r # n => worker'.drained[r] = worker.drained[r]
    BY <1>2, NextDeliveryLetsGo DEF WorkerMarks
  <1>5. \/ /\ row' = [row EXCEPT ![n] = IF @ = "none" THEN @ ELSE "sent"]
           /\ attempts' = [attempts EXCEPT ![n] = UpTo(MaxRetries, @ + 1)]
           /\ awaited' = IF row[n] = "none" THEN awaited ELSE awaited \cup {n}
           /\ UNCHANGED copies
        \/ FailDelivery(n, worker.drained[n]) /\ UNCHANGED awaited
    BY <1>2 DEF WorkerMarks
  <1>6. NowInBatch'
    BY <1>4 DEF NowInBatch
  <1>7. ASSUME NEW r \in Recipients  PROVE Once(r)'
    <2>1. Once(r) /\ \A p : Reports(p, r)' <=> Reports(p, r)
      BY <1>1 DEF Single, Reports
    <2>2. CASE r = n
      <3>1. /\ r \in worker.batch /\ AtMark(r) /\ r \notin worker'.batch
            /\ copies[r] <= 1 /\ tries[r] <= MaxRetries /\ tries[r] <= attempts[r] + 1
            /\ worker.drained[r] = attempts[r]
            /\ r \notin awaited /\ \A p : ~Reports(p, r)
        BY <1>3, <1>4, <2>1, <2>2 DEF Once, SentOnce, Counted, OneHolder, NoReport, Reports
      <3>2. row[r] = "none" => status = "deleted"
        BY <2>1, <3>1 DEF Once, Untouched, Quiet
      <3>3. ~AtMark(r)' /\ NoReport(r)'
        BY <1>4, <2>1, <3>1 DEF AtMark, NoReport
      <3>4. CASE /\ row' = [row EXCEPT ![n] = IF @ = "none" THEN @ ELSE "sent"]
                 /\ attempts' = [attempts EXCEPT ![n] = UpTo(MaxRetries, @ + 1)]
                 /\ awaited' = IF row[n] = "none" THEN awaited ELSE awaited \cup {n}
                 /\ UNCHANGED copies
        <4>1. /\ row'[r] \in {"none", "sent"} /\ (row'[r] = "none" => status' = "deleted")
              /\ attempts'[r] = UpTo(MaxRetries, attempts[r] + 1)
          BY <1>1, <2>2, <3>2, <3>4, TypesApart
        <4>2. tries[r] \in Nat /\ attempts[r] \in Nat /\ MaxRetries \in Nat
          BY TypesApart, BlastConstants DEF Tries
        <4>3. tries[r] <= attempts'[r]
          BY <3>1, <4>1, <4>2 DEF UpTo
        <4>4. OneHolder(r)' /\ Unsent(r)' /\ Untouched(r)' /\ SentOnce(r)'
          BY <1>1, <2>1, <3>1, <3>3, <3>4, <4>1 DEF OneHolder, Unsent, Untouched, SentOnce
        <4>5. Counted(r)'
          BY <1>1, <2>1, <3>1, <4>1, <4>3 DEF Counted
        <4> QED  BY <4>4, <4>5 DEF Once
      <3>5. CASE FailDelivery(n, worker.drained[n]) /\ UNCHANGED awaited
        <4>1. FailDelivery(r, attempts[r]) /\ Quiet(r)'
          BY <2>2, <3>1, <3>3, <3>5 DEF Quiet
        <4> QED  BY <1>1, <3>1, <3>2, <4>1, FailureKeeps
      <3> QED  BY <1>5, <3>4, <3>5
    <2>3. CASE r # n
      <3>1. /\ row'[r] = row[r] /\ attempts'[r] = attempts[r] /\ copies'[r] = copies[r]
            /\ r \in awaited' => r \in awaited
        BY <1>5, <2>3, TypesApart DEF FailDelivery
      <3>2. Apart(r)
        BY <1>1, <1>2, <1>3, <1>4, <2>1, <2>3, <3>1 DEF Apart, AtMark
      <3> QED  BY <1>1, <2>1, <3>2, ApartKeeps
    <2> QED  BY <2>2, <2>3
  <1> QED  BY <1>6, <1>7 DEF Single

(* The provider's report is handed to one handler, with the attempts read. *)
LEMMA StatusFindsSingle ==
  ASSUME IInv, Single, NEW kind, NEW n \in Recipients, StatusFinds(kind, n)
  PROVE  Single'
  <1> DEFINE p == [Req(kind, "rows") EXCEPT !.who = {n}, !.n = attempts[n]]
  <1>1. UNCHANGED <<status, row, attempts, copies, tries, worker>> /\ StaysDeleted
    BY DEF StatusFinds, tables, counts, StaysDeleted
  <1>2. /\ n \in awaited /\ awaited' = awaited \ {n} /\ reqs' = reqs \cup {p}
        /\ kind \in {"delivered", "failed"}
    BY DEF StatusFinds, Start
  <1>3. p.kind = kind /\ p.who = {n} /\ p.n = attempts[n]
    BY DEF Req
  <1> HIDE DEF p
  <1>4. NowInBatch'
    BY <1>1 DEF Single, NowInBatch
  <1>5. ASSUME NEW r \in Recipients  PROVE Once(r)'
    <2>1. Once(r)
      BY DEF Single
    <2>2. CASE r = n
      <3>1. /\ r \notin worker.batch /\ r \notin awaited' /\ (\A q : ~Reports(q, r))
            /\ tries[r] <= attempts[r] /\ tries[r] <= MaxRetries
            /\ copies[r] <= 1
        BY <1>2, <2>1, <2>2 DEF Once, OneHolder, Counted, SentOnce, NoReport, Reports
      <3>2. row[r] \notin {"pending", "backoff", "failed"} /\ (row[r] = "none" => status = "deleted")
        BY <1>2, <2>1, <2>2 DEF Once, Unsent, Untouched, Quiet
      <3>3. \A q : Reports(q, r)' => q = p
        BY <1>2, <3>1 DEF Reports
      <3>4. OneHolder(r)' /\ Unsent(r)' /\ Untouched(r)' /\ SentOnce(r)'
        BY <1>1, <2>1, <3>1, <3>2, <3>3 DEF OneHolder, Unsent, Untouched, SentOnce
      <3>5. Counted(r)'
        BY <1>1, <1>3, <2>2, <3>1, <3>2, <3>3 DEF Counted
      <3> QED  BY <3>4, <3>5 DEF Once
    <2>3. CASE r # n
      <3>1. \A q : Reports(q, r)' => Reports(q, r)
        BY <1>2, <1>3, <2>3 DEF Reports
      <3>2. Apart(r)
        BY <1>1, <1>2, <3>1 DEF Apart, AtMark
      <3> QED  BY <1>1, <2>1, <3>2, ApartKeeps
    <2> QED  BY <2>2, <2>3
  <1> QED  BY <1>4, <1>5 DEF Single

(* The handler that alone has the delivery marks it, and has it no more.   *)
LEMMA ReportsSingle ==
  ASSUME IInv, Single, NEW n \in Recipients, NEW q \in reqs,
         StatusDelivered(q, n) \/ StatusFailed(q, n)
  PROVE  Single'
  <1>1. UNCHANGED <<status, tries, worker, awaited>> /\ StaysDeleted
    BY DEF StatusDelivered, StatusFailed, KeepStatus, StaysDeleted
  <1>2. Reports(q, n) /\ reqs' = (reqs \ {q}) \cup {Req("sync", "rows")}
    BY DEF StatusDelivered, StatusFailed, Reports, Become
  <1>3. \A p, r : Reports(p, r)' => Reports(p, r) /\ p # q
    BY <1>2, RequestKinds DEF Reports
  <1>4. NowInBatch'
    BY <1>1 DEF Single, NowInBatch
  <1>5. ASSUME NEW r \in Recipients  PROVE Once(r)'
    <2>1. Once(r)
      BY DEF Single
    <2>2. CASE r = n /\ StatusFailed(q, n)
      <3>1. \A p : ~Reports(p, r)'
        BY <1>2, <1>3, <2>1, <2>2 DEF Once, OneHolder, Reports
      <3>2. r \notin worker.batch /\ r \notin awaited
        BY <1>2, <2>1, <2>2 DEF Once, OneHolder, NoReport, Reports
      <3>3. Quiet(r)'
        BY <1>1, <3>1, <3>2 DEF Quiet, NoReport
      <3>4. row[r] = "none" => status = "deleted"
        BY <1>2, <2>1, <2>2 DEF Once, Untouched, Quiet, NoReport, Reports
      <3>5. q.n = attempts[r] /\ tries[r] <= attempts[r] /\ tries[r] <= MaxRetries
        BY <1>2, <2>1, <2>2 DEF Once, Counted, Reports, StatusFailed
      <3>6. tries[r] <= attempts[r] + 1
        <4>1. tries[r] \in Nat /\ attempts[r] \in Nat
          BY TypesApart, BlastConstants DEF Tries
        <4> QED  BY <3>5, <4>1
      <3>7. FailDelivery(r, attempts[r])
        BY <2>2, <3>5 DEF StatusFailed
      <3> QED  BY <1>1, <3>3, <3>4, <3>5, <3>6, <3>7, FailureKeeps
    <2>3. CASE r # n \/ StatusDelivered(q, n)
      <3>1. /\ row'[r] \in {row[r], "delivered"}
            /\ attempts'[r] = attempts[r] /\ copies'[r] = copies[r]
        BY <2>3, TypesApart DEF StatusDelivered, StatusFailed, FailDelivery
      <3>2. Apart(r)
        BY <1>1, <1>3, <3>1 DEF Apart, AtMark
      <3> QED  BY <1>1, <2>1, <3>2, ApartKeeps
    <2> QED  BY <2>2, <2>3
  <1> QED  BY <1>4, <1>5 DEF Single

(* Nobody has anything at the beginning.                                   *)
LEMMA InitSingle == Init => Single
  <1> SUFFICES ASSUME Init  PROVE Single
    OBVIOUS
  <1>1. NowInBatch /\ Idle.batch = {} /\ worker = Idle /\ awaited = {} /\ reqs = {}
    BY DEF Init, NowInBatch, Idle
  <1>2. ASSUME NEW r \in Recipients  PROVE Once(r)
    <2>1. row[r] = "none" /\ copies[r] = 0 /\ tries[r] = 0 /\ Quiet(r)
      BY <1>1 DEF Init, Quiet, NoReport
    <2> QED
      BY <1>1, <2>1, BlastConstants
         DEF Once, OneHolder, Unsent, Untouched, SentOnce, Counted, NoReport
  <1> QED  BY <1>1, <1>2 DEF Single

(* Every step keeps deliveries single, as long as the handlers of single   *)
(* retries are fresh.                                                      *)
LEMMA NextSingle == IInv /\ Single /\ Fresh /\ [Next]_vars => Single'
  <1> SUFFICES ASSUME IInv, Single, Fresh, [Next]_vars  PROVE Single'
    OBVIOUS
  <1>1. CASE UNCHANGED vars
    BY <1>1, EndsSingle
  <1>2. CASE Send
    BY <1>2, StatusWritesSingle
  <1>3. ASSUME NEW kind \in AdminKinds, AdminReads(kind)  PROVE Single'
    BY <1>3, AdminReadsSingle
  <1>4. ASSUME NEW q \in reqs, HandlerStep(q)  PROVE Single'
    <2>1. CASE ScheduleWrites(q) \/ CancelWrites(q) \/ RetryReopens(q)
      BY <2>1, StatusWritesSingle
    <2>2. CASE ExpandReads(q) \/ RetryOneFinds(q) \/ SyncCounts(q) \/ SyncReads(q)
      BY <2>2, ReadsSingle
    <2>3. CASE ExpandInserts(q) \/ RetryAllRows(q) \/ RetryOneRow(q)
      BY <2>3, RowsBecomePendingSingle
    <2>4. CASE CancelRows(q) \/ DeleteCommits(q)
      BY <2>4, RowsEndSingle
    <2>5. CASE SyncWrites(q)
      BY <2>5, EndsSingle
    <2>6. ASSUME NEW r \in Recipients, StatusDelivered(q, r) \/ StatusFailed(q, r)  PROVE Single'
      BY <2>6, ReportsSingle
    <2> QED  BY <1>4, <2>1, <2>2, <2>3, <2>4, <2>5, <2>6 DEF HandlerStep
  <1>5. CASE Poll \/ WorkerStep
    BY <1>5, WorkerMovesSingle, DrainSingle, WorkerChecksOptOutSingle, WorkerSendsSingle,
       WorkerMarksSingle DEF WorkerStep
  <1>6. ASSUME NEW r \in Recipients, OptOut(r) \/ BackoffElapses(r)  PROVE Single'
    BY <1>6, EndsSingle, BackoffSingle
  <1>7. ASSUME NEW kind, NEW r \in Recipients, StatusFinds(kind, r)  PROVE Single'
    BY <1>7, StatusFindsSingle
  <1>8. CASE Crash
    BY <1>8, EndsSingle
  <1> QED  BY <1>1, <1>2, <1>3, <1>4, <1>5, <1>6, <1>7, <1>8 DEF Next

(* As long as no single retry finds that another retry was there before it *)
(* - however many there are, one after the other -, deliveries are single. *)
THEOREM SingleHolds == Spec /\ []Fresh => []Single
  BY InitSingle, NextSingle, InvHolds, PTL DEF Spec

(* What that says of messages: none the provider accepted is sent again    *)
(* unless a failure was reported or an admin asked for it.                 *)
THEOREM NoBlindResendHolds == Spec /\ []Fresh => []NoBlindResend
  <1>1. Single => NoBlindResend
    BY DEF Single, Once, SentOnce, NoBlindResend
  <1> QED  BY <1>1, SingleHolds, PTL

(* And of attempts: so many sends, and no more, between two admin retries. *)
THEOREM RetryBudgetHolds == Spec /\ []Fresh => []RetryBudget
  <1>1. Single => RetryBudget
    BY DEF Single, Once, Counted, RetryBudget
  <1> QED  BY <1>1, SingleHolds, PTL

----------------------------------------------------------------------------
(* One retry. *)

RetryKinds == {"retryAll", "retryOne"}

(* Only a retry resets a delivery that has failed for good.                *)
Failed(r) == row[r] = "failed" \/ (row[r] = "none" /\ status = "deleted")

(* The only retry an admin has asked for finds what it has read unchanged. *)
SoleRetry ==
  /\ adminRetries = 0 => \A q \in reqs : q.kind \notin RetryKinds
  /\ \A q, p \in reqs : q.kind \in RetryKinds /\ p.kind \in RetryKinds => q = p
  /\ \A q \in reqs : q.kind = "retryOne" /\ q.phase = "rows" => \A r \in q.who : Failed(r)

(* A deleted blast is never brought back.                                  *)
LEMMA DeletedStays ==
  ASSUME [Next]_vars, status = "deleted"
  PROVE  status' = "deleted"
  <1>1. (\E s \in Statuses : SetStatus(s)) => status' = "deleted"
    BY DEF SetStatus
  <1>2. ASSUME NEW q \in reqs, HandlerStep(q)
        PROVE  (\E s \in Statuses : SetStatus(s)) \/ UNCHANGED status
    BY <1>2 DEF HandlerStep, ExpandReads, ExpandInserts, ScheduleWrites, DeleteCommits, CancelRows,
       CancelWrites, RetryAllRows, RetryOneFinds, RetryOneRow, RetryReopens, SyncCounts, SyncReads,
       SyncWrites, StatusDelivered, StatusFailed, KeepStatus, tables, Statuses
  <1>3. ASSUME Poll \/ WorkerStep  PROVE UNCHANGED status
    BY <1>3 DEF Poll, WorkerStep, Drain, WorkerChecks, WorkerChecksOptOut, WorkerSends, WorkerMarks,
       KeepStatus, tables
  <1>4. CASE Send
    BY <1>4 DEF Send
  <1>5. ASSUME NEW kind, NEW r,
               AdminReads(kind) \/ OptOut(r) \/ BackoffElapses(r) \/ StatusFinds(kind, r)
        PROVE  UNCHANGED status
    BY <1>5 DEF AdminReads, OptOut, BackoffElapses, StatusFinds, tables
  <1>6. CASE Crash \/ UNCHANGED vars
    BY <1>6 DEF Crash, tables, vars
  <1> QED  BY <1>1, <1>2, <1>3, <1>4, <1>5, <1>6 DEF Next

(* A failed delivery stays so until a retry resets it.                     *)
LEMMA FailedStays ==
  ASSUME IInv, Single, [Next]_vars, NEW r \in Recipients, Failed(r),
         \A q \in reqs : ~RetryAllRows(q) /\ ~RetryOneRow(q)
  PROVE  Failed(r)'
  <1>1. /\ row[r] \in {"failed", "none"} /\ (row[r] = "none" => status' = "deleted")
        /\ row[r] = "none" => status = "deleted"
    BY DeletedStays DEF Failed
  <1>2. row[r] = "failed" => r \notin worker.batch /\ \A q : ~Reports(q, r)
    BY DEF Single, Once, Unsent, Quiet, NoReport, Reports
  <1>3. row \in [Recipients -> RowStates]
    BY TypesApart
  <1>4. ASSUME row'[r] = row[r]  PROVE Failed(r)'
    BY <1>1, <1>4 DEF Failed
  <1>5. ASSUME NEW q \in reqs, HandlerStep(q)  PROVE Failed(r)'
    <2>1. CASE ExpandInserts(q) \/ CancelRows(q)
      <3>1. row'[r] = row[r]
        BY <1>1, <2>1 DEF ExpandInserts, CancelRows
      <3> QED  BY <1>4, <3>1
    <2>2. CASE DeleteCommits(q)
      BY <2>2 DEF DeleteCommits, SetStatus, Failed
    <2>3. ASSUME NEW n \in Recipients, StatusDelivered(q, n) \/ StatusFailed(q, n)
          PROVE  Failed(r)'
      <3>1. Reports(q, n)
        BY <2>3 DEF StatusDelivered, StatusFailed, Reports
      <3>2. row'[r] = row[r]
        BY <1>1, <1>2, <1>3, <2>3, <3>1 DEF StatusDelivered, StatusFailed, FailDelivery
      <3> QED  BY <1>4, <3>2
    <2>4. CASE ExpandReads(q) \/ ScheduleWrites(q) \/ CancelWrites(q) \/ RetryOneFinds(q)
               \/ RetryReopens(q) \/ SyncCounts(q) \/ SyncReads(q) \/ SyncWrites(q)
      <3>1. row' = row
        BY <2>4 DEF ExpandReads, ScheduleWrites, CancelWrites, RetryOneFinds, RetryReopens,
           SyncCounts, SyncReads, SyncWrites, tables
      <3> QED  BY <1>4, <3>1
    <2> QED  BY <1>5, <2>1, <2>2, <2>3, <2>4 DEF HandlerStep
  <1>6. CASE Poll \/ WorkerStep
    <2>1. worker.at \in {"optout", "mark"} => worker.now \in worker.batch
      BY DEF Single, NowInBatch
    <2>2. row'[r] = row[r]
      <3>1. CASE Poll \/ WorkerChecks \/ WorkerSends
        BY <3>1 DEF Poll, WorkerChecks, WorkerSends, tables
      <3>2. CASE Drain
        BY <1>1, <3>2 DEF Drain
      <3>3. CASE WorkerChecksOptOut
        BY <1>1, <1>2, <1>3, <2>1, <3>3 DEF WorkerChecksOptOut
      <3>4. CASE WorkerMarks
        BY <1>1, <1>2, <1>3, <2>1, <3>4 DEF WorkerMarks, FailDelivery
      <3> QED  BY <1>6, <3>1, <3>2, <3>3, <3>4 DEF WorkerStep
    <2> QED  BY <1>4, <2>2
  <1>7. ASSUME NEW b \in Recipients, BackoffElapses(b)  PROVE Failed(r)'
    <2>1. row'[r] = row[r]
      BY <1>1, <1>3, <1>7 DEF BackoffElapses
    <2> QED  BY <1>4, <2>1
  <1>8. ASSUME NEW kind, NEW n,
               Send \/ AdminReads(kind) \/ OptOut(n) \/ StatusFinds(kind, n) \/ Crash \/ UNCHANGED vars
        PROVE  Failed(r)'
    <2>1. row' = row
      BY <1>8 DEF Send, AdminReads, OptOut, StatusFinds, Crash, tables, vars
    <2> QED  BY <1>4, <2>1
  <1> QED  BY <1>5, <1>6, <1>7, <1>8 DEF Next

(* Which retries there are changes only where an admin asks for one, or    *)
(* where the handler of one goes on.                                       *)
LEMMA OtherHandlers ==
  ASSUME IInv, Next, \A kind \in RetryKinds : ~AdminReads(kind),
         \A q \in reqs : ~RetryAllRows(q) /\ ~RetryOneRow(q) /\ ~RetryOneFinds(q)
  PROVE  \A x \in reqs' : x \in reqs \/ x.kind \notin RetryKinds
  <1>1. ASSUME NEW q \in reqs, HandlerStep(q)
        PROVE  \A x \in reqs' : x \in reqs \/ x.kind \notin RetryKinds
    <2>1. q \in Request
      BY TypesApart
    <2>2. CASE ExpandReads(q) \/ CancelRows(q) \/ SyncReads(q)
      <3>1. PICK p : (Become(q, p) \/ Finish(q)) /\ p.kind = q.kind /\ q.kind \notin RetryKinds
        <4>1. /\ [q EXCEPT !.phase = "rows", !.who = subscribed].kind = q.kind
              /\ [q EXCEPT !.phase = "write"].kind = q.kind
              /\ [q EXCEPT !.phase = "write", !.read = status].kind = q.kind
          BY <2>1 DEF Request
        <4> QED  BY <2>2, <4>1 DEF ExpandReads, CancelRows, SyncReads, SyncKinds, RetryKinds
      <3> QED  BY <3>1 DEF Become, Finish
    <2>3. CASE SyncCounts(q)
      <3> DEFINE b == \A r \in Recipients : row[r] \in Terminal \cup {"none"}
      <3>1. Become(q, [q EXCEPT !.phase = "read", !.complete = b]) /\ q.kind \notin RetryKinds
        BY <2>3 DEF SyncCounts, SyncKinds, RetryKinds
      <3> HIDE DEF b
      <3>2. [q EXCEPT !.phase = "read", !.complete = b].kind = q.kind
        BY <2>1, Zenon DEF Request
      <3> QED  BY <3>1, <3>2 DEF Become
    <2>4. ASSUME NEW r \in Recipients, StatusDelivered(q, r) \/ StatusFailed(q, r)
          PROVE  \A x \in reqs' : x \in reqs \/ x.kind \notin RetryKinds
      BY <2>4, RequestKinds DEF StatusDelivered, StatusFailed, Become, RetryKinds
    <2>5. CASE ExpandInserts(q) \/ ScheduleWrites(q) \/ DeleteCommits(q) \/ CancelWrites(q)
               \/ RetryReopens(q) \/ SyncWrites(q)
      BY <2>5 DEF ExpandInserts, ScheduleWrites, DeleteCommits, CancelWrites, RetryReopens,
         SyncWrites, Finish
    <2> QED  BY <1>1, <2>2, <2>3, <2>4, <2>5 DEF HandlerStep
  <1>2. CASE Poll \/ WorkerStep
    <2>1. StartSync => \A x \in reqs' : x \in reqs \/ x.kind \notin RetryKinds
      BY RequestKinds DEF StartSync, Start, RetryKinds
    <2>2. StartSync \/ UNCHANGED reqs
      BY <1>2 DEF Poll, WorkerStep, Drain, WorkerChecks, WorkerChecksOptOut, WorkerSends, WorkerMarks
    <2> QED  BY <2>1, <2>2
  <1>3. CASE Send \/ Crash
    BY <1>3, RequestKinds DEF Send, Crash, Start, RetryKinds
  <1>4. ASSUME NEW kind \in AdminKinds, AdminReads(kind)
        PROVE  \A x \in reqs' : x \in reqs \/ x.kind \notin RetryKinds
    <2>1. PICK phase \in {"read", "find", "rows", "write", "done"} :
            Start([Req(kind, phase) EXCEPT !.read = status])
      BY <1>4 DEF AdminReads, AdminKinds
    <2>2. [Req(kind, phase) EXCEPT !.read = status].kind = kind
      BY DEF Req
    <2> QED  BY <1>4, <2>1, <2>2 DEF Start
  <1>5. ASSUME NEW kind, NEW r, StatusFinds(kind, r)
        PROVE  \A x \in reqs' : x \in reqs \/ x.kind \notin RetryKinds
    <2>1. [Req(kind, "rows") EXCEPT !.who = {r}, !.n = attempts[r]].kind = kind
      BY DEF Req
    <2> QED  BY <1>5, <2>1 DEF StatusFinds, Start, RetryKinds
  <1>6. ASSUME NEW r, OptOut(r) \/ BackoffElapses(r)
        PROVE  \A x \in reqs' : x \in reqs \/ x.kind \notin RetryKinds
    BY <1>6 DEF OptOut, BackoffElapses
  <1> QED  BY <1>1, <1>2, <1>3, <1>4, <1>5, <1>6 DEF Next

(* The retries asked for are only ever counted up, and by admins.          *)
LEMMA RetriesAreCounted ==
  ASSUME [Next]_vars
  PROVE  \/ adminRetries' = adminRetries
         \/ \E kind \in RetryKinds : AdminReads(kind)
  <1>1. ASSUME NEW q, HandlerStep(q)  PROVE adminRetries' = adminRetries
    BY <1>1 DEF HandlerStep, ExpandReads, ExpandInserts, ScheduleWrites, DeleteCommits, CancelRows,
       CancelWrites, RetryAllRows, RetryOneFinds, RetryOneRow, RetryReopens, SyncCounts, SyncReads,
       SyncWrites, StatusDelivered, StatusFailed
  <1>2. ASSUME Poll \/ WorkerStep  PROVE adminRetries' = adminRetries
    BY <1>2 DEF Poll, WorkerStep, Drain, WorkerChecks, WorkerChecksOptOut, WorkerSends, WorkerMarks
  <1>3. ASSUME NEW kind, NEW r, Send \/ OptOut(r) \/ BackoffElapses(r) \/ StatusFinds(kind, r)
               \/ Crash \/ UNCHANGED vars
        PROVE  adminRetries' = adminRetries
    BY <1>3 DEF Send, OptOut, BackoffElapses, StatusFinds, Crash, vars
  <1>4. ASSUME NEW kind, AdminReads(kind), kind \notin RetryKinds  PROVE adminRetries' = adminRetries
    BY <1>4 DEF AdminReads, RetryKinds
  <1> QED  BY <1>1, <1>2, <1>3, <1>4 DEF Next

(* A first retry stays the only one, and its row stays as it has read it.  *)
LEMMA SoleRetryKept ==
  ASSUME IInv, Single, SoleRetry, [Next]_vars, adminRetries' <= 1
  PROVE  SoleRetry'
  <1>0. adminRetries \in Nat /\ \A q \in reqs : q \in Request
    BY TypesApart, BlastConstants
  <1>1. CASE UNCHANGED vars
    BY <1>1 DEF vars, SoleRetry, Failed
  <1>2. ASSUME NEW q \in reqs, RetryAllRows(q) \/ RetryOneRow(q)  PROVE SoleRetry'
    <2>1. q.kind \in RetryKinds /\ adminRetries # 0 /\ adminRetries' = adminRetries
      BY <1>2 DEF SoleRetry, RetryAllRows, RetryOneRow, RetryKinds
    <2>2. /\ [q EXCEPT !.phase = "write"].phase = "write"
          /\ [q EXCEPT !.phase = "write", !.who = {}].phase = "write"
      BY <1>0 DEF Request
    <2>3. PICK p : p.phase = "write" /\ (Become(q, p) \/ Finish(q))
      BY <1>2, <2>2 DEF RetryAllRows, RetryOneRow
    <2>4. \A x \in reqs' : x.kind \in RetryKinds => x = p
      BY <2>1, <2>3 DEF SoleRetry, Become, Finish
    <2> QED  BY <2>1, <2>3, <2>4 DEF SoleRetry, RetryKinds
  <1>3. CASE \A q \in reqs : ~RetryAllRows(q) /\ ~RetryOneRow(q)
    <2>1. ASSUME NEW r \in Recipients, Failed(r)  PROVE Failed(r)'
      BY <1>3, <2>1, FailedStays
    <2>2. \A q \in reqs : q.kind = "retryOne" /\ q.phase = "rows" =>
            \A r \in q.who : Failed(r)'
      <3>1. \A q \in reqs : q.who \subseteq Recipients
        BY <1>0 DEF Request
      <3> QED  BY <2>1, <3>1 DEF SoleRetry
    <2>3. ASSUME NEW kind \in RetryKinds, AdminReads(kind)  PROVE SoleRetry'
      <3>1. adminRetries' = adminRetries + 1
        BY <2>3 DEF AdminReads, RetryKinds
      <3>2. adminRetries = 0 /\ adminRetries' = 1
        BY <1>0, <3>1
      <3>3. PICK phase \in {"find", "rows"} :
              /\ Start([Req(kind, phase) EXCEPT !.read = status])
              /\ kind = "retryOne" => phase = "find"
        BY <2>3 DEF AdminReads, RetryKinds
      <3> DEFINE p == [Req(kind, phase) EXCEPT !.read = status]
      <3>4. p.kind = kind /\ p.phase = phase /\ reqs' = reqs \cup {p}
        BY <3>3 DEF Req, Start
      <3> HIDE DEF p
      <3>5. \A x \in reqs' : x.kind \in RetryKinds => x = p
        BY <3>2, <3>4 DEF SoleRetry
      <3> QED  BY <3>2, <3>3, <3>4, <3>5 DEF SoleRetry, RetryKinds
    <2>4. ASSUME NEW q \in reqs, RetryOneFinds(q)  PROVE SoleRetry'
      <3>1. q.kind \in RetryKinds /\ adminRetries # 0 /\ adminRetries' = adminRetries
        BY <2>4 DEF SoleRetry, RetryOneFinds, RetryKinds
      <3>2. CASE Finish(q)
        BY <2>2, <3>1, <3>2 DEF SoleRetry, Finish
      <3>3. ASSUME NEW r \in Recipients, row[r] = "failed",
                   Become(q, [q EXCEPT !.phase = "rows", !.who = {r}, !.n = attempts[r]])
            PROVE  SoleRetry'
        <4> DEFINE p == [q EXCEPT !.phase = "rows", !.who = {r}, !.n = attempts[r]]
        <4>1. p.who = {r} /\ reqs' = (reqs \ {q}) \cup {p}
          BY <1>0, <3>3 DEF Request, Become
        <4> HIDE DEF p
        <4>2. \A x \in reqs' : x.kind \in RetryKinds => x = p
          BY <3>1, <4>1 DEF SoleRetry
        <4>3. Failed(r)'
          BY <2>1, <3>3 DEF Failed
        <4> QED  BY <3>1, <4>1, <4>2, <4>3 DEF SoleRetry, RetryKinds
      <3> QED  BY <2>4, <3>2, <3>3 DEF RetryOneFinds
    <2>5. CASE /\ Next /\ \A kind \in RetryKinds : ~AdminReads(kind)
               /\ \A q \in reqs : ~RetryOneFinds(q)
      <3>1. \A x \in reqs' : x \in reqs \/ x.kind \notin RetryKinds
        BY <1>3, <2>5, OtherHandlers
      <3>2. adminRetries' = adminRetries
        BY <2>5, RetriesAreCounted
      <3> QED  BY <2>2, <3>1, <3>2 DEF SoleRetry, RetryKinds
    <2> QED  BY <1>1, <2>3, <2>4, <2>5
  <1> QED  BY <1>2, <1>3

(* Up to the first retry that an admin asks for nothing has to be assumed. *)
FirstRetry == adminRetries <= 1 => Single /\ SoleRetry

LEMMA InitFirstRetry == Init => FirstRetry
  BY InitSingle DEF Init, FirstRetry, SoleRetry

LEMMA NextFirstRetry == IInv /\ FirstRetry /\ [Next]_vars => FirstRetry'
  <1> SUFFICES ASSUME IInv, FirstRetry, [Next]_vars, adminRetries' <= 1
               PROVE  Single' /\ SoleRetry'
    BY DEF FirstRetry
  <1>1. adminRetries <= 1
    <2>1. ASSUME NEW kind, AdminReads(kind)
          PROVE  adminRetries' = adminRetries \/ adminRetries' = adminRetries + 1
      BY <2>1 DEF AdminReads
    <2>2. adminRetries' = adminRetries \/ adminRetries' = adminRetries + 1
      BY <2>1, RetriesAreCounted
    <2>3. adminRetries \in Nat
      BY TypesApart, BlastConstants
    <2> QED  BY <2>2, <2>3
  <1>2. Single /\ SoleRetry
    BY <1>1 DEF FirstRetry
  <1>3. Fresh
    BY <1>2 DEF SoleRetry, Fresh, Failed
  <1> QED  BY <1>2, <1>3, NextSingle, SoleRetryKept

(* Until an admin asks for a second retry, no message that was accepted is *)
(* sent again, and no delivery is sent more often than its budget, however *)
(* sends, webhooks, expansions, cancels and restarts interleave.           *)
THEOREM FirstRetryIsSafe == Spec => [](adminRetries <= 1 => NoBlindResend /\ RetryBudget)
  <1>1. Spec => []FirstRetry
    BY InitFirstRetry, NextFirstRetry, InvHolds, PTL DEF Spec
  <1>2. FirstRetry => (adminRetries <= 1 => NoBlindResend /\ RetryBudget)
    BY DEF FirstRetry, Single, Once, SentOnce, Counted, NoBlindResend, RetryBudget
  <1> QED  BY <1>1, <1>2, PTL
=============================================================================
