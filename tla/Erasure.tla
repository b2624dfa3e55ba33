-------------------------------- MODULE Erasure --------------------------------
(***************************************************************************)
(* Erasure of one account: its requests, the worker that executes those    *)
(* whose delay is over, an admin's immediate erasure, and the jobs that    *)
(* strip the account's envelopes hub by hub.  Both workers are intervals   *)
(* without an overlap guard, so a check may begin while another runs.      *)
(***************************************************************************)
EXTENDS Naturals, FiniteSets

CONSTANTS
  Requests,     \* rows of erasure_requests
  Hubs,
  Runners,      \* bound: handlers and worker checks in flight at once
  None,
  LastPass,     \* tables a job strips in turn: notes (the readers' envelopes), note_replies, messages
  MaxErasures,  \* bound: erasures begun (a second one finds an erased user)
  MaxFaults     \* bound: restarts and database failures

ASSUME ErasureConstants ==
  /\ None \notin Requests
  /\ LastPass \in Nat \ {0}
  /\ MaxErasures \in Nat \ {0} /\ MaxFaults \in Nat

(* The bound on erasures leaves one for every request.                     *)
ASSUME ErasureBounds ==
  /\ IsFiniteSet(Requests) /\ IsFiniteSet(Runners)
  /\ Cardinality(Requests) <= MaxErasures

VARIABLES
  request,      \* erasure_requests.status; "none": no row
  due,          \* requests whose execute_at has passed
  user,         \* users.status
  keys,         \* hubs with a hub_keys row of the user
  copies,       \* per hub, the tables with an envelope of the user
  jobs,         \* re_encryption_jobs.status of each hub and erasure
  erasures,     \* erasures committed
  audited,      \* an audit entry says userErasureExecuted
  run,          \* what each handler and check has read, between two awaits
  crashes, faults,
  claims,       \* history: how often each request was claimed
  withdrawn,    \* history: requests cancelled while they were pending
  missed,       \* history: hubs the user came into while an erasure had read the others
  held,         \* history: hubs the user was known in when it was erased
  late          \* history: <<hub, table>>s sealed for the user after the erasure

rows == <<request, due, user, keys, copies, jobs, erasures, audited>>
history == <<claims, withdrawn, missed, held, late>>
vars == <<rows, run, crashes, faults, history>>

----------------------------------------------------------------------------
Statuses == {"none", "pending", "executing", "completed", "failed", "cancelled"}
JobStatuses == {"none", "queued", "running", "completed"}
Runs == 1..MaxErasures

(* The tables that are stripped, and the notes the user wrote: these have  *)
(* an envelope for their author in a column that no pass touches.          *)
Passes == 1..LastPass
Authored == 0
Tables == {Authored} \cup Passes

Idle == [kind |-> "idle"]

Cancelling == [kind : {"cancel"}, request : Requests]

(* A check of the expiry worker; an admin's erasure has no request.        *)
Erasing == [kind : {"check", "admin"}, todo : SUBSET Requests,
            request : Requests \cup {None}, hubs : SUBSET Hubs,
            phase : {"claim", "members", "audit", "commit", "wipe", "fail"}]

(* A check of the re-encryption worker.                                    *)
Stripping == [kind : {"jobs"}, todo : SUBSET (Hubs \X Runs), job : (Hubs \X Runs) \cup {None},
              counted : SUBSET Passes, pass : Passes, phase : {"next", "strip", "report"}]

TypeOK ==
  /\ request \in [Requests -> Statuses]
  /\ due \subseteq Requests
  /\ user \in {"active", "erased"}
  /\ keys \subseteq Hubs
  /\ copies \in [Hubs -> SUBSET Tables]
  /\ jobs \in [Hubs \X Runs -> JobStatuses]
  /\ erasures \in 0..MaxErasures
  /\ audited \in BOOLEAN
  /\ run \in [Runners -> {Idle, [kind |-> "create"]} \cup Cancelling \cup Erasing \cup Stripping]
  /\ crashes \in 0..MaxFaults /\ faults \in 0..MaxFaults
  /\ claims \in [Requests -> Nat]
  /\ withdrawn \subseteq Requests
  /\ missed \subseteq Hubs /\ held \subseteq Hubs
  /\ late \subseteq Hubs \X Tables

Init ==
  /\ request = [r \in Requests |-> "none"]
  /\ due = {} /\ withdrawn = {} /\ missed = {} /\ held = {} /\ late = {}
  /\ user = "active"
  /\ keys = {}
  /\ copies = [h \in Hubs |-> {}]
  /\ jobs = [j \in Hubs \X Runs |-> "none"]
  /\ erasures = 0 /\ crashes = 0 /\ faults = 0
  /\ audited = FALSE
  /\ run = [w \in Runners |-> Idle]
  /\ claims = [r \in Requests |-> 0]

Become(w, p) == run' = [run EXCEPT ![w] = p]
Free(w) == run[w] = Idle
At(w, kind, phase) == run[w].kind \in kind /\ run[w].phase = phase

SetRequest(r, v) == request' = [request EXCEPT ![r] = v]
Pending == {r \in Requests : request[r] = "pending"}

----------------------------------------------------------------------------
(* The user's world. *)

(* Erasures that have read the hubs and are not yet committed.             *)
Reading == {w \in Runners : run[w].kind \in {"check", "admin"} /\ run[w].phase \in {"audit", "commit"}}

(* The hubs executeErasure finds: those with a key, or a note, of the user.*)
Known == keys \cup {h \in Hubs : Authored \in copies[h]}

(* What an erasure under way has not seen is noted.                        *)
Misses == missed' = IF user = "active" /\ Reading # {} THEN missed \cup (Known' \ Known) ELSE missed

(* A client replaces the hub's envelopes with those it was told of, whether*)
(* or not the user is among them: rotated out, the user keeps the envelopes*)
(* of what was written before.                                             *)
SetsHubKeys(h) ==
  /\ keys' \in {keys \cup {h}, keys \ {h}}
  /\ UNCHANGED <<request, due, user, copies, jobs, erasures, audited, run, crashes, faults,
                 claims, withdrawn, held, late>>
  /\ Misses

(* A client seals a note, reply or message for its author and the readers  *)
(* it knows of; nobody compares them with the keys, and the user may just  *)
(* have been erased.                                                       *)
Seals(h, k) ==
  /\ k \notin copies[h]
  /\ copies' = [copies EXCEPT ![h] = @ \cup {k}]
  /\ late' = IF user = "erased" THEN late \cup {<<h, k>>} ELSE late
  /\ UNCHANGED <<request, due, user, keys, jobs, erasures, audited, run, crashes, faults,
                 claims, withdrawn, held>>
  /\ Misses

(* Retention and deletions take rows with their envelopes.                 *)
Deletes(h, k) ==
  /\ k \in copies[h]
  /\ copies' = [copies EXCEPT ![h] = @ \ {k}]
  /\ late' = late \ {<<h, k>>}
  /\ UNCHANGED <<request, due, user, keys, jobs, erasures, audited, run, crashes, faults,
                 claims, withdrawn, missed, held>>

----------------------------------------------------------------------------
(* Requests. *)

(* Rows are left for those who are about to insert one.                    *)
CanRequest == Cardinality({w \in Runners : run[w].kind = "create"})
                < Cardinality({r \in Requests : request[r] = "none"})

CreateReads(w) ==
  /\ Free(w) /\ Pending = {} /\ CanRequest
  /\ Become(w, [kind |-> "create"])
  /\ UNCHANGED <<rows, crashes, faults, history>>

(* Mutant: a status the schema does not know.                              *)
InsertsRequested(w) ==
  /\ run[w].kind = "create"
  /\ \E r \in Requests : request[r] = "none" /\ SetRequest(r, "requested")
  /\ Become(w, Idle)
  /\ UNCHANGED <<due, user, keys, copies, jobs, erasures, audited, crashes, faults, history>>

CreateInserts(w) ==
  /\ run[w].kind = "create"
  /\ \E r \in Requests : request[r] = "none" /\ SetRequest(r, "pending")
  /\ Become(w, Idle)
  /\ UNCHANGED <<due, user, keys, copies, jobs, erasures, audited, crashes, faults, history>>

Elapses(r) ==
  /\ request[r] = "pending" /\ r \notin due
  /\ due' = due \cup {r}
  /\ UNCHANGED <<request, user, keys, copies, jobs, erasures, audited, run, crashes, faults, history>>

CancelReads(w, r) ==
  /\ Free(w) /\ r \in Pending
  /\ Become(w, [kind |-> "cancel", request |-> r])
  /\ UNCHANGED <<rows, crashes, faults, history>>

(* By id alone: also when it is being executed or has been.                *)
CancelWrites(w) ==
  /\ run[w].kind = "cancel"
  /\ LET r == run[w].request
     IN /\ SetRequest(r, "cancelled")
        /\ withdrawn' = IF r \in Pending THEN withdrawn \cup {r} ELSE withdrawn
  /\ Become(w, Idle)
  /\ UNCHANGED <<due, user, keys, copies, jobs, erasures, audited, crashes, faults,
                 claims, missed, held, late>>

----------------------------------------------------------------------------
(* The expiry worker, and an admin who erases at once. *)

BeginErasing(kind, todo, phase) ==
  [kind |-> kind, todo |-> todo, request |-> None, hubs |-> {}, phase |-> phase]

AfterErasing(p) ==
  IF p.kind = "admin" \/ p.todo = {} THEN Idle ELSE BeginErasing("check", p.todo, "claim")

(* Mutant: the comparison with execute_at is the wrong way round.          *)
CheckReadsBefore(w) ==
  /\ Free(w) /\ Pending \ due # {}
  /\ Become(w, BeginErasing("check", Pending \ due, "claim"))
  /\ UNCHANGED <<rows, crashes, faults, history>>

CheckReads(w) ==
  /\ Free(w) /\ Pending \cap due # {}
  /\ Become(w, BeginErasing("check", Pending \cap due, "claim"))
  /\ UNCHANGED <<rows, crashes, faults, history>>

(* An admin's erasure leaves room for every request's own.                 *)
Underway == {w \in Runners : run[w].kind \in {"check", "admin"}
                             /\ run[w].phase \in {"members", "audit", "commit"}}
Unclaimed == {r \in Requests : claims[r] = 0}
CanErase == erasures + Cardinality(Underway) + Cardinality(Unclaimed) < MaxErasures

AdminErases(w) ==
  /\ Free(w) /\ CanErase
  /\ Become(w, BeginErasing("admin", {}, "members"))
  /\ UNCHANGED <<rows, crashes, faults, history>>

(* Mutant: whatever the row says by now.                                   *)
ClaimsUnchecked(w) ==
  /\ At(w, {"check"}, "claim")
  /\ \E r \in run[w].todo :
       /\ SetRequest(r, "executing")
       /\ claims' = [claims EXCEPT ![r] = @ + 1]
       /\ Become(w, [run[w] EXCEPT !.todo = @ \ {r}, !.request = r, !.phase = "members"])
  /\ UNCHANGED <<due, user, keys, copies, jobs, erasures, audited, crashes, faults,
                 withdrawn, missed, held, late>>

(* The claim: pending to executing in one UPDATE, or somebody else's.      *)
Claims(w) ==
  /\ At(w, {"check"}, "claim")
  /\ \E r \in run[w].todo :
       IF r \in Pending
         THEN /\ SetRequest(r, "executing")
              /\ claims' = [claims EXCEPT ![r] = @ + 1]
              /\ Become(w, [run[w] EXCEPT !.todo = @ \ {r}, !.request = r, !.phase = "members"])
         ELSE /\ Become(w, AfterErasing([run[w] EXCEPT !.todo = @ \ {r}]))
              /\ UNCHANGED <<request, claims>>
  /\ UNCHANGED <<due, user, keys, copies, jobs, erasures, audited, crashes, faults,
                 withdrawn, missed, held, late>>

(* The hubs are read before the transaction that deletes their keys.       *)
ReadsHubs(w) ==
  /\ At(w, {"check", "admin"}, "members")
  /\ missed' = IF user = "active" /\ Reading = {} THEN {} ELSE missed
  /\ Become(w, [run[w] EXCEPT !.hubs = Known, !.phase = "audit"])
  /\ UNCHANGED <<rows, crashes, faults, claims, withdrawn, held, late>>

(* The last call of the transaction, on a connection of its own.           *)
LogsErasure(w) ==
  /\ At(w, {"check", "admin"}, "audit")
  /\ audited' = TRUE
  /\ Become(w, [run[w] EXCEPT !.phase = "commit"])
  /\ UNCHANGED <<request, due, user, keys, copies, jobs, erasures, crashes, faults, history>>

(* Mutant: the jobs are not queued in the transaction.                     *)
CommitsNoJobs(w) ==
  /\ At(w, {"check", "admin"}, "commit")
  /\ user' = "erased" /\ keys' = {}
  /\ held' = IF user = "active" THEN Known ELSE held
  /\ erasures' = erasures + 1
  /\ request' = [r \in Requests |-> IF request[r] = "executing" THEN "completed" ELSE request[r]]
  /\ Become(w, [run[w] EXCEPT !.phase = "wipe"])
  /\ UNCHANGED <<due, copies, audited, jobs, crashes, faults, claims, withdrawn, missed, late>>

(* The keys are deleted, the notes stay.                                   *)
Commits(w) ==
  /\ At(w, {"check", "admin"}, "commit")
  /\ user' = "erased" /\ keys' = {}
  /\ held' = IF user = "active" THEN Known ELSE held
  /\ erasures' = erasures + 1
  /\ jobs' = [j \in DOMAIN jobs |->
               IF j[1] \in run[w].hubs /\ j[2] = erasures + 1 THEN "queued" ELSE jobs[j]]
  /\ request' = [r \in Requests |-> IF request[r] = "executing" THEN "completed" ELSE request[r]]
  /\ Become(w, [run[w] EXCEPT !.phase = "wipe"])
  /\ UNCHANGED <<due, copies, audited, crashes, faults, claims, withdrawn, missed, late>>

(* The devices are told to wipe themselves and are disconnected.           *)
Wipes(w) ==
  /\ At(w, {"check", "admin"}, "wipe")
  /\ Become(w, AfterErasing(run[w]))
  /\ UNCHANGED <<rows, crashes, faults, history>>

(* The claim fails, the transaction is rolled back, the wipe is not sent;  *)
(* or markFailed throws, which ends the check with the rest of its list.   *)
ErasingFails(w) ==
  /\ crashes + faults < MaxFaults /\ faults' = faults + 1
  /\ \/ /\ At(w, {"check"}, "claim")
        /\ \E r \in run[w].todo :
             Become(w, [run[w] EXCEPT !.todo = @ \ {r}, !.request = r, !.phase = "fail"])
     \/ /\ run[w].kind = "check" /\ run[w].phase \in {"members", "audit", "commit", "wipe"}
        /\ Become(w, [run[w] EXCEPT !.phase = "fail"])
     \/ /\ run[w].kind = "admin" \/ At(w, {"check"}, "fail")
        /\ Become(w, Idle)
  /\ UNCHANGED <<rows, crashes, history>>

(* Mutant: the failure is only logged.                                     *)
MarksNothing(w) ==
  /\ At(w, {"check"}, "fail")
  /\ Become(w, AfterErasing(run[w]))
  /\ UNCHANGED <<rows, crashes, faults, history>>

MarksFailed(w) ==
  /\ At(w, {"check"}, "fail")
  /\ SetRequest(run[w].request, "failed")
  /\ Become(w, AfterErasing(run[w]))
  /\ UNCHANGED <<due, user, keys, copies, jobs, erasures, audited, crashes, faults, history>>

----------------------------------------------------------------------------
(* The re-encryption worker. *)

Queued == {j \in DOMAIN jobs : jobs[j] = "queued"}
SetJob(j, v) == jobs' = [jobs EXCEPT ![j] = v]

BeginStripping(todo) ==
  [kind |-> "jobs", todo |-> todo, job |-> None, counted |-> {}, pass |-> 1, phase |-> "next"]

AfterJob(p) == IF p.todo = {} THEN Idle ELSE BeginStripping(p.todo)

JobsRead(w) ==
  /\ Free(w) /\ Queued # {}
  /\ Become(w, BeginStripping(Queued))
  /\ UNCHANGED <<rows, crashes, faults, history>>

(* What is counted in a hub: the tables to strip, and the user's own notes *)
(* with them if the author's envelope names its recipient.                 *)
Counts(h) == {copies[h] \cap Passes, {IF k = Authored THEN 1 ELSE k : k \in copies[h]}}

(* What is to be stripped is counted once; nothing to strip is completed.  *)
JobCounts(w) ==
  /\ At(w, {"jobs"}, "next")
  /\ \E j \in run[w].todo : \E counted \in Counts(j[1]) :
       LET rest == run[w].todo \ {j}
       IN IF jobs[j] = "completed" THEN Become(w, AfterJob([run[w] EXCEPT !.todo = rest])) /\ UNCHANGED jobs
          ELSE IF counted = {}
            THEN SetJob(j, "completed") /\ Become(w, AfterJob([run[w] EXCEPT !.todo = rest]))
            ELSE /\ SetJob(j, "running")
                 /\ Become(w, [run[w] EXCEPT !.todo = rest, !.job = j, !.counted = counted,
                                             !.phase = "strip"])
  /\ UNCHANGED <<request, due, user, keys, copies, erasures, audited, crashes, faults, history>>

(* The readers' envelopes of a table; the author's stay.                   *)
JobStrips(w) ==
  /\ At(w, {"jobs"}, "strip")
  /\ LET h == run[w].job[1] k == run[w].pass
     IN copies' = [copies EXCEPT ![h] = @ \ {k}] /\ late' = late \ {<<h, k>>}
  /\ Become(w, [run[w] EXCEPT !.phase = "report"])
  /\ UNCHANGED <<request, due, user, keys, jobs, erasures, audited, crashes, faults,
                 claims, withdrawn, missed, held>>

(* Mutant: the pass that is running counts as done.                        *)
DoneEarly(p) == \A k \in p.counted : k <= p.pass + 1

(* Mutant: processed > total.                                              *)
DoneLate(p) == \A k \in p.counted : k < p.pass

(* processed >= total.                                                     *)
Done(p) == \A k \in p.counted : k <= p.pass

(* The progress after a pass.  Later passes find nothing when it is done,  *)
(* but they run and report again.                                          *)
JobReports(w) ==
  /\ At(w, {"jobs"}, "report")
  /\ SetJob(run[w].job, IF Done(run[w]) THEN "completed" ELSE "running")
  /\ Become(w, IF run[w].pass = LastPass THEN AfterJob(run[w])
               ELSE [run[w] EXCEPT !.pass = @ + 1, !.phase = "strip"])
  /\ UNCHANGED <<request, due, user, keys, copies, erasures, audited, crashes, faults, history>>

(* The error is logged and the next job is taken.                          *)
JobFails(w) ==
  /\ run[w].kind = "jobs"
  /\ crashes + faults < MaxFaults /\ faults' = faults + 1
  /\ IF run[w].phase = "next"
       THEN \E j \in run[w].todo : Become(w, AfterJob([run[w] EXCEPT !.todo = @ \ {j}]))
       ELSE Become(w, AfterJob(run[w]))
  /\ UNCHANGED <<rows, crashes, history>>

----------------------------------------------------------------------------
Crash ==
  /\ crashes + faults < MaxFaults /\ crashes' = crashes + 1
  /\ \E w \in Runners : ~Free(w)
  /\ run' = [w \in Runners |-> Idle]
  /\ UNCHANGED <<rows, faults, history>>

ErasingStep(w) == Claims(w) \/ ReadsHubs(w) \/ LogsErasure(w) \/ Commits(w) \/ Wipes(w) \/ MarksFailed(w)
JobStep(w) == JobCounts(w) \/ JobStrips(w) \/ JobReports(w)

Next ==
  \/ \E h \in Hubs : SetsHubKeys(h) \/ \E k \in Tables : Seals(h, k) \/ Deletes(h, k)
  \/ \E r \in Requests : Elapses(r)
  \/ \E w \in Runners :
       \/ CreateReads(w) \/ CreateInserts(w)
       \/ CancelWrites(w) \/ \E r \in Requests : CancelReads(w, r)
       \/ CheckReads(w) \/ AdminErases(w) \/ ErasingStep(w) \/ ErasingFails(w)
       \/ JobsRead(w) \/ JobStep(w) \/ JobFails(w)
  \/ Crash

Spec == Init /\ [][Next]_vars

(* The intervals fire again and again, whatever else is running; what has  *)
(* begun goes on unless the process stops.                                 *)
Fairness ==
  /\ SF_vars(\E w \in Runners : CheckReads(w))
  /\ SF_vars(\E w \in Runners : JobsRead(w))
  /\ \A w \in Runners : WF_vars(CreateInserts(w) \/ CancelWrites(w) \/ ErasingStep(w) \/ JobStep(w))

LiveSpec == Spec /\ Fairness

----------------------------------------------------------------------------
(* Properties. *)

(* However checks overlap, and whatever a cancellation overwrites, a       *)
(* request is claimed once at most, and never after its owner withdrew it  *)
(* while it was pending.                                                   *)
ClaimedOnce ==
  \A r \in Requests : claims[r] <= (IF r \in withdrawn THEN 0 ELSE 1)

(* RACE-10: once the account is erased, every hub it was known in has a job*)
(* to strip its envelopes, whichever crash, failure or second erasure came;*)
(* except a hub it came into after the erasure had read the hubs.          *)
ErasedHasJobs ==
  user = "erased" =>
    \A h \in held \ missed : \E n \in Runs : jobs[<<h, n>>] # "none"

(* A job that says completed has stripped its hub's tables, although they  *)
(* were counted once at its beginning, two checks may process it at once,  *)
(* and either may stop half way: all that is left is what the user wrote,  *)
(* for its author, and what was sealed afterwards.                         *)
CompletedJobIsClean ==
  \A j \in DOMAIN jobs :
    jobs[j] = "completed" => \A k \in copies[j[1]] \ {Authored} : <<j[1], k>> \in late

(* A request whose delay is over does not stay pending.                    *)
DueIsTaken ==
  \A r \in Requests : (r \in Pending \cap due) ~> (r \notin Pending)

(* A request that is executing is decided, unless the process stopped or   *)
(* the recording of a failure failed too: one failure is recorded always.  *)
ExecutingSettles ==
  \A r \in Requests :
    (request[r] = "executing") ~> (request[r] # "executing" \/ crashes > 0 \/ faults > 1)

(* A queued job is completed, unless the process stopped or the database   *)
(* failed meanwhile.                                                       *)
QueuedCompletes ==
  \A j \in Hubs \X Runs :
    (jobs[j] = "queued") ~> (jobs[j] = "completed" \/ crashes > 0 \/ faults > 0)

(* What the comment on the audit call promises: the entry is only committed*)
(* when the erasure is.                                                    *)
AuditedMeansErased ==
  audited => user = "erased" \/ \E w \in Runners : At(w, {"check", "admin"}, "commit")

(* What the re-encryption worker's comment promises: the account's copies  *)
(* are removed from the envelopes of notes, replies and messages.          *)
CompletedJobLeavesNothing ==
  \A j \in DOMAIN jobs :
    jobs[j] = "completed" => \A k \in copies[j[1]] : <<j[1], k>> \in late

(* What the comment on reading the hubs first is after: an erasure queues a*)
(* job for every hub with envelopes of the account.                        *)
CopiesHaveJobs ==
  user = "erased" =>
    \A h \in Hubs, k \in Tables :
      k \in copies[h] /\ <<h, k>> \notin late =>
        h \in missed \/ \E n \in Runs : jobs[<<h, n>>] # "none"
=============================================================================
