---------------------------- MODULE Erasure_proofs ----------------------------
(***************************************************************************)
(* What Erasure guarantees for any requests, hubs, tables, overlapping     *)
(* checks, erasures, failures and restarts.                                *)
(***************************************************************************)
EXTENDS Erasure, FiniteSetTheorems, TLAPS

Jobs == Hubs \X Runs
Programs == {Idle, [kind |-> "create"]} \cup Cancelling \cup Erasing \cup Stripping

(* The types this argument needs.  That `erasures` stays within its bound  *)
(* is a matter of how many requests there are, and comes last.             *)
Typed ==
  /\ request \in [Requests -> Statuses]
  /\ user \in {"active", "erased"}
  /\ keys \subseteq Hubs
  /\ copies \in [Hubs -> SUBSET Tables]
  /\ jobs \in [Jobs -> JobStatuses]
  /\ held \subseteq Hubs
  /\ erasures \in Nat
  /\ run \in [Runners -> Programs]
  /\ claims \in [Requests -> Nat]

(* A request that was claimed, or withdrawn, is never pending again, and   *)
(* was not both.                                                           *)
RequestTrue(r) ==
  /\ claims[r] \in {0, 1}
  /\ claims[r] = 1 \/ r \in withdrawn => request[r] \notin {"none", "pending"}
  /\ r \in withdrawn => claims[r] = 0

(* Only an erasure queues jobs.                                            *)
AccountTrue ==
  /\ user = "active" => erasures = 0
  /\ \A j \in Jobs : jobs[j] # "none" => user = "erased"

IsReading(p) == p.kind \in {"check", "admin"} /\ p.phase \in {"audit", "commit"}
IsJob(p) == p.kind = "jobs" /\ p.phase \in {"strip", "report"}

(* An erasure that has read the hubs misses only those in `missed`.        *)
ReadingTrue(p) == IsReading(p) /\ user = "active" => Known \subseteq p.hubs \cup missed

(* All a job has not stripped yet is ahead of it, or was sealed too late,  *)
(* but for the notes of the account.                                       *)
Ahead(p, k) == k \in p.counted /\ IF p.phase = "strip" THEN k >= p.pass ELSE k > p.pass

JobTrue(p) ==
  /\ p.kind = "jobs" => \A j \in p.todo : jobs[j] # "none"
  /\ p.kind = "jobs" /\ p.phase = "next" => p.pass = 1
  /\ IsJob(p) => /\ p.job \in Jobs /\ jobs[p.job] # "none"
                 /\ \A k \in copies[p.job[1]] \ {Authored} : <<p.job[1], k>> \in late \/ Ahead(p, k)

InFlight == {run[w] : w \in Runners}

(* The inductive invariant.                                                *)
IInv ==
  /\ Typed
  /\ \A r \in Requests : RequestTrue(r)
  /\ AccountTrue
  /\ ErasedHasJobs
  /\ CompletedJobIsClean
  /\ \A p \in InFlight : ReadingTrue(p) /\ JobTrue(p)

----------------------------------------------------------------------------
(* What a program does in one phase is told by its kind. *)

(* A program of a kind has the fields of that kind.                        *)
LEMMA KindsTell ==
  ASSUME NEW p \in Programs
  PROVE  /\ p.kind \in {"check", "admin"} => p \in Erasing
         /\ p.kind = "jobs" => p \in Stripping
         /\ p.kind = "cancel" => p \in Cancelling
  BY DEF Programs, Idle, Cancelling, Erasing, Stripping

(* A check that has nothing left is idle, or begins with its next request. *)
LEMMA AfterErasingType ==
  ASSUME NEW p \in Erasing
  PROVE  /\ AfterErasing(p) \in Programs
         /\ ~IsReading(AfterErasing(p)) /\ AfterErasing(p).kind # "jobs"
  <1>1. BeginErasing("check", p.todo, "claim") \in Erasing
    BY DEF BeginErasing, Erasing
  <1> QED  BY <1>1 DEF AfterErasing, BeginErasing, Idle, IsReading, Programs

(* Likewise a check of jobs.                                               *)
LEMMA AfterJobType ==
  ASSUME NEW p \in Stripping
  PROVE  /\ AfterJob(p) \in Programs
         /\ AfterJob(p) = Idle \/ AfterJob(p) = BeginStripping(p.todo)
  <1>1. 1 \in Passes
    BY ErasureConstants DEF Passes
  <1>2. BeginStripping(p.todo) \in Stripping
    BY <1>1 DEF BeginStripping, Stripping
  <1> QED  BY <1>2 DEF AfterJob, Programs

(* Programs that hold nothing yet.                                         *)
LEMMA BeginningsTrue ==
  ASSUME NEW p, p.kind \in {"idle", "create", "cancel"} \/ (p.kind \in {"check", "admin"} /\ ~IsReading(p))
  PROVE  ReadingTrue(p) /\ JobTrue(p)
  BY DEF ReadingTrue, JobTrue, IsReading, IsJob

(* One program changes.                                                    *)
LEMMA OneProgram ==
  ASSUME Typed, NEW w \in Runners, NEW p \in Programs, Become(w, p)
  PROVE  run' \in [Runners -> Programs] /\ InFlight' \subseteq InFlight \cup {p}
  BY DEF Typed, Become, InFlight

(* A step that leaves the account's data and jobs alone keeps the invariant*)
(* if its program and its requests do.                                     *)
LEMMA StillKeeps ==
  ASSUME IInv, UNCHANGED <<user, keys, copies, jobs, erasures, missed, held, late>>,
         Typed', \A r \in Requests : RequestTrue(r)',
         NEW p, InFlight' \subseteq InFlight \cup {p}, ReadingTrue(p) /\ JobTrue(p)
  PROVE  IInv'
  <1>1. AccountTrue' /\ ErasedHasJobs' /\ CompletedJobIsClean'
    BY DEF IInv, AccountTrue, ErasedHasJobs, CompletedJobIsClean
  <1>2. ASSUME NEW q \in InFlight'  PROVE ReadingTrue(q)' /\ JobTrue(q)'
    <2>1. ReadingTrue(q) /\ JobTrue(q)
      BY DEF IInv
    <2> QED  BY <2>1 DEF ReadingTrue, JobTrue, Ahead, Known
  <1> QED  BY <1>1, <1>2 DEF IInv

(* A step of one program that changes nothing else.                        *)
LEMMA ProgramKeeps ==
  ASSUME IInv, UNCHANGED <<user, keys, copies, jobs, erasures, missed, held, late, request, claims, withdrawn>>,
         NEW w \in Runners, NEW p \in Programs, Become(w, p), ReadingTrue(p) /\ JobTrue(p)
  PROVE  IInv'
  <1>1. Typed' /\ InFlight' \subseteq InFlight \cup {p}
    BY OneProgram DEF IInv, Typed
  <1>2. \A r \in Requests : RequestTrue(r)'
    BY DEF IInv, RequestTrue
  <1> QED  BY <1>1, <1>2, StillKeeps

----------------------------------------------------------------------------
(* Requests. *)

(* Creating, cancelling and the checks' reads begin a program.             *)
LEMMA BeginKeeps ==
  ASSUME IInv, NEW w \in Runners, NEW r,
         CreateReads(w) \/ (r \in Requests /\ CancelReads(w, r)) \/ CheckReads(w) \/ AdminErases(w)
  PROVE  IInv'
  <1>1. UNCHANGED <<user, keys, copies, jobs, erasures, missed, held, late, request, claims, withdrawn>>
    BY DEF CreateReads, CancelReads, CheckReads, AdminErases, rows, history
  <1>2. PICK p \in Programs : Become(w, p) /\ ReadingTrue(p) /\ JobTrue(p)
    <2>1. CASE CreateReads(w)
      BY <2>1, BeginningsTrue DEF CreateReads, Programs
    <2>2. CASE r \in Requests /\ CancelReads(w, r)
      BY <2>2, BeginningsTrue DEF CancelReads, Programs, Cancelling
    <2>3. CASE CheckReads(w) \/ AdminErases(w)
      <3>1. /\ BeginErasing("check", Pending \cap due, "claim") \in Programs
            /\ BeginErasing("admin", {}, "members") \in Programs
        BY DEF BeginErasing, Programs, Erasing, Pending
      <3>2. PICK p \in Programs : /\ Become(w, p) /\ p.kind \in {"check", "admin"}
                                  /\ p.phase \in {"claim", "members"}
        BY <2>3, <3>1 DEF CheckReads, AdminErases, BeginErasing
      <3> QED  BY <3>2, BeginningsTrue DEF IsReading
    <2> QED  BY <2>1, <2>2, <2>3
  <1> QED  BY <1>1, <1>2, ProgramKeeps

(* A request becomes pending only when it was none, and is claimed only    *)
(* when it is pending.                                                     *)
LEMMA RequestWritesKeep ==
  ASSUME IInv, NEW w \in Runners, CreateInserts(w) \/ CancelWrites(w) \/ MarksFailed(w)
  PROVE  IInv'
  <1>1. UNCHANGED <<user, keys, copies, jobs, erasures, missed, held, late, claims>>
    BY DEF CreateInserts, CancelWrites, MarksFailed, history
  <1>2. PICK r, v : /\ SetRequest(r, v) /\ v \in Statuses
                    /\ v = "pending" => request[r] = "none" /\ r \in Requests
                    /\ v # "none"
                    /\ withdrawn' \in {withdrawn, withdrawn \cup {r}}
                    /\ withdrawn' # withdrawn => r \in Pending /\ v = "cancelled"
    <2>1. CASE CreateInserts(w)
      BY <2>1 DEF CreateInserts, Statuses, history
    <2>2. CASE CancelWrites(w)
      BY <2>2 DEF CancelWrites, Statuses
    <2>3. CASE MarksFailed(w)
      BY <2>3 DEF MarksFailed, Statuses, history
    <2> QED  BY <2>1, <2>2, <2>3
  <1>3. request' \in [Requests -> Statuses]
    BY <1>2 DEF IInv, Typed, SetRequest
  <1>4. PICK p \in Programs : Become(w, p) /\ ReadingTrue(p) /\ JobTrue(p)
    <2>1. CASE CreateInserts(w) \/ CancelWrites(w)
      BY <2>1, BeginningsTrue DEF CreateInserts, CancelWrites, Idle, Programs
    <2>2. CASE MarksFailed(w)
      <3>1. run[w] \in Erasing /\ Become(w, AfterErasing(run[w]))
        BY <2>2, KindsTell DEF MarksFailed, At, IInv, Typed
      <3>2. PICK q \in Erasing : q = run[w]
        BY <3>1
      <3>3. PICK p : p = AfterErasing(q)
        OBVIOUS
      <3>4. p \in Programs /\ ~IsReading(p) /\ p.kind # "jobs"
        BY <3>3, AfterErasingType
      <3> QED  BY <3>1, <3>2, <3>3, <3>4 DEF ReadingTrue, JobTrue, IsJob
    <2> QED  BY <2>1, <2>2
  <1>5. Typed' /\ InFlight' \subseteq InFlight \cup {p}
    BY <1>1, <1>3, <1>4, OneProgram DEF IInv, Typed
  <1>6. ASSUME NEW s \in Requests  PROVE RequestTrue(s)'
    <2>1. RequestTrue(s) /\ request \in [Requests -> Statuses]
      BY DEF IInv, Typed
    <2> QED  BY <1>1, <1>2, <2>1 DEF RequestTrue, SetRequest, Pending
  <1> QED  BY <1>1, <1>4, <1>5, <1>6, StillKeeps

(* A program in flight is one, and what it holds is true.                  *)
LEMMA FlightTrue ==
  ASSUME IInv, NEW w \in Runners
  PROVE  run[w] \in Programs /\ ReadingTrue(run[w]) /\ JobTrue(run[w])
  <1>1. run[w] \in InFlight /\ run[w] \in Programs
    BY DEF InFlight, IInv, Typed
  <1> QED  BY <1>1 DEF IInv

(* A check that goes on to its next request holds nothing.                 *)
LEMMA AfterErasingTrue ==
  ASSUME NEW p \in Erasing
  PROVE  /\ AfterErasing(p) \in Programs
         /\ ReadingTrue(AfterErasing(p)) /\ JobTrue(AfterErasing(p))
  BY AfterErasingType DEF ReadingTrue, JobTrue, IsJob

(* The claim counts only a request that is pending.                        *)
LEMMA ClaimsKeeps ==
  ASSUME IInv, NEW w \in Runners, Claims(w)
  PROVE  IInv'
  <1>1. UNCHANGED <<user, keys, copies, jobs, erasures, missed, held, late, withdrawn>>
    BY DEF Claims
  <1>2. PICK q \in Erasing : q = run[w] /\ q.kind = "check"
    BY FlightTrue, KindsTell DEF Claims, At
  <1>3. PICK r \in q.todo :
          IF r \in Pending
            THEN /\ SetRequest(r, "executing")
                 /\ claims' = [claims EXCEPT ![r] = @ + 1]
                 /\ Become(w, [q EXCEPT !.todo = @ \ {r}, !.request = r, !.phase = "members"])
            ELSE /\ Become(w, AfterErasing([q EXCEPT !.todo = @ \ {r}]))
                 /\ UNCHANGED <<request, claims>>
    BY <1>2 DEF Claims
  <1>4. CASE r \in Pending
    <2> DEFINE p == [q EXCEPT !.todo = @ \ {r}, !.request = r, !.phase = "members"]
    <2>1. p \in Erasing /\ p.kind = "check" /\ p.phase = "members"
      BY <1>2, <1>4 DEF Erasing, Pending
    <2>2. p \in Programs /\ ReadingTrue(p) /\ JobTrue(p)
      BY <2>1, BeginningsTrue DEF Programs, IsReading
    <2>3. Typed' /\ InFlight' \subseteq InFlight \cup {p}
      <3>1. claims' \in [Requests -> Nat] /\ request' \in [Requests -> Statuses]
        BY <1>3, <1>4 DEF SetRequest, IInv, Typed, Statuses
      <3>2. run' \in [Runners -> Programs] /\ InFlight' \subseteq InFlight \cup {p}
        BY <1>3, <1>4, <2>2, OneProgram DEF IInv
      <3> QED  BY <1>1, <3>1, <3>2 DEF IInv, Typed
    <2>4. ASSUME NEW s \in Requests  PROVE RequestTrue(s)'
      <3>1. /\ RequestTrue(s) /\ request \in [Requests -> Statuses]
            /\ claims \in [Requests -> Nat] /\ r \in Requests
        BY <1>4 DEF IInv, Typed, Pending
      <3> QED  BY <1>1, <1>3, <1>4, <3>1 DEF RequestTrue, SetRequest, Pending
    <2> QED  BY <1>1, <2>2, <2>3, <2>4, StillKeeps
  <1>5. CASE r \notin Pending
    <2>1. [q EXCEPT !.todo = @ \ {r}] \in Erasing
      BY <1>2 DEF Erasing
    <2>2. PICK p : p = AfterErasing([q EXCEPT !.todo = @ \ {r}])
      OBVIOUS
    <2>3. p \in Programs /\ ReadingTrue(p) /\ JobTrue(p)
      BY <2>1, <2>2, AfterErasingTrue
    <2> QED  BY <1>1, <1>3, <1>5, <2>2, <2>3, ProgramKeeps
  <1> QED  BY <1>4, <1>5

----------------------------------------------------------------------------
(* Erasing. *)

(* Auditing, wiping and every failure leave the account as it is.          *)
LEMMA ErasingGoesOn ==
  ASSUME IInv, NEW w \in Runners, LogsErasure(w) \/ Wipes(w) \/ ErasingFails(w)
  PROVE  IInv'
  <1>1. UNCHANGED <<user, keys, copies, jobs, erasures, missed, held, late, request, claims, withdrawn>>
    BY DEF LogsErasure, Wipes, ErasingFails, rows, history
  <1>2. PICK q \in Erasing : q = run[w] /\ q.kind \in {"check", "admin"}
    BY FlightTrue, KindsTell DEF LogsErasure, Wipes, ErasingFails, At
  <1>3. PICK p \in Programs : Become(w, p) /\ ReadingTrue(p) /\ JobTrue(p)
    <2>1. CASE LogsErasure(w)
      <3> DEFINE p == [q EXCEPT !.phase = "commit"]
      <3>1. /\ p \in Erasing /\ Become(w, p) /\ IsReading(q)
            /\ p.kind = q.kind /\ p.hubs = q.hubs
        BY <1>2, <2>1 DEF LogsErasure, At, Erasing, IsReading
      <3>2. ReadingTrue(p) /\ JobTrue(p)
        BY <1>2, <3>1, FlightTrue DEF ReadingTrue, JobTrue, IsJob
      <3> QED  BY <3>1, <3>2 DEF Programs
    <2>2. CASE Wipes(w)
      <3>1. PICK p : p = AfterErasing(q)
        OBVIOUS
      <3> QED  BY <1>2, <2>2, <3>1, AfterErasingTrue DEF Wipes
    <2>3. CASE ErasingFails(w)
      <3>1. CASE Become(w, Idle)
        BY <3>1, BeginningsTrue DEF Idle, Programs
      <3>2. CASE ~Become(w, Idle)
        <4>1. PICK p \in Erasing : Become(w, p) /\ p.kind = "check" /\ p.phase = "fail"
          <5>1. CASE At(w, {"check"}, "claim") /\ \E r \in q.todo :
                       Become(w, [q EXCEPT !.todo = @ \ {r}, !.request = r, !.phase = "fail"])
            <6>1. PICK r \in q.todo :
                    Become(w, [q EXCEPT !.todo = @ \ {r}, !.request = r, !.phase = "fail"])
              BY <5>1
            <6>2. /\ [q EXCEPT !.todo = @ \ {r}, !.request = r, !.phase = "fail"] \in Erasing
                  /\ q.kind = "check"
              BY <1>2, <5>1 DEF Erasing, At
            <6> QED  BY <6>1, <6>2 DEF Erasing
          <5>2. CASE q.kind = "check" /\ Become(w, [q EXCEPT !.phase = "fail"])
            <6>1. [q EXCEPT !.phase = "fail"] \in Erasing
              BY <1>2 DEF Erasing
            <6> QED  BY <5>2, <6>1 DEF Erasing
          <5> QED  BY <1>2, <2>3, <3>2, <5>1, <5>2 DEF ErasingFails
        <4> QED  BY <4>1, BeginningsTrue DEF IsReading, Programs
      <3> QED  BY <3>1, <3>2
    <2> QED  BY <2>1, <2>2, <2>3
  <1> QED  BY <1>1, <1>3, ProgramKeeps

(* Time passes.                                                            *)
LEMMA ElapsesKeeps ==
  ASSUME IInv, NEW r, Elapses(r)
  PROVE  IInv'
  <1>1. Typed' /\ InFlight' \subseteq InFlight \cup {Idle}
    BY DEF Elapses, history, IInv, Typed, InFlight
  <1>2. \A s \in Requests : RequestTrue(s)'
    BY DEF Elapses, history, IInv, RequestTrue
  <1>3. ReadingTrue(Idle) /\ JobTrue(Idle)
    BY BeginningsTrue DEF Idle
  <1> QED  BY <1>1, <1>2, <1>3, StillKeeps DEF Elapses, history

(* A restart leaves no program.                                            *)
LEMMA CrashKeeps ==
  ASSUME IInv, Crash
  PROVE  IInv'
  <1>1. Typed' /\ InFlight' \subseteq InFlight \cup {Idle}
    BY DEF Crash, rows, history, IInv, Typed, InFlight, Programs
  <1>2. \A s \in Requests : RequestTrue(s)'
    BY DEF Crash, rows, history, IInv, RequestTrue
  <1>3. ReadingTrue(Idle) /\ JobTrue(Idle)
    BY BeginningsTrue DEF Idle
  <1> QED  BY <1>1, <1>2, <1>3, StillKeeps DEF Crash, rows, history

----------------------------------------------------------------------------
(* What the account's data and jobs may do under a program. *)

(* A job that exists keeps existing.                                       *)
JobsLast == \A j \in Jobs : jobs[j] # "none" => jobs'[j] # "none"

(* Of an erased account nothing is sealed that is not noted as late.       *)
CopiesLast ==
  user = "erased" =>
    \A h \in Hubs : \A k \in copies'[h] \ {Authored} :
      <<h, k>> \in late' \/ (k \in copies[h] /\ <<h, k>> \notin late)

(* What a program holds outlives a step that leaves the hubs alone.        *)
LEMMA ProgramLasts ==
  ASSUME IInv, Typed', NEW p \in Programs, ReadingTrue(p), JobTrue(p),
         JobsLast, CopiesLast, user' = "active" => user = "active" /\ Known' \subseteq Known /\ missed' = missed
  PROVE  ReadingTrue(p)' /\ JobTrue(p)'
  <1>1. ReadingTrue(p)'
    BY DEF ReadingTrue
  <1>2. ASSUME p.kind = "jobs"  PROVE \A j \in p.todo : jobs'[j] # "none"
    <2>1. p.todo \subseteq Jobs
      BY <1>2, KindsTell DEF Stripping, Jobs
    <2> QED  BY <1>2, <2>1 DEF JobTrue, JobsLast
  <1>3. ASSUME IsJob(p)
        PROVE  /\ p.job \in Jobs /\ jobs'[p.job] # "none"
               /\ \A k \in copies'[p.job[1]] \ {Authored} : <<p.job[1], k>> \in late' \/ Ahead(p, k)
    <2>1. p.job \in Jobs /\ jobs[p.job] # "none" /\ user = "erased"
      BY <1>3 DEF JobTrue, IInv, AccountTrue
    <2>2. p.job[1] \in Hubs
      BY <2>1 DEF Jobs
    <2> QED  BY <1>3, <2>1, <2>2 DEF JobTrue, JobsLast, CopiesLast
  <1>4. JobTrue(p)'
    BY <1>2, <1>3 DEF JobTrue, Ahead
  <1> QED  BY <1>1, <1>4

(* So does everything the programs in flight hold.                         *)
LEMMA FlightLasts ==
  ASSUME IInv, Typed', JobsLast, CopiesLast,
         user' = "active" => user = "active" /\ Known' \subseteq Known /\ missed' = missed,
         NEW p, InFlight' \subseteq InFlight \cup {p}, ReadingTrue(p)' /\ JobTrue(p)'
  PROVE  \A q \in InFlight' : ReadingTrue(q)' /\ JobTrue(q)'
  <1> SUFFICES ASSUME NEW q \in InFlight'  PROVE ReadingTrue(q)' /\ JobTrue(q)'
    OBVIOUS
  <1>1. CASE q \in InFlight
    <2>1. q \in Programs /\ ReadingTrue(q) /\ JobTrue(q)
      BY <1>1 DEF IInv, Typed, InFlight
    <2> QED  BY <2>1, ProgramLasts
  <1>2. CASE q = p
    BY <1>2
  <1> QED  BY <1>1, <1>2

(* Requests that are left alone, or only completed, stay true.             *)
LEMMA RequestsLast ==
  ASSUME IInv, UNCHANGED <<claims, withdrawn>>,
         \A r \in Requests : request'[r] = request[r] \/ request'[r] = "completed"
  PROVE  \A r \in Requests : RequestTrue(r)'
  BY DEF IInv, RequestTrue

----------------------------------------------------------------------------
(* The user's world, and the erasure itself. *)

(* The user's world leaves the programs, the jobs and the requests alone;  *)
(* it keeps the invariant if it notes what it brings to an erasure that has*)
(* read, and to an erased account.                                         *)
LEMMA WorldKeeps ==
  ASSUME IInv, UNCHANGED <<user, jobs, erasures, run, request, claims, withdrawn, held>>, Typed',
         user = "active" \/ missed' = missed, CopiesLast,
         \A q \in InFlight : IsReading(q) /\ user = "active" =>
                            missed \subseteq missed' /\ Known' \subseteq Known \cup missed'
  PROVE  IInv'
  <1>1. AccountTrue'
    BY DEF IInv, AccountTrue
  <1>2. ErasedHasJobs'
    BY DEF IInv, ErasedHasJobs
  <1>3. CompletedJobIsClean'
    <2> SUFFICES ASSUME NEW j \in Jobs, jobs[j] = "completed", NEW l \in copies'[j[1]] \ {Authored}
                 PROVE  <<j[1], l>> \in late'
      BY DEF CompletedJobIsClean, Jobs, IInv, Typed
    <2>1. user = "erased" /\ j[1] \in Hubs
      BY DEF IInv, AccountTrue, Jobs
    <2>2. l \in copies[j[1]] => <<j[1], l>> \in late
      BY DEF IInv, CompletedJobIsClean, Typed
    <2> QED  BY <2>1, <2>2 DEF CopiesLast
  <1>4. ASSUME NEW q \in InFlight'  PROVE ReadingTrue(q)' /\ JobTrue(q)'
    <2>1. q \in InFlight /\ q \in Programs /\ ReadingTrue(q) /\ JobTrue(q)
      BY DEF IInv, InFlight, Typed
    <2>2. ReadingTrue(q)'
      BY <2>1 DEF ReadingTrue
    <2>3. ASSUME IsJob(q), NEW l \in copies'[q.job[1]] \ {Authored}
          PROVE  <<q.job[1], l>> \in late' \/ Ahead(q, l)
      <3>1. q.job \in Jobs /\ user = "erased"
        BY <2>1, <2>3 DEF JobTrue, IInv, AccountTrue
      <3>2. q.job[1] \in Hubs
        BY <3>1 DEF Jobs
      <3> QED  BY <2>1, <2>3, <3>1, <3>2 DEF JobTrue, CopiesLast
    <2> QED  BY <2>1, <2>2, <2>3 DEF JobTrue, Ahead
  <1>5. \A r \in Requests : RequestTrue(r)'
    BY RequestsLast
  <1> QED  BY <1>1, <1>2, <1>3, <1>4, <1>5 DEF IInv

(* An erasure in flight that has read is one of those that `Misses` means. *)
LEMMA MissesNotes ==
  ASSUME IInv, Misses, NEW q \in InFlight, IsReading(q), user = "active"
  PROVE  missed \subseteq missed' /\ Known' \subseteq Known \cup missed'
  <1>1. Reading # {}
    BY DEF InFlight, Reading, IsReading
  <1> QED  BY <1>1 DEF Misses

(* A rotation of a hub's keys.                                             *)
LEMMA SetsHubKeysKeeps ==
  ASSUME IInv, NEW h \in Hubs, SetsHubKeys(h)
  PROVE  IInv'
  <1>1. /\ UNCHANGED <<user, jobs, erasures, run, request, claims, withdrawn, held, copies, late>>
        /\ keys' \subseteq Hubs /\ Misses
    BY DEF SetsHubKeys, IInv, Typed
  <1>2. Typed'
    BY <1>1 DEF IInv, Typed
  <1>3. user = "active" \/ missed' = missed
    BY <1>1 DEF Misses
  <1>4. CopiesLast
    BY <1>1 DEF CopiesLast
  <1> QED  BY <1>1, <1>2, <1>3, <1>4, WorldKeeps, MissesNotes

(* What is sealed for an erased account is late.                           *)
LEMMA SealsKeeps ==
  ASSUME IInv, NEW h \in Hubs, NEW k \in Tables, Seals(h, k)
  PROVE  IInv'
  <1>1. /\ UNCHANGED <<user, jobs, erasures, run, request, claims, withdrawn, held, keys>>
        /\ copies' = [copies EXCEPT ![h] = @ \cup {k}]
        /\ late' = IF user = "erased" THEN late \cup {<<h, k>>} ELSE late
        /\ k \notin copies[h] /\ Misses
    BY DEF Seals
  <1>2. Typed'
    BY <1>1 DEF IInv, Typed
  <1>3. \A g \in Hubs : copies'[g] = IF g = h THEN copies[g] \cup {k} ELSE copies[g]
    BY <1>1 DEF IInv, Typed
  <1>4. user = "active" \/ missed' = missed
    BY <1>1 DEF Misses
  <1>5. CopiesLast
    BY <1>1, <1>3 DEF CopiesLast
  <1> QED  BY <1>1, <1>2, <1>4, <1>5, WorldKeeps, MissesNotes

(* Deleting envelopes leaves the others as they were.                      *)
LEMMA DeletesKeeps ==
  ASSUME IInv, NEW h \in Hubs, NEW k \in Tables, Deletes(h, k)
  PROVE  IInv'
  <1>1. /\ UNCHANGED <<user, jobs, erasures, run, request, claims, withdrawn, held, keys, missed>>
        /\ copies' = [copies EXCEPT ![h] = @ \ {k}]
        /\ late' = late \ {<<h, k>>}
    BY DEF Deletes
  <1>2. Typed'
    BY <1>1 DEF IInv, Typed
  <1>3. \A g \in Hubs : copies'[g] = IF g = h THEN copies[g] \ {k} ELSE copies[g]
    BY <1>1 DEF IInv, Typed
  <1>4. CopiesLast
    BY <1>1, <1>3 DEF CopiesLast
  <1>5. Known' \subseteq Known
    BY <1>1, <1>3 DEF Known
  <1> QED  BY <1>1, <1>2, <1>4, <1>5, WorldKeeps

(* An erasure reads all hubs of the account.                               *)
LEMMA ReadsHubsKeeps ==
  ASSUME IInv, NEW w \in Runners, ReadsHubs(w)
  PROVE  IInv'
  <1>1. /\ UNCHANGED <<user, keys, copies, jobs, held, late, erasures, request, claims, withdrawn>>
        /\ missed' = IF user = "active" /\ Reading = {} THEN {} ELSE missed
    BY DEF ReadsHubs, rows
  <1>2. PICK q \in Erasing : q = run[w] /\ q.kind \in {"check", "admin"}
    BY FlightTrue, KindsTell DEF ReadsHubs, At
  <1> DEFINE p == [q EXCEPT !.hubs = Known, !.phase = "audit"]
  <1>3. /\ p \in Erasing /\ p.hubs = Known /\ p.kind \in {"check", "admin"}
        /\ Become(w, p)
    BY <1>2 DEF ReadsHubs, Erasing, IInv, Typed, Known
  <1>4. Typed' /\ InFlight' \subseteq InFlight \cup {p}
    <2>1. p \in Programs
      BY <1>3 DEF Programs
    <2> QED  BY <1>1, <1>3, <2>1, OneProgram DEF IInv, Typed
  <1>5. AccountTrue' /\ ErasedHasJobs' /\ CompletedJobIsClean'
    BY <1>1 DEF IInv, AccountTrue, ErasedHasJobs, CompletedJobIsClean, Typed
  <1>8. Known' = Known
    BY <1>1 DEF Known
  <1>6. ASSUME NEW r \in InFlight'  PROVE ReadingTrue(r)' /\ JobTrue(r)'
    <2>1. CASE r \in InFlight
      <3>1. ReadingTrue(r) /\ JobTrue(r)
        BY <2>1 DEF IInv
      <3>2. JobTrue(r)'
        BY <1>1, <3>1 DEF JobTrue, Ahead
      <3>3. IsReading(r) => Reading # {}
        BY <2>1 DEF InFlight, Reading, IsReading
      <3> QED  BY <1>1, <1>8, <3>1, <3>2, <3>3 DEF ReadingTrue
    <2>2. CASE r = p
      BY <1>1, <1>3, <1>8, <2>2 DEF ReadingTrue, JobTrue, IsJob
    <2> QED  BY <1>4, <2>1, <2>2
  <1>7. \A r \in Requests : RequestTrue(r)'
    BY <1>1, RequestsLast
  <1> QED  BY <1>4, <1>5, <1>6, <1>7 DEF IInv

(* The commit of the first erasure queues a job for every hub it has read. *)
LEMMA CommitsKeeps ==
  ASSUME IInv, NEW w \in Runners, Commits(w)
  PROVE  IInv'
  <1>1. PICK q \in Erasing : /\ q = run[w] /\ q.kind \in {"check", "admin"} /\ q.phase = "commit"
                             /\ ReadingTrue(q)
    BY FlightTrue, KindsTell DEF Commits, At
  <1>2. /\ user' = "erased" /\ erasures' = erasures + 1
        /\ keys' = {} /\ held' = IF user = "active" THEN Known ELSE held
        /\ UNCHANGED <<copies, missed, late, claims, withdrawn>>
        /\ jobs' = [j \in DOMAIN jobs |->
                     IF j[1] \in q.hubs /\ j[2] = erasures + 1 THEN "queued" ELSE jobs[j]]
        /\ request' = [r \in Requests |->
                        IF request[r] = "executing" THEN "completed" ELSE request[r]]
        /\ Become(w, [q EXCEPT !.phase = "wipe"])
    BY <1>1 DEF Commits
  <1> DEFINE p == [q EXCEPT !.phase = "wipe"]
  <1>3. p \in Programs /\ p.kind \in {"check", "admin"} /\ p.phase = "wipe"
    BY <1>1 DEF Erasing, Programs
  <1>4. /\ DOMAIN jobs = Jobs /\ jobs' \in [Jobs -> JobStatuses]
        /\ \A j \in Jobs : jobs'[j] \in {jobs[j], "queued"}
        /\ JobsLast
    BY <1>2 DEF IInv, Typed, JobsLast, JobStatuses
  <1>5. Typed' /\ InFlight' \subseteq InFlight \cup {p}
    <2>1. request' \in [Requests -> Statuses]
      BY <1>2 DEF IInv, Typed, Statuses
    <2>2. run' \in [Runners -> Programs] /\ InFlight' \subseteq InFlight \cup {p}
      BY <1>2, <1>3, OneProgram DEF IInv
    <2>3. held' \subseteq Hubs /\ keys' \subseteq Hubs
      BY <1>2 DEF IInv, Typed, Known
    <2> QED  BY <1>2, <1>4, <2>1, <2>2, <2>3 DEF IInv, Typed
  <1>6. AccountTrue'
    BY <1>2 DEF AccountTrue
  <1>7. ErasedHasJobs'
    <2> SUFFICES ASSUME NEW h \in held' \ missed
                 PROVE  \E n \in Runs : jobs'[<<h, n>>] # "none"
      BY <1>2 DEF ErasedHasJobs
    <2>0. h \in Hubs
      BY <1>2 DEF IInv, Typed, Known
    <2>1. CASE user = "erased"
      <3>1. PICK n \in Runs : jobs[<<h, n>>] # "none"
        BY <1>2, <2>1 DEF IInv, ErasedHasJobs
      <3>2. <<h, n>> \in Jobs
        BY <3>1, <2>0 DEF Jobs
      <3> QED  BY <1>4, <3>1, <3>2 DEF JobsLast
    <2>2. CASE user = "active"
      <3>1. h \in q.hubs /\ erasures = 0
        BY <1>1, <1>2, <2>2 DEF IInv, AccountTrue, ReadingTrue, IsReading
      <3>2. 1 \in Runs /\ <<h, 1>> \in Jobs
        BY <2>0, ErasureConstants DEF Runs, Jobs
      <3>3. jobs'[<<h, 1>>] = "queued"
        BY <1>2, <1>4, <3>1, <3>2
      <3> QED  BY <3>2, <3>3
    <2> QED  BY <2>1, <2>2 DEF IInv, Typed
  <1>8. CompletedJobIsClean'
    BY <1>2, <1>4, <1>5 DEF IInv, CompletedJobIsClean, Typed
  <1>9. \A r \in InFlight' : ReadingTrue(r)' /\ JobTrue(r)'
    <2>1. CopiesLast
      BY <1>2 DEF CopiesLast
    <2>2. ReadingTrue(p)' /\ JobTrue(p)'
      BY <1>3 DEF ReadingTrue, JobTrue, IsReading, IsJob
    <2> QED  BY <1>2, <1>4, <1>5, <2>1, <2>2, FlightLasts
  <1>10. \A r \in Requests : RequestTrue(r)'
    BY <1>2, RequestsLast
  <1> QED  BY <1>5, <1>6, <1>7, <1>8, <1>9, <1>10 DEF IInv

----------------------------------------------------------------------------
(* The re-encryption worker. *)

(* A check of jobs that begins with jobs that exist.                       *)
LEMMA BeginStrippingTrue ==
  ASSUME Typed, NEW todo \in SUBSET Jobs, \A j \in todo : jobs[j] # "none"
  PROVE  /\ BeginStripping(todo) \in Programs
         /\ ReadingTrue(BeginStripping(todo)) /\ JobTrue(BeginStripping(todo))
  <1>1. BeginStripping(todo) \in Stripping
    BY ErasureConstants DEF BeginStripping, Stripping, Passes, Jobs
  <1> QED  BY <1>1 DEF BeginStripping, ReadingTrue, JobTrue, IsReading, IsJob, Programs

(* A check that is done with a job goes on with the others it has read.    *)
LEMMA AfterJobTrue ==
  ASSUME Typed, NEW p \in Stripping, \A j \in p.todo : jobs[j] # "none"
  PROVE  AfterJob(p) \in Programs /\ ReadingTrue(AfterJob(p)) /\ JobTrue(AfterJob(p))
  <1>1. p.todo \in SUBSET Jobs
    BY DEF Stripping, Jobs
  <1>2. /\ BeginStripping(p.todo) \in Programs
        /\ ReadingTrue(BeginStripping(p.todo)) /\ JobTrue(BeginStripping(p.todo))
    BY <1>1, BeginStrippingTrue
  <1>3. Idle \in Programs /\ ReadingTrue(Idle) /\ JobTrue(Idle)
    BY BeginningsTrue DEF Idle, Programs
  <1> QED  BY <1>2, <1>3 DEF AfterJob

(* Reading the queue, and failing, change no job.                          *)
LEMMA JobsIdleKeep ==
  ASSUME IInv, NEW w \in Runners, JobsRead(w) \/ JobFails(w)
  PROVE  IInv'
  <1>1. UNCHANGED <<user, keys, copies, jobs, erasures, missed, held, late, request, claims, withdrawn>>
    BY DEF JobsRead, JobFails, rows, history
  <1>2. PICK p \in Programs : Become(w, p) /\ ReadingTrue(p) /\ JobTrue(p)
    <2>1. CASE JobsRead(w)
      <3>1. Queued \in SUBSET Jobs /\ \A j \in Queued : jobs[j] # "none"
        BY DEF Queued, IInv, Typed
      <3>2. PICK todo \in SUBSET Jobs : todo = Queued
        BY <3>1
      <3> QED  BY <2>1, <3>1, <3>2, BeginStrippingTrue DEF JobsRead, IInv
    <2>2. CASE JobFails(w)
      <3>1. PICK q \in Stripping : q = run[w] /\ JobTrue(q) /\ q.kind = "jobs"
        BY <2>2, FlightTrue, KindsTell DEF JobFails
      <3>2. PICK s \in Stripping : /\ Become(w, AfterJob(s)) /\ s.todo \subseteq q.todo
        <4>1. CASE q.phase = "next"
          <5>1. PICK j \in q.todo : Become(w, AfterJob([q EXCEPT !.todo = @ \ {j}]))
            BY <2>2, <3>1, <4>1 DEF JobFails
          <5>2. /\ [q EXCEPT !.todo = @ \ {j}] \in Stripping
                /\ [q EXCEPT !.todo = @ \ {j}].todo \subseteq q.todo
            BY DEF Stripping
          <5> QED  BY <5>1, <5>2
        <4>2. CASE q.phase # "next"
          BY <2>2, <3>1, <4>2 DEF JobFails
        <4> QED  BY <4>1, <4>2
      <3>3. \A j \in s.todo : jobs[j] # "none"
        BY <3>1, <3>2 DEF JobTrue
      <3>4. PICK p : p = AfterJob(s)
        OBVIOUS
      <3> QED  BY <3>2, <3>3, <3>4, AfterJobTrue DEF IInv
    <2> QED  BY <2>1, <2>2
  <1> QED  BY <1>1, <1>2, ProgramKeeps

(* A step of a job keeps the invariant if it leaves what exists in         *)
(* existence, strips rather than seals, and is right about what is done.   *)
LEMMA JobStepKeeps ==
  ASSUME IInv, UNCHANGED <<user, keys, erasures, missed, held, request, claims, withdrawn>>,
         jobs' \in [Jobs -> JobStatuses], copies' \in [Hubs -> SUBSET Tables],
         \A j \in Jobs : jobs'[j] = "none" <=> jobs[j] = "none",
         \A h \in Hubs : copies'[h] \subseteq copies[h],
         \A h \in Hubs : \A k \in copies'[h] : <<h, k>> \in late' <=> <<h, k>> \in late,
         \A j \in Jobs : jobs'[j] = "completed" /\ jobs[j] # "completed" =>
                           \A k \in copies'[j[1]] \ {Authored} : <<j[1], k>> \in late,
         NEW w \in Runners, NEW p \in Programs, Become(w, p), ReadingTrue(p)' /\ JobTrue(p)'
  PROVE  IInv'
  <1>1. Typed' /\ InFlight' \subseteq InFlight \cup {p}
    BY OneProgram DEF IInv, Typed
  <1>2. AccountTrue'
    BY DEF IInv, AccountTrue
  <1>3. ErasedHasJobs'
    <2> SUFFICES ASSUME user = "erased", NEW h \in held \ missed
                 PROVE  \E n \in Runs : jobs'[<<h, n>>] # "none"
      BY DEF ErasedHasJobs
    <2>1. PICK n \in Runs : jobs[<<h, n>>] # "none"
      BY DEF IInv, ErasedHasJobs
    <2>2. <<h, n>> \in Jobs
      BY DEF Jobs, IInv, Typed
    <2> QED  BY <2>1, <2>2
  <1>4. CompletedJobIsClean'
    <2> SUFFICES ASSUME NEW j \in Jobs, jobs'[j] = "completed", NEW k \in copies'[j[1]] \ {Authored}
                 PROVE  <<j[1], k>> \in late'
      BY DEF CompletedJobIsClean
    <2>1. j[1] \in Hubs /\ k \in copies[j[1]]
      BY DEF Jobs
    <2>2. <<j[1], k>> \in late
      BY <2>1 DEF IInv, CompletedJobIsClean, Typed
    <2> QED  BY <2>1, <2>2
  <1>5. \A q \in InFlight' : ReadingTrue(q)' /\ JobTrue(q)'
    <2>1. JobsLast /\ CopiesLast /\ Known' \subseteq Known
      BY DEF JobsLast, CopiesLast, Known
    <2> QED  BY <1>1, <2>1, FlightLasts
  <1>6. \A r \in Requests : RequestTrue(r)'
    BY RequestsLast
  <1> QED  BY <1>1, <1>2, <1>3, <1>4, <1>5, <1>6 DEF IInv

(* Nothing that a pass can strip is left out of the count.                 *)
LEMMA CountsAll ==
  ASSUME copies \in [Hubs -> SUBSET Tables], NEW h \in Hubs, NEW c \in Counts(h)
  PROVE  c \subseteq Passes /\ copies[h] \ {Authored} \subseteq c
  <1>1. copies[h] \subseteq Tables /\ 1 \in Passes /\ Authored \notin Passes
    BY ErasureConstants DEF Passes, Authored
  <1>2. CASE c = copies[h] \cap Passes
    BY <1>1, <1>2 DEF Tables
  <1>3. CASE c = {IF k = Authored THEN 1 ELSE k : k \in copies[h]}
    BY <1>1, <1>3 DEF Tables
  <1> QED  BY <1>2, <1>3 DEF Counts

(* A job counts what its hub has, and is completed when that is nothing.   *)
LEMMA JobCountsKeeps ==
  ASSUME IInv, NEW w \in Runners, JobCounts(w)
  PROVE  IInv'
  <1>1. PICK q \in Stripping : q = run[w] /\ JobTrue(q) /\ q.kind = "jobs" /\ q.phase = "next"
    BY FlightTrue, KindsTell DEF JobCounts, At
  <1>2. UNCHANGED <<user, keys, copies, late, erasures, missed, held, request, claims, withdrawn>>
    BY DEF JobCounts, history
  <1>3. copies \in [Hubs -> SUBSET Tables]
    BY DEF IInv, Typed
  <1> DEFINE Counted(j, c) ==
        LET rest == q.todo \ {j}
        IN IF jobs[j] = "completed"
             THEN Become(w, AfterJob([q EXCEPT !.todo = rest])) /\ UNCHANGED jobs
           ELSE IF c = {}
             THEN SetJob(j, "completed") /\ Become(w, AfterJob([q EXCEPT !.todo = rest]))
           ELSE /\ SetJob(j, "running")
                /\ Become(w, [q EXCEPT !.todo = rest, !.job = j, !.counted = c, !.phase = "strip"])
  <1>4. PICK j \in q.todo : \E c \in Counts(j[1]) : Counted(j, c)
    BY <1>1 DEF JobCounts
  <1>5. j \in Jobs /\ jobs[j] # "none" /\ j[1] \in Hubs /\ q.pass = 1
    BY <1>1 DEF JobTrue, Stripping, Jobs
  <1>6. PICK c \in Counts(j[1]) : Counted(j, c)
    BY <1>4
  <1>7. c \subseteq Passes /\ copies[j[1]] \ {Authored} \subseteq c
    BY <1>5, <1>3, CountsAll
  <1>8. /\ jobs' \in [Jobs -> JobStatuses]
        /\ \A i \in Jobs : jobs'[i] = "none" <=> jobs[i] = "none"
        /\ \A i \in Jobs : jobs'[i] = "completed" /\ jobs[i] # "completed" => i = j /\ c = {}
    BY <1>5, <1>6 DEF SetJob, IInv, Typed, JobStatuses
  <1>9. PICK p \in Programs : Become(w, p) /\ ReadingTrue(p)' /\ JobTrue(p)'
    <2> DEFINE s == [q EXCEPT !.todo = q.todo \ {j}]
    <2>1. CASE Become(w, AfterJob(s))
      <3>1. s \in Stripping /\ s.todo \subseteq Jobs /\ \A i \in s.todo : jobs[i] # "none"
        BY <1>1 DEF Stripping, JobTrue, Jobs
      <3>2. PICK p : p = AfterJob(s)
        OBVIOUS
      <3>3. p \in Programs /\ p \in {Idle, BeginStripping(s.todo)}
        BY <3>1, <3>2, AfterJobType
      <3>4. ReadingTrue(p)' /\ JobTrue(p)'
        BY <1>8, <3>1, <3>3 DEF Idle, BeginStripping, ReadingTrue, JobTrue, IsReading, IsJob
      <3> QED  BY <2>1, <3>2, <3>3, <3>4
    <2>2. CASE ~Become(w, AfterJob(s))
      <3> DEFINE n == [q EXCEPT !.todo = q.todo \ {j}, !.job = j, !.counted = c,
                                !.phase = "strip"]
      <3>1. Become(w, n)
        BY <1>6, <2>2
      <3>4. PICK p \in Stripping : p = [q EXCEPT !.todo = q.todo \ {j}, !.job = j, !.counted = c,
                                                 !.phase = "strip"]
        BY <1>1, <1>5, <1>7 DEF Stripping, Jobs
      <3>5. /\ p.kind = "jobs" /\ p.phase = "strip" /\ p.job = j /\ p.counted = c /\ p.pass = 1
            /\ p.todo \subseteq q.todo
        BY <1>1, <1>5, <3>4 DEF Stripping
      <3>6. \A i \in p.todo : jobs'[i] # "none"
        BY <1>1, <1>8, <3>5 DEF JobTrue, Stripping, Jobs
      <3>7. \A k \in copies'[j[1]] \ {Authored} : Ahead(p, k)
        BY <1>2, <1>7, <3>5 DEF Ahead, Passes
      <3>8. ReadingTrue(p)' /\ JobTrue(p)'
        BY <1>2, <1>5, <1>8, <3>5, <3>6, <3>7 DEF ReadingTrue, JobTrue, IsReading, IsJob, Ahead
      <3> QED  BY <3>1, <3>4, <3>8 DEF Programs
    <2> QED  BY <2>1, <2>2
  <1>10. c = {} => copies[j[1]] \ {Authored} = {}
    BY <1>7
  <1> HIDE DEF Counted
  <1> QED  BY <1>2, <1>8, <1>9, <1>3, <1>10, JobStepKeeps

(* One table of the hub is stripped; the tables ahead are still counted.   *)
LEMMA JobStripsKeeps ==
  ASSUME IInv, NEW w \in Runners, JobStrips(w)
  PROVE  IInv'
  <1>1. PICK q \in Stripping : q = run[w] /\ JobTrue(q) /\ q.kind = "jobs" /\ q.phase = "strip"
    BY FlightTrue, KindsTell DEF JobStrips, At
  <1>2. PICK h \in Hubs, k \in Passes : h = q.job[1] /\ k = q.pass
    BY <1>1 DEF JobTrue, IsJob, Jobs, Stripping
  <1>3. /\ UNCHANGED <<user, keys, jobs, erasures, missed, held, request, claims, withdrawn>>
        /\ copies' = [copies EXCEPT ![h] = @ \ {k}] /\ late' = late \ {<<h, k>>}
        /\ Become(w, [q EXCEPT !.phase = "report"])
    BY <1>1, <1>2 DEF JobStrips
  <1>4. /\ copies' \in [Hubs -> SUBSET Tables]
        /\ \A g \in Hubs : copies'[g] = IF g = h THEN copies[h] \ {k} ELSE copies[g]
    BY <1>3 DEF IInv, Typed
  <1>5. \A g \in Hubs : \A l \in copies'[g] : <<g, l>> \in late' <=> <<g, l>> \in late
    BY <1>3, <1>4
  <1> DEFINE p == [q EXCEPT !.phase = "report"]
  <1>6. /\ p \in Programs /\ p.kind = "jobs" /\ p.phase = "report" /\ p.job = q.job
        /\ p.pass = k /\ p.counted = q.counted /\ p.todo = q.todo
    BY <1>1, <1>2 DEF Stripping, Programs
  <1>7. \A l \in copies'[h] \ {Authored} : <<h, l>> \in late' \/ Ahead(p, l)
    <2> SUFFICES ASSUME NEW l \in copies'[h] \ {Authored}, <<h, l>> \notin late'  PROVE Ahead(p, l)
      OBVIOUS
    <2>1. l \in copies[h] /\ l # k /\ <<h, l>> \notin late /\ l \in Nat /\ k \in Nat
      BY <1>3, <1>4 DEF IInv, Typed, Tables, Passes
    <2>2. Ahead(q, l)
      BY <1>1, <1>2, <2>1 DEF JobTrue, IsJob
    <2> QED  BY <1>1, <1>2, <1>6, <2>1, <2>2 DEF Ahead
  <1>8. ReadingTrue(p)' /\ JobTrue(p)'
    <2>1. q.job \in Jobs /\ jobs[q.job] # "none" /\ \A j \in q.todo : jobs[j] # "none"
      BY <1>1 DEF JobTrue, IsJob
    <2> QED  BY <1>2, <1>3, <1>6, <1>7, <2>1 DEF ReadingTrue, JobTrue, IsReading, IsJob, Ahead
  <1>9. jobs \in [Jobs -> JobStatuses]
    BY DEF IInv, Typed
  <1> QED  BY <1>3, <1>4, <1>5, <1>6, <1>8, <1>9, JobStepKeeps

(* A job says completed when no counted table is ahead of it.              *)
LEMMA JobReportsKeeps ==
  ASSUME IInv, NEW w \in Runners, JobReports(w)
  PROVE  IInv'
  <1>1. PICK q \in Stripping : q = run[w] /\ JobTrue(q) /\ q.kind = "jobs" /\ q.phase = "report"
    BY FlightTrue, KindsTell DEF JobReports, At
  <1>2. PICK j \in Jobs : j = q.job /\ jobs[j] # "none" /\ j[1] \in Hubs
    BY <1>1 DEF JobTrue, IsJob, Jobs
  <1>3. /\ UNCHANGED <<user, keys, copies, late, erasures, missed, held, request, claims, withdrawn>>
        /\ SetJob(j, IF Done(q) THEN "completed" ELSE "running")
        /\ Become(w, IF q.pass = LastPass THEN AfterJob(q)
                     ELSE [q EXCEPT !.pass = @ + 1, !.phase = "strip"])
    BY <1>1, <1>2 DEF JobReports, history
  <1>4. /\ jobs' \in [Jobs -> JobStatuses]
        /\ \A i \in Jobs : jobs'[i] = "none" <=> jobs[i] = "none"
        /\ \A i \in Jobs : jobs'[i] = "completed" /\ jobs[i] # "completed" => i = j /\ Done(q)
    BY <1>2, <1>3 DEF SetJob, IInv, Typed, JobStatuses
  <1>5. \A k \in copies[j[1]] \ {Authored} :
                                /\ <<j[1], k>> \in late \/ (k \in q.counted /\ k > q.pass)
                                /\ k \in Nat /\ q.pass \in Nat
    BY <1>1, <1>2 DEF JobTrue, IsJob, Ahead, IInv, Typed, Tables, Passes, Stripping
  <1>6. Done(q) => \A k \in copies[j[1]] \ {Authored} : <<j[1], k>> \in late
    BY <1>5 DEF Done
  <1>7. PICK p \in Programs : Become(w, p) /\ ReadingTrue(p)' /\ JobTrue(p)'
    <2>1. CASE q.pass = LastPass
      <3>1. PICK p : p = AfterJob(q)
        OBVIOUS
      <3>2. p \in Programs /\ p \in {Idle, BeginStripping(q.todo)}
        BY <3>1, AfterJobType
      <3>3. q.todo \subseteq Jobs /\ \A i \in q.todo : jobs[i] # "none"
        BY <1>1 DEF Stripping, JobTrue, Jobs
      <3>4. ReadingTrue(p)' /\ JobTrue(p)'
        BY <1>4, <3>2, <3>3 DEF Idle, BeginStripping, ReadingTrue, JobTrue, IsReading, IsJob
      <3> QED  BY <1>3, <2>1, <3>1, <3>2, <3>4
    <2>2. CASE q.pass # LastPass
      <3> DEFINE p == [q EXCEPT !.pass = @ + 1, !.phase = "strip"]
      <3>1. q.pass + 1 \in Passes
        BY <2>2, ErasureConstants DEF Stripping, Passes
      <3>2. /\ p \in Stripping /\ p.kind = "jobs" /\ p.phase = "strip" /\ p.job = j
            /\ p.pass = q.pass + 1 /\ p.counted = q.counted /\ p.todo = q.todo
        BY <1>1, <1>2, <3>1 DEF Stripping
      <3>3. \A k \in copies'[j[1]] \ {Authored} : <<j[1], k>> \in late' \/ Ahead(p, k)
        BY <1>3, <1>5, <3>2 DEF Ahead
      <3>4. \A i \in p.todo : jobs'[i] # "none"
        BY <1>1, <1>4, <3>2 DEF JobTrue, Stripping, Jobs
      <3>5. ReadingTrue(p)' /\ JobTrue(p)'
        BY <1>2, <1>4, <3>2, <3>3, <3>4 DEF ReadingTrue, JobTrue, IsReading, IsJob, Ahead
      <3> QED  BY <1>3, <2>2, <3>2, <3>5 DEF Programs
    <2> QED  BY <2>1, <2>2
  <1>8. copies \in [Hubs -> SUBSET Tables]
    BY DEF IInv, Typed
  <1> QED  BY <1>3, <1>4, <1>6, <1>7, <1>8, JobStepKeeps

----------------------------------------------------------------------------
(* Theorems. *)

(* Nothing is requested, erased or sealed at the beginning.                *)
LEMMA InitIInv == Init => IInv
  <1> SUFFICES ASSUME Init  PROVE IInv
    OBVIOUS
  <1>1. Typed
    BY DEF Init, Typed, Statuses, JobStatuses, Jobs, Programs
  <1>2. AccountTrue /\ ErasedHasJobs /\ CompletedJobIsClean
    BY DEF Init, AccountTrue, ErasedHasJobs, CompletedJobIsClean, Jobs
  <1>3. \A r \in Requests : RequestTrue(r)
    BY DEF Init, RequestTrue
  <1>4. \A p \in InFlight : ReadingTrue(p) /\ JobTrue(p)
    BY BeginningsTrue DEF Init, InFlight, Idle
  <1> QED  BY <1>1, <1>2, <1>3, <1>4 DEF IInv

(* Every step keeps the invariant.                                         *)
LEMMA NextIInv == IInv /\ [Next]_vars => IInv'
  <1> SUFFICES ASSUME IInv, [Next]_vars  PROVE IInv'
    OBVIOUS
  <1>1. CASE UNCHANGED vars
    <2>1. Typed' /\ InFlight' \subseteq InFlight \cup {Idle}
      BY <1>1 DEF vars, rows, history, IInv, Typed, InFlight
    <2>2. \A r \in Requests : RequestTrue(r)'
      BY <1>1 DEF vars, rows, history, IInv, RequestTrue
    <2>3. ReadingTrue(Idle) /\ JobTrue(Idle)
      BY BeginningsTrue DEF Idle
    <2> QED  BY <1>1, <2>1, <2>2, <2>3, StillKeeps DEF vars, rows, history
  <1>2. ASSUME NEW h \in Hubs, SetsHubKeys(h)  PROVE IInv'
    BY <1>2, SetsHubKeysKeeps
  <1>3. ASSUME NEW h \in Hubs, NEW k \in Tables, Seals(h, k) \/ Deletes(h, k)  PROVE IInv'
    BY <1>3, SealsKeeps, DeletesKeeps
  <1>4. ASSUME NEW r \in Requests, Elapses(r)  PROVE IInv'
    BY <1>4, ElapsesKeeps
  <1>5. ASSUME NEW w \in Runners, NEW r \in Requests, CancelReads(w, r)  PROVE IInv'
    BY <1>5, BeginKeeps
  <1>6. ASSUME NEW w \in Runners, CreateReads(w) \/ CheckReads(w) \/ AdminErases(w)  PROVE IInv'
    BY <1>6, BeginKeeps
  <1>7. ASSUME NEW w \in Runners, CreateInserts(w) \/ CancelWrites(w) \/ ErasingStep(w)  PROVE IInv'
    BY <1>7, RequestWritesKeep, ClaimsKeeps, ReadsHubsKeeps, ErasingGoesOn, CommitsKeeps
       DEF ErasingStep
  <1>8. ASSUME NEW w \in Runners, ErasingFails(w)  PROVE IInv'
    BY <1>8, ErasingGoesOn
  <1>9. ASSUME NEW w \in Runners, JobsRead(w) \/ JobStep(w) \/ JobFails(w)  PROVE IInv'
    BY <1>9, JobsIdleKeep, JobCountsKeeps, JobStripsKeeps, JobReportsKeeps DEF JobStep
  <1>10. CASE Crash
    BY <1>10, CrashKeeps
  <1> QED  BY <1>1, <1>2, <1>3, <1>4, <1>5, <1>6, <1>7, <1>8, <1>9, <1>10 DEF Next

(* The inductive invariant: an erasure has read all hubs the account is    *)
(* known in but those it came into since, and all a job has not stripped of*)
(* its hub's tables is ahead of it or was sealed after the erasure.        *)
THEOREM InvHolds == Spec => []IInv
  BY InitIInv, NextIInv, PTL DEF Spec

(* The expiry worker claims a request once at most, and none that was      *)
(* withdrawn while it was pending, however its checks overlap.             *)
THEOREM ClaimedOnceHolds == Spec => []ClaimedOnce
  <1>1. IInv => ClaimedOnce
    BY DEF IInv, RequestTrue, ClaimedOnce, Typed
  <1> QED  BY <1>1, InvHolds, PTL

(* executeErasure leaves no hub that the account was known in at its commit*)
(* without a job, but those it came into after the hubs were read.         *)
THEOREM ErasedHasJobsHolds == Spec => []ErasedHasJobs
  <1>1. IInv => ErasedHasJobs
    BY DEF IInv
  <1> QED  BY <1>1, InvHolds, PTL

(* A job says completed only when all that the tables of its hub still have*)
(* for the account was sealed after the erasure, for any number of tables  *)
(* and of checks at once; the account's own notes keep their envelopes.    *)
THEOREM CompletedJobIsCleanHolds == Spec => []CompletedJobIsClean
  <1>1. IInv => CompletedJobIsClean
    BY DEF IInv
  <1> QED  BY <1>1, InvHolds, PTL

----------------------------------------------------------------------------
(* How many erasures are begun. *)

(* A program that is erasing and has not committed.                        *)
Occupied(p) == p.kind \in {"check", "admin"} /\ p.phase \in {"members", "audit", "commit"}

(* Every request that is not claimed yet, and every erasure that is not    *)
(* committed yet, may still become one; an admin begins one only beside    *)
(* all of those.                                                           *)
Budget == erasures + Cardinality(Underway) + Cardinality(Unclaimed) <= MaxErasures

(* What else TypeOK says.                                                  *)
OthersTyped ==
  /\ due \subseteq Requests
  /\ audited \in BOOLEAN
  /\ crashes \in 0..MaxFaults /\ faults \in 0..MaxFaults
  /\ withdrawn \subseteq Requests
  /\ missed \subseteq Hubs
  /\ late \subseteq Hubs \X Tables

(* The four ways in which a step may change what the budget counts: ending *)
(* an erasure at most, claiming a request, committing, an admin's erasure. *)
EndsAtMost == erasures' = erasures /\ claims' = claims /\ Underway' \subseteq Underway
ClaimsOne(w, r) ==
  /\ erasures' = erasures /\ claims' = [claims EXCEPT ![r] = @ + 1]
  /\ r \in Unclaimed /\ Underway' \subseteq Underway \cup {w}
CommitsOne(w) ==
  /\ erasures' = erasures + 1 /\ claims' = claims
  /\ w \in Underway /\ Underway' \subseteq Underway \ {w}
BeginsOne(w) ==
  /\ CanErase /\ erasures' = erasures /\ claims' = claims
  /\ Underway' \subseteq Underway \cup {w}

(* One program changes: whether it erases is a matter of that program.     *)
LEMMA UnderwayOne ==
  ASSUME Typed, NEW w \in Runners, NEW p, Become(w, p)
  PROVE  /\ Underway' \subseteq Underway \cup {w}
         /\ ~Occupied(p) => Underway' \subseteq Underway \ {w}
         /\ Occupied(run[w]) => w \in Underway /\ Underway' \subseteq Underway
<1>1. run' = [run EXCEPT ![w] = p] /\ run \in [Runners -> Programs]
  BY DEF Become, Typed
<1>2. run'[w] = p /\ \A v \in Runners : v # w => run'[v] = run[v]
  BY <1>1
<1>3. /\ Underway = {v \in Runners : Occupied(run[v])}
      /\ Underway' = {v \in Runners : Occupied(run'[v])}
  BY DEF Underway, Occupied
<1> QED
  BY <1>2, <1>3

(* What a check goes on with when it is done with a request.               *)
LEMMA NextIsNoErasure ==
  ASSUME NEW p
  PROVE  ~Occupied(AfterErasing(p)) /\ ~Occupied(AfterJob(p)) /\ ~Occupied(Idle)
BY DEF AfterErasing, AfterJob, BeginErasing, BeginStripping, Idle, Occupied

(* A program that does not erase before or after a step leaves the count.  *)
LEMMA NoErasureCounted ==
  ASSUME Typed, NEW w \in Runners, NEW p, Become(w, p), ~Occupied(p),
         erasures' = erasures, claims' = claims
  PROVE  EndsAtMost
BY UnderwayOne DEF EndsAtMost

(* A step that leaves all programs as they are.                            *)
LEMMA SameProgramsCounted ==
  ASSUME UNCHANGED <<erasures, claims, run>>
  PROVE  EndsAtMost
BY DEF EndsAtMost, Underway

(* The steps of the account, its requests and the jobs.                    *)
LEMMA OtherStepsCount ==
  ASSUME IInv, NEW w \in Runners,
         \/ CreateReads(w) \/ CreateInserts(w) \/ CheckReads(w)
         \/ CancelWrites(w) \/ \E r \in Requests : CancelReads(w, r)
         \/ JobsRead(w) \/ JobStep(w) \/ JobFails(w)
  PROVE  EndsAtMost
<1>1. Typed /\ run[w] \in Programs
  BY FlightTrue DEF IInv
<1>2. erasures' = erasures /\ claims' = claims
  BY DEF CreateReads, CreateInserts, CheckReads, CancelWrites, CancelReads, JobsRead, JobStep,
         JobCounts, JobStrips, JobReports, JobFails, rows, history
<1>3. PICK p : Become(w, p) /\ ~Occupied(p)
  <2>1. CASE \/ CreateReads(w) \/ CreateInserts(w) \/ CheckReads(w)
             \/ CancelWrites(w) \/ \E r \in Requests : CancelReads(w, r)
    <3>1. CASE CreateInserts(w) \/ CancelWrites(w)
      BY <3>1, NextIsNoErasure DEF CreateInserts, CancelWrites
    <3>2. CASE CreateReads(w)
      <4>1. Become(w, [kind |-> "create"]) /\ ~Occupied([kind |-> "create"])
        BY <3>2 DEF CreateReads, Occupied
      <4> QED
        BY <4>1
    <3>3. ASSUME NEW r \in Requests, CancelReads(w, r)
          PROVE  \E p : Become(w, p) /\ ~Occupied(p)
      <4>1. Become(w, [kind |-> "cancel", request |-> r]) /\ ~Occupied([kind |-> "cancel", request |-> r])
        BY <3>3 DEF CancelReads, Occupied
      <4> QED
        BY <4>1
    <3>4. CASE CheckReads(w)
      <4>1. \E todo : Become(w, BeginErasing("check", todo, "claim"))
        BY <3>4 DEF CheckReads
      <4>2. \A todo : ~Occupied(BeginErasing("check", todo, "claim"))
        BY DEF BeginErasing, Occupied
      <4> QED
        BY <4>1, <4>2
    <3> QED
      BY <2>1, <3>1, <3>2, <3>3, <3>4
  <2>2. CASE JobsRead(w)
    BY <2>2 DEF JobsRead, BeginStripping, Occupied
  <2>3. CASE JobStep(w) \/ JobFails(w)
    <3>1. PICK q \in Stripping : q = run[w]
      BY <1>1, <2>3, KindsTell DEF JobStep, JobCounts, JobStrips, JobReports, JobFails, At
    <3>2. CASE JobCounts(w)
      <4>1. PICK j \in q.todo : \E c \in Counts(j[1]) :
              \/ Become(w, AfterJob([q EXCEPT !.todo = q.todo \ {j}]))
              \/ Become(w, [q EXCEPT !.todo = q.todo \ {j}, !.job = j, !.counted = c,
                                     !.phase = "strip"])
        BY <3>1, <3>2 DEF JobCounts
      <4>2. \A c : [q EXCEPT !.todo = q.todo \ {j}, !.job = j, !.counted = c,
                             !.phase = "strip"].kind = "jobs"
        BY DEF Stripping
      <4> QED
        BY <4>1, <4>2, NextIsNoErasure DEF Occupied
    <3>3. CASE JobStrips(w)
      <4>1. Become(w, [q EXCEPT !.phase = "report"])
        BY <3>1, <3>3 DEF JobStrips
      <4>2. [q EXCEPT !.phase = "report"].kind = "jobs"
        BY DEF Stripping
      <4> QED
        BY <4>1, <4>2 DEF Occupied
    <3>4. CASE JobReports(w) \/ JobFails(w)
      <4>1. \/ \E s : Become(w, AfterJob(s))
            \/ Become(w, [q EXCEPT !.pass = q.pass + 1, !.phase = "strip"])
        BY <3>1, <3>4 DEF JobReports, JobFails
      <4>2. [q EXCEPT !.pass = q.pass + 1, !.phase = "strip"].kind = "jobs"
        BY DEF Stripping
      <4> QED
        BY <4>1, <4>2, NextIsNoErasure DEF Occupied
    <3> QED
      BY <2>3, <3>2, <3>3, <3>4 DEF JobStep
  <2> QED
    BY <2>1, <2>2, <2>3
<1> QED
  BY <1>1, <1>2, <1>3, NoErasureCounted

(* The steps of an erasure.                                                *)
LEMMA ErasingStepsCount ==
  ASSUME IInv, NEW w \in Runners, AdminErases(w) \/ ErasingStep(w) \/ ErasingFails(w)
  PROVE  \/ EndsAtMost \/ BeginsOne(w) \/ CommitsOne(w)
         \/ \E r \in Requests : ClaimsOne(w, r)
<1>1. Typed /\ run[w] \in Programs
  BY FlightTrue DEF IInv
<1>2. CASE AdminErases(w)
  <2>1. /\ CanErase /\ erasures' = erasures /\ claims' = claims
        /\ Become(w, BeginErasing("admin", {}, "members"))
    BY <1>2 DEF AdminErases, rows, history
  <2> QED
    BY <1>1, <2>1, UnderwayOne DEF BeginsOne
<1>3. CASE Commits(w)
  <2>1. erasures' = erasures + 1 /\ claims' = claims /\ Occupied(run[w])
    BY <1>3 DEF Commits, At, Occupied, history
  <2>2. PICK q \in Erasing : q = run[w]
    BY <1>1, <1>3, KindsTell DEF Commits, At
  <2>3. Become(w, [q EXCEPT !.phase = "wipe"])
    BY <1>3, <2>2 DEF Commits
  <2>4. [q EXCEPT !.phase = "wipe"].phase = "wipe"
    BY DEF Erasing
  <2>5. ~Occupied([q EXCEPT !.phase = "wipe"])
    BY <2>4 DEF Occupied
  <2>6. w \in Underway /\ Underway' \subseteq Underway \ {w}
    BY <1>1, <2>1, <2>3, <2>5, UnderwayOne
  <2> QED
    BY <2>1, <2>6 DEF CommitsOne
<1>4. CASE ReadsHubs(w) \/ LogsErasure(w)
  <2>1. erasures' = erasures /\ claims' = claims /\ Occupied(run[w]) /\ \E p : Become(w, p)
    BY <1>4 DEF ReadsHubs, LogsErasure, At, Occupied, rows, history
  <2> QED
    BY <1>1, <2>1, UnderwayOne DEF EndsAtMost
<1>5. CASE Wipes(w) \/ MarksFailed(w)
  <2>1. erasures' = erasures /\ claims' = claims /\ Become(w, AfterErasing(run[w]))
    BY <1>5 DEF Wipes, MarksFailed, rows, history
  <2> QED
    BY <1>1, <2>1, NextIsNoErasure, NoErasureCounted
<1>6. CASE Claims(w)
  <2>1. PICK q \in Erasing : q = run[w]
    BY <1>1, <1>6, KindsTell DEF Claims, At
  <2>2. PICK r \in q.todo :
          IF r \in Pending
            THEN /\ claims' = [claims EXCEPT ![r] = @ + 1]
                 /\ Become(w, [q EXCEPT !.todo = q.todo \ {r}, !.request = r, !.phase = "members"])
            ELSE /\ Become(w, AfterErasing([q EXCEPT !.todo = q.todo \ {r}]))
                 /\ claims' = claims
    BY <1>6, <2>1 DEF Claims
  <2>3. erasures' = erasures
    BY <1>6 DEF Claims
  <2>4. CASE r \in Pending
    <3>1. r \in Requests /\ request[r] = "pending"
      BY <2>4 DEF Pending
    <3>2. claims[r] = 0
      <4>1. RequestTrue(r)
        BY <3>1 DEF IInv
      <4> QED
        BY <3>1, <4>1 DEF RequestTrue
    <3>3. Underway' \subseteq Underway \cup {w}
      BY <1>1, <2>2, <2>4, UnderwayOne
    <3> QED
      BY <2>2, <2>3, <2>4, <3>1, <3>2, <3>3 DEF ClaimsOne, Unclaimed
  <2>5. CASE r \notin Pending
    BY <1>1, <2>2, <2>3, <2>5, NextIsNoErasure, NoErasureCounted
  <2> QED
    BY <2>4, <2>5
<1>7. CASE ErasingFails(w)
  <2>1. erasures' = erasures /\ claims' = claims
    BY <1>7 DEF ErasingFails, rows, history
  <2>2. PICK p : Become(w, p) /\ ~Occupied(p)
    <3>1. CASE run[w].kind = "check"
      <4>1. PICK q \in Erasing : q = run[w]
        BY <1>1, <3>1, KindsTell
      <4>2. \/ \E r \in q.todo : Become(w, [q EXCEPT !.todo = q.todo \ {r}, !.request = r, !.phase = "fail"])
            \/ Become(w, [q EXCEPT !.phase = "fail"])
            \/ Become(w, Idle)
        BY <1>7, <3>1, <4>1 DEF ErasingFails, At
      <4>3. /\ [q EXCEPT !.phase = "fail"].phase = "fail"
            /\ \A r : [q EXCEPT !.todo = q.todo \ {r}, !.request = r, !.phase = "fail"].phase = "fail"
        BY DEF Erasing
      <4> QED
        BY <4>2, <4>3, NextIsNoErasure DEF Occupied
    <3>2. CASE run[w].kind # "check"
      BY <1>7, <3>2, NextIsNoErasure DEF ErasingFails, At
    <3> QED
      BY <3>1, <3>2
  <2> QED
    BY <1>1, <2>1, <2>2, NoErasureCounted
<1> QED
  BY <1>2, <1>3, <1>4, <1>5, <1>6, <1>7 DEF ErasingStep

(* Every step is one of the four.                                          *)
LEMMA StepsCount ==
  ASSUME IInv, [Next]_vars
  PROVE  \/ EndsAtMost
         \/ \E w \in Runners : \/ BeginsOne(w) \/ CommitsOne(w)
                               \/ \E r \in Requests : ClaimsOne(w, r)
<1>1. CASE \/ UNCHANGED vars \/ \E r \in Requests : Elapses(r)
           \/ \E h \in Hubs : SetsHubKeys(h) \/ \E k \in Tables : Seals(h, k) \/ Deletes(h, k)
  <2>1. UNCHANGED <<erasures, claims, run>>
    BY <1>1 DEF vars, rows, history, Elapses, SetsHubKeys, Seals, Deletes
  <2> QED
    BY <2>1, SameProgramsCounted
<1>2. CASE Crash
  <2>1. UNCHANGED <<erasures, claims>> /\ run' = [v \in Runners |-> Idle]
    BY <1>2 DEF Crash, rows, history
  <2>2. Underway' = {}
    BY <2>1 DEF Underway, Idle
  <2> QED
    BY <2>1, <2>2 DEF EndsAtMost
<1> QED
  BY <1>1, <1>2, OtherStepsCount, ErasingStepsCount DEF Next

(* Sets that change by one runner or one request.                          *)
LEMMA UnderwayCounted ==
  /\ IsFiniteSet(Underway) /\ Cardinality(Underway) \in Nat
  /\ IsFiniteSet(Unclaimed) /\ Cardinality(Unclaimed) \in Nat
<1>1. Underway \in SUBSET Runners /\ Unclaimed \in SUBSET Requests
  BY DEF Underway, Unclaimed
<1> QED
  BY <1>1, ErasureBounds, FS_Subset, FS_CardinalityType

(* A subset of a finite set has no more members.                           *)
LEMMA NoMore ==
  ASSUME NEW S, IsFiniteSet(S), NEW T, T \subseteq S
  PROVE  Cardinality(T) \in Nat /\ Cardinality(T) <= Cardinality(S)
BY FS_Subset, FS_CardinalityType

(* The budget lasts: what a step adds to it, it takes elsewhere, or an     *)
(* admin has left room for.                                                *)
LEMMA BudgetLasts ==
  ASSUME IInv, Budget, [Next]_vars
  PROVE  Budget'
<1> DEFINE n == Cardinality(Underway)
           m == Cardinality(Unclaimed)
<1>1. /\ IsFiniteSet(Underway) /\ n \in Nat
      /\ IsFiniteSet(Unclaimed) /\ m \in Nat
  BY UnderwayCounted
<1>2. erasures \in Nat /\ claims \in [Requests -> Nat] /\ MaxErasures \in Nat
  BY ErasureConstants DEF IInv, Typed
<1>3. erasures + n + m <= MaxErasures
  BY DEF Budget
<1>4. claims' = claims => Unclaimed' = Unclaimed
  BY DEF Unclaimed
<1>5. CASE EndsAtMost
  <2>1. Cardinality(Underway') \in Nat /\ Cardinality(Underway') <= n
    BY <1>1, <1>5, NoMore DEF EndsAtMost
  <2>2. Budget' = (erasures' + Cardinality(Underway') + Cardinality(Unclaimed') <= MaxErasures)
    BY DEF Budget
  <2>3. erasures' = erasures /\ Cardinality(Unclaimed') = m
    BY <1>4, <1>5 DEF EndsAtMost
  <2> HIDE DEF n, m
  <2>4. PICK n2 \in Nat : n2 = Cardinality(Underway') /\ n2 <= n
    BY <2>1
  <2>5. erasures + n2 + m <= MaxErasures
    BY <1>1, <1>2, <1>3, <2>4, SMT
  <2> QED
    BY <2>2, <2>3, <2>4, <2>5
<1>6. ASSUME NEW w \in Runners, BeginsOne(w)  PROVE Budget'
  <2>1. PICK n1 \in Nat : n1 = Cardinality(Underway \cup {w}) /\ n1 <= n + 1
                          /\ IsFiniteSet(Underway \cup {w})
    BY <1>1, FS_AddElement, FS_CardinalityType
  <2>2. PICK n2 \in Nat : n2 = Cardinality(Underway') /\ n2 <= n1
    BY <1>6, <2>1, NoMore DEF BeginsOne
  <2>3. erasures + n + m < MaxErasures
    BY <1>6 DEF BeginsOne, CanErase
  <2>4. erasures' = erasures /\ Cardinality(Unclaimed') = m
    BY <1>4, <1>6 DEF BeginsOne
  <2> HIDE DEF n, m
  <2>5. erasures + n2 + m <= MaxErasures
    BY <1>1, <1>2, <2>1, <2>2, <2>3, SMT
  <2> QED
    BY <2>2, <2>4, <2>5 DEF Budget
<1>7. ASSUME NEW w \in Runners, CommitsOne(w)  PROVE Budget'
  <2>1. PICK n1 \in Nat : n1 = Cardinality(Underway \ {w}) /\ n1 = n - 1
                          /\ IsFiniteSet(Underway \ {w})
    BY <1>1, <1>7, FS_RemoveElement, FS_CardinalityType DEF CommitsOne
  <2>2. PICK n2 \in Nat : n2 = Cardinality(Underway') /\ n2 <= n1
    BY <1>7, <2>1, NoMore DEF CommitsOne
  <2>3. erasures' = erasures + 1 /\ Cardinality(Unclaimed') = m
    BY <1>4, <1>7 DEF CommitsOne
  <2> HIDE DEF n, m
  <2>4. (erasures + 1) + n2 + m <= MaxErasures
    BY <1>1, <1>2, <1>3, <2>1, <2>2, SMT
  <2> QED
    BY <2>2, <2>3, <2>4 DEF Budget
<1>8. ASSUME NEW w \in Runners, NEW r \in Requests, ClaimsOne(w, r)  PROVE Budget'
  <2>1. PICK n1 \in Nat : n1 = Cardinality(Underway \cup {w}) /\ n1 <= n + 1
                          /\ IsFiniteSet(Underway \cup {w})
    BY <1>1, FS_AddElement, FS_CardinalityType
  <2>2. PICK n2 \in Nat : n2 = Cardinality(Underway') /\ n2 <= n1
    BY <1>8, <2>1, NoMore DEF ClaimsOne
  <2>3. PICK m1 \in Nat : m1 = Cardinality(Unclaimed \ {r}) /\ m1 = m - 1
                          /\ IsFiniteSet(Unclaimed \ {r})
    BY <1>1, <1>8, FS_RemoveElement, FS_CardinalityType DEF ClaimsOne
  <2>4. Unclaimed' \subseteq Unclaimed \ {r}
    <3>1. claims' = [claims EXCEPT ![r] = @ + 1] /\ r \in Unclaimed
      BY <1>8 DEF ClaimsOne
    <3>2. claims'[r] = 1
      BY <1>2, <3>1 DEF Unclaimed
    <3>3. \A q \in Requests : q # r => claims'[q] = claims[q]
      BY <1>2, <3>1
    <3> QED
      BY <3>2, <3>3 DEF Unclaimed
  <2>5. PICK m2 \in Nat : m2 = Cardinality(Unclaimed') /\ m2 <= m1
    BY <2>3, <2>4, NoMore
  <2>6. erasures' = erasures
    BY <1>8 DEF ClaimsOne
  <2> HIDE DEF n, m
  <2>7. erasures + n2 + m2 <= MaxErasures
    BY <1>1, <1>2, <1>3, <2>1, <2>2, <2>3, <2>5, SMT
  <2> QED
    BY <2>2, <2>5, <2>6, <2>7 DEF Budget
<1> QED
  BY <1>5, <1>6, <1>7, <1>8, StepsCount

(* The rest of the types, step by step.                                    *)
LEMMA OthersStayTyped ==
  ASSUME IInv, OthersTyped, [Next]_vars
  PROVE  OthersTyped'
<1>1. CASE UNCHANGED vars
  BY <1>1 DEF vars, rows, history, OthersTyped
<1>2. ASSUME NEW h \in Hubs, SetsHubKeys(h)  PROVE OthersTyped'
  <2>1. Known' \subseteq Hubs
    BY <1>2 DEF SetsHubKeys, Known, IInv, Typed
  <2> QED
    BY <1>2, <2>1 DEF SetsHubKeys, Misses, OthersTyped
<1>3. ASSUME NEW h \in Hubs, NEW k \in Tables, Seals(h, k) \/ Deletes(h, k)  PROVE OthersTyped'
  <2>1. Known' \subseteq Hubs
    BY <1>3 DEF Seals, Deletes, Known, IInv, Typed
  <2> QED
    BY <1>3, <2>1 DEF Seals, Deletes, Misses, OthersTyped
<1>4. ASSUME NEW r \in Requests, Elapses(r)  PROVE OthersTyped'
  BY <1>4 DEF Elapses, history, OthersTyped
<1>5. ASSUME NEW w \in Runners,
             \/ CreateReads(w) \/ CreateInserts(w) \/ CheckReads(w) \/ AdminErases(w)
             \/ JobsRead(w) \/ \E r \in Requests : CancelReads(w, r)
      PROVE  OthersTyped'
  BY <1>5 DEF CreateReads, CreateInserts, CheckReads, AdminErases, JobsRead, CancelReads,
              rows, history, OthersTyped
<1>6. ASSUME NEW w \in Runners, CancelWrites(w)  PROVE OthersTyped'
  <2>1. withdrawn' \subseteq withdrawn \cup Pending /\ Pending \subseteq Requests
    BY <1>6 DEF CancelWrites, Pending
  <2> QED
    BY <1>6, <2>1 DEF CancelWrites, OthersTyped
<1>7. ASSUME NEW w \in Runners, ErasingStep(w)  PROVE OthersTyped'
  BY <1>7 DEF ErasingStep, Claims, ReadsHubs, LogsErasure, Commits, Wipes, MarksFailed,
              rows, history, OthersTyped
<1>8. ASSUME NEW w \in Runners, JobStep(w)  PROVE OthersTyped'
  BY <1>8 DEF JobStep, JobCounts, JobStrips, JobReports, history, OthersTyped
<1>9. ASSUME crashes + faults < MaxFaults,
             \/ crashes' = crashes + 1 /\ faults' = faults
             \/ faults' = faults + 1 /\ crashes' = crashes,
             UNCHANGED rows, UNCHANGED history
      PROVE  OthersTyped'
  <2>1. crashes \in 0..MaxFaults /\ faults \in 0..MaxFaults /\ MaxFaults \in Nat
    BY ErasureConstants DEF OthersTyped
  <2>2. crashes' \in 0..MaxFaults /\ faults' \in 0..MaxFaults
    BY <1>9, <2>1, SMT
  <2> QED
    BY <1>9, <2>2 DEF rows, history, OthersTyped
<1>10. ASSUME NEW w \in Runners, ErasingFails(w) \/ JobFails(w)  PROVE OthersTyped'
  BY <1>9, <1>10 DEF ErasingFails, JobFails
<1>11. CASE Crash
  BY <1>9, <1>11 DEF Crash
<1> QED
  BY <1>1, <1>2, <1>3, <1>4, <1>5, <1>6, <1>7, <1>8, <1>10, <1>11 DEF Next

(* At the beginning all erasures are still to be claimed.                  *)
LEMMA InitBounded == Init => Budget /\ OthersTyped
<1> SUFFICES ASSUME Init  PROVE Budget /\ OthersTyped
  OBVIOUS
<1>1. Underway = {} /\ Unclaimed = Requests
  BY DEF Init, Underway, Unclaimed, Idle
<1>2. Cardinality(Requests) \in Nat /\ Cardinality({}) = 0 /\ erasures = 0
  BY ErasureBounds, FS_CardinalityType, FS_EmptySet DEF Init
<1>3. Budget
  BY <1>1, <1>2, ErasureBounds, SMT DEF Budget
<1>4. OthersTyped
  <2>1. 0 \in 0..MaxFaults
    BY ErasureConstants, SMT
  <2> QED
    BY <2>1 DEF Init, OthersTyped
<1> QED
  BY <1>3, <1>4

(* The types hold, and so does the bound on erasures: every request has    *)
(* room for its own erasure, however checks overlap, fail and are repeated,*)
(* because a request is claimed once and commits once.                     *)
THEOREM TypeCorrect == Spec => []TypeOK
<1>1. IInv /\ Budget /\ OthersTyped => TypeOK
  <2> SUFFICES ASSUME IInv, Budget, OthersTyped  PROVE TypeOK
    OBVIOUS
  <2>1. PICK n \in Nat, m \in Nat : erasures + n + m <= MaxErasures
    BY UnderwayCounted DEF Budget
  <2>2. erasures \in Nat /\ MaxErasures \in Nat
    BY ErasureConstants DEF IInv, Typed
  <2>3. erasures \in 0..MaxErasures
    BY <2>1, <2>2, SMT
  <2> QED
    BY <2>3 DEF TypeOK, IInv, Typed, OthersTyped, Programs, Jobs
<1>2. IInv /\ Budget /\ OthersTyped /\ [Next]_vars => (IInv /\ Budget /\ OthersTyped)'
  BY NextIInv, BudgetLasts, OthersStayTyped
<1> QED
  BY InitIInv, InitBounded, <1>1, <1>2, PTL DEF Spec

=============================================================================
