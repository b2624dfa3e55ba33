# Llámenos: TLA+ specifications

Specifications of the server side of Llámenos, a self-hosted crisis hotline: callers are rung
through to volunteers, subscribers receive blasts, and everything goes over external providers that
fail, repeat themselves and answer late. The modules model the code in `src/apps/worker`; TLC checks
them on small instances and TLAPS proves theorems about them for all instances.

Paths below are relative to `src/apps/worker` unless they start with `src/`.

## The system

The backend is one Hono application on Bun over PostgreSQL (Drizzle on `bun-sql`). A request
handler is a chain of awaits, and between any two of them every other handler, background task and
timer may run. Handlers share the tables and a little process memory (the registry of ringing legs,
the circuit breakers, the `processing` flag of the blast worker, the relay's connections and event
buffers). Single SQL statements and
transactions are atomic; nearly all the care in the code is in conditional UPDATEs, and nearly all
the hazards are in reads that decide a later unconditional one.

| Component | State it keeps | Operations | Interacts with | Correct when |
|---|---|---|---|---|
| Call routing (`services/calls.ts`, `services/ringing.ts`, `routes/telephony.ts`, `routes/calls.ts`) | `active_calls`, `call_records`, `call_tokens`; in memory `ringLegs` | ring, answer by phone or app, cancel losers, end (five webhooks, two routes), sweep, spam, voicemail | telephony provider, apps, dashboards | rung once, one answerer, over for good; tables agree; no call stays for ever |
| Blast delivery (`services/blasts.ts`, `lib/blast-*.ts`, `messaging/router.ts`) | `blasts`, `blast_deliveries`, `subscribers` | send, schedule, cancel, delete, retry, expand, drain, mark, sync | messaging provider, worker and poller timers | no blind resend, limited attempts, cancel and opt-out take effect, a blast ends |
| Circuit breaker (`lib/circuit-breaker.ts`, `lib/retry.ts`) | state, failure times | execute, getState, retry loop | ringing, firehose, identity, settings, metrics | opens at the threshold, stays open for the timeout, recovers |
| Call admission (IVR, captcha, bans, rate limit) | captcha digits, bans, counters | incoming, language, captcha | call routing | planned |
| Webhook replay (`services/webhook-replay.ts`) | `webhook_nonces` | first-delivery check | all webhooks | planned |
| Event outbox (`lib/event-outbox.ts`, `lib/ws-events.ts`) | `event_outbox` | publish, sweep, mark, clean up | every component that publishes, the relay, timers | settled only when published; a stored event is published or used up its attempts |
| WebSocket relay (`lib/ws-manager.ts`, `lib/ring-buffer.ts`, `routes/ws.ts`) | connections, subscriptions, event buffers, all in memory | authenticate, subscribe, close, revalidate, evict, terminate, publish | clients, outbox, erasure | who is gone is disconnected, who left is unsubscribed; calls outlive floods in the buffer |
| Erasure and re-encryption (`services/erasure.ts`, `lib/erasure-expiry-worker.ts`, `lib/re-encryption-worker.ts`) | `erasure_requests`, `re_encryption_jobs`, the user's rows | request, cancel, claim, execute, strip | two timers, admins, audit log, relay | claimed once, decided, no reader's envelope of the user left by a completed job |
| Recovery groups (`services/recovery-group.ts`), sigchain appends (`services/crypto-keys.ts`) | `recovery_sessions`, contributions, `sigchain_links` | initiate, verify, contribute, cancel, override, complete, append | share holders, approvers, the user's devices | no device added without enough holders and the delay; the chain connected |
| Audit log (`services/audit.ts`, `lib/audit-chain-verify-worker.ts`) | `audit_log`, one hash chain per hub; `reportedBreaks` in memory | log, verify, report | every handler, erasure, retention | append order kept, tampering found, no false alarm |
| Signal queue and failover (`messaging/signal`) | `signal_message_queue` | enqueue, claim, mark | nobody in production code | not modelled: unused |
| Shifts (`services/shift*.ts`) | rosters, requests, overrides | request, accept, expire | ring list | planned |
| Conversations, cases, contacts, records, identity, settings, retention, push, storage, transcription, adapters | rows and files | create, read, update, delete; I/O | | not modelled: no protocol between concurrent actors, or not read closely yet |
| Clients, SIP bridge, notifier, packages, deployment, site, orchestrator | | | the same API | not modelled |

`PROJECT.json` lists every component with its status, and under `hazards` what is hard to test, at
its line, with the property that covers it or why none does yet.

## Modules

    CallLifecycle           what is promised about a call (abstract)
      CallRouting           the handlers; implements CallLifecycle (INSTANCE with PhaseOf)
        CallRouting_proofs  theorems
        MCCallRouting       instances for TLC
    Blasts                  one blast, its deliveries, the worker
      Blasts_proofs         theorems
      MCBlasts
    CircuitBreaker          one breaker, its callers' retry loops
      CircuitBreaker_proofs theorems
      MCCircuitBreaker
    Recovery                recovery sessions and both appenders of the sigchain
      Recovery_proofs       theorems
      MCRecovery
    Erasure                 requests, the two workers, the jobs of one account
      Erasure_proofs        theorems
      MCErasure
    AuditTrail              what the audit log promises of one chain (abstract)
      AuditChain            appending, erasing, purging, verifying; implements AuditTrail
        AuditChain_proofs   theorems
        MCAuditChain
    Outbox                  durable events from publishEvent to the relay
      Outbox_proofs         theorems
      MCOutbox
    RingBuffer              what a push leaves of the relay's buffer (operators)
      ConnectionManager     the relay, for one user and one hub
        ConnectionManager_proofs  theorems
        MCConnectionManager

The modules meet where one is what another takes for granted: `Outbox!PublishToHub` is the relay's
`publishToHub` with its rate limit, `ConnectionManager!PublishToHub` what becomes of the event then;
`Erasure!Wipes` ends in `ConnectionManager!Terminates`; `AuditChain!Erase` is the part of
`Erasure!Commits` that rewrites the log; `Erasure!LogsErasure` is an `AuditChain` append. They are
checked apart: each keeps its own tables, and they share no row that one reads and another decides
by.

Operators marked `Regression` or `Mutant` stand before the definition they would replace. They are
plausible mistakes (a dropped condition, a missing reset), used to see that each property can fail;
no specification uses them.

### CallRouting

| TLA+ | Code |
|---|---|
| `active`, `records`, `tokens` | the three tables; `NoRow` for no row |
| `age` | how old `startedAt` is, in the four classes the code tells apart (3 minutes, 5 minutes, 2 hours) |
| `ringTask`, `ringSet` | `startParallelRinging`, a background task with six awaits |
| `registry` | the `ringLegs` map |
| `reqs` | handlers between two awaits, with what they have read (`stale` is the sweep's snapshot) |
| `caller`, `legs`, `hooks` | the provider: the caller's leg, the volunteers' legs, webhooks still to come |
| `winner`, `answeredOn` | history, for the properties |

A handler is one action when it reads and writes in one statement or transaction (`EndCall`,
`Claim`), and several when it decides on something it read earlier: `AppAnswerChecks` /
`AppAnswerClaims`, `CallStatusCompleted` / `ReapCommits` / `CallStatusEnds`, `SpamChecks` /
`ReportSpam`. `getActiveCalls` is called by four handlers and sweeps in each: the handler goes
through phase `reap` when it found stale rows. The provider delivers webhooks in any order or never;
`CancelLegs` may fail at the provider; `RingPhones` may ring some phones and then fail. `Crash`
drops background tasks, handlers and the registry and keeps the tables and the provider.

Abstractions: a volunteer has at most one phone leg per call; a token is as old as its call (the
task creates it within seconds of the row); the three attempts of `withRetry` to ring the phones are
one (`services/ringing.ts:294-313`); `/call-status` finds its call by the token, and the path over
`parentCallSid` (`routes/telephony.ts:398-400`) is left out; who is inactive, on break or not a
member of the hub is any set (`resting`), chosen each time the ring list is resolved; the reads of
`resolveRingableVolunteers` are one step; a hub always has a provider; audit entries, published
events, durations and names are left out. The replay check makes a webhook arrive at most once.
`POST /ban` is left out: it adds a ban and ends the call with hang-up's own two steps.

### Blasts

| TLA+ | Code |
|---|---|
| `status` | `blasts.status`, `deleted` when the row is gone |
| `row`, `attempts` | `blast_deliveries`; `backoff` is `pending` with `next_retry_at` in the future |
| `subscribed` | recipients for whom `isSubscriberActive` holds |
| `awaited` | recipients about whose current `external_id` the provider has not reported |
| `worker` | `pollForWork` and `processBlastBatch`, one at a time (`processing`) |
| `reqs` | the other handlers between two awaits |
| `copies`, `tries`, `lateCancel`, `lateOptOut` | history, for the properties |

The worker's poll, drain, re-check of the blast, opt-out check, send and mark are steps of their own,
so that cancels, opt-outs, retries and webhooks fall between any two. Check and mark of an opt-out
are one step: they differ from two only by the order in which one row is overwritten.

`RawRows` says in which shape `drainDeliveryBatch` hands out the driver's rows: TRUE for the
columns' names, as a raw `RETURNING *` yields them, FALSE for the names of the row type the code
casts them to, which every test stub uses. The passing runs take FALSE, since otherwise nothing is
ever sent; `blast_raw_rows` shows what TRUE does.

Abstractions: one blast, one poll over it at a time; content, statistics, the daily limit and the
rate limiter's delays are left out; a draft is not edited; a subscriber opts out at most once and
does not come back; the provider reports finally on a message at most once; the database does not
fail. The batch is larger than the instances.

### CircuitBreaker

`state`, `failures` and `sinceFailure` are the three fields of the class, timestamps kept as ages in
ticks that saturate where no comparison can tell the difference. `request[c]` is the `withRetry` loop
inside `execute`; what the breaker does before the first attempt and after the last is atomic, as it
is in a single-threaded runtime. A rejected request changes only metrics and is no step.
`forceState` and `reset` are for tests and left out, and so are the metrics.

### Recovery

`status`, `signalVerified`, `due` and `contributed` are the session's row and its contributions;
`chain` is `sigchain_links` in the order of insertion, a link's hash its place. Each handler is at
least two actions, `...Reads` and `...Writes`, because it reads the session, decides, and writes by
session id; the two transactions (`contributeShare`, `completeRecovery`) are split at their reads,
since READ COMMITTED lets others commit between a count and a commit. `waited` and `overridden` are
history. `expires_at` has two meanings, as in the code: the time limit of a pending session, the
delay of a verified one.

Abstractions: the wrong codes are not counted (`VerifyReads` may find the attempts used up at any
time); signatures are taken to be valid; one user, so that the chain is that user's; `MaxLinks`
bounds the chain.

### Erasure

`request`, `due`, `user`, `keys`, `copies` and `jobs` are the tables, reduced to one account: `keys`
the hubs with a `hub_keys` row of it, `copies[h]` the tables that hold an envelope of it. The passes of
a job take `notes`, `note_replies` and `messages` in turn (`Passes`) and strip the readers' envelopes;
`Authored` stands for the notes the user wrote, whose author envelope is counted by a job
(`services/erasure.ts:504`) and stripped by none. `SetsHubKeys` is `setHubKeyEnvelopes`, which replaces
a hub's rows by those of the recipients it is given, so that the user comes in or is rotated out;
nothing but `Known` (a key, or a note the user wrote) tells an erasure which hubs there are. Clients
seal envelopes at any time (`Seals`), also when they have not heard of the erasure (`late`), and
retention deletes them (`Deletes`).

`run` is a handler or a worker's check between two awaits; neither worker guards against overlapping
itself, so two runners may be checks of the same worker. The audit entry of `executeErasure` is written
by a connection of its own inside the erasure's transaction: `LogsErasure` takes effect at once,
`Commits` may still fail. `ErasingFails` is every failing statement of the worker, the `markFailed` of
its `catch` included, which ends the check and leaves the request in `executing`. `held` and `missed`
are history: the hubs the account was known in when it was erased, and those it came into while an
erasure had read the hubs already.

What the properties except is what the code leaves, and the counterexamples below show it: a hub the
user was rotated out of keeps its envelopes and gets no job, a hub that is joined after the reading
gets none either, author envelopes stay in completed jobs, and a failure whose recording fails leaves a
request undecided.

Abstractions: the rows the transaction deletes are `user` and `keys`; a table is stripped in one
step; the delay is `Elapses`; whether a note's author envelope names its recipient, which decides if it
is counted, is open at every count (`Counts`).

### AuditTrail and AuditChain

`rows` is the chain in the order of `created_at`, which is the order `verifyChain` reads and `log`
finds its tip by. A hash is a record of what was hashed, so two hashes are equal only when the
entries are: SHA-256 is taken to be injective. `LogLocks` is `pg_advisory_xact_lock`; the clock is
any value in `0..MaxClock` at each append, so that clocks go backwards and disagree, and `Stamped` is
the `GREATEST` with the tip's. `Places` is where `ORDER BY created_at, id` may put the row: ids are
random, so equal times could be in either order. `Erase`, `Purge` and `Alter` are what others do to
the rows; `check` is one `verifyFullChain` by pages of three queries each; `reported` is
`reportedBreaks`. `Report`
emits the security event and remembers the break in one step: an emit that fails is tried again by the
next run, and a restart between the two is a report followed by a restart.

`AuditTrail` is the abstract log: entries come last, the oldest leave. `AuditChain` implements it
with `trail` as the ids of `rows`; the step that matters is `LogInserts`, which must put its row last.

### Outbox

`row`, `attempts`, `resting` are `event_outbox` (status, `retry_count`, `next_retry_at` to come);
`publisher[e]` is where the promise chain of `publishEvent` is, `sweep[d]` where one `drainOutbox` is:
sweeps overlap, as the timer does not wait. The `.catch` of the chain covers the insert and the mark,
which is why `EnqueueFails` and `MarkFails` both fan out. Publishing signs the event and may throw:
before the mark that is `MarkFails` in phase `stored`, in the `.catch` it leaves the event unsent
(`Catches`), and in a sweep it is an attempt that failed (`DrainStumbles`). `fate` is history: whether the event was
offered to the hub's subscribers or only met the rate limit. `Restart` forgets everything in memory
and may or may not have committed an insert under way. A row that is deleted stays `gone`.

### RingBuffer and ConnectionManager

`RingBuffer` holds `push` as operators over a sequence, which count and compare the places (`Slots`)
of its calls and of its other items; `ConnectionManager` the rest, for one user and
one hub. A socket and the connection states it has had are kept apart, since a socket may have several:
`data.authenticated` is set after the lookup (`routes/ws.ts:104`, `:225`), so while one auth message is
being looked up the next one is, too, and each of them registers a `ConnectionState`.

| TLA+ | Code |
|---|---|
| `account` | what `lookupUser` would find now |
| `Auths`, `SocketOf` | auth messages, also the states they leave; the socket each comes over |
| `phase[a]`, `answer[a]` | where the message's handler is; what its query, or later that of its interval, has found |
| `socket[c]`, `current[c]` | the socket; its `data.connState`, the state made last |
| `timers` | revalidation intervals that run; `data.validationInterval` is the one of `current[c]`, and an earlier one goes on |
| `hubs`, `subscribedHubs`, `registered` | the fields of `ConnectionState` and the map of connections |
| `subscribed` | the hub's entry for the user, which belongs to the user and not to a state |

`LooksUp` is the message and the query it sends, `LookupReturns` the rest of `handleAuth`: the limit,
the registration, the interval. A state that another has replaced stays registered, is neither
unregistered when the socket closes (`Shuts`) nor looked at by a revalidation, and keeps its place in
the count; `terminateUser` still closes its socket. An interval outlives its socket when a message is
accepted after the close or was replaced, and it revalidates whatever state the socket has by then,
also one made while its own query was under way. `Foreign` are messages that may be for another
account: what that one's own state knows of the hub and whether it is within its limit are open, and
only its effects on the user's states are followed. `EvictExpired` removes one item at a time, at any
time: the code removes as many as are old at the next push or read.

Abstractions: event kinds, `replay`, several hubs, other users' sockets, signatures, and the count of
the rate limits are left out; a message that is refused or throws is a `Close`.

## What TLC checks

| Run | Instance | Question | Answer |
|---|---|---|---|
| `calls` | 1 call, 2 volunteers, 2 handlers at once, lost webhooks, 1 restart (0.8 M states) | do the handlers implement the lifecycle; do the tables agree; who ends a call; does the winner's leg survive; is every call retired, unless reported as spam | yes |
| `calls_sweep` | 1 call, 1 volunteer | does the sweep end only stale calls (`services/calls.ts:35-36`) | no |
| `blasts` | 2 recipients, 2 attempts, 2 handlers, 1 restart (2.1 M states) | do cancel and opt-out stop sending | yes |
| `blasts_liveness` | 1 recipient, 3 attempts, 2 handlers, 1 retry, 1 restart (0.5 M) | no blind resend, limited attempts, and does a blast finish | yes, with two exceptions it names |
| `blast_raw_rows` | 1 recipient, `RawRows` | is only who unsubscribed opted out (`services/blasts.ts:901`) | no |
| `breaker` | 3 callers, 3 attempts, threshold 3 | the threshold, the timeout, recovery | yes |
| `recovery` | 1 session, 3 holders, threshold 2, 2 handlers, 3 links, restarts (0.2 M) | are added devices backed and delayed, is activity earned, is the chain connected | yes |
| `erasure` | 1 request, 1 admin erasure, 1 hub whose keys come and go, 2 tables and the user's notes, 2 runners, 1 fault (2.9 M) | claimed once, jobs for what was known, completed jobs clean of readers' envelopes | yes |
| `erasure_liveness` | 1 erasure, 1 table, 2 faults, otherwise the same (0.1 M) | are due requests taken, executing ones decided, queued jobs completed | yes, unless the process stops or recording a failure fails |
| `audit` | 2 writers, 2 actors, 4 entries, pages of 2, 1 restart (0.5 M) | is the chain linked, is it the abstract trail, are alarms meant, is tampering reported | yes |
| `outbox` | 2 events, 2 sweeps, 2 attempts, 2 failures or restarts (0.3 M) | is only what was published settled, is what was stored published | yes |
| `relay` | 2 sockets, 3 auth messages, 2 of them over one socket, 1 change of membership, a buffer of 3 with 1 reserved slot (0.2 M) | is who is gone disconnected, who left unsubscribed; are calls kept, is the capacity | yes |

Every property of a passing run has a mutant in `PROJECT.json` that breaks it.

Deadlock is not checked where the system really may stop: a call that is over, a blast that is
deleted, a session that is completed, an erased account, a full trail, settled events, an account that
is gone leave nothing to do. The breaker's clock never stops and its runs do check it.

### What the negative answers mean

- `calls_sweep`: `getActiveCalls` deletes rows by call id, in a transaction after the read. A call
  that turns three minutes old and is answered between the two is taken off the board and written
  down as `unanswered` while the conversation goes on. Conditions on the DELETE would close it.
- `blast_raw_rows`: `subscriber_id` is read as `subscriberId`, and the worker opts everybody out.

### Counterexamples kept beside the runs

The modules also state what comments and documents say and the code does not do. Each has a
configuration that TLC answers with a counterexample within seconds; they are not in the list of runs,
which is kept short.

| Configuration | Property | Says | What happens |
|---|---|---|---|
| `MCCallLegs` | `CompletedEndsOnlyTheLegsCall` | `routes/telephony.ts:412-413` | `/call-status` compares volunteers, not legs: a volunteer who is rung on the phone and answers in the app has their phone leg cancelled, its `completed` names them, and their call is ended |
| `MCCallBusy` | `OneCallAtATime` | `services/calls.ts:100` | being busy is a filter when the ring list is resolved, not a condition of the claim |
| `MCBlastCancel` | `SyncKeepsCancelled` | `services/blasts.ts:979` | the sync decides on a status it read and writes by id |
| `MCCircuitProbe` | `SingleProbe` | `lib/circuit-breaker.ts:7` | only `open` rejects; in `half_open` everybody goes through |
| `MCRecoveryFork` | `OneLinkPerNumber` | `services/crypto-keys.ts:165` | two appenders read one head; no lock or unique index keeps the second from inserting |
| `MCRecoveryThreshold` | `ThresholdActivates` | `src/docs/superpowers/specs/2026-05-12-EP09-recovery-group-design.md:435` | two contributions count at the same time and do not see each other; the session stays verified with enough shares |
| `MCErasureAudit` | `AuditedMeansErased` | `services/erasure.ts:395` | the entry is written outside the transaction and stays when it is rolled back |
| `MCErasureAuthor` | `CompletedJobLeavesNothing` | `lib/re-encryption-worker.ts:4-5` | a pass strips `admin_envelopes` only: the author envelope of the user's own notes is counted and stays (`services/erasure.ts:533-544`) |
| `MCErasureRotated` | `CopiesHaveJobs` | `services/erasure.ts:289-290` | a hub whose keys were replaced without the user has no `hub_keys` row to find it by (`services/settings.ts:2560`), and envelopes of before |
| `MCOutboxThrottled` | `DeliveredWasOffered` | `lib/event-outbox.ts:58` | the rate limit drops the event and the row is marked delivered |
| `MCRelayClose` | `LastCloseCleansUp` | `lib/ws-manager.ts:112` | the last connection to close is not the one that had subscribed: the user's subscription stays |
| `MCRelayClosed` | `ClosedIsUnregistered` | `lib/ws-manager.ts:112` | a lookup that returns after the close registers a closed socket; of two auth messages over one socket, the first one's state is registered for good |
| `MCRelaySuperseded` | `LeaverLosesSubscription` | `routes/ws.ts:273` | the state that had the hub is replaced by one that was looked up after the user left: revalidation finds no hub to evict, the subscription stays |

### Bounds

- **Calls.** `MaxReqs = 2` puts two handlers beside the ringing task: every race named in the hazards
  is between two handlers, or a handler and the task. One call is enough for the properties of
  `calls`, as they speak of one call at a time and calls only meet in `Busy`, which filters who may be
  rung, and in the sweep, whose loop treats each row by itself; `MCCallBusy` has two. Two volunteers
  make a winner and a loser, each by phone and in the app.
- **Blasts.** Two recipients make a batch that can be interrupted in the middle, which cancels and
  opt-outs need: that is `blasts`, with two attempts and no retries by an admin to keep it small.
  `blasts_liveness` has one recipient, a retry by an admin (`MaxAdmin`) and the code's three attempts
  (`BLAST_MAX_RETRIES`), which is what resending and attempts are about.
- **Breaker.** Three callers can bring three failures at once, the threshold.
- **Recovery.** Three holders with a threshold of two leave one who is not needed; `MaxLinks = 3` lets
  two devices be added beside an ordinary append. Two handlers at once is every pair of a reader and a
  writer. Restarts are not counted: they only drop handlers.
- **Erasure.** Two runners are two checks of one worker, or a check and a handler; `MaxErasures = 2`
  lets an admin erase the account beside its own request; two of the three tables (`LastPass`) make a
  pass that can stop between them; one fault is a failing statement or a restart. `erasure_liveness`
  has two faults, which a failure and the failure to record it need, and one table to make room.
- **Audit.** Four entries are two pages of two (`PageSize`), so that an entry may move from one page to
  the other; `MaxClock = 1` lets one clock say something earlier than the tip. One restart.
- **Outbox.** Two sweeps overlap on two rows; two attempts leave one retry before a row fails; two
  faults make an insert fail and its mark, too.
- **Relay.** Two messages over one socket are looked up at once, the second perhaps for another
  account, and a third comes over a socket of its own: three states, of which the limit, two, leaves one
  out. One change of membership is a leave or a return, and the account may be deactivated besides;
  what a state learns from it does not depend on how often it happened before. A buffer of three with a
  reserved slot fills with either kind, and `MaxHeld = 5` lets it grow beyond its capacity as the code
  can. The constraint `Apart` follows the connections on an empty buffer, and the events before the first
  socket opens: the two share no variable and no guard, so that every step of either is seen in every
  state of its own half, and the product of the halves would add states but no behaviour of either.

`MaxCrashes` and `MaxFaults` bound restarts and failures. History counters saturate above the limits
their properties state. Recipients are interchangeable in `blasts`, holders and handlers in
`recovery`, runners in `erasure`: these runs use symmetry. Runs with liveness use none.

### Fairness

- `CallRouting`: a handler that has begun runs on (weak fairness of handler steps); time passes;
  every open dashboard polls every 15 seconds (`src/src/client/lib/hooks.ts:147`), hence `Poll` is
  taken again and again. Strong fairness, because the bound on handlers disables it for moments.
  Nothing is assumed of callers, volunteers, the ringing task or webhooks.
- `Blasts`: handlers run on, the worker polls on its timer, backoffs elapse. Nothing is assumed of
  admins, subscribers or the provider's reports.
- `CircuitBreaker`: time passes, attempts are answered, and callers come again: the firehose agent
  on an interval, the others with the calls and logins they serve. `Recovers` needs somebody to
  probe.
- `Erasure`: the intervals of the two workers fire again and again; strong fairness, as a check needs
  a runner that is free and the other work can occupy them for moments. What has begun goes on unless
  the process stops. Nothing makes an admin or a user act, nor the delay pass (`due` is a condition of
  `DueIsTaken`).
- `AuditChain`: the hourly verification begins, and goes on once begun. Nothing is assumed of writers.
- `Outbox`: promises settle, the sweep's timer fires and a sweep goes on, backoffs elapse.
- `ConnectionManager`: queries are answered and the revalidation intervals fire (weak fairness of
  `AuthStep(a)`, for each message). That a message is sent is not assumed, nor anything else of clients
  or of the account.

`BlastFinishes` excepts a delivery left in `sending` by a restart or a stopped batch, which no code
picks up again, and a cancelled delivery under a blast that a late retry put back to `sending`. Both
really keep a blast in `sending` for ever. `ExecutingSettles` excepts a process that stopped and a second failing
statement, which may be `markFailed` itself (`lib/erasure-expiry-worker.ts:71`), as no code takes an
`executing` request up again; one failure alone is always recorded. `QueuedCompletes` excepts both a
stop and any failing statement. `LeaverIsEvicted` excepts a state that is replaced as its socket's
before the revalidation, and a socket over which another account authenticated; `NobodyStaysConnected`
a socket that becomes another account's. In these cases the subscription or the registration does stay.
`AlterationIsReported` says little after a purge: the first row that is left then breaks the chain and
stays reported whatever was altered behind it.

## What TLAPS proves

Each proof module proves that an inductive invariant, `IInv`, holds (`InvHolds`), and draws the
properties from it. None of the properties is inductive: what is added is, in every module, that what
a handler has read and carries across an await is still true where it matters, or can no longer
matter. The proofs go action by action, each with a step per part of the invariant it disturbs.

**CallRouting_proofs**, for all constants that satisfy `RoutingConstants` (the roster and fallback
groups are sets of volunteers, `None` is not one, the bounds are numbers):

- `TypeCorrect`, `NeverLiveAndEndedHolds`, `TablesTellTheAnswerHolds`: invariants;
- `OnlyAnswererEndsCallHolds`, `WinningLegSurvivesCancelHolds`: action properties;
- `LifecycleImplemented`: every behaviour of `CallRouting` is one of `CallLifecycle`.

`IInv` says, besides `TypeOK`,

- `RowsTrue(c)`: the rows of a call agree with its `winner`, they are not both there, and a call
  whose task has not added its row yet has none and was never answered, so that `AddCall` never
  brings an ended call back;
- `IdleIsUnrung(c)`: a caller who is not in the queue has no ringing task, so that none is scheduled
  twice;
- `TokensAreOfRungCalls`: tokens exist only for calls whose task got that far;
- `TrueRequest(r)`: a snapshot to be swept was a row of a call that is live or ended now, and answered
  if the snapshot says so; a hang-up, a spam report and a phone answer belong to the call's answerer; a
  `callStatus` about to end a call comes from the answerer, or the call is gone, or its own sweep will
  take it; a `cancel` knows whether the answer was by phone or in the app.

First it is shown what each effect on the tables (`EndCall`, `Reap`, `Claim`, ...) does to the rows of
a call; most actions leave the rows alone (`RowsKept`, `OtherRowsKept`). The refinement shows that
adding a row is `Ring`, a claim is `Answer`, `EndCall` and `Reap` are `Over`, and everything else is a
stutter.

**CircuitBreaker_proofs**, for any number of callers and any positive threshold, window, timeout and
attempts: `NoEarlyProbeHolds`, `TypeCorrect`, `ClosedBelowThresholdHolds`. For the first the invariant,
`OpenedByFailureHolds`, is that while the breaker is open the last failure is no older than the
opening: late failures can only put the probe off. For the others it has to be known what pruning the
failures (`Recent`, a recursive function over the list's prefixes) returns. That such a function exists
and that its values are lists of ages would be an induction, for whose rule the provers have no
instance; it is shown instead that no prefix is the shortest one without it (`FilterExists`,
`RecentIsRecent`), from the least number of a set (`LeastNumber`, itself drawn from the
well-foundedness of strict inclusion). A closed breaker stays below the threshold because every failure
that reaches it opens the breaker and every success that closes it forgets the failures.

**Blasts_proofs**, for any recipients, handlers, retries and restarts, and both shapes of rows:
`TypeCorrect`, `CancelStopsSendingHolds`, `OptOutStopsSendingHolds`, `NoBlindResendHolds`,
`RetryBudgetHolds`, `FirstRetryIsSafe`. `CancelSeen` and `OptOutSeen(r)`
say that after the one message that was already on its way the worker stands at no further delivery of
a cancelled blast, of a recipient who opted out, so that the count of late messages cannot reach two.

`Single` says who holds a delivery: one of the worker, the provider and one webhook's handler at most
is about to mark it (`OneHolder`), what is to be sent or inserted is nobody's (`Unsent`, `Untouched`),
and whoever marks it next knows how often it was sent (`Counted`). The unguarded writes by id do no
harm then, because nobody else is writing. One thing can spoil it: a single retry resets the row by id
after it has read that it failed (`services/blasts.ts`, `retryDelivery`), and two of them that have
both read before either writes reset it twice, the second time while the worker may be sending it. TLC
finds that with `MaxAdmin = 2`. So `SingleHolds`, `NoBlindResendHolds` and `RetryBudgetHolds` have the
hypothesis `[]Fresh`: the row that a single retry resets is still the failed one it has read. It
allows any number of retries, of either kind, one after the other. `FirstRetryIsSafe` has no
hypothesis: until an admin asks for a second retry both properties hold, since the first finds what it
has read (`SoleRetry`), which is more than the runs' `MaxAdmin = 1` shows.

**Recovery_proofs**, for any finite set of holders, positive threshold, and any sessions, handlers and
links: `TypeCorrect`, `LinksAreBackedHolds`, `DelayHonouredHolds`, `ActiveIsEarnedHolds`,
`ChainConnectedHolds`. `SessionTrue(s)` says that what is due and verified has waited, and that what is
active was hurried or has enough contributions; `TrueRequest(r)` that a contribution about to activate
has counted enough, that a completion has found its session waited for and backed, and that an appender
continues a link that exists. All of these facts are monotone (`Grows`): contributions, delays and
links are never taken back, which is why the unguarded writes by session id do no harm to them.

**Outbox_proofs**, for any events, overlapping sweeps, attempts, failures and restarts: `TypeCorrect`,
`DeliveredWasPublishedHolds`, `FailedUsedItsAttemptsHolds`. Whoever is about to mark a row, publisher
or sweep, has published its event, and a published event stays published; the fallback of the `.catch`,
which may publish or not, only adds to that.

**Erasure_proofs**, for any requests, hubs, tables, overlapping checks, erasures and faults:
`ClaimedOnceHolds`, `ErasedHasJobsHolds`, `CompletedJobIsCleanHolds`, `TypeCorrect`. `RequestTrue(r)`: what was claimed
or withdrawn is never pending again; `ReadingTrue(p)`: an erasure that has read the hubs has, of those
with a key or a note of the user now, all but what came since (a hub may leave `Known` meanwhile, which
only lets the erasure queue a job too many); `JobTrue(p)`: what a job has not stripped of the tables of
its passes is ahead of it, or was sealed too late, and stays so although two runners may strip one
table and rows are deleted. Author envelopes are no part of it: no pass takes them. `Budget` bounds the erasures: those committed,
those under way and the requests not claimed yet never exceed `MaxErasures` together, because a request
is claimed once, by `RequestTrue`, and an erasure commits once; `ErasureBounds` starts it off (the
requests and runners are finite, and the bound leaves room for every request).

**ConnectionManager_proofs**, for any sockets, any finite set of auth messages under way at once on any
of them, for the user or another account, any limit, capacity and reservation: `TypeCorrect`,
`CapacityHolds`, `CallsAreKeptHolds`. The types include the limit of registrations: a state is added by
`LookupReturns` alone, where there is room. `Sent` says that a socket with a message is there already,
so that opening one brings no state back, and `Attached` that the state an open socket has is its own, and registered if it is
the user's: a state that asks for a hub is therefore a registered one, whichever lookups returned
between. The invariant adds that the items that are no calls
`Fits` in what the calls leave of the capacity, whether or not the calls keep to their reservation;
when they do, both together are within the capacity. A push does one of four things
(`PushOutcomes`): it appends where there is room, replaces the oldest item that is no call, drops the
oldest of nothing but calls, or refuses. What that does to the places of a kind is counted by a
bijection between the places before and after (`SlotsOfRemoval`), and the same correspondence keeps
the calls in order (`RemovalKeepsKind`).

**AuditChain_proofs**, for any finite set of writers, any page size, clocks and number of entries and
restarts: `ChainLinkedHolds`, `AlarmsAreMeantHolds`, and the refinement `TrailImplemented` (every
behaviour of `AuditChain` is one of `AuditTrail`). `TipTrue(w)`: whoever has read the tip holds the
lock, and until its entry is in the tip stays the last entry, older than the stamp; so the only place
`ORDER BY created_at` can give the new entry is the last (`InsertsLast`), and inserting is appending.
`PristineTrue`: while nothing was purged or altered every row that is not anonymised hashes to its
hash, and the verification's `pred` is the hash before its page, so no page breaks (`PristinePage`);
erasure marks what no longer hashes, and appends only ever lengthen the last page. `Room` keeps ids
within their bound, which the abstract trail's entries need; it counts the calls in flight, hence the
assumption that writers are finite. `TypeCorrect` comes last, from an invariant of its own
(`Bounded`): a stamp one past the tip may run ahead of every clock, but by one tick per entry at most
(`Within`), so with `Room` every time and id fits, and a verification's offset stays within the rows.

The assumptions are the `ASSUME`s of the modules, which TLC evaluates in every run; nothing else is
taken for granted.

### Only model-checked

- All liveness (fairness and ENABLED are out of the prover's reach).
- `Blasts!NoBlindResend` and `RetryBudget` beyond the first retry by an admin without `[]Fresh`: there
  they are false.

## Not modelled

- **Call admission, webhook replay.** The IVR, captcha, bans and rate limits decide whether
  `CallRouting!Admit` happens; the replay check makes webhooks arrive at most once, which
  `CallRouting` takes for granted together with their loss. The composition is in the plan.
- **Signal queue and failover.** Nothing in production code enqueues to the queue or claims from it,
  and `failover.ts` has no caller.
- **Shifts.** Rosters are constants of `CallRouting`; the requests to take over a shift are planned.
- **Retention.** The purge of the audit log is `AuditChain!Purge`. The other categories are timed
  DELETEs. The one for calls names the statuses `ended`, `missed`, `no-answer` and `rejected`
  (`services/retention.ts:141`), while `endCall` and the sweep record `completed` and `unanswered`
  (`services/calls.ts:68`, `:239`): no record of theirs is purged, so it meets nothing in the modelled
  state either.
- **Conversations, cases, contacts, records, identity, settings.** Large, and mostly reads and writes
  of single rows over encrypted payloads; session renewal and the rate limiter are candidates.
- **Adapters, push, storage, transcription, firehose, geocoding, SIP bridge, notifier.** Input and
  output around external services; what the handlers need of them appears as the provider's actions.
- **Cryptography and protocol packages.** Algorithms over bytes, with test vectors.
- **Clients, deployment, site, orchestrator.** User interfaces over the same API, or not part of the
  running system.

## Plan

1. `CallAdmission`: what comes before `Admit`, with bans, captcha and the replay check, composed with
   `CallRouting`'s ringing task: a retry that is taken for a replay leaves a caller without a row.
2. A failing database in `Blasts` (`markDeliverySent` throws after the provider accepted), subscribers
   who come back, and the premature `sent` of a blast whose expansion is late or lost.
3. `ShiftRequests`: requests, acceptance and expiry beside the roster that `CallRouting` reads.
4. The relay's `replay` with its rate limit and cursors, and several users of a hub.
5. All invariants and action properties of the runs are theorems; what a new module of this list
   states is proved with it, and the liveness of `Outbox` and `Erasure` may get safety lemmas (nobody
   waits for what cannot come) that say why it holds.

Runs are few on purpose: one that has told its story may make room for a deeper one.
