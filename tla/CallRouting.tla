----------------------------- MODULE CallRouting -----------------------------
(***************************************************************************)
(* A caller's way through the worker: the ringing task, the provider's     *)
(* webhooks, the volunteer's app and the sweep of stale calls.             *)
(* An action is what a handler does between two awaits on shared state;    *)
(* what it does next is kept in `reqs`, so that every handler interleaves  *)
(* with every other one.                                                   *)
(***************************************************************************)
EXTENDS Naturals, FiniteSets

CONSTANTS
  Calls,        \* provider call SIDs of callers
  Volunteers,   \* volunteer pubkeys
  Hubs,
  HubOf,        \* the hub whose number each caller dialled
  OnShift,      \* the hub's roster
  Fallback,     \* the hub's fallback group
  PhoneUsers,   \* volunteers whose preference is phone or both, with a phone
  None,
  MaxReqs,      \* bound: handlers in flight at once
  MaxCrashes    \* bound: restarts of the server

ASSUME RoutingConstants ==
  /\ None \notin Volunteers
  /\ HubOf \in [Calls -> Hubs]
  /\ OnShift \in [Hubs -> SUBSET Volunteers]
  /\ Fallback \in [Hubs -> SUBSET Volunteers]
  /\ PhoneUsers \subseteq Volunteers
  /\ MaxReqs \in Nat
  /\ MaxCrashes \in Nat

VARIABLES
  active,      \* active_calls: the row of each live call, NoRow if none
  records,     \* call_records: the history row of each ended call
  tokens,      \* call_tokens, one per <<call, volunteer>> rung by phone
  age,         \* how old startedAt is, see the ages below
  ringTask,    \* the background task startParallelRinging of each call
  ringSet,     \* volunteers that task rings by phone
  registry,    \* ringLegs: process-local map of the legs rung for a call
  reqs,        \* request handlers between two awaits
  caller,      \* where the provider has the caller's leg
  legs,        \* the provider's volunteer legs
  hooks,       \* provider webhooks not delivered yet
  crashes,
  winner,      \* history: who answered the call
  answeredOn   \* history: on the phone or in the app

tables == <<active, records, tokens>>
server == <<ringTask, ringSet, registry>>
provider == <<caller, legs, hooks>>
history == <<winner, answeredOn>>
vars == <<active, records, tokens, age, ringTask, ringSet, registry, reqs,
          caller, legs, hooks, crashes, winner, answeredOn>>

----------------------------------------------------------------------------
(* Rows. *)

Someone == Volunteers \cup {None}
NoRow == [status |-> "none", answeredBy |-> None, hasVoicemail |-> FALSE]
ActiveRow == [status : {"ringing", "in-progress", "spam"},
              answeredBy : Someone, hasVoicemail : BOOLEAN]
Record == [status : {"completed", "unanswered"},
           answeredBy : Someone, hasVoicemail : BOOLEAN]
RingingRow == [status |-> "ringing", answeredBy |-> None, hasVoicemail |-> FALSE]

IsLive(c) == active[c] # NoRow

(* Ages of a call that the code tells apart: up to 3 minutes, up to 5      *)
(* minutes (the life of a token), up to 2 hours, older.                    *)
Fresh == 0
RingingTtl == 1
TokenTtl == 2
InProgressTtl == 3

(* Regression: the sweep knows no limit for calls in progress.             *)
IsStaleOnlyRinging(c) == active[c].status = "ringing" /\ age[c] >= RingingTtl

IsStale(c) ==
  \/ active[c].status = "ringing" /\ age[c] >= RingingTtl
  \/ active[c].status = "in-progress" /\ age[c] >= InProgressTtl

(* A snapshot of a row, as getActiveCalls keeps it until its transaction.  *)
Snapshot == [call : Calls, row : ActiveRow]
StaleRows(h) ==
  {[call |-> c, row |-> active[c]] : c \in {d \in Calls : HubOf[d] = h /\ IsStale(d)}}

Busy == {v \in Volunteers : \E c \in Calls :
           /\ active[c].status = "in-progress"
           /\ active[c].answeredBy = v
           /\ age[c] < InProgressTtl}

(* Who a call of hub h rings, when the volunteers in `resting` are         *)
(* inactive, on break, clocked out or no longer members of the hub.        *)
Ringable(h, resting) ==
  LET free(pool) == pool \ (Busy \cup resting)
  IN IF free(OnShift[h]) # {} THEN free(OnShift[h]) ELSE free(Fallback[h])

----------------------------------------------------------------------------
(* Requests in flight. *)

Kinds == {"poll", "userAnswer", "appAnswer", "callStatus", "recording",
          "voicemail", "hangup", "spam"}
Request == [kind : Kinds, phase : {"claim", "cancel", "reap", "go"},
            call : Calls, vol : Someone, stale : SUBSET Snapshot]

Req(k, ph, c, v, stale) ==
  [kind |-> k, phase |-> ph, call |-> c, vol |-> v, stale |-> stale]

(* Having called getActiveCalls and found the rows in `stale`.             *)
Sweeping(stale) == IF stale = {} THEN "go" ELSE "reap"

CanServe == Cardinality(reqs) < MaxReqs
Finish(r) == reqs' = reqs \ {r}
Continue(r, phase, stale) ==
  reqs' = (reqs \ {r}) \cup {[r EXCEPT !.phase = phase, !.stale = stale]}

Hook == [kind : {"completed", "recording", "voicemail", "hangup"},
         call : Calls, vol : Someone]
Webhook(k, c, v) == [kind |-> k, call |-> c, vol |-> v]

TaskSteps == {"none", "scheduled", "added", "resolved", "tokened", "placed", "done"}

TypeOK ==
  /\ active \in [Calls -> ActiveRow \cup {NoRow}]
  /\ records \in [Calls -> Record \cup {NoRow}]
  /\ tokens \subseteq Calls \X Volunteers
  /\ age \in [Calls -> Fresh..InProgressTtl]
  /\ ringTask \in [Calls -> TaskSteps]
  /\ ringSet \in [Calls -> SUBSET Volunteers]
  /\ registry \in [Calls -> SUBSET Volunteers]
  /\ reqs \subseteq Request
  /\ caller \in [Calls -> {"idle", "queued", "voicemail", "bridged", "gone"}]
  /\ legs \in [Calls -> [Volunteers -> {"none", "ringing", "up", "ended"}]]
  /\ hooks \subseteq Hook
  /\ crashes \in 0..MaxCrashes
  /\ winner \in [Calls -> Someone]
  /\ answeredOn \in [Calls -> {"nobody", "app", "phone"}]

Init ==
  /\ active = [c \in Calls |-> NoRow]
  /\ records = [c \in Calls |-> NoRow]
  /\ tokens = {}
  /\ age = [c \in Calls |-> Fresh]
  /\ ringTask = [c \in Calls |-> "none"]
  /\ ringSet = [c \in Calls |-> {}]
  /\ registry = [c \in Calls |-> {}]
  /\ reqs = {}
  /\ caller = [c \in Calls |-> "idle"]
  /\ legs = [c \in Calls |-> [v \in Volunteers |-> "none"]]
  /\ hooks = {}
  /\ crashes = 0
  /\ winner = [c \in Calls |-> None]
  /\ answeredOn = [c \in Calls |-> "nobody"]

----------------------------------------------------------------------------
(* CallsService: effects on the tables. *)

(* Regression: history keeps the status of the live row.                   *)
RecordWithLiveStatus(row) == row

(* The history row of an ended call. *)
FinalRecord(row) ==
  [status |-> IF row.answeredBy # None THEN "completed" ELSE "unanswered",
   answeredBy |-> row.answeredBy, hasVoicemail |-> row.hasVoicemail]

TokensExcept(cs) == {t \in tokens : t[1] \notin cs}

(* Regression: the live row is not deleted.                                *)
EndCallKeepingRow(c) ==
  IF IsLive(c) /\ records[c] = NoRow
    THEN /\ records' = [records EXCEPT ![c] = FinalRecord(active[c])]
         /\ tokens' = TokensExcept({c})
         /\ UNCHANGED active
    ELSE UNCHANGED tables

(* The transaction of endCall: 404 when there is no row, rolled back when  *)
(* the history row already exists.                                         *)
EndCall(c) ==
  IF IsLive(c) /\ records[c] = NoRow
    THEN /\ active' = [active EXCEPT ![c] = NoRow]
         /\ records' = [records EXCEPT ![c] = FinalRecord(active[c])]
         /\ tokens' = TokensExcept({c})
    ELSE UNCHANGED tables

(* Regression: the sweep writes every call down as completed.              *)
SweptAsCompleted(row) ==
  [status |-> "completed", answeredBy |-> None, hasVoicemail |-> row.hasVoicemail]

(* The history row the sweep writes: the snapshot's status decides, and    *)
(* who answered is not copied.                                             *)
SweptRecord(row) ==
  [status |-> IF row.status = "ringing" THEN "unanswered" ELSE "completed",
   answeredBy |-> None, hasVoicemail |-> row.hasVoicemail]

SweptCalls(stale) == {s.call : s \in stale}
SnapshotOf(stale, c) == (CHOOSE s \in stale : s.call = c).row

(* The transaction of getActiveCalls: insert unless the record exists,     *)
(* then delete by call id, whatever has become of the row since it was read. *)
Reap(stale) ==
  /\ records' = [c \in Calls |->
       IF c \in SweptCalls(stale) /\ records[c] = NoRow
         THEN SweptRecord(SnapshotOf(stale, c)) ELSE records[c]]
  /\ active' = [c \in Calls |-> IF c \in SweptCalls(stale) THEN NoRow ELSE active[c]]
  /\ tokens' = TokensExcept(SweptCalls(stale))

(* The conditional UPDATE of answerCall and answerCallWithToken.           *)
Claim(c, v, where) ==
  /\ active' = [active EXCEPT ![c].status = "in-progress", ![c].answeredBy = v]
  /\ winner' = [winner EXCEPT ![c] = v]
  /\ answeredOn' = [answeredOn EXCEPT ![c] = where]

----------------------------------------------------------------------------
(* The ringing task: startParallelRinging, a background task of the        *)
(* webhook that queued the caller.                                         *)

(* The end of /language-selected or /captcha: the caller waits in the      *)
(* queue and the task is scheduled.                                        *)
Admit(c) ==
  /\ caller[c] = "idle"
  /\ caller' = [caller EXCEPT ![c] = "queued"]
  /\ ringTask' = [ringTask EXCEPT ![c] = "scheduled"]
  /\ UNCHANGED <<tables, age, ringSet, registry, reqs, legs, hooks, crashes, history>>

(* addCall; a duplicate key would end the task in its catch block.         *)
AddCall(c) ==
  /\ ringTask[c] = "scheduled"
  /\ IF IsLive(c)
       THEN /\ ringTask' = [ringTask EXCEPT ![c] = "done"]
            /\ UNCHANGED active
       ELSE /\ ringTask' = [ringTask EXCEPT ![c] = "added"]
            /\ active' = [active EXCEPT ![c] = RingingRow]
  /\ UNCHANGED <<records, tokens, age, ringSet, registry, reqs, provider, crashes, history>>

(* Nobody to ring, or nobody with a phone: the task ends here.             *)
Resolve(c) ==
  /\ ringTask[c] = "added"
  /\ \E resting \in SUBSET Volunteers :
       LET phones == Ringable(HubOf[c], resting) \cap PhoneUsers
       IN /\ ringSet' = [ringSet EXCEPT ![c] = phones]
          /\ ringTask' = [ringTask EXCEPT ![c] = IF phones = {} THEN "done" ELSE "resolved"]
  /\ UNCHANGED <<tables, age, registry, reqs, provider, crashes, history>>

CreateTokens(c) ==
  /\ ringTask[c] = "resolved"
  /\ tokens' = tokens \cup ({c} \X ringSet[c])
  /\ ringTask' = [ringTask EXCEPT ![c] = "tokened"]
  /\ UNCHANGED <<active, records, age, ringSet, registry, reqs, provider, crashes, history>>

(* The provider rings some of the phones; if the request fails or times    *)
(* out after that, the task ends without learning which.                   *)
RingPhones(c) ==
  /\ ringTask[c] = "tokened"
  /\ \E rung \in SUBSET ringSet[c] :
       /\ legs' = [legs EXCEPT ![c] = [v \in Volunteers |->
                     IF v \in rung THEN "ringing" ELSE legs[c][v]]]
       /\ ringSet' = [ringSet EXCEPT ![c] = rung]
  /\ \E outcome \in {"placed", "done"} :
       ringTask' = [ringTask EXCEPT ![c] = outcome]
  /\ UNCHANGED <<tables, age, registry, reqs, caller, hooks, crashes, history>>

RecordRingLegs(c) ==
  /\ ringTask[c] = "placed"
  /\ registry' = [registry EXCEPT ![c] = IF ringSet[c] = {} THEN @ ELSE ringSet[c]]
  /\ ringTask' = [ringTask EXCEPT ![c] = "done"]
  /\ UNCHANGED <<tables, age, ringSet, reqs, provider, crashes, history>>

----------------------------------------------------------------------------
(* POST /user-answer: a volunteer picks the phone up. *)

(* Regression: the update is not conditional on the call still ringing.    *)
TokenAnswersLate(c, v) ==
  <<c, v>> \in tokens /\ age[c] < TokenTtl /\ IsLive(c)

TokenAnswers(c, v) ==
  /\ <<c, v>> \in tokens
  /\ age[c] < TokenTtl
  /\ active[c].status = "ringing"

UserAnswerWins(c, v) ==
  /\ legs[c][v] = "ringing"
  /\ CanServe
  /\ TokenAnswers(c, v)
  /\ Claim(c, v, "phone")
  /\ legs' = [legs EXCEPT ![c][v] = "up"]
  /\ reqs' = reqs \cup {Req("userAnswer", "cancel", c, v, {})}
  /\ UNCHANGED <<records, tokens, age, server, caller, hooks, crashes>>

(* 403: the provider drops the leg, which it reports as completed.         *)
UserAnswerRefused(c, v) ==
  /\ legs[c][v] = "ringing"
  /\ ~TokenAnswers(c, v)
  /\ legs' = [legs EXCEPT ![c][v] = "ended"]
  /\ hooks' = hooks \cup {Webhook("completed", c, v)}
  /\ UNCHANGED <<tables, age, server, reqs, caller, crashes, history>>

(* Regression: the winning leg is not spared.                              *)
CancelAllLegs(c, spared) ==
  /\ registry' = [registry EXCEPT ![c] = {}]
  /\ legs' = [legs EXCEPT ![c] = [v \in Volunteers |->
                IF v \in registry[c] /\ legs[c][v] # "none" THEN "ended" ELSE legs[c][v]]]
  /\ hooks' = hooks \cup {Webhook("completed", c, v) : v \in registry[c]}

(* cancelLosingLegs: the registered legs that have not ended, but the      *)
(* winner's own, are dropped and report completed.                         *)
CancelLegs(c, spared) ==
  LET losers == {v \in registry[c] \ spared : legs[c][v] \in {"ringing", "up"}}
  IN /\ registry' = [registry EXCEPT ![c] = {}]
     /\ \/ /\ legs' = [legs EXCEPT ![c] = [v \in Volunteers |->
                         IF v \in losers THEN "ended" ELSE legs[c][v]]]
           /\ hooks' = hooks \cup {Webhook("completed", c, v) : v \in losers}
        \/ UNCHANGED <<legs, hooks>>      \* the provider refused: best effort

(* Then getActiveCalls, which may sweep.  A webhook that does not name the *)
(* winner's leg cancels nothing.                                           *)
UserAnswerCancels(r) ==
  /\ r.kind = "userAnswer" /\ r.phase = "cancel"
  /\ CancelLegs(r.call, {r.vol}) \/ UNCHANGED <<registry, legs, hooks>>
  /\ LET stale == StaleRows(HubOf[r.call])
     IN Continue(r, Sweeping(stale), stale)
  /\ UNCHANGED <<tables, age, ringTask, ringSet, caller, crashes, history>>

(* The response bridges the leg to the caller, if the caller still queues. *)
UserAnswerBridges(r) ==
  /\ r.kind = "userAnswer" /\ r.phase = "go"
  /\ caller' = [caller EXCEPT ![r.call] =
                  IF @ = "queued" /\ legs[r.call][r.vol] = "up" THEN "bridged" ELSE @]
  /\ Finish(r)
  /\ UNCHANGED <<tables, age, server, legs, hooks, crashes, history>>

----------------------------------------------------------------------------
(* POST /calls/:callId/answer: the volunteer answers in the app. *)

AppAnswerChecks(c, v) ==
  /\ CanServe
  /\ active[c].status = "ringing" /\ active[c].answeredBy = None
  /\ \E resting \in SUBSET Volunteers : v \in Ringable(HubOf[c], resting)
  /\ reqs' = reqs \cup {Req("appAnswer", "claim", c, v, {})}
  /\ UNCHANGED <<tables, age, server, provider, crashes, history>>

AppAnswerClaims(r) ==
  /\ r.kind = "appAnswer" /\ r.phase = "claim"
  /\ IF active[r.call].status = "ringing" /\ active[r.call].answeredBy = None
       THEN /\ Claim(r.call, r.vol, "app")
            /\ Continue(r, "cancel", {})
       ELSE /\ Finish(r)
            /\ UNCHANGED <<active, history>>
  /\ UNCHANGED <<records, tokens, age, server, provider, crashes>>

AppAnswerCancels(r) ==
  /\ r.kind = "appAnswer" /\ r.phase = "cancel"
  /\ CancelLegs(r.call, {})
  /\ Finish(r)
  /\ UNCHANGED <<tables, age, ringTask, ringSet, caller, crashes, history>>

(* The app's audio reaches the caller. *)
AppBridges(c) ==
  /\ caller[c] = "queued"
  /\ active[c].status = "in-progress" /\ answeredOn[c] = "app"
  /\ caller' = [caller EXCEPT ![c] = "bridged"]
  /\ UNCHANGED <<tables, age, server, reqs, legs, hooks, crashes, history>>

----------------------------------------------------------------------------
(* getActiveCalls. *)

(* GET /calls/active and /calls/presence, polled by every open dashboard.  *)
Poll(c) ==
  /\ CanServe
  /\ IsStale(c)
  /\ reqs' = reqs \cup {Req("poll", "reap", c, None, StaleRows(HubOf[c]))}
  /\ UNCHANGED <<tables, age, server, provider, crashes, history>>

(* The transaction of getActiveCalls, in whichever handler called it.      *)
ReapCommits(r) ==
  /\ r.phase = "reap"
  /\ Reap(r.stale)
  /\ IF r.kind = "poll" THEN Finish(r) ELSE Continue(r, "go", {})
  /\ UNCHANGED <<age, server, provider, crashes, history>>

----------------------------------------------------------------------------
(* Provider webhooks that end a call. *)

Deliver(k, c, v) ==
  /\ CanServe
  /\ Webhook(k, c, v) \in hooks
  /\ hooks' = hooks \ {Webhook(k, c, v)}

(* Regression: any leg's `completed` ends the call.                        *)
CallStatusEndsAnyLeg(c, v) ==
  /\ Deliver("completed", c, v)
  /\ reqs' = IF <<c, v>> \in tokens
               THEN reqs \cup {Req("callStatus", "go", c, v, {})} ELSE reqs
  /\ UNCHANGED <<tables, age, server, caller, legs, crashes, history>>

(* POST /call-status `completed` with the leg's token.  Without one no     *)
(* call can be named.  The live row, unless stale, decides whether the     *)
(* event comes from a leg that did not answer.                             *)
CallStatusCompleted(c, v) ==
  /\ Deliver("completed", c, v)
  /\ LET stale == StaleRows(HubOf[c])
         seen == IsLive(c) /\ ~IsStale(c)
         ignored == seen /\ active[c].answeredBy # v
         next == IF ignored
                   THEN IF stale = {} THEN {} ELSE {Req("poll", "reap", c, None, stale)}
                   ELSE {Req("callStatus", Sweeping(stale), c, v, stale)}
     IN reqs' = IF <<c, v>> \in tokens THEN reqs \cup next ELSE reqs
  /\ UNCHANGED <<tables, age, server, caller, legs, crashes, history>>

CallStatusEnds(r) ==
  /\ r.kind = "callStatus" /\ r.phase = "go"
  /\ EndCall(r.call)
  /\ Finish(r)
  /\ UNCHANGED <<age, server, provider, crashes, history>>

(* POST /call-recording; a call without a live row has no hub to look in.  *)
CallRecordingCompleted(c) ==
  /\ Deliver("recording", c, None)
  /\ LET stale == StaleRows(HubOf[c])
     IN reqs' = IF IsLive(c)
                  THEN reqs \cup {Req("recording", Sweeping(stale), c, None, stale)}
                  ELSE reqs
  /\ UNCHANGED <<tables, age, server, caller, legs, crashes, history>>

CallRecordingEnds(r) ==
  /\ r.kind = "recording" /\ r.phase = "go"
  /\ EndCall(r.call)
  /\ Finish(r)
  /\ UNCHANGED <<age, server, provider, crashes, history>>

(* POST /voicemail-recording: markVoicemail on the live row, else on the   *)
(* record, else 404.                                                       *)
VoicemailRecordingMarks(c) ==
  /\ Deliver("voicemail", c, None)
  /\ \/ /\ IsLive(c)
        /\ active' = [active EXCEPT ![c].hasVoicemail = TRUE]
        /\ UNCHANGED records
     \/ /\ ~IsLive(c) /\ records[c] # NoRow
        /\ records' = [records EXCEPT ![c].hasVoicemail = TRUE]
        /\ UNCHANGED active
     \/ /\ ~IsLive(c) /\ records[c] = NoRow
        /\ UNCHANGED <<active, records>>
  /\ reqs' = IF IsLive(c) \/ records[c] # NoRow
               THEN reqs \cup {Req("voicemail", "go", c, None, {})} ELSE reqs
  /\ UNCHANGED <<tokens, age, server, caller, legs, crashes, history>>

VoicemailRecordingEnds(r) ==
  /\ r.kind = "voicemail" /\ r.phase = "go"
  /\ EndCall(r.call)
  /\ Finish(r)
  /\ UNCHANGED <<age, server, provider, crashes, history>>

(* POST /queue-exit with result `hangup`; a 404 is tolerated.              *)
QueueExitHangup(c) ==
  /\ Deliver("hangup", c, None)
  /\ EndCall(c)
  /\ UNCHANGED <<age, server, reqs, caller, legs, crashes, history>>

----------------------------------------------------------------------------
(* The answering volunteer's own actions. *)

(* What the provider does and reports when a caller's leg ends.            *)
CallerLegEnds(c) ==
  /\ caller' = [caller EXCEPT ![c] = IF @ = "idle" THEN @ ELSE "gone"]
  /\ LET talking == {v \in Volunteers : caller[c] = "bridged" /\ legs[c][v] = "up"}
     IN /\ legs' = [legs EXCEPT ![c] = [v \in Volunteers |->
                      IF v \in talking THEN "ended" ELSE legs[c][v]]]
        /\ hooks' = hooks
             \cup (IF caller[c] = "queued" THEN {Webhook("hangup", c, None)} ELSE {})
             \cup {Webhook("completed", c, v) : v \in talking}
             \cup {Webhook("recording", c, None) : v \in talking}

(* POST /calls/:callId/hangup: the provider drops the caller first; when   *)
(* it cannot, nothing changes.  With no provider there is no leg to drop.  *)
Hangup(c, v) ==
  /\ CanServe
  /\ IsLive(c) /\ active[c].answeredBy = v
  /\ CallerLegEnds(c) \/ UNCHANGED provider
  /\ reqs' = reqs \cup {Req("hangup", "go", c, v, {})}
  /\ UNCHANGED <<tables, age, server, crashes, history>>

HangupEnds(r) ==
  /\ r.kind = "hangup" /\ r.phase = "go"
  /\ EndCall(r.call)
  /\ Finish(r)
  /\ UNCHANGED <<age, server, provider, crashes, history>>

(* POST /calls/:callId/spam: read, then an update by call id.              *)
SpamChecks(c, v) ==
  /\ CanServe
  /\ IsLive(c) /\ active[c].answeredBy = v
  /\ reqs' = reqs \cup {Req("spam", "go", c, v, {})}
  /\ UNCHANGED <<tables, age, server, provider, crashes, history>>

ReportSpam(r) ==
  /\ r.kind = "spam" /\ r.phase = "go"
  /\ active' = IF IsLive(r.call) THEN [active EXCEPT ![r.call].status = "spam"] ELSE active
  /\ Finish(r)
  /\ UNCHANGED <<records, tokens, age, server, provider, crashes, history>>

----------------------------------------------------------------------------
(* The provider and the caller (outside the worker). *)

CallerHangsUp(c) ==
  /\ caller[c] \in {"queued", "bridged"}
  /\ CallerLegEnds(c)
  /\ UNCHANGED <<tables, age, server, reqs, crashes, history>>

(* The queue times out; /queue-exit answers with the voicemail prompt and  *)
(* leaves the call as it is.                                               *)
QueueTimesOut(c) ==
  /\ caller[c] = "queued"
  /\ caller' = [caller EXCEPT ![c] = "voicemail"]
  /\ UNCHANGED <<tables, age, server, reqs, legs, hooks, crashes, history>>

VoicemailEnds(c) ==
  /\ caller[c] = "voicemail"
  /\ caller' = [caller EXCEPT ![c] = "gone"]
  /\ hooks' = hooks \cup {Webhook("voicemail", c, None)} \/ UNCHANGED hooks
  /\ UNCHANGED <<tables, age, server, reqs, legs, crashes, history>>

(* A volunteer's leg rings out (no-answer, which /call-status ignores) or, *)
(* once up and not bridged, hangs up.                                      *)
LegEnds(c, v) ==
  /\ \/ legs[c][v] = "ringing" /\ UNCHANGED hooks
     \/ /\ legs[c][v] = "up" /\ caller[c] # "bridged"
        /\ hooks' = hooks \cup {Webhook("completed", c, v)}
  /\ legs' = [legs EXCEPT ![c][v] = "ended"]
  /\ UNCHANGED <<tables, age, server, reqs, caller, crashes, history>>

GrowOlder(c) ==
  /\ IsLive(c) /\ age[c] < InProgressTtl
  /\ age' = [age EXCEPT ![c] = @ + 1]
  /\ UNCHANGED <<tables, server, reqs, provider, crashes, history>>

(* A restart loses the background tasks, the handlers and the leg registry.*)
Crash ==
  /\ crashes < MaxCrashes
  /\ crashes' = crashes + 1
  /\ ringTask' = [c \in Calls |-> IF ringTask[c] = "none" THEN "none" ELSE "done"]
  /\ registry' = [c \in Calls |-> {}]
  /\ reqs' = {}
  /\ UNCHANGED <<tables, age, ringSet, provider, history>>

----------------------------------------------------------------------------
RingingStep(c) ==
  \/ AddCall(c) \/ Resolve(c) \/ CreateTokens(c) \/ RingPhones(c) \/ RecordRingLegs(c)

ServerStep(r) ==
  \/ UserAnswerCancels(r) \/ UserAnswerBridges(r)
  \/ AppAnswerClaims(r) \/ AppAnswerCancels(r)
  \/ ReapCommits(r)
  \/ CallStatusEnds(r) \/ CallRecordingEnds(r) \/ VoicemailRecordingEnds(r)
  \/ HangupEnds(r) \/ ReportSpam(r)

Arrival(c) ==
  \/ Poll(c)
  \/ CallRecordingCompleted(c) \/ VoicemailRecordingMarks(c) \/ QueueExitHangup(c)
  \/ \E v \in Volunteers :
       \/ UserAnswerWins(c, v) \/ UserAnswerRefused(c, v)
       \/ AppAnswerChecks(c, v)
       \/ CallStatusCompleted(c, v)
       \/ Hangup(c, v) \/ SpamChecks(c, v)

Outside(c) ==
  \/ Admit(c) \/ AppBridges(c) \/ CallerHangsUp(c) \/ QueueTimesOut(c)
  \/ VoicemailEnds(c) \/ GrowOlder(c)
  \/ \E v \in Volunteers : LegEnds(c, v)

Next ==
  \/ \E c \in Calls : RingingStep(c) \/ Arrival(c) \/ Outside(c)
  \/ \E r \in reqs : ServerStep(r)
  \/ Crash

Spec == Init /\ [][Next]_vars

(* Handlers, once started, run on; dashboards poll every 15 seconds; time  *)
(* passes.  Nothing is assumed of callers, volunteers or webhooks.         *)
FairSpec ==
  /\ Spec
  /\ WF_vars(\E r \in reqs : ServerStep(r))
  /\ \A c \in Calls : WF_vars(GrowOlder(c)) /\ SF_vars(Poll(c))

----------------------------------------------------------------------------
(* Properties. *)

PhaseOf(c) ==
  IF records[c] # NoRow THEN "over"
  ELSE IF ~IsLive(c) THEN "new"
  ELSE IF active[c].status = "ringing" THEN "ringing" ELSE "live"

Lifecycle == INSTANCE CallLifecycle WITH phase <- [c \in Calls |-> PhaseOf(c)]

(* The handlers implement the lifecycle: one ringing, first pickup wins    *)
(* (answerCall, answerCallWithToken), over is over (endCall, the sweep).   *)
ImplementsLifecycle == Lifecycle!LSpec

(* active_calls and call_records never both hold a call, so the insert of  *)
(* endCall, which tolerates no conflict, never rolls back and strands a    *)
(* live row.                                                               *)
NeverLiveAndEnded == \A c \in Calls : records[c] # NoRow => ~IsLive(c)

(* The tables agree with what happened: a live row names its answerer, is  *)
(* ringing only if there is none, and history claims no answer there was   *)
(* not (FinalRecord, the sweep).                                           *)
TablesTellTheAnswer ==
  \A c \in Calls :
    /\ IsLive(c) => /\ active[c].answeredBy = winner[c]
                    /\ active[c].status = "ringing" <=> winner[c] = None
    /\ records[c].answeredBy \in {None, winner[c]}
    /\ records[c].status = "completed" => winner[c] # None
    /\ records[c].status = "unanswered" => records[c].answeredBy = None

(* Neither a leg's `completed` (call-status) nor a hang-up in the app ends *)
(* a live call that somebody else answered.                                *)
OnlyAnswererEndsCall ==
  [][\A r \in reqs \ reqs' :
       /\ r.kind \in {"callStatus", "hangup"} /\ r.phase = "go"
       /\ IsLive(r.call) /\ ~IsLive(r.call)'
       => winner[r.call] = r.vol]_vars

(* Cancelling the losing legs never drops the leg that won.                *)
WinningLegSurvivesCancel ==
  [][\A r \in reqs \ reqs' :
       r.phase = "cancel" /\ answeredOn[r.call] = "phone"
       => legs'[r.call][winner[r.call]] = legs[r.call][winner[r.call]]]_vars

(* No call stays on the board for ever: whatever webhooks are lost, the    *)
(* sweep retires it, unless it was reported as spam.                       *)
StaleCallsAreSwept ==
  \A c \in Calls : IsLive(c) ~> (~IsLive(c) \/ active[c].status = "spam")

(* What the comment on getActiveCalls says the sweep does: it retires      *)
(* ringing calls over 3 minutes old and in-progress calls over 2 hours old.*)
SweepEndsOnlyStaleCalls ==
  [][\A r \in reqs \ reqs' : r.phase = "reap" =>
       \A c \in SweptCalls(r.stale) : IsLive(c) => IsStale(c)]_vars

(* What the comment in /call-status says: a leg's `completed` only ends    *)
(* the call when that leg is the one that answered it.                     *)
CompletedEndsOnlyTheLegsCall ==
  [][\A r \in reqs \ reqs' :
       /\ r.kind = "callStatus" /\ r.phase = "go"
       /\ IsLive(r.call) /\ ~IsLive(r.call)'
       => answeredOn[r.call] = "phone"]_vars

(* What the comment on getBusyPubkeys says: one phone and one pair of      *)
(* ears, so nobody is on two live calls.                                   *)
OneCallAtATime ==
  \A v \in Volunteers :
    Cardinality({c \in Calls : /\ active[c].status = "in-progress"
                               /\ active[c].answeredBy = v}) <= 1
=============================================================================
