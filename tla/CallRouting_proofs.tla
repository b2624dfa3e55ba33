-------------------------- MODULE CallRouting_proofs --------------------------
(***************************************************************************)
(* What CallRouting guarantees for every set of calls, volunteers, hubs,   *)
(* rosters and bounds.                                                     *)
(***************************************************************************)
EXTENDS CallRouting, TLAPS

(* A call that has not been rung: no row may speak of it yet.              *)
Unrung(c) == ringTask[c] \in {"none", "scheduled"}

(* A call whose row has been written, live or ended.                       *)
Known(c) == IsLive(c) \/ records[c] # NoRow

(* A call that is over, or that a restart forgot before it was rung.       *)
Dead(c) == ~IsLive(c) /\ ~Unrung(c)

(* What the rows of one call say, and what they say before it is rung.     *)
RowsTrue(c) ==
  /\ records[c] # NoRow => ~IsLive(c)
  /\ IsLive(c) => /\ active[c].answeredBy = winner[c]
                  /\ active[c].status = "ringing" <=> winner[c] = None
  /\ records[c].answeredBy \in {None, winner[c]}
  /\ records[c].status = "completed" => winner[c] # None
  /\ records[c].status = "unanswered" => records[c].answeredBy = None
  /\ Unrung(c) => ~Known(c) /\ winner[c] = None

(* A caller the provider has not announced has no ringing task.            *)
IdleIsUnrung(c) == caller[c] = "idle" => ringTask[c] = "none"

TokensAreOfRungCalls == \A t \in tokens : ~Unrung(t[1])

(* What a sweep has read: the call was live, so it is live or ended now,   *)
(* and what was answered then is answered now.                             *)
TrueSnapshot(s) ==
  Known(s.call) /\ (s.row.status # "ringing" => winner[s.call] # None)

(* What a handler in flight may rely on.                                   *)
TrueRequest(r) ==
  /\ \A s \in r.stale : TrueSnapshot(s)
  /\ r.kind \in {"spam", "hangup", "userAnswer"} =>
       r.vol \in Volunteers /\ winner[r.call] = r.vol
  /\ r.kind \in {"appAnswer", "callStatus"} => r.vol \in Volunteers
  /\ r.kind = "callStatus" =>
       \/ winner[r.call] = r.vol
       \/ Dead(r.call)
       \/ r.phase = "reap" /\ r.call \in SweptCalls(r.stale)
  /\ r.phase = "cancel" =>
       /\ winner[r.call] # None
       /\ \/ r.kind = "userAnswer" /\ answeredOn[r.call] = "phone"
          \/ r.kind = "appAnswer" /\ answeredOn[r.call] = "app"

(* The inductive invariant.                                                *)
IInv ==
  /\ TypeOK
  /\ \A c \in Calls : RowsTrue(c) /\ IdleIsUnrung(c)
  /\ TokensAreOfRungCalls
  /\ \A r \in reqs : TrueRequest(r)

----------------------------------------------------------------------------
(* Type correctness. *)

(* What a sweep reads is a set of rows of live calls.                      *)
LEMMA StaleRowsType ==
  ASSUME TypeOK, NEW h
  PROVE  StaleRows(h) \in SUBSET Snapshot
  BY DEF TypeOK, StaleRows, IsStale, Snapshot, NoRow

(* Closing a row gives a history row, whoever closes it.                   *)
LEMMA ClosedRowsType ==
  ASSUME NEW row \in ActiveRow
  PROVE  FinalRecord(row) \in Record /\ SweptRecord(row) \in Record
  BY DEF ActiveRow, Record, FinalRecord, SweptRecord, Someone

(* endCall moves a live row into the history and drops its tokens.         *)
LEMMA EndCallType ==
  ASSUME TypeOK, NEW c \in Calls, EndCall(c)
  PROVE  /\ active' \in [Calls -> ActiveRow \cup {NoRow}]
         /\ records' \in [Calls -> Record \cup {NoRow}]
         /\ tokens' \subseteq Calls \X Volunteers
  <1>1. CASE IsLive(c) /\ records[c] = NoRow
    <2>1. active[c] \in ActiveRow
      BY <1>1 DEF TypeOK, IsLive
    <2>2. FinalRecord(active[c]) \in Record
      BY <2>1, ClosedRowsType
    <2> QED  BY <1>1, <2>2 DEF EndCall, TypeOK, TokensExcept
  <1>2. CASE ~(IsLive(c) /\ records[c] = NoRow)
    BY <1>2 DEF EndCall, TypeOK, tables
  <1> QED  BY <1>1, <1>2

(* The row getActiveCalls kept for a call of its snapshot is a live row.   *)
LEMMA SnapshotOfType ==
  ASSUME NEW stale \in SUBSET Snapshot, NEW c \in SweptCalls(stale)
  PROVE  \E s \in stale : s.call = c /\ SnapshotOf(stale, c) = s.row
  BY DEF SweptCalls, SnapshotOf

(* The sweep's transaction keeps the three tables typed.                   *)
LEMMA ReapType ==
  ASSUME TypeOK, NEW stale \in SUBSET Snapshot, Reap(stale)
  PROVE  /\ active' \in [Calls -> ActiveRow \cup {NoRow}]
         /\ records' \in [Calls -> Record \cup {NoRow}]
         /\ tokens' \subseteq Calls \X Volunteers
  <1>1. \A c \in SweptCalls(stale) : SnapshotOf(stale, c) \in ActiveRow
    BY SnapshotOfType DEF Snapshot
  <1>2. \A c \in SweptCalls(stale) : SweptRecord(SnapshotOf(stale, c)) \in Record
    BY <1>1, ClosedRowsType
  <1> QED  BY <1>2 DEF Reap, TypeOK, TokensExcept

(* The end of a caller's leg keeps the provider's state typed.             *)
LEMMA CallerLegEndsType ==
  ASSUME TypeOK, NEW c \in Calls, CallerLegEnds(c)
  PROVE  /\ caller' \in [Calls -> {"idle", "queued", "voicemail", "bridged", "gone"}]
         /\ legs' \in [Calls -> [Volunteers -> {"none", "ringing", "up", "ended"}]]
         /\ hooks' \subseteq Hook
  BY DEF TypeOK, CallerLegEnds, Webhook, Hook, Someone

(* Only a ringing row is claimed, and the claim gives a live row.          *)
LEMMA ClaimType ==
  ASSUME TypeOK, NEW c \in Calls, NEW v \in Someone, NEW where \in {"app", "phone"},
         active[c].status = "ringing", Claim(c, v, where)
  PROVE  /\ active' \in [Calls -> ActiveRow \cup {NoRow}]
         /\ winner' \in [Calls -> Someone]
         /\ answeredOn' \in [Calls -> {"nobody", "app", "phone"}]
  <1>1. active[c] \in ActiveRow
    BY DEF TypeOK, NoRow
  <1>2. [active[c] EXCEPT !.status = "in-progress", !.answeredBy = v] \in ActiveRow
    BY <1>1 DEF ActiveRow, Someone
  <1>3. active' = [active EXCEPT ![c] =
                    [active[c] EXCEPT !.status = "in-progress", !.answeredBy = v]]
    BY <1>1 DEF Claim, TypeOK
  <1> QED  BY <1>2, <1>3 DEF Claim, TypeOK, Someone

(* cancelLosingLegs keeps the registry and the provider's state typed.     *)
LEMMA CancelLegsType ==
  ASSUME TypeOK, NEW c \in Calls, NEW spared, CancelLegs(c, spared)
  PROVE  /\ registry' \in [Calls -> SUBSET Volunteers]
         /\ legs' \in [Calls -> [Volunteers -> {"none", "ringing", "up", "ended"}]]
         /\ hooks' \subseteq Hook
  <1> DEFINE losers == {v \in registry[c] \ spared : legs[c][v] \in {"ringing", "up"}}
  <1>1. losers \subseteq Volunteers
    BY DEF TypeOK
  <1>2. {Webhook("completed", c, v) : v \in losers} \subseteq Hook
    BY <1>1 DEF Webhook, Hook, Someone
  <1>3. registry' \in [Calls -> SUBSET Volunteers]
    BY DEF CancelLegs, TypeOK
  <1>4. hooks' = hooks \/ hooks' = hooks \cup {Webhook("completed", c, v) : v \in losers}
    BY DEF CancelLegs
  <1>5. \/ legs' = legs
        \/ legs' = [legs EXCEPT ![c] = [v \in Volunteers |->
                       IF v \in losers THEN "ended" ELSE legs[c][v]]]
    BY DEF CancelLegs
  <1> HIDE DEF losers
  <1> QED  BY <1>2, <1>3, <1>4, <1>5 DEF TypeOK

(* A handler that goes on is still a handler.                              *)
LEMMA ContinueType ==
  ASSUME TypeOK, NEW r \in reqs, NEW ph \in {"claim", "cancel", "reap", "go"},
         NEW stale \in SUBSET Snapshot, Continue(r, ph, stale)
  PROVE  reqs' \subseteq Request
  BY DEF TypeOK, Continue, Request

(* An empty database and an idle provider are well typed.                  *)
LEMMA TypeInit == Init => TypeOK
  BY RoutingConstants DEF Init, TypeOK, TaskSteps, Someone, Fresh, InProgressTtl

(* Every handler, task and provider step keeps the types.                  *)
LEMMA TypeStep ==
  ASSUME TypeOK, [Next]_vars
  PROVE  TypeOK'
  <1> USE DEF tables, server, provider, history
  <1>1. ASSUME NEW c \in Calls, RingingStep(c) PROVE TypeOK'
    <2>1. CASE AddCall(c)
      <3>1. RingingRow \in ActiveRow
        BY DEF RingingRow, ActiveRow, Someone
      <3>2. active' \in [Calls -> ActiveRow \cup {NoRow}]
        BY <2>1, <3>1 DEF AddCall, TypeOK
      <3>3. ringTask' \in [Calls -> TaskSteps]
        BY <2>1 DEF AddCall, TypeOK, TaskSteps
      <3> QED  BY <2>1, <3>2, <3>3 DEF AddCall, TypeOK
    <2>2. CASE Resolve(c)
      BY <2>2, RoutingConstants DEF Resolve, TypeOK, TaskSteps
    <2>3. CASE CreateTokens(c)
      BY <2>3 DEF CreateTokens, TypeOK, TaskSteps
    <2>4. CASE RingPhones(c)
      BY <2>4 DEF RingPhones, TypeOK, TaskSteps
    <2>5. CASE RecordRingLegs(c)
      BY <2>5 DEF RecordRingLegs, TypeOK, TaskSteps
    <2> QED  BY <1>1, <2>1, <2>2, <2>3, <2>4, <2>5 DEF RingingStep
  <1>2. ASSUME NEW c \in Calls, Arrival(c) PROVE TypeOK'
    <2> DEFINE stale == StaleRows(HubOf[c])
    <2>0. stale \in SUBSET Snapshot /\ Sweeping(stale) \in {"reap", "go"}
      BY StaleRowsType DEF Sweeping
    <2> HIDE DEF stale
    <2>1. CASE Poll(c)
      BY <2>1, <2>0 DEF Poll, TypeOK, stale, Req, Request, Kinds, Someone
    <2>2. CASE CallRecordingCompleted(c)
      BY <2>2, <2>0 DEF CallRecordingCompleted, Deliver, TypeOK, stale, Req, Request, Kinds, Someone
    <2>3. CASE VoicemailRecordingMarks(c)
      <3>1. hooks' \subseteq Hook
        BY <2>3 DEF VoicemailRecordingMarks, Deliver, TypeOK
      <3>2. reqs' \subseteq Request
        BY <2>3 DEF VoicemailRecordingMarks, TypeOK, Req, Request, Kinds, Someone
      <3>3. IsLive(c) => [active[c] EXCEPT !.hasVoicemail = TRUE] \in ActiveRow
        BY DEF IsLive, TypeOK, ActiveRow
      <3>4. active' \in [Calls -> ActiveRow \cup {NoRow}]
        BY <2>3, <3>3 DEF VoicemailRecordingMarks, TypeOK
      <3>5. records[c] # NoRow => [records[c] EXCEPT !.hasVoicemail = TRUE] \in Record
        BY DEF TypeOK, Record
      <3>6. records' \in [Calls -> Record \cup {NoRow}]
        BY <2>3, <3>5 DEF VoicemailRecordingMarks, TypeOK
      <3> QED  BY <2>3, <3>1, <3>2, <3>4, <3>6 DEF VoicemailRecordingMarks, TypeOK
    <2>4. CASE QueueExitHangup(c)
      BY <2>4, EndCallType DEF QueueExitHangup, Deliver, TypeOK
    <2>5. ASSUME NEW v \in Volunteers, UserAnswerWins(c, v) PROVE TypeOK'
      <3>1. active[c].status = "ringing" /\ Claim(c, v, "phone")
        BY <2>5 DEF UserAnswerWins, TokenAnswers
      <3>2. reqs' \subseteq Request
        BY <2>5 DEF UserAnswerWins, TypeOK, Req, Request, Kinds, Someone
      <3> QED  BY <2>5, <3>1, <3>2, ClaimType DEF UserAnswerWins, TypeOK, Someone
    <2>6. ASSUME NEW v \in Volunteers, UserAnswerRefused(c, v) PROVE TypeOK'
      BY <2>6 DEF UserAnswerRefused, TypeOK, Webhook, Hook, Someone
    <2>7. ASSUME NEW v \in Volunteers, AppAnswerChecks(c, v) PROVE TypeOK'
      BY <2>7 DEF AppAnswerChecks, TypeOK, Req, Request, Kinds, Someone
    <2>8. ASSUME NEW v \in Volunteers, CallStatusCompleted(c, v) PROVE TypeOK'
      BY <2>8, <2>0 DEF CallStatusCompleted, Deliver, TypeOK, stale, Req, Request, Kinds, Someone
    <2>9. ASSUME NEW v \in Volunteers, Hangup(c, v) PROVE TypeOK'
      BY <2>9, CallerLegEndsType DEF Hangup, TypeOK, Req, Request, Kinds, Someone
    <2>10. ASSUME NEW v \in Volunteers, SpamChecks(c, v) PROVE TypeOK'
      BY <2>10 DEF SpamChecks, TypeOK, Req, Request, Kinds, Someone
    <2> QED
      BY <1>2, <2>1, <2>2, <2>3, <2>4, <2>5, <2>6, <2>7, <2>8, <2>9, <2>10 DEF Arrival
  <1>3. ASSUME NEW c \in Calls, Outside(c) PROVE TypeOK'
    <2>1. CASE Admit(c)
      BY <2>1 DEF Admit, TypeOK, TaskSteps
    <2>2. CASE AppBridges(c)
      BY <2>2 DEF AppBridges, TypeOK
    <2>3. CASE CallerHangsUp(c)
      BY <2>3, CallerLegEndsType DEF CallerHangsUp, TypeOK
    <2>4. CASE QueueTimesOut(c)
      BY <2>4 DEF QueueTimesOut, TypeOK
    <2>5. CASE VoicemailEnds(c)
      BY <2>5 DEF VoicemailEnds, TypeOK, Webhook, Hook, Someone
    <2>6. CASE GrowOlder(c)
      BY <2>6 DEF GrowOlder, TypeOK, Fresh, InProgressTtl
    <2>7. ASSUME NEW v \in Volunteers, LegEnds(c, v) PROVE TypeOK'
      BY <2>7 DEF LegEnds, TypeOK, Webhook, Hook, Someone
    <2> QED  BY <1>3, <2>1, <2>2, <2>3, <2>4, <2>5, <2>6, <2>7 DEF Outside
  <1>4. ASSUME NEW r \in reqs, ServerStep(r) PROVE TypeOK'
    <2> DEFINE stale == StaleRows(HubOf[r.call])
    <2>0. /\ r.call \in Calls /\ r.vol \in Someone /\ r.stale \in SUBSET Snapshot
          /\ r.kind \in Kinds /\ r.phase \in {"claim", "cancel", "reap", "go"}
      BY DEF TypeOK, Request
    <2>a. stale \in SUBSET Snapshot /\ Sweeping(stale) \in {"reap", "go"}
      BY StaleRowsType DEF Sweeping
    <2> HIDE DEF stale
    <2>b. \A ph \in {"claim", "cancel", "reap", "go"}, read \in SUBSET Snapshot :
            Continue(r, ph, read) => reqs' \in SUBSET Request
      BY ContinueType
    <2>c. Finish(r) => reqs' \in SUBSET Request
      BY DEF Finish, TypeOK
    <2>1. CASE UserAnswerCancels(r)
      <3>1. reqs' \in SUBSET Request
        BY <2>1, <2>a, <2>b DEF UserAnswerCancels, stale
      <3> QED  BY <2>1, <2>0, <3>1, CancelLegsType DEF UserAnswerCancels, TypeOK
    <2>2. CASE UserAnswerBridges(r)
      BY <2>2, <2>c DEF UserAnswerBridges, TypeOK
    <2>3. CASE AppAnswerClaims(r)
      <3>1. reqs' \in SUBSET Request
        BY <2>3, <2>b, <2>c DEF AppAnswerClaims
      <3> QED  BY <2>3, <2>0, <3>1, ClaimType DEF AppAnswerClaims, TypeOK
    <2>4. CASE AppAnswerCancels(r)
      BY <2>4, <2>0, <2>c, CancelLegsType DEF AppAnswerCancels, TypeOK
    <2>5. CASE ReapCommits(r)
      <3>1. reqs' \in SUBSET Request
        BY <2>5, <2>b, <2>c DEF ReapCommits
      <3>2. Reap(r.stale)
        BY <2>5 DEF ReapCommits
      <3> QED  BY <2>5, <2>0, <3>1, <3>2, ReapType DEF ReapCommits, TypeOK
    <2>6. CASE CallStatusEnds(r)
      BY <2>6, <2>0, <2>c, EndCallType DEF CallStatusEnds, TypeOK
    <2>7. CASE CallRecordingEnds(r)
      BY <2>7, <2>0, <2>c, EndCallType DEF CallRecordingEnds, TypeOK
    <2>8. CASE VoicemailRecordingEnds(r)
      BY <2>8, <2>0, <2>c, EndCallType DEF VoicemailRecordingEnds, TypeOK
    <2>9. CASE HangupEnds(r)
      BY <2>9, <2>0, <2>c, EndCallType DEF HangupEnds, TypeOK
    <2>10. CASE ReportSpam(r)
      BY <2>10, <2>0, <2>c DEF ReportSpam, TypeOK, IsLive, ActiveRow
    <2> QED
      BY <1>4, <2>1, <2>2, <2>3, <2>4, <2>5, <2>6, <2>7, <2>8, <2>9, <2>10 DEF ServerStep
  <1>5. CASE Crash
    BY <1>5, RoutingConstants DEF Crash, TypeOK, TaskSteps
  <1>6. CASE UNCHANGED vars
    BY <1>6 DEF vars, TypeOK
  <1> QED  BY <1>1, <1>2, <1>3, <1>4, <1>5, <1>6 DEF Next

(* The columns of the database and the state the worker and the provider   *)
(* keep for each call stay within what the schema and the code allow.      *)
THEOREM TypeCorrect == Spec => []TypeOK
  <1>1. TypeOK /\ [Next]_vars => TypeOK'
    BY TypeStep
  <1> QED  BY <1>1, TypeInit, PTL DEF Spec

----------------------------------------------------------------------------
(* The rows of a call through each change a handler makes to them. *)

(* What never goes back: who answered, and that a call is known, rung,     *)
(* dead.                                                                   *)
Advances(c) ==
  /\ winner[c] # None => winner'[c] = winner[c] /\ answeredOn'[c] = answeredOn[c]
  /\ Known(c) => Known(c)'
  /\ ~Unrung(c) => ~Unrung(c)'
  /\ Dead(c) => Dead(c)'

(* Rows that do not change stay true while nobody newly answers.           *)
LEMMA RowsKept ==
  ASSUME NEW c \in Calls, RowsTrue(c), Unrung(c)' => Unrung(c),
         UNCHANGED <<active[c], records[c], winner[c], answeredOn[c]>>
  PROVE  RowsTrue(c)' /\ Advances(c)
  BY DEF RowsTrue, Advances, Known, Dead, IsLive

(* addCall writes a row for a call that has none, live or ended.           *)
LEMMA AddedRows ==
  ASSUME TypeOK, NEW c \in Calls, RowsTrue(c), AddCall(c)
  PROVE  RowsTrue(c)' /\ Advances(c)
  BY DEF TypeOK, AddCall, RowsTrue, Advances, Known, Dead, IsLive, Unrung, RingingRow, NoRow, history

(* A won answer names the winner in the live row.                          *)
LEMMA ClaimedRows ==
  ASSUME TypeOK, NEW c \in Calls, RowsTrue(c), NEW v \in Volunteers, NEW where,
         active[c].status = "ringing", Claim(c, v, where), UNCHANGED <<records, ringTask>>
  PROVE  RowsTrue(c)' /\ Advances(c)
  <1>1. active[c] \in ActiveRow
    BY DEF TypeOK, NoRow
  <1>2. active'[c].status = "in-progress" /\ active'[c].answeredBy = v /\ winner'[c] = v
    BY <1>1 DEF Claim, TypeOK, ActiveRow
  <1>3. winner[c] = None /\ records[c] = NoRow
    BY <1>1 DEF RowsTrue, IsLive, NoRow, ActiveRow
  <1>4. IsLive(c) /\ IsLive(c)'
    BY <1>1, <1>2 DEF IsLive, NoRow, ActiveRow
  <1> QED  BY <1>2, <1>3, <1>4, RoutingConstants DEF RowsTrue, Advances, Known, Dead, Unrung, NoRow

(* endCall writes a true history row.                                      *)
LEMMA EndedRows ==
  ASSUME TypeOK, NEW c \in Calls, RowsTrue(c), EndCall(c),
         UNCHANGED <<ringTask, winner, answeredOn>>
  PROVE  RowsTrue(c)' /\ Advances(c)
  <1>1. CASE IsLive(c) /\ records[c] = NoRow
    <2>1. active'[c] = NoRow /\ records'[c] = FinalRecord(active[c])
      BY <1>1 DEF EndCall, TypeOK
    <2> QED  BY <1>1, <2>1 DEF RowsTrue, Advances, Known, Dead, IsLive, Unrung, NoRow, FinalRecord
  <1>2. CASE ~(IsLive(c) /\ records[c] = NoRow)
    BY <1>2 DEF EndCall, tables, RowsTrue, Advances, Known, Dead, IsLive, Unrung
  <1> QED  BY <1>1, <1>2

(* The sweep writes true history rows, given a true snapshot.              *)
LEMMA SweptRows ==
  ASSUME TypeOK, NEW c \in Calls, RowsTrue(c), NEW stale \in SUBSET Snapshot, Reap(stale),
         \A s \in stale : TrueSnapshot(s), UNCHANGED <<ringTask, winner, answeredOn>>
  PROVE  RowsTrue(c)' /\ Advances(c)
  <1>1. CASE c \in SweptCalls(stale)
    <2>1. PICK s \in stale : s.call = c /\ SnapshotOf(stale, c) = s.row
      BY <1>1, SnapshotOfType
    <2>2. active'[c] = NoRow /\ Known(c) /\ (s.row.status # "ringing" => winner[c] # None)
      BY <1>1, <2>1 DEF Reap, TrueSnapshot
    <2>3. records'[c] = IF records[c] = NoRow THEN SweptRecord(s.row) ELSE records[c]
      BY <1>1, <2>1 DEF Reap
    <2> QED  BY <2>2, <2>3 DEF RowsTrue, Advances, Known, Dead, IsLive, Unrung, NoRow, SweptRecord
  <1>2. CASE c \notin SweptCalls(stale)
    BY <1>2 DEF Reap, RowsTrue, Advances, Known, Dead, IsLive, Unrung
  <1> QED  BY <1>1, <1>2

(* A spam report keeps the answerer of the row.                            *)
LEMMA SpamRows ==
  ASSUME TypeOK, NEW c \in Calls, RowsTrue(c), winner[c] # None,
         active' = IF IsLive(c) THEN [active EXCEPT ![c].status = "spam"] ELSE active,
         UNCHANGED <<records, ringTask, winner, answeredOn>>
  PROVE  RowsTrue(c)' /\ Advances(c)
  <1>1. CASE IsLive(c)
    <2>1. active[c] \in ActiveRow
      BY <1>1 DEF TypeOK, IsLive
    <2>2. active'[c].status = "spam" /\ active'[c].answeredBy = active[c].answeredBy
      BY <1>1, <2>1 DEF TypeOK, ActiveRow
    <2>3. IsLive(c)'
      BY <2>2 DEF IsLive, NoRow
    <2> QED  BY <1>1, <2>2, <2>3 DEF RowsTrue, Advances, Known, Dead, Unrung
  <1>2. CASE ~IsLive(c)
    BY <1>2 DEF RowsTrue, Advances, Known, Dead, IsLive, Unrung
  <1> QED  BY <1>1, <1>2

(* markVoicemail changes neither answerer nor status.                      *)
LEMMA MarkedRows ==
  ASSUME TypeOK, NEW c \in Calls, RowsTrue(c), VoicemailRecordingMarks(c)
  PROVE  RowsTrue(c)' /\ Advances(c)
  <1> USE DEF server, history
  <1>1. CASE IsLive(c)
    <2>1. active[c] \in ActiveRow
      BY <1>1 DEF TypeOK, IsLive
    <2>2. /\ active'[c].status = active[c].status /\ active'[c].answeredBy = active[c].answeredBy
          /\ UNCHANGED records
      BY <1>1, <2>1 DEF VoicemailRecordingMarks, TypeOK, ActiveRow
    <2>3. IsLive(c)'
      BY <2>1, <2>2 DEF IsLive, NoRow, ActiveRow
    <2> QED  BY <1>1, <2>2, <2>3 DEF VoicemailRecordingMarks, RowsTrue, Advances, Known, Dead, Unrung
  <1>2. CASE ~IsLive(c) /\ records[c] # NoRow
    <2>1. records[c] \in Record
      BY <1>2 DEF TypeOK
    <2>2. /\ records'[c].status = records[c].status /\ records'[c].answeredBy = records[c].answeredBy
          /\ UNCHANGED active
      BY <1>2, <2>1 DEF VoicemailRecordingMarks, TypeOK, Record
    <2>3. records'[c] # NoRow
      BY <2>1, <2>2 DEF NoRow, Record
    <2> QED  BY <1>2, <2>2, <2>3 DEF VoicemailRecordingMarks, RowsTrue, Advances, Known, Dead, IsLive, Unrung
  <1>3. CASE ~IsLive(c) /\ records[c] = NoRow
    BY <1>3, RowsKept DEF VoicemailRecordingMarks, Unrung
  <1> QED  BY <1>1, <1>2, <1>3

(* A row changes only for the call of the handler, whatever it does to it. *)
LEMMA OtherRowsKept ==
  ASSUME NEW c \in Calls, NEW d \in Calls, d # c, RowsTrue(d), TypeOK,
         \/ AddCall(c)
         \/ VoicemailRecordingMarks(c)
         \/ EndCall(c) /\ UNCHANGED <<ringTask, winner, answeredOn>>
         \/ /\ \E v, where : Claim(c, v, where)
            /\ UNCHANGED <<records, ringTask>>
         \/ /\ active' = IF IsLive(c) THEN [active EXCEPT ![c].status = "spam"] ELSE active
            /\ UNCHANGED <<records, ringTask, winner, answeredOn>>
  PROVE  RowsTrue(d)' /\ Advances(d)
  <1>1. UNCHANGED <<active[d], records[d], winner[d], answeredOn[d], ringTask[d]>>
    BY DEF TypeOK, AddCall, VoicemailRecordingMarks, EndCall, Claim, tables, server, history
  <1> QED  BY <1>1, RowsKept DEF Unrung

(* Every step keeps the rows of every call true.                           *)
LEMMA RowsStep ==
  ASSUME IInv, [Next]_vars, NEW d \in Calls
  PROVE  RowsTrue(d)' /\ Advances(d) /\ IdleIsUnrung(d)'
  <1> USE DEF tables, server, provider, history
  <1> DEFINE Good == RowsTrue(d)' /\ Advances(d) /\ IdleIsUnrung(d)'
  <1>0. TypeOK /\ RowsTrue(d) /\ IdleIsUnrung(d) /\ \A c \in Calls : RowsTrue(c)
    BY DEF IInv
  <1>a. ASSUME UNCHANGED <<active, records, ringTask, winner, answeredOn>>,
               caller'[d] = "idle" => caller[d] = "idle"
        PROVE  Good
    BY <1>0, <1>a, RowsKept DEF Unrung, IdleIsUnrung
  <1>b. ASSUME NEW c \in Calls, EndCall(c), UNCHANGED <<ringTask, caller, winner, answeredOn>>
        PROVE  Good
    <2>1. IdleIsUnrung(d)'
      BY <1>0, <1>b DEF IdleIsUnrung
    <2> QED  BY <1>0, <1>b, <2>1, EndedRows, OtherRowsKept
  <1>c. ASSUME NEW c \in Calls, NEW v \in Volunteers, NEW where, active[c].status = "ringing",
               Claim(c, v, where), UNCHANGED <<records, ringTask, caller>>
        PROVE  Good
    <2>1. IdleIsUnrung(d)'
      BY <1>0, <1>c DEF IdleIsUnrung
    <2> QED  BY <1>0, <1>c, <2>1, ClaimedRows, OtherRowsKept
  <1>d. ASSUME NEW c \in Calls, CallerLegEnds(c)
        PROVE  caller'[d] = "idle" => caller[d] = "idle"
    BY <1>0, <1>d DEF CallerLegEnds, TypeOK
  <1> HIDE DEF Good
  <1>1. ASSUME NEW c \in Calls, RingingStep(c) PROVE Good
    <2>1. CASE AddCall(c)
      <3>1. IdleIsUnrung(d)'
        BY <1>0, <2>1 DEF AddCall, IdleIsUnrung, TypeOK
      <3> QED  BY <1>0, <2>1, <3>1, AddedRows, OtherRowsKept DEF Good
    <2>2. CASE Resolve(c) \/ CreateTokens(c) \/ RingPhones(c) \/ RecordRingLegs(c)
      <3>1. /\ Unrung(d)' => Unrung(d)
            /\ IdleIsUnrung(d)'
            /\ UNCHANGED <<active, records, winner, answeredOn>>
        BY <1>0, <2>2 DEF Resolve, CreateTokens, RingPhones, RecordRingLegs, Unrung, IdleIsUnrung, TypeOK
      <3> QED  BY <1>0, <3>1, RowsKept DEF Good
    <2> QED  BY <1>1, <2>1, <2>2 DEF RingingStep
  <1>2. ASSUME NEW c \in Calls, Arrival(c) PROVE Good
    <2>1. CASE Poll(c) \/ CallRecordingCompleted(c)
      BY <2>1, <1>a DEF Poll, CallRecordingCompleted
    <2>2. CASE VoicemailRecordingMarks(c)
      <3>1. IdleIsUnrung(d)'
        BY <1>0, <2>2 DEF VoicemailRecordingMarks, IdleIsUnrung
      <3> QED  BY <1>0, <2>2, <3>1, MarkedRows, OtherRowsKept DEF Good
    <2>3. CASE QueueExitHangup(c)
      BY <2>3, <1>b DEF QueueExitHangup, Good
    <2>4. ASSUME NEW v \in Volunteers, UserAnswerWins(c, v) PROVE Good
      BY <2>4, <1>c DEF UserAnswerWins, TokenAnswers, Good
    <2>5. ASSUME NEW v \in Volunteers,
                 UserAnswerRefused(c, v) \/ AppAnswerChecks(c, v) \/ CallStatusCompleted(c, v)
                   \/ SpamChecks(c, v)
          PROVE  Good
      BY <2>5, <1>a DEF UserAnswerRefused, AppAnswerChecks, CallStatusCompleted, SpamChecks
    <2>6. ASSUME NEW v \in Volunteers, Hangup(c, v) PROVE Good
      BY <2>6, <1>a, <1>d DEF Hangup
    <2> QED  BY <1>2, <2>1, <2>2, <2>3, <2>4, <2>5, <2>6 DEF Arrival
  <1>3. ASSUME NEW c \in Calls, Outside(c) PROVE Good
    <2>1. CASE Admit(c)
      <3>1. /\ Unrung(d)' => Unrung(d)
            /\ IdleIsUnrung(d)'
            /\ UNCHANGED <<active, records, winner, answeredOn>>
        BY <1>0, <2>1 DEF Admit, Unrung, IdleIsUnrung, TypeOK
      <3> QED  BY <1>0, <3>1, RowsKept DEF Good
    <2>2. CASE AppBridges(c) \/ QueueTimesOut(c) \/ VoicemailEnds(c) \/ GrowOlder(c)
               \/ \E v \in Volunteers : LegEnds(c, v)
      BY <1>0, <2>2, <1>a DEF AppBridges, QueueTimesOut, VoicemailEnds, GrowOlder, LegEnds, TypeOK
    <2>3. CASE CallerHangsUp(c)
      BY <2>3, <1>a, <1>d DEF CallerHangsUp
    <2> QED  BY <1>3, <2>1, <2>2, <2>3 DEF Outside
  <1>4. ASSUME NEW r \in reqs, ServerStep(r) PROVE Good
    <2>0. r.call \in Calls /\ TrueRequest(r) /\ r.stale \in SUBSET Snapshot
      BY DEF IInv, TypeOK, Request
    <2>1. CASE UserAnswerCancels(r) \/ UserAnswerBridges(r) \/ AppAnswerCancels(r)
      BY <1>0, <2>1, <1>a DEF UserAnswerCancels, UserAnswerBridges, AppAnswerCancels, TypeOK
    <2>2. CASE AppAnswerClaims(r)
      <3>1. r.vol \in Volunteers
        BY <2>0, <2>2 DEF TrueRequest, AppAnswerClaims
      <3>2. CASE active[r.call].status = "ringing" /\ active[r.call].answeredBy = None
        BY <2>0, <2>2, <3>1, <3>2, <1>c DEF AppAnswerClaims
      <3>3. CASE ~(active[r.call].status = "ringing" /\ active[r.call].answeredBy = None)
        BY <2>2, <3>3, <1>a DEF AppAnswerClaims
      <3> QED  BY <3>2, <3>3
    <2>3. CASE ReapCommits(r)
      <3>1. Reap(r.stale) /\ UNCHANGED <<ringTask, caller, winner, answeredOn>>
        BY <2>3 DEF ReapCommits
      <3>2. IdleIsUnrung(d)'
        BY <1>0, <3>1 DEF IdleIsUnrung
      <3> QED  BY <1>0, <2>0, <3>1, <3>2, SweptRows DEF Good, TrueRequest
    <2>4. CASE CallStatusEnds(r) \/ CallRecordingEnds(r) \/ VoicemailRecordingEnds(r) \/ HangupEnds(r)
      BY <2>0, <2>4, <1>b DEF CallStatusEnds, CallRecordingEnds, VoicemailRecordingEnds, HangupEnds
    <2>5. CASE ReportSpam(r)
      <3>1. winner[r.call] # None
        BY <2>0, <2>5, RoutingConstants DEF ReportSpam, TrueRequest
      <3>2. IdleIsUnrung(d)'
        BY <1>0, <2>5 DEF ReportSpam, IdleIsUnrung
      <3>3. /\ active' = IF IsLive(r.call) THEN [active EXCEPT ![r.call].status = "spam"] ELSE active
            /\ UNCHANGED <<records, ringTask, winner, answeredOn>>
        BY <2>5 DEF ReportSpam
      <3> QED  BY <1>0, <2>0, <3>1, <3>2, <3>3, SpamRows, OtherRowsKept DEF Good
    <2> QED  BY <1>4, <2>1, <2>2, <2>3, <2>4, <2>5 DEF ServerStep
  <1>5. CASE Crash
    <2>1. /\ Unrung(d)' => Unrung(d)
          /\ IdleIsUnrung(d)'
          /\ UNCHANGED <<active, records, winner, answeredOn>>
      BY <1>0, <1>5 DEF Crash, Unrung, IdleIsUnrung, TypeOK
    <2> QED  BY <1>0, <2>1, RowsKept DEF Good
  <1>6. CASE UNCHANGED vars
    <2>1. UNCHANGED <<active, records, ringTask, winner, answeredOn, caller>>
      BY <1>6 DEF vars
    <2> QED  BY <2>1, <1>a DEF Good
  <1> QED  BY <1>1, <1>2, <1>3, <1>4, <1>5, <1>6 DEF Next, Good

----------------------------------------------------------------------------
(* The handlers in flight. *)

(* What a handler relies on survives the other handlers' steps.            *)
LEMMA RequestsKept ==
  ASSUME NEW q \in Request, TrueRequest(q), \A c \in Calls : Advances(c)
  PROVE  TrueRequest(q)'
  <1>1. q.call \in Calls /\ \A s \in q.stale : s.call \in Calls
    BY DEF Request, Snapshot
  <1>2. \A s \in q.stale : TrueSnapshot(s)'
    BY <1>1 DEF TrueRequest, TrueSnapshot, Advances
  <1> QED
    BY <1>1, <1>2, RoutingConstants DEF TrueRequest, Advances

(* Whoever reads the stale rows reads what was true of live calls.         *)
LEMMA StaleRowsTrue ==
  ASSUME IInv, NEW h
  PROVE  \A s \in StaleRows(h) : TrueSnapshot(s)
  <1> SUFFICES ASSUME NEW c \in Calls, IsStale(c)
               PROVE  TrueSnapshot([call |-> c, row |-> active[c]])
    BY DEF StaleRows
  <1>1. IsLive(c)
    BY DEF IsStale, IsLive, NoRow, RingingTtl, InProgressTtl
  <1> QED  BY <1>1 DEF IInv, RowsTrue, TrueSnapshot, Known

(* A handler that a step adds relies on what it has just read.             *)
LEMMA RequestsStep ==
  ASSUME IInv, [Next]_vars, NEW q \in reqs'
  PROVE  TrueRequest(q) \/ TrueRequest(q)'
  <1> USE DEF tables, server, provider, history
  <1> DEFINE Good == TrueRequest(q) \/ TrueRequest(q)'
  <1>0. /\ TypeOK
        /\ \A c \in Calls : RowsTrue(c)
        /\ \A r \in reqs : TrueRequest(r)
    BY DEF IInv
  <1>a. ASSUME q \in reqs PROVE Good
    BY <1>0, <1>a
  <1> HIDE DEF Good
  <1>1. ASSUME NEW c \in Calls, RingingStep(c) PROVE Good
    BY <1>1, <1>a DEF RingingStep, AddCall, Resolve, CreateTokens, RingPhones, RecordRingLegs
  <1>2. ASSUME NEW c \in Calls, Arrival(c) PROVE Good
    <2>0. \A s \in StaleRows(HubOf[c]) : TrueSnapshot(s)
      BY StaleRowsTrue
    <2>1. CASE Poll(c)
      BY <2>0, <2>1, <1>a DEF Poll, Req, TrueRequest, Good
    <2>2. CASE CallRecordingCompleted(c)
      BY <2>0, <2>2, <1>a DEF CallRecordingCompleted, Req, Sweeping, TrueRequest, Good
    <2>3. CASE VoicemailRecordingMarks(c)
      BY <2>3, <1>a DEF VoicemailRecordingMarks, Req, TrueRequest, Good
    <2>4. CASE QueueExitHangup(c)
      BY <2>4, <1>a DEF QueueExitHangup
    <2>5. ASSUME NEW v \in Volunteers, UserAnswerWins(c, v) PROVE Good
      <3>1. winner'[c] = v /\ answeredOn'[c] = "phone"
        BY <1>0, <2>5 DEF UserAnswerWins, Claim, TypeOK
      <3> QED  BY <2>5, <3>1, <1>a, RoutingConstants DEF UserAnswerWins, Req, TrueRequest, Good
    <2>6. ASSUME NEW v \in Volunteers, UserAnswerRefused(c, v) PROVE Good
      BY <2>6, <1>a DEF UserAnswerRefused
    <2>7. ASSUME NEW v \in Volunteers, AppAnswerChecks(c, v) PROVE Good
      BY <2>7, <1>a DEF AppAnswerChecks, Req, TrueRequest, Good
    <2>8. ASSUME NEW v \in Volunteers, CallStatusCompleted(c, v) PROVE Good
      <3> DEFINE stale == StaleRows(HubOf[c])
                 poll == Req("poll", "reap", c, None, stale)
                 end == Req("callStatus", Sweeping(stale), c, v, stale)
      <3>1. CASE q = poll
        BY <2>0, <3>1 DEF Req, TrueRequest, Good
      <3>2. CASE /\ q = end
                 /\ <<c, v>> \in tokens
                 /\ ~IsLive(c) \/ IsStale(c) \/ active[c].answeredBy = v
        <4>1. ~Unrung(c)
          BY <3>2 DEF IInv, TokensAreOfRungCalls
        <4>2. \/ Dead(c)
              \/ winner[c] = v
              \/ IsStale(c)
          BY <1>0, <3>2, <4>1 DEF Dead, RowsTrue
        <4>3. IsStale(c) => c \in SweptCalls(stale) /\ Sweeping(stale) = "reap"
          <5>1. IsStale(c) => [call |-> c, row |-> active[c]] \in stale
            BY DEF StaleRows
          <5> QED  BY <5>1 DEF SweptCalls, Sweeping
        <4>4. q.kind = "callStatus" /\ q.phase = Sweeping(stale) /\ q.call = c /\ q.vol = v /\ q.stale = stale
          BY <3>2 DEF Req
        <4>5. q.phase # "cancel"
          BY <4>4 DEF Sweeping
        <4> HIDE DEF stale, poll, end
        <4> QED  BY <2>0, <4>2, <4>3, <4>4, <4>5 DEF TrueRequest, Good, stale
      <3>3. q \in reqs \/ q = poll
            \/ /\ q = end
               /\ <<c, v>> \in tokens
               /\ ~IsLive(c) \/ IsStale(c) \/ active[c].answeredBy = v
        BY <2>8 DEF CallStatusCompleted
      <3> QED  BY <3>1, <3>2, <3>3, <1>a
    <2>9. ASSUME NEW v \in Volunteers, Hangup(c, v) \/ SpamChecks(c, v) PROVE Good
      <3>1. winner[c] = v
        BY <1>0, <2>9 DEF Hangup, SpamChecks, RowsTrue
      <3> QED  BY <2>9, <3>1, <1>a DEF Hangup, SpamChecks, Req, TrueRequest, Good
    <2> QED
      BY <1>2, <2>1, <2>2, <2>3, <2>4, <2>5, <2>6, <2>7, <2>8, <2>9 DEF Arrival
  <1>3. ASSUME NEW c \in Calls, Outside(c) PROVE Good
    BY <1>3, <1>a DEF Outside, Admit, AppBridges, CallerHangsUp, QueueTimesOut, VoicemailEnds,
       GrowOlder, LegEnds
  <1>4. ASSUME NEW r \in reqs, ServerStep(r) PROVE Good
    <2>0. r \in Request /\ TrueRequest(r)
      BY <1>0 DEF TypeOK
    <2>1. CASE UserAnswerCancels(r)
      <3>1. \A s \in StaleRows(HubOf[r.call]) : TrueSnapshot(s)
        BY StaleRowsTrue
      <3>2. q \in reqs \/ q = [r EXCEPT !.phase = Sweeping(StaleRows(HubOf[r.call])),
                                        !.stale = StaleRows(HubOf[r.call])]
        BY <2>1 DEF UserAnswerCancels, Continue
      <3> QED
        BY <2>0, <2>1, <3>1, <3>2, <1>a DEF UserAnswerCancels, Request, Sweeping, TrueRequest, Good
    <2>2. CASE AppAnswerClaims(r)
      <3>1. CASE /\ Claim(r.call, r.vol, "app")
                 /\ q = [r EXCEPT !.phase = "cancel", !.stale = {}]
        <4>1. winner'[r.call] = r.vol /\ answeredOn'[r.call] = "app" /\ r.vol \in Volunteers
          BY <1>0, <2>0, <2>2, <3>1 DEF AppAnswerClaims, Claim, TypeOK, Request, TrueRequest
        <4> QED
          BY <2>0, <2>2, <3>1, <4>1, RoutingConstants
             DEF AppAnswerClaims, Request, TrueRequest, Good
      <3>2. q \in reqs \/ (Claim(r.call, r.vol, "app") /\ q = [r EXCEPT !.phase = "cancel", !.stale = {}])
        BY <2>2 DEF AppAnswerClaims, Finish, Continue
      <3> QED  BY <3>1, <3>2, <1>a
    <2>3. CASE ReapCommits(r)
      <3>1. CASE q = [r EXCEPT !.phase = "go", !.stale = {}]
        <4>1. r.call \in SweptCalls(r.stale) => Dead(r.call)'
          <5>1. SUFFICES ASSUME r.call \in SweptCalls(r.stale) PROVE Dead(r.call)'
            OBVIOUS
          <5>2. Known(r.call) /\ r.call \in Calls
            BY <2>0, <5>1 DEF TrueRequest, TrueSnapshot, SweptCalls, Request
          <5>3. ~Unrung(r.call)
            BY <1>0, <5>2 DEF RowsTrue
          <5> QED  BY <2>3, <5>1, <5>2, <5>3 DEF ReapCommits, Reap, Dead, Unrung, IsLive
        <4>2. Dead(r.call) => Dead(r.call)'
          BY RowsStep, <2>0 DEF Advances, Request
        <4>3. winner' = winner
          BY <2>3 DEF ReapCommits
        <4> QED
          BY <2>0, <2>3, <3>1, <4>1, <4>2, <4>3 DEF ReapCommits, Request, TrueRequest, Good
      <3>2. q \in reqs \/ q = [r EXCEPT !.phase = "go", !.stale = {}]
        BY <2>3 DEF ReapCommits, Finish, Continue
      <3> QED  BY <3>1, <3>2, <1>a
    <2>4. CASE \/ UserAnswerBridges(r) \/ AppAnswerCancels(r) \/ CallStatusEnds(r)
               \/ CallRecordingEnds(r) \/ VoicemailRecordingEnds(r) \/ HangupEnds(r) \/ ReportSpam(r)
      BY <2>4, <1>a DEF UserAnswerBridges, AppAnswerCancels, CallStatusEnds, CallRecordingEnds,
         VoicemailRecordingEnds, HangupEnds, ReportSpam, Finish
    <2> QED  BY <1>4, <2>1, <2>2, <2>3, <2>4 DEF ServerStep
  <1>5. CASE Crash
    BY <1>5 DEF Crash
  <1>6. CASE UNCHANGED vars
    BY <1>6, <1>a DEF vars, Good
  <1> QED  BY <1>1, <1>2, <1>3, <1>4, <1>5, <1>6 DEF Next, Good

(* Tokens are only ever created for a call that has been rung.             *)
LEMMA TokensStep ==
  ASSUME IInv, [Next]_vars, NEW t \in tokens'
  PROVE  t[1] \in Calls /\ ~Unrung(t[1])
  <1> USE DEF tables, server, provider, history
  <1>0. \A u \in tokens : u[1] \in Calls /\ ~Unrung(u[1])
    BY DEF IInv, TypeOK, TokensAreOfRungCalls
  <1>1. ASSUME NEW c \in Calls, CreateTokens(c) PROVE t[1] \in Calls /\ ~Unrung(t[1])
    BY <1>0, <1>1 DEF CreateTokens, Unrung
  <1>2. ASSUME NEW c \in Calls, EndCall(c) PROVE t \in tokens
    BY <1>2 DEF EndCall, TokensExcept
  <1>3. ASSUME NEW r \in reqs, ReapCommits(r) PROVE t \in tokens
    BY <1>3 DEF ReapCommits, Reap, TokensExcept
  <1>4. ASSUME tokens' = tokens PROVE t \in tokens
    BY <1>4
  <1>5. ASSUME NEW c \in Calls, RingingStep(c), ~CreateTokens(c) PROVE t \in tokens
    BY <1>5, <1>4 DEF RingingStep, AddCall, Resolve, RingPhones, RecordRingLegs
  <1>6. ASSUME NEW c \in Calls, Arrival(c) PROVE t \in tokens
    BY <1>6, <1>2, <1>4 DEF Arrival, Poll, CallRecordingCompleted, VoicemailRecordingMarks,
       QueueExitHangup, UserAnswerWins, UserAnswerRefused, AppAnswerChecks, CallStatusCompleted,
       Hangup, SpamChecks
  <1>7. ASSUME NEW c \in Calls, Outside(c) PROVE t \in tokens
    BY <1>7, <1>4 DEF Outside, Admit, AppBridges, CallerHangsUp, QueueTimesOut, VoicemailEnds,
       GrowOlder, LegEnds
  <1>8. ASSUME NEW r \in reqs, ServerStep(r) PROVE t \in tokens
    <2>1. r.call \in Calls
      BY DEF IInv, TypeOK, Request
    <2> QED
      BY <1>8, <2>1, <1>2, <1>3, <1>4 DEF ServerStep, UserAnswerCancels, UserAnswerBridges,
         AppAnswerClaims, AppAnswerCancels, CallStatusEnds, CallRecordingEnds,
         VoicemailRecordingEnds, HangupEnds, ReportSpam
  <1>9. CASE Crash
    BY <1>9, <1>0 DEF Crash
  <1>10. CASE UNCHANGED vars
    BY <1>10, <1>0 DEF vars
  <1> QED  BY <1>0, <1>1, <1>5, <1>6, <1>7, <1>8, <1>9, <1>10 DEF Next

----------------------------------------------------------------------------
(* The inductive invariant, and what follows from it. *)

(* The invariant holds of an empty database.                               *)
LEMMA InvInit == Init => IInv
  <1> SUFFICES ASSUME Init PROVE IInv  OBVIOUS
  <1>1. \A c \in Calls : RowsTrue(c) /\ IdleIsUnrung(c)
    BY DEF Init, RowsTrue, IdleIsUnrung, Known, IsLive, NoRow
  <1> QED  BY <1>1, TypeInit DEF Init, IInv, TokensAreOfRungCalls

(* Every step keeps the invariant.                                         *)
LEMMA InvStep == IInv /\ [Next]_vars => IInv'
  <1> SUFFICES ASSUME IInv, [Next]_vars PROVE IInv'  OBVIOUS
  <1>1. TypeOK'
    BY TypeStep DEF IInv
  <1>2. \A c \in Calls : RowsTrue(c)' /\ Advances(c) /\ IdleIsUnrung(c)'
    BY RowsStep
  <1>3. TokensAreOfRungCalls'
    BY <1>2, TokensStep DEF TokensAreOfRungCalls, Advances
  <1>4. ASSUME NEW q \in reqs' PROVE TrueRequest(q)'
    <2>1. q \in Request
      BY <1>1 DEF TypeOK
    <2> QED  BY <2>1, <1>2, RequestsStep, RequestsKept
  <1> QED  BY <1>1, <1>2, <1>3, <1>4 DEF IInv

(* Rows, tokens and what each handler has read agree at all times.         *)
THEOREM InvHolds == Spec => []IInv
  BY InvInit, InvStep, PTL DEF Spec

(* No interleaving of endCall, the sweep and the ringing task leaves a     *)
(* call both live and in the history.                                      *)
THEOREM NeverLiveAndEndedHolds == Spec => []NeverLiveAndEnded
  <1>1. IInv => NeverLiveAndEnded
    BY DEF IInv, RowsTrue, NeverLiveAndEnded
  <1> QED  BY <1>1, InvHolds, PTL

(* Whatever races answerCall, the sweep and the webhooks run, the tables   *)
(* name the volunteer who answered, and nobody else.                       *)
THEOREM TablesTellTheAnswerHolds == Spec => []TablesTellTheAnswer
  <1>1. IInv => TablesTellTheAnswer
    BY DEF IInv, RowsTrue, TablesTellTheAnswer
  <1> QED  BY <1>1, InvHolds, PTL

(* A `completed` of another volunteer's leg, or another volunteer's click, *)
(* never ends the call the winner is on (call-status, hangup).             *)
THEOREM OnlyAnswererEndsCallHolds == Spec => OnlyAnswererEndsCall
  <1>1. ASSUME IInv, NEW r \in reqs, r.kind \in {"callStatus", "hangup"}, r.phase = "go",
               IsLive(r.call)
        PROVE  winner[r.call] = r.vol
    BY <1>1 DEF IInv, TrueRequest, Dead
  <1>2. IInv => \A r \in reqs \ reqs' :
                  /\ r.kind \in {"callStatus", "hangup"} /\ r.phase = "go"
                  /\ IsLive(r.call) /\ ~IsLive(r.call)'
                  => winner[r.call] = r.vol
    BY <1>1
  <1> QED  BY <1>2, InvHolds, PTL DEF OnlyAnswererEndsCall

(* A handler in its cancelling step leaves the winner's phone alone, and   *)
(* no other step touches a leg when it finishes such a handler.            *)
THEOREM WinningLegSurvivesCancelHolds == Spec => WinningLegSurvivesCancel
  <1>1. ASSUME IInv, [Next]_vars, NEW r \in reqs \ reqs', r.phase = "cancel",
               answeredOn[r.call] = "phone"
        PROVE  legs'[r.call][winner[r.call]] = legs[r.call][winner[r.call]]
    <2> USE DEF tables, server, provider, history
    <2>0. /\ TypeOK /\ TrueRequest(r) /\ r \in Request
          /\ r.kind = "userAnswer" /\ r.vol \in Volunteers /\ winner[r.call] = r.vol
      BY <1>1 DEF IInv, TypeOK, TrueRequest
    <2>1. ASSUME NEW c \in Calls, RingingStep(c) \/ Arrival(c) \/ Outside(c) PROVE reqs \subseteq reqs'
      BY <2>1 DEF RingingStep, AddCall, Resolve, CreateTokens, RingPhones, RecordRingLegs,
         Arrival, Poll, CallRecordingCompleted, VoicemailRecordingMarks, QueueExitHangup,
         UserAnswerWins, UserAnswerRefused, AppAnswerChecks, CallStatusCompleted, Hangup, SpamChecks,
         Outside, Admit, AppBridges, CallerHangsUp, QueueTimesOut, VoicemailEnds, GrowOlder, LegEnds
    <2>2. ASSUME NEW q \in reqs, ServerStep(q), q # r PROVE r \in reqs'
      BY <2>2, <1>1 DEF ServerStep, UserAnswerCancels, UserAnswerBridges, AppAnswerClaims,
         AppAnswerCancels, ReapCommits, CallStatusEnds, CallRecordingEnds, VoicemailRecordingEnds,
         HangupEnds, ReportSpam, Finish, Continue
    <2>3. ASSUME ServerStep(r)
          PROVE  legs'[r.call][winner[r.call]] = legs[r.call][winner[r.call]]
      <3>1. UserAnswerCancels(r)
        BY <1>1, <2>0, <2>3 DEF ServerStep, UserAnswerBridges, AppAnswerClaims,
           AppAnswerCancels, ReapCommits, CallStatusEnds, CallRecordingEnds, VoicemailRecordingEnds,
           HangupEnds, ReportSpam
      <3>2. CASE CancelLegs(r.call, {r.vol})
        <4> DEFINE losers == {v \in registry[r.call] \ {r.vol} : legs[r.call][v] \in {"ringing", "up"}}
        <4>1. \/ legs' = legs
              \/ legs' = [legs EXCEPT ![r.call] = [v \in Volunteers |->
                            IF v \in losers THEN "ended" ELSE legs[r.call][v]]]
          BY <3>2 DEF CancelLegs
        <4>2. r.vol \notin losers
          OBVIOUS
        <4> HIDE DEF losers
        <4> QED  BY <2>0, <4>1, <4>2 DEF TypeOK, Request
      <3> QED  BY <3>1, <3>2 DEF UserAnswerCancels
    <2>4. CASE Crash
      BY <2>4 DEF Crash
    <2>5. CASE UNCHANGED vars
      BY <2>5 DEF vars
    <2> QED  BY <1>1, <2>1, <2>2, <2>3, <2>4, <2>5 DEF Next
  <1>2. IInv /\ [Next]_vars => \A r \in reqs \ reqs' :
          r.phase = "cancel" /\ answeredOn[r.call] = "phone"
          => legs'[r.call][winner[r.call]] = legs[r.call][winner[r.call]]
    BY <1>1
  <1> QED  BY <1>2, InvHolds, PTL DEF WinningLegSurvivesCancel, Spec

----------------------------------------------------------------------------
(* Refinement: every step of the handlers is a step of the lifecycle. *)

Abstract == [Lifecycle!LNext]_<<[c \in Calls |-> PhaseOf(c)], winner>>

(* A call whose two rows do not change stays in its phase.                 *)
LEMMA SamePhase ==
  ASSUME NEW c \in Calls, UNCHANGED <<active[c], records[c]>>
  PROVE  PhaseOf(c)' = PhaseOf(c)
  BY DEF PhaseOf, IsLive

(* A step on neither table nor winner is a stutter of the lifecycle.       *)
LEMMA RowsUntouched ==
  ASSUME UNCHANGED <<active, records, winner>>
  PROVE  Abstract
  BY DEF Abstract, PhaseOf, IsLive

(* addCall rings a new call.                                               *)
LEMMA AddIsRing ==
  ASSUME IInv, NEW c \in Calls, AddCall(c)
  PROVE  Abstract
  <1>1. TypeOK /\ RowsTrue(c)
    BY DEF IInv
  <1>2. PhaseOf(c) = "new"
    BY <1>1 DEF AddCall, RowsTrue, Unrung, Known, PhaseOf
  <1>3. PhaseOf(c)' = "ringing"
    BY <1>1 DEF TypeOK, AddCall, RowsTrue, Unrung, Known, PhaseOf, RingingRow, IsLive, NoRow
  <1>4. \A d \in Calls \ {c} : PhaseOf(d)' = PhaseOf(d)
    BY <1>1, SamePhase DEF TypeOK, AddCall
  <1>5. Lifecycle!Ring(c)
    BY <1>2, <1>3, <1>4 DEF Lifecycle!Ring, AddCall, history
  <1> QED  BY <1>5 DEF Abstract, Lifecycle!LNext

(* A won conditional UPDATE answers a ringing call.                        *)
LEMMA ClaimIsAnswer ==
  ASSUME IInv, NEW c \in Calls, NEW v \in Volunteers, NEW where,
         active[c].status = "ringing", Claim(c, v, where), UNCHANGED records
  PROVE  Abstract
  <1>1. TypeOK /\ RowsTrue(c)
    BY DEF IInv
  <1>2. active[c] \in ActiveRow
    BY <1>1 DEF TypeOK, NoRow
  <1>3. IsLive(c) /\ records[c] = NoRow /\ winner[c] = None
    BY <1>1, <1>2 DEF RowsTrue, IsLive, NoRow, ActiveRow
  <1>4. PhaseOf(c) = "ringing"
    BY <1>3 DEF PhaseOf
  <1>5. active'[c].status = "in-progress"
    BY <1>1, <1>2 DEF Claim, TypeOK, ActiveRow
  <1>6. PhaseOf(c)' = "live"
    BY <1>3, <1>5 DEF PhaseOf, IsLive, NoRow
  <1>7. \A d \in Calls \ {c} : PhaseOf(d)' = PhaseOf(d)
    BY <1>1, SamePhase DEF TypeOK, Claim
  <1>8. Lifecycle!Answer(c, v)
    BY <1>3, <1>4, <1>6, <1>7 DEF Lifecycle!Answer, Claim
  <1> QED  BY <1>8 DEF Abstract, Lifecycle!LNext

(* endCall ends a ringing or live call, or does nothing.                   *)
LEMMA EndIsOver ==
  ASSUME IInv, NEW c \in Calls, EndCall(c), UNCHANGED winner
  PROVE  Abstract
  <1>1. CASE IsLive(c) /\ records[c] = NoRow
    <2>1. active'[c] = NoRow /\ records'[c] = FinalRecord(active[c])
      BY <1>1 DEF EndCall, IInv, TypeOK
    <2>2. PhaseOf(c)' = "over"
      BY <2>1 DEF PhaseOf, FinalRecord, NoRow
    <2>3. PhaseOf(c) \in {"ringing", "live"}
      BY <1>1 DEF PhaseOf
    <2>4. \A d \in Calls \ {c} : PhaseOf(d)' = PhaseOf(d)
      BY <1>1, SamePhase DEF EndCall, IInv, TypeOK
    <2>5. Lifecycle!Over({c})
      BY <2>2, <2>3, <2>4 DEF Lifecycle!Over
    <2> QED  BY <2>5 DEF Abstract, Lifecycle!LNext
  <1>2. CASE ~(IsLive(c) /\ records[c] = NoRow)
    BY <1>2, RowsUntouched DEF EndCall, tables
  <1> QED  BY <1>1, <1>2

(* The sweep ends the calls of its snapshot that are not over yet.         *)
LEMMA ReapIsOver ==
  ASSUME IInv, NEW stale \in SUBSET Snapshot, Reap(stale),
         \A s \in stale : TrueSnapshot(s), UNCHANGED winner
  PROVE  Abstract
  <1> DEFINE ended == {c \in SweptCalls(stale) : records[c] = NoRow}
  <1>1. SweptCalls(stale) \subseteq Calls
    BY DEF SweptCalls, Snapshot
  <1>2. ASSUME NEW c \in ended
        PROVE  PhaseOf(c) \in {"ringing", "live"} /\ PhaseOf(c)' = "over"
    <2>1. PICK s \in stale : s.call = c /\ SnapshotOf(stale, c) = s.row
      BY SnapshotOfType
    <2>2. IsLive(c)
      BY <2>1 DEF TrueSnapshot, Known
    <2>3. records'[c] = SweptRecord(s.row)
      BY <1>1, <2>1 DEF Reap
    <2> QED  BY <2>2, <2>3 DEF PhaseOf, SweptRecord, NoRow
  <1>3. ASSUME NEW c \in Calls \ ended
        PROVE  PhaseOf(c)' = PhaseOf(c)
    BY <1>3 DEF Reap, PhaseOf, IsLive
  <1>4. ended \in SUBSET Calls
    BY <1>1
  <1> HIDE DEF ended
  <1>5. Lifecycle!Over(ended)
    BY <1>2, <1>3, <1>4 DEF Lifecycle!Over
  <1> QED  BY <1>4, <1>5 DEF Abstract, Lifecycle!LNext

(* A spam report keeps an answered call live.                              *)
LEMMA SpamIsNoStep ==
  ASSUME IInv, NEW r \in reqs, ReportSpam(r)
  PROVE  Abstract
  <1> DEFINE c == r.call
  <1>1. TypeOK /\ c \in Calls /\ RowsTrue(c) /\ winner[c] # None
    BY RoutingConstants DEF IInv, TypeOK, Request, TrueRequest, ReportSpam
  <1> HIDE DEF c
  <1>2. UNCHANGED <<records, winner>>
    BY DEF ReportSpam, tables, history
  <1>3. active' = IF IsLive(c) THEN [active EXCEPT ![c].status = "spam"] ELSE active
    BY DEF ReportSpam, c
  <1>4. IsLive(c) => active'[c].status = "spam" /\ active[c].status # "ringing"
    BY <1>1, <1>3 DEF TypeOK, IsLive, ActiveRow, RowsTrue
  <1>5. ASSUME NEW d \in Calls PROVE PhaseOf(d)' = PhaseOf(d)
    <2>1. CASE d = c
      BY <1>2, <1>3, <1>4, <2>1 DEF PhaseOf, IsLive, NoRow
    <2>2. CASE d # c
      BY <1>1, <1>2, <1>3, <2>2, SamePhase DEF TypeOK
    <2> QED  BY <2>1, <2>2
  <1> QED  BY <1>2, <1>5 DEF Abstract

(* A voicemail mark keeps every call in its phase.                         *)
LEMMA MarkIsNoStep ==
  ASSUME IInv, NEW c \in Calls, VoicemailRecordingMarks(c)
  PROVE  Abstract
  <1>1. TypeOK /\ UNCHANGED winner
    BY DEF IInv, VoicemailRecordingMarks, history
  <1>2. PhaseOf(c)' = PhaseOf(c)
    <2>1. CASE IsLive(c)
      <3>1. active[c] \in ActiveRow
        BY <1>1, <2>1 DEF TypeOK, IsLive
      <3>2. active'[c].status = active[c].status /\ UNCHANGED records
        BY <1>1, <2>1, <3>1 DEF VoicemailRecordingMarks, TypeOK, ActiveRow
      <3> QED  BY <2>1, <3>1, <3>2 DEF PhaseOf, IsLive, NoRow, ActiveRow
    <2>2. CASE ~IsLive(c) /\ records[c] # NoRow
      <3>1. records[c] \in Record
        BY <1>1, <2>2 DEF TypeOK
      <3>2. records'[c].status = records[c].status
        BY <1>1, <2>2, <3>1 DEF VoicemailRecordingMarks, TypeOK, Record
      <3> QED  BY <2>2, <3>1, <3>2 DEF PhaseOf, NoRow, Record
    <2>3. CASE ~IsLive(c) /\ records[c] = NoRow
      BY <2>3, SamePhase DEF VoicemailRecordingMarks
    <2> QED  BY <2>1, <2>2, <2>3
  <1>3. \A d \in Calls \ {c} : PhaseOf(d)' = PhaseOf(d)
    BY <1>1, SamePhase DEF VoicemailRecordingMarks, TypeOK
  <1> QED  BY <1>1, <1>2, <1>3 DEF Abstract

(* Every step of the worker is a lifecycle step or a stutter.              *)
LEMMA LifecycleStep ==
  ASSUME IInv, [Next]_vars
  PROVE  Abstract
  <1> USE DEF tables, server, provider, history
  <1>1. ASSUME NEW c \in Calls, RingingStep(c) PROVE Abstract
    BY <1>1, AddIsRing, RowsUntouched
       DEF RingingStep, Resolve, CreateTokens, RingPhones, RecordRingLegs
  <1>2. ASSUME NEW c \in Calls, Arrival(c) PROVE Abstract
    <2>1. CASE VoicemailRecordingMarks(c) \/ QueueExitHangup(c)
      BY <2>1, MarkIsNoStep, EndIsOver DEF QueueExitHangup
    <2>2. ASSUME NEW v \in Volunteers, UserAnswerWins(c, v) PROVE Abstract
      BY <2>2, ClaimIsAnswer DEF UserAnswerWins, TokenAnswers
    <2>3. CASE UNCHANGED <<active, records, winner>>
      BY <2>3, RowsUntouched
    <2> QED
      BY <1>2, <2>1, <2>2, <2>3 DEF Arrival, Poll, CallRecordingCompleted, UserAnswerRefused,
         AppAnswerChecks, CallStatusCompleted, Hangup, SpamChecks
  <1>3. ASSUME NEW c \in Calls, Outside(c) PROVE Abstract
    BY <1>3, RowsUntouched DEF Outside, Admit, AppBridges, CallerHangsUp, QueueTimesOut,
       VoicemailEnds, GrowOlder, LegEnds
  <1>4. ASSUME NEW r \in reqs, ServerStep(r) PROVE Abstract
    <2>0. r.call \in Calls /\ TrueRequest(r) /\ r.stale \in SUBSET Snapshot
      BY DEF IInv, TypeOK, Request
    <2>1. CASE AppAnswerClaims(r)
      <3>1. r.vol \in Volunteers
        BY <2>0, <2>1 DEF TrueRequest, AppAnswerClaims
      <3> QED  BY <2>0, <2>1, <3>1, ClaimIsAnswer, RowsUntouched DEF AppAnswerClaims
    <2>2. CASE ReapCommits(r)
      BY <2>0, <2>2, ReapIsOver DEF ReapCommits, TrueRequest
    <2>3. CASE CallStatusEnds(r) \/ CallRecordingEnds(r) \/ VoicemailRecordingEnds(r) \/ HangupEnds(r)
      BY <2>0, <2>3, EndIsOver
         DEF CallStatusEnds, CallRecordingEnds, VoicemailRecordingEnds, HangupEnds
    <2>4. CASE ReportSpam(r)
      BY <2>4, SpamIsNoStep
    <2>5. CASE UserAnswerCancels(r) \/ UserAnswerBridges(r) \/ AppAnswerCancels(r)
      BY <2>5, RowsUntouched DEF UserAnswerCancels, UserAnswerBridges, AppAnswerCancels
    <2> QED  BY <1>4, <2>1, <2>2, <2>3, <2>4, <2>5 DEF ServerStep
  <1>5. CASE Crash \/ UNCHANGED vars
    BY <1>5, RowsUntouched DEF Crash, vars
  <1> QED  BY <1>1, <1>2, <1>3, <1>4, <1>5 DEF Next

(* The worker implements the promise of CallLifecycle: a call is rung      *)
(* once, answered by one volunteer at most, and over for good.             *)
THEOREM LifecycleImplemented == Spec => ImplementsLifecycle
  <1>1. Init => Lifecycle!LInit
    BY DEF Init, Lifecycle!LInit, PhaseOf, IsLive, NoRow
  <1>2. IInv /\ [Next]_vars => [Lifecycle!LNext]_(Lifecycle!lifecycleVars)
    BY LifecycleStep DEF Abstract, Lifecycle!lifecycleVars
  <1> QED
    BY <1>1, <1>2, InvHolds, PTL DEF Spec, ImplementsLifecycle, Lifecycle!LSpec
=============================================================================
