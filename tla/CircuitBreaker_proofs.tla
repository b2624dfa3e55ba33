------------------------- MODULE CircuitBreaker_proofs -------------------------
(***************************************************************************)
(* What is proved of CircuitBreaker for any number of callers and any      *)
(* settings.  That an open breaker is not probed early rests on the ages   *)
(* of lastFailureTime and of the last opening alone; that a closed one is  *)
(* below its threshold, on what the window leaves of the failures being a  *)
(* sequence of them, however the code filters it.                          *)
(***************************************************************************)
EXTENDS CircuitBreaker, FiniteSetTheorems, WellFoundedInduction, TLAPS

(* The two ages are ages.                                                  *)
AgesOK ==
  /\ state \in States
  /\ sinceFailure \in 0..ResetTimeout
  /\ sinceOpened \in 0..ResetTimeout

(* An open breaker opened on a failure, and only later failures have been  *)
(* timed since.                                                            *)
OpenedByFailure == state = "open" => sinceFailure <= sinceOpened

IInv == AgesOK /\ OpenedByFailure

----------------------------------------------------------------------------
(* A tick keeps ages within their limit and in their order.                *)
LEMMA OlderIsAnAge ==
  ASSUME NEW limit \in Nat, NEW age \in 0..limit
  PROVE  Older(age, limit) \in 0..limit
BY SMT DEF Older

(* A tick keeps two ages in their order.                                   *)
LEMMA OlderKeepsOrder ==
  ASSUME NEW limit \in Nat, NEW a \in 0..limit, NEW b \in 0..limit, a <= b
  PROVE  Older(a, limit) <= Older(b, limit)
BY SMT DEF Older

(* The breaker starts closed.                                              *)
LEMMA InitIInv == Init => IInv
BY BreakerConstants DEF Init, IInv, AgesOK, OpenedByFailure, States

(* What a success does keeps the invariant: it never opens the breaker.    *)
LEMMA SuccessKeeps ==
  ASSUME IInv, OnSuccess
  PROVE  IInv'
BY BreakerConstants, SMT
   DEF IInv, AgesOK, OpenedByFailure, OnSuccess, Transition, States

(* What a failure does keeps it: the failure is timed before it opens.     *)
LEMMA FailureKeeps ==
  ASSUME IInv, OnFailure
  PROVE  IInv'
<1>1. sinceFailure' = 0
  BY DEF OnFailure
<1>2. /\ state' \in {state, "open"}
      /\ sinceOpened' \in {0, sinceOpened}
  BY DEF OnFailure, Transition
<1> QED
  BY <1>1, <1>2, BreakerConstants, SMT DEF IInv, AgesOK, OpenedByFailure, States

(* Every step of the breaker or of a caller keeps the invariant.           *)
LEMMA NextIInv == IInv /\ [Next]_vars => IInv'
<1> SUFFICES ASSUME IInv, [Next]_vars PROVE IInv'
  OBVIOUS
<1>1. ASSUME NEW c \in Callers, Execute(c) PROVE IInv'
  <2>1. Transition(IF state = "open" THEN "half_open" ELSE state) /\ UNCHANGED sinceFailure
    BY <1>1 DEF Execute
  <2>2. state' # "open" /\ state' \in States /\ sinceOpened' = sinceOpened
    BY <2>1 DEF Transition, IInv, AgesOK, States
  <2> QED
    BY <2>1, <2>2 DEF IInv, AgesOK, OpenedByFailure
<1>2. ASSUME NEW c \in Callers, AttemptSucceeds(c) PROVE IInv'
  BY <1>2, SuccessKeeps DEF AttemptSucceeds
<1>3. ASSUME NEW c \in Callers, AttemptFails(c) PROVE IInv'
  BY <1>3, FailureKeeps DEF AttemptFails
<1>4. ASSUME NEW c \in Callers, AttemptIsRetried(c) \/ Retry(c) PROVE IInv'
  BY <1>4 DEF AttemptIsRetried, Retry, IInv, AgesOK, OpenedByFailure
<1>5. CASE GetState
  BY <1>5, SMT DEF GetState, Transition, IInv, AgesOK, OpenedByFailure, States
<1>6. CASE ServiceTurns
  BY <1>6 DEF ServiceTurns, IInv, AgesOK, OpenedByFailure
<1>7. CASE Tick
  <2>1. /\ state' = state
        /\ sinceFailure' = Older(sinceFailure, ResetTimeout)
        /\ sinceOpened' = Older(sinceOpened, ResetTimeout)
    BY <1>7 DEF Tick
  <2>2. ResetTimeout \in Nat
    BY BreakerConstants
  <2>3. AgesOK'
    BY <2>1, <2>2, OlderIsAnAge DEF IInv, AgesOK
  <2>4. OpenedByFailure'
    BY <2>1, <2>2, OlderKeepsOrder DEF IInv, AgesOK, OpenedByFailure
  <2> QED
    BY <2>3, <2>4 DEF IInv
<1>8. CASE UNCHANGED vars
  BY <1>8 DEF vars, IInv, AgesOK, OpenedByFailure
<1> QED
  BY <1>1, <1>2, <1>3, <1>4, <1>5, <1>6, <1>7, <1>8 DEF Next, CallerStep

(* The invariant holds in every reachable state: an open breaker's last    *)
(* failure is no older than its opening.                                   *)
THEOREM OpenedByFailureHolds == Spec => []IInv
<1> QED
  BY InitIInv, NextIInv, PTL DEF Spec

----------------------------------------------------------------------------
(* Only a due probe ends the open state, by execute or by getState.        *)
LEMMA OnlyDueProbesLeaveOpen ==
  ASSUME IInv, [Next]_vars, state = "open", state' # "open"
  PROVE  ProbeDue
<1>1. ASSUME NEW c \in Callers, Execute(c) PROVE ProbeDue
  BY <1>1 DEF Execute
<1>2. ASSUME NEW c \in Callers, AttemptSucceeds(c) PROVE FALSE
  BY <1>2 DEF AttemptSucceeds, OnSuccess, Transition
<1>3. ASSUME NEW c \in Callers, AttemptFails(c) PROVE FALSE
  BY <1>3 DEF AttemptFails, OnFailure, Transition
<1>4. ASSUME NEW c \in Callers, AttemptIsRetried(c) \/ Retry(c) PROVE FALSE
  BY <1>4 DEF AttemptIsRetried, Retry
<1>5. CASE GetState
  BY <1>5 DEF GetState
<1>6. CASE ServiceTurns \/ Tick \/ UNCHANGED vars
  BY <1>6 DEF ServiceTurns, Tick, vars
<1> QED
  BY <1>1, <1>2, <1>3, <1>4, <1>5, <1>6 DEF Next, CallerStep

(* An open breaker stays open for the reset timeout after it opened,       *)
(* however late the failures of requests it had let in come.               *)
THEOREM NoEarlyProbeHolds == Spec => NoEarlyProbe
<1>1. ASSUME IInv, [Next]_vars
      PROVE  state = "open" /\ state' # "open" => sinceOpened >= ResetTimeout
  <2> SUFFICES ASSUME state = "open", state' # "open" PROVE sinceOpened >= ResetTimeout
    OBVIOUS
  <2>1. sinceFailure >= ResetTimeout
    BY <1>1, OnlyDueProbesLeaveOpen DEF ProbeDue
  <2> QED
    BY <1>1, <2>1, BreakerConstants, SMT DEF IInv, AgesOK, OpenedByFailure
<1>2. IInv /\ [Next]_vars =>
        [state = "open" /\ state' # "open" => sinceOpened >= ResetTimeout]_vars
  BY <1>1
<1> QED
  BY <1>2, OpenedByFailureHolds, PTL DEF Spec, NoEarlyProbe

----------------------------------------------------------------------------
(* What the window leaves of the failures. *)

(* A set of numbers that is not empty has a least one: of the intervals    *)
(* 1..n that it spans, none is below all the others but a minimal one.     *)
LEMMA LeastNumber ==
  ASSUME NEW T \in SUBSET Nat, T # {}
  PROVE  \E m \in T : \A n \in T : m <= n
<1> DEFINE Spans == {1..n : n \in T}
<1>1. Spans \subseteq FiniteSubsetsOf(Nat) /\ Spans # {}
  <2>1. \A n \in Nat : 1..n \in SUBSET Nat /\ IsFiniteSet(1..n)
    BY FS_Interval
  <2> QED
    BY <2>1 DEF FiniteSubsetsOf
<1>2. IsWellFoundedOn(StrictSubsetOrdering(Nat), FiniteSubsetsOf(Nat))
  BY FS_StrictSubsetOrderingWellFounded
<1>3. PICK u \in Spans : \A v \in Spans : ~ (<<v, u>> \in StrictSubsetOrdering(Nat))
  BY <1>1, <1>2, WFMin
<1>4. PICK m \in T : u = 1..m
  OBVIOUS
<1>5. ASSUME NEW n \in T, n < m PROVE FALSE
  <2>1. 1..n \subseteq 1..m /\ m \in 1..m /\ m \notin 1..n
    BY <1>5, SMT
  <2>2. <<1..n, 1..m>> \in StrictSubsetOrdering(Nat)
    BY <2>1 DEF StrictSubsetOrdering
  <2> QED
    BY <2>2, <1>3, <1>4
<1> QED
  BY <1>5, SMT

(* One step of the filter over the failures s, after n of them.            *)
Step(s, kept, n) ==
  IF n = 0 THEN << >>
  ELSE IF s[n] < Window THEN Append(kept[n - 1], s[n])
  ELSE kept[n - 1]

(* The filter is defined on every sequence of failures: were m the first   *)
(* length it is not defined on, the one on m - 1 would extend to m.        *)
LEMMA FilterExists ==
  ASSUME NEW s \in Seq(0..Window)
  PROVE  \E kept : kept = [n \in 0..Len(s) |-> Step(s, kept, n)]
<1> DEFINE Made(m) == \E kept : kept = [n \in 0..m |-> Step(s, kept, n)]
           Unmade == {m \in 0..Len(s) : ~Made(m)}
<1>1. Len(s) \in Nat
  OBVIOUS
<1>2. ASSUME Unmade # {} PROVE FALSE
  <2>0. Unmade \in SUBSET Nat
    BY <1>1
  <2>1. PICK m \in Unmade : \A n \in Unmade : m <= n
    BY <1>2, <2>0, LeastNumber
  <2>2. m \in 0..Len(s) /\ ~Made(m)
    OBVIOUS
  <2>3. CASE m = 0
    <3> DEFINE f == [n \in 0..0 |-> << >>]
    <3>1. f = [n \in 0..0 |-> Step(s, f, n)]
      BY DEF Step
    <3> QED
      BY <3>1, <2>2, <2>3
  <2>4. CASE m # 0
    <3>1. m - 1 \in 0..Len(s) /\ ~(m <= m - 1) /\ m \in Nat
      BY <2>2, <2>4, <1>1, SMT
    <3>2. PICK g : g = [n \in 0..(m - 1) |-> Step(s, g, n)]
      BY <3>1, <2>1
    <3> DEFINE f == [n \in 0..m |-> IF n = m THEN Step(s, g, n) ELSE g[n]]
    <3>3. ASSUME NEW n \in 0..m PROVE f[n] = Step(s, f, n)
      <4>1. n # m => n \in 0..(m - 1)
        BY <3>1, SMT
      <4>2. f[n] = Step(s, g, n)
        BY <4>1, <3>2
      <4>3. n # 0 => /\ n - 1 \in 0..m
                     /\ n - 1 # m
        BY <3>1, SMT
      <4> QED
        BY <4>2, <4>3 DEF Step
    <3>4. f = [n \in 0..m |-> Step(s, f, n)]
      BY <3>3
    <3> QED
      BY <3>4, <2>2
  <2> QED
    BY <2>3, <2>4
<1> QED
  BY <1>1, <1>2, SMT

(* A failure recorded is an age, as every item of a sequence is of its set.*)
LEMMA FailureIsAnAge ==
  ASSUME NEW Ages, NEW s \in Seq(Ages), NEW i \in 1..Len(s)
  PROVE  s[i] \in Ages
OBVIOUS

(* Whatever the window leaves is a sequence of ages within it.             *)
LEMMA RecentIsRecent ==
  ASSUME failures \in Seq(0..Window)
  PROVE  Recent \in Seq(0..Window)
<1> DEFINE kept == CHOOSE k : k = [n \in 0..Len(failures) |-> Step(failures, k, n)]
           Wrong == {n \in 0..Len(failures) : kept[n] \notin Seq(0..Window)}
<1>1. Recent = kept[Len(failures)]
  BY DEF Recent, Step
<1>2. kept = [n \in 0..Len(failures) |-> Step(failures, kept, n)]
  BY FilterExists
<1>3. Len(failures) \in Nat
  OBVIOUS
<1> HIDE DEF kept
<1>4. \A n \in 0..Len(failures) : kept[n] = Step(failures, kept, n)
  BY <1>2
<1>5. ASSUME Wrong # {} PROVE FALSE
  <2>0. Wrong \in SUBSET Nat
    BY <1>3
  <2>1. PICK m \in Wrong : \A n \in Wrong : m <= n
    BY <1>5, <2>0, LeastNumber
  <2>2. m \in 0..Len(failures) /\ kept[m] \notin Seq(0..Window)
    OBVIOUS
  <2>3. m # 0
    <3>1. Step(failures, kept, 0) = << >> /\ << >> \in Seq(0..Window)
      BY DEF Step
    <3> QED
      BY <3>1, <2>2, <1>4
  <2>4. m - 1 \in 0..Len(failures) /\ ~(m <= m - 1) /\ m \in 1..Len(failures)
    BY <2>2, <2>3, <1>3, SMT
  <2>5. kept[m - 1] \in Seq(0..Window)
    BY <2>1, <2>4
  <2>6. failures[m] \in 0..Window
    BY <2>4, FailureIsAnAge
  <2>7. \A q \in Seq(0..Window), x \in 0..Window : Append(q, x) \in Seq(0..Window)
    OBVIOUS
  <2>8. Step(failures, kept, m) \in Seq(0..Window)
    BY <2>3, <2>5, <2>6, <2>7, Zenon DEF Step
  <2> QED
    BY <2>2, <2>8, <1>4
<1> QED
  BY <1>1, <1>3, <1>5, SMT
----------------------------------------------------------------------------
(* The failures of the breaker. *)

(* A loop backs off only while it has an attempt left.                     *)
RetriesLeft ==
  \A c \in Callers : request[c].at = "sleeping" => request[c].attempt < MaxAttempts

(* A closed breaker below its threshold stays below it: a failure is       *)
(* counted with those the window leaves and opens it at the threshold, and *)
(* only a probe's success closes it again, with no failures left.          *)
Counts == TypeOK /\ ClosedBelowThreshold /\ RetriesLeft

(* No probe is due and no failure is recorded at the start.                *)
LEMMA InitCounts == Init => Counts
<1> SUFFICES ASSUME Init PROVE Counts
  OBVIOUS
<1>1. failures = << >> /\ << >> \in Seq(0..Window) /\ Len(<< >>) = 0
  BY DEF Init
<1>2. Idle \in Request
  BY BreakerConstants, SMT DEF Idle, Request
<1> QED
  BY <1>1, <1>2, BreakerConstants
     DEF Init, Counts, TypeOK, ClosedBelowThreshold, RetriesLeft, States, Idle

(* What a success leaves: a closed breaker has cleared its failures or was *)
(* closed already.                                                         *)
LEMMA SuccessCounts ==
  ASSUME Counts, OnSuccess, request' \in [Callers -> Request], RetriesLeft', up' = up
  PROVE  Counts'
<1>1. failures' \in Seq(0..Window)
  <2>1. failures \in Seq(0..Window) /\ << >> \in Seq(0..Window)
    BY DEF Counts, TypeOK
  <2> QED
    BY <2>1 DEF OnSuccess
<1>2. Len(<< >>) = 0 /\ Threshold \in Nat /\ 0 < Threshold
  BY BreakerConstants, SMT
<1>3. ClosedBelowThreshold'
  BY <1>2 DEF Counts, ClosedBelowThreshold, OnSuccess, Transition
<1>4. /\ state' \in States
      /\ sinceOpened' = sinceOpened
      /\ sinceFailure' = sinceFailure
  BY DEF Counts, TypeOK, OnSuccess, Transition, States
<1> QED
  BY <1>1, <1>3, <1>4 DEF Counts, TypeOK

(* What a failure leaves: at the threshold it opens the breaker.           *)
LEMMA FailureCounts ==
  ASSUME Counts, OnFailure, request' \in [Callers -> Request], RetriesLeft', up' = up
  PROVE  Counts'
<1>1. failures \in Seq(0..Window) /\ 0 \in 0..Window
  BY BreakerConstants, SMT DEF Counts, TypeOK
<1>2. Append(Recent, 0) \in Seq(0..Window)
  BY <1>1, RecentIsRecent
<1>3. failures' \in Seq(0..Window)
  BY <1>1, <1>2 DEF OnFailure
<1>4. Len(failures') \in Nat /\ Threshold \in Nat
  BY <1>3, BreakerConstants
<1>5. state' = "closed" => state = "closed" /\ ~(Len(failures') >= Threshold)
  BY DEF OnFailure, Transition
<1>6. ClosedBelowThreshold'
  BY <1>4, <1>5, SMT DEF ClosedBelowThreshold
<1>7. /\ state' \in States
      /\ sinceOpened' \in 0..ResetTimeout
      /\ sinceFailure' \in 0..ResetTimeout
  BY BreakerConstants, SMT DEF Counts, TypeOK, OnFailure, Transition, States
<1> QED
  BY <1>3, <1>6, <1>7 DEF Counts, TypeOK

(* Time ages the failures and loses none.                                  *)
LEMMA TickCounts ==
  ASSUME Counts, Tick
  PROVE  Counts'
<1>1. /\ failures \in Seq(0..Window)
      /\ Len(failures) \in Nat
      /\ Window \in Nat
      /\ ResetTimeout \in Nat
  BY BreakerConstants DEF Counts, TypeOK
<1>2. ASSUME NEW i \in 1..Len(failures) PROVE Older(failures[i], Window) \in 0..Window
  <2>1. failures[i] \in 0..Window
    BY <1>1, FailureIsAnAge
  <2> QED
    BY <1>1, <2>1, OlderIsAnAge
<1>3. failures' \in Seq(0..Window) /\ Len(failures') = Len(failures)
  BY <1>1, <1>2 DEF Tick
<1>4. sinceFailure' \in 0..ResetTimeout /\ sinceOpened' \in 0..ResetTimeout
  BY <1>1, OlderIsAnAge DEF Counts, TypeOK, Tick
<1> QED
  BY <1>3, <1>4 DEF Counts, TypeOK, ClosedBelowThreshold, RetriesLeft, Tick

(* A request's move keeps every request typed and its retries left.        *)
LEMMA RequestMoves ==
  ASSUME Counts, NEW c \in Callers, NEW r \in Request,
         r.at = "sleeping" => r.attempt < MaxAttempts,
         request' = [request EXCEPT ![c] = r]
  PROVE  request' \in [Callers -> Request] /\ RetriesLeft'
BY DEF Counts, TypeOK, RetriesLeft

(* Every step keeps the count of a closed breaker below the threshold.     *)
LEMMA NextCounts == Counts /\ [Next]_vars => Counts'
<1> SUFFICES ASSUME Counts, [Next]_vars PROVE Counts'
  OBVIOUS
<1>0. Idle \in Request /\ Idle.at # "sleeping"
  BY BreakerConstants, SMT DEF Idle, Request
<1>1. ASSUME NEW c \in Callers, Execute(c) PROVE Counts'
  <2> DEFINE r == [at |-> "trying", attempt |-> 1, probe |-> state # "closed"]
  <2>1. r \in Request /\ r.at # "sleeping"
    <3>1. 1 \in 0..MaxAttempts /\ (state # "closed") \in BOOLEAN
      BY BreakerConstants, SMT
    <3> QED
      BY <3>1, Zenon DEF Request
  <2>2. request' \in [Callers -> Request] /\ RetriesLeft'
    <3>1. request' = [request EXCEPT ![c] = r]
      BY <1>1 DEF Execute
    <3> QED
      BY <2>1, <3>1, RequestMoves
  <2>3. Transition(IF state = "open" THEN "half_open" ELSE state)
    BY <1>1 DEF Execute
  <2>4. /\ state' \in States
        /\ sinceOpened' = sinceOpened
        /\ state' = "closed" => state = "closed"
    BY <2>3 DEF Transition, Counts, TypeOK, States
  <2>5. UNCHANGED <<failures, sinceFailure, up>>
    BY <1>1 DEF Execute
  <2> QED
    BY <2>2, <2>4, <2>5 DEF Counts, TypeOK, ClosedBelowThreshold
<1>2. ASSUME NEW c \in Callers, AttemptSucceeds(c) PROVE Counts'
  <2>1. request' = [request EXCEPT ![c] = Idle] /\ up' = up /\ OnSuccess
    BY <1>2 DEF AttemptSucceeds
  <2>2. request' \in [Callers -> Request] /\ RetriesLeft'
    BY <1>0, <2>1, RequestMoves
  <2> QED
    BY <2>1, <2>2, SuccessCounts
<1>3. ASSUME NEW c \in Callers, AttemptFails(c) PROVE Counts'
  <2>1. request' = [request EXCEPT ![c] = Idle] /\ up' = up /\ OnFailure
    BY <1>3 DEF AttemptFails
  <2>2. request' \in [Callers -> Request] /\ RetriesLeft'
    BY <1>0, <2>1, RequestMoves
  <2> QED
    BY <2>1, <2>2, FailureCounts
<1>4. ASSUME NEW c \in Callers, AttemptIsRetried(c) PROVE Counts'
  <2> DEFINE r == [request[c] EXCEPT !.at = "sleeping"]
  <2>1. request \in [Callers -> Request] /\ request[c] \in Request
    BY DEF Counts, TypeOK
  <2>2. r \in Request
    BY <2>1, Zenon DEF Request
  <2>3. r.attempt < MaxAttempts /\ request' = [request EXCEPT ![c] = r]
    BY <1>4, <2>1 DEF AttemptIsRetried, Request
  <2>4. request' \in [Callers -> Request] /\ RetriesLeft'
    BY <2>2, <2>3, RequestMoves
  <2> QED
    BY <1>4, <2>4 DEF AttemptIsRetried, Counts, TypeOK, ClosedBelowThreshold
<1>5. ASSUME NEW c \in Callers, Retry(c) PROVE Counts'
  <2> DEFINE n == request[c].attempt + 1
             r == [request[c] EXCEPT !.at = "trying", !.attempt = n]
  <2>1. request \in [Callers -> Request] /\ request[c] \in Request
    BY DEF Counts, TypeOK
  <2>2. n \in 0..MaxAttempts
    <3>1. request[c].attempt \in 0..MaxAttempts /\ request[c].attempt < MaxAttempts
      BY <1>5, <2>1 DEF Retry, Counts, RetriesLeft, Request
    <3> QED
      BY <3>1, BreakerConstants, SMT
  <2>3. request' = [request EXCEPT ![c] = r]
    BY <1>5, <2>1 DEF Retry
  <2> HIDE DEF n
  <2>4. r \in Request /\ r.at # "sleeping"
    BY <2>1, <2>2, Zenon DEF Request
  <2>5. request' \in [Callers -> Request] /\ RetriesLeft'
    BY <2>3, <2>4, RequestMoves
  <2> QED
    BY <1>5, <2>5 DEF Retry, Counts, TypeOK, ClosedBelowThreshold
<1>6. CASE GetState
  BY <1>6 DEF GetState, Transition, Counts, TypeOK, ClosedBelowThreshold, RetriesLeft, States
<1>7. CASE ServiceTurns
  BY <1>7 DEF ServiceTurns, Counts, TypeOK, ClosedBelowThreshold, RetriesLeft
<1>8. CASE Tick
  BY <1>8, TickCounts
<1>9. CASE UNCHANGED vars
  BY <1>9 DEF vars, Counts, TypeOK, ClosedBelowThreshold, RetriesLeft
<1> QED
  BY <1>1, <1>2, <1>3, <1>4, <1>5, <1>6, <1>7, <1>8, <1>9 DEF Next, CallerStep

(* The breaker's state is well typed: no loop makes more attempts than its *)
(* maximum, and no age passes its limit.                                   *)
THEOREM TypeCorrect == Spec => []TypeOK
<1> QED
  BY InitCounts, NextCounts, PTL DEF Spec, Counts

(* A closed breaker never holds a threshold's worth of failures.           *)
THEOREM ClosedBelowThresholdHolds == Spec => []ClosedBelowThreshold
<1> QED
  BY InitCounts, NextCounts, PTL DEF Spec, Counts
=============================================================================
