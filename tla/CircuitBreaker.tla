---------------------------- MODULE CircuitBreaker ----------------------------
(***************************************************************************)
(* One named circuit breaker shared by concurrent callers, each of whose   *)
(* requests is a withRetry loop around the external service.  A request    *)
(* suspends while an attempt is in flight and while it backs off; what the *)
(* breaker does on either side of that is atomic.  Time is counted in      *)
(* ticks, and every timestamp is kept as an age that saturates where the   *)
(* code can no longer tell it from an older one.                           *)
(***************************************************************************)
EXTENDS Naturals, Sequences, FiniteSets

CONSTANTS
  Callers,       \* requests that can be under way at once
  Threshold,     \* failureThreshold
  ResetTimeout,  \* resetTimeoutMs, in ticks
  Window,        \* failureWindowMs, in ticks
  MaxAttempts    \* withRetry's maxAttempts

ASSUME BreakerConstants ==
  /\ Threshold \in Nat \ {0}
  /\ ResetTimeout \in Nat \ {0}
  /\ Window \in Nat \ {0}
  /\ MaxAttempts \in Nat \ {0}

VARIABLES
  state,         \* `state`
  failures,      \* `failures`: the ages of the failures recorded
  sinceFailure,  \* age of `lastFailureTime`
  request,       \* per caller: where its withRetry loop is
  up,            \* whether the service answers
  sinceOpened    \* history: age of the last transition to open

vars == <<state, failures, sinceFailure, request, up, sinceOpened>>

----------------------------------------------------------------------------
States == {"closed", "open", "half_open"}

(* `probe`: admitted by a breaker that was, or by that became, half open.  *)
Request == [at : {"idle", "trying", "sleeping"}, attempt : 0..MaxAttempts, probe : BOOLEAN]
Idle == [at |-> "idle", attempt |-> 0, probe |-> FALSE]

TypeOK ==
  /\ state \in States
  /\ failures \in Seq(0..Window)
  /\ sinceFailure \in 0..ResetTimeout
  /\ request \in [Callers -> Request]
  /\ up \in BOOLEAN
  /\ sinceOpened \in 0..ResetTimeout

Init ==
  /\ state = "closed"
  /\ failures = << >>
  /\ sinceFailure = ResetTimeout       \* lastFailureTime = 0, long ago
  /\ request = [c \in Callers |-> Idle]
  /\ up = TRUE
  /\ sinceOpened = ResetTimeout

Older(age, limit) == IF age < limit THEN age + 1 ELSE limit

----------------------------------------------------------------------------
(* The breaker. *)

ProbeDue == sinceFailure >= ResetTimeout

(* The failures within the window, in their order.                         *)
Recent ==
  LET kept[n \in 0..Len(failures)] ==
        IF n = 0 THEN << >>
        ELSE IF failures[n] < Window THEN Append(kept[n - 1], failures[n])
        ELSE kept[n - 1]
  IN kept[Len(failures)]

Transition(to) ==
  /\ state' = to
  /\ sinceOpened' = IF to = "open" /\ state # "open" THEN 0 ELSE sinceOpened

(* Mutant: the probe's success closes the breaker with its failures.       *)
OnSuccessKeepsFailures ==
  /\ Transition(IF state = "half_open" THEN "closed" ELSE state)
  /\ UNCHANGED <<failures, sinceFailure>>

(* Mutant: the probe's success only clears the failures.                   *)
OnSuccessOnlyClears ==
  /\ Transition(state)
  /\ failures' = IF state = "half_open" THEN << >> ELSE failures
  /\ UNCHANGED sinceFailure

(* onSuccess                                                               *)
OnSuccess ==
  /\ Transition(IF state = "half_open" THEN "closed" ELSE state)
  /\ failures' = IF state = "half_open" THEN << >> ELSE failures
  /\ UNCHANGED sinceFailure

(* Mutant: lastFailureTime is set with the failures that are counted.      *)
OnFailureTimesCounted ==
  LET counted == IF state = "closed" THEN Append(Recent, 0) ELSE failures
  IN /\ sinceFailure' = IF state = "closed" THEN 0 ELSE sinceFailure
     /\ failures' = counted
     /\ Transition(IF state = "half_open" \/ Len(counted) >= Threshold THEN "open" ELSE state)

(* onFailure: only a closed breaker counts, every failure is timed.        *)
OnFailure ==
  LET counted == IF state = "closed" THEN Append(Recent, 0) ELSE failures
      opens == state = "half_open" \/ (state = "closed" /\ Len(counted) >= Threshold)
  IN /\ sinceFailure' = 0
     /\ failures' = counted
     /\ Transition(IF opens THEN "open" ELSE state)

----------------------------------------------------------------------------
(* Callers. *)

(* execute, up to the first attempt.  A rejection changes only metrics.    *)
Execute(c) ==
  /\ request[c].at = "idle"
  /\ state = "open" => ProbeDue
  /\ Transition(IF state = "open" THEN "half_open" ELSE state)
  /\ request' = [request EXCEPT ![c] =
                   [at |-> "trying", attempt |-> 1, probe |-> state # "closed"]]
  /\ UNCHANGED <<failures, sinceFailure, up>>

AttemptSucceeds(c) ==
  /\ request[c].at = "trying"
  /\ up
  /\ request' = [request EXCEPT ![c] = Idle]
  /\ OnSuccess
  /\ UNCHANGED up

(* withRetry backs off after a retryable error that is not the last ...    *)
AttemptIsRetried(c) ==
  /\ request[c].at = "trying"
  /\ ~up
  /\ request[c].attempt < MaxAttempts
  /\ request' = [request EXCEPT ![c].at = "sleeping"]
  /\ UNCHANGED <<state, failures, sinceFailure, up, sinceOpened>>

Retry(c) ==
  /\ request[c].at = "sleeping"
  /\ request' = [request EXCEPT ![c].at = "trying", ![c].attempt = @ + 1]
  /\ UNCHANGED <<state, failures, sinceFailure, up, sinceOpened>>

(* ... and lets any other error, whatever its attempt, through to execute. *)
AttemptFails(c) ==
  /\ request[c].at = "trying"
  /\ ~up
  /\ request' = [request EXCEPT ![c] = Idle]
  /\ OnFailure
  /\ UNCHANGED up

(* getState, by GET /api/metrics.                                          *)
GetState ==
  /\ state = "open" /\ ProbeDue
  /\ Transition("half_open")
  /\ UNCHANGED <<failures, sinceFailure, request, up>>

----------------------------------------------------------------------------
ServiceTurns ==
  /\ up' = ~up
  /\ UNCHANGED <<state, failures, sinceFailure, request, sinceOpened>>

Tick ==
  /\ sinceFailure' = Older(sinceFailure, ResetTimeout)
  /\ sinceOpened' = Older(sinceOpened, ResetTimeout)
  /\ failures' = [i \in 1..Len(failures) |-> Older(failures[i], Window)]
  /\ UNCHANGED <<state, request, up>>

CallerStep(c) ==
  Execute(c) \/ AttemptSucceeds(c) \/ AttemptIsRetried(c) \/ Retry(c) \/ AttemptFails(c)

Next == (\E c \in Callers : CallerStep(c)) \/ GetState \/ ServiceTurns \/ Tick

Spec == Init /\ [][Next]_vars

(* Time passes, attempts are answered, and the callers come again (the     *)
(* firehose agent on an interval, the others with the calls they serve).   *)
FairSpec ==
  /\ Spec
  /\ WF_vars(Tick)
  /\ \A c \in Callers : WF_vars(CallerStep(c))

----------------------------------------------------------------------------
(* Properties. *)

(* A closed breaker never holds a threshold's worth of failures: those     *)
(* that opened it last time, and those of requests that outlive the        *)
(* opening, are not counted again once a probe has closed it.              *)
ClosedBelowThreshold == state = "closed" => Len(failures) < Threshold

(* An open breaker stays open for the reset timeout, whether it opened on  *)
(* the threshold or on a failed probe, and however many requests admitted  *)
(* before it opened are still failing.                                     *)
NoEarlyProbe == [][state = "open" /\ state' # "open" => sinceOpened >= ResetTimeout]_vars

(* Once the service stays up the breaker closes and stays closed.          *)
Recovers == <>[]up => <>[](state = "closed")

(* What the header of circuit-breaker.ts says: a half-open breaker allows  *)
(* a single probe request through.                                         *)
SingleProbe ==
  state = "half_open" => Cardinality({c \in Callers : request[c].probe}) <= 1
=============================================================================
