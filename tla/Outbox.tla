-------------------------------- MODULE Outbox --------------------------------
(***************************************************************************)
(* Durable events between publishEvent and the relay: the outbox row, the  *)
(* promise chain that writes it, fans the event out and marks it, and the  *)
(* sweeps (at start, then every 30 s) that publish what is still pending.  *)
(* A restart loses everything but the rows.                                *)
(***************************************************************************)
EXTENDS Naturals, FiniteSets

CONSTANTS
  Events,
  Sweeps,       \* calls of drainOutbox that can overlap
  MaxAttempts,  \* MAX_ATTEMPTS
  MaxFaults     \* bound: statements or signatures that fail, and restarts

ASSUME OutboxConstants ==
  MaxAttempts \in Nat \ {0} /\ MaxFaults \in Nat

VARIABLES
  row,        \* event_outbox.status of each event; "none": no row yet, "gone": deleted
  attempts,   \* retry_count
  resting,    \* events whose next_retry_at is still to come
  publisher,  \* per event, where publishEvent's promise chain is
  sweep,      \* per sweep, the rows it has read and not begun, and the one it is at
  fate,       \* history, per event: offered to the hub's subscribers, or throttled only
  faults

table == <<row, attempts, resting>>
vars == <<table, publisher, sweep, fate, faults>>

----------------------------------------------------------------------------
NoSweep == [phase |-> "idle", todo |-> {}, at |-> {}]

TypeOK ==
  /\ row \in [Events -> {"none", "pending", "delivered", "failed", "gone"}]
  /\ attempts \in [Events -> 0..MaxAttempts]
  /\ resting \subseteq Events
  /\ publisher \in [Events -> {"idle", "enqueue", "stored", "mark", "done"}]
  /\ sweep \in [Sweeps -> [phase : {"idle", "next", "mark", "fail"}, todo : SUBSET Events,
                           at : {{}} \cup {{e} : e \in Events}]]
  /\ \A d \in Sweeps : /\ sweep[d].phase = "next" <=> sweep[d].at = {} /\ sweep[d].todo # {}
                       /\ sweep[d].phase \in {"mark", "fail"} <=> sweep[d].at # {}
  /\ fate \in [Events -> {"unpublished", "throttled", "offered"}]
  /\ faults \in 0..MaxFaults

Init ==
  /\ row = [e \in Events |-> "none"] /\ attempts = [e \in Events |-> 0] /\ resting = {}
  /\ publisher = [e \in Events |-> "idle"]
  /\ sweep = [d \in Sweeps |-> NoSweep]
  /\ fate = [e \in Events |-> "unpublished"]
  /\ faults = 0

(* publishToHub: nothing but a warning when the hub's limit for that kind  *)
(* is used up (the minute is not counted here, any call may meet it).      *)
PublishToHub(e) ==
  \/ fate' = [fate EXCEPT ![e] = IF @ = "offered" THEN "offered" ELSE "throttled"]
  \/ fate' = [fate EXCEPT ![e] = "offered"]

Fault == faults < MaxFaults /\ faults' = faults + 1

(* An UPDATE ... WHERE id finds no row once it is deleted.                 *)
SetStatus(e, v) == row' = IF row[e] = "gone" THEN row ELSE [row EXCEPT ![e] = v]

----------------------------------------------------------------------------
(* publishEvent. *)

Move(e, from, to) == publisher[e] = from /\ publisher' = [publisher EXCEPT ![e] = to]

PublishEvent(e) ==
  /\ Move(e, "idle", "enqueue")
  /\ UNCHANGED <<table, sweep, fate, faults>>

Enqueues(e) ==
  /\ Move(e, "enqueue", "stored")
  /\ row' = [row EXCEPT ![e] = "pending"]
  /\ UNCHANGED <<attempts, resting, sweep, fate, faults>>

(* The catch fans the event out, unless signing throws there (again).      *)
Catches(e) == PublishToHub(e) \/ UNCHANGED fate

(* Without its row the event is fanned out all the same.                   *)
EnqueueFails(e) ==
  /\ Fault
  /\ Move(e, "enqueue", "done")
  /\ Catches(e)
  /\ UNCHANGED <<table, sweep>>

(* Mutant: the row is marked, and then the event is fanned out.            *)
MarksFirst(e) ==
  /\ Move(e, "stored", "mark")
  /\ SetStatus(e, "delivered")
  /\ UNCHANGED <<attempts, resting, sweep, fate, faults>>

FansOut(e) ==
  /\ Move(e, "stored", "mark")
  /\ PublishToHub(e)
  /\ UNCHANGED <<table, sweep, faults>>

Marks(e) ==
  /\ Move(e, "mark", "done")
  /\ SetStatus(e, "delivered")
  /\ UNCHANGED <<attempts, resting, sweep, fate, faults>>

(* Signing throws, or the mark fails: the same catch takes it for a failed *)
(* enqueue and fans the event out again; its row stays pending.            *)
MarkFails(e) ==
  /\ Fault
  /\ Move(e, "stored", "done") \/ Move(e, "mark", "done")
  /\ Catches(e)
  /\ UNCHANGED <<table, sweep>>

----------------------------------------------------------------------------
(* drainOutbox. *)

(* Mutant: a new row has no next_retry_at, and no sweep reads it.           *)
DueAgain == {e \in Events : row[e] = "pending" /\ e \notin resting /\ attempts[e] > 0}

Due == {e \in Events : row[e] = "pending" /\ e \notin resting}
SetSweep(d, s) == sweep' = [sweep EXCEPT ![d] = s]

(* Mutant: the loop goes on when nothing is left.                           *)
ProceedsBlindly(d) == SetSweep(d, [phase |-> "next", todo |-> sweep[d].todo, at |-> {}])

Proceeds(d) ==
  SetSweep(d, IF sweep[d].todo = {} THEN NoSweep ELSE [phase |-> "next", todo |-> sweep[d].todo, at |-> {}])

(* FOR UPDATE SKIP LOCKED skips what another SELECT is reading at that     *)
(* moment; the statement is its own transaction and locks nothing after it.*)
DrainReads(d) ==
  /\ sweep[d].phase = "idle" /\ Due # {}
  /\ SetSweep(d, [phase |-> "next", todo |-> Due, at |-> {}])
  /\ UNCHANGED <<table, publisher, fate, faults>>

DrainFansOut(d) ==
  /\ sweep[d].phase = "next"
  /\ \E e \in sweep[d].todo :
       /\ PublishToHub(e)
       /\ SetSweep(d, [phase |-> "mark", todo |-> sweep[d].todo \ {e}, at |-> {e}])
  /\ UNCHANGED <<table, publisher, faults>>

DrainMarks(d) ==
  /\ sweep[d].phase = "mark"
  /\ \E e \in sweep[d].at : SetStatus(e, "delivered")
  /\ Proceeds(d)
  /\ UNCHANGED <<attempts, resting, publisher, fate, faults>>

(* Signing the event, or marking its row, throws.                          *)
DrainStumbles(d) ==
  /\ Fault
  /\ \/ /\ sweep[d].phase = "next"
        /\ \E e \in sweep[d].todo :
             SetSweep(d, [phase |-> "fail", todo |-> sweep[d].todo \ {e}, at |-> {e}])
     \/ /\ sweep[d].phase = "mark"
        /\ SetSweep(d, [sweep[d] EXCEPT !.phase = "fail"])
  /\ UNCHANGED <<table, publisher, fate>>

(* Mutant: a row of few attempts fails for good.                           *)
MarkFailedEarly(e) ==
  /\ row' = [row EXCEPT ![e] = "failed"]
  /\ attempts' = [attempts EXCEPT ![e] = IF @ < MaxAttempts THEN @ + 1 ELSE @]
  /\ resting' = resting \cup {e}

(* markFailed: another attempt after a while, or none.  The counter is not *)
(* counted past the maximum.                                               *)
MarkFailed(e) ==
  /\ row' = [row EXCEPT ![e] = IF attempts[e] + 1 >= MaxAttempts THEN "failed" ELSE "pending"]
  /\ attempts' = [attempts EXCEPT ![e] = IF @ < MaxAttempts THEN @ + 1 ELSE @]
  /\ resting' = resting \cup {e}

DrainMarksFailed(d) ==
  /\ sweep[d].phase = "fail"
  /\ \E e \in sweep[d].at : IF row[e] = "gone" THEN UNCHANGED table ELSE MarkFailed(e)
  /\ Proceeds(d)
  /\ UNCHANGED <<publisher, fate, faults>>

(* markFailed throws too: that ends the sweep, with the rows it had left.  *)
DrainDies(d) ==
  /\ Fault
  /\ sweep[d].phase = "fail"
  /\ SetSweep(d, NoSweep)
  /\ UNCHANGED <<table, publisher, fate>>

RetryComesDue(e) ==
  /\ e \in resting
  /\ resting' = resting \ {e}
  /\ UNCHANGED <<row, attempts, publisher, sweep, fate, faults>>

Cleanup(e) ==
  /\ row[e] \in {"delivered", "failed"}
  /\ row' = [row EXCEPT ![e] = "gone"]
  /\ UNCHANGED <<attempts, resting, publisher, sweep, fate, faults>>

(* An INSERT under way may have been committed; a publication that had not *)
(* begun is lost with its caller.                                          *)
Restart ==
  /\ Fault
  /\ \E done \in SUBSET {e \in Events : publisher[e] = "enqueue"} :
       row' = [e \in Events |-> IF e \in done THEN "pending" ELSE row[e]]
  /\ publisher' = [e \in Events |-> IF publisher[e] = "idle" THEN "idle" ELSE "done"]
  /\ sweep' = [d \in Sweeps |-> NoSweep]
  /\ UNCHANGED <<attempts, resting, fate>>

ChainStep(e) == Enqueues(e) \/ FansOut(e) \/ Marks(e)
SweepStep(d) == DrainFansOut(d) \/ DrainMarks(d) \/ DrainMarksFailed(d)

Next ==
  \/ \E e \in Events : PublishEvent(e) \/ ChainStep(e) \/ EnqueueFails(e) \/ MarkFails(e)
  \/ \E e \in Events : RetryComesDue(e) \/ Cleanup(e)
  \/ \E d \in Sweeps : DrainReads(d) \/ SweepStep(d) \/ DrainStumbles(d) \/ DrainDies(d)
  \/ Restart

Spec == Init /\ [][Next]_vars

(* Promises settle, the timer fires again and again, time passes.          *)
LiveSpec ==
  /\ Spec
  /\ \A e \in Events : WF_vars(ChainStep(e)) /\ WF_vars(RetryComesDue(e))
  /\ \A d \in Sweeps : WF_vars(DrainReads(d)) /\ WF_vars(SweepStep(d))

----------------------------------------------------------------------------
(* Properties. *)

(* A row that says delivered belongs to an event that was handed to the    *)
(* relay: a restart between the writes, two sweeps of one row or a late    *)
(* mark never settle an event that nobody published.                       *)
DeliveredWasPublished ==
  \A e \in Events : row[e] = "delivered" => fate[e] # "unpublished"

(* A row fails for good only after the attempts it was promised, however   *)
(* the publisher and two sweeps interleave their marks.                    *)
FailedUsedItsAttempts ==
  \A e \in Events : row[e] = "failed" => attempts[e] = MaxAttempts

(* An event whose row was written is published in the end, through         *)
(* restarts and failures, unless its attempts are used up.                 *)
StoredIsPublished ==
  \A e \in Events :
    (row[e] = "pending") ~> (fate[e] # "unpublished" \/ attempts[e] = MaxAttempts)

(* What markDelivered's comment says of the row it writes.                 *)
DeliveredWasOffered ==
  \A e \in Events : row[e] = "delivered" => fate[e] = "offered"
=============================================================================
