---------------------------- MODULE Outbox_proofs ----------------------------
(***************************************************************************)
(* What Outbox guarantees for any events, any number of overlapping sweeps,*)
(* attempts, failures and restarts.                                        *)
(***************************************************************************)
EXTENDS Outbox, TLAPS

Published(e) == fate[e] # "unpublished"

(* Whoever is about to mark a row has published its event.                 *)
PublisherTrue(e) == publisher[e] = "mark" => Published(e)
SweepTrue(d) == sweep[d].phase = "mark" => \A e \in sweep[d].at : Published(e)

(* The inductive invariant.                                                *)
IInv ==
  /\ TypeOK
  /\ DeliveredWasPublished
  /\ FailedUsedItsAttempts
  /\ \A e \in Events : PublisherTrue(e)
  /\ \A d \in Sweeps : SweepTrue(d)

----------------------------------------------------------------------------
(* The parts of TypeOK that the steps disturb. *)

Fates == {"unpublished", "throttled", "offered"}
Rows == {"none", "pending", "delivered", "failed", "gone"}
SweepStates == [phase : {"idle", "next", "mark", "fail"}, todo : SUBSET Events,
                at : {{}} \cup {{e} : e \in Events}]

SweepOK(s) == /\ s \in SweepStates
              /\ s.phase = "next" <=> s.at = {} /\ s.todo # {}
              /\ s.phase \in {"mark", "fail"} <=> s.at # {}

(* An event that is published stays published.                             *)
LEMMA PublishToHubPublishes ==
  ASSUME TypeOK, NEW e \in Events, PublishToHub(e)
  PROVE  /\ fate' \in [Events -> Fates]
         /\ Published(e)'
         /\ \A f \in Events : Published(f) => Published(f)'
  BY DEF TypeOK, PublishToHub, Published, Fates

(* A row takes the status it is given, or is gone.                         *)
LEMMA SetStatusSets ==
  ASSUME TypeOK, NEW e \in Events, NEW v \in Rows, SetStatus(e, v)
  PROVE  /\ row' \in [Events -> Rows]
         /\ row'[e] \in {v, "gone"}
         /\ \A f \in Events \ {e} : row'[f] = row[f]
  BY DEF TypeOK, SetStatus, Rows

(* One sweep moves, to a state a sweep can be in.                          *)
LEMMA SetSweepSets ==
  ASSUME TypeOK, NEW d \in Sweeps, NEW s, SweepOK(s), SetSweep(d, s)
  PROVE  /\ sweep' \in [Sweeps -> SweepStates]
         /\ \A c \in Sweeps : SweepOK(sweep'[c])
         /\ sweep'[d] = s
         /\ \A c \in Sweeps \ {d} : sweep'[c] = sweep[c]
  BY DEF TypeOK, SetSweep, SweepOK, SweepStates

(* A sweep that goes on has something left to do.                          *)
LEMMA ProceedsSets ==
  ASSUME TypeOK, NEW d \in Sweeps, Proceeds(d)
  PROVE  /\ sweep' \in [Sweeps -> SweepStates]
         /\ \A c \in Sweeps : SweepOK(sweep'[c])
         /\ sweep'[d].phase # "mark"
         /\ \A c \in Sweeps \ {d} : sweep'[c] = sweep[c]
  <1>1. CASE sweep[d].todo = {}
    <2>1. SweepOK(NoSweep) /\ NoSweep.phase # "mark"
      BY DEF SweepOK, SweepStates, NoSweep
    <2>2. SetSweep(d, NoSweep)
      BY <1>1 DEF Proceeds
    <2> QED  BY <2>1, <2>2, SetSweepSets
  <1>2. CASE sweep[d].todo # {}
    <2> DEFINE s == [phase |-> "next", todo |-> sweep[d].todo, at |-> {}]
    <2>1. SweepOK(s) /\ s.phase # "mark"
      BY <1>2 DEF TypeOK, SweepOK, SweepStates
    <2>2. SetSweep(d, s)
      BY <1>2 DEF Proceeds
    <2> QED  BY <2>1, <2>2, SetSweepSets
  <1> QED  BY <1>1, <1>2

(* TypeOK of a state whose parts are of their types.                       *)
LEMMA TypesTogether ==
  ASSUME row' \in [Events -> Rows], attempts' \in [Events -> 0..MaxAttempts],
         resting' \subseteq Events,
         publisher' \in [Events -> {"idle", "enqueue", "stored", "mark", "done"}],
         sweep' \in [Sweeps -> SweepStates], \A d \in Sweeps : SweepOK(sweep'[d]),
         fate' \in [Events -> Fates], faults' \in 0..MaxFaults
  PROVE  TypeOK'
  BY DEF TypeOK, Rows, SweepStates, SweepOK, Fates

(* And back.                                                               *)
LEMMA TypesApart ==
  ASSUME TypeOK
  PROVE  /\ row \in [Events -> Rows] /\ attempts \in [Events -> 0..MaxAttempts]
         /\ resting \subseteq Events
         /\ publisher \in [Events -> {"idle", "enqueue", "stored", "mark", "done"}]
         /\ sweep \in [Sweeps -> SweepStates] /\ \A d \in Sweeps : SweepOK(sweep[d])
         /\ fate \in [Events -> Fates] /\ faults \in 0..MaxFaults
  BY DEF TypeOK, Rows, SweepStates, SweepOK, Fates

(* A failure is counted.                                                   *)
LEMMA FaultCounts ==
  ASSUME TypeOK, Fault
  PROVE  faults' \in 0..MaxFaults
  BY OutboxConstants DEF TypeOK, Fault

----------------------------------------------------------------------------
(* The steps of publishEvent. *)

(* A step of one publisher, and at most of its row, keeps the invariant if *)
(* what it says of that event is true.                                     *)
LEMMA PublisherKeeps ==
  ASSUME IInv, TypeOK', NEW e \in Events, UNCHANGED <<attempts, sweep>>,
         \A f \in Events : Published(f) => Published(f)',
         \A f \in Events \ {e} : row'[f] = row[f] /\ publisher'[f] = publisher[f],
         row'[e] = "delivered" => Published(e)',
         row'[e] = "failed" => row[e] = "failed",
         PublisherTrue(e)'
  PROVE  IInv'
  <1>1. DeliveredWasPublished'
    BY DEF IInv, DeliveredWasPublished, Published
  <1>2. FailedUsedItsAttempts'
    BY DEF IInv, FailedUsedItsAttempts
  <1>3. \A f \in Events : PublisherTrue(f)'
    BY DEF IInv, PublisherTrue
  <1>4. \A d \in Sweeps : SweepTrue(d)'
    <2> SUFFICES ASSUME NEW d \in Sweeps, sweep[d].phase = "mark", NEW f \in sweep[d].at
                 PROVE  Published(f)'
      BY DEF SweepTrue
    <2>1. Published(f) /\ f \in Events
      BY DEF IInv, SweepTrue, TypeOK
    <2> QED  BY <2>1
  <1> QED  BY <1>1, <1>2, <1>3, <1>4 DEF IInv

(* Nothing in the promise chain settles an event before it is fanned out.  *)
LEMMA ChainKeeps ==
  ASSUME IInv, NEW e \in Events,
         PublishEvent(e) \/ ChainStep(e) \/ EnqueueFails(e) \/ MarkFails(e)
  PROVE  IInv'
  <1>1. TypeOK /\ PublisherTrue(e) /\ DeliveredWasPublished
    BY DEF IInv
  <1>2. /\ publisher' \in [Events -> {"idle", "enqueue", "stored", "mark", "done"}]
        /\ \A f \in Events \ {e} : publisher'[f] = publisher[f]
    BY <1>1 DEF TypeOK, Move, PublishEvent, ChainStep, Enqueues, FansOut, Marks, EnqueueFails,
                MarkFails
  <1>3. faults' \in 0..MaxFaults
    BY <1>1, FaultCounts DEF TypeOK, PublishEvent, ChainStep, Enqueues, FansOut, Marks,
                             EnqueueFails, MarkFails
  <1>4. /\ fate' \in [Events -> Fates]
        /\ \A f \in Events : Published(f) => Published(f)'
        /\ FansOut(e) => Published(e)'
    BY <1>1, PublishToHubPublishes DEF TypeOK, Fates, Published, PublishEvent, ChainStep,
                                       Enqueues, FansOut, Marks, EnqueueFails, MarkFails,
                                       Catches
  <1>5. /\ row' \in [Events -> Rows]
        /\ \A f \in Events \ {e} : row'[f] = row[f]
        /\ \/ row'[e] = row[e]
           \/ Enqueues(e) /\ row'[e] = "pending"
           \/ Marks(e) /\ row'[e] \in {"delivered", "gone"}
    <2>1. CASE Enqueues(e)
      BY <1>1, <2>1 DEF TypeOK, Rows, Enqueues
    <2>2. CASE Marks(e)
      BY <1>1, <2>2, SetStatusSets DEF Rows, Marks
    <2>3. CASE PublishEvent(e) \/ FansOut(e) \/ EnqueueFails(e) \/ MarkFails(e)
      <3>1. row' = row
        BY <2>3 DEF table, PublishEvent, FansOut, EnqueueFails, MarkFails
      <3>2. row' \in [Events -> Rows] /\ \A f \in Events : row'[f] = row[f]
        BY <1>1, <3>1, TypesApart
      <3> QED  BY <3>2
    <2> QED  BY <2>1, <2>2, <2>3 DEF ChainStep
  <1>6. UNCHANGED <<attempts, resting, sweep>>
    BY DEF table, PublishEvent, ChainStep, Enqueues, FansOut, Marks, EnqueueFails, MarkFails
  <1>7. TypeOK'
    BY <1>1, <1>2, <1>3, <1>4, <1>5, <1>6, TypesApart, TypesTogether
  <1>8. row'[e] = "delivered" => Published(e)'
    <2>1. Marks(e) => Published(e)
      BY <1>1 DEF PublisherTrue, Marks, Move
    <2> QED  BY <1>1, <1>4, <1>5, <2>1 DEF DeliveredWasPublished, Published
  <1>9. PublisherTrue(e)'
    <2>1. publisher'[e] = "mark" => FansOut(e)
      BY <1>1 DEF TypeOK, Move, PublishEvent, ChainStep, Enqueues, FansOut, Marks,
                  EnqueueFails, MarkFails
    <2> QED  BY <1>4, <2>1 DEF PublisherTrue
  <1> QED
    BY <1>2, <1>4, <1>5, <1>6, <1>7, <1>8, <1>9, PublisherKeeps

----------------------------------------------------------------------------
(* The steps of drainOutbox. *)

(* A step of one sweep keeps the invariant if what it leaves is true.      *)
LEMMA SweepKeeps ==
  ASSUME IInv, TypeOK', NEW d \in Sweeps, UNCHANGED publisher,
         \A f \in Events : Published(f) => Published(f)',
         \A c \in Sweeps \ {d} : sweep'[c] = sweep[c],
         DeliveredWasPublished', FailedUsedItsAttempts', SweepTrue(d)'
  PROVE  IInv'
  <1>1. \A f \in Events : PublisherTrue(f)'
    BY DEF IInv, PublisherTrue
  <1>2. \A c \in Sweeps \ {d} : SweepTrue(c)'
    <2> SUFFICES ASSUME NEW c \in Sweeps \ {d}, sweep[c].phase = "mark", NEW f \in sweep[c].at
                 PROVE  Published(f)'
      BY DEF SweepTrue
    <2>1. Published(f) /\ f \in Events
      BY DEF IInv, SweepTrue, TypeOK
    <2> QED  BY <2>1
  <1> QED  BY <1>1, <1>2 DEF IInv

(* A step that changes no row and publishes what it marks next.            *)
LEMMA QuietSweepKeeps ==
  ASSUME IInv, NEW d \in Sweeps, NEW s, SweepOK(s), SetSweep(d, s),
         UNCHANGED <<table, publisher>>,
         fate' \in [Events -> Fates], \A f \in Events : Published(f) => Published(f)',
         faults' \in 0..MaxFaults,
         s.phase = "mark" => \A f \in s.at : Published(f)'
  PROVE  IInv'
  <1>1. /\ sweep' \in [Sweeps -> SweepStates] /\ \A c \in Sweeps : SweepOK(sweep'[c])
        /\ sweep'[d] = s /\ \A c \in Sweeps \ {d} : sweep'[c] = sweep[c]
    BY SetSweepSets DEF IInv
  <1>2. TypeOK'
    BY <1>1, TypesApart, TypesTogether DEF IInv, table
  <1>3. DeliveredWasPublished' /\ FailedUsedItsAttempts'
    BY DEF IInv, table, DeliveredWasPublished, FailedUsedItsAttempts, Published
  <1>4. SweepTrue(d)'
    BY <1>1 DEF SweepTrue
  <1> QED  BY <1>1, <1>2, <1>3, <1>4, SweepKeeps

(* Reading, fanning out, and every failure on the way leave the rows.      *)
LEMMA SweepReadsKeep ==
  ASSUME IInv, NEW d \in Sweeps,
         DrainReads(d) \/ DrainFansOut(d) \/ DrainStumbles(d) \/ DrainDies(d)
  PROVE  IInv'
  <1>1. TypeOK /\ SweepOK(sweep[d])
    BY TypesApart DEF IInv
  <1>2. UNCHANGED <<table, publisher>>
    BY DEF DrainReads, DrainFansOut, DrainStumbles, DrainDies
  <1>3. fate \in [Events -> Fates] /\ faults \in 0..MaxFaults
    BY <1>1, TypesApart
  <1>4. CASE DrainReads(d)
    <2>1. SweepOK([phase |-> "next", todo |-> Due, at |-> {}])
      BY <1>4 DEF DrainReads, Due, SweepOK, SweepStates
    <2> QED  BY <1>2, <1>3, <1>4, <2>1, QuietSweepKeeps DEF DrainReads, Published
  <1>5. CASE DrainFansOut(d)
    <2>1. PICK e \in sweep[d].todo :
            /\ PublishToHub(e)
            /\ SetSweep(d, [phase |-> "mark", todo |-> sweep[d].todo \ {e}, at |-> {e}])
      BY <1>5 DEF DrainFansOut
    <2> DEFINE s == [phase |-> "mark", todo |-> sweep[d].todo \ {e}, at |-> {e}]
    <2>2. e \in Events /\ SweepOK(s)
      BY <1>1 DEF SweepOK, SweepStates
    <2>3. /\ fate' \in [Events -> Fates] /\ Published(e)'
          /\ \A f \in Events : Published(f) => Published(f)'
      BY <1>1, <2>1, <2>2, PublishToHubPublishes
    <2>4. PICK left \in SUBSET Events : left = sweep[d].todo \ {e}
      BY <1>1 DEF SweepOK, SweepStates
    <2> HIDE DEF s
    <2>5. SetSweep(d, [phase |-> "mark", todo |-> left, at |-> {e}])
          /\ SweepOK([phase |-> "mark", todo |-> left, at |-> {e}])
      BY <2>1, <2>2, <2>4 DEF s
    <2> QED  BY <1>2, <1>3, <1>5, <2>3, <2>5, QuietSweepKeeps DEF DrainFansOut
  <1>6. CASE DrainStumbles(d)
    <2>1. PICK s \in SweepStates : SweepOK(s) /\ s.phase = "fail" /\ SetSweep(d, s)
      <3>1. CASE /\ sweep[d].phase = "next"
                 /\ \E e \in sweep[d].todo :
                      SetSweep(d, [phase |-> "fail", todo |-> sweep[d].todo \ {e}, at |-> {e}])
        BY <1>1, <3>1 DEF SweepOK, SweepStates
      <3>2. CASE sweep[d].phase = "mark" /\ SetSweep(d, [sweep[d] EXCEPT !.phase = "fail"])
        BY <1>1, <3>2 DEF SweepOK, SweepStates
      <3> QED  BY <1>6, <3>1, <3>2 DEF DrainStumbles
    <2> QED
      BY <1>1, <1>2, <1>3, <1>6, <2>1, FaultCounts, QuietSweepKeeps DEF DrainStumbles, Published
  <1>7. CASE DrainDies(d)
    <2>1. SweepOK(NoSweep) /\ NoSweep.phase # "mark"
      BY DEF SweepOK, SweepStates, NoSweep
    <2> QED
      BY <1>1, <1>2, <1>3, <1>7, <2>1, FaultCounts, QuietSweepKeeps DEF DrainDies, Published
  <1> QED  BY <1>4, <1>5, <1>6, <1>7

(* Marks: delivered after a fan-out, failed after the last attempt.        *)
LEMMA SweepMarksKeep ==
  ASSUME IInv, NEW d \in Sweeps, DrainMarks(d) \/ DrainMarksFailed(d)
  PROVE  IInv'
  <1>1. TypeOK /\ SweepOK(sweep[d]) /\ SweepTrue(d) /\ DeliveredWasPublished
        /\ FailedUsedItsAttempts
    BY TypesApart DEF IInv
  <1>2. /\ sweep' \in [Sweeps -> SweepStates] /\ \A c \in Sweeps : SweepOK(sweep'[c])
        /\ sweep'[d].phase # "mark" /\ \A c \in Sweeps \ {d} : sweep'[c] = sweep[c]
    BY <1>1, ProceedsSets DEF DrainMarks, DrainMarksFailed
  <1>3. UNCHANGED <<publisher, fate, faults>>
    BY DEF DrainMarks, DrainMarksFailed
  <1>4. /\ row' \in [Events -> Rows] /\ attempts' \in [Events -> 0..MaxAttempts]
        /\ resting' \subseteq Events
        /\ DeliveredWasPublished' /\ FailedUsedItsAttempts'
    <2>1. CASE DrainMarks(d)
      <3>1. PICK e \in Events : SetStatus(e, "delivered") /\ Published(e)
        BY <1>1, <2>1 DEF DrainMarks, SweepOK, SweepStates, SweepTrue
      <3>2. /\ row' \in [Events -> Rows] /\ row'[e] \in {"delivered", "gone"}
            /\ \A f \in Events \ {e} : row'[f] = row[f]
        BY <1>1, <3>1, SetStatusSets DEF Rows
      <3>3. UNCHANGED <<attempts, resting>>
        BY <2>1 DEF DrainMarks
      <3> QED
        BY <1>1, <1>3, <3>1, <3>2, <3>3, TypesApart DEF DeliveredWasPublished,
           FailedUsedItsAttempts, Published
    <2>2. CASE DrainMarksFailed(d)
      <3>1. PICK e \in Events : IF row[e] = "gone" THEN UNCHANGED table ELSE MarkFailed(e)
        BY <1>1, <2>2 DEF DrainMarksFailed, SweepOK, SweepStates
      <3>2. CASE UNCHANGED table
        BY <1>1, <1>3, <3>2, TypesApart DEF table, DeliveredWasPublished, FailedUsedItsAttempts
      <3>3. CASE MarkFailed(e)
        <4>1. attempts[e] \in 0..MaxAttempts
          BY <1>1 DEF TypeOK
        <4>2. /\ row' \in [Events -> Rows] /\ attempts' \in [Events -> 0..MaxAttempts]
              /\ resting' \subseteq Events
          BY <1>1, <3>3, <4>1, OutboxConstants DEF MarkFailed, TypeOK, Rows
        <4>3. /\ row'[e] \in {"pending", "failed"}
              /\ row'[e] = "failed" => attempts'[e] = MaxAttempts
              /\ \A f \in Events \ {e} : row'[f] = row[f] /\ attempts'[f] = attempts[f]
          BY <1>1, <3>3, <4>1, OutboxConstants DEF MarkFailed, TypeOK
        <4> QED
          BY <1>1, <1>3, <4>2, <4>3 DEF DeliveredWasPublished, FailedUsedItsAttempts
      <3> QED  BY <3>1, <3>2, <3>3
    <2> QED  BY <2>1, <2>2
  <1>5. TypeOK'
    BY <1>1, <1>2, <1>3, <1>4, TypesApart, TypesTogether
  <1> QED  BY <1>2, <1>3, <1>4, <1>5, SweepKeeps DEF SweepTrue, Published

----------------------------------------------------------------------------
(* Time, cleaning up and restarts. *)

(* A retry comes due, a settled row is deleted.                            *)
LEMMA RestKeeps ==
  ASSUME IInv, NEW e \in Events, RetryComesDue(e) \/ Cleanup(e)
  PROVE  IInv'
  <1>1. TypeOK
    BY DEF IInv
  <1>2. UNCHANGED <<attempts, publisher, sweep, fate, faults>>
    BY DEF RetryComesDue, Cleanup
  <1>3. row' = row \/ row' = [row EXCEPT ![e] = "gone"]
    BY DEF RetryComesDue, Cleanup
  <1>4. resting' \subseteq Events
    BY <1>1, TypesApart DEF RetryComesDue, Cleanup
  <1>5. row' \in [Events -> Rows] /\ \A f \in Events : row'[f] \in {row[f], "gone"}
    BY <1>1, <1>3, TypesApart DEF Rows
  <1>6. TypeOK'
    BY <1>1, <1>2, <1>4, <1>5, TypesApart, TypesTogether
  <1>7. DeliveredWasPublished' /\ FailedUsedItsAttempts'
    BY <1>2, <1>5 DEF IInv, DeliveredWasPublished, FailedUsedItsAttempts
  <1>8. (\A f \in Events : PublisherTrue(f)') /\ (\A d \in Sweeps : SweepTrue(d)')
    BY <1>2 DEF IInv, PublisherTrue, SweepTrue, Published
  <1> QED  BY <1>6, <1>7, <1>8 DEF IInv

(* A restart ends the publishers and the sweeps, whatever they had reached.*)
LEMMA RestartKeeps ==
  ASSUME IInv, Restart
  PROVE  IInv'
  <1>1. TypeOK /\ faults' \in 0..MaxFaults /\ UNCHANGED <<attempts, resting, fate>>
    BY FaultCounts DEF IInv, Restart
  <1>2. /\ row' \in [Events -> Rows]
        /\ \A e \in Events : row'[e] = row[e] \/ row'[e] = "pending"
    BY <1>1, TypesApart DEF Restart, Rows
  <1>3. publisher' \in [Events -> {"idle", "done"}]
    BY DEF Restart
  <1>4. \A d \in Sweeps : sweep'[d] = NoSweep
    BY DEF Restart
  <1>5. sweep' \in [Sweeps -> SweepStates] /\ \A d \in Sweeps : SweepOK(sweep'[d])
    <2>1. SweepOK(NoSweep) /\ NoSweep \in SweepStates
      BY DEF SweepOK, SweepStates, NoSweep
    <2> QED  BY <2>1 DEF Restart
  <1>6. TypeOK'
    BY <1>1, <1>2, <1>3, <1>5, TypesApart, TypesTogether
  <1>7. DeliveredWasPublished' /\ FailedUsedItsAttempts'
    BY <1>1, <1>2 DEF IInv, DeliveredWasPublished, FailedUsedItsAttempts
  <1>8. \A e \in Events : PublisherTrue(e)'
    BY <1>3 DEF PublisherTrue
  <1>9. \A d \in Sweeps : SweepTrue(d)'
    BY <1>4 DEF SweepTrue, NoSweep
  <1> QED  BY <1>6, <1>7, <1>8, <1>9 DEF IInv

----------------------------------------------------------------------------
(* Theorems. *)

(* There are no rows and no handlers at the beginning.                     *)
LEMMA InitIInv == Init => IInv
  <1> SUFFICES ASSUME Init  PROVE IInv
    OBVIOUS
  <1>1. TypeOK
    BY OutboxConstants DEF Init, TypeOK, NoSweep
  <1>2. DeliveredWasPublished /\ FailedUsedItsAttempts
    BY DEF Init, DeliveredWasPublished, FailedUsedItsAttempts
  <1>3. (\A e \in Events : PublisherTrue(e)) /\ (\A d \in Sweeps : SweepTrue(d))
    BY DEF Init, PublisherTrue, SweepTrue, NoSweep
  <1> QED  BY <1>1, <1>2, <1>3 DEF IInv

(* Every step keeps the invariant.                                         *)
LEMMA NextIInv == IInv /\ [Next]_vars => IInv'
  <1> SUFFICES ASSUME IInv, [Next]_vars  PROVE IInv'
    OBVIOUS
  <1>1. CASE UNCHANGED vars
    <2>1. UNCHANGED <<row, attempts, resting, publisher, sweep, fate, faults>>
      BY <1>1 DEF vars, table
    <2>2. TypeOK'
      BY <2>1, TypesApart, TypesTogether DEF IInv
    <2> QED  BY <2>1, <2>2 DEF IInv, DeliveredWasPublished, FailedUsedItsAttempts, PublisherTrue,
                               SweepTrue, Published
  <1>2. ASSUME NEW e \in Events,
               PublishEvent(e) \/ ChainStep(e) \/ EnqueueFails(e) \/ MarkFails(e)
        PROVE IInv'
    BY <1>2, ChainKeeps
  <1>3. ASSUME NEW e \in Events, RetryComesDue(e) \/ Cleanup(e)  PROVE IInv'
    BY <1>3, RestKeeps
  <1>4. ASSUME NEW d \in Sweeps,
               DrainReads(d) \/ SweepStep(d) \/ DrainStumbles(d) \/ DrainDies(d)
        PROVE IInv'
    BY <1>4, SweepReadsKeep, SweepMarksKeep DEF SweepStep
  <1>5. CASE Restart
    BY <1>5, RestartKeeps
  <1> QED  BY <1>1, <1>2, <1>3, <1>4, <1>5 DEF Next

(* The inductive invariant: whoever is about to mark a row of event_outbox *)
(* has handed its event to the relay.                                      *)
THEOREM InvHolds == Spec => []IInv
  BY InitIInv, NextIInv, PTL DEF Spec

(* Every reachable state has the declared types.                           *)
THEOREM TypeCorrect == Spec => []TypeOK
  <1>1. IInv => TypeOK
    BY DEF IInv
  <1> QED  BY <1>1, InvHolds, PTL

(* markDelivered never settles an event that nobody handed to the relay,   *)
(* through any restarts, failures and overlapping sweeps.                  *)
THEOREM DeliveredWasPublishedHolds == Spec => []DeliveredWasPublished
  <1>1. IInv => DeliveredWasPublished
    BY DEF IInv
  <1> QED  BY <1>1, InvHolds, PTL

(* markFailed gives up only after MAX_ATTEMPTS.                            *)
THEOREM FailedUsedItsAttemptsHolds == Spec => []FailedUsedItsAttempts
  <1>1. IInv => FailedUsedItsAttempts
    BY DEF IInv
  <1> QED  BY <1>1, InvHolds, PTL
=============================================================================
