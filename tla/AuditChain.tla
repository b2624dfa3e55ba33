------------------------------ MODULE AuditChain ------------------------------
(***************************************************************************)
(* One hash chain of the audit log: entries appended under an advisory     *)
(* lock by processes whose clocks disagree, rewritten in place when their  *)
(* author is erased, purged when they are old, and verified page by page   *)
(* while all of that goes on.                                              *)
(***************************************************************************)
EXTENDS Naturals, Sequences, FiniteSets, SequencesExt

CONSTANTS
  Writers,      \* calls of log() in flight
  Actors,       \* users who act
  Erased,       \* the actor of an entry whose author was erased
  None,
  PageSize,     \* rows verifyFullChain reads at a time
  MaxEntries,   \* bound: entries ever written
  MaxClock,     \* bound: what the writers' clocks may say
  MaxCrashes    \* bound: restarts

ASSUME AuditConstants ==
  /\ IsFiniteSet(Writers) /\ None \notin Writers
  /\ Erased \notin Actors
  /\ PageSize \in Nat \ {0} /\ MaxEntries \in Nat
  /\ MaxClock \in Nat /\ MaxCrashes \in Nat

VARIABLES
  rows,         \* audit_log, in the order of created_at
  written,      \* entries ever written: the next one's id
  lock,         \* who holds the chain's advisory lock, or None
  writer,       \* per call of log(): what it is doing and the tip it has read
  check,        \* the verification that is running
  reported,     \* reportedBreaks of the chain: an id, or 0
  events,       \* ids the audit_chain_broken events named
  purged,       \* a purge has deleted rows
  altered,      \* entries somebody changed behind the service's back
  crashes

vars == <<rows, written, lock, writer, check, reported, events, purged, altered, crashes>>

----------------------------------------------------------------------------
Ids == 1..MaxEntries
Times == 0..(MaxClock + MaxEntries)

(* SHA-256 is taken to be injective: a hash is what was hashed, the hash   *)
(* before it by the id it holds.                                           *)
Hashes == [id : Ids, actor : Actors, at : Times, prev : 0..MaxEntries]
Null == [id |-> 0]

Row == [id : Ids, actor : Actors \cup {Erased}, at : Times, prev : Hashes \cup {Null},
        hash : Hashes, erased : BOOLEAN]

HashOf(id, actor, at, prev) == [id |-> id, actor |-> actor, at |-> at, prev |-> prev.id]

Resting == [phase |-> "idle", tip |-> Null, at |-> 0]
NoCheck == [phase |-> "idle", offset |-> 0, total |-> 0, pred |-> Null]

TypeOK ==
  /\ rows \in Seq(Row)
  /\ written \in 0..MaxEntries
  /\ lock \in Writers \cup {None}
  /\ writer \in [Writers -> [phase : {"idle", "lock", "tip", "insert"},
                             tip : Hashes \cup {Null}, at : Times]]
  /\ check \in [phase : {"idle", "count", "pred", "page"}, offset : 0..MaxEntries,
                total : 0..MaxEntries, pred : Hashes \cup {Null}]
  /\ reported \in 0..MaxEntries
  /\ events \subseteq Ids
  /\ purged \in BOOLEAN
  /\ altered \subseteq Ids
  /\ crashes \in 0..MaxCrashes

Init ==
  /\ rows = <<>> /\ written = 0
  /\ lock = None
  /\ writer = [w \in Writers |-> Resting]
  /\ check = NoCheck
  /\ reported = 0 /\ events = {}
  /\ purged = FALSE /\ altered = {} /\ crashes = 0

----------------------------------------------------------------------------
(* Appending. *)

Waiting == Cardinality({w \in Writers : writer[w].phase # "idle"})

LogBegins(w) ==
  /\ writer[w] = Resting
  /\ written + Waiting < MaxEntries
  /\ writer' = [writer EXCEPT ![w].phase = "lock"]
  /\ UNCHANGED <<rows, written, lock, check, reported, events, purged, altered, crashes>>

(* Mutant: the tip is read without the lock.                               *)
LogSkipsLock(w) ==
  /\ writer[w].phase = "lock"
  /\ lock' = lock
  /\ writer' = [writer EXCEPT ![w].phase = "tip"]
  /\ UNCHANGED <<rows, written, check, reported, events, purged, altered, crashes>>

LogLocks(w) ==
  /\ writer[w].phase = "lock" /\ lock = None
  /\ lock' = w
  /\ writer' = [writer EXCEPT ![w].phase = "tip"]
  /\ UNCHANGED <<rows, written, check, reported, events, purged, altered, crashes>>

(* Mutant: created_at is what the clock says.                              *)
StampedByClock(now) == now

(* created_at is the clock's, forced past the tip's.                       *)
Stamped(now) == IF rows # <<>> /\ now <= Last(rows).at THEN Last(rows).at + 1 ELSE now

LogReadsTip(w) ==
  /\ writer[w].phase = "tip"
  /\ \E now \in 0..MaxClock :
       writer' = [writer EXCEPT ![w] =
         [phase |-> "insert", at |-> Stamped(now),
          tip |-> IF rows = <<>> THEN Null ELSE Last(rows).hash]]
  /\ UNCHANGED <<rows, written, lock, check, reported, events, purged, altered, crashes>>

(* The places ORDER BY created_at, id may give a row of that time.         *)
Places(at) == {k \in 1..(Len(rows) + 1) :
                 /\ \A i \in 1..(k - 1) : rows[i].at <= at
                 /\ \A i \in k..Len(rows) : rows[i].at >= at}

(* The insert commits, and with it the lock is released.                   *)
LogInserts(w) ==
  /\ writer[w].phase = "insert"
  /\ \E a \in Actors, k \in Places(writer[w].at) :
       rows' = InsertAt(rows, k,
                 [id |-> written + 1, actor |-> a, at |-> writer[w].at,
                  prev |-> writer[w].tip, erased |-> FALSE,
                  hash |-> HashOf(written + 1, a, writer[w].at, writer[w].tip)])
  /\ written' = written + 1
  /\ lock' = IF lock = w THEN None ELSE lock
  /\ writer' = [writer EXCEPT ![w] = Resting]
  /\ UNCHANGED <<check, reported, events, purged, altered, crashes>>

----------------------------------------------------------------------------
(* Erasure, retention, tampering. *)

(* executeErasure anonymises every entry of the user, in one transaction.  *)
Erase(a) ==
  /\ \E i \in DOMAIN rows : rows[i].actor = a
  /\ rows' = [i \in DOMAIN rows |->
               IF rows[i].actor = a THEN [rows[i] EXCEPT !.actor = Erased, !.erased = TRUE] ELSE rows[i]]
  /\ UNCHANGED <<written, lock, writer, check, reported, events, purged, altered, crashes>>

(* executePurge deletes what is older than the cutoff, then logs that.     *)
Purge(w) ==
  /\ writer[w] = Resting
  /\ written + Waiting < MaxEntries
  /\ \E n \in DOMAIN rows : rows' = SubSeq(rows, n + 1, Len(rows))
  /\ purged' = TRUE
  /\ writer' = [writer EXCEPT ![w].phase = "lock"]
  /\ UNCHANGED <<written, lock, check, reported, events, altered, crashes>>

(* Somebody with access to the database changes an entry: no code of ours, *)
(* but what the verification is there to find.                             *)
Alter(i) ==
  /\ altered = {} /\ ~rows[i].erased
  /\ \E a \in Actors \ {rows[i].actor} : rows' = [rows EXCEPT ![i].actor = a]
  /\ altered' = {rows[i].id}
  /\ UNCHANGED <<written, lock, writer, check, reported, events, purged, crashes>>

----------------------------------------------------------------------------
(* Verification. *)

(* The worker begins at the first page; every page counts the rows again.  *)
CheckBegins ==
  /\ check.phase = "idle" /\ rows # <<>>
  /\ check' = [NoCheck EXCEPT !.phase = "count"]
  /\ UNCHANGED <<rows, written, lock, writer, reported, events, purged, altered, crashes>>

Clean ==
  /\ reported' = 0 /\ check' = NoCheck /\ UNCHANGED events

CheckCounts ==
  /\ check.phase = "count"
  /\ IF rows = <<>> THEN Clean
     ELSE /\ check' = [check EXCEPT !.total = Len(rows),
                                    !.phase = IF check.offset > 0 THEN "pred" ELSE "page"]
          /\ UNCHANGED <<reported, events>>
  /\ UNCHANGED <<rows, written, lock, writer, purged, altered, crashes>>

CheckReadsPredecessor ==
  /\ check.phase = "pred"
  /\ check' = [check EXCEPT !.phase = "page",
                            !.pred = IF check.offset <= Len(rows)
                                       THEN rows[check.offset].hash ELSE Null]
  /\ UNCHANGED <<rows, written, lock, writer, reported, events, purged, altered, crashes>>

Page == SubSeq(rows, check.offset + 1, Min({check.offset + PageSize, Len(rows)}))

(* Mutant: the hashes are compared, but not recomputed.                    *)
BreaksLink(page, i) == page[i].prev # (IF i = 1 THEN check.pred ELSE page[i - 1].hash)

(* Mutant: a page's first entry is compared with nothing before it.        *)
BreaksAtPage(page, i) ==
  \/ page[i].prev # (IF i = 1 THEN Null ELSE page[i - 1].hash)
  \/ /\ ~page[i].erased
     /\ page[i].hash # HashOf(page[i].id, page[i].actor, page[i].at, page[i].prev)

(* Where the page breaks: an entry that does not continue the one before   *)
(* it, or that no longer hashes to its hash and was not erased.            *)
Breaks(page, i) ==
  \/ page[i].prev # (IF i = 1 THEN check.pred ELSE page[i - 1].hash)
  \/ /\ ~page[i].erased
     /\ page[i].hash # HashOf(page[i].id, page[i].actor, page[i].at, page[i].prev)

Broken(page) == {i \in DOMAIN page : Breaks(page, i)}

(* A break already reported raises no second event.                        *)
Report(id) ==
  /\ events' = IF reported = id THEN events ELSE events \cup {id}
  /\ reported' = id
  /\ check' = NoCheck

CheckReadsPage ==
  /\ check.phase = "page"
  /\ LET next == check.offset + Len(Page)
     IN IF Broken(Page) # {}
          THEN Report(Page[CHOOSE i \in Broken(Page) : \A j \in Broken(Page) : i <= j].id)
          ELSE IF Page = <<>> \/ next >= check.total THEN Clean
          ELSE /\ check' = [NoCheck EXCEPT !.phase = "count", !.offset = next]
               /\ UNCHANGED <<reported, events>>
  /\ UNCHANGED <<rows, written, lock, writer, purged, altered, crashes>>

----------------------------------------------------------------------------
(* A restart rolls the open transactions back.                             *)
Crash ==
  /\ crashes < MaxCrashes /\ crashes' = crashes + 1
  /\ check.phase # "idle" \/ \E w \in Writers : writer[w] # Resting
  /\ lock' = None
  /\ writer' = [w \in Writers |-> Resting]
  /\ check' = NoCheck /\ reported' = 0
  /\ UNCHANGED <<rows, written, events, purged, altered>>

CheckStep == CheckCounts \/ CheckReadsPredecessor \/ CheckReadsPage

Next ==
  \/ \E w \in Writers :
       LogBegins(w) \/ LogLocks(w) \/ LogReadsTip(w) \/ LogInserts(w) \/ Purge(w)
  \/ \E a \in Actors : Erase(a)
  \/ \E i \in DOMAIN rows : Alter(i)
  \/ CheckBegins \/ CheckStep
  \/ Crash

Spec == Init /\ [][Next]_vars

(* The hourly timer, and a verification that goes on while the process     *)
(* runs.                                                                   *)
LiveSpec == Spec /\ WF_vars(CheckBegins) /\ WF_vars(CheckStep)

----------------------------------------------------------------------------
(* Properties. *)

(* Whoever appends, and whatever the clocks say, each entry continues the  *)
(* one that created_at puts before it: the chain never forks.              *)
ChainLinked == \A i \in 2..Len(rows) : rows[i].prev = rows[i - 1].hash

(* A break is reported only when rows were purged or an entry was altered: *)
(* entries appended between two pages, and authors erased between two      *)
(* reads, look like nothing of the kind.                                   *)
AlarmsAreMeant == events # {} => purged \/ altered # {}

(* The trail of ids the table shows, in the order of created_at.           *)
Trail == INSTANCE AuditTrail WITH
           Entries <- Ids, trail <- [i \in DOMAIN rows |-> rows[i].id]

(* New entries come last and only the oldest leave: append order can be    *)
(* recovered from created_at alone.                                        *)
KeepsTheTrail == Trail!TrailSpec

Suspect == \E k \in DOMAIN rows : rows[k].id \in altered /\ ~rows[k].erased

(* An altered entry gets its chain reported, unless it is purged or its    *)
(* author erased before the verification gets there, and although a purge  *)
(* may move the pages under a verification.                                *)
AlterationIsReported == Suspect ~> (reported # 0 \/ ~Suspect)
=============================================================================
