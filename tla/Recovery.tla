------------------------------- MODULE Recovery -------------------------------
(***************************************************************************)
(* Recovery sessions of one user and that user's sigchain.  A handler reads*)
(* the session, decides, and writes by session id, without asking again;   *)
(* the two appenders of the sigchain read its head and insert.  An action  *)
(* is what a handler does between two awaits; what it has read is kept in  *)
(* `reqs`.                                                                 *)
(***************************************************************************)
EXTENDS Naturals, Sequences, FiniteSets

CONSTANTS
  Sessions,     \* recovery sessions the user may begin
  Holders,      \* share holders of the hub's recovery group
  Threshold,    \* hub_recovery_groups.threshold
  None,
  Handlers,     \* bound: handlers that can be in flight at once
  MaxLinks      \* bound: links of the sigchain

ASSUME RecoveryConstants ==
  /\ IsFiniteSet(Holders)
  /\ Threshold \in Nat \ {0}
  /\ None \notin Sessions
  /\ MaxLinks \in Nat

VARIABLES
  status,       \* recovery_sessions.status; "none": no row
  signalVerified, \* recovery_sessions.signal_verified
  due,          \* sessions whose expires_at has passed
  contributed,  \* recovery_session_contributions
  chain,        \* sigchain_links in the order of insertion; a link's hash is its place
  reqs,         \* the handlers: what each has read, between two awaits
  waited,       \* history: sessions that sat out a delay begun after a verification
  overridden    \* history: sessions an approver has hurried

vars == <<status, signalVerified, due, contributed, chain, reqs, waited, overridden>>

----------------------------------------------------------------------------
Statuses == {"none", "pending", "verified", "active", "completed", "expired", "cancelled"}

(* `session` is the session of a recovery-device-add, None for the links   *)
(* the user's other devices append; `backers` the holders its payload names*)
Link == [seq : Nat, prev : Nat, session : Sessions \cup {None}, backers : SUBSET Holders]

Kinds == {"idle", "verify", "expire", "contribute", "cancel", "override", "complete", "append"}

Request == [kind : Kinds, session : Sessions \cup {None}, read : Statuses,
            who : SUBSET Holders, phase : {"write", "evidence", "tx", "commit"},
            activates : BOOLEAN, seq : Nat, prev : Nat]

Req(kind, s) == [kind |-> kind, session |-> s, read |-> "none", who |-> {}, phase |-> "write",
                 activates |-> FALSE, seq |-> 0, prev |-> 0]
Idle == Req("idle", None)

Become(w, r) == reqs' = [reqs EXCEPT ![w] = r]
Finish(w) == Become(w, Idle)
Start(r) == \E w \in Handlers : reqs[w] = Idle /\ Become(w, r)

TypeOK ==
  /\ status \in [Sessions -> Statuses]
  /\ signalVerified \subseteq Sessions
  /\ due \subseteq Sessions
  /\ contributed \in [Sessions -> SUBSET Holders]
  /\ chain \in Seq(Link)
  /\ reqs \in [Handlers -> Request]
  /\ waited \subseteq Sessions
  /\ overridden \subseteq Sessions

Init ==
  /\ status = [s \in Sessions |-> "none"]
  /\ signalVerified = {} /\ due = {} /\ waited = {} /\ overridden = {}
  /\ contributed = [s \in Sessions |-> {}]
  /\ chain = <<>>
  /\ reqs = [w \in Handlers |-> Idle]

SetStatus(s, v) == status' = [status EXCEPT ![s] = v]

----------------------------------------------------------------------------
(* Initiation and verification. *)

Initiate(s) ==
  /\ status[s] = "none"
  /\ SetStatus(s, "pending")
  /\ UNCHANGED <<due, contributed, chain, reqs, signalVerified, waited, overridden>>

(* A verification finds the session pending.  It is about to expire it when*)
(* its time is over or its attempts are used up (which are not counted     *)
(* here), else to accept the code; a wrong code only adds an attempt.      *)
VerifyReads(s) ==
  /\ status[s] = "pending"
  /\ \/ Start(Req("expire", s))
     \/ s \notin due /\ Start(Req("verify", s))
  /\ UNCHANGED <<status, due, contributed, chain, signalVerified, waited, overridden>>

(* Mutant: a status the schema does not know.                              *)
ExpireAsTimeout(w) ==
  /\ reqs[w].kind = "expire"
  /\ SetStatus(reqs[w].session, "timeout")
  /\ Finish(w)
  /\ UNCHANGED <<due, contributed, chain, signalVerified, waited, overridden>>

ExpireWrites(w) ==
  /\ reqs[w].kind = "expire"
  /\ SetStatus(reqs[w].session, "expired")
  /\ Finish(w)
  /\ UNCHANGED <<due, contributed, chain, signalVerified, waited, overridden>>

(* Mutant: expires_at stays what the initiation made it.                   *)
VerifyKeepsExpiry(w) ==
  /\ reqs[w].kind = "verify"
  /\ SetStatus(reqs[w].session, "verified")
  /\ signalVerified' = signalVerified \cup {reqs[w].session}
  /\ Finish(w)
  /\ UNCHANGED <<due, contributed, chain, waited, overridden>>

(* The delay of the group begins anew.                                     *)
VerifyWrites(w) ==
  /\ reqs[w].kind = "verify"
  /\ SetStatus(reqs[w].session, "verified")
  /\ due' = due \ {reqs[w].session}
  /\ signalVerified' = signalVerified \cup {reqs[w].session}
  /\ Finish(w)
  /\ UNCHANGED <<contributed, chain, waited, overridden>>

(* expires_at passes.                                                      *)
Elapses(s) ==
  /\ status[s] # "none" /\ s \notin due
  /\ due' = due \cup {s}
  /\ waited' = IF s \in signalVerified THEN waited \cup {s} ELSE waited
  /\ UNCHANGED <<status, contributed, chain, reqs, signalVerified, overridden>>

----------------------------------------------------------------------------
(* Contributions. *)

ContributeReads(s, h) ==
  /\ status[s] \in {"verified", "active"}
  /\ Start([Req("contribute", s) EXCEPT !.read = status[s], !.who = {h}, !.phase = "tx"])
  /\ UNCHANGED <<status, due, contributed, chain, signalVerified, waited, overridden>>

(* Mutant: the comparison is off by one.                                   *)
ReachesThresholdEarly(n) == n + 1 >= Threshold

(* The count of contributions has reached the threshold.                   *)
ReachesThreshold(n) == n >= Threshold

(* The transaction looks for an earlier contribution, inserts this one and *)
(* counts: its own and those committed by now, not the ones other          *)
(* transactions are about to commit.                                       *)
ContributeCounts(w) ==
  /\ reqs[w].kind = "contribute" /\ reqs[w].phase = "tx"
  /\ LET seen == contributed[reqs[w].session]
     IN IF reqs[w].who \subseteq seen
          THEN Finish(w)
          ELSE Become(w, [reqs[w] EXCEPT !.phase = "commit",
                 !.activates = reqs[w].read = "verified"
                               /\ ReachesThreshold(Cardinality(seen \cup reqs[w].who))])
  /\ UNCHANGED <<status, due, contributed, chain, signalVerified, waited, overridden>>

(* A second contribution of the same holder fails on the primary key.      *)
ContributeCommits(w) ==
  /\ reqs[w].kind = "contribute" /\ reqs[w].phase = "commit"
  /\ LET s == reqs[w].session
     IN IF reqs[w].who \subseteq contributed[s]
          THEN UNCHANGED <<status, contributed>>
          ELSE /\ contributed' = [contributed EXCEPT ![s] = @ \cup reqs[w].who]
               /\ IF reqs[w].activates THEN SetStatus(s, "active") ELSE UNCHANGED status
  /\ Finish(w)
  /\ UNCHANGED <<due, chain, signalVerified, waited, overridden>>

----------------------------------------------------------------------------
(* Cancellation and emergency override. *)

CancelReads(s) ==
  /\ status[s] \in {"pending", "verified", "active"}
  /\ Start(Req("cancel", s))
  /\ UNCHANGED <<status, due, contributed, chain, signalVerified, waited, overridden>>

CancelWrites(w) ==
  /\ reqs[w].kind = "cancel"
  /\ SetStatus(reqs[w].session, "cancelled")
  /\ Finish(w)
  /\ UNCHANGED <<due, contributed, chain, signalVerified, waited, overridden>>

OverrideReads(s) ==
  /\ status[s] \in {"verified", "active"}
  /\ Start(Req("override", s))
  /\ UNCHANGED <<status, due, contributed, chain, signalVerified, waited, overridden>>

(* Mutant: the shortened delay is not begun.                               *)
OverrideSkipsFloor(w) ==
  /\ reqs[w].kind = "override"
  /\ SetStatus(reqs[w].session, "active")
  /\ due' = due \cup {reqs[w].session}
  /\ overridden' = overridden \cup {reqs[w].session}
  /\ signalVerified' = signalVerified \cup {reqs[w].session}
  /\ Finish(w)
  /\ UNCHANGED <<contributed, chain, waited>>

(* Active whatever was contributed, after the emergency floor.             *)
OverrideWrites(w) ==
  /\ reqs[w].kind = "override"
  /\ SetStatus(reqs[w].session, "active")
  /\ due' = due \ {reqs[w].session}
  /\ overridden' = overridden \cup {reqs[w].session}
  /\ signalVerified' = signalVerified \cup {reqs[w].session}
  /\ Finish(w)
  /\ UNCHANGED <<contributed, chain, waited>>

----------------------------------------------------------------------------
(* The sigchain. *)

(* ORDER BY seq_no DESC LIMIT 1: any of the links with the highest number. *)
Heads == {i \in DOMAIN chain : \A j \in DOMAIN chain : chain[j].seq <= chain[i].seq}

First(q) == [q EXCEPT !.phase = "commit", !.seq = 0, !.prev = 0]

(* Mutant: the sequence number goes on from how many links there are.      *)
PlacedByCount(q) ==
  IF chain = <<>> THEN {First(q)}
  ELSE {[q EXCEPT !.phase = "commit", !.seq = Len(chain), !.prev = i] : i \in Heads}

(* The link a request brings is accepted when it continues the head the    *)
(* handler reads: the requests q may become once its place is checked.     *)
Placed(q) ==
  IF chain = <<>> THEN {First(q)}
  ELSE {[q EXCEPT !.phase = "commit", !.seq = chain[i].seq + 1, !.prev = i] : i \in Heads}

InsertLink(q) ==
  chain' = Append(chain, [seq |-> q.seq, prev |-> q.prev, session |-> q.session,
                          backers |-> q.who])

(* appendSigchainLink for any other device of the user.                    *)
AppendReadsHead ==
  /\ Len(chain) < MaxLinks
  /\ \E p \in Placed(Req("append", None)) : Start(p)
  /\ UNCHANGED <<status, due, contributed, chain, signalVerified, waited, overridden>>

AppendInserts(w) ==
  /\ reqs[w].kind = "append"
  /\ Len(chain) < MaxLinks
  /\ InsertLink(reqs[w])
  /\ Finish(w)
  /\ UNCHANGED <<status, due, contributed, signalVerified, waited, overridden>>

(* Mutant: the delay is not checked.                                       *)
CompleteEarly(s) ==
  /\ status[s] = "active"
  /\ Start([Req("complete", s) EXCEPT !.phase = "evidence"])
  /\ UNCHANGED <<status, due, contributed, chain, signalVerified, waited, overridden>>

(* completeRecovery reads the session: active, and its delay is over.      *)
CompleteReads(s) ==
  /\ status[s] = "active" /\ s \in due
  /\ Start([Req("complete", s) EXCEPT !.phase = "evidence"])
  /\ UNCHANGED <<status, due, contributed, chain, signalVerified, waited, overridden>>

(* Mutant: an active session is taken to have met the threshold.           *)
CompleteTrustsStatus(w) ==
  /\ reqs[w].kind = "complete" /\ reqs[w].phase = "evidence"
  /\ \E named \in SUBSET contributed[reqs[w].session] :
       Become(w, [reqs[w] EXCEPT !.who = named, !.phase = "tx"])
  /\ UNCHANGED <<status, due, contributed, chain, signalVerified, waited, overridden>>

(* Then the contributions: `threshold` of them, and the payload names only *)
(* their authors.  It is the length of its list that must reach the        *)
(* threshold, so the authors it names may be fewer.                        *)
CompleteChecksEvidence(w) ==
  /\ reqs[w].kind = "complete" /\ reqs[w].phase = "evidence"
  /\ IF ReachesThreshold(Cardinality(contributed[reqs[w].session]))
       THEN \E named \in SUBSET contributed[reqs[w].session] :
              /\ named # {}
              /\ Become(w, [reqs[w] EXCEPT !.who = named, !.phase = "tx"])
       ELSE Finish(w)
  /\ UNCHANGED <<status, due, contributed, chain, signalVerified, waited, overridden>>

CompleteReadsHead(w) ==
  /\ reqs[w].kind = "complete" /\ reqs[w].phase = "tx"
  /\ \E p \in Placed(reqs[w]) : Become(w, p)
  /\ UNCHANGED <<status, due, contributed, chain, signalVerified, waited, overridden>>

CompleteCommits(w) ==
  /\ reqs[w].kind = "complete" /\ reqs[w].phase = "commit"
  /\ Len(chain) < MaxLinks
  /\ InsertLink(reqs[w])
  /\ SetStatus(reqs[w].session, "completed")
  /\ Finish(w)
  /\ UNCHANGED <<due, contributed, signalVerified, waited, overridden>>

(* A restart drops the handlers; an open transaction is rolled back.       *)
Crash ==
  /\ \E w \in Handlers : reqs[w] # Idle
  /\ reqs' = [w \in Handlers |-> Idle]
  /\ UNCHANGED <<status, due, contributed, chain, signalVerified, waited, overridden>>

----------------------------------------------------------------------------
Next ==
  \/ \E s \in Sessions :
       \/ Initiate(s) \/ VerifyReads(s) \/ Elapses(s)
       \/ CancelReads(s) \/ OverrideReads(s) \/ CompleteReads(s)
       \/ \E h \in Holders : ContributeReads(s, h)
  \/ \E w \in Handlers :
       \/ ExpireWrites(w) \/ VerifyWrites(w)
       \/ ContributeCounts(w) \/ ContributeCommits(w)
       \/ CancelWrites(w) \/ OverrideWrites(w)
       \/ CompleteChecksEvidence(w) \/ CompleteReadsHead(w) \/ CompleteCommits(w) \/ AppendInserts(w)
  \/ AppendReadsHead
  \/ Crash

Spec == Init /\ [][Next]_vars

----------------------------------------------------------------------------
(* Properties. *)

Recoveries == {i \in DOMAIN chain : chain[i].session # None}

(* No device is added to an account without `threshold` holders who really*)
(* contributed to that very session, whatever an override, a late          *)
(* contribution or a cancellation did to its status meanwhile; the link    *)
(* names some of them and nobody else.                                     *)
LinksAreBacked ==
  \A i \in Recoveries :
    LET backing == contributed[chain[i].session]
    IN /\ Cardinality(backing) >= Threshold
       /\ chain[i].backers # {} /\ chain[i].backers \subseteq backing

(* No device is added before a delay that began after the verification, the*)
(* group's or the emergency floor, has passed.                             *)
DelayHonoured == \A i \in Recoveries : chain[i].session \in waited

(* A session is active because the threshold was met or an approver said   *)
(* so: contributeShare's count never activates early.                      *)
ActiveIsEarned ==
  \A s \in Sessions : status[s] = "active" =>
    s \in overridden \/ Cardinality(contributed[s]) >= Threshold

(* Each link continues one that is there, its number one higher: what the  *)
(* two appenders check survives their races, if only as a fork.            *)
ChainConnected ==
  \A i \in DOMAIN chain :
    \/ chain[i].seq = 0 /\ chain[i].prev = 0
    \/ /\ chain[i].prev \in 1..(i - 1)
       /\ chain[i].seq = chain[chain[i].prev].seq + 1

(* What the comment on appendSigchainLink promises: a link's number is that*)
(* of the last link plus one, so no two links have the same.               *)
OneLinkPerNumber ==
  \A i, j \in DOMAIN chain : chain[i].seq = chain[j].seq => i = j

(* The design's flow: `verified` -> (threshold contributions) -> `active`. *)
(* Two contributions that count at the same time do not see each other.    *)
ThresholdActivates ==
  \A s \in Sessions :
    status[s] = "verified" /\ Cardinality(contributed[s]) >= Threshold =>
      \E w \in Handlers : reqs[w].session = s
=============================================================================
