--------------------------- MODULE Recovery_proofs ---------------------------
(***************************************************************************)
(* What Recovery guarantees for every group of holders, every threshold and*)
(* any number of sessions, handlers and links.                             *)
(***************************************************************************)
EXTENDS Recovery, FiniteSetTheorems, SequenceTheorems, TLAPS

(* Enough holders have contributed to a session.                           *)
Backed(s) == Cardinality(contributed[s]) >= Threshold

(* A place in the chain: its beginning, or after a link that is there.     *)
OnChain(seq, prev) ==
  \/ seq = 0 /\ prev = 0
  \/ prev \in 1..Len(chain) /\ seq = chain[prev].seq + 1

(* A delay that is over began after the verification, unless there was none*)
(* yet; and what is verified or active was verified.                       *)
SessionTrue(s) ==
  /\ s \in due /\ s \in signalVerified => s \in waited
  /\ status[s] \in {"verified", "active"} => s \in signalVerified
  /\ status[s] = "active" => s \in overridden \/ Backed(s)

(* What a recovery-device-add link says is true of its session.            *)
LinkTrue(k) ==
  k.session # None =>
    /\ k.session \in waited
    /\ Backed(k.session)
    /\ k.backers # {} /\ k.backers \subseteq contributed[k.session]

(* What a handler keeps from one await to the next is true: it was when it *)
(* was read, and only grows.                                               *)
ContributeTrue(r) ==
  /\ r.session \in Sessions /\ r.session \in signalVerified
  /\ r.phase = "commit" /\ r.activates =>
       Cardinality(contributed[r.session] \cup r.who) >= Threshold

CompleteTrue(r) ==
  /\ r.session \in Sessions /\ r.session \in waited
  /\ r.phase \in {"tx", "commit"} =>
       /\ Backed(r.session)
       /\ r.who # {} /\ r.who \subseteq contributed[r.session]
  /\ r.phase = "commit" => OnChain(r.seq, r.prev)

TrueRequest(r) ==
  /\ r.kind \in {"verify", "expire", "cancel", "override"} => r.session \in Sessions
  /\ r.kind = "contribute" => ContributeTrue(r)
  /\ r.kind = "complete" => CompleteTrue(r)
  /\ r.kind = "append" => r.session = None /\ OnChain(r.seq, r.prev)

Links == {chain[i] : i \in DOMAIN chain}
InFlight == {reqs[w] : w \in Handlers}

(* The inductive invariant.                                                *)
IInv ==
  /\ TypeOK
  /\ \A s \in Sessions : SessionTrue(s)
  /\ \A k \in Links : LinkTrue(k)
  /\ ChainConnected
  /\ \A r \in InFlight : TrueRequest(r)

----------------------------------------------------------------------------
(* Nothing that was contributed, waited for, verified or appended is ever  *)
(* taken back: the facts a handler relies on outlive every step.           *)

Grows ==
  /\ \A s \in Sessions : contributed[s] \subseteq contributed'[s]
  /\ signalVerified \subseteq signalVerified'
  /\ waited \subseteq waited'
  /\ Len(chain) <= Len(chain')
  /\ \A i \in 1..Len(chain) : chain'[i] = chain[i]

(* A session that has enough contributions keeps them, and a set of them   *)
(* joined with any others does too.                                        *)
LEMMA MoreContributions ==
  ASSUME TypeOK, TypeOK', Grows, NEW s \in Sessions, NEW more \in SUBSET Holders,
         Cardinality(contributed[s] \cup more) >= Threshold
  PROVE  Cardinality(contributed'[s] \cup more) >= Threshold
  <1>1. contributed[s] \cup more \subseteq contributed'[s] \cup more
    BY DEF Grows
  <1>2. contributed'[s] \cup more \subseteq Holders
    BY DEF TypeOK
  <1>3. IsFiniteSet(contributed'[s] \cup more)
    BY <1>2, FS_Subset, RecoveryConstants
  <1>4. Cardinality(contributed[s] \cup more) <= Cardinality(contributed'[s] \cup more)
    BY <1>1, <1>3, FS_Subset
  <1>5. IsFiniteSet(contributed[s] \cup more)
    BY <1>1, <1>3, FS_Subset
  <1> QED
    BY <1>3, <1>4, <1>5, FS_CardinalityType, RecoveryConstants

(* Backing does not go away.                                               *)
LEMMA BackingLasts ==
  ASSUME TypeOK, TypeOK', Grows, NEW s \in Sessions, Backed(s)
  PROVE  Backed(s)'
  <1>1. contributed[s] \cup {} = contributed[s] /\ contributed'[s] \cup {} = contributed'[s]
    OBVIOUS
  <1>2. Cardinality(contributed'[s] \cup {}) >= Threshold
    BY <1>1, MoreContributions DEF Backed
  <1> QED  BY <1>1, <1>2 DEF Backed

(* Nor does a link, or the place after it.                                 *)
LEMMA PlaceLasts ==
  ASSUME Grows, chain \in Seq(Link), chain' \in Seq(Link),
         NEW seq \in Nat, NEW prev \in Nat, OnChain(seq, prev)
  PROVE  OnChain(seq, prev)'
  BY DEF Grows, OnChain

(* What is true of a link stays true of it.                                *)
LEMMA LinkLasts ==
  ASSUME TypeOK, TypeOK', Grows, NEW k \in Link, LinkTrue(k)
  PROVE  LinkTrue(k)'
  <1>1. CASE k.session = None
    BY <1>1 DEF LinkTrue
  <1>2. CASE k.session # None
    <2>1. k.session \in Sessions
      BY <1>2 DEF Link
    <2>2. Backed(k.session)'
      BY <1>2, <2>1, BackingLasts DEF LinkTrue
    <2> QED  BY <1>2, <2>1, <2>2 DEF LinkTrue, Grows
  <1> QED  BY <1>1, <1>2

(* What a handler relies on stays true while it waits.                     *)
LEMMA RequestLasts ==
  ASSUME TypeOK, TypeOK', Grows, NEW r \in Request, TrueRequest(r)
  PROVE  TrueRequest(r)'
  <1>1. ASSUME r.kind = "contribute"  PROVE ContributeTrue(r)'
    <2>1. ContributeTrue(r)
      BY <1>1 DEF TrueRequest
    <2>2. r.who \in SUBSET Holders
      BY DEF Request
    <2>3. r.phase = "commit" /\ r.activates =>
            Cardinality(contributed'[r.session] \cup r.who) >= Threshold
      BY <2>1, <2>2, MoreContributions DEF ContributeTrue
    <2> QED  BY <2>1, <2>3 DEF ContributeTrue, Grows
  <1>2. ASSUME r.kind = "complete"  PROVE CompleteTrue(r)'
    <2>1. CompleteTrue(r)
      BY <1>2 DEF TrueRequest
    <2>2. r.phase \in {"tx", "commit"} => Backed(r.session)'
      BY <2>1, BackingLasts DEF CompleteTrue
    <2>3. r.phase = "commit" => OnChain(r.seq, r.prev)'
      BY <2>1, PlaceLasts DEF CompleteTrue, Request, TypeOK
    <2> QED  BY <2>1, <2>2, <2>3 DEF CompleteTrue, Grows
  <1>3. ASSUME r.kind = "append"  PROVE OnChain(r.seq, r.prev)'
    BY <1>3, PlaceLasts DEF TrueRequest, Request, TypeOK
  <1> QED  BY <1>1, <1>2, <1>3 DEF TrueRequest

----------------------------------------------------------------------------
(* Type correctness. *)

(* A request is placed as one that is about to be inserted.                *)
LEMMA PlacedType ==
  ASSUME TypeOK, NEW q \in Request, NEW p \in Placed(q)
  PROVE  /\ p \in Request
         /\ p = [q EXCEPT !.phase = "commit", !.seq = p.seq, !.prev = p.prev]
         /\ OnChain(p.seq, p.prev)
  <1>1. CASE chain = <<>>
    <2>1. p = [q EXCEPT !.phase = "commit", !.seq = 0, !.prev = 0]
      BY <1>1 DEF Placed, First
    <2>2. p.seq = 0 /\ p.prev = 0
      BY <2>1 DEF Request
    <2>3. p \in Request
      BY <2>1 DEF Request
    <2> QED  BY <2>1, <2>2, <2>3 DEF OnChain
  <1>2. CASE chain # <<>>
    <2>1. PICK i \in Heads : p = [q EXCEPT !.phase = "commit", !.seq = chain[i].seq + 1, !.prev = i]
      BY <1>2 DEF Placed
    <2>2. i \in 1..Len(chain) /\ chain[i] \in Link
      BY <2>1 DEF Heads, TypeOK
    <2>3. chain[i].seq + 1 \in Nat /\ i \in Nat
      BY <2>2 DEF Link
    <2> QED  BY <2>1, <2>2, <2>3 DEF Request, OnChain
  <1> QED  BY <1>1, <1>2

(* An inserted link is a link, and those before it stay where they are.    *)
LEMMA InsertType ==
  ASSUME TypeOK, NEW q \in Request, InsertLink(q)
  PROVE  /\ chain' \in Seq(Link)
         /\ Len(chain') = Len(chain) + 1
         /\ \A i \in 1..Len(chain) : chain'[i] = chain[i]
         /\ chain'[Len(chain) + 1] = [seq |-> q.seq, prev |-> q.prev, session |-> q.session,
                                      backers |-> q.who]
  <1> DEFINE link == [seq |-> q.seq, prev |-> q.prev, session |-> q.session, backers |-> q.who]
  <1>1. link \in Link
    BY DEF Request, Link
  <1>2. chain \in Seq(Link) /\ chain' = Append(chain, link)
    BY DEF TypeOK, InsertLink
  <1> QED  BY <1>1, <1>2, AppendProperties

(* Handlers begin, go on and end with requests.                            *)
LEMMA RequestTypes ==
  ASSUME TypeOK, NEW w \in Handlers, NEW r \in Request
  PROVE  /\ Idle \in Request
         /\ Finish(w) => reqs' \in [Handlers -> Request]
         /\ Become(w, r) => reqs' \in [Handlers -> Request]
         /\ Start(r) => reqs' \in [Handlers -> Request]
  <1>1. Idle \in Request
    BY DEF Idle, Req, Request, Kinds, Statuses
  <1>2. \A v \in Handlers, q \in Request : Become(v, q) => reqs' \in [Handlers -> Request]
    BY DEF TypeOK, Become
  <1> QED  BY <1>1, <1>2 DEF Finish, Start

(* The requests handlers begin with.                                       *)
LEMMA NewRequestTypes ==
  ASSUME NEW s \in Sessions \cup {None}, NEW k \in Kinds
  PROVE  Req(k, s) \in Request /\ Idle \in Request
  BY DEF Req, Request, Kinds, Statuses, Idle

(* Types are kept by the handlers' first steps.                            *)
LEMMA ReadsType ==
  ASSUME TypeOK, NEW s \in Sessions, NEW h,
         VerifyReads(s) \/ CancelReads(s) \/ OverrideReads(s) \/ CompleteReads(s)
           \/ (h \in Holders /\ ContributeReads(s, h)) \/ AppendReadsHead
  PROVE  TypeOK'
  <1>1. \A k \in Kinds : Req(k, s) \in Request /\ Req(k, None) \in Request
    BY NewRequestTypes
  <1>2. \A r \in Request : Start(r) => reqs' \in [Handlers -> Request]
    BY RequestTypes DEF Start
  <1>3. CASE VerifyReads(s)
    BY <1>1, <1>2, <1>3 DEF VerifyReads, TypeOK, Kinds
  <1>4. CASE CancelReads(s)
    BY <1>1, <1>2, <1>4 DEF CancelReads, TypeOK, Kinds
  <1>5. CASE OverrideReads(s)
    BY <1>1, <1>2, <1>5 DEF OverrideReads, TypeOK, Kinds
  <1>6. CASE CompleteReads(s)
    <2>1. [Req("complete", s) EXCEPT !.phase = "evidence"] \in Request
      BY <1>1 DEF Request, Kinds
    <2> QED  BY <1>2, <1>6, <2>1 DEF CompleteReads, TypeOK
  <1>7. CASE h \in Holders /\ ContributeReads(s, h)
    <2>1. [Req("contribute", s) EXCEPT !.read = status[s], !.who = {h}, !.phase = "tx"] \in Request
      <3>1. Req("contribute", s) \in Request /\ status[s] \in Statuses /\ {h} \in SUBSET Holders
        BY <1>1, <1>7 DEF Kinds, TypeOK
      <3> QED  BY <3>1 DEF Request
    <2> QED  BY <1>2, <1>7, <2>1 DEF ContributeReads, TypeOK
  <1>8. CASE AppendReadsHead
    <2>1. \A p \in Placed(Req("append", None)) : p \in Request
      BY <1>1, PlacedType DEF Kinds
    <2> QED  BY <1>2, <1>8, <2>1 DEF AppendReadsHead, TypeOK
  <1> QED  BY <1>3, <1>4, <1>5, <1>6, <1>7, <1>8

(* And by those that follow.                                               *)
LEMMA WritesType ==
  ASSUME TypeOK, NEW w \in Handlers,
         \/ ExpireWrites(w) \/ VerifyWrites(w) \/ CancelWrites(w) \/ OverrideWrites(w)
         \/ ContributeCounts(w) \/ ContributeCommits(w)
         \/ CompleteChecksEvidence(w) \/ CompleteReadsHead(w) \/ CompleteCommits(w)
         \/ AppendInserts(w),
         reqs[w].kind \in {"verify", "expire", "cancel", "override", "contribute", "complete"}
           => reqs[w].session \in Sessions
  PROVE  TypeOK'
  <1>1. reqs[w] \in Request
    BY DEF TypeOK
  <1>2. Finish(w) => reqs' \in [Handlers -> Request]
    BY <1>1, RequestTypes
  <1>3. \A r \in Request : Become(w, r) => reqs' \in [Handlers -> Request]
    BY RequestTypes
  <1>4. CASE ExpireWrites(w)
    BY <1>2, <1>4 DEF ExpireWrites, SetStatus, TypeOK, Statuses
  <1>5. CASE VerifyWrites(w)
    BY <1>2, <1>5 DEF VerifyWrites, SetStatus, TypeOK, Statuses
  <1>6. CASE CancelWrites(w)
    BY <1>2, <1>6 DEF CancelWrites, SetStatus, TypeOK, Statuses
  <1>7. CASE OverrideWrites(w)
    BY <1>2, <1>7 DEF OverrideWrites, SetStatus, TypeOK, Statuses
  <1>8. CASE ContributeCounts(w)
    <2> DEFINE next == [reqs[w] EXCEPT !.phase = "commit",
                 !.activates = reqs[w].read = "verified" /\ ReachesThreshold(
                                 Cardinality(contributed[reqs[w].session] \cup reqs[w].who))]
    <2>1. next \in Request
      BY <1>1, Zenon DEF Request
    <2>2. Finish(w) \/ Become(w, next)
      BY <1>8 DEF ContributeCounts
    <2> QED  BY <1>2, <1>3, <1>8, <2>1, <2>2 DEF ContributeCounts, TypeOK
  <1>9. CASE ContributeCommits(w)
    <2>1. reqs[w].who \subseteq Holders /\ reqs[w].session \in Sessions
      BY <1>1, <1>9 DEF Request, ContributeCommits
    <2> QED  BY <1>2, <1>9, <2>1 DEF ContributeCommits, SetStatus, TypeOK, Statuses
  <1>10. CASE CompleteChecksEvidence(w)
    <2>1. \A named \in SUBSET contributed[reqs[w].session] :
            [reqs[w] EXCEPT !.who = named, !.phase = "tx"] \in Request
      <3>1. contributed[reqs[w].session] \subseteq Holders
        BY <1>10 DEF CompleteChecksEvidence, TypeOK
      <3> QED  BY <1>1, <3>1 DEF Request
    <2>2. reqs' \in [Handlers -> Request]
      BY <1>2, <1>3, <1>10, <2>1 DEF CompleteChecksEvidence
    <2> QED  BY <1>10, <2>2 DEF CompleteChecksEvidence, TypeOK
  <1>11. CASE CompleteReadsHead(w)
    <2>1. reqs' \in [Handlers -> Request]
      BY <1>1, <1>3, <1>11, PlacedType DEF CompleteReadsHead
    <2> QED  BY <1>11, <2>1 DEF CompleteReadsHead, TypeOK
  <1>12. CASE CompleteCommits(w)
    <2>1. chain' \in Seq(Link)
      BY <1>1, <1>12, InsertType DEF CompleteCommits
    <2> QED  BY <1>2, <1>12, <2>1 DEF CompleteCommits, SetStatus, TypeOK, Statuses
  <1>13. CASE AppendInserts(w)
    <2>1. chain' \in Seq(Link)
      BY <1>1, <1>13, InsertType DEF AppendInserts
    <2> QED  BY <1>2, <1>13, <2>1 DEF AppendInserts, TypeOK
  <1> QED
    BY <1>4, <1>5, <1>6, <1>7, <1>8, <1>9, <1>10, <1>11, <1>12, <1>13

----------------------------------------------------------------------------
(* The invariant. *)

(* Steps that append nothing and contribute nothing.                       *)
LEMMA QuietGrows ==
  ASSUME TypeOK, UNCHANGED <<contributed, chain>>,
         signalVerified \subseteq signalVerified', waited \subseteq waited'
  PROVE  Grows
  BY DEF TypeOK, Grows

(* At most one request is new after a handler's step.                      *)
LEMMA OneNewRequest ==
  ASSUME TypeOK, NEW w \in Handlers, NEW r
  PROVE  /\ Start(r) => InFlight' \subseteq InFlight \cup {r}
         /\ Become(w, r) => InFlight' \subseteq InFlight \cup {r}
         /\ Finish(w) => InFlight' \subseteq InFlight \cup {Idle}
  <1>1. \A q : \A v \in Handlers : Become(v, q) => InFlight' \subseteq InFlight \cup {q}
    BY DEF TypeOK, Become, InFlight
  <1> QED  BY <1>1 DEF Start, Finish

(* The handlers rely on what is true if the new one does.                  *)
LEMMA HandlersGoOn ==
  ASSUME IInv, TypeOK', Grows, NEW r \in Request, TrueRequest(r)',
         InFlight' \subseteq InFlight \cup {r, Idle}
  PROVE  \A q \in InFlight' : TrueRequest(q)'
  <1> SUFFICES ASSUME NEW q \in InFlight'  PROVE TrueRequest(q)'
    OBVIOUS
  <1>1. CASE q \in InFlight
    <2>1. q \in Request
      BY <1>1 DEF IInv, TypeOK, InFlight
    <2>2. TrueRequest(q)
      BY <1>1 DEF IInv
    <2> QED  BY <2>1, <2>2, RequestLasts DEF IInv
  <1>2. CASE q = Idle
    BY <1>2 DEF Idle, Req, TrueRequest
  <1>3. CASE q = r
    BY <1>3
  <1> QED  BY <1>1, <1>2, <1>3

(* So do the handlers that go on when one ends.                            *)
LEMMA HandlerEnds ==
  ASSUME IInv, TypeOK', Grows, InFlight' \subseteq InFlight \cup {Idle}
  PROVE  \A q \in InFlight' : TrueRequest(q)'
  <1>1. Idle \in Request
    BY NewRequestTypes DEF Kinds
  <1>2. TrueRequest(Idle)'
    BY DEF Idle, Req, TrueRequest
  <1> QED  BY <1>1, <1>2, HandlersGoOn

(* A step that leaves the chain alone leaves its links true.               *)
LEMMA ChainStays ==
  ASSUME IInv, TypeOK', Grows, UNCHANGED chain
  PROVE  (\A k \in Links' : LinkTrue(k)') /\ ChainConnected'
  <1>1. \A k \in Links' : k \in Links /\ k \in Link
    BY DEF IInv, TypeOK, Links
  <1>2. \A k \in Links' : LinkTrue(k)'
    BY <1>1, LinkLasts DEF IInv
  <1> QED  BY <1>2 DEF IInv, ChainConnected

(* A step that inserts a placed link that is true keeps the chain.         *)
LEMMA ChainGoesOn ==
  ASSUME IInv, TypeOK', Grows, NEW q \in Request, InsertLink(q), OnChain(q.seq, q.prev),
         q.session # None => /\ q.session \in waited' /\ Backed(q.session)'
                             /\ q.who # {} /\ q.who \subseteq contributed'[q.session]
  PROVE  (\A k \in Links' : LinkTrue(k)') /\ ChainConnected'
  <1> DEFINE new == [seq |-> q.seq, prev |-> q.prev, session |-> q.session, backers |-> q.who]
             n == Len(chain)
  <1>1. /\ chain \in Seq(Link) /\ chain' \in Seq(Link)
        /\ n \in Nat /\ Len(chain') = n + 1
        /\ \A i \in 1..n : chain'[i] = chain[i]
        /\ chain'[n + 1] = new
    BY InsertType DEF IInv, TypeOK
  <1>2. LinkTrue(new)'
    BY DEF LinkTrue
  <1>3. \A k \in Links' : k = new \/ (k \in Links /\ k \in Link)
    BY <1>1 DEF Links
  <1>4. \A k \in Links' : LinkTrue(k)'
    BY <1>2, <1>3, LinkLasts DEF IInv
  <1>5. ASSUME NEW i \in 1..(n + 1)
        PROVE  \/ chain'[i].seq = 0 /\ chain'[i].prev = 0
               \/ /\ chain'[i].prev \in 1..(i - 1)
                  /\ chain'[i].seq = chain'[chain'[i].prev].seq + 1
    <2>1. CASE i \in 1..n
      <3>1. \/ chain[i].seq = 0 /\ chain[i].prev = 0
            \/ chain[i].prev \in 1..(i - 1) /\ chain[i].seq = chain[chain[i].prev].seq + 1
        BY <1>1, <2>1 DEF IInv, ChainConnected
      <3> QED  BY <1>1, <2>1, <3>1
    <2>2. CASE i = n + 1
      <3>1. chain'[i].seq = q.seq /\ chain'[i].prev = q.prev
        BY <1>1, <2>2
      <3> QED  BY <1>1, <2>2, <3>1 DEF OnChain
    <2> QED  BY <1>1, <2>1, <2>2
  <1>6. ChainConnected'
    BY <1>1, <1>5 DEF ChainConnected
  <1> QED  BY <1>4, <1>6

(* A step that only begins a handler.                                      *)
LEMMA BeginKeeps ==
  ASSUME IInv, TypeOK', NEW r \in Request, Start(r), TrueRequest(r),
         UNCHANGED <<status, due, contributed, chain, signalVerified, waited, overridden>>
  PROVE  IInv'
  <1>1. Grows
    BY QuietGrows DEF IInv
  <1>2. TrueRequest(r)'
    BY <1>1, RequestLasts DEF IInv
  <1>3. InFlight' \subseteq InFlight \cup {r, Idle}
    BY OneNewRequest DEF IInv, Start
  <1>4. \A q \in InFlight' : TrueRequest(q)'
    BY <1>1, <1>2, <1>3, HandlersGoOn
  <1>5. \A s \in Sessions : SessionTrue(s)'
    BY DEF IInv, SessionTrue, Backed
  <1> QED  BY <1>1, <1>4, <1>5, ChainStays DEF IInv

(* A step of one handler that goes on, and changes nothing else.           *)
LEMMA GoOnKeeps ==
  ASSUME IInv, TypeOK', NEW w \in Handlers, NEW r \in Request, Become(w, r), TrueRequest(r),
         UNCHANGED <<status, due, contributed, chain, signalVerified, waited, overridden>>
  PROVE  IInv'
  <1>1. Grows
    BY QuietGrows DEF IInv
  <1>2. TrueRequest(r)'
    BY <1>1, RequestLasts DEF IInv
  <1>3. InFlight' \subseteq InFlight \cup {r, Idle}
    BY OneNewRequest DEF IInv
  <1>4. \A q \in InFlight' : TrueRequest(q)'
    BY <1>1, <1>2, <1>3, HandlersGoOn
  <1>5. \A s \in Sessions : SessionTrue(s)'
    BY DEF IInv, SessionTrue, Backed
  <1> QED  BY <1>1, <1>4, <1>5, ChainStays DEF IInv

(* A step that ends a handler, or none, and appends nothing.               *)
LEMMA EndKeeps ==
  ASSUME IInv, TypeOK', Grows, InFlight' \subseteq InFlight \cup {Idle}, UNCHANGED chain,
         \A s \in Sessions : SessionTrue(s)'
  PROVE  IInv'
  BY HandlerEnds, ChainStays DEF IInv

(* What a handler is about to write is written of a session.               *)
LEMMA HasSession ==
  ASSUME IInv, NEW w \in Handlers
  PROVE  /\ reqs[w] \in Request /\ TrueRequest(reqs[w])
         /\ reqs[w].kind \in {"verify", "expire", "cancel", "override", "contribute", "complete"}
              => reqs[w].session \in Sessions
  <1>1. reqs[w] \in InFlight /\ reqs[w] \in Request
    BY DEF InFlight, IInv, TypeOK
  <1>2. TrueRequest(reqs[w])
    BY <1>1 DEF IInv
  <1> QED  BY <1>1, <1>2 DEF TrueRequest, ContributeTrue, CompleteTrue

(* First steps.                                                            *)
LEMMA ReadsKeep ==
  ASSUME IInv, NEW s \in Sessions, NEW h,
         VerifyReads(s) \/ CancelReads(s) \/ OverrideReads(s) \/ CompleteReads(s)
           \/ (h \in Holders /\ ContributeReads(s, h))
  PROVE  IInv'
  <1>1. TypeOK'
    BY ReadsType DEF IInv
  <1>2. \A k \in Kinds : Req(k, s) \in Request
    BY NewRequestTypes
  <1>3. \A k \in {"verify", "expire", "cancel", "override"} : TrueRequest(Req(k, s))
    BY DEF Req, TrueRequest
  <1>4. CASE VerifyReads(s) \/ CancelReads(s) \/ OverrideReads(s)
    <2>1. PICK k \in {"verify", "expire", "cancel", "override"} : Start(Req(k, s))
      BY <1>4 DEF VerifyReads, CancelReads, OverrideReads
    <2>2. Req(k, s) \in Request /\ TrueRequest(Req(k, s))
      BY <1>2, <1>3 DEF Kinds
    <2> QED  BY <1>1, <1>4, <2>1, <2>2, BeginKeeps DEF VerifyReads, CancelReads, OverrideReads
  <1>5. CASE CompleteReads(s)
    <2> DEFINE r == [Req("complete", s) EXCEPT !.phase = "evidence"]
    <2>1. r \in Request
      BY <1>2 DEF Request, Kinds
    <2>2. s \in waited
      BY <1>5 DEF CompleteReads, IInv, SessionTrue
    <2>3. TrueRequest(r)
      BY <2>2 DEF Req, TrueRequest, CompleteTrue
    <2> QED  BY <1>1, <1>5, <2>1, <2>3, BeginKeeps DEF CompleteReads
  <1>6. CASE h \in Holders /\ ContributeReads(s, h)
    <2> DEFINE r == [Req("contribute", s) EXCEPT !.read = status[s], !.who = {h}, !.phase = "tx"]
    <2>1. r \in Request
      BY <1>2, <1>6 DEF Request, Kinds, IInv, TypeOK
    <2>2. s \in signalVerified
      BY <1>6 DEF ContributeReads, IInv, SessionTrue
    <2>3. TrueRequest(r)
      BY <2>2 DEF Req, TrueRequest, ContributeTrue
    <2> QED  BY <1>1, <1>6, <2>1, <2>3, BeginKeeps DEF ContributeReads
  <1> QED  BY <1>4, <1>5, <1>6

(* Verification, expiry, cancellation, override and time.                  *)
LEMMA SessionWritesKeep ==
  ASSUME IInv, NEW w \in Handlers,
         ExpireWrites(w) \/ VerifyWrites(w) \/ CancelWrites(w) \/ OverrideWrites(w)
  PROVE  IInv'
  <1>1. reqs[w].session \in Sessions
    BY HasSession DEF ExpireWrites, VerifyWrites, CancelWrites, OverrideWrites
  <1>2. TypeOK'
    BY <1>1, WritesType DEF IInv
  <1>3. Grows
    BY QuietGrows DEF IInv, ExpireWrites, VerifyWrites, CancelWrites, OverrideWrites
  <1>4. InFlight' \subseteq InFlight \cup {Idle}
    BY OneNewRequest DEF IInv, ExpireWrites, VerifyWrites, CancelWrites, OverrideWrites
  <1>5. UNCHANGED chain
    BY DEF ExpireWrites, VerifyWrites, CancelWrites, OverrideWrites
  <1>6. ASSUME NEW s \in Sessions  PROVE SessionTrue(s)'
    <2>1. SessionTrue(s)
      BY DEF IInv
    <2>2. Backed(s)' = Backed(s)
      BY DEF Backed, ExpireWrites, VerifyWrites, CancelWrites, OverrideWrites
    <2>3. CASE ExpireWrites(w)
      BY <1>1, <2>1, <2>2, <2>3 DEF ExpireWrites, SetStatus, SessionTrue, IInv, TypeOK
    <2>4. CASE VerifyWrites(w)
      BY <1>1, <2>1, <2>2, <2>4 DEF VerifyWrites, SetStatus, SessionTrue, IInv, TypeOK
    <2>5. CASE CancelWrites(w)
      BY <1>1, <2>1, <2>2, <2>5 DEF CancelWrites, SetStatus, SessionTrue, IInv, TypeOK
    <2>6. CASE OverrideWrites(w)
      BY <1>1, <2>1, <2>2, <2>6 DEF OverrideWrites, SetStatus, SessionTrue, IInv, TypeOK
    <2> QED  BY <2>3, <2>4, <2>5, <2>6
  <1> QED  BY <1>2, <1>3, <1>4, <1>5, <1>6, EndKeeps

(* A session begins; its time passes.                                      *)
LEMMA InitiateAndElapseKeep ==
  ASSUME IInv, NEW s \in Sessions, Initiate(s) \/ Elapses(s)
  PROVE  IInv'
  <1>1. TypeOK'
    BY DEF IInv, TypeOK, Initiate, Elapses, SetStatus, Statuses
  <1>2. Grows
    BY QuietGrows DEF IInv, Initiate, Elapses
  <1>3. InFlight' \subseteq InFlight \cup {Idle}
    BY DEF InFlight, Initiate, Elapses
  <1>4. ASSUME NEW t \in Sessions  PROVE SessionTrue(t)'
    <2>1. SessionTrue(t)
      BY DEF IInv
    <2>2. Backed(t)' = Backed(t)
      BY DEF Backed, Initiate, Elapses
    <2> QED  BY <2>1, <2>2 DEF Initiate, Elapses, SetStatus, SessionTrue, IInv, TypeOK
  <1> QED  BY <1>1, <1>2, <1>3, <1>4, EndKeeps DEF Initiate, Elapses

(* The count of a contribution: what it saw only grows until it commits.   *)
LEMMA ContributeCountsKeeps ==
  ASSUME IInv, NEW w \in Handlers, ContributeCounts(w)
  PROVE  IInv'
  <1> DEFINE r == reqs[w]
             s == r.session
             next == [r EXCEPT !.phase = "commit",
                       !.activates = r.read = "verified"
                                     /\ ReachesThreshold(Cardinality(contributed[s] \cup r.who))]
  <1>1. r \in Request /\ TrueRequest(r) /\ s \in Sessions
    BY HasSession DEF ContributeCounts
  <1>2. TypeOK'
    BY <1>1, WritesType DEF IInv
  <1>3. CASE Finish(w)
    <2>1. Grows
      BY QuietGrows DEF IInv, ContributeCounts
    <2>2. InFlight' \subseteq InFlight \cup {Idle}
      BY <1>3, OneNewRequest DEF IInv
    <2>3. \A t \in Sessions : SessionTrue(t)'
      BY DEF IInv, ContributeCounts, SessionTrue, Backed
    <2> QED  BY <1>2, <2>1, <2>2, <2>3, EndKeeps DEF ContributeCounts
  <1>4. CASE Become(w, next)
    <2>1. next \in Request
      BY <1>1, Zenon DEF Request
    <2>2. /\ next.kind = "contribute" /\ next.session = s /\ next.who = r.who
          /\ next.activates => ReachesThreshold(Cardinality(contributed[s] \cup r.who))
      BY <1>1, Zenon DEF Request, ContributeCounts
    <2>3. s \in signalVerified
      BY <1>1 DEF ContributeCounts, TrueRequest, ContributeTrue
    <2>4. TrueRequest(next)
      BY <1>1, <2>2, <2>3 DEF TrueRequest, ContributeTrue, ReachesThreshold
    <2> QED  BY <1>2, <1>4, <2>1, <2>4, GoOnKeeps DEF ContributeCounts
  <1> QED  BY <1>3, <1>4 DEF ContributeCounts

(* A contribution is committed, and activates what it counted enough for.  *)
LEMMA ContributeCommitsKeeps ==
  ASSUME IInv, NEW w \in Handlers, ContributeCommits(w)
  PROVE  IInv'
  <1> DEFINE r == reqs[w]
             s == r.session
  <1>1. r \in Request /\ TrueRequest(r) /\ s \in Sessions
    BY HasSession DEF ContributeCommits
  <1>2. TypeOK'
    BY <1>1, WritesType DEF IInv
  <1>3. Grows
    BY <1>1 DEF ContributeCommits, Grows, IInv, TypeOK
  <1>4. InFlight' \subseteq InFlight \cup {Idle}
    BY OneNewRequest DEF IInv, ContributeCommits
  <1>5. ASSUME NEW t \in Sessions  PROVE SessionTrue(t)'
    <2>1. SessionTrue(t)
      BY DEF IInv
    <2>2. Backed(t) => Backed(t)'
      BY <1>2, <1>3, BackingLasts DEF IInv
    <2>3. CASE status'[t] = status[t]
      BY <2>1, <2>2, <2>3 DEF ContributeCommits, SessionTrue
    <2>4. CASE status'[t] # status[t]
      <3>1. /\ t = s /\ r.activates /\ status'[t] = "active"
            /\ contributed'[s] = contributed[s] \cup r.who
        BY <1>1, <2>4 DEF ContributeCommits, SetStatus, IInv, TypeOK
      <3>2. Cardinality(contributed[s] \cup r.who) >= Threshold /\ s \in signalVerified
        BY <1>1, <3>1 DEF TrueRequest, ContributeTrue, ContributeCommits
      <3>3. Backed(t)'
        BY <3>1, <3>2 DEF Backed
      <3> QED  BY <2>1, <3>1, <3>2, <3>3 DEF ContributeCommits, SessionTrue
    <2> QED  BY <2>3, <2>4
  <1> QED  BY <1>2, <1>3, <1>4, <1>5, EndKeeps DEF ContributeCommits

(* Completion checks its evidence, and reads the head of the chain.        *)
LEMMA CompleteChecksKeep ==
  ASSUME IInv, NEW w \in Handlers, CompleteChecksEvidence(w) \/ CompleteReadsHead(w)
  PROVE  IInv'
  <1> DEFINE r == reqs[w]
             s == r.session
  <1>1. /\ r \in Request /\ TrueRequest(r) /\ s \in Sessions /\ r.kind = "complete"
        /\ UNCHANGED <<status, due, contributed, chain, signalVerified, waited, overridden>>
    BY HasSession DEF CompleteChecksEvidence, CompleteReadsHead
  <1>2. TypeOK' /\ s \in waited
    BY <1>1, WritesType DEF IInv, TrueRequest, CompleteTrue
  <1>3. CASE CompleteChecksEvidence(w) /\ Finish(w)
    <2>1. Grows
      BY <1>1, QuietGrows DEF IInv
    <2>2. InFlight' \subseteq InFlight \cup {Idle}
      BY <1>3, OneNewRequest DEF IInv
    <2>3. \A t \in Sessions : SessionTrue(t)'
      BY <1>1 DEF IInv, SessionTrue, Backed
    <2> QED  BY <1>1, <1>2, <2>1, <2>2, <2>3, EndKeeps
  <1>4. CASE CompleteChecksEvidence(w) /\ ~Finish(w)
    <2>1. PICK named \in SUBSET contributed[s] :
            named # {} /\ Become(w, [r EXCEPT !.who = named, !.phase = "tx"])
      BY <1>4 DEF CompleteChecksEvidence
    <2> DEFINE next == [r EXCEPT !.who = named, !.phase = "tx"]
    <2>2. named \subseteq Holders
      BY <1>1 DEF IInv, TypeOK
    <2>3. next \in Request
      BY <1>1, <2>2 DEF Request
    <2>4. Backed(s)
      BY <1>4 DEF CompleteChecksEvidence, ReachesThreshold, Backed
    <2>5. TrueRequest(next)
      BY <1>1, <1>2, <2>1, <2>4 DEF TrueRequest, CompleteTrue, Request
    <2> QED  BY <1>1, <1>2, <2>1, <2>3, <2>5, GoOnKeeps
  <1>5. CASE CompleteReadsHead(w)
    <2>1. PICK p \in Placed(r) : Become(w, p)
      BY <1>5 DEF CompleteReadsHead
    <2>2. /\ p \in Request /\ OnChain(p.seq, p.prev)
          /\ p = [r EXCEPT !.phase = "commit", !.seq = p.seq, !.prev = p.prev]
      BY <1>1, PlacedType DEF IInv
    <2>3. p.kind = "complete" /\ p.session = s /\ p.who = r.who
      BY <1>1, <2>2 DEF Request
    <2>4. TrueRequest(p)
      BY <1>1, <1>5, <2>2, <2>3 DEF TrueRequest, CompleteTrue, CompleteReadsHead
    <2> QED  BY <1>1, <1>2, <2>1, <2>2, <2>4, GoOnKeeps
  <1> QED  BY <1>3, <1>4, <1>5

(* Both appenders insert a link where they had placed it.                  *)
LEMMA InsertsKeep ==
  ASSUME IInv, NEW w \in Handlers, CompleteCommits(w) \/ AppendInserts(w)
  PROVE  IInv'
  <1>1. PICK q \in Request : q = reqs[w]
    BY HasSession
  <1>2. TrueRequest(q)
    BY <1>1, HasSession
  <1>3. TypeOK'
    BY HasSession, WritesType DEF IInv
  <1>4. InsertLink(q) /\ UNCHANGED <<due, contributed, signalVerified, waited, overridden>>
    BY <1>1 DEF CompleteCommits, AppendInserts
  <1>5. Grows
    <2>1. /\ Len(chain') = Len(chain) + 1
          /\ \A i \in 1..Len(chain) : chain'[i] = chain[i]
      BY <1>4, InsertType DEF IInv
    <2>2. Len(chain) \in Nat
      BY DEF IInv, TypeOK
    <2> QED  BY <1>4, <2>1, <2>2 DEF Grows
  <1>6. InFlight' \subseteq InFlight \cup {Idle}
    BY OneNewRequest DEF IInv, CompleteCommits, AppendInserts
  <1>7. OnChain(q.seq, q.prev)
    BY <1>1, <1>2 DEF TrueRequest, CompleteTrue, CompleteCommits, AppendInserts
  <1>8. q.session # None => /\ q.session \in waited' /\ Backed(q.session)'
                            /\ q.who # {} /\ q.who \subseteq contributed'[q.session]
    <2>1. CASE CompleteCommits(w)
      <3>1. q.kind = "complete" /\ q.phase = "commit"
        BY <1>1, <2>1 DEF CompleteCommits
      <3>2. CompleteTrue(q)
        BY <1>2, <3>1 DEF TrueRequest
      <3> QED  BY <1>4, <3>1, <3>2 DEF CompleteTrue, Backed
    <2>2. CASE AppendInserts(w)
      BY <1>1, <1>2, <2>2 DEF TrueRequest, AppendInserts
    <2> QED  BY <2>1, <2>2
  <1>9. (\A k \in Links' : LinkTrue(k)') /\ ChainConnected'
    BY <1>3, <1>4, <1>5, <1>7, <1>8, ChainGoesOn
  <1>10. ASSUME NEW t \in Sessions  PROVE SessionTrue(t)'
    <2>1. SessionTrue(t) /\ Backed(t)' = Backed(t)
      BY <1>4 DEF IInv, Backed
    <2>2. status'[t] = status[t] \/ status'[t] = "completed"
      BY DEF CompleteCommits, AppendInserts, SetStatus, IInv, TypeOK
    <2> QED  BY <1>4, <2>1, <2>2 DEF SessionTrue
  <1> QED  BY <1>3, <1>5, <1>6, <1>9, <1>10, HandlerEnds DEF IInv

(* Another device reads the head of the chain.                             *)
LEMMA AppendReadsHeadKeeps ==
  ASSUME IInv, AppendReadsHead
  PROVE  IInv'
  <1> DEFINE q == Req("append", None)
  <1>1. q \in Request
    BY NewRequestTypes DEF Kinds
  <1>2. PICK p \in Placed(q) : Start(p)
    BY DEF AppendReadsHead
  <1>3. /\ p \in Request /\ OnChain(p.seq, p.prev)
        /\ p = [q EXCEPT !.phase = "commit", !.seq = p.seq, !.prev = p.prev]
    BY <1>1, PlacedType DEF IInv
  <1>4. p.kind = "append" /\ p.session = None
    BY <1>3 DEF Req
  <1>5. TrueRequest(p)
    BY <1>3, <1>4 DEF TrueRequest
  <1>6. TypeOK'
    <2>1. reqs' \in [Handlers -> Request]
      BY <1>2, <1>3, RequestTypes DEF IInv, Start
    <2> QED  BY <2>1 DEF AppendReadsHead, IInv, TypeOK
  <1> QED  BY <1>2, <1>3, <1>5, <1>6, BeginKeeps DEF AppendReadsHead

(* A restart forgets the handlers.                                         *)
LEMMA CrashKeeps ==
  ASSUME IInv, Crash
  PROVE  IInv'
  <1>1. TypeOK'
    BY NewRequestTypes DEF IInv, TypeOK, Crash, Kinds
  <1>2. Grows
    BY QuietGrows DEF IInv, Crash
  <1>3. InFlight' \subseteq InFlight \cup {Idle}
    BY DEF InFlight, Crash
  <1>4. \A t \in Sessions : SessionTrue(t)'
    BY DEF IInv, Crash, SessionTrue, Backed
  <1> QED  BY <1>1, <1>2, <1>3, <1>4, EndKeeps DEF Crash

----------------------------------------------------------------------------
(* Theorems. *)

(* Nothing is verified, waited for or appended at the beginning.           *)
LEMMA InitIInv == Init => IInv
  <1> SUFFICES ASSUME Init  PROVE IInv
    OBVIOUS
  <1>1. TypeOK
    BY NewRequestTypes DEF Init, TypeOK, Statuses, Kinds
  <1>2. \A s \in Sessions : SessionTrue(s)
    BY DEF Init, SessionTrue
  <1>3. (\A k \in Links : LinkTrue(k)) /\ ChainConnected
    BY DEF Init, Links, ChainConnected
  <1>4. \A r \in InFlight : TrueRequest(r)
    BY DEF Init, InFlight, Idle, Req, TrueRequest
  <1> QED  BY <1>1, <1>2, <1>3, <1>4 DEF IInv

(* Every step keeps the invariant.                                         *)
LEMMA NextIInv == IInv /\ [Next]_vars => IInv'
  <1> SUFFICES ASSUME IInv, [Next]_vars  PROVE IInv'
    OBVIOUS
  <1>1. CASE UNCHANGED vars
    <2>1. TypeOK' /\ InFlight' \subseteq InFlight \cup {Idle}
      BY <1>1 DEF vars, IInv, TypeOK, InFlight
    <2>2. Grows
      BY <1>1, QuietGrows DEF vars, IInv
    <2>3. \A s \in Sessions : SessionTrue(s)'
      BY <1>1 DEF vars, IInv, SessionTrue, Backed
    <2> QED  BY <1>1, <2>1, <2>2, <2>3, EndKeeps DEF vars
  <1>2. ASSUME NEW s \in Sessions, Initiate(s) \/ Elapses(s)  PROVE IInv'
    BY <1>2, InitiateAndElapseKeep
  <1>3. ASSUME NEW s \in Sessions,
               VerifyReads(s) \/ CancelReads(s) \/ OverrideReads(s) \/ CompleteReads(s)
        PROVE IInv'
    BY <1>3, ReadsKeep
  <1>4. ASSUME NEW s \in Sessions, NEW h \in Holders, ContributeReads(s, h)  PROVE IInv'
    BY <1>4, ReadsKeep
  <1>5. ASSUME NEW w \in Handlers,
               ExpireWrites(w) \/ VerifyWrites(w) \/ CancelWrites(w) \/ OverrideWrites(w)
        PROVE IInv'
    BY <1>5, SessionWritesKeep
  <1>6. ASSUME NEW w \in Handlers, ContributeCounts(w) \/ ContributeCommits(w)  PROVE IInv'
    BY <1>6, ContributeCountsKeeps, ContributeCommitsKeeps
  <1>7. ASSUME NEW w \in Handlers, CompleteChecksEvidence(w) \/ CompleteReadsHead(w)  PROVE IInv'
    BY <1>7, CompleteChecksKeep
  <1>8. ASSUME NEW w \in Handlers, CompleteCommits(w) \/ AppendInserts(w)  PROVE IInv'
    BY <1>8, InsertsKeep
  <1>9. CASE AppendReadsHead
    BY <1>9, AppendReadsHeadKeeps
  <1>10. CASE Crash
    BY <1>10, CrashKeeps
  <1> QED
    BY <1>1, <1>2, <1>3, <1>4, <1>5, <1>6, <1>7, <1>8, <1>9, <1>10 DEF Next

(* The inductive invariant: sessions, links and whatever a handler keeps   *)
(* between two awaits of recovery-group.ts speak the truth.                *)
THEOREM InvHolds == Spec => []IInv
  BY InitIInv, NextIInv, PTL DEF Spec

(* Every reachable state has the declared types.                           *)
THEOREM TypeCorrect == Spec => []TypeOK
  <1>1. IInv => TypeOK
    BY DEF IInv
  <1> QED  BY <1>1, InvHolds, PTL

(* completeRecovery adds no device without `threshold` contributions to its*)
(* session, and its link names contributors only.                          *)
THEOREM LinksAreBackedHolds == Spec => []LinksAreBacked
  <1>1. IInv => LinksAreBacked
    BY DEF IInv, TypeOK, Link, Links, LinkTrue, LinksAreBacked, Recoveries, Backed
  <1> QED  BY <1>1, InvHolds, PTL

(* completeRecovery adds no device before a delay has passed that began    *)
(* after the verification.                                                 *)
THEOREM DelayHonouredHolds == Spec => []DelayHonoured
  <1>1. IInv => DelayHonoured
    BY DEF IInv, Links, LinkTrue, DelayHonoured, Recoveries
  <1> QED  BY <1>1, InvHolds, PTL

(* A session is active because of its contributions or of an approver.     *)
THEOREM ActiveIsEarnedHolds == Spec => []ActiveIsEarned
  <1>1. IInv => ActiveIsEarned
    BY DEF IInv, SessionTrue, ActiveIsEarned, Backed
  <1> QED  BY <1>1, InvHolds, PTL

(* Each link of the sigchain continues an earlier one.                     *)
THEOREM ChainConnectedHolds == Spec => []ChainConnected
  <1>1. IInv => ChainConnected
    BY DEF IInv
  <1> QED  BY <1>1, InvHolds, PTL
=============================================================================
