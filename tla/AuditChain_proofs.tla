-------------------------- MODULE AuditChain_proofs --------------------------
(***************************************************************************)
(* What AuditChain guarantees for any writers, clocks, page size and       *)
(* number of entries and restarts, and that it implements AuditTrail.      *)
(***************************************************************************)
EXTENDS AuditChain, FiniteSetTheorems, SequenceTheorems, WellFoundedInduction, TLAPS

(* The types the argument needs. The bounds on times and ids come last, in *)
(* TypeCorrect: nothing else rests on them.                                *)
AnyHash == [id : Nat, actor : Actors, at : Nat, prev : Nat]
AnyPrev == AnyHash \cup {Null}
AnyRow == [id : Nat, actor : Actors \cup {Erased}, at : Nat, prev : AnyPrev,
           hash : AnyHash, erased : BOOLEAN]
AnyWriter == [phase : {"idle", "lock", "tip", "insert"}, tip : AnyPrev, at : Nat]
AnyCheck == [phase : {"idle", "count", "pred", "page"}, offset : Nat, total : Nat, pred : AnyPrev]

Typed ==
  /\ rows \in Seq(AnyRow)
  /\ written \in Nat
  /\ writer \in [Writers -> AnyWriter]
  /\ check \in AnyCheck

(* Whoever has read the tip holds the lock, and while it does the tip      *)
(* stays the last entry, older than the time the new one was stamped with. *)
TipTrue(w) ==
  /\ writer[w].phase \in {"tip", "insert"} => lock = w
  /\ writer[w].phase = "insert" =>
       IF rows = <<>> THEN purged \/ writer[w].tip = Null
       ELSE writer[w].tip = rows[Len(rows)].hash /\ writer[w].at > rows[Len(rows)].at

(* Every call in flight has room for its entry.                            *)
Room == written + Waiting <= MaxEntries

Pristine == ~purged /\ altered = {}

(* What was hashed is what the row holds, unless its author was erased.    *)
RowTrue(r) == ~r.erased => r.hash = HashOf(r.id, r.actor, r.at, r.prev)

RowsTrue ==
  /\ \A i \in DOMAIN rows : RowTrue(rows[i])
  /\ rows # <<>> => rows[1].prev = Null

(* The verification compares its page with the entry before the page.      *)
CheckTrue ==
  /\ check.offset <= Len(rows)
  /\ check.phase = "count" => check.pred = Null
  /\ check.phase = "page" =>
       check.pred = IF check.offset = 0 THEN Null ELSE rows[check.offset].hash

PristineTrue == Pristine => RowsTrue /\ CheckTrue /\ events = {}

(* The inductive invariant.                                                *)
IInv ==
  /\ Typed
  /\ check.phase = "pred" => check.offset > 0
  /\ \A w \in Writers : TipTrue(w)
  /\ Room
  /\ ChainLinked
  /\ PristineTrue

----------------------------------------------------------------------------
(* Sequences. *)

(* Inserting behind the last entry is appending.                           *)
LEMMA InsertLast ==
  ASSUME NEW S, NEW s \in Seq(S), NEW e \in S
  PROVE  InsertAt(s, Len(s) + 1, e) = Append(s, e)
  <1>1. Len(s) \in Nat
    BY LenProperties
  <1>2. SubSeq(s, 1, (Len(s) + 1) - 1) = s
    BY <1>1, SubSeqFull
  <1>3. SubSeq(s, Len(s) + 1, Len(s)) = <<>>
    BY <1>1, SubSeqEmpty
  <1>4. s \o <<e>> \in Seq(S)
    BY AppendIsConcat, AppendProperties
  <1>5. (s \o <<e>>) \o <<>> = s \o <<e>>
    BY <1>4, ConcatEmptySeq
  <1> QED  BY <1>2, <1>3, <1>5, AppendIsConcat DEF InsertAt

(* A sequence is empty when its length is 0, and has a last item otherwise.*)
LEMMA EmptyOrLast ==
  ASSUME NEW S, NEW s \in Seq(S)
  PROVE  /\ s = <<>> <=> Len(s) = 0
         /\ s # <<>> => Len(s) \in 1..Len(s)
  BY EmptySeq, LenProperties

(* What is left of a number when n is taken from it.                       *)
LEMMA Remainder ==
  ASSUME NEW l \in Nat, NEW n \in 1..l
  PROVE  /\ l - n \in 0..l /\ n + (l - n) = l
         /\ (IF n + 1 <= l THEN l - (n + 1) + 1 ELSE 0) = l - n
         /\ l - (n + 1) + 1 = l - n
  OBVIOUS

(* The last entry of a table that is not empty.                            *)
LEMMA LastRow ==
  ASSUME rows \in Seq(AnyRow), rows # <<>>
  PROVE  /\ Len(rows) \in Nat \ {0} /\ rows[Len(rows)] \in AnyRow
         /\ rows[Len(rows)].hash \in AnyHash /\ rows[Len(rows)].at \in Nat
  <1>1. Len(rows) \in Nat \ {0}
    BY EmptySeq
  <1>2. rows[Len(rows)] \in AnyRow
    BY <1>1, ElementOfSeq
  <1> QED  BY <1>1, <1>2 DEF AnyRow

(* The smaller of two numbers.                                             *)
LEMMA MinOfTwo ==
  ASSUME NEW a \in Nat, NEW b \in Nat
  PROVE  Min({a, b}) \in Nat /\ Min({a, b}) <= a /\ Min({a, b}) <= b
  <1>1. \E x \in {a, b} : \A y \in {a, b} : x =< y
    OBVIOUS
  <1>2. Min({a, b}) \in {a, b} /\ \A y \in {a, b} : Min({a, b}) =< y
    BY <1>1 DEF Min
  <1> QED  BY <1>2

----------------------------------------------------------------------------
(* Types: every step keeps them. *)

(* An entry that is written has the type of an entry.                      *)
LEMMA NewRowType ==
  ASSUME NEW id \in Nat, NEW a \in Actors, NEW at \in Nat, NEW prev \in AnyPrev
  PROVE  /\ HashOf(id, a, at, prev) \in AnyHash
         /\ [id |-> id, actor |-> a, at |-> at, prev |-> prev, erased |-> FALSE,
             hash |-> HashOf(id, a, at, prev)] \in AnyRow
  <1>1. prev.id \in Nat
    BY DEF AnyPrev, AnyHash, Null
  <1> QED  BY <1>1 DEF HashOf, AnyHash, AnyRow

(* A new entry goes behind the last one: its time is later than the tip's. *)
LEMMA InsertsLast ==
  ASSUME IInv, AuditConstants, NEW w \in Writers, LogInserts(w)
  PROVE  \E a \in Actors :
           LET e == [id |-> written + 1, actor |-> a, at |-> writer[w].at,
                     prev |-> writer[w].tip, erased |-> FALSE,
                     hash |-> HashOf(written + 1, a, writer[w].at, writer[w].tip)]
           IN e \in AnyRow /\ rows' = Append(rows, e)
  <1>1. /\ writer[w] \in AnyWriter /\ writer[w].at \in Nat /\ writer[w].tip \in AnyPrev
        /\ written + 1 \in Nat /\ rows \in Seq(AnyRow) /\ Len(rows) \in Nat
    BY LenProperties DEF IInv, Typed, AnyWriter
  <1>2. PICK a \in Actors, k \in Places(writer[w].at) :
          rows' = InsertAt(rows, k,
                 [id |-> written + 1, actor |-> a, at |-> writer[w].at,
                  prev |-> writer[w].tip, erased |-> FALSE,
                  hash |-> HashOf(written + 1, a, writer[w].at, writer[w].tip)])
    BY DEF LogInserts
  <1> DEFINE e == [id |-> written + 1, actor |-> a, at |-> writer[w].at,
                   prev |-> writer[w].tip, erased |-> FALSE,
                   hash |-> HashOf(written + 1, a, writer[w].at, writer[w].tip)]
  <1>3. e \in AnyRow
    BY <1>1, NewRowType
  <1>4. k = Len(rows) + 1
    <2>1. k \in 1..(Len(rows) + 1) /\ \A i \in k..Len(rows) : rows[i].at >= writer[w].at
      BY DEF Places
    <2>2. SUFFICES ASSUME k <= Len(rows) PROVE FALSE
      BY <1>1, <2>1
    <2>3. rows # <<>> /\ Len(rows) \in k..Len(rows)
      BY <1>1, <2>1, <2>2, EmptySeq
    <2>4. writer[w].at > rows[Len(rows)].at
      BY <2>3 DEF IInv, TipTrue, LogInserts
    <2> QED  BY <1>1, <2>1, <2>3, <2>4, LastRow
  <1>5. rows' = Append(rows, e)
    BY <1>1, <1>2, <1>3, <1>4, InsertLast
  <1> QED  BY <1>3, <1>5

(* Erasing the entries of an actor changes no more than their author.      *)
LEMMA EraseRows ==
  ASSUME rows \in Seq(AnyRow), NEW a \in Actors, Erase(a)
  PROVE  /\ rows' \in Seq(AnyRow) /\ Len(rows') = Len(rows)
         /\ \A i \in DOMAIN rows :
              /\ rows'[i].id = rows[i].id /\ rows'[i].at = rows[i].at
              /\ rows'[i].prev = rows[i].prev /\ rows'[i].hash = rows[i].hash
              /\ rows'[i] = rows[i] \/ rows'[i].erased
  <1> DEFINE gone(r) == [r EXCEPT !.actor = Erased, !.erased = TRUE]
  <1>1. /\ Len(rows) \in Nat /\ DOMAIN rows = 1..Len(rows)
        /\ \A i \in DOMAIN rows : rows[i] \in AnyRow
    BY LenProperties, ElementOfSeq
  <1>2. \A r \in AnyRow :
          /\ gone(r) \in AnyRow /\ gone(r).id = r.id /\ gone(r).at = r.at
          /\ gone(r).prev = r.prev /\ gone(r).hash = r.hash /\ gone(r).erased
    BY DEF AnyRow
  <1>3. rows' = [i \in DOMAIN rows |-> IF rows[i].actor = a THEN gone(rows[i]) ELSE rows[i]]
    BY DEF Erase
  <1> HIDE DEF gone
  <1>4. rows' \in [1..Len(rows) -> AnyRow]
    BY <1>1, <1>2, <1>3
  <1>5. rows' \in Seq(AnyRow)
    BY <1>1, <1>4, SeqDef
  <1>6. Len(rows') = Len(rows)
    BY <1>1, <1>4, <1>5, LenProperties
  <1> QED  BY <1>1, <1>2, <1>3, <1>5, <1>6

(* Altering an entry keeps its place, its time and both hashes.            *)
LEMMA AlterRows ==
  ASSUME rows \in Seq(AnyRow), NEW i \in DOMAIN rows, Alter(i)
  PROVE  /\ rows' \in Seq(AnyRow) /\ Len(rows') = Len(rows)
         /\ \A j \in DOMAIN rows :
              /\ rows'[j].id = rows[j].id /\ rows'[j].at = rows[j].at
              /\ rows'[j].prev = rows[j].prev /\ rows'[j].hash = rows[j].hash
  <1>1. Len(rows) \in Nat /\ DOMAIN rows = 1..Len(rows) /\ rows[i] \in AnyRow
    BY LenProperties, ElementOfSeq
  <1>2. PICK b \in Actors : rows' = [rows EXCEPT ![i].actor = b]
    BY DEF Alter
  <1> DEFINE e == [rows[i] EXCEPT !.actor = b]
  <1>3. /\ e \in AnyRow /\ e.id = rows[i].id /\ e.at = rows[i].at
        /\ e.prev = rows[i].prev /\ e.hash = rows[i].hash
    BY <1>1 DEF AnyRow
  <1>4. rows' = [rows EXCEPT ![i] = e]
    BY <1>2
  <1> HIDE DEF e
  <1> QED  BY <1>1, <1>3, <1>4, ExceptSeq

(* A purge leaves the entries behind the cutoff, in their order.           *)
LEMMA PurgeRows ==
  ASSUME rows \in Seq(AnyRow), NEW w \in Writers, Purge(w)
  PROVE  \E n \in 1..Len(rows) :
           /\ rows' = SubSeq(rows, n + 1, Len(rows))
           /\ rows' \in Seq(AnyRow) /\ Len(rows') = Len(rows) - n
           /\ \A i \in 1..(Len(rows) - n) : rows'[i] = rows[n + i]
  <1>1. Len(rows) \in Nat /\ DOMAIN rows = 1..Len(rows)
    BY LenProperties
  <1>2. PICK n \in 1..Len(rows) : rows' = SubSeq(rows, n + 1, Len(rows))
    BY <1>1 DEF Purge
  <1>3. \A i \in (n + 1)..Len(rows) : rows[i] \in AnyRow
    BY <1>1, <1>2, ElementOfSeq
  <1>4. n + 1 \in Int /\ Len(rows) \in Int
    BY <1>1, <1>2
  <1>5. /\ rows' \in Seq(AnyRow)
        /\ Len(rows') = IF n + 1 <= Len(rows) THEN Len(rows) - (n + 1) + 1 ELSE 0
        /\ \A i \in 1..(Len(rows) - (n + 1) + 1) : rows'[i] = rows[(n + 1) + i - 1]
    BY <1>2, <1>3, <1>4, SubSeqProperties
  <1>6. Len(rows') = Len(rows) - n
    BY <1>1, <1>5, Remainder
  <1>7. ASSUME NEW i \in 1..(Len(rows) - n) PROVE rows'[i] = rows[n + i]
    <2>1. i \in 1..(Len(rows) - (n + 1) + 1) /\ (n + 1) + i - 1 = n + i
      BY <1>1
    <2> QED  BY <2>1, <1>5
  <1> QED  BY <1>2, <1>5, <1>6, <1>7

----------------------------------------------------------------------------
(* Calls in flight. *)

InFlight == {w \in Writers : writer[w].phase # "idle"}

(* They can be counted.                                                    *)
LEMMA InFlightFinite ==
  ASSUME AuditConstants
  PROVE  IsFiniteSet(InFlight) /\ Waiting = Cardinality(InFlight) /\ Waiting \in Nat
  <1>1. InFlight \subseteq Writers /\ IsFiniteSet(Writers)
    BY DEF InFlight, AuditConstants
  <1>2. IsFiniteSet(InFlight)
    BY <1>1, FS_Subset
  <1> QED  BY <1>2, FS_CardinalityType DEF InFlight, Waiting

(* A call that begins, logging or purging, is one more in flight.          *)
LEMMA BeginsWaiting ==
  ASSUME IInv, AuditConstants, NEW w \in Writers, writer[w] = Resting,
         writer' = [writer EXCEPT ![w].phase = "lock"]
  PROVE  Waiting' = Waiting + 1
  <1>1. InFlight' = InFlight \cup {w} /\ w \notin InFlight
    BY DEF IInv, Typed, AnyWriter, InFlight, Resting
  <1>2. Cardinality(InFlight') = Cardinality(InFlight) + 1
    BY <1>1, InFlightFinite, FS_AddElement
  <1>3. Waiting' = Cardinality(InFlight')
    BY DEF Waiting, InFlight
  <1> QED  BY <1>2, <1>3, InFlightFinite

(* A call whose entry is in is no longer in flight.                        *)
LEMMA EndsWaiting ==
  ASSUME IInv, AuditConstants, NEW w \in Writers, writer[w].phase # "idle",
         writer' = [writer EXCEPT ![w] = Resting]
  PROVE  Waiting' = Waiting - 1 /\ Waiting > 0
  <1>1. InFlight' = InFlight \ {w} /\ w \in InFlight
    BY DEF IInv, Typed, AnyWriter, InFlight, Resting
  <1>2. /\ Cardinality(InFlight') = Cardinality(InFlight) - 1
    BY <1>1, InFlightFinite, FS_RemoveElement
  <1>3. Cardinality(InFlight) # 0
    BY <1>1, InFlightFinite, FS_EmptySet
  <1>4. Waiting' = Cardinality(InFlight')
    BY DEF Waiting, InFlight
  <1> QED  BY <1>2, <1>3, <1>4, InFlightFinite

----------------------------------------------------------------------------
(* Each action keeps the invariant. *)


(* A table that is not touched keeps what is said of the table alone.      *)
LEMMA TableKept ==
  ASSUME IInv, UNCHANGED <<rows, purged, altered>>
  PROVE  ChainLinked' /\ (Pristine' <=> Pristine) /\ (RowsTrue' <=> RowsTrue)
  BY DEF IInv, ChainLinked, Pristine, RowsTrue, RowTrue

(* Nothing is appended at first, and nothing verified.                     *)
LEMMA InitIInv == ASSUME AuditConstants, Init PROVE IInv
  <1>1. Resting \in AnyWriter /\ NoCheck \in AnyCheck /\ rows \in Seq(AnyRow) /\ Len(rows) = 0
    BY EmptySeq DEF Init, Resting, NoCheck, AnyWriter, AnyCheck, AnyPrev
  <1>2. Typed
    BY <1>1 DEF Init, Typed
  <1>3. InFlight = {}
    BY DEF Init, InFlight, Resting
  <1>4. Room
    BY <1>3, FS_EmptySet, InFlightFinite DEF Room, Init, AuditConstants
  <1>5. ChainLinked
    BY <1>1 DEF ChainLinked
  <1>6. PristineTrue
    BY <1>1, LenProperties DEF PristineTrue, RowsTrue, CheckTrue, Init, NoCheck
  <1> QED  BY <1>2, <1>4, <1>5, <1>6 DEF IInv, Init, TipTrue, Resting, NoCheck

(* log() begins: it has not read anything yet.                             *)
LEMMA LogBeginsKeeps ==
  ASSUME IInv, AuditConstants, NEW w \in Writers, LogBegins(w)
  PROVE  IInv'
  <1>1. Typed'
    BY DEF IInv, Typed, LogBegins, AnyWriter
  <1>2. \A u \in Writers : TipTrue(u)'
    BY DEF IInv, Typed, TipTrue, LogBegins
  <1>3. Room'
    <2>1. Waiting' = Waiting + 1
      BY BeginsWaiting DEF LogBegins
    <2> QED  BY <2>1, InFlightFinite DEF IInv, Typed, Room, LogBegins, AuditConstants
  <1>4. PristineTrue'
    BY TableKept DEF IInv, PristineTrue, CheckTrue, LogBegins
  <1> QED  BY <1>1, <1>2, <1>3, <1>4, TableKept DEF IInv, LogBegins

(* The lock is free when it is taken: nobody else has read the tip.        *)
LEMMA LogLocksKeeps ==
  ASSUME IInv, AuditConstants, NEW w \in Writers, LogLocks(w)
  PROVE  IInv'
  <1>1. Typed'
    BY DEF IInv, Typed, LogLocks, AnyWriter
  <1>2. \A u \in Writers : TipTrue(u)'
    BY DEF IInv, Typed, TipTrue, LogLocks, AuditConstants
  <1>3. InFlight' = InFlight
    BY DEF IInv, Typed, InFlight, LogLocks
  <1>4. Room'
    BY <1>3 DEF IInv, Room, Waiting, InFlight, LogLocks
  <1>5. PristineTrue'
    BY TableKept DEF IInv, PristineTrue, CheckTrue, LogLocks
  <1> QED  BY <1>1, <1>2, <1>4, <1>5, TableKept DEF IInv, LogLocks

(* The tip that is read is the last entry, and the stamp is later.         *)
LEMMA LogReadsTipKeeps ==
  ASSUME IInv, AuditConstants, NEW w \in Writers, LogReadsTip(w)
  PROVE  IInv'
  <1>1. PICK now \in 0..MaxClock :
          writer' = [writer EXCEPT ![w] =
            [phase |-> "insert", at |-> Stamped(now),
             tip |-> IF rows = <<>> THEN Null ELSE Last(rows).hash]]
    BY DEF LogReadsTip
  <1>2. now \in Nat /\ rows \in Seq(AnyRow) /\ writer \in [Writers -> AnyWriter]
    BY <1>1 DEF AuditConstants, IInv, Typed
  <1>3. Stamped(now) \in Nat /\ (rows # <<>> => Stamped(now) > rows[Len(rows)].at)
    BY <1>2, LastRow DEF Stamped, Last
  <1>4. (IF rows = <<>> THEN Null ELSE Last(rows).hash) \in AnyPrev
    BY <1>2, LastRow DEF Last, AnyPrev
  <1>5. Typed'
    BY <1>1, <1>2, <1>3, <1>4 DEF IInv, Typed, LogReadsTip, AnyWriter
  <1>6. ASSUME NEW u \in Writers PROVE TipTrue(u)'
    <2>1. CASE u = w
      BY <1>1, <1>2, <1>3, <2>1 DEF IInv, TipTrue, LogReadsTip, Last
    <2>2. CASE u # w
      BY <1>1, <1>2, <2>2 DEF IInv, TipTrue, LogReadsTip
    <2> QED  BY <2>1, <2>2
  <1>7. InFlight' = InFlight
    BY <1>1, <1>2 DEF InFlight, LogReadsTip
  <1>8. Room'
    BY <1>7 DEF IInv, Room, Waiting, InFlight, LogReadsTip
  <1>9. PristineTrue'
    BY TableKept DEF IInv, PristineTrue, CheckTrue, LogReadsTip
  <1> QED  BY <1>5, <1>6, <1>8, <1>9, TableKept DEF IInv, LogReadsTip

(* The new entry continues the tip, which is still the last one.           *)
LEMMA LogInsertsKeeps ==
  ASSUME IInv, AuditConstants, NEW w \in Writers, LogInserts(w)
  PROVE  IInv'
  <1> DEFINE New(a) == [id |-> written + 1, actor |-> a, at |-> writer[w].at,
                        prev |-> writer[w].tip, erased |-> FALSE,
                        hash |-> HashOf(written + 1, a, writer[w].at, writer[w].tip)]
  <1>1. PICK a \in Actors : New(a) \in AnyRow /\ rows' = Append(rows, New(a))
    BY InsertsLast
  <1> DEFINE e == New(a)
  <1>2. e.prev = writer[w].tip /\ e.erased = FALSE /\ RowTrue(e)
    BY DEF RowTrue
  <1> HIDE DEF e, New
  <1>3. /\ rows \in Seq(AnyRow) /\ Len(rows) \in Nat /\ DOMAIN rows = 1..Len(rows)
        /\ writer \in [Writers -> AnyWriter] /\ written \in Nat
    BY LenProperties DEF IInv, Typed
  <1>4. /\ rows' \in Seq(AnyRow) /\ Len(rows') = Len(rows) + 1
        /\ \A i \in 1..Len(rows) : rows'[i] = rows[i]
        /\ rows'[Len(rows) + 1] = e
    BY <1>1, <1>3, AppendProperties DEF e
  <1>5. DOMAIN rows' = 1..(Len(rows) + 1)
    BY <1>4, LenProperties
  <1>6. writer' = [writer EXCEPT ![w] = Resting] /\ Resting \in AnyWriter
    BY DEF LogInserts, Resting, AnyWriter, AnyPrev
  <1>7. Typed'
    BY <1>3, <1>4, <1>6 DEF IInv, Typed, LogInserts
  <1>8. ASSUME NEW u \in Writers PROVE TipTrue(u)'
    <2>1. CASE u = w
      BY <1>3, <1>6, <2>1 DEF TipTrue, Resting
    <2>2. CASE u # w
      <3>1. lock = w /\ writer'[u] = writer[u]
        BY <1>3, <1>6, <2>2 DEF IInv, TipTrue, LogInserts
      <3>2. writer[u].phase \notin {"tip", "insert"}
        BY <2>2, <3>1 DEF IInv, TipTrue
      <3> QED  BY <3>1, <3>2 DEF TipTrue
    <2> QED  BY <2>1, <2>2
  <1>9. Room'
    <2>1. Waiting' = Waiting - 1
      BY <1>6, EndsWaiting DEF LogInserts
    <2> QED  BY <1>3, <2>1, InFlightFinite DEF IInv, Room, LogInserts, AuditConstants
  <1>10. rows # <<>> => e.prev = rows[Len(rows)].hash
    BY <1>2 DEF IInv, TipTrue, LogInserts
  <1>11. ChainLinked'
    <2>1. ASSUME NEW i \in 2..(Len(rows) + 1) PROVE rows'[i].prev = rows'[i - 1].hash
      <3>1. CASE i = Len(rows) + 1
        <4>1. rows # <<>> /\ i - 1 = Len(rows) /\ i - 1 \in 1..Len(rows)
          BY <1>3, <3>1, EmptySeq
        <4> QED  BY <1>4, <1>10, <3>1, <4>1
      <3>2. CASE i # Len(rows) + 1
        <4>1. i \in 2..Len(rows) /\ i \in 1..Len(rows) /\ i - 1 \in 1..Len(rows)
          BY <1>3, <3>2
        <4> QED  BY <1>4, <4>1 DEF IInv, ChainLinked
      <3> QED  BY <3>1, <3>2
    <2> QED  BY <1>4, <2>1 DEF ChainLinked
  <1>12. PristineTrue'
    <2>1. SUFFICES ASSUME Pristine PROVE RowsTrue' /\ CheckTrue' /\ events' = {}
      BY DEF PristineTrue, Pristine, LogInserts
    <2>2. RowsTrue /\ CheckTrue /\ events = {}
      BY <2>1 DEF IInv, PristineTrue
    <2>3. \A i \in DOMAIN rows' : RowTrue(rows'[i])
      BY <1>2, <1>3, <1>4, <1>5, <2>2 DEF RowsTrue
    <2>4. rows'[1].prev = Null
      <3>1. CASE rows = <<>>
        BY <1>2, <1>3, <1>4, <2>1, <3>1, EmptySeq DEF IInv, TipTrue, LogInserts, Pristine
      <3>2. CASE rows # <<>>
        BY <1>3, <1>4, <2>2, <3>2, EmptySeq DEF RowsTrue
      <3> QED  BY <3>1, <3>2
    <2>5. CheckTrue'
      <3>1. check' = check /\ check.offset \in Nat
        BY DEF LogInserts, IInv, Typed, AnyCheck
      <3>2. check.offset # 0 => rows'[check.offset] = rows[check.offset]
        BY <1>3, <1>4, <2>2, <3>1 DEF CheckTrue
      <3> QED  BY <1>3, <1>4, <2>2, <3>1, <3>2 DEF CheckTrue
    <2> QED  BY <2>2, <2>3, <2>4, <2>5 DEF RowsTrue, LogInserts, RowTrue
  <1> QED  BY <1>7, <1>8, <1>9, <1>11, <1>12 DEF IInv, LogInserts

(* Erasing keeps times and hashes, and marks what no longer hashes.        *)
LEMMA EraseKeeps ==
  ASSUME IInv, AuditConstants, NEW a \in Actors, Erase(a)
  PROVE  IInv'
  <1>1. /\ rows \in Seq(AnyRow) /\ Len(rows) \in Nat /\ DOMAIN rows = 1..Len(rows)
    BY LenProperties DEF IInv, Typed
  <1>2. /\ rows' \in Seq(AnyRow) /\ Len(rows') = Len(rows)
        /\ \A i \in 1..Len(rows) :
              /\ rows'[i].at = rows[i].at
              /\ rows'[i].prev = rows[i].prev /\ rows'[i].hash = rows[i].hash
              /\ rows'[i] = rows[i] \/ rows'[i].erased
    BY <1>1, EraseRows
  <1>3. DOMAIN rows' = 1..Len(rows)
    BY <1>2, LenProperties
  <1>4. rows' = <<>> <=> rows = <<>>
    <2>1. rows' \in Seq(AnyRow) /\ Len(rows') = Len(rows)
      BY <1>2
    <2> QED  BY <1>1, <2>1, EmptyOrLast
  <1>5. Typed'
    BY <1>2 DEF IInv, Typed, Erase
  <1>6. ASSUME NEW u \in Writers PROVE TipTrue(u)'
    <2>1. rows # <<>> => Len(rows) \in 1..Len(rows)
      BY <1>1, EmptyOrLast
    <2>2. rows # <<>> => /\ rows'[Len(rows')].hash = rows[Len(rows)].hash
                         /\ rows'[Len(rows')].at = rows[Len(rows)].at
      BY <1>2, <2>1
    <2>3. /\ writer' = writer /\ lock' = lock /\ purged' = purged
          /\ TipTrue(u)
      BY DEF IInv, Erase
    <2> QED  BY <1>4, <2>2, <2>3 DEF TipTrue
  <1>7. Room'
    BY DEF IInv, Room, Waiting, Erase
  <1>8. ChainLinked'
    BY <1>1, <1>2 DEF IInv, ChainLinked
  <1>9. PristineTrue'
    <2>1. SUFFICES ASSUME Pristine PROVE RowsTrue' /\ CheckTrue' /\ events' = {}
      BY DEF PristineTrue, Pristine, Erase
    <2>2. RowsTrue /\ CheckTrue /\ events = {}
      BY <2>1 DEF IInv, PristineTrue
    <2>3. \A i \in DOMAIN rows' : RowTrue(rows'[i])
      BY <1>1, <1>2, <1>3, <2>2 DEF RowsTrue, RowTrue
    <2>4. rows' # <<>> => rows'[1].prev = Null
      BY <1>1, <1>2, <1>4, <2>2, EmptySeq DEF RowsTrue
    <2>5. CheckTrue'
      <3>1. check' = check /\ check.offset \in Nat
        BY DEF Erase, IInv, Typed, AnyCheck
      <3> QED  BY <1>1, <1>2, <2>2, <3>1 DEF CheckTrue
    <2> QED  BY <2>2, <2>3, <2>4, <2>5 DEF RowsTrue, Erase, RowTrue
  <1> QED  BY <1>5, <1>6, <1>7, <1>8, <1>9 DEF IInv, Erase

(* A purge takes the oldest entries, so that the last one stays the last.  *)
LEMMA PurgeKeeps ==
  ASSUME IInv, AuditConstants, NEW w \in Writers, Purge(w)
  PROVE  IInv'
  <1>1. /\ rows \in Seq(AnyRow) /\ Len(rows) \in Nat /\ writer \in [Writers -> AnyWriter]
    BY LenProperties DEF IInv, Typed
  <1>2. PICK n \in 1..Len(rows) :
          /\ rows' \in Seq(AnyRow) /\ Len(rows') = Len(rows) - n
          /\ \A i \in 1..(Len(rows) - n) : rows'[i] = rows[n + i]
    BY <1>1, PurgeRows
  <1>3. rows' # <<>> => Len(rows') # 0 /\ rows'[Len(rows')] = rows[Len(rows)]
    <2>1. rows' # <<>> => Len(rows') \in 1..(Len(rows) - n)
      BY <1>2, EmptyOrLast
    <2>2. n + (Len(rows) - n) = Len(rows)
      BY <1>1, Remainder
    <2>3. rows' # <<>> => rows'[Len(rows')] = rows[n + (Len(rows) - n)]
      BY <1>2, <2>1
    <2>4. rows' # <<>> => Len(rows') # 0
      BY <1>2, EmptyOrLast
    <2> QED  BY <2>2, <2>3, <2>4
  <1>4. rows # <<>> /\ purged'
    BY <1>1, <1>2, EmptySeq DEF Purge
  <1>5. Typed'
    BY <1>1, <1>2 DEF IInv, Typed, Purge, AnyWriter
  <1>6. ASSUME NEW u \in Writers PROVE TipTrue(u)'
    <2>1. CASE u = w
      BY <1>1, <2>1 DEF TipTrue, Purge
    <2>2. CASE u # w
      <3>1. writer'[u] = writer[u] /\ lock' = lock
        BY <1>1, <2>2 DEF Purge
      <3> QED  BY <1>3, <1>4, <3>1 DEF IInv, TipTrue
    <2> QED  BY <2>1, <2>2
  <1>7. Room'
    <2>1. Waiting' = Waiting + 1
      BY BeginsWaiting DEF Purge
    <2> QED  BY <2>1, InFlightFinite DEF IInv, Typed, Room, Purge, AuditConstants
  <1>8. ChainLinked'
    <2>1. ASSUME NEW i \in 2..(Len(rows) - n) PROVE rows'[i].prev = rows'[i - 1].hash
      <3>1. /\ i \in 1..(Len(rows) - n) /\ i - 1 \in 1..(Len(rows) - n)
            /\ n + i \in 2..Len(rows) /\ n + (i - 1) = (n + i) - 1
        BY <1>1, <1>2
      <3>2. rows[n + i].prev = rows[(n + i) - 1].hash
        BY <3>1 DEF IInv, ChainLinked
      <3> QED  BY <1>2, <3>1, <3>2
    <2> QED  BY <1>2, <2>1 DEF ChainLinked
  <1> QED  BY <1>4, <1>5, <1>6, <1>7, <1>8 DEF IInv, PristineTrue, Pristine, Purge

(* Altering an entry moves nothing, and nothing is claimed of it then.     *)
LEMMA AlterKeeps ==
  ASSUME IInv, AuditConstants, NEW i \in DOMAIN rows, Alter(i)
  PROVE  IInv'
  <1>1. rows \in Seq(AnyRow) /\ Len(rows) \in Nat /\ DOMAIN rows = 1..Len(rows)
    BY LenProperties DEF IInv, Typed
  <1>2. /\ rows' \in Seq(AnyRow) /\ Len(rows') = Len(rows)
        /\ \A j \in 1..Len(rows) :
             /\ rows'[j].at = rows[j].at
             /\ rows'[j].prev = rows[j].prev /\ rows'[j].hash = rows[j].hash
    BY <1>1, AlterRows
  <1>3. rows' = <<>> <=> rows = <<>>
    <2>1. rows' \in Seq(AnyRow) /\ Len(rows') = Len(rows)
      BY <1>2
    <2> QED  BY <1>1, <2>1, EmptyOrLast
  <1>4. Typed'
    BY <1>2 DEF IInv, Typed, Alter
  <1>5. ASSUME NEW u \in Writers PROVE TipTrue(u)'
    <2>1. rows # <<>> => Len(rows) \in 1..Len(rows)
      BY <1>1, EmptyOrLast
    <2> QED  BY <1>2, <1>3, <2>1 DEF IInv, TipTrue, Alter
  <1>6. Room'
    BY DEF IInv, Room, Waiting, Alter
  <1>7. ChainLinked'
    BY <1>1, <1>2 DEF IInv, ChainLinked
  <1> QED  BY <1>4, <1>5, <1>6, <1>7 DEF IInv, PristineTrue, Pristine, Alter

(* What a step of the verification leaves alone.                           *)
LEMMA CheckingKeeps ==
  ASSUME IInv, UNCHANGED <<rows, written, lock, writer, purged, altered>>,
         check' \in AnyCheck, check'.phase = "pred" => check'.offset > 0,
         Pristine => CheckTrue' /\ events' = {}
  PROVE  IInv'
  <1>1. (\A u \in Writers : TipTrue(u)') /\ Room' /\ Typed'
    BY DEF IInv, TipTrue, Room, Waiting, Typed
  <1>2. PristineTrue'
    BY TableKept DEF IInv, PristineTrue
  <1> QED  BY <1>1, <1>2, TableKept DEF IInv

(* No verification.                                                        *)
LEMMA NoCheckTrue ==
  ASSUME rows' \in Seq(AnyRow), check' = NoCheck
  PROVE  check' \in AnyCheck /\ check'.phase # "pred" /\ CheckTrue'
  BY LenProperties DEF NoCheck, AnyCheck, AnyPrev, CheckTrue

(* A verification begins, with nothing before its first page.              *)
LEMMA CheckBeginsKeeps ==
  ASSUME IInv, CheckBegins
  PROVE  IInv'
  <1>1. /\ check' = [NoCheck EXCEPT !.phase = "count"]
        /\ UNCHANGED <<rows, written, lock, writer, events, purged, altered>>
    BY DEF CheckBegins
  <1>2. check' \in AnyCheck /\ check'.phase # "pred"
    BY <1>1 DEF NoCheck, AnyCheck, AnyPrev
  <1>3. CheckTrue'
    BY <1>1, LenProperties DEF IInv, Typed, NoCheck, CheckTrue
  <1> QED  BY <1>1, <1>2, <1>3, CheckingKeeps DEF IInv, PristineTrue

(* Rows are counted, page by page.                                         *)
LEMMA CheckCountsKeeps ==
  ASSUME IInv, CheckCounts
  PROVE  IInv'
  <1>1. /\ UNCHANGED <<rows, written, lock, writer, purged, altered>>
        /\ rows \in Seq(AnyRow) /\ Len(rows) \in Nat /\ check \in AnyCheck /\ check.phase = "count"
    BY LenProperties DEF CheckCounts, IInv, Typed
  <1>2. CASE rows = <<>>
    <2>1. check' = NoCheck /\ events' = events
      BY <1>2 DEF CheckCounts, Clean
    <2> QED  BY <1>1, <2>1, NoCheckTrue, CheckingKeeps DEF IInv, PristineTrue
  <1>3. CASE rows # <<>>
    <2>1. /\ events' = events
          /\ check' = [check EXCEPT !.total = Len(rows),
                                    !.phase = IF check.offset > 0 THEN "pred" ELSE "page"]
      BY <1>3 DEF CheckCounts
    <2>2. check' \in AnyCheck /\ (check'.phase = "pred" => check'.offset > 0)
      BY <1>1, <2>1 DEF AnyCheck
    <2>3. Pristine => CheckTrue'
      BY <1>1, <2>1 DEF IInv, PristineTrue, CheckTrue, AnyCheck
    <2> QED  BY <1>1, <2>1, <2>2, <2>3, CheckingKeeps DEF IInv, PristineTrue
  <1> QED  BY <1>2, <1>3

(* The hash the page must continue is the one before the page.             *)
LEMMA CheckReadsPredecessorKeeps ==
  ASSUME IInv, CheckReadsPredecessor
  PROVE  IInv'
  <1> DEFINE p == IF check.offset <= Len(rows) THEN rows[check.offset].hash ELSE Null
  <1>1. /\ UNCHANGED <<rows, written, lock, writer, purged, altered, events>>
        /\ rows \in Seq(AnyRow) /\ Len(rows) \in Nat /\ check \in AnyCheck
        /\ check.offset \in Nat /\ check.offset > 0
    BY LenProperties DEF CheckReadsPredecessor, IInv, Typed, AnyCheck
  <1>2. p \in AnyPrev
    <2>1. check.offset <= Len(rows) => rows[check.offset] \in AnyRow
      BY <1>1, ElementOfSeq
    <2> QED  BY <2>1 DEF AnyPrev, AnyRow
  <1>3. check' = [check EXCEPT !.phase = "page", !.pred = p]
    BY DEF CheckReadsPredecessor
  <1> HIDE DEF p
  <1>4. check' \in AnyCheck /\ check'.phase = "page" /\ check'.pred = p /\ check'.offset = check.offset
    BY <1>1, <1>2, <1>3 DEF AnyCheck
  <1>5. Pristine => CheckTrue'
    BY <1>1, <1>4 DEF IInv, PristineTrue, CheckTrue, p
  <1> QED  BY <1>1, <1>4, <1>5, CheckingKeeps DEF IInv, PristineTrue

(* The page is what the table holds from the offset on.                    *)
LEMMA PageRows ==
  ASSUME rows \in Seq(AnyRow), check \in AnyCheck, AuditConstants
  PROVE  /\ Len(Page) \in Nat /\ DOMAIN Page = 1..Len(Page)
         /\ Page # <<>> => check.offset + Len(Page) <= Len(rows)
         /\ Page = <<>> <=> Len(Page) = 0
         /\ \A i \in 1..Len(Page) : Page[i] = rows[check.offset + i]
  <1> DEFINE m == check.offset + 1
             n == Min({check.offset + PageSize, Len(rows)})
  <1>1. check.offset \in Nat /\ Len(rows) \in Nat /\ check.offset + PageSize \in Nat
    BY LenProperties DEF AnyCheck, AuditConstants
  <1>2. n \in Nat /\ n <= Len(rows)
    BY <1>1, MinOfTwo
  <1> HIDE DEF n
  <1>3. Page = SubSeq(rows, m, n)
    BY DEF Page, n
  <1>4. \A i \in m..n : rows[i] \in AnyRow
    BY <1>1, <1>2, ElementOfSeq
  <1>5. /\ Page \in Seq(AnyRow)
        /\ Len(Page) = IF m <= n THEN n - m + 1 ELSE 0
        /\ \A i \in 1..(n - m + 1) : Page[i] = rows[m + i - 1]
    <2>1. m \in Int /\ n \in Int
      BY <1>1, <1>2
    <2> HIDE DEF m
    <2> QED  BY <2>1, <1>3, <1>4, SubSeqProperties
  <1>6. ASSUME NEW i \in 1..Len(Page) PROVE Page[i] = rows[check.offset + i]
    <2>1. i \in 1..(n - m + 1) /\ m + i - 1 = check.offset + i
      BY <1>1, <1>2, <1>5
    <2> QED  BY <2>1, <1>5
  <1>7. Page = <<>> <=> Len(Page) = 0
    BY <1>5, EmptySeq
  <1> QED  BY <1>1, <1>2, <1>5, <1>6, <1>7, LenProperties

(* While nobody has purged or altered anything, no page breaks.            *)
LEMMA PristinePage ==
  ASSUME IInv, AuditConstants, Pristine, check.phase = "page"
  PROVE  Broken(Page) = {}
  <1>1. /\ rows \in Seq(AnyRow) /\ check \in AnyCheck /\ check.offset \in Nat
        /\ Len(rows) \in Nat /\ DOMAIN rows = 1..Len(rows) /\ RowsTrue /\ CheckTrue
    BY LenProperties DEF IInv, Typed, AnyCheck, PristineTrue
  <1>2. SUFFICES ASSUME NEW i \in 1..Len(Page) PROVE ~Breaks(Page, i)
    BY <1>1, PageRows DEF Broken
  <1>3. /\ check.offset + i \in 1..Len(rows) /\ Page[i] = rows[check.offset + i]
        /\ RowTrue(Page[i]) /\ i \in Nat \ {0} /\ Len(Page) \in Nat
    <2>1. Page # <<>> /\ Len(Page) \in Nat
      BY <1>1, PageRows
    <2>2. check.offset + i \in 1..Len(rows)
      BY <1>1, <2>1, PageRows
    <2> QED  BY <1>1, <2>1, <2>2, PageRows DEF RowsTrue
  <1>4. Page[i].prev = IF i = 1 THEN check.pred ELSE Page[i - 1].hash
    <2>1. CASE i = 1 /\ check.offset = 0
      BY <1>1, <1>3, <2>1, EmptySeq DEF RowsTrue, CheckTrue
    <2>2. CASE i = 1 /\ check.offset # 0
      <3>1. check.offset + 1 \in 2..Len(rows) /\ (check.offset + 1) - 1 = check.offset
        BY <1>1, <1>3, <2>2
      <3>2. rows[check.offset + 1].prev = rows[check.offset].hash
        BY <3>1 DEF IInv, ChainLinked
      <3> QED  BY <1>1, <1>3, <2>2, <3>2 DEF CheckTrue
    <2>3. CASE i # 1
      <3>1. /\ i - 1 \in 1..Len(Page) /\ check.offset + i \in 2..Len(rows)
            /\ (check.offset + i) - 1 = check.offset + (i - 1)
        <4>1. check.offset \in Nat /\ Len(rows) \in Nat /\ Len(Page) \in Nat
          BY <1>1, <1>3
        <4>2. i \in 2..Len(Page) /\ check.offset + i <= Len(rows)
          BY <1>3, <2>3, <4>1
        <4> QED  BY <4>1, <4>2
      <3>2. Page[i - 1] = rows[check.offset + (i - 1)]
        BY <1>1, <3>1, PageRows
      <3> QED  BY <1>3, <2>3, <3>1, <3>2 DEF IInv, ChainLinked
    <2> QED  BY <2>1, <2>2, <2>3
  <1> QED  BY <1>3, <1>4 DEF Breaks, RowTrue

(* A page that is clean leads to the next one.                             *)
LEMMA CheckReadsPageKeeps ==
  ASSUME IInv, AuditConstants, CheckReadsPage
  PROVE  IInv'
  <1>1. /\ UNCHANGED <<rows, written, lock, writer, purged, altered>>
        /\ rows \in Seq(AnyRow) /\ Len(rows) \in Nat /\ check \in AnyCheck
        /\ check.offset \in Nat /\ check.phase = "page"
    BY LenProperties DEF CheckReadsPage, IInv, Typed, AnyCheck
  <1>2. Pristine => Broken(Page) = {} /\ events = {}
    BY <1>1, PristinePage DEF IInv, PristineTrue
  <1>3. CASE Broken(Page) # {}
    <2>1. check' = NoCheck /\ ~Pristine
      BY <1>2, <1>3 DEF CheckReadsPage, Report
    <2> QED  BY <1>1, <2>1, NoCheckTrue, CheckingKeeps
  <1>4. CASE Broken(Page) = {} /\ (Page = <<>> \/ check.offset + Len(Page) >= check.total)
    <2>1. check' = NoCheck /\ events' = events
      BY <1>4 DEF CheckReadsPage, Clean
    <2> QED  BY <1>1, <1>2, <2>1, NoCheckTrue, CheckingKeeps
  <1>5. CASE Broken(Page) = {} /\ ~(Page = <<>> \/ check.offset + Len(Page) >= check.total)
    <2> DEFINE next == check.offset + Len(Page)
    <2>1. check' = [NoCheck EXCEPT !.phase = "count", !.offset = next] /\ events' = events
      BY <1>5 DEF CheckReadsPage
    <2>2. next \in Nat /\ next <= Len(rows)
      BY <1>1, <1>5, PageRows
    <2> HIDE DEF next
    <2>3. /\ check' \in AnyCheck /\ check'.phase = "count"
          /\ check'.offset = next /\ check'.pred = Null
      BY <2>1, <2>2 DEF NoCheck, AnyCheck, AnyPrev
    <2>4. CheckTrue'
      BY <1>1, <2>2, <2>3 DEF CheckTrue
    <2> QED  BY <1>1, <1>2, <2>1, <2>3, <2>4, CheckingKeeps
  <1> QED  BY <1>3, <1>4, <1>5

(* After a restart nothing is in flight.                                   *)
LEMMA CrashKeeps ==
  ASSUME IInv, AuditConstants, Crash
  PROVE  IInv'
  <1>1. /\ UNCHANGED <<rows, written, events, purged, altered>>
        /\ writer' = [w \in Writers |-> Resting] /\ check' = NoCheck
    BY DEF Crash
  <1>2. rows' \in Seq(AnyRow)
    BY <1>1 DEF IInv, Typed
  <1>3. Typed'
    BY <1>1, <1>2, NoCheckTrue DEF IInv, Typed, Resting, AnyWriter, AnyPrev
  <1>4. \A u \in Writers : TipTrue(u)'
    BY <1>1 DEF TipTrue, Resting
  <1>5. Room'
    <2>1. InFlight' = {}
      BY <1>1 DEF InFlight, Resting
    <2>2. Waiting' = 0
      BY <2>1, FS_EmptySet DEF Waiting, InFlight
    <2> QED  BY <1>1, <2>2, InFlightFinite DEF IInv, Typed, Room, AuditConstants
  <1>6. PristineTrue'
    BY <1>1, <1>2, NoCheckTrue, TableKept DEF IInv, PristineTrue
  <1> QED  BY <1>1, <1>2, <1>3, <1>4, <1>5, <1>6, NoCheckTrue, TableKept DEF IInv

(* The invariant is inductive.                                             *)
LEMMA NextIInv ==
  ASSUME IInv, AuditConstants, [Next]_vars
  PROVE  IInv'
  <1>1. CASE UNCHANGED vars
    <2>1. (\A u \in Writers : TipTrue(u)') /\ Room' /\ Typed' /\ PristineTrue' /\ ChainLinked'
      BY <1>1 DEF IInv, vars, TipTrue, Room, Waiting, Typed, PristineTrue, Pristine,
                  RowsTrue, RowTrue, CheckTrue, ChainLinked
    <2> QED  BY <1>1, <2>1 DEF IInv, vars
  <1>2. CASE \E w \in Writers : LogBegins(w)
    BY <1>2, LogBeginsKeeps
  <1>3. CASE \E w \in Writers : LogLocks(w)
    BY <1>3, LogLocksKeeps
  <1>4. CASE \E w \in Writers : LogReadsTip(w)
    BY <1>4, LogReadsTipKeeps
  <1>5. CASE \E w \in Writers : LogInserts(w)
    BY <1>5, LogInsertsKeeps
  <1>6. CASE \E w \in Writers : Purge(w)
    BY <1>6, PurgeKeeps
  <1>7. CASE \E a \in Actors : Erase(a)
    BY <1>7, EraseKeeps
  <1>8. CASE \E i \in DOMAIN rows : Alter(i)
    BY <1>8, AlterKeeps
  <1>9. CASE CheckBegins
    BY <1>9, CheckBeginsKeeps
  <1>10. CASE CheckStep
    BY <1>10, CheckCountsKeeps, CheckReadsPredecessorKeeps, CheckReadsPageKeeps DEF CheckStep
  <1>11. CASE Crash
    BY <1>11, CrashKeeps
  <1> QED  BY <1>1, <1>2, <1>3, <1>4, <1>5, <1>6, <1>7, <1>8, <1>9, <1>10, <1>11 DEF Next

(* The inductive invariant: whoever has read the tip holds the lock, the   *)
(* tip stays the last entry until the new one is in, and, while nothing    *)
(* was purged or altered, every row hashes and every page continues.       *)
THEOREM InvHolds == Spec => []IInv
  BY InitIInv, NextIInv, AuditConstants, PTL DEF Spec

(* log() never forks the chain: whoever appends, and whatever the clocks   *)
(* say, each entry continues the one created_at puts before it.            *)
THEOREM ChainLinkedHolds == Spec => []ChainLinked
  <1>1. IInv => ChainLinked
    BY DEF IInv
  <1> QED  BY <1>1, InvHolds, PTL

(* verifyFullChain raises no false alarm, however appends, erasures and    *)
(* restarts come between its queries.                                      *)
THEOREM AlarmsAreMeantHolds == Spec => []AlarmsAreMeant
  <1>1. IInv => AlarmsAreMeant
    BY DEF IInv, PristineTrue, Pristine, AlarmsAreMeant
  <1> QED  BY <1>1, InvHolds, PTL

----------------------------------------------------------------------------
(* The chain implements the abstract trail. *)

IdsOf(s) == [i \in DOMAIN s |-> s[i].id]

(* The ids of a table are a sequence.                                      *)
LEMMA IdsAreASequence ==
  ASSUME NEW s \in Seq(AnyRow)
  PROVE  /\ IdsOf(s) \in Seq(Nat) /\ Len(IdsOf(s)) = Len(s) /\ Len(s) \in Nat
         /\ \A i \in 1..Len(s) : IdsOf(s)[i] = s[i].id
  <1>1. Len(s) \in Nat /\ DOMAIN s = 1..Len(s) /\ \A i \in 1..Len(s) : s[i] \in AnyRow
    BY LenProperties, ElementOfSeq
  <1>2. IdsOf(s) \in [1..Len(s) -> Nat]
    BY <1>1 DEF IdsOf, AnyRow
  <1>3. IdsOf(s) \in Seq(Nat)
    BY <1>1, <1>2, SeqDef
  <1> QED  BY <1>1, <1>2, <1>3, LenProperties DEF IdsOf

(* Tables with the same ids in the same places show the same trail.        *)
LEMMA SameIds ==
  ASSUME NEW s \in Seq(AnyRow), NEW t \in Seq(AnyRow), Len(t) = Len(s),
         \A i \in 1..Len(s) : t[i].id = s[i].id
  PROVE  IdsOf(t) = IdsOf(s)
  BY IdsAreASequence, SeqEqual

(* An insert is recorded last.                                             *)
LEMMA InsertRecords ==
  ASSUME IInv, AuditConstants, NEW w \in Writers, LogInserts(w)
  PROVE  written + 1 \in Ids /\ IdsOf(rows') = Append(IdsOf(rows), written + 1)
  <1>1. rows \in Seq(AnyRow) /\ Len(rows) \in Nat /\ written + 1 \in Nat
    BY LenProperties DEF IInv, Typed
  <1>2. written + 1 \in Ids
    <2>1. Waiting > 0
      BY EndsWaiting DEF LogInserts
    <2> QED  BY <2>1, InFlightFinite DEF IInv, Typed, Room, Ids, AuditConstants
  <1>3. PICK e \in AnyRow : e.id = written + 1 /\ rows' = Append(rows, e)
    BY InsertsLast
  <1>4. /\ rows' \in Seq(AnyRow) /\ Len(rows') = Len(rows) + 1
        /\ \A i \in 1..Len(rows) : rows'[i] = rows[i]
        /\ rows'[Len(rows) + 1] = e
    BY <1>1, <1>3, AppendProperties
  <1> DEFINE t == Append(IdsOf(rows), written + 1)
  <1>5. IdsOf(rows) \in Seq(Nat) /\ Len(IdsOf(rows)) = Len(rows)
    BY <1>1, IdsAreASequence
  <1>6. /\ t \in Seq(Nat) /\ Len(t) = Len(rows) + 1 /\ t[Len(rows) + 1] = written + 1
        /\ \A i \in 1..Len(rows) : t[i] = rows[i].id
    BY <1>1, <1>5, AppendProperties, IdsAreASequence
  <1> HIDE DEF t
  <1>7. /\ IdsOf(rows') \in Seq(Nat) /\ Len(IdsOf(rows')) = Len(rows) + 1
        /\ \A i \in 1..(Len(rows) + 1) : IdsOf(rows')[i] = rows'[i].id
    BY <1>4, IdsAreASequence
  <1>8. ASSUME NEW i \in 1..(Len(rows) + 1) PROVE IdsOf(rows')[i] = t[i]
    <2>1. CASE i = Len(rows) + 1
      BY <1>3, <1>4, <1>6, <1>7, <2>1
    <2>2. CASE i # Len(rows) + 1
      <3>1. i \in 1..Len(rows)
        BY <1>1, <2>2
      <3> QED  BY <1>4, <1>6, <1>7, <3>1
    <2> QED  BY <2>1, <2>2
  <1>9. IdsOf(rows') = t
    BY <1>6, <1>7, <1>8, SeqEqual
  <1> QED  BY <1>2, <1>9 DEF t

(* A purge forgets the oldest.                                             *)
LEMMA PurgeForgets ==
  ASSUME IInv, NEW w \in Writers, Purge(w)
  PROVE  \E n \in 1..Len(IdsOf(rows)) :
           IdsOf(rows') = SubSeq(IdsOf(rows), n + 1, Len(IdsOf(rows)))
  <1>1. /\ rows \in Seq(AnyRow) /\ Len(rows) \in Nat
        /\ IdsOf(rows) \in Seq(Nat) /\ Len(IdsOf(rows)) = Len(rows)
        /\ \A i \in 1..Len(rows) : IdsOf(rows)[i] = rows[i].id
    BY IdsAreASequence DEF IInv, Typed
  <1>2. PICK n \in 1..Len(rows) :
          /\ rows' \in Seq(AnyRow) /\ Len(rows') = Len(rows) - n
          /\ \A i \in 1..(Len(rows) - n) : rows'[i] = rows[n + i]
    BY <1>1, PurgeRows
  <1> DEFINE s == IdsOf(rows)
             m == n + 1
             t == SubSeq(s, m, Len(s))
  <1>3. m \in Int /\ Len(s) \in Int /\ \A i \in m..Len(s) : s[i] \in Nat
    BY <1>1, <1>2, ElementOfSeq
  <1>4. /\ t \in Seq(Nat)
        /\ Len(t) = IF m <= Len(s) THEN Len(s) - m + 1 ELSE 0
        /\ \A i \in 1..(Len(s) - m + 1) : t[i] = s[m + i - 1]
    <2> HIDE DEF m, s
    <2> QED  BY <1>3, SubSeqProperties
  <1>5. /\ IdsOf(rows') \in Seq(Nat) /\ Len(IdsOf(rows')) = Len(rows) - n
        /\ \A i \in 1..(Len(rows) - n) : IdsOf(rows')[i] = rows'[i].id
    BY <1>2, IdsAreASequence
  <1>6. Len(t) = Len(rows) - n
    BY <1>1, <1>4, Remainder
  <1> HIDE DEF t
  <1>7. ASSUME NEW i \in 1..(Len(rows) - n) PROVE IdsOf(rows')[i] = t[i]
    <2>1. i \in 1..(Len(s) - m + 1) /\ m + i - 1 = n + i /\ n + i \in 1..Len(rows)
      BY <1>1, <1>2
    <2>2. t[i] = s[n + i]
      BY <1>4, <2>1
    <2> QED  BY <1>1, <1>2, <1>5, <2>1, <2>2
  <1>8. IdsOf(rows') = t
    BY <1>4, <1>5, <1>6, <1>7, SeqEqual
  <1> QED  BY <1>1, <1>8 DEF t

(* Each step of the chain is a step of the trail, or none.                 *)
LEMMA StepKeepsTrail ==
  ASSUME IInv, AuditConstants, [Next]_vars
  PROVE  \/ \E e \in Ids : IdsOf(rows') = Append(IdsOf(rows), e)
         \/ \E n \in 1..Len(IdsOf(rows)) :
              IdsOf(rows') = SubSeq(IdsOf(rows), n + 1, Len(IdsOf(rows)))
         \/ IdsOf(rows') = IdsOf(rows)
  <1>1. rows \in Seq(AnyRow) /\ DOMAIN rows = 1..Len(rows)
    BY LenProperties DEF IInv, Typed
  <1>2. CASE \E w \in Writers : LogInserts(w)
    BY <1>2, InsertRecords
  <1>3. CASE \E w \in Writers : Purge(w)
    BY <1>3, PurgeForgets
  <1>4. CASE \E a \in Actors : Erase(a)
    BY <1>1, <1>4, EraseRows, SameIds
  <1>5. CASE \E i \in DOMAIN rows : Alter(i)
    BY <1>1, <1>5, AlterRows, SameIds
  <1>6. CASE rows' = rows
    BY <1>6
  <1> QED
    BY <1>2, <1>3, <1>4, <1>5, <1>6
    DEF Next, vars, LogBegins, LogLocks, LogReadsTip, CheckBegins, CheckStep, CheckCounts,
        CheckReadsPredecessor, CheckReadsPage, Crash

(* The refinement: whatever writers, clocks, erasures and purges do, the   *)
(* table shows the entries in the order of their commits, and only the     *)
(* oldest leave, so that created_at alone recovers the append order.       *)
THEOREM TrailImplemented == Spec => KeepsTheTrail
  <1>1. Init => Trail!TrailInit
    BY DEF Init, Trail!TrailInit
  <1>2. IInv /\ AuditConstants /\ [Next]_vars => [Trail!TrailNext]_(IdsOf(rows))
    BY StepKeepsTrail DEF Trail!TrailNext, Trail!Record, Trail!Forget, IdsOf
  <1> QED
    BY <1>1, <1>2, InvHolds, AuditConstants, PTL DEF Spec, KeepsTheTrail, Trail!TrailSpec, IdsOf

----------------------------------------------------------------------------
(* The types in their bounds. *)

(* A set of numbers that is not empty has a least one: of the intervals    *)
(* 1..n that it spans, none is below all the others but a minimal one.     *)
LEMMA LeastNumber ==
  ASSUME NEW T \in SUBSET Nat, T # {}
  PROVE  \E m \in T : \A n \in T : m <= n
<1> DEFINE Spans == {1..n : n \in T}
<1>1. Spans \subseteq FiniteSubsetsOf(Nat) /\ Spans # {}
  <2>1. \A n \in Nat : 1..n \in SUBSET Nat /\ IsFiniteSet(1..n)
    BY FS_Interval
  <2> QED
    BY <2>1 DEF FiniteSubsetsOf
<1>2. IsWellFoundedOn(StrictSubsetOrdering(Nat), FiniteSubsetsOf(Nat))
  BY FS_StrictSubsetOrderingWellFounded
<1>3. PICK u \in Spans : \A v \in Spans : ~ (<<v, u>> \in StrictSubsetOrdering(Nat))
  BY <1>1, <1>2, WFMin
<1>4. PICK m \in T : u = 1..m
  OBVIOUS
<1>5. ASSUME NEW n \in T, n < m PROVE FALSE
  <2>1. 1..n \subseteq 1..m /\ m \in 1..m /\ m \notin 1..n
    BY <1>5, SMT
  <2>2. <<1..n, 1..m>> \in StrictSubsetOrdering(Nat)
    BY <2>1 DEF StrictSubsetOrdering
  <2> QED
    BY <2>2, <1>3, <1>4
<1> QED
  BY <1>5, SMT

(* No more rows than were written, and no time later than one tick per row *)
(* beyond what the clocks say; so much for the rows, and for the one that  *)
(* is about to be inserted.                                                *)
Within ==
  /\ Len(rows) <= written
  /\ \A i \in DOMAIN rows : rows[i].at <= MaxClock + written
  /\ \A w \in Writers : writer[w].phase = "insert" => writer[w].at <= MaxClock + written + 1

(* TypeOK, part by part.                                                   *)
RowsTyped == rows \in Seq(Row) /\ written \in 0..MaxEntries
AWriter == [phase : {"idle", "lock", "tip", "insert"}, tip : Hashes \cup {Null}, at : Times]
WritersTyped == lock \in Writers \cup {None} /\ writer \in [Writers -> AWriter]
ACheck == [phase : {"idle", "count", "pred", "page"}, offset : 0..MaxEntries,
           total : 0..MaxEntries, pred : Hashes \cup {Null}]
ChecksTyped == check \in ACheck /\ reported \in 0..MaxEntries /\ events \subseteq Ids
RestTyped == purged \in BOOLEAN /\ altered \subseteq Ids /\ crashes \in 0..MaxCrashes

Bounded == RowsTyped /\ WritersTyped /\ ChecksTyped /\ RestTyped /\ Within

(* The bounds are numbers.                                                 *)
LEMMA BoundsAreNumbers ==
  ASSUME AuditConstants
  PROVE  /\ MaxEntries \in Nat /\ MaxClock \in Nat /\ MaxCrashes \in Nat
         /\ 0 \in 0..MaxEntries /\ 0 \in Times /\ 0 \in 0..MaxCrashes
<1>1. MaxEntries \in Nat /\ MaxClock \in Nat /\ MaxCrashes \in Nat
  BY DEF AuditConstants
<1> QED
  BY <1>1, SMT DEF Times

(* A sequence of rows is one of rows within the bounds if its rows are.    *)
LEMMA RowsWithin ==
  ASSUME NEW S, NEW T, NEW s \in Seq(S), \A i \in DOMAIN s : s[i] \in T
  PROVE  s \in Seq(T)
<1>1. Len(s) \in Nat /\ DOMAIN s = 1..Len(s) /\ s \in [1..Len(s) -> S]
  BY LenProperties
<1>2. s \in [1..Len(s) -> T]
  BY <1>1
<1> QED
  BY <1>1, <1>2, SeqDef

(* The rows themselves.                                                    *)
LEMMA RowOf ==
  ASSUME RowsTyped
  PROVE  /\ Len(rows) \in Nat /\ DOMAIN rows = 1..Len(rows)
         /\ \A i \in DOMAIN rows : rows[i] \in Row
BY LenProperties, ElementOfSeq DEF RowsTyped

(* A writer in flight leaves room for its entry.                           *)
LEMMA RoomForOne ==
  ASSUME IInv, AuditConstants, RowsTyped, NEW w \in Writers, writer[w].phase # "idle"
  PROVE  written + 1 \in Ids /\ written + 1 <= MaxEntries
<1>1. Waiting \in Nat /\ Waiting # 0
  <2>1. w \in InFlight
    BY DEF InFlight
  <2> QED
    BY <2>1, InFlightFinite, FS_EmptySet
<1>2. written + Waiting <= MaxEntries
  BY DEF IInv, Room
<1>3. written \in Nat /\ MaxEntries \in Nat
  BY BoundsAreNumbers DEF RowsTyped
<1> QED
  BY <1>1, <1>2, <1>3, SMT DEF Ids

(* The time of a new entry, and the tip it continues.                      *)
LEMMA StampWithin ==
  ASSUME IInv, AuditConstants, Bounded, NEW w \in Writers, LogReadsTip(w)
  PROVE  Bounded'
<1>1. PICK now \in 0..MaxClock :
        writer' = [writer EXCEPT ![w] =
          [phase |-> "insert", at |-> Stamped(now),
           tip |-> IF rows = <<>> THEN Null ELSE Last(rows).hash]]
  BY DEF LogReadsTip
<1>2. UNCHANGED <<rows, written, lock, check, reported, events, purged, altered, crashes>>
  BY DEF LogReadsTip
<1>3. /\ RowsTyped /\ MaxClock \in Nat /\ MaxEntries \in Nat /\ written \in Nat
      /\ writer \in [Writers -> AWriter]
  BY BoundsAreNumbers DEF Bounded, RowsTyped, WritersTyped
<1>4. rows # <<>> => Last(rows) \in Row /\ Last(rows).at <= MaxClock + written
  <2>1. rows # <<>> => Len(rows) \in DOMAIN rows
    BY <1>3, RowOf, EmptyOrLast DEF RowsTyped
  <2> QED
    BY <1>3, <2>1, RowOf DEF Last, Bounded, Within
<1>5. written + 1 <= MaxEntries
  BY <1>3, RoomForOne DEF LogReadsTip
<1>6. Stamped(now) \in Times /\ Stamped(now) <= MaxClock + written + 1
  <2>1. CASE rows # <<>> /\ now <= Last(rows).at
    <3>1. PICK at \in Nat : at = Last(rows).at /\ at <= MaxClock + written
      BY <1>4, <2>1 DEF Row, Times
    <3>2. at + 1 \in 0..(MaxClock + MaxEntries) /\ at + 1 <= MaxClock + written + 1
      BY <1>3, <1>5, <3>1, SMT
    <3> QED
      BY <2>1, <3>1, <3>2 DEF Stamped, Times
  <2>2. CASE ~(rows # <<>> /\ now <= Last(rows).at)
    <3>1. now \in 0..(MaxClock + MaxEntries) /\ now <= MaxClock + written + 1
      BY <1>3, SMT
    <3> QED
      BY <2>2, <3>1 DEF Stamped, Times
  <2> QED
    BY <2>1, <2>2
<1> DEFINE tip == IF rows = <<>> THEN Null ELSE Last(rows).hash
<1>7. tip \in Hashes \cup {Null}
  BY <1>4 DEF Row
<1> HIDE DEF tip
<1>8. writer' = [writer EXCEPT ![w] = [phase |-> "insert", at |-> Stamped(now), tip |-> tip]]
  BY <1>1 DEF tip
<1> DEFINE new == [phase |-> "insert", at |-> Stamped(now), tip |-> tip]
<1>9. new \in AWriter /\ new.at <= MaxClock + written + 1
  BY <1>6, <1>7 DEF AWriter
<1> HIDE DEF new
<1>10. writer'[w] = new /\ \A u \in Writers : u # w => writer'[u] = writer[u]
  BY <1>3, <1>8 DEF new
<1>11. writer' \in [Writers -> AWriter]
  BY <1>3, <1>8, <1>9 DEF new
<1>12. Within'
  BY <1>2, <1>9, <1>10 DEF Bounded, Within
<1> QED
  BY <1>2, <1>11, <1>12 DEF Bounded, RowsTyped, WritersTyped, ChecksTyped, RestTyped

(* A new entry is a row, and the next id.                                  *)
LEMMA InsertWithin ==
  ASSUME IInv, AuditConstants, Bounded, NEW w \in Writers, LogInserts(w)
  PROVE  Bounded'
<1>1. PICK a \in Actors, e \in AnyRow :
        /\ e = [id |-> written + 1, actor |-> a, at |-> writer[w].at,
                prev |-> writer[w].tip, erased |-> FALSE,
                hash |-> HashOf(written + 1, a, writer[w].at, writer[w].tip)]
        /\ rows' = Append(rows, e)
  BY InsertsLast
<1>2. /\ written' = written + 1
      /\ lock' = IF lock = w THEN None ELSE lock
      /\ writer' = [writer EXCEPT ![w] = Resting]
      /\ UNCHANGED <<check, reported, events, purged, altered, crashes>>
      /\ writer[w].phase = "insert"
  BY DEF LogInserts
<1>3. /\ RowsTyped /\ MaxClock \in Nat /\ MaxEntries \in Nat /\ written \in Nat
      /\ writer \in [Writers -> AWriter] /\ Len(rows) \in Nat
  BY BoundsAreNumbers, RowOf DEF Bounded, RowsTyped, WritersTyped
<1>4. written + 1 \in Ids /\ written + 1 <= MaxEntries
  BY <1>2, <1>3, RoomForOne
<1>5. writer[w].tip \in Hashes \cup {Null} /\ writer[w].at \in Times /\ writer[w].at \in Nat
      /\ writer[w].at <= MaxClock + written + 1
  BY <1>2, <1>3 DEF AWriter, Times, Bounded, Within
<1>6. writer[w].tip.id \in 0..MaxEntries
  BY <1>3, <1>5, BoundsAreNumbers DEF Hashes, Null, Ids
<1>7. e \in Row /\ e.at = writer[w].at
  BY <1>1, <1>4, <1>5, <1>6 DEF Row, HashOf, Hashes
<1>8. rows \in Seq(Row)
  BY <1>3 DEF RowsTyped
<1>9. /\ rows' \in Seq(Row) /\ Len(rows') = Len(rows) + 1
      /\ \A i \in 1..Len(rows) : rows'[i] = rows[i]
      /\ rows'[Len(rows) + 1] = e
  BY <1>1, <1>7, <1>8, AppendProperties
<1>10. RowsTyped'
  <2>1. written + 1 \in 0..MaxEntries
    BY <1>3, <1>4, SMT
  <2> QED
    BY <1>2, <1>9, <2>1 DEF RowsTyped
<1>11. WritersTyped'
  <2>1. Resting \in AWriter
    BY BoundsAreNumbers DEF Resting, AWriter
  <2> QED
    BY <1>2, <1>3, <2>1 DEF Bounded, WritersTyped
<1>12. Within'
  <2>1. Len(rows') <= written'
    <3>1. Len(rows) <= written
      BY DEF Bounded, Within
    <3> QED
      BY <1>2, <1>3, <1>9, <3>1
  <2>2. ASSUME NEW i \in DOMAIN rows'  PROVE rows'[i].at <= MaxClock + written'
    <3>1. i \in 1..(Len(rows) + 1)
      BY <1>9, LenProperties
    <3>2. CASE i \in 1..Len(rows)
      <4>1. i \in DOMAIN rows /\ rows[i] \in Row
        BY <1>3, <3>2, RowOf
      <4>2. PICK at \in Nat : at = rows[i].at /\ at <= MaxClock + written
        BY <4>1 DEF Row, Times, Bounded, Within
      <4>3. at <= MaxClock + (written + 1)
        BY <1>3, <4>2, SMT
      <4> QED
        BY <1>2, <1>9, <3>2, <4>2, <4>3
    <3>3. CASE i = Len(rows) + 1
      <4>1. PICK at \in Nat : at = writer[w].at /\ at <= MaxClock + written + 1
        BY <1>5
      <4>2. at <= MaxClock + (written + 1)
        BY <1>3, <4>1, SMT
      <4> QED
        BY <1>2, <1>7, <1>9, <3>3, <4>1, <4>2
    <3> QED
      BY <1>3, <3>1, <3>2, <3>3
  <2>3. ASSUME NEW u \in Writers, writer'[u].phase = "insert"
        PROVE  writer'[u].at <= MaxClock + written' + 1
    <3>1. u # w /\ writer'[u] = writer[u]
      BY <1>2, <1>3, <2>3 DEF Resting
    <3>2. PICK at \in Nat : at = writer[u].at /\ at <= MaxClock + written + 1
      BY <1>3, <2>3, <3>1 DEF AWriter, Times, Bounded, Within
    <3>3. at <= MaxClock + (written + 1) + 1
      BY <1>3, <3>2, SMT
    <3> QED
      BY <1>2, <3>1, <3>2, <3>3
  <2> QED
    BY <2>1, <2>2, <2>3 DEF Within
<1> QED
  BY <1>2, <1>10, <1>11, <1>12 DEF Bounded, ChecksTyped, RestTyped

(* A call that begins or takes the lock has read nothing.                  *)
LEMMA PhaseWithin ==
  ASSUME Bounded, NEW w \in Writers, NEW p \in {"lock", "tip"},
         writer' = [writer EXCEPT ![w].phase = p]
  PROVE  /\ writer' \in [Writers -> AWriter]
         /\ \A u \in Writers : writer'[u].phase = "insert" =>
              writer[u].phase = "insert" /\ writer'[u].at = writer[u].at
<1>1. writer \in [Writers -> AWriter]
  BY DEF Bounded, WritersTyped
<1>2. writer[w] \in AWriter
  BY <1>1
<1> DEFINE new == [writer[w] EXCEPT !.phase = p]
<1>3. new \in AWriter /\ new.phase = p
  BY <1>2 DEF AWriter
<1>4. writer' = [writer EXCEPT ![w] = new]
  OBVIOUS
<1> HIDE DEF new
<1> QED
  BY <1>1, <1>3, <1>4

(* So it keeps the bounds.                                                 *)
LEMMA LockWithin ==
  ASSUME Bounded, NEW w \in Writers, LogBegins(w) \/ LogLocks(w)
  PROVE  Bounded'
<1>1. /\ UNCHANGED <<rows, written, check, reported, events, purged, altered, crashes>>
      /\ lock' \in {lock, w}
      /\ \E p \in {"lock", "tip"} : writer' = [writer EXCEPT ![w].phase = p]
  BY DEF LogBegins, LogLocks
<1>2. /\ writer' \in [Writers -> AWriter]
      /\ \A u \in Writers : writer'[u].phase = "insert" =>
           writer[u].phase = "insert" /\ writer'[u].at = writer[u].at
  BY <1>1, PhaseWithin
<1> QED
  BY <1>1, <1>2 DEF Bounded, RowsTyped, WritersTyped, ChecksTyped, RestTyped, Within

(* Erasing and tampering change actors; a purge takes rows.                *)
LEMMA TableWithin ==
  ASSUME Bounded, UNCHANGED <<written, lock, writer, check, reported, events, crashes>>,
         rows' \in Seq(Row), Len(rows') = Len(rows), purged' = purged, altered' \subseteq Ids,
         \A i \in DOMAIN rows : rows'[i].at = rows[i].at
  PROVE  Bounded'
<1>1. DOMAIN rows' = DOMAIN rows
  BY LenProperties DEF Bounded, RowsTyped
<1> QED
  BY <1>1 DEF Bounded, RowsTyped, WritersTyped, ChecksTyped, RestTyped, Within

(* An erased author leaves rows within the bounds.                         *)
LEMMA EraseWithin ==
  ASSUME IInv, Bounded, NEW a \in Actors, Erase(a)
  PROVE  Bounded'
<1> DEFINE gone(r) == [r EXCEPT !.actor = Erased, !.erased = TRUE]
<1>1. /\ rows' \in Seq(AnyRow) /\ Len(rows') = Len(rows)
      /\ \A i \in DOMAIN rows : rows'[i].at = rows[i].at
  BY EraseRows DEF IInv, Typed
<1>2. rows' = [i \in DOMAIN rows |-> IF rows[i].actor = a THEN gone(rows[i]) ELSE rows[i]]
  BY DEF Erase
<1>3. \A r \in Row : gone(r) \in Row
  BY DEF Row
<1> HIDE DEF gone
<1>4. \A i \in DOMAIN rows' : rows'[i] \in Row
  BY <1>2, <1>3, RowOf DEF Bounded
<1>5. rows' \in Seq(Row)
  BY <1>1, <1>4, RowsWithin
<1> QED
  BY <1>1, <1>5, TableWithin DEF Erase, Bounded, RestTyped

(* So does one who is changed behind the service's back.                   *)
LEMMA AlterWithin ==
  ASSUME IInv, Bounded, NEW i \in DOMAIN rows, Alter(i)
  PROVE  Bounded'
<1>1. /\ rows' \in Seq(AnyRow) /\ Len(rows') = Len(rows)
      /\ \A j \in DOMAIN rows : rows'[j].at = rows[j].at
  BY AlterRows DEF IInv, Typed
<1>2. PICK b \in Actors : rows' = [rows EXCEPT ![i].actor = b]
  BY DEF Alter
<1>3. \A j \in DOMAIN rows : rows[j] \in Row
  BY RowOf DEF Bounded
<1> DEFINE e == [rows[i] EXCEPT !.actor = b]
<1>4. e \in Row
  BY <1>3 DEF Row
<1>5. rows' = [rows EXCEPT ![i] = e]
  BY <1>2
<1>6. rows[i].id \in Ids
  BY <1>3 DEF Row
<1> HIDE DEF e
<1>7. DOMAIN rows' = DOMAIN rows
  BY <1>5
<1>8. \A j \in DOMAIN rows' : rows'[j] \in Row
  BY <1>3, <1>4, <1>5, <1>7
<1>9. rows' \in Seq(Row)
  BY <1>1, <1>8, RowsWithin
<1> QED
  BY <1>1, <1>6, <1>9, TableWithin DEF Alter, Bounded, RestTyped

(* What a purge leaves was there.                                          *)
LEMMA PurgeWithin ==
  ASSUME IInv, Bounded, NEW w \in Writers, Purge(w)
  PROVE  Bounded'
<1>1. PICK n \in 1..Len(rows) :
        /\ rows' \in Seq(AnyRow) /\ Len(rows') = Len(rows) - n
        /\ \A i \in 1..(Len(rows) - n) : rows'[i] = rows[n + i]
  BY PurgeRows DEF IInv, Typed
<1>2. /\ UNCHANGED <<written, lock, check, reported, events, altered, crashes>> /\ purged' = TRUE
      /\ writer' = [writer EXCEPT ![w].phase = "lock"]
  BY DEF Purge
<1>3. /\ Len(rows) \in Nat /\ DOMAIN rows = 1..Len(rows) /\ written \in Nat
      /\ \A i \in DOMAIN rows : rows[i] \in Row
  BY RowOf DEF Bounded, RowsTyped
<1>4. ASSUME NEW i \in DOMAIN rows'
      PROVE  \E j \in DOMAIN rows : rows'[i] = rows[j]
  <2>1. i \in 1..(Len(rows) - n)
    BY <1>1, LenProperties
  <2>2. n + i \in 1..Len(rows)
    BY <1>3, <2>1, SMT
  <2> QED
    BY <1>1, <1>3, <2>1, <2>2
<1>5. rows' \in Seq(Row)
  BY <1>1, <1>3, <1>4, RowsWithin
<1>6. /\ writer' \in [Writers -> AWriter]
      /\ \A u \in Writers : writer'[u].phase = "insert" =>
           writer[u].phase = "insert" /\ writer'[u].at = writer[u].at
  BY <1>2, PhaseWithin
<1>7. Within'
  <2>1. Len(rows') <= written'
    <3>1. Len(rows) <= written
      BY DEF Bounded, Within
    <3> QED
      BY <1>1, <1>2, <1>3, <3>1
  <2>2. \A i \in DOMAIN rows' : rows'[i].at <= MaxClock + written'
    BY <1>2, <1>4 DEF Bounded, Within
  <2>3. \A u \in Writers : writer'[u].phase = "insert" => writer'[u].at <= MaxClock + written' + 1
    BY <1>2, <1>6 DEF Bounded, Within
  <2> QED
    BY <2>1, <2>2, <2>3 DEF Within
<1> QED
  BY <1>2, <1>5, <1>6, <1>7 DEF Bounded, RowsTyped, WritersTyped, ChecksTyped, RestTyped

(* A verification reads rows, and reports ids of rows.                     *)
LEMMA CheckWithin ==
  ASSUME IInv, AuditConstants, Bounded, CheckBegins \/ CheckStep
  PROVE  Bounded'
<1>1. UNCHANGED <<rows, written, lock, writer, purged, altered, crashes>>
  BY DEF CheckBegins, CheckStep, CheckCounts, CheckReadsPredecessor, CheckReadsPage
<1>2. /\ Len(rows) \in Nat /\ DOMAIN rows = 1..Len(rows) /\ written \in Nat /\ MaxEntries \in Nat
      /\ \A i \in DOMAIN rows : rows[i] \in Row
  BY RowOf, BoundsAreNumbers DEF Bounded, RowsTyped
<1>3. Len(rows) \in 0..MaxEntries
  <2>1. Len(rows) <= written /\ written <= MaxEntries
    BY <1>2 DEF Bounded, Within, RowsTyped
  <2> QED
    BY <1>2, <2>1, SMT
<1>4. /\ check \in ACheck /\ reported \in 0..MaxEntries /\ events \subseteq Ids
      /\ NoCheck \in ACheck /\ 0 \in 0..MaxEntries
  BY BoundsAreNumbers DEF Bounded, ChecksTyped, ACheck, NoCheck
<1>5. ASSUME CheckBegins  PROVE ChecksTyped'
  <2>1. check' = [NoCheck EXCEPT !.phase = "count"] /\ UNCHANGED <<reported, events>>
    BY <1>5 DEF CheckBegins
  <2> QED
    BY <1>4, <2>1 DEF ChecksTyped, ACheck
<1>6. ASSUME CheckCounts  PROVE ChecksTyped'
  <2>1. CASE rows = <<>>
    BY <1>4, <1>6, <2>1 DEF CheckCounts, Clean, ChecksTyped
  <2>2. CASE rows # <<>>
    <3>1. /\ UNCHANGED <<reported, events>>
          /\ check' = [check EXCEPT !.total = Len(rows),
                                    !.phase = IF check.offset > 0 THEN "pred" ELSE "page"]
      BY <1>6, <2>2 DEF CheckCounts
    <3>2. check' \in ACheck
      BY <1>3, <1>4, <3>1 DEF ACheck
    <3> QED
      BY <1>4, <3>1, <3>2 DEF ChecksTyped
  <2> QED
    BY <2>1, <2>2
<1>7. ASSUME CheckReadsPredecessor  PROVE ChecksTyped'
  <2> DEFINE p == IF check.offset <= Len(rows) THEN rows[check.offset].hash ELSE Null
  <2>1. /\ UNCHANGED <<reported, events>> /\ check.phase = "pred"
        /\ check' = [check EXCEPT !.phase = "page", !.pred = p]
    BY <1>7 DEF CheckReadsPredecessor
  <2>2. p \in Hashes \cup {Null}
    <3>1. check.offset \in Nat /\ check.offset > 0
      BY <2>1, <1>4 DEF IInv, ACheck
    <3>2. check.offset <= Len(rows) => rows[check.offset] \in Row
      BY <1>2, <3>1
    <3> QED
      BY <3>2 DEF Row
  <2> HIDE DEF p
  <2>3. check' \in ACheck
    BY <1>4, <2>1, <2>2 DEF ACheck
  <2> QED
    BY <1>4, <2>1, <2>3 DEF ChecksTyped
<1>8. ASSUME CheckReadsPage  PROVE ChecksTyped'
  <2>1. /\ Len(Page) \in Nat /\ DOMAIN Page = 1..Len(Page)
        /\ Page # <<>> => check.offset + Len(Page) <= Len(rows)
        /\ Page = <<>> <=> Len(Page) = 0
        /\ \A i \in 1..Len(Page) : Page[i] = rows[check.offset + i]
    BY PageRows DEF IInv, Typed
  <2>2. check.offset \in Nat
    BY <1>4 DEF ACheck
  <2>3. ASSUME NEW i \in DOMAIN Page  PROVE Page[i].id \in Ids /\ Page[i].id \in 0..MaxEntries
    <3>1. check.offset + i \in 1..Len(rows)
      BY <1>2, <2>1, <2>2
    <3>2. Page[i] \in Row
      BY <1>2, <2>1, <3>1
    <3> QED
      BY <1>2, <3>2 DEF Row, Ids
  <2>4. CASE Broken(Page) # {}
    <3> DEFINE first == CHOOSE i \in Broken(Page) : \A j \in Broken(Page) : i <= j
    <3>1. Broken(Page) \in SUBSET Nat
      BY <2>1 DEF Broken
    <3>2. first \in Broken(Page)
      BY <2>4, <3>1, LeastNumber
    <3>3. first \in DOMAIN Page
      BY <3>2 DEF Broken
    <3>4. Report(Page[first].id)
      BY <1>8, <2>4 DEF CheckReadsPage
    <3> HIDE DEF first
    <3>5. /\ events' \subseteq events \cup {Page[first].id}
          /\ reported' = Page[first].id /\ check' = NoCheck
      BY <3>4 DEF Report
    <3> QED
      BY <1>4, <2>3, <3>3, <3>5 DEF ChecksTyped
  <2>5. CASE Broken(Page) = {} /\ Clean
    BY <1>4, <2>5 DEF Clean, ChecksTyped
  <2>6. CASE Broken(Page) = {} /\ ~Clean
    <3>1. /\ Page # <<>> /\ UNCHANGED <<reported, events>>
          /\ check' = [NoCheck EXCEPT !.phase = "count", !.offset = check.offset + Len(Page)]
      BY <1>8, <2>6 DEF CheckReadsPage
    <3>2. check.offset + Len(Page) \in 0..MaxEntries
      BY <1>2, <1>3, <2>1, <2>2, <3>1
    <3>3. check' \in ACheck
      BY <1>4, <3>1, <3>2 DEF ACheck
    <3> QED
      BY <1>4, <3>1, <3>3 DEF ChecksTyped
  <2> QED
    BY <2>4, <2>5, <2>6
<1>9. ChecksTyped'
  BY <1>5, <1>6, <1>7, <1>8 DEF CheckStep
<1> QED
  BY <1>1, <1>9 DEF Bounded, RowsTyped, WritersTyped, RestTyped, Within

(* A restart leaves the table.                                             *)
LEMMA CrashWithin ==
  ASSUME AuditConstants, Bounded, Crash
  PROVE  Bounded'
<1>1. /\ crashes < MaxCrashes /\ crashes' = crashes + 1
      /\ lock' = None /\ writer' = [w \in Writers |-> Resting]
      /\ check' = NoCheck /\ reported' = 0
      /\ UNCHANGED <<rows, written, events, purged, altered>>
  BY DEF Crash
<1>2. Resting \in AWriter /\ NoCheck \in ACheck /\ 0 \in 0..MaxEntries
  BY BoundsAreNumbers DEF Resting, NoCheck, AWriter, ACheck
<1>3. crashes' \in 0..MaxCrashes
  <2>1. crashes \in 0..MaxCrashes /\ MaxCrashes \in Nat
    BY BoundsAreNumbers DEF Bounded, RestTyped
  <2> QED
    BY <1>1, <2>1, SMT
<1>4. \A w \in Writers : writer'[w].phase # "insert"
  BY <1>1 DEF Resting
<1> QED
  BY <1>1, <1>2, <1>3, <1>4 DEF Bounded, RowsTyped, WritersTyped, ChecksTyped, RestTyped, Within

(* The empty log is within the bounds.                                     *)
LEMMA InitWithin == ASSUME AuditConstants, Init PROVE Bounded
<1>1. rows = <<>> /\ rows \in Seq(Row) /\ Len(rows) = 0 /\ DOMAIN rows = {}
  BY EmptySeq DEF Init
<1>2. Resting \in AWriter /\ NoCheck \in ACheck
  BY BoundsAreNumbers DEF Resting, NoCheck, AWriter, ACheck
<1>3. Within
  BY <1>1 DEF Within, Init, Resting
<1> QED
  BY <1>1, <1>2, <1>3, BoundsAreNumbers
     DEF Init, Bounded, RowsTyped, WritersTyped, ChecksTyped, RestTyped

(* Every step stays within them.                                           *)
LEMMA NextWithin ==
  ASSUME IInv, AuditConstants, Bounded, [Next]_vars
  PROVE  Bounded'
<1>1. CASE UNCHANGED vars
  BY <1>1 DEF vars, Bounded, RowsTyped, WritersTyped, ChecksTyped, RestTyped, Within
<1>2. ASSUME NEW w \in Writers,
             LogBegins(w) \/ LogLocks(w) \/ LogReadsTip(w) \/ LogInserts(w) \/ Purge(w)
      PROVE  Bounded'
  BY <1>2, LockWithin, StampWithin, InsertWithin, PurgeWithin
<1>3. ASSUME NEW a \in Actors, Erase(a)  PROVE Bounded'
  BY <1>3, EraseWithin
<1>4. ASSUME NEW i \in DOMAIN rows, Alter(i)  PROVE Bounded'
  BY <1>4, AlterWithin
<1>5. CASE CheckBegins \/ CheckStep
  BY <1>5, CheckWithin
<1>6. CASE Crash
  BY <1>6, CrashWithin
<1> QED
  BY <1>1, <1>2, <1>3, <1>4, <1>5, <1>6 DEF Next

(* The types hold in their bounds: however often the tip runs ahead of the *)
(* clocks, log() stamps no entry later than one tick per entry beyond them,*)
(* and a verification never reads past the entries that were written.      *)
THEOREM TypeCorrect == Spec => []TypeOK
<1>1. Bounded => TypeOK
  BY DEF Bounded, RowsTyped, WritersTyped, ChecksTyped, RestTyped, AWriter, ACheck, TypeOK
<1>2. IInv /\ Bounded /\ [Next]_vars => (IInv /\ Bounded)'
  BY NextIInv, NextWithin, AuditConstants
<1>3. Init => IInv /\ Bounded
  BY InitIInv, InitWithin, AuditConstants
<1> QED
  BY <1>1, <1>2, <1>3, PTL DEF Spec
=============================================================================
