----------------------- MODULE ConnectionManager_proofs -----------------------
(***************************************************************************)
(* What is proved of the relay for any sockets, any auth messages and any  *)
(* capacity. States are followed to their sockets, so that a state that    *)
(* asks for a hub is known to be registered. The buffer is counted by the  *)
(* places of its items: every push and every ageing leaves the items that  *)
(* are no calls within what the calls leave them of the capacity, and a    *)
(* call loses its place to another call only.                              *)
(***************************************************************************)
EXTENDS ConnectionManager, FiniteSetTheorems, SequenceTheorems, WellFoundedInduction, TLAPS

(* A set of numbers that is not empty has a least one: of the intervals    *)
(* 1..n that it spans, none is below all the others but a minimal one.     *)
LEMMA LeastNumber ==
  ASSUME NEW T \in SUBSET Nat, T # {}
  PROVE  \E m \in T : \A n \in T : m <= n
<1> DEFINE Spans == {1..n : n \in T}
<1>1. Spans \subseteq FiniteSubsetsOf(Nat) /\ Spans # {}
  <2>1. \A n \in Nat : 1..n \in SUBSET Nat /\ IsFiniteSet(1..n)
    BY FS_Interval
  <2> QED
    BY <2>1 DEF FiniteSubsetsOf
<1>2. IsWellFoundedOn(StrictSubsetOrdering(Nat), FiniteSubsetsOf(Nat))
  BY FS_StrictSubsetOrderingWellFounded
<1>3. PICK u \in Spans : \A v \in Spans : ~ (<<v, u>> \in StrictSubsetOrdering(Nat))
  BY <1>1, <1>2, WFMin
<1>4. PICK m \in T : u = 1..m
  OBVIOUS
<1>5. ASSUME NEW n \in T, n < m PROVE FALSE
  <2>1. 1..n \subseteq 1..m /\ m \in 1..m /\ m \notin 1..n
    BY <1>5, SMT
  <2>2. <<1..n, 1..m>> \in StrictSubsetOrdering(Nat)
    BY <2>1 DEF StrictSubsetOrdering
  <2> QED
    BY <2>2, <1>3, <1>4
<1> QED
  BY <1>5, SMT

----------------------------------------------------------------------------
(* Where the items of a kind are, and how many of them there are. *)

(* A sequence of length n has n places.                                    *)
LEMMA Places ==
  ASSUME NEW n \in Nat
  PROVE  IsFiniteSet(1..n) /\ Cardinality(1..n) = n
<1>1. 1 \in Int /\ n \in Int
  BY SMT
<1>2. IsFiniteSet(1..n) /\ Cardinality(1..n) = IF 1 > n THEN 0 ELSE n - 1 + 1
  BY <1>1, FS_Interval
<1>3. (IF 1 > n THEN 0 ELSE n - 1 + 1) = n
  BY SMT
<1> QED
  BY <1>2, <1>3

(* The places of a kind are finitely many of the sequence's.               *)
LEMMA SlotsAreCounted ==
  ASSUME NEW items \in Seq(Items), NEW kind
  PROVE  /\ Slots(items, kind) \subseteq 1..Len(items)
         /\ IsFiniteSet(Slots(items, kind))
         /\ Cardinality(Slots(items, kind)) \in Nat
         /\ Cardinality(Slots(items, kind)) <= Len(items)
<1>1. Len(items) \in Nat /\ DOMAIN items = 1..Len(items)
  BY LenProperties
<1>2. Slots(items, kind) \in SUBSET (1..Len(items))
  BY <1>1 DEF Slots
<1>3. IsFiniteSet(1..Len(items)) /\ Cardinality(1..Len(items)) = Len(items)
  BY <1>1, Places
<1> QED
  BY <1>2, <1>3, FS_Subset, FS_CardinalityType

(* Every item is a call or is not.                                         *)
LEMMA CallsAndOthers ==
  ASSUME NEW items \in Seq(Items)
  PROVE  Len(items) = Cardinality(Slots(items, Calls)) + Cardinality(Slots(items, Others))
<1>1. Len(items) \in Nat /\ DOMAIN items = 1..Len(items) /\ \A i \in 1..Len(items) : items[i] \in Items
  BY LenProperties, ElementOfSeq
<1>2. /\ Slots(items, Calls) \cup Slots(items, Others) = 1..Len(items)
      /\ Slots(items, Calls) \cap Slots(items, Others) = {}
  BY <1>1 DEF Slots, Others
<1>3. Cardinality(1..Len(items)) = Len(items)
  BY <1>1, Places
<1>4. IsFiniteSet(Slots(items, Calls)) /\ IsFiniteSet(Slots(items, Others))
  BY SlotsAreCounted
<1>5. Cardinality(Slots(items, Calls) \cup Slots(items, Others)) =
        Cardinality(Slots(items, Calls)) + Cardinality(Slots(items, Others))
        - Cardinality(Slots(items, Calls) \cap Slots(items, Others))
  BY <1>4, FS_Union
<1>6. /\ Cardinality({}) = 0
      /\ Cardinality(Slots(items, Calls)) \in Nat /\ Cardinality(Slots(items, Others)) \in Nat
  BY FS_EmptySet, SlotsAreCounted
<1> DEFINE calls == Cardinality(Slots(items, Calls))
           others == Cardinality(Slots(items, Others))
<1>7. Len(items) = calls + others - 0
  BY <1>2, <1>3, <1>5, <1>6
<1>8. calls \in Nat /\ others \in Nat
  BY <1>6
<1> HIDE DEF calls, others
<1>9. Len(items) = calls + others
  BY <1>7, <1>8, SMT
<1> QED
  BY <1>9 DEF calls, others

(* An item that is appended takes a place of its kind and of no other.     *)
LEMMA SlotsOfAppend ==
  ASSUME NEW items \in Seq(Items), NEW x \in Items, NEW kind
  PROVE  /\ Slots(items, kind) \subseteq Slots(Append(items, x), kind)
         /\ Cardinality(Slots(Append(items, x), kind)) =
              IF x \in kind THEN Cardinality(Slots(items, kind)) + 1
              ELSE Cardinality(Slots(items, kind))
<1>1. /\ Len(items) \in Nat /\ DOMAIN items = 1..Len(items)
      /\ Append(items, x) \in Seq(Items) /\ Len(Append(items, x)) = Len(items) + 1
      /\ \A i \in 1..Len(items) : Append(items, x)[i] = items[i]
      /\ Append(items, x)[Len(items) + 1] = x
  BY LenProperties, AppendProperties
<1>2. DOMAIN Append(items, x) = 1..(Len(items) + 1)
  BY <1>1, LenProperties
<1>3. /\ 1..(Len(items) + 1) = (1..Len(items)) \cup {Len(items) + 1}
      /\ Len(items) + 1 \notin 1..Len(items)
  BY <1>1, SMT
<1>4. Slots(Append(items, x), kind) =
        IF x \in kind THEN Slots(items, kind) \cup {Len(items) + 1} ELSE Slots(items, kind)
  BY <1>1, <1>2, <1>3 DEF Slots
<1>5. Len(items) + 1 \notin Slots(items, kind)
  BY <1>1, <1>3 DEF Slots
<1>6. IsFiniteSet(Slots(items, kind))
  BY SlotsAreCounted
<1>7. Cardinality(Slots(items, kind) \cup {Len(items) + 1}) = Cardinality(Slots(items, kind)) + 1
  BY <1>5, <1>6, FS_AddElement
<1> QED
  BY <1>4, <1>7

(* What RemoveAt leaves: the items before the place, and those after it,   *)
(* one place earlier.                                                      *)
LEMMA RemoveAtProperties ==
  ASSUME NEW items \in Seq(Items), NEW k \in 1..Len(items)
  PROVE  /\ RemoveAt(items, k) \in Seq(Items)
         /\ Len(RemoveAt(items, k)) = Len(items) - 1
         /\ \A i \in 1..(Len(items) - 1) :
              RemoveAt(items, k)[i] = IF i < k THEN items[i] ELSE items[i + 1]
<1>1. Len(items) \in Nat /\ k \in Nat /\ 1 <= k /\ k <= Len(items)
  BY LenProperties, SMT
<1>2. \A i \in 1..Len(items) : items[i] \in Items
  BY ElementOfSeq
<1> DEFINE before == SubSeq(items, 1, k - 1)
           after == SubSeq(items, k + 1, Len(items))
<1>3. /\ before \in Seq(Items) /\ Len(before) = k - 1
      /\ \A i \in 1..(k - 1) : before[i] = items[i]
  <2> DEFINE n == k - 1
  <2>1. n \in Int /\ 1 \in Int /\ \A i \in 1..n : items[i] \in Items
    BY <1>1, <1>2, SMT
  <2>2. n - 1 + 1 = n /\ (1 <= n \/ n = 0)
    BY <1>1, SMT
  <2>3. \A i \in 1..n : 1 + i - 1 = i
    BY SMT
  <2>h. HIDE DEF n
  <2>4. /\ SubSeq(items, 1, n) \in Seq(Items)
        /\ Len(SubSeq(items, 1, n)) = IF 1 <= n THEN n - 1 + 1 ELSE 0
        /\ \A i \in 1..(n - 1 + 1) : SubSeq(items, 1, n)[i] = items[1 + i - 1]
    BY <2>1, SubSeqProperties
  <2>5. /\ SubSeq(items, 1, n) \in Seq(Items)
        /\ Len(SubSeq(items, 1, n)) = n
        /\ \A i \in 1..n : SubSeq(items, 1, n)[i] = items[i]
    BY <2>2, <2>3, <2>4
  <2> QED
    BY <2>5 DEF n
<1>4. /\ after \in Seq(Items) /\ Len(after) = Len(items) - k
      /\ \A i \in 1..(Len(items) - k) : after[i] = items[k + i]
  <2> DEFINE m == k + 1
             n == Len(items)
  <2>1. m \in Int /\ n \in Int /\ \A i \in m..n : items[i] \in Items
    BY <1>1, <1>2, SMT
  <2>2. n - m + 1 = Len(items) - k /\ (m <= n \/ Len(items) - k = 0)
    BY <1>1, SMT
  <2>3. \A i \in 1..(Len(items) - k) : m + i - 1 = k + i
    BY <1>1, SMT
  <2>h. HIDE DEF m, n
  <2>4. /\ SubSeq(items, m, n) \in Seq(Items)
        /\ Len(SubSeq(items, m, n)) = IF m <= n THEN n - m + 1 ELSE 0
        /\ \A i \in 1..(n - m + 1) : SubSeq(items, m, n)[i] = items[m + i - 1]
    BY <2>1, SubSeqProperties
  <2>5. /\ SubSeq(items, m, n) \in Seq(Items)
        /\ Len(SubSeq(items, m, n)) = Len(items) - k
        /\ \A i \in 1..(Len(items) - k) : SubSeq(items, m, n)[i] = items[k + i]
    BY <2>2, <2>3, <2>4
  <2> QED
    BY <2>5 DEF m, n
<1> HIDE DEF before, after
<1>5. /\ before \o after \in Seq(Items)
      /\ Len(before \o after) = Len(before) + Len(after)
      /\ \A i \in 1..(Len(before) + Len(after)) :
           (before \o after)[i] = IF i <= Len(before) THEN before[i] ELSE after[i - Len(before)]
  BY <1>3, <1>4, ConcatProperties
<1>6. RemoveAt(items, k) = before \o after
  BY DEF RemoveAt, before, after
<1>7. Len(before) + Len(after) = Len(items) - 1
  BY <1>1, <1>3, <1>4, SMT
<1>8. ASSUME NEW i \in 1..(Len(items) - 1)
      PROVE  (before \o after)[i] = IF i < k THEN items[i] ELSE items[i + 1]
  <2>1. (before \o after)[i] = IF i <= k - 1 THEN before[i] ELSE after[i - (k - 1)]
    BY <1>5, <1>7, <1>3
  <2>2. CASE i < k
    <3>1. i <= k - 1 /\ i \in 1..(k - 1)
      BY <1>1, <2>2, SMT
    <3> QED
      BY <3>1, <2>1, <2>2, <1>3
  <2>3. CASE ~(i < k)
    <3>1. /\ ~(i <= k - 1)
          /\ i - (k - 1) \in 1..(Len(items) - k)
          /\ k + (i - (k - 1)) = i + 1
      BY <1>1, <2>3, SMT
    <3> QED
      BY <3>1, <2>1, <2>3, <1>4
  <2> QED
    BY <2>2, <2>3
<1> QED
  BY <1>5, <1>6, <1>7, <1>8

(* A sequence that is another one without the item at k.                   *)
LacksOnly(items, short, k) ==
  /\ Len(short) = Len(items) - 1
  /\ \A i \in 1..(Len(items) - 1) : short[i] = IF i < k THEN items[i] ELSE items[i + 1]

(* The places that are left correspond to those that were, but for k.      *)
LEMMA SlotsOfRemoval ==
  ASSUME NEW items \in Seq(Items), NEW short \in Seq(Items), NEW k \in 1..Len(items),
         LacksOnly(items, short, k), NEW kind
  PROVE  Cardinality(Slots(short, kind)) =
           IF items[k] \in kind THEN Cardinality(Slots(items, kind)) - 1
           ELSE Cardinality(Slots(items, kind))
<1>1. Len(items) \in Nat /\ k \in Nat /\ 1 <= k /\ k <= Len(items)
  BY LenProperties, SMT
<1>2. DOMAIN items = 1..Len(items) /\ DOMAIN short = 1..(Len(items) - 1)
  BY LenProperties DEF LacksOnly
<1> DEFINE Left == Slots(items, kind) \ {k}
           was == [i \in Slots(short, kind) |-> IF i < k THEN i ELSE i + 1]
<1>3. ASSUME NEW i \in Slots(short, kind)
      PROVE  was[i] \in Left
  <2>1. i \in 1..(Len(items) - 1) /\ short[i] \in kind
    BY <1>2 DEF Slots
  <2>2. short[i] = IF i < k THEN items[i] ELSE items[i + 1]
    BY <2>1 DEF LacksOnly
  <2>3. /\ i < k => i \in 1..Len(items) /\ i # k
        /\ ~(i < k) => i + 1 \in 1..Len(items) /\ i + 1 # k
    BY <1>1, <2>1, SMT
  <2> QED
    BY <1>2, <2>1, <2>2, <2>3 DEF Slots
<1>4. ASSUME NEW i \in Slots(short, kind), NEW j \in Slots(short, kind), was[i] = was[j]
      PROVE  i = j
  <2>1. i \in Int /\ j \in Int
    BY <1>2 DEF Slots
  <2>2. (IF i < k THEN i ELSE i + 1) = (IF j < k THEN j ELSE j + 1)
    BY <1>4
  <2> QED
    BY <1>1, <2>1, <2>2, SMT
<1>5. ASSUME NEW j \in Left
      PROVE  \E i \in Slots(short, kind) : was[i] = j
  <2>1. j \in 1..Len(items) /\ j # k /\ items[j] \in kind
    BY <1>2 DEF Slots
  <2>2. PICK i \in 1..(Len(items) - 1) : j = IF i < k THEN i ELSE i + 1
    <3>1. CASE j < k
      <4>1. j \in 1..(Len(items) - 1)
        BY <1>1, <2>1, <3>1, SMT
      <4> QED
        BY <4>1, <3>1
    <3>2. CASE ~(j < k)
      <4>1. /\ j - 1 \in 1..(Len(items) - 1) /\ ~(j - 1 < k)
            /\ j = (j - 1) + 1
        BY <1>1, <2>1, <3>2, SMT
      <4> QED
        BY <4>1
    <3> QED
      BY <3>1, <3>2
  <2>3. short[i] = items[j]
    BY <2>2 DEF LacksOnly
  <2>4. i \in Slots(short, kind)
    BY <1>2, <2>1, <2>2, <2>3 DEF Slots
  <2> QED
    BY <2>2, <2>4
<1>6. was \in Bijection(Slots(short, kind), Left)
  <2>1. was \in [Slots(short, kind) -> Left]
    BY <1>3
  <2>2. IsInjective(was)
    BY <1>4 DEF IsInjective
  <2>3. \A j \in Left : \E i \in Slots(short, kind) : was[i] = j
    BY <1>5
  <2> HIDE DEF was, Left
  <2> QED
    BY <2>1, <2>2, <2>3 DEF Bijection, Injection, Surjection
<1>7. Cardinality(Left) = Cardinality(Slots(short, kind))
  <2> HIDE DEF was, Left
  <2> QED
    BY <1>6, SlotsAreCounted, FS_Bijection DEF ExistsBijection
<1>8. IsFiniteSet(Slots(items, kind))
  BY SlotsAreCounted
<1>9. k \in Slots(items, kind) <=> items[k] \in kind
  BY <1>2 DEF Slots
<1> QED
  BY <1>7, <1>8, <1>9, FS_RemoveElement

(* Ageing takes the first item.                                            *)
LEMMA TailLacksFirst ==
  ASSUME NEW items \in Seq(Items), items # << >>
  PROVE  /\ Tail(items) \in Seq(Items)
         /\ 1 \in 1..Len(items)
         /\ LacksOnly(items, Tail(items), 1)
<1>1. /\ Tail(items) \in Seq(Items) /\ Len(Tail(items)) = Len(items) - 1
      /\ \A i \in 1..Len(Tail(items)) : Tail(items)[i] = items[i + 1]
  BY HeadTailProperties
<1>2. Len(items) \in Nat \ {0}
  BY EmptySeq
<1>3. 1 \in 1..Len(items) /\ \A i \in 1..(Len(items) - 1) : ~(i < 1)
  BY <1>2, SMT
<1> QED
  BY <1>1, <1>3 DEF LacksOnly

(* Its place is the only one that is lost.                                 *)
LEMMA SlotsOfTail ==
  ASSUME NEW items \in Seq(Items), items # << >>, NEW kind
  PROVE  Cardinality(Slots(Tail(items), kind)) =
           IF items[1] \in kind THEN Cardinality(Slots(items, kind)) - 1
           ELSE Cardinality(Slots(items, kind))
<1>1. PICK short \in Seq(Items) : short = Tail(items) /\ LacksOnly(items, short, 1)
  BY TailLacksFirst
<1>2. PICK k \in 1..Len(items) : k = 1
  BY TailLacksFirst
<1>3. LacksOnly(items, short, k)
  BY <1>1, <1>2
<1>4. Cardinality(Slots(short, kind)) =
        IF items[k] \in kind THEN Cardinality(Slots(items, kind)) - 1
        ELSE Cardinality(Slots(items, kind))
  BY <1>3, SlotsOfRemoval
<1> QED
  BY <1>1, <1>2, <1>4

(* The item that makes room is one that is no call.                        *)
LEMMA OldestOtherGoes ==
  ASSUME NEW items \in Seq(Items), Slots(items, Others) # {}
  PROVE  \E k \in 1..Len(items) :
           /\ items[k] \in Others
           /\ WithoutOldestOther(items) \in Seq(Items)
           /\ LacksOnly(items, WithoutOldestOther(items), k)
<1> DEFINE k == CHOOSE i \in Slots(items, Others) : \A j \in Slots(items, Others) : i <= j
<1>1. Slots(items, Others) \subseteq 1..Len(items)
  BY SlotsAreCounted
<1>2. Slots(items, Others) \in SUBSET Nat
  BY <1>1
<1>3. \E i \in Slots(items, Others) : \A j \in Slots(items, Others) : i <= j
  BY <1>2, LeastNumber
<1>4. k \in Slots(items, Others)
  BY <1>3
<1>5. WithoutOldestOther(items) = RemoveAt(items, k)
  BY DEF WithoutOldestOther
<1> HIDE DEF k
<1>6. k \in 1..Len(items) /\ items[k] \in Others
  BY <1>1, <1>4 DEF Slots
<1>7. RemoveAt(items, k) \in Seq(Items) /\ LacksOnly(items, RemoveAt(items, k), k)
  BY <1>6, RemoveAtProperties DEF LacksOnly
<1> QED
  BY <1>5, <1>6, <1>7

----------------------------------------------------------------------------
(* What a push may do. *)

(* The items that are no calls keep to what the calls leave them.          *)
Fits(items) == Cardinality(Slots(items, Others)) <= RoomForOthers(items)

(* There is room for one more: of any kind, or of those that are no calls. *)
Appended(items, x, new) ==
  /\ new = Append(items, x)
  /\ \/ Len(items) < Capacity
     \/ x \in Others /\ Cardinality(Slots(items, Others)) < RoomForOthers(items)

(* The item at k, which is no call, makes room.                            *)
Replaced(items, x, k, new) ==
  /\ items[k] \in Others
  /\ WithoutOldestOther(items) \in Seq(Items)
  /\ LacksOnly(items, WithoutOldestOther(items), k)
  /\ new = Append(WithoutOldestOther(items), x)

(* A call takes the place of the oldest one of nothing but calls.          *)
Rolled(items, x, new) ==
  /\ x \in Calls /\ items # << >>
  /\ Slots(items, Others) = {}
  /\ new = Append(Tail(items), x)

(* Every push is one of these, or is refused.                              *)
LEMMA PushOutcomes ==
  ASSUME NEW items \in Seq(Items), NEW x \in Items
  PROVE  \/ Appended(items, x, Pushed(items, x))
         \/ \E k \in 1..Len(items) : Replaced(items, x, k, Pushed(items, x))
         \/ Rolled(items, x, Pushed(items, x))
         \/ Pushed(items, x) = items
<1>1. CASE x \in Calls
  <2>1. Pushed(items, x) = PushCall(items, x)
    BY <1>1 DEF Pushed
  <2>2. CASE Len(items) < Capacity
    BY <2>1, <2>2 DEF PushCall, Appended
  <2>3. CASE ~(Len(items) < Capacity) /\ Slots(items, Others) # {}
    <3>1. Pushed(items, x) = Append(WithoutOldestOther(items), x)
      BY <2>1, <2>3 DEF PushCall
    <3> QED
      BY <3>1, <2>3, OldestOtherGoes DEF Replaced
  <2>4. CASE ~(Len(items) < Capacity) /\ Slots(items, Others) = {}
    <3>1. Pushed(items, x) = Append(Tail(items), x)
      BY <2>1, <2>4 DEF PushCall
    <3>2. Len(<< >>) = 0 /\ 0 < Capacity
      BY BufferConstants, EmptySeq, SMT
    <3>3. items # << >>
      BY <2>4, <3>2
    <3> QED
      BY <3>1, <3>3, <1>1, <2>4 DEF Rolled
  <2> QED
    BY <2>2, <2>3, <2>4
<1>2. CASE x \notin Calls
  <2>1. Pushed(items, x) = PushOther(items, x) /\ x \in Others
    BY <1>2 DEF Pushed, Others
  <2>2. CASE Len(items) < Capacity \/ Cardinality(Slots(items, Others)) < RoomForOthers(items)
    BY <2>1, <2>2 DEF PushOther, Appended
  <2>3. CASE /\ ~(Len(items) < Capacity \/ Cardinality(Slots(items, Others)) < RoomForOthers(items))
             /\ Slots(items, Others) # {}
    <3>1. Pushed(items, x) = Append(WithoutOldestOther(items), x)
      BY <2>1, <2>3 DEF PushOther
    <3> QED
      BY <3>1, <2>3, OldestOtherGoes DEF Replaced
  <2>4. CASE /\ ~(Len(items) < Capacity \/ Cardinality(Slots(items, Others)) < RoomForOthers(items))
             /\ Slots(items, Others) = {}
    BY <2>1, <2>4 DEF PushOther
  <2> QED
    BY <2>2, <2>3, <2>4
<1> QED
  BY <1>1, <1>2

(* The room that the calls leave, by numbers alone.                        *)
LEMMA RoomOf ==
  ASSUME NEW items \in Seq(Items)
  PROVE  \E calls, others \in Nat :
           /\ calls = Cardinality(Slots(items, Calls))
           /\ others = Cardinality(Slots(items, Others))
           /\ Len(items) = calls + others
           /\ Fits(items) <=> others <= Capacity - LesserOf(calls, ReservedSlots)
           /\ RoomForOthers(items) = Capacity - LesserOf(calls, ReservedSlots)
BY SlotsAreCounted, CallsAndOthers DEF Fits, RoomForOthers

(* An appended item fits where there was room for it.                      *)
LEMMA AppendedFits ==
  ASSUME NEW items \in Seq(Items), NEW x \in Items, NEW new,
         Fits(items), Appended(items, x, new)
  PROVE  new \in Seq(Items) /\ Fits(new)
<1>1. new = Append(items, x) /\ new \in Seq(Items)
  BY AppendProperties DEF Appended
<1>2. PICK c, o \in Nat :
        /\ c = Cardinality(Slots(items, Calls))
        /\ o = Cardinality(Slots(items, Others))
        /\ Len(items) = c + o
        /\ Fits(items) <=> o <= Capacity - LesserOf(c, ReservedSlots)
        /\ RoomForOthers(items) = Capacity - LesserOf(c, ReservedSlots)
  BY RoomOf
<1>3. PICK d, p \in Nat :
        /\ d = Cardinality(Slots(new, Calls))
        /\ p = Cardinality(Slots(new, Others))
        /\ Len(new) = d + p
        /\ Fits(new) <=> p <= Capacity - LesserOf(d, ReservedSlots)
        /\ RoomForOthers(new) = Capacity - LesserOf(d, ReservedSlots)
  BY <1>1, RoomOf
<1>4. o <= Capacity - LesserOf(c, ReservedSlots)
  BY <1>2
<1>5. c + o < Capacity \/ (x \in Others /\ o < Capacity - LesserOf(c, ReservedSlots))
  BY <1>2 DEF Appended
<1>6. IF x \in Others THEN d = c /\ p = o + 1 ELSE d = c + 1 /\ p = o
  <2>1. /\ d = IF x \in Calls THEN c + 1 ELSE c
        /\ p = IF x \in Others THEN o + 1 ELSE o
    BY <1>1, <1>2, <1>3, SlotsOfAppend
  <2> QED
    BY <2>1 DEF Others
<1>7. Capacity \in Nat /\ ReservedSlots \in Nat
  BY BufferConstants, SMT
<1>8. p <= Capacity - LesserOf(d, ReservedSlots)
  BY <1>4, <1>5, <1>6, <1>7, SMT DEF LesserOf
<1> QED
  BY <1>1, <1>3, <1>8

(* So does one that takes the place of an item that is no call.            *)
LEMMA ReplacedFits ==
  ASSUME NEW items \in Seq(Items), NEW x \in Items, NEW k \in 1..Len(items), NEW new,
         Fits(items), Replaced(items, x, k, new)
  PROVE  new \in Seq(Items) /\ Fits(new)
<1> DEFINE short == WithoutOldestOther(items)
<1>1. new = Append(short, x) /\ short \in Seq(Items) /\ new \in Seq(Items)
  BY AppendProperties DEF Replaced
<1>2. PICK c, o \in Nat :
        /\ c = Cardinality(Slots(items, Calls))
        /\ o = Cardinality(Slots(items, Others))
        /\ Len(items) = c + o
        /\ Fits(items) <=> o <= Capacity - LesserOf(c, ReservedSlots)
        /\ RoomForOthers(items) = Capacity - LesserOf(c, ReservedSlots)
  BY RoomOf
<1>3. PICK d, p \in Nat :
        /\ d = Cardinality(Slots(new, Calls))
        /\ p = Cardinality(Slots(new, Others))
        /\ Len(new) = d + p
        /\ Fits(new) <=> p <= Capacity - LesserOf(d, ReservedSlots)
        /\ RoomForOthers(new) = Capacity - LesserOf(d, ReservedSlots)
  BY <1>1, RoomOf
<1>4. o <= Capacity - LesserOf(c, ReservedSlots)
  BY <1>2
<1>5. /\ Cardinality(Slots(short, Calls)) = c
      /\ Cardinality(Slots(short, Others)) = o - 1
  <2>1. LacksOnly(items, short, k) /\ items[k] \in Others /\ items[k] \notin Calls
    BY DEF Replaced, Others
  <2>2. PICK left \in Seq(Items) : left = short
    BY <1>1
  <2> HIDE DEF short
  <2>3. ASSUME NEW kind
        PROVE  Cardinality(Slots(left, kind)) =
                 IF items[k] \in kind THEN Cardinality(Slots(items, kind)) - 1
                 ELSE Cardinality(Slots(items, kind))
    BY <2>1, <2>2, SlotsOfRemoval
  <2> QED
    BY <2>1, <2>2, <2>3, <1>2
<1>6. IF x \in Others THEN d = c /\ p = o - 1 + 1 ELSE d = c + 1 /\ p = o - 1
  <2>1. /\ d = IF x \in Calls THEN c + 1 ELSE c
        /\ p = IF x \in Others THEN o - 1 + 1 ELSE o - 1
    <3>1. PICK left \in Seq(Items) : left = short /\ new = Append(left, x)
      BY <1>1
    <3> HIDE DEF short
    <3>2. ASSUME NEW kind
          PROVE  Cardinality(Slots(new, kind)) =
                   IF x \in kind THEN Cardinality(Slots(left, kind)) + 1
                   ELSE Cardinality(Slots(left, kind))
      BY <3>1, SlotsOfAppend
    <3> QED
      BY <1>3, <1>5, <3>1, <3>2
  <2>2. x \in Calls <=> x \notin Others
    BY DEF Others
  <2> QED
    BY <2>1, <2>2
<1>7. Capacity \in Nat /\ ReservedSlots \in Nat
  BY BufferConstants, SMT
<1>8. p <= Capacity - LesserOf(d, ReservedSlots)
  BY <1>4, <1>6, <1>7, SMT DEF LesserOf
<1> QED
  BY <1>1, <1>3, <1>8

(* Ageing frees the place of its item, of either kind.                     *)
LEMMA TailFits ==
  ASSUME NEW items \in Seq(Items), items # << >>, Fits(items)
  PROVE  Tail(items) \in Seq(Items) /\ Fits(Tail(items))
<1> DEFINE new == Tail(items)
<1>1. new \in Seq(Items) /\ 1 \in 1..Len(items) /\ LacksOnly(items, new, 1)
  BY TailLacksFirst
<1>2. PICK c, o \in Nat :
        /\ c = Cardinality(Slots(items, Calls))
        /\ o = Cardinality(Slots(items, Others))
        /\ Len(items) = c + o
        /\ Fits(items) <=> o <= Capacity - LesserOf(c, ReservedSlots)
        /\ RoomForOthers(items) = Capacity - LesserOf(c, ReservedSlots)
  BY RoomOf
<1>3. PICK d, p \in Nat :
        /\ d = Cardinality(Slots(new, Calls))
        /\ p = Cardinality(Slots(new, Others))
        /\ Len(new) = d + p
        /\ Fits(new) <=> p <= Capacity - LesserOf(d, ReservedSlots)
        /\ RoomForOthers(new) = Capacity - LesserOf(d, ReservedSlots)
  BY <1>1, RoomOf
<1>4. o <= Capacity - LesserOf(c, ReservedSlots)
  BY <1>2
<1>5. (d = c \/ d = c - 1) /\ (p = o \/ p = o - 1)
  <2>1. /\ d = IF items[1] \in Calls THEN c - 1 ELSE c
        /\ p = IF items[1] \in Others THEN o - 1 ELSE o
    BY <1>2, <1>3, SlotsOfTail
  <2> QED
    BY <2>1
<1>6. Capacity \in Nat /\ ReservedSlots \in Nat
  BY BufferConstants, SMT
<1>7. p <= Capacity - LesserOf(d, ReservedSlots)
  BY <1>4, <1>5, <1>6, SMT DEF LesserOf
<1> QED
  BY <1>1, <1>3, <1>7

(* A buffer of nothing but calls has all the room there is.                *)
LEMMA CallsAloneFit ==
  ASSUME NEW items \in Seq(Items), Slots(items, Others) = {}
  PROVE  Fits(items)
<1>1. PICK c, o \in Nat :
        /\ c = Cardinality(Slots(items, Calls))
        /\ o = Cardinality(Slots(items, Others))
        /\ Len(items) = c + o
        /\ Fits(items) <=> o <= Capacity - LesserOf(c, ReservedSlots)
        /\ RoomForOthers(items) = Capacity - LesserOf(c, ReservedSlots)
  BY RoomOf
<1>2. o = 0
  BY <1>1, FS_EmptySet
<1>3. Capacity \in Nat /\ ReservedSlots \in Nat /\ ReservedSlots <= Capacity
  BY BufferConstants, SMT
<1>4. 0 <= Capacity - LesserOf(c, ReservedSlots)
  BY <1>3, SMT DEF LesserOf
<1> QED
  BY <1>1, <1>2, <1>4

(* A call that takes a call's place leaves nothing but calls.              *)
LEMMA RolledIsCalls ==
  ASSUME NEW items \in Seq(Items), NEW x \in Items, NEW new, Rolled(items, x, new)
  PROVE  new \in Seq(Items) /\ Slots(new, Others) = {}
<1>1. /\ Tail(items) \in Seq(Items) /\ 1 \in 1..Len(items)
      /\ LacksOnly(items, Tail(items), 1)
  BY TailLacksFirst DEF Rolled
<1>2. new = Append(Tail(items), x) /\ new \in Seq(Items)
  BY <1>1, AppendProperties DEF Rolled
<1>3. 1 \notin Slots(items, Others) /\ DOMAIN items = 1..Len(items)
  BY LenProperties DEF Rolled
<1>4. items[1] \notin Others
  BY <1>1, <1>3 DEF Slots
<1>5. Cardinality(Slots(Tail(items), Others)) = 0
  <2>1. items # << >> /\ Cardinality(Slots(items, Others)) = 0
    BY FS_EmptySet DEF Rolled
  <2>2. Cardinality(Slots(Tail(items), Others)) = Cardinality(Slots(items, Others))
    BY <1>4, <2>1, SlotsOfTail
  <2> QED
    BY <2>1, <2>2
<1>6. x \notin Others
  BY DEF Rolled, Others
<1>7. Cardinality(Slots(new, Others)) = 0
  BY <1>1, <1>2, <1>5, <1>6, SlotsOfAppend
<1>8. IsFiniteSet(Slots(new, Others))
  BY <1>2, SlotsAreCounted
<1> QED
  BY <1>2, <1>7, <1>8, FS_EmptySet

(* Every push leaves a buffer that fits.                                   *)
LEMMA PushedFits ==
  ASSUME NEW items \in Seq(Items), NEW x \in Items, Fits(items)
  PROVE  Pushed(items, x) \in Seq(Items) /\ Fits(Pushed(items, x))
<1>1. CASE Appended(items, x, Pushed(items, x))
  BY <1>1, AppendedFits
<1>2. ASSUME NEW k \in 1..Len(items), Replaced(items, x, k, Pushed(items, x))
      PROVE  Pushed(items, x) \in Seq(Items) /\ Fits(Pushed(items, x))
  BY <1>2, ReplacedFits
<1>3. CASE Rolled(items, x, Pushed(items, x))
  BY <1>3, RolledIsCalls, CallsAloneFit
<1>4. CASE Pushed(items, x) = items
  BY <1>4
<1> QED
  BY <1>1, <1>2, <1>3, <1>4, PushOutcomes

----------------------------------------------------------------------------
(* The connections, and the buffer that fits. *)

(* Messages come over sockets that were opened.                            *)
Sent == \A a \in Auths : phase[a] # "new" => socket[SocketOf[a]] # "new"

(* The state of a socket came over it; the user's state of an open socket  *)
(* is registered.                                                          *)
Attached ==
  \A c \in Sockets :
    /\ current[c] # None => SocketOf[current[c]] = c /\ phase[current[c]] # "new"
    /\ IsOpen(c) /\ OfUser(current[c]) => current[c] \in registered

(* The invariant: the types, who is registered, and room kept for calls.   *)
IInv == TypeOK /\ Sent /\ Attached /\ Fits(buffer)

(* What the invariant says of the connections.                             *)
ConnectionsOK ==
  /\ account \in Found /\ changes \in 0..MaxChanges
  /\ socket \in [Sockets -> {"new", "open", "closed"}]
  /\ current \in [Sockets -> Auths \cup {None}]
  /\ phase \in [Auths -> {"new", "lookup", "user", "other", "done"}]
  /\ answer \in [Auths -> Found \cup {"other", "none"}]
  /\ timers \subseteq {a \in Auths : phase[a] \in {"user", "other"}}
  /\ hubs \cup registered \subseteq {a \in Auths : phase[a] = "user"}
  /\ subscribedHubs \subseteq registered
  /\ Cardinality(registered) <= MaxConnections
  /\ subscribed \in BOOLEAN
  /\ Sent /\ Attached

(* The relay starts with no connection and an empty buffer.                *)
LEMMA InitIInv == Init => IInv
<1> SUFFICES ASSUME Init PROVE IInv
  OBVIOUS
<1>1. buffer = << >> /\ buffer \in Seq(Items) /\ Len(buffer) = 0
  BY EmptySeq DEF Init
<1>2. TypeOK
  <2>1. 0 \in 0..MaxChanges
    BY ManagerConstants, SMT
  <2>2. Cardinality(registered) <= MaxConnections
    <3>1. registered = {} /\ Cardinality({}) = 0
      BY FS_EmptySet DEF Init
    <3>2. 0 <= MaxConnections
      BY ManagerConstants, SMT
    <3> QED
      BY <3>1, <3>2
  <2> QED
    BY <1>1, <2>1, <2>2 DEF Init, TypeOK, Found
<1>3. Sent /\ Attached
  BY DEF Init, Sent, Attached, IsOpen
<1>4. Slots(buffer, Others) = {}
  <2>1. Slots(buffer, Others) \subseteq 1..0
    BY <1>1, SlotsAreCounted
  <2>2. 1..0 = {}
    BY SMT
  <2> QED
    BY <2>1, <2>2
<1> QED
  BY <1>1, <1>2, <1>3, <1>4, CallsAloneFit DEF IInv

(* A message that has come to be in phase p.                               *)
LEMMA PhaseOf ==
  ASSUME phase \in [Auths -> {"new", "lookup", "user", "other", "done"}],
         NEW a \in Auths, NEW p \in {"new", "lookup", "user", "other", "done"}, Goes(a, p)
  PROVE  /\ phase' \in [Auths -> {"new", "lookup", "user", "other", "done"}]
         /\ phase'[a] = p
         /\ \A b \in Auths : b # a => phase'[b] = phase[b]
BY DEF Goes

(* An answer, or none, that a message now has.                             *)
LEMMA AnswerOf ==
  ASSUME answer \in [Auths -> Found \cup {"other", "none"}],
         NEW a \in Auths, NEW found \in Found \cup {"other", "none"}, Answered(a, found)
  PROVE  answer' \in [Auths -> Found \cup {"other", "none"}]
BY DEF Answered

(* The limit is kept by what is left of the registered states.             *)
LEMMA FewerKeepTheLimit ==
  ASSUME ConnectionsOK, NEW S \in SUBSET registered
  PROVE  Cardinality(S) <= MaxConnections
<1>1. IsFiniteSet(registered)
  <2>1. registered \subseteq Auths /\ IsFiniteSet(Auths)
    BY ManagerConstants DEF ConnectionsOK
  <2> QED
    BY <2>1, FS_Subset
<1>2. IsFiniteSet(S) /\ Cardinality(S) <= Cardinality(registered)
  BY <1>1, FS_Subset
<1>3. Cardinality(S) \in Nat /\ Cardinality(registered) \in Nat /\ MaxConnections \in Nat
  BY <1>1, <1>2, FS_CardinalityType, ManagerConstants
<1>4. PICK m, n \in Nat : m = Cardinality(S) /\ n = Cardinality(registered)
  BY <1>3
<1>5. m <= n /\ n <= MaxConnections
  BY <1>2, <1>4 DEF ConnectionsOK
<1>6. m <= MaxConnections
  BY <1>3, <1>5, SMT
<1> QED
  BY <1>4, <1>6

(* One more state is registered only below the limit.                      *)
LEMMA RoomKeepsTheLimit ==
  ASSUME ConnectionsOK, HasRoom, NEW a \in Auths, a \notin registered
  PROVE  Cardinality(registered \cup {a}) <= MaxConnections
<1>1. IsFiniteSet(registered)
  <2>1. registered \subseteq Auths /\ IsFiniteSet(Auths)
    BY ManagerConstants DEF ConnectionsOK
  <2> QED
    BY <2>1, FS_Subset
<1>2. PICK n \in Nat : n = Cardinality(registered)
  BY <1>1, FS_CardinalityType
<1>3. Cardinality(registered \cup {a}) = n + 1
  BY <1>1, <1>2, FS_AddElement
<1>4. n < MaxConnections /\ MaxConnections \in Nat
  BY <1>2, ManagerConstants DEF HasRoom
<1>5. n + 1 <= MaxConnections
  BY <1>4, SMT
<1> QED
  BY <1>3, <1>5

(* A socket that is shut is not open, and forgets at most the state that   *)
(* it is shut with.                                                        *)
LEMMA ShutForgets ==
  ASSUME ConnectionsOK, NEW c \in Sockets, NEW s, Shuts(c, s)
  PROVE  /\ socket' \in [Sockets -> {"new", "open", "closed"}]
         /\ socket'[c] # "open" /\ (socket'[c] = "new" => socket[c] = "new")
         /\ \A d \in Sockets : d # c => socket'[d] = socket[d]
         /\ timers' \subseteq timers
         /\ registered' \subseteq registered
         /\ \A b \in registered : b # s => b \in registered'
         /\ subscribedHubs' \subseteq registered'
         /\ subscribed' \in BOOLEAN
         /\ Cardinality(registered') <= MaxConnections
<1>1. CASE IsOpen(c)
  <2>1. /\ socket' = [socket EXCEPT ![c] = "closed"]
        /\ timers' = timers \ {current[c]}
        /\ registered' = registered \ {s}
        /\ subscribedHubs' = subscribedHubs \ {s}
    BY <1>1 DEF Shuts, Unregister
  <2>2. subscribed' \in BOOLEAN
    BY <1>1 DEF Shuts, Unregister, ConnectionsOK
  <2>3. Cardinality(registered') <= MaxConnections
    BY <2>1, FewerKeepTheLimit
  <2> QED
    BY <2>1, <2>2, <2>3 DEF ConnectionsOK
<1>2. CASE ~IsOpen(c)
  <2>1. UNCHANGED <<socket, timers, registered, subscribed, subscribedHubs>>
    BY <1>2 DEF Shuts
  <2> QED
    BY <1>2, <2>1 DEF ConnectionsOK, IsOpen
<1> QED
  BY <1>1, <1>2

(* A socket that is shut with the state it has.                            *)
LEMMA ShutKeeps ==
  ASSUME ConnectionsOK, NEW c \in Sockets, Shuts(c, current[c]),
         UNCHANGED <<user, phase, current, hubs>>,
         answer' \in [Auths -> Found \cup {"other", "none"}]
  PROVE  ConnectionsOK'
<1>1. UNCHANGED <<account, changes>>
  BY DEF user
<1>2. /\ socket' \in [Sockets -> {"new", "open", "closed"}]
      /\ socket'[c] # "open" /\ (socket'[c] = "new" => socket[c] = "new")
      /\ \A d \in Sockets : d # c => socket'[d] = socket[d]
      /\ timers' \subseteq timers
      /\ registered' \subseteq registered
      /\ \A b \in registered : b # current[c] => b \in registered'
      /\ subscribedHubs' \subseteq registered'
      /\ subscribed' \in BOOLEAN
      /\ Cardinality(registered') <= MaxConnections
  BY ShutForgets
<1>3. Attached'
  <2> SUFFICES ASSUME NEW d \in Sockets
               PROVE  /\ current[d] # None => SocketOf[current[d]] = d /\ phase[current[d]] # "new"
                      /\ socket'[d] = "open" /\ current[d] # None /\ phase[current[d]] = "user"
                           => current[d] \in registered'
    BY DEF Attached, IsOpen, OfUser
  <2>1. /\ current[d] # None => SocketOf[current[d]] = d /\ phase[current[d]] # "new"
        /\ socket[d] = "open" /\ current[d] # None /\ phase[current[d]] = "user"
             => current[d] \in registered
    BY DEF ConnectionsOK, Attached, IsOpen, OfUser
  <2>2. current[c] # None => SocketOf[current[c]] = c
    BY DEF ConnectionsOK, Attached
  <2> QED
    BY <1>2, <2>1, <2>2
<1>4. Sent'
  <2> SUFFICES ASSUME NEW a \in Auths, phase[a] # "new" PROVE socket'[SocketOf[a]] # "new"
    BY DEF Sent
  <2>1. SocketOf[a] \in Sockets /\ socket[SocketOf[a]] # "new"
    BY ManagerConstants DEF ConnectionsOK, Sent
  <2> QED
    BY <1>2, <2>1
<1> QED
  BY <1>1, <1>2, <1>3, <1>4 DEF ConnectionsOK

(* A message that is looked up, on a socket that opened before.            *)
LEMMA ConnectingKeeps ==
  ASSUME ConnectionsOK,
         (\E c \in Sockets : Open(c)) \/ (\E a \in Auths : LooksUp(a))
  PROVE  ConnectionsOK'
<1>1. ASSUME NEW c \in Sockets, Open(c) PROVE ConnectionsOK'
  <2>1. /\ socket' = [socket EXCEPT ![c] = "open"] /\ socket[c] = "new"
        /\ UNCHANGED <<account, changes, phase, answer, current, timers, hubs, subscribedHubs,
                       registered, subscribed>>
    BY <1>1 DEF Open, user, auths, manager
  <2>2. current[c] = None
    <3>1. CASE current[c] # None
      <4>1. current[c] \in Auths /\ SocketOf[current[c]] = c /\ phase[current[c]] # "new"
        BY <3>1 DEF ConnectionsOK, Attached
      <4>2. socket[c] # "new"
        BY <4>1 DEF ConnectionsOK, Sent
      <4> QED
        BY <4>2, <2>1
    <3> QED
      BY <3>1
  <2>3. /\ socket' \in [Sockets -> {"new", "open", "closed"}] /\ socket'[c] = "open"
        /\ \A d \in Sockets : d # c => socket'[d] = socket[d]
    BY <2>1 DEF ConnectionsOK
  <2>4. Attached'
    BY <2>1, <2>2, <2>3 DEF ConnectionsOK, Attached, IsOpen, OfUser
  <2>5. Sent'
    <3>1. \A a \in Auths : SocketOf[a] \in Sockets
      BY ManagerConstants
    <3> QED
      BY <2>1, <2>3, <3>1 DEF ConnectionsOK, Sent
  <2> QED
    BY <2>1, <2>3, <2>4, <2>5 DEF ConnectionsOK
<1>2. ASSUME NEW a \in Auths, LooksUp(a) PROVE ConnectionsOK'
  <2>1. /\ phase[a] = "new" /\ Goes(a, "lookup") /\ IsOpen(SocketOf[a])
        /\ Answered(a, account) \/ Answered(a, "other")
        /\ UNCHANGED <<account, changes, socket, current, timers, hubs, subscribedHubs,
                       registered, subscribed>>
    BY <1>2 DEF LooksUp, user, conns, manager
  <2>2. /\ phase' \in [Auths -> {"new", "lookup", "user", "other", "done"}]
        /\ phase'[a] = "lookup"
        /\ \A b \in Auths : b # a => phase'[b] = phase[b]
    BY <2>1, PhaseOf DEF ConnectionsOK
  <2>3. answer' \in [Auths -> Found \cup {"other", "none"}]
    BY <2>1, AnswerOf DEF ConnectionsOK
  <2>4. Sent' /\ Attached'
    BY <2>1, <2>2 DEF ConnectionsOK, Sent, Attached, IsOpen, OfUser
  <2> QED
    BY <2>1, <2>2, <2>3, <2>4 DEF ConnectionsOK
<1> QED
  BY <1>1, <1>2

(* A message whose lookup has returned, and the socket's state by then: as *)
(* it was, or the message's own.                                           *)
LEMMA LookupKeeps ==
  ASSUME ConnectionsOK, NEW a \in Auths, LookupReturns(a)
  PROVE  ConnectionsOK'
<1> DEFINE c == SocketOf[a]
<1>1. /\ phase[a] = "lookup" /\ Answered(a, "none")
      /\ UNCHANGED <<account, changes>>
  BY DEF LookupReturns, user
<1>2. answer' \in [Auths -> Found \cup {"other", "none"}]
  BY <1>1, AnswerOf DEF ConnectionsOK
<1>3. /\ c \in Sockets /\ socket[c] # "new"
      /\ \A b \in Auths : SocketOf[b] \in Sockets
      /\ None \notin Auths
  BY <1>1, ManagerConstants DEF ConnectionsOK, Sent
<1>4. a \notin registered
  BY <1>1 DEF ConnectionsOK
<1>5. \A d \in Sockets : current[d] # None =>
        SocketOf[current[d]] = d /\ phase[current[d]] # "new"
  BY DEF ConnectionsOK, Attached
<1>6. ASSUME Refuses(a) PROVE ConnectionsOK'
  <2>1. Goes(a, "done") /\ Shuts(c, current[c]) /\ UNCHANGED <<current, hubs>>
    BY <1>6 DEF Refuses
  <2>2. /\ phase' \in [Auths -> {"new", "lookup", "user", "other", "done"}]
        /\ phase'[a] = "done"
        /\ \A b \in Auths : b # a => phase'[b] = phase[b]
    BY <2>1, PhaseOf DEF ConnectionsOK
  <2>3. /\ socket' \in [Sockets -> {"new", "open", "closed"}]
        /\ socket'[c] # "open" /\ (socket'[c] = "new" => socket[c] = "new")
        /\ \A d \in Sockets : d # c => socket'[d] = socket[d]
        /\ timers' \subseteq timers
        /\ registered' \subseteq registered
        /\ \A b \in registered : b # current[c] => b \in registered'
        /\ subscribedHubs' \subseteq registered'
        /\ subscribed' \in BOOLEAN
        /\ Cardinality(registered') <= MaxConnections
    BY <1>3, <2>1, ShutForgets
  <2> QED
    BY <1>1, <1>2, <1>3, <1>5, <2>1, <2>2, <2>3
       DEF ConnectionsOK, Sent, Attached, IsOpen, OfUser
<1>7. ASSUME Becomes(a, "user"), hubs' \subseteq hubs \cup {a}, Accepts(a) /\ HasRoom
      PROVE  ConnectionsOK'
  <2>1. /\ phase' \in [Auths -> {"new", "lookup", "user", "other", "done"}]
        /\ phase'[a] = "user"
        /\ \A b \in Auths : b # a => phase'[b] = phase[b]
    BY <1>7, PhaseOf DEF Becomes, ConnectionsOK
  <2>2. /\ current' = [current EXCEPT ![c] = a]
        /\ registered' = registered \cup {a} /\ timers' = timers \cup {a}
        /\ UNCHANGED <<socket, subscribedHubs, subscribed>>
    BY <1>7 DEF Becomes, Accepts
  <2>3. Cardinality(registered') <= MaxConnections
    BY <1>4, <1>7, <2>2, RoomKeepsTheLimit
  <2> QED
    BY <1>1, <1>2, <1>3, <1>5, <1>7, <2>1, <2>2, <2>3
       DEF ConnectionsOK, Sent, Attached, IsOpen, OfUser
<1>8. ASSUME NEW whose \in {"user", "other"}, Becomes(a, whose), Shuts(c, a),
             hubs' \subseteq hubs \cup {a}, whose = "other" => hubs' = hubs
      PROVE  ConnectionsOK'
  <2>1. /\ phase' \in [Auths -> {"new", "lookup", "user", "other", "done"}]
        /\ phase'[a] = whose
        /\ \A b \in Auths : b # a => phase'[b] = phase[b]
    BY <1>8, PhaseOf DEF Becomes, ConnectionsOK
  <2>2. current' = [current EXCEPT ![c] = a]
    BY <1>8 DEF Becomes
  <2>3. /\ socket' \in [Sockets -> {"new", "open", "closed"}]
        /\ socket'[c] # "open" /\ (socket'[c] = "new" => socket[c] = "new")
        /\ \A d \in Sockets : d # c => socket'[d] = socket[d]
        /\ timers' \subseteq timers
        /\ registered' \subseteq registered
        /\ \A b \in registered : b # a => b \in registered'
        /\ subscribedHubs' \subseteq registered'
        /\ subscribed' \in BOOLEAN
        /\ Cardinality(registered') <= MaxConnections
    BY <1>3, <1>8, ShutForgets
  <2>4. Sent'
    BY <1>1, <1>3, <2>1, <2>3 DEF ConnectionsOK, Sent
  <2>5. ASSUME NEW d \in Sockets, d # c, socket'[d] = "open", current[d] # None,
               phase'[current[d]] = "user"
        PROVE  current[d] \in registered'
    <3>1. current[d] \in Auths /\ current[d] # a /\ phase[current[d]] = "user"
      BY <1>5, <2>1, <2>5 DEF ConnectionsOK
    <3>2. current[d] \in registered
      BY <2>3, <2>5, <3>1 DEF ConnectionsOK, Attached, IsOpen, OfUser
    <3> QED
      BY <2>3, <3>1, <3>2
  <2>6. ASSUME NEW d \in Sockets, current'[d] # None
        PROVE  SocketOf[current'[d]] = d /\ phase'[current'[d]] # "new"
    <3>1. current'[d] = IF d = c THEN a ELSE current[d]
      BY <2>2 DEF ConnectionsOK
    <3> QED
      BY <1>5, <2>1, <2>6, <3>1 DEF ConnectionsOK
  <2>7. Attached'
    BY <2>2, <2>3, <2>5, <2>6 DEF ConnectionsOK, Attached, IsOpen, OfUser
  <2>8. /\ timers' \subseteq {b \in Auths : phase'[b] \in {"user", "other"}}
        /\ hubs' \cup registered' \subseteq {b \in Auths : phase'[b] = "user"}
    <3>1. a \notin timers /\ a \notin hubs
      BY <1>1 DEF ConnectionsOK
    <3>2. timers' \subseteq {b \in Auths : phase'[b] \in {"user", "other"}}
      BY <2>1, <2>3, <3>1 DEF ConnectionsOK
    <3>3. registered' \subseteq {b \in Auths : phase'[b] = "user"}
      BY <1>4, <2>1, <2>3 DEF ConnectionsOK
    <3>4. hubs' \subseteq {b \in Auths : phase'[b] = "user"}
      BY <1>8, <2>1, <3>1 DEF ConnectionsOK
    <3> QED
      BY <3>2, <3>3, <3>4
  <2>9. current' \in [Sockets -> Auths \cup {None}]
    BY <2>2 DEF ConnectionsOK
  <2> QED
    BY <1>1, <1>2, <2>1, <2>3, <2>4, <2>7, <2>8, <2>9 DEF ConnectionsOK
<1>9. ASSUME Becomes(a, "other"), timers' = timers \cup {a},
             UNCHANGED <<hubs, socket, registered, subscribedHubs, subscribed>>
      PROVE  ConnectionsOK'
  <2>1. /\ phase' \in [Auths -> {"new", "lookup", "user", "other", "done"}]
        /\ phase'[a] = "other"
        /\ \A b \in Auths : b # a => phase'[b] = phase[b]
    BY <1>9, PhaseOf DEF Becomes, ConnectionsOK
  <2>2. current' = [current EXCEPT ![c] = a]
    BY <1>9 DEF Becomes
  <2> QED
    BY <1>1, <1>2, <1>3, <1>4, <1>5, <1>9, <2>1, <2>2
       DEF ConnectionsOK, Sent, Attached, IsOpen, OfUser
<1> QED
  BY <1>6, <1>7, <1>8, <1>9 DEF LookupReturns

(* A socket that closes.                                                   *)
LEMMA CloseKeeps ==
  ASSUME ConnectionsOK, NEW c \in Sockets, Close(c)
  PROVE  ConnectionsOK'
<1>1. Shuts(c, current[c]) /\ UNCHANGED <<user, phase, answer, current, hubs>>
  BY DEF Close, auths
<1>2. answer' \in [Auths -> Found \cup {"other", "none"}]
  BY <1>1 DEF ConnectionsOK
<1> QED
  BY <1>1, <1>2, ShutKeeps

(* Only a registered state asks for the hub.                               *)
LEMMA SubscriptionsKeep ==
  ASSUME ConnectionsOK, NEW c \in Sockets, Subscribe(c) \/ Unsubscribe(c)
  PROVE  ConnectionsOK'
<1>1. /\ UNCHANGED <<account, changes, socket, current, phase, answer, timers, hubs, registered>>
      /\ subscribedHubs' \subseteq subscribedHubs \cup ({current[c]} \cap hubs)
      /\ subscribed' \in BOOLEAN /\ IsOpen(c)
  BY DEF Subscribe, Unsubscribe, user, auths, conns
<1>2. subscribedHubs' \subseteq registered
  <2>1. ASSUME current[c] \in hubs PROVE current[c] \in registered
    BY <1>1, <2>1, ManagerConstants DEF ConnectionsOK, Attached, OfUser
  <2> QED
    BY <1>1, <2>1 DEF ConnectionsOK
<1> QED
  BY <1>1, <1>2 DEF ConnectionsOK, Sent, Attached, IsOpen, OfUser

(* A revalidation, which may come back to a socket that is closed.         *)
LEMMA RevalidationKeeps ==
  ASSUME ConnectionsOK, NEW a \in Auths, RevalidationReads(a) \/ RevalidationReturns(a)
  PROVE  ConnectionsOK'
<1>1. CASE RevalidationReads(a)
  <2>1. /\ Answered(a, account) \/ Answered(a, "other")
        /\ UNCHANGED <<account, changes, phase, socket, current, timers, hubs, subscribedHubs,
                       registered, subscribed>>
    BY <1>1 DEF RevalidationReads, user, conns, manager
  <2>2. answer' \in [Auths -> Found \cup {"other", "none"}]
    BY <2>1, AnswerOf DEF ConnectionsOK
  <2> QED
    BY <2>1, <2>2 DEF ConnectionsOK, Sent, Attached, IsOpen, OfUser
<1>2. CASE RevalidationReturns(a)
  <2> DEFINE c == SocketOf[a]
  <2>1. /\ Answered(a, "none") /\ UNCHANGED <<user, phase>> /\ UNCHANGED <<account, changes>>
        /\ c \in Sockets
    BY <1>2, ManagerConstants DEF RevalidationReturns, user
  <2>2. answer' \in [Auths -> Found \cup {"other", "none"}]
    BY <2>1, AnswerOf DEF ConnectionsOK
  <2>3. CASE Shuts(c, current[c]) /\ UNCHANGED <<current, hubs>>
    BY <2>1, <2>2, <2>3, ShutKeeps
  <2>4. CASE /\ hubs' \subseteq hubs \cup {b \in {current[c]} : OfUser(b)}
             /\ subscribed' \in BOOLEAN
             /\ UNCHANGED <<conns, registered, subscribedHubs>>
    <3>1. UNCHANGED <<socket, current, timers, registered, subscribedHubs>>
      BY <2>4 DEF conns
    <3>2. hubs' \subseteq {b \in Auths : phase[b] = "user"}
      BY <2>1, <2>4 DEF ConnectionsOK, OfUser
    <3> QED
      BY <2>1, <2>2, <2>4, <3>1, <3>2 DEF ConnectionsOK, Sent, Attached, IsOpen, OfUser
  <2>5. ASSUME SaysStranger(c, answer[a])
        PROVE  /\ hubs' \subseteq hubs
               /\ subscribed' \in BOOLEAN
               /\ UNCHANGED <<conns, registered, subscribedHubs>>
    BY <2>5 DEF SaysStranger, EvictMember, manager, ConnectionsOK
  <2>6. ASSUME SaysMember(c, answer[a]) \/ SaysOther(c, answer[a])
        PROVE  /\ hubs' \subseteq hubs \cup {b \in {current[c]} : OfUser(b)}
               /\ subscribed' \in BOOLEAN
               /\ UNCHANGED <<conns, registered, subscribedHubs>>
    BY <2>6 DEF SaysMember, SaysOther, ConnectionsOK
  <2>7. SaysNobody(c, answer[a]) => Shuts(c, current[c]) /\ UNCHANGED <<current, hubs>>
    BY DEF SaysNobody
  <2>8. \/ SaysNobody(c, answer[a]) \/ SaysStranger(c, answer[a])
        \/ SaysMember(c, answer[a]) \/ SaysOther(c, answer[a])
    BY <1>2 DEF RevalidationReturns
  <2> QED
    BY <2>3, <2>4, <2>5, <2>6, <2>7, <2>8
<1> QED
  BY <1>1, <1>2

(* The account changes, and its sockets are closed at once.                *)
LEMMA AccountKeeps ==
  ASSUME ConnectionsOK, Joins \/ Leaves \/ Deactivates \/ Terminates
  PROVE  ConnectionsOK'
<1>1. CASE Joins \/ Leaves \/ Deactivates
  <2>1. /\ UNCHANGED <<phase, answer, socket, current, timers, hubs, subscribedHubs, registered,
                       subscribed>>
        /\ account' \in Found
    BY <1>1 DEF Joins, Leaves, Deactivates, auths, conns, manager, Found
  <2>2. changes' = changes \/ (changes < MaxChanges /\ changes' = changes + 1)
    BY <1>1 DEF Joins, Leaves, Deactivates
  <2>3. changes \in 0..MaxChanges /\ MaxChanges \in Nat
    BY ManagerConstants DEF ConnectionsOK
  <2>4. changes' \in 0..MaxChanges
    BY <2>2, <2>3, SMT
  <2> QED
    BY <2>1, <2>4 DEF ConnectionsOK, Sent, Attached, IsOpen, OfUser
<1>2. CASE Terminates
  <2> DEFINE shut == {c \in Sockets : IsOpen(c) /\ \E a \in registered : SocketOf[a] = c}
  <2>1. /\ registered' = {} /\ subscribedHubs' = {}
        /\ socket' = [c \in Sockets |-> IF c \in shut THEN "closed" ELSE socket[c]]
        /\ timers' \subseteq timers
        /\ UNCHANGED <<account, changes, phase, answer, current, hubs>>
    BY <1>2 DEF Terminates, user, auths
  <2>2. subscribed' \in BOOLEAN
    BY <1>2 DEF Terminates, ConnectionsOK
  <2>3. Cardinality(registered') <= MaxConnections
    BY <2>1, FewerKeepTheLimit
  <2>4. \A c \in Sockets : socket'[c] = IF c \in shut THEN "closed" ELSE socket[c]
    BY <2>1
  <2>5. ASSUME NEW c \in Sockets, socket'[c] = "open", current[c] # None,
               phase[current[c]] = "user"
        PROVE  FALSE
    <3>1. c \notin shut /\ IsOpen(c)
      BY <2>4, <2>5 DEF IsOpen
    <3>2. current[c] \in registered /\ SocketOf[current[c]] = c
      BY <2>5, <3>1 DEF ConnectionsOK, Attached, OfUser
    <3> QED
      BY <3>1, <3>2
  <2>6. Attached'
    BY <2>1, <2>5 DEF ConnectionsOK, Attached, IsOpen, OfUser
  <2>7. Sent'
    <3>1. \A a \in Auths : SocketOf[a] \in Sockets
      BY ManagerConstants
    <3> QED
      BY <2>1, <2>4, <3>1 DEF ConnectionsOK, Sent
  <2>8. socket' \in [Sockets -> {"new", "open", "closed"}]
    BY <2>1 DEF ConnectionsOK
  <2> HIDE DEF shut
  <2> QED
    BY <2>1, <2>2, <2>3, <2>6, <2>7, <2>8 DEF ConnectionsOK
<1> QED
  BY <1>1, <1>2

(* What a step does to the buffer: a push, an ageing, or nothing.          *)
LEMMA BufferSteps ==
  ASSUME [Next]_vars
  PROVE  \/ \E x \in Items : buffer' = Pushed(buffer, x)
         \/ buffer # << >> /\ buffer' = Tail(buffer)
         \/ buffer' = buffer
<1>1. ASSUME NEW c \in Sockets, SocketStep(c) PROVE buffer' = buffer
  BY <1>1 DEF SocketStep, Open, Close, Subscribe, Unsubscribe
<1>2. ASSUME NEW a \in Auths, LooksUp(a) \/ AuthStep(a) PROVE buffer' = buffer
  BY <1>2 DEF AuthStep, LooksUp, LookupReturns, RevalidationReads, RevalidationReturns
<1>3. CASE Joins \/ Leaves \/ Deactivates \/ Terminates
  BY <1>3 DEF Joins, Leaves, Deactivates, Terminates
<1>4. ASSUME NEW x \in Items, PublishToHub(x) PROVE buffer' = Pushed(buffer, x)
  BY <1>4 DEF PublishToHub
<1>5. CASE EvictExpired
  BY <1>5 DEF EvictExpired
<1>6. CASE UNCHANGED vars
  BY <1>6 DEF vars
<1> QED
  BY <1>1, <1>2, <1>3, <1>4, <1>5, <1>6 DEF Next

(* Every step keeps the invariant.                                         *)
LEMMA NextIInv == IInv /\ [Next]_vars => IInv'
<1> SUFFICES ASSUME IInv, [Next]_vars PROVE IInv'
  OBVIOUS
<1>1. ConnectionsOK /\ buffer \in Seq(Items) /\ Fits(buffer)
  BY DEF IInv, TypeOK, ConnectionsOK
<1>2. buffer' \in Seq(Items) /\ Fits(buffer')
  BY <1>1, BufferSteps, PushedFits, TailFits
<1>3. ConnectionsOK'
  <2>1. ASSUME NEW c \in Sockets, SocketStep(c) PROVE ConnectionsOK'
    BY <1>1, <2>1, ConnectingKeeps, CloseKeeps, SubscriptionsKeep DEF SocketStep
  <2>2. ASSUME NEW a \in Auths, LooksUp(a) \/ AuthStep(a) PROVE ConnectionsOK'
    BY <1>1, <2>2, ConnectingKeeps, LookupKeeps, RevalidationKeeps DEF AuthStep
  <2>3. CASE Joins \/ Leaves \/ Deactivates \/ Terminates
    BY <1>1, <2>3, AccountKeeps
  <2>4. CASE (\E x \in Items : PublishToHub(x)) \/ EvictExpired \/ UNCHANGED vars
    <3>1. UNCHANGED <<user, auths, conns, manager>>
      BY <2>4 DEF PublishToHub, EvictExpired, vars
    <3>2. UNCHANGED <<account, changes, phase, answer, socket, current, timers, hubs,
                      subscribedHubs, registered, subscribed>>
      BY <3>1 DEF user, auths, conns, manager
    <3> QED
      BY <1>1, <3>2 DEF ConnectionsOK, Sent, Attached, IsOpen, OfUser
  <2> QED
    BY <2>1, <2>2, <2>3, <2>4 DEF Next
<1>4. Fits(buffer)'
  BY <1>2 DEF Fits, RoomForOthers
<1> QED
  BY <1>2, <1>3, <1>4 DEF IInv, TypeOK, ConnectionsOK

(* The types hold, and no more states are registered than the limit; only  *)
(* registered ones are subscribed for the hub: whatever closes, and however*)
(* many messages come over a socket, while a lookup is under way.          *)
THEOREM TypeCorrect == Spec => []TypeOK
<1>1. IInv => TypeOK
  BY DEF IInv
<1> QED
  BY InitIInv, NextIInv, <1>1, PTL DEF Spec

(* The buffer never holds more than its capacity while the calls keep to   *)
(* the slots reserved for them, however far more calls had grown it before.*)
THEOREM CapacityHolds == Spec => []CapacityWhileCallsFit
<1>1. IInv => CapacityWhileCallsFit
  <2> SUFFICES ASSUME IInv, Cardinality(Slots(buffer, Calls)) <= ReservedSlots
               PROVE  Len(buffer) <= Capacity
    BY DEF CapacityWhileCallsFit
  <2>1. buffer \in Seq(Items) /\ Fits(buffer)
    BY DEF IInv, TypeOK
  <2>2. PICK c, o \in Nat :
          /\ c = Cardinality(Slots(buffer, Calls))
          /\ o = Cardinality(Slots(buffer, Others))
          /\ Len(buffer) = c + o
          /\ Fits(buffer) <=> o <= Capacity - LesserOf(c, ReservedSlots)
          /\ RoomForOthers(buffer) = Capacity - LesserOf(c, ReservedSlots)
    BY <2>1, RoomOf
  <2>3. c <= ReservedSlots /\ o <= Capacity - LesserOf(c, ReservedSlots)
    BY <2>1, <2>2
  <2>4. Capacity \in Nat
    BY BufferConstants
  <2>5. c + o <= Capacity
    BY <2>3, <2>4, SMT DEF LesserOf
  <2> QED
    BY <2>2, <2>5
<1> QED
  BY InitIInv, NextIInv, <1>1, PTL DEF Spec

----------------------------------------------------------------------------
(* The calls that every step keeps. *)

(* What ageing leaves is the end of what there was.                        *)
LEMMA TailIsSuffix ==
  ASSUME NEW items \in Seq(Items), items # << >>
  PROVE  IsSuffix(Tail(items), items)
<1>1. /\ Tail(items) \in Seq(Items) /\ Len(Tail(items)) = Len(items) - 1
      /\ \A i \in 1..(Len(items) - 1) : Tail(items)[i] = items[i + 1]
  BY HeadTailProperties
<1>2. Len(items) \in Nat \ {0}
  BY EmptySeq
<1> DEFINE n == Len(items)
           m == n - 1
           back == Reverse(items)
           short == Reverse(Tail(items))
<1>3. n \in Nat /\ m \in Nat /\ m <= n
  BY <1>2, SMT
<1>4. back = [i \in 1..n |-> items[n - i + 1]] /\ short = [i \in 1..m |-> Tail(items)[m - i + 1]]
  BY <1>1 DEF Reverse
<1>5. ASSUME NEW i \in 1..n PROVE items[n - i + 1] \in Items
  <2>1. n - i + 1 \in 1..Len(items)
    BY <1>3, SMT
  <2> QED
    BY <2>1, ElementOfSeq
<1>6. ASSUME NEW i \in 1..m PROVE short[i] = back[i] /\ short[i] \in Items
  <2>1. m - i + 1 \in 1..m /\ (m - i + 1) + 1 = n - i + 1 /\ i \in 1..n
    BY <1>3, SMT
  <2>2. Tail(items)[m - i + 1] = items[(m - i + 1) + 1]
    BY <1>1, <2>1
  <2> QED
    BY <1>4, <1>5, <2>1, <2>2
<1>7. \A i \in 1..n : back[i] \in Items
  BY <1>4, <1>5
<1>8. Len(back) = n /\ Len(short) = m
  BY <1>3, <1>4
<1> HIDE DEF n, m, back, short
<1>9. 1 \in Int /\ m \in Int /\ (\A i \in 1..m : i \in 1..n)
  BY <1>3, SMT
<1>10. /\ SubSeq(short, 1, m) \in Seq(Items)
       /\ Len(SubSeq(short, 1, m)) = IF 1 <= m THEN m - 1 + 1 ELSE 0
       /\ \A i \in 1..(m - 1 + 1) : SubSeq(short, 1, m)[i] = short[1 + i - 1]
  BY <1>6, <1>9, SubSeqProperties
<1>11. /\ SubSeq(back, 1, m) \in Seq(Items)
       /\ Len(SubSeq(back, 1, m)) = IF 1 <= m THEN m - 1 + 1 ELSE 0
       /\ \A i \in 1..(m - 1 + 1) : SubSeq(back, 1, m)[i] = back[1 + i - 1]
  BY <1>7, <1>9, SubSeqProperties
<1>12. m - 1 + 1 = m /\ (1 <= m \/ m = 0) /\ \A i \in 1..m : 1 + i - 1 = i
  BY <1>3, SMT
<1>13. SubSeq(short, 1, m) = SubSeq(back, 1, m)
  <2>1. Len(SubSeq(short, 1, m)) = m /\ Len(SubSeq(back, 1, m)) = m
    BY <1>10, <1>11, <1>12
  <2>2. \A i \in 1..m : SubSeq(short, 1, m)[i] = SubSeq(back, 1, m)[i]
    BY <1>6, <1>10, <1>11, <1>12
  <2> QED
    BY <1>10, <1>11, <2>1, <2>2, SeqEqual
<1> QED
  BY <1>3, <1>8, <1>13 DEF IsSuffix, IsPrefix, back, short

(* Appending moves nothing.                                                *)
LEMMA AppendKeepsAll ==
  ASSUME NEW items \in Seq(Items), NEW x \in Items, NEW kind
  PROVE  AllKept(items, Append(items, x), kind)
<1> DEFINE at == [i \in Slots(items, kind) |-> i]
<1>1. at \in [Slots(items, kind) -> Slots(Append(items, x), kind)]
  BY SlotsOfAppend
<1>2. \A i \in Slots(items, kind) : at[i] = i /\ Append(items, x)[i] = items[i]
  BY SlotsAreCounted, AppendProperties
<1> HIDE DEF at
<1> QED
  BY <1>1, <1>2 DEF AllKept

(* An item that is not of the kind may go: the others move up and no two   *)
(* change places.                                                          *)
LEMMA RemovalKeepsKind ==
  ASSUME NEW items \in Seq(Items), NEW short \in Seq(Items), NEW k \in 1..Len(items),
         LacksOnly(items, short, k), NEW kind, items[k] \notin kind, NEW x \in Items
  PROVE  AllKept(items, Append(short, x), kind)
<1> DEFINE at == [i \in Slots(items, kind) |-> IF i < k THEN i ELSE i - 1]
           new == Append(short, x)
<1>1. Len(items) \in Nat /\ k \in Nat /\ 1 <= k /\ k <= Len(items)
  BY LenProperties, SMT
<1>2. /\ Len(short) = Len(items) - 1
      /\ DOMAIN items = 1..Len(items) /\ DOMAIN short = 1..(Len(items) - 1)
  BY LenProperties DEF LacksOnly
<1>3. /\ \A i \in 1..(Len(items) - 1) : new[i] = short[i]
      /\ Slots(short, kind) \subseteq Slots(new, kind)
  BY <1>2, AppendProperties, SlotsOfAppend
<1>4. ASSUME NEW i \in Slots(items, kind)
      PROVE  at[i] \in Slots(new, kind) /\ new[at[i]] = items[i]
  <2>1. i \in 1..Len(items) /\ items[i] \in kind /\ i # k
    BY <1>2 DEF Slots
  <2>2. PICK j \in 1..(Len(items) - 1) : at[i] = j /\ i = IF j < k THEN j ELSE j + 1
    <3>1. CASE i < k
      <4>1. i \in 1..(Len(items) - 1)
        BY <1>1, <2>1, <3>1, SMT
      <4> QED
        BY <4>1, <3>1
    <3>2. CASE ~(i < k)
      <4>1. /\ i - 1 \in 1..(Len(items) - 1) /\ ~(i - 1 < k)
            /\ i = (i - 1) + 1
        BY <1>1, <2>1, <3>2, SMT
      <4> QED
        BY <4>1, <3>2
    <3> QED
      BY <3>1, <3>2
  <2>3. short[j] = items[i]
    BY <2>2 DEF LacksOnly
  <2>4. j \in Slots(short, kind)
    BY <1>2, <2>1, <2>3 DEF Slots
  <2> QED
    BY <1>3, <2>2, <2>3, <2>4
<1>5. ASSUME NEW i \in Slots(items, kind), NEW j \in Slots(items, kind), i < j
      PROVE  at[i] < at[j]
  <2>1. i \in Int /\ j \in Int /\ i # k /\ j # k
    BY <1>2 DEF Slots
  <2>2. (IF i < k THEN i ELSE i - 1) < (IF j < k THEN j ELSE j - 1)
    BY <1>1, <1>5, <2>1, SMT
  <2> QED
    BY <2>2
<1>6. at \in [Slots(items, kind) -> Slots(new, kind)]
  BY <1>4
<1> HIDE DEF at
<1> QED
  BY <1>4, <1>5, <1>6 DEF AllKept

(* A push keeps the calls, or leaves nothing but calls, or nothing new.    *)
LEMMA PushedKeepsCalls ==
  ASSUME NEW items \in Seq(Items), NEW x \in Items
  PROVE  \/ AllKept(items, Pushed(items, x), Calls)
         \/ Slots(Pushed(items, x), Others) = {}
         \/ Pushed(items, x) = items
<1>1. CASE Appended(items, x, Pushed(items, x))
  BY <1>1, AppendKeepsAll DEF Appended
<1>2. ASSUME NEW k \in 1..Len(items), Replaced(items, x, k, Pushed(items, x))
      PROVE  AllKept(items, Pushed(items, x), Calls)
  <2>1. /\ WithoutOldestOther(items) \in Seq(Items) /\ items[k] \notin Calls
        /\ LacksOnly(items, WithoutOldestOther(items), k)
        /\ Pushed(items, x) = Append(WithoutOldestOther(items), x)
    BY <1>2 DEF Replaced, Others
  <2> QED
    BY <2>1, RemovalKeepsKind
<1>3. CASE Rolled(items, x, Pushed(items, x))
  BY <1>3, RolledIsCalls
<1> QED
  BY <1>1, <1>2, <1>3, PushOutcomes

(* No flood of other events takes a call from the buffer: a call goes with *)
(* age, or makes room for a call when there is nothing else to drop.       *)
THEOREM CallsAreKeptHolds == Spec => CallsAreKept
<1>1. IInv /\ [Next]_vars =>
        [\/ IsSuffix(buffer', buffer)
         \/ AllKept(buffer, buffer', Calls)
         \/ Slots(buffer', Others) = {}]_buffer
  <2> SUFFICES ASSUME IInv, [Next]_vars, buffer' # buffer
               PROVE  \/ IsSuffix(buffer', buffer)
                      \/ AllKept(buffer, buffer', Calls)
                      \/ Slots(buffer', Others) = {}
    OBVIOUS
  <2>1. buffer \in Seq(Items)
    BY DEF IInv, TypeOK
  <2>2. ASSUME NEW x \in Items, buffer' = Pushed(buffer, x)
        PROVE  AllKept(buffer, buffer', Calls) \/ Slots(buffer', Others) = {}
    BY <2>1, <2>2, PushedKeepsCalls
  <2>3. CASE buffer # << >> /\ buffer' = Tail(buffer)
    BY <2>1, <2>3, TailIsSuffix
  <2> QED
    BY <2>2, <2>3, BufferSteps
<1> QED
  BY InitIInv, NextIInv, <1>1, PTL DEF Spec, CallsAreKept

=============================================================================
