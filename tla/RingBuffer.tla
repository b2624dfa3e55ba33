------------------------------ MODULE RingBuffer ------------------------------
(***************************************************************************)
(* The relay's buffer of recent events, oldest first: what a push leaves of*)
(* it.  Ageing removes items from the front, at whatever time.             *)
(***************************************************************************)
EXTENDS Naturals, Sequences, SequencesExt, FiniteSets

CONSTANTS
  Items,
  Calls,        \* the items that isReserved: call ring and call update
  Capacity,
  ReservedSlots

ASSUME BufferConstants ==
  /\ Calls \subseteq Items
  /\ Capacity \in Nat \ {0}
  /\ ReservedSlots \in 0..Capacity

Others == Items \ Calls

(* Where the items of a kind are.                                          *)
Slots(items, kind) == {i \in DOMAIN items : items[i] \in kind}

(* findIndex and splice: the oldest item that is no call goes.             *)
WithoutOldestOther(items) ==
  RemoveAt(items, CHOOSE i \in Slots(items, Others) : \A j \in Slots(items, Others) : i <= j)

LesserOf(a, b) == IF a <= b THEN a ELSE b

(* Mutant: others may fill the buffer, calls or no calls.                  *)
RoomUnreserved(items) == Capacity

(* What the calls leave of the capacity, as the code counts it: slots that *)
(* calls occupy beyond the reserved ones are not taken off.                *)
RoomForOthers(items) == Capacity - LesserOf(Cardinality(Slots(items, Calls)), ReservedSlots)

PushCall(items, x) ==
  Append(IF Len(items) < Capacity THEN items
         ELSE IF Slots(items, Others) # {} THEN WithoutOldestOther(items)
         ELSE Tail(items), x)

PushOther(items, x) ==
  IF Len(items) < Capacity \/ Cardinality(Slots(items, Others)) < RoomForOthers(items)
    THEN Append(items, x)
  ELSE IF Slots(items, Others) # {} THEN Append(WithoutOldestOther(items), x)
  ELSE items

(* Mutant: a full buffer drops its oldest item, whatever it is.            *)
PushedOldest(items, x) == Append(IF Len(items) < Capacity THEN items ELSE Tail(items), x)

Pushed(items, x) == IF x \in Calls THEN PushCall(items, x) ELSE PushOther(items, x)

(* The items of a kind that were there are there, in the same order.       *)
AllKept(old, new, kind) ==
  \E at \in [Slots(old, kind) -> Slots(new, kind)] :
    \A i, j \in Slots(old, kind) : new[at[i]] = old[i] /\ (i < j => at[i] < at[j])
=============================================================================
