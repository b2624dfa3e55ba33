------------------------------ MODULE AuditTrail ------------------------------
(***************************************************************************)
(* What the audit log promises of one chain: whoever appends, and whatever *)
(* the clocks say, the entries stay in the order in which they were        *)
(* committed, and only the oldest ever leave.                              *)
(***************************************************************************)
EXTENDS Naturals, Sequences

CONSTANT Entries

VARIABLE trail

TrailInit == trail = <<>>

Record(e) == trail' = Append(trail, e)

Forget(n) == trail' = SubSeq(trail, n + 1, Len(trail))

TrailNext == (\E e \in Entries : Record(e)) \/ \E n \in 1..Len(trail) : Forget(n)

TrailSpec == TrailInit /\ [][TrailNext]_trail
=============================================================================
