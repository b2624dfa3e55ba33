------------------------------- MODULE MCOutbox -------------------------------
(* Instances of Outbox for TLC. *)
EXTENDS Outbox

CONSTANTS e1, e2, d1, d2

MCEvents == {e1, e2}
MCSweeps == {d1, d2}
=============================================================================
