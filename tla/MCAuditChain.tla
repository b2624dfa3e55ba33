----------------------------- MODULE MCAuditChain -----------------------------
(* Instances of AuditChain for TLC. *)
EXTENDS AuditChain

CONSTANTS w1, w2, ann, bob

MCWriters == {w1, w2}
MCActors == {ann, bob}
=============================================================================
