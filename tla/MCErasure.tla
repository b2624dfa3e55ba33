------------------------------- MODULE MCErasure -------------------------------
(* Instances of Erasure for TLC. *)
EXTENDS Erasure, TLC

CONSTANTS r1, r2, hub1, w1, w2

OneRequest == {r1}
MCRequests == {r1, r2}
MCHubs == {hub1}
MCRunners == {w1, w2}
Interchangeable == Permutations(MCRunners)
=============================================================================
