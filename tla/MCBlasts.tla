------------------------------- MODULE MCBlasts -------------------------------
(* Blasts on small instances; the recipients are interchangeable.          *)
EXTENDS Blasts, TLC

CONSTANTS r1, r2

Symmetry == Permutations(Recipients)
=============================================================================
