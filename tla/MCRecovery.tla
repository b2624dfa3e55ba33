------------------------------ MODULE MCRecovery ------------------------------
(* Instances of Recovery for TLC. *)
EXTENDS Recovery, TLC

CONSTANTS s1, s2, h1, h2, h3, w1, w2

OneSession == {s1}
MCSessions == {s1, s2}
MCHolders == {h1, h2}
MoreHolders == {h1, h2, h3}
MCHandlers == {w1, w2}
Interchangeable ==
  Permutations(MoreHolders) \cup Permutations(MCHandlers)
=============================================================================
