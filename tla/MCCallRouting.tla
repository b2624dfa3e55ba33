---------------------------- MODULE MCCallRouting ----------------------------
(* CallRouting on small instances: two volunteers, both reachable by phone *)
(* and in the app, one of them in the fallback group.                      *)
EXTENDS CallRouting, TLC

CONSTANTS c1, c2, v1, v2, h1, h2

MCHubOf == c1 :> h1 @@ c2 :> h2
MCOneHubOf == c1 :> h1
MCOneOnShift == h1 :> {v1, v2}
MCOneFallback == h1 :> {v2}
MCOneOnShiftAlone == h1 :> {v1}
MCNoFallback == h1 :> {}
MCSharedOnShift == h1 :> {v1} @@ h2 :> {v1}
MCSharedFallback == h1 :> {} @@ h2 :> {}
=============================================================================
