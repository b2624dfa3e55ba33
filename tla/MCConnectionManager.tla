------------------------- MODULE MCConnectionManager -------------------------
(* Instances of ConnectionManager for TLC. *)
EXTENDS ConnectionManager, TLC

CONSTANTS c1, c2, a1, a2, a3, ring, note

(* Two messages come over one socket, and the third over the other.        *)
MCSockets == {c1, c2}
MCAuths == {a1, a2, a3}
MCSocketOf == a1 :> c1 @@ a2 :> c1 @@ a3 :> c2
MCForeign == {a2}
MCItems == {ring, note}
MCCalls == {ring}

(* Bound: the buffer and the connections share no variable, so that a step *)
(* of one is never enabled or disabled by the other.  Connections are      *)
(* followed on an empty buffer, and events before the first socket opens.  *)
Apart == buffer = <<>> \/ \A c \in Sockets : socket[c] = "new"
=============================================================================
