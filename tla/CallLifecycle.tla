---------------------------- MODULE CallLifecycle ----------------------------
(***************************************************************************)
(* What the hotline promises about one call, whatever webhooks, clicks,    *)
(* sweeps and restarts reach the server: it is rung once, at most one      *)
(* volunteer ever answers it, and once it is over it stays over.           *)
(* CallRouting, the model of the worker's handlers, implements this.       *)
(***************************************************************************)
CONSTANTS Calls, Volunteers, None

VARIABLES phase,    \* where each call is in its life
          winner    \* who answered it (None: nobody yet)

lifecycleVars == <<phase, winner>>

Phases == {"new", "ringing", "live", "over"}

LifecycleTypeOK ==
  /\ phase \in [Calls -> Phases]
  /\ winner \in [Calls -> Volunteers \cup {None}]

LInit ==
  /\ phase = [c \in Calls |-> "new"]
  /\ winner = [c \in Calls |-> None]

Ring(c) ==
  /\ phase[c] = "new"
  /\ phase' = [phase EXCEPT ![c] = "ringing"]
  /\ UNCHANGED winner

(* First pickup wins: answering needs a call that rings and that nobody    *)
(* has answered.                                                           *)
Answer(c, v) ==
  /\ phase[c] = "ringing"
  /\ winner[c] = None
  /\ phase' = [phase EXCEPT ![c] = "live"]
  /\ winner' = [winner EXCEPT ![c] = v]

(* One sweep may end several calls at once.                                *)
Over(ended) ==
  /\ \A c \in ended : phase[c] \in {"ringing", "live"}
  /\ phase' = [c \in Calls |-> IF c \in ended THEN "over" ELSE phase[c]]
  /\ UNCHANGED winner

LNext ==
  \/ \E c \in Calls : Ring(c)
  \/ \E c \in Calls, v \in Volunteers : Answer(c, v)
  \/ \E ended \in SUBSET Calls : Over(ended)

LSpec == LInit /\ [][LNext]_lifecycleVars
=============================================================================
