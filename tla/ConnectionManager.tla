-------------------------- MODULE ConnectionManager --------------------------
(***************************************************************************)
(* The relay as one user and one hub see it: sockets, the auth messages    *)
(* that come over them and the connection states these leave, what they are*)
(* registered and subscribed for, the periodic revalidation of membership, *)
(* and the hub's buffer of recent events.  Looking a user up is a query:   *)
(* while it is under way sockets close, the account changes, and the same  *)
(* socket may send another auth message, for this account or for another,  *)
(* whose state replaces the first as the socket's.  A subscription belongs *)
(* to the user, not to the state that asked for it.                        *)
(***************************************************************************)
EXTENDS RingBuffer

CONSTANTS
  Sockets,
  Auths,           \* auth messages, and the connection states they leave
  SocketOf,        \* the socket an auth message comes over
  Foreign,         \* bound: the messages that may be for another account
  None,            \* no state
  MaxConnections,  \* MAX_CONNECTIONS_PER_USER
  MaxChanges,      \* bound: times the user joins or leaves the hub
  MaxHeld          \* bound: events in the buffer at once

ASSUME ManagerConstants ==
  /\ IsFiniteSet(Auths) /\ None \notin Auths /\ Foreign \subseteq Auths
  /\ SocketOf \in [Auths -> Sockets]
  /\ MaxConnections \in Nat \ {0}
  /\ MaxChanges \in Nat /\ MaxHeld \in Nat

VARIABLES
  account,     \* what lookupUser finds: a member of the hub, another user, or nobody
  changes,
  socket,      \* per socket: not there yet, open or closed
  current,     \* per socket, data.connState
  phase,       \* per auth message: not sent, being looked up, its state made, or nothing left
  answer,      \* what its lookup, or later a revalidation of its interval, has read
  timers,      \* auth messages whose interval runs
  hubs,        \* states of the user whose hubs have the hub
  subscribedHubs,  \* states of the user whose subscribedHubs have the hub
  registered,  \* connections.get(pubkey)
  subscribed,  \* hubSubscriptions has the user for the hub
  buffer       \* eventBuffers.get(hub)

user == <<account, changes>>
auths == <<phase, answer>>
conns == <<socket, current, timers>>
manager == <<hubs, subscribedHubs, registered, subscribed>>
vars == <<user, auths, conns, manager, buffer>>

----------------------------------------------------------------------------
Found == {"member", "stranger", "nobody"}

(* The types; and B-M11: no more states registered than the limit.         *)
TypeOK ==
  /\ account \in Found /\ changes \in 0..MaxChanges
  /\ socket \in [Sockets -> {"new", "open", "closed"}]
  /\ current \in [Sockets -> Auths \cup {None}]
  /\ phase \in [Auths -> {"new", "lookup", "user", "other", "done"}]
  /\ answer \in [Auths -> Found \cup {"other", "none"}]
  /\ timers \subseteq {a \in Auths : phase[a] \in {"user", "other"}}
  /\ hubs \cup registered \subseteq {a \in Auths : phase[a] = "user"}
  /\ subscribedHubs \subseteq registered
  /\ Cardinality(registered) <= MaxConnections
  /\ subscribed \in BOOLEAN
  /\ buffer \in Seq(Items)

Init ==
  /\ account \in {"member", "stranger"} /\ changes = 0
  /\ socket = [c \in Sockets |-> "new"] /\ current = [c \in Sockets |-> None]
  /\ phase = [a \in Auths |-> "new"] /\ answer = [a \in Auths |-> "none"]
  /\ timers = {} /\ hubs = {} /\ subscribedHubs = {} /\ registered = {}
  /\ subscribed = FALSE
  /\ buffer = <<>>

IsOpen(c) == socket[c] = "open"
OfUser(s) == s # None /\ phase[s] = "user"

(* The state of an open socket, and the user's.                            *)
Live(a) == phase[a] = "user" /\ IsOpen(SocketOf[a]) /\ current[SocketOf[a]] = a

Goes(a, p) == phase' = [phase EXCEPT ![a] = p]
Answered(a, found) == answer' = [answer EXCEPT ![a] = found]

----------------------------------------------------------------------------
(* Closing. *)

(* unregister: the user's subscription goes with the last state, if that   *)
(* one had asked for it.                                                   *)
Unregister(s) ==
  /\ registered' = registered \ {s}
  /\ subscribed' = IF registered' = {} /\ s \in subscribedHubs THEN FALSE ELSE subscribed
  /\ subscribedHubs' = subscribedHubs \ {s}

(* The handler of close, with s in data.connState: it stops the interval   *)
(* that was started last, which while the socket is open is that of the    *)
(* state before.  A socket that is closed is not closed again.             *)
Shuts(c, s) ==
  IF IsOpen(c)
    THEN /\ socket' = [socket EXCEPT ![c] = "closed"]
         /\ timers' = timers \ {current[c]}
         /\ Unregister(s)
    ELSE UNCHANGED <<socket, timers, registered, subscribed, subscribedHubs>>

(* The client, the network, a refused message or the timeout; no lookup is *)
(* stopped by it.                                                          *)
Close(c) ==
  /\ IsOpen(c)
  /\ Shuts(c, current[c])
  /\ UNCHANGED <<user, auths, current, hubs, buffer>>

----------------------------------------------------------------------------
(* Connecting and authenticating. *)

Open(c) ==
  /\ socket[c] = "new"
  /\ socket' = [socket EXCEPT ![c] = "open"]
  /\ UNCHANGED <<user, auths, current, timers, manager, buffer>>

(* An auth message, of this account or another: refused only once a lookup *)
(* has returned.  The query's answer is as old as the query.               *)
LooksUp(a) ==
  /\ IsOpen(SocketOf[a]) /\ current[SocketOf[a]] = None
  /\ phase[a] = "new" /\ Goes(a, "lookup")
  /\ Answered(a, account) \/ (a \in Foreign /\ Answered(a, "other"))
  /\ UNCHANGED <<user, conns, manager, buffer>>

(* Mutant: the limit is checked one too late.                              *)
HasRoomLate == Cardinality(registered) <= MaxConnections

HasRoom == Cardinality(registered) < MaxConnections

(* The user is not found, and the socket is closed.                        *)
Refuses(a) ==
  /\ Goes(a, "done")
  /\ Shuts(SocketOf[a], current[SocketOf[a]])
  /\ UNCHANGED <<current, hubs>>

(* The new state becomes the socket's, over whatever was there.            *)
Becomes(a, whose) ==
  /\ Goes(a, whose)
  /\ current' = [current EXCEPT ![SocketOf[a]] = a]

Accepts(a) ==
  /\ registered' = registered \cup {a}
  /\ timers' = timers \cup {a}
  /\ UNCHANGED <<socket, subscribedHubs, subscribed>>

(* handleAuth goes on whether or not the socket is still open, and whether *)
(* or not another message was answered meanwhile.                          *)
LookupReturns(a) ==
  /\ phase[a] = "lookup"
  /\ Answered(a, "none")
  /\ \/ answer[a] \in {"nobody", "other"} /\ Refuses(a)
     \/ /\ answer[a] \in {"member", "stranger"}
        /\ Becomes(a, "user")
        /\ hubs' = IF answer[a] = "member" THEN hubs \cup {a} ELSE hubs
        /\ IF HasRoom THEN Accepts(a) ELSE Shuts(SocketOf[a], a)
     \/ /\ answer[a] = "other"
        /\ Becomes(a, "other")
        /\ UNCHANGED hubs
        /\ \/ timers' = timers \cup {a} /\ UNCHANGED <<socket, registered, subscribedHubs, subscribed>>
           \/ Shuts(SocketOf[a], a)
  /\ UNCHANGED <<user, buffer>>

----------------------------------------------------------------------------
(* Messages of an authenticated client. *)

Subscribe(c) ==
  /\ IsOpen(c) /\ current[c] \in hubs
  /\ subscribedHubs' = subscribedHubs \cup {current[c]}
  /\ subscribed' = TRUE
  /\ UNCHANGED <<user, auths, conns, hubs, registered, buffer>>

(* Of the user, in all registered states.                                  *)
Unsubscribe(c) ==
  /\ IsOpen(c) /\ OfUser(current[c])
  /\ subscribedHubs' = subscribedHubs \ registered
  /\ subscribed' = FALSE
  /\ UNCHANGED <<user, auths, conns, hubs, registered, buffer>>

----------------------------------------------------------------------------
(* Revalidation: an interval of every accepted message, on its socket and  *)
(* whatever state that has by then.                                        *)

RevalidationReads(a) ==
  /\ a \in timers /\ answer[a] = "none"
  /\ Answered(a, IF OfUser(current[SocketOf[a]]) THEN account ELSE "other")
  /\ UNCHANGED <<user, phase, conns, manager, buffer>>

(* Mutant: the state forgets the hub and the user stays subscribed.        *)
EvictConnection(s) == hubs' = hubs \ {s} /\ UNCHANGED <<registered, subscribedHubs, subscribed>>

(* evictMember takes the hub from all registered states of the user, and   *)
(* the revalidation from the state it has at hand.                         *)
EvictMember(s) ==
  /\ hubs' = hubs \ (registered \cup {s})
  /\ subscribed' = FALSE
  /\ UNCHANGED <<registered, subscribedHubs>>

(* Mutant: a user who is not found is taken for one without hubs.          *)
SaysNobodyEvicts(c, found) ==
  /\ found = "nobody"
  /\ hubs' = hubs \ {current[c]}
  /\ UNCHANGED <<conns, registered, subscribedHubs, subscribed>>

SaysNobody(c, found) ==
  /\ found \in {"nobody", "other"}
  /\ Shuts(c, current[c])
  /\ UNCHANGED <<current, hubs>>

(* What another account's state knows of the hub is not modelled.          *)
SaysStranger(c, found) ==
  /\ found = "stranger"
  /\ \/ /\ current[c] \in hubs \/ phase[current[c]] = "other"
        /\ EvictMember(current[c])
     \/ current[c] \notin hubs /\ UNCHANGED manager
  /\ UNCHANGED conns

SaysMember(c, found) ==
  /\ found \in {"member", "other"}
  /\ hubs' = IF OfUser(current[c]) THEN hubs \cup {current[c]} ELSE hubs
  /\ UNCHANGED <<conns, registered, subscribedHubs, subscribed>>

(* Another account is evicted; the state at hand may be the user's by now. *)
SaysOther(c, found) ==
  /\ found = "other"
  /\ hubs' = hubs \ {current[c]}
  /\ UNCHANGED <<conns, registered, subscribedHubs, subscribed>>

(* The socket may have closed, or got another state, since the query.      *)
RevalidationReturns(a) ==
  /\ phase[a] \in {"user", "other"} /\ answer[a] # "none"
  /\ Answered(a, "none")
  /\ LET c == SocketOf[a] found == answer[a]
     IN SaysNobody(c, found) \/ SaysStranger(c, found) \/ SaysMember(c, found) \/ SaysOther(c, found)
  /\ UNCHANGED <<user, phase, buffer>>

----------------------------------------------------------------------------
(* The account. *)

Joins ==
  /\ account = "stranger" /\ account' = "member"
  /\ changes < MaxChanges /\ changes' = changes + 1
  /\ UNCHANGED <<auths, conns, manager, buffer>>

Leaves ==
  /\ account = "member" /\ account' = "stranger"
  /\ changes < MaxChanges /\ changes' = changes + 1
  /\ UNCHANGED <<auths, conns, manager, buffer>>

Deactivates ==
  /\ account # "nobody" /\ account' = "nobody"
  /\ UNCHANGED <<changes, auths, conns, manager, buffer>>

(* terminateUser, after an erasure: the socket of every registered state is*)
(* closed, whatever state it has by then, and all are forgotten.           *)
Terminates ==
  /\ account = "nobody" /\ registered # {}
  /\ LET shut == {c \in Sockets : IsOpen(c) /\ \E a \in registered : SocketOf[a] = c}
     IN /\ socket' = [c \in Sockets |-> IF c \in shut THEN "closed" ELSE socket[c]]
        /\ timers' = timers \ {current[c] : c \in shut}
  /\ registered' = {} /\ subscribedHubs' = {}
  /\ subscribed' = IF subscribedHubs = {} THEN subscribed ELSE FALSE
  /\ UNCHANGED <<user, auths, current, hubs, buffer>>

----------------------------------------------------------------------------
(* Events of the hub: published, and aged out of the buffer. *)

PublishToHub(x) ==
  /\ Len(Pushed(buffer, x)) <= MaxHeld
  /\ buffer' = Pushed(buffer, x)
  /\ UNCHANGED <<user, auths, conns, manager>>

EvictExpired ==
  /\ buffer # <<>>
  /\ buffer' = Tail(buffer)
  /\ UNCHANGED <<user, auths, conns, manager>>

SocketStep(c) ==
  Open(c) \/ Close(c) \/ Subscribe(c) \/ Unsubscribe(c)
AuthStep(a) == LookupReturns(a) \/ RevalidationReads(a) \/ RevalidationReturns(a)

Next ==
  \/ \E c \in Sockets : SocketStep(c)
  \/ \E a \in Auths : LooksUp(a) \/ AuthStep(a)
  \/ Joins \/ Leaves \/ Deactivates \/ Terminates
  \/ \E x \in Items : PublishToHub(x)
  \/ EvictExpired

Spec == Init /\ [][Next]_vars

(* Queries are answered and the intervals fire.                            *)
LiveSpec == Spec /\ \A a \in Auths : WF_vars(AuthStep(a))

----------------------------------------------------------------------------
(* Properties. *)

(* Once an account is deactivated or erased, every open socket that is the *)
(* account's is closed in the end, unless it becomes another account's:    *)
(* those whose lookup was answered before are caught by a revalidation.    *)
NobodyStaysConnected ==
  \A c \in Sockets :
    (account = "nobody" /\ IsOpen(c) /\ OfUser(current[c])) ~> (~IsOpen(c) \/ ~OfUser(current[c]))

(* When a member leaves the hub, the subscription ends, provided that a    *)
(* state that knows the hub stays its socket's until the revalidation, and *)
(* that the socket was not used for another account besides.               *)
LeaverIsEvicted ==
  \A a \in Auths :
    (account = "stranger" /\ Live(a) /\ a \in hubs)
      ~> (account # "stranger" \/ ~Live(a) \/ ~subscribed
            \/ \E b \in Auths : phase[b] = "other" /\ SocketOf[b] = SocketOf[a])

(* A call leaves the buffer by ageing, or for another call when there is   *)
(* nothing else to evict: never for a flood of other events.               *)
CallsAreKept ==
  [][\/ IsSuffix(buffer', buffer)
     \/ AllKept(buffer, buffer', Calls)
     \/ Slots(buffer', Others) = {}]_buffer

(* The buffer keeps to its capacity as long as the calls keep to their     *)
(* reservation: ageing, evictions and refusals never leave more, whatever  *)
(* it had grown to before.                                                 *)
CapacityWhileCallsFit ==
  Cardinality(Slots(buffer, Calls)) <= ReservedSlots => Len(buffer) <= Capacity

(* What the comment on revalidation says: subscriptions are evicted for the*)
(* hubs the user has been removed from; as long as there is a socket of the*)
(* user to revalidate.                                                     *)
LeaverLosesSubscription ==
  \A a \in Auths :
    (account = "stranger" /\ Live(a) /\ subscribed)
      ~> (account # "stranger" \/ ~Live(a) \/ ~subscribed)

(* What unregister's comment says: closing the last connection cleans up   *)
(* the empty maps.                                                         *)
LastCloseCleansUp == registered = {} => ~subscribed

(* What unregister's comment says, too: a connection is unregistered on    *)
(* close.                                                                  *)
ClosedIsUnregistered == \A a \in registered : IsOpen(SocketOf[a])
=============================================================================
