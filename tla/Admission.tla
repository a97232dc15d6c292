------------------------------- MODULE Admission -------------------------------
(***************************************************************************)
(* What the signaling server promises about who sits in a session.  A       *)
(* client gets a place only through the door: a viewer with the password of *)
(* the moment it is checked, and where the settings it was met with ask for *)
(* the host's consent, with a consent that is given now or still fresh.     *)
(* With every arrival the places stay well taken.  A place is lost by its   *)
(* own client's move or parting, or by silence, and never to another one.   *)
(*                                                                         *)
(* No rooms, limiters, timers, caches or messages are mentioned here, and   *)
(* anybody may be turned away at any time.                                  *)
(***************************************************************************)
EXTENDS Naturals, FiniteSets

CONSTANTS
  Clients, SessionIds, Calls, AddressOf,
  Passwords, NoPassword, HostConfigs,
  MaxSessions, MaxPeersPerSession, MaxTotalPeers

VARIABLES
  members,    \* the places taken: [session, client, role]
  silent,     \* the members not heard of for too long
  online,     \* the clients that are connected
  door,       \* who is at the door: a visitor or Nobody for each of Calls
  trusted,    \* addresses and sessions with a fresh consent
  settings    \* what the host has set

vars == <<members, silent, online, door, trusted, settings>>

Nobody == [at |-> "nobody"]

Visitor(c, s, r, pw) ==
  [at |-> "asked", client |-> c, session |-> s, role |-> r, password |-> pw,
   byConsent |-> FALSE, host |-> {}]

KeyOf(v) == <<AddressOf[v.client], v.session>>
Place(v) == [session |-> v.session, client |-> v.client, role |-> v.role]
Others(present, c) == {p \in present : p.client # c}

\* One place per client, one role per session, and the limits.
WellTaken(places) ==
  /\ \A p, q \in places : p.client = q.client => p = q
  /\ \A p, q \in places : p.session = q.session /\ p.role = q.role => p = q
  /\ \A s \in SessionIds :
       Cardinality({p \in places : p.session = s}) <= MaxPeersPerSession
  /\ Cardinality({p.session : p \in places}) <= MaxSessions
  /\ Cardinality(places) <= MaxTotalPeers

Init ==
  /\ members = {} /\ silent = {} /\ online = {} /\ trusted = {}
  /\ door = [j \in Calls |-> Nobody]
  /\ settings \in HostConfigs

------------------------------------------------------------------------------
(* The places.                                                              *)

Leave(j) == door' = [door EXCEPT ![j] = Nobody]

TakePlace(j, v, present) ==
  /\ members' = Others(present, v.client) \cup {Place(v)}
  /\ WellTaken(members')
  /\ silent' = (silent \cap members') \ {Place(v)}
  /\ Leave(j)

GiveUpPlace(j, v, present) ==
  /\ Others(present, v.client) # present
  /\ members' = Others(present, v.client)
  /\ silent' = silent \cap members'
  /\ door' = [door EXCEPT ![j] = [v EXCEPT !.at = "admitted"]]

FindNoPlace(j, present) ==
  /\ members' = present
  /\ silent' = silent \cap members'
  /\ Leave(j)

\* The visitor may go in: it takes a place, or first gives up the one it has,
\* or there is none to take.
GoIn(j, v, present) ==
  \/ TakePlace(j, v, present)
  \/ GiveUpPlace(j, v, present)
  \/ FindNoPlace(j, present)

------------------------------------------------------------------------------
(* The door.                                                                *)

\* A host, to which the settings are no hurdle; who is silent is gone by then.
HostArrives(j, c, s) ==
  /\ c \in online
  /\ door[j] = Nobody
  /\ GoIn(j, Visitor(c, s, "host", NoPassword), members \ silent)
  /\ UNCHANGED <<online, trusted, settings>>

ViewerArrives(j, c, s, pw) ==
  /\ c \in online
  /\ door[j] = Nobody
  /\ door' = [door EXCEPT ![j] = Visitor(c, s, "viewer", pw)]
  /\ members' = members \ silent
  /\ silent' = {}
  /\ UNCHANGED <<online, trusted, settings>>

\* Whether consent is needed is decided by the settings of this moment.
IsMet(j) ==
  /\ door[j].at = "asked"
  /\ door' = [door EXCEPT ![j].at = "met", ![j].byConsent = settings.requireApproval]
  /\ UNCHANGED <<members, silent, online, trusted, settings>>

\* Whether the password is right, by the settings of this one.  For a consent a
\* connected host of the session is asked, and only if there is no fresh one.
IsChecked(j) ==
  LET v == [door[j] EXCEPT !.password = NoPassword]
  IN  /\ door[j].at = "met"
      /\ settings.password \in {NoPassword, door[j].password}
      /\ \/ /\ v.byConsent => KeyOf(v) \in trusted
            /\ GoIn(j, v, members)
         \/ /\ v.byConsent /\ KeyOf(v) \notin trusted
            /\ \E p \in members :
                 /\ p.session = v.session /\ p.role = "host" /\ p.client \in online
                 /\ door' = [door EXCEPT ![j] =
                      [v EXCEPT !.at = "waiting", !.host = {p.client}]]
            /\ UNCHANGED <<members, silent>>
      /\ UNCHANGED <<online, trusted, settings>>

\* The host that was asked is still there and says yes.
HostConsents(j) ==
  LET v == [door[j] EXCEPT !.host = {}]
  IN  /\ door[j].at = "waiting"
      /\ door[j].host \subseteq online
      /\ trusted' = trusted \cup {KeyOf(v)}
      /\ GoIn(j, v, members)
      /\ UNCHANGED <<online, settings>>

\* The visitor that gave up its place goes on.
ComesBack(j) ==
  /\ door[j].at = "admitted"
  /\ TakePlace(j, door[j], members)
  /\ UNCHANGED <<online, trusted, settings>>

IsTurnedAway(j) ==
  /\ Leave(j)
  /\ UNCHANGED <<members, silent, online, trusted, settings>>

------------------------------------------------------------------------------
(* The clients and the clock.                                               *)

Connects(c) ==
  /\ online' = online \cup {c}
  /\ UNCHANGED <<members, silent, door, trusted, settings>>

Departs(c) ==
  /\ online' = online \ {c}
  /\ members' = Others(members, c)
  /\ silent' = silent \cap members'
  /\ UNCHANGED <<door, trusted, settings>>

IsHeard(c) ==
  /\ c \in online
  /\ silent' = {p \in silent : p.client # c}
  /\ UNCHANGED <<members, online, door, trusted, settings>>

SilentAreRemoved ==
  /\ members' = members \ silent
  /\ silent' = {}
  /\ UNCHANGED <<online, door, trusted, settings>>

\* Members fall silent, consents grow old.
TimePasses ==
  /\ UNCHANGED <<members, online, door, settings>>
  /\ silent \subseteq silent' /\ silent' \subseteq members
  /\ trusted' \subseteq trusted

HostChangesSettings ==
  /\ settings' \in HostConfigs
  /\ UNCHANGED <<members, silent, online, door, trusted>>

------------------------------------------------------------------------------
ClientStep(c) ==
  \/ IsHeard(c) \/ Connects(c) \/ Departs(c)
  \/ \E j \in Calls, s \in SessionIds :
       \/ HostArrives(j, c, s)
       \/ \E pw \in Passwords \cup {NoPassword} : ViewerArrives(j, c, s, pw)

DoorStep(j) ==
  \/ IsTurnedAway(j) \/ IsMet(j) \/ IsChecked(j) \/ HostConsents(j) \/ ComesBack(j)

Next ==
  \/ TimePasses \/ SilentAreRemoved \/ HostChangesSettings
  \/ \E j \in Calls : DoorStep(j)
  \/ \E c \in Clients : ClientStep(c)

Spec == Init /\ [][Next]_vars
==============================================================================
