------------------------------- MODULE Sessions -------------------------------
(***************************************************************************)
(* SessionsService (apps/server signaling/sessions.service.ts): who sits in *)
(* which session.  The code's Map of Maps is the set `roster' of seats      *)
(* [session, client, role]; a session exists in the outer Map exactly while *)
(* it has a seat, because removePeer and removeExpiredPeers delete a        *)
(* session with its last peer and addPeer creates one only after the        *)
(* capacity checks.  lastSeenAt is kept beside the seats as `idle', the     *)
(* ticks since the seat was last touched, saturating one above the TTL (all *)
(* later ages are equally expired) and 0 where there is no seat.            *)
(*                                                                          *)
(* Every operation is an operator from the old roster to the new one; the   *)
(* handlers of Gateway compose them.                                        *)
(***************************************************************************)
EXTENDS Naturals, FiniteSets

CONSTANTS
  Clients,              \* socket ids
  SessionIds,
  MaxSessions,          \* REMOTE_CONTROL_MAX_SESSIONS
  MaxPeersPerSession,   \* REMOTE_CONTROL_MAX_PEERS_PER_SESSION
  MaxTotalPeers,        \* REMOTE_CONTROL_MAX_TOTAL_PEERS
  PeerTtl               \* REMOTE_CONTROL_PEER_TTL_MS, in ticks

\* readPositiveInteger never yields less than 1.
ASSUME SessionLimits ==
  /\ MaxSessions \in Nat \ {0}
  /\ MaxPeersPerSession \in Nat \ {0}
  /\ MaxTotalPeers \in Nat \ {0}
  /\ PeerTtl \in Nat \ {0}

Roles == {"host", "viewer"}

Seats == [session : SessionIds, client : Clients, role : Roles]

\* Idle times of all (session, client) pairs.
IdleTimes == [SessionIds -> [Clients -> 0 .. PeerTtl + 1]]

------------------------------------------------------------------------------
PeersOf(roster, s) == {p \in roster : p.session = s}

SeatsOf(roster, c) == {p \in roster : p.client = c}

OpenSessions(roster) == {p.session : p \in roster}

HasSeat(roster, s, c) == \E p \in roster : p.session = s /\ p.client = c

PeersByRole(roster, s, r) == {p \in PeersOf(roster, s) : p.role = r}

\* Mutant: one session too many.
CanAddPeerOffByOne(roster, s, c, r) ==
  /\ PeersOf(roster, s) = {} => Cardinality(OpenSessions(roster)) <= MaxSessions
  /\ \A p \in PeersByRole(roster, s, r) : p.client = c

\* assertCapacity raises no SessionCapacityError.
CanAddPeer(roster, s, c, r) ==
  /\ PeersOf(roster, s) = {} => Cardinality(OpenSessions(roster)) < MaxSessions
  /\ \A p \in PeersByRole(roster, s, r) : p.client = c
  /\ ~HasSeat(roster, s, c) =>
       /\ Cardinality(PeersOf(roster, s)) < MaxPeersPerSession
       /\ Cardinality(roster) < MaxTotalPeers

\* Map.set under the client's id: a seat the client had there is replaced.
AddPeer(roster, s, c, r) ==
  {p \in roster : ~(p.session = s /\ p.client = c)}
     \cup {[session |-> s, client |-> c, role |-> r]}

\* addPeer's result: the other peers of the session.
OtherPeers(roster, s, c) == {p.client : p \in PeersOf(roster, s)} \ {c}

\* lastSeenAt = now, by addPeer and touchPeer; also the cleared entry of a
\* seat that is gone.
Touch(idle, s, c) == [idle EXCEPT ![s][c] = 0]

\* Mutant: a peer seen exactly peerTtlMs ago goes too.
ExpiredAtTtl(roster, idle) == {p \in roster : idle[p.session][p.client] >= PeerTtl}

\* removeExpiredPeers keeps a peer while now - lastSeenAt <= peerTtlMs.
Expired(roster, idle) == {p \in roster : idle[p.session][p.client] > PeerTtl}

ForgetIdle(idle, gone) ==
  [s \in SessionIds |-> [c \in Clients |->
     IF HasSeat(gone, s, c) THEN 0 ELSE idle[s][c]]]

\* Mutant: no saturation.
AgeSeatsForever(roster, idle) ==
  [s \in SessionIds |-> [c \in Clients |->
     IF HasSeat(roster, s, c) THEN idle[s][c] + 1 ELSE idle[s][c]]]

\* The passage of one tick of time over every seat.
AgeSeats(roster, idle) ==
  [s \in SessionIds |-> [c \in Clients |->
     IF HasSeat(roster, s, c) /\ idle[s][c] <= PeerTtl
       THEN idle[s][c] + 1
       ELSE idle[s][c]]]

==============================================================================
