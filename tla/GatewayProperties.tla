--------------------------- MODULE GatewayProperties ---------------------------
(***************************************************************************)
(* What makes SignalingGateway and SessionsService correct.                 *)
(***************************************************************************)
EXTENDS Gateway

(* Who sits in the rooms: invariants.                                       *)

\* Two peers of one session never have the same role, however joins, leaves,
\* expiries and disconnects interleave around the capacity check of addPeer.
OneRolePerSession ==
  \A p, q \in roster : p.session = q.session /\ p.role = q.role => p = q

\* A socket sits in at most one session: a join that gives up the old seat,
\* awaits client.leave and then takes the new one never leaves it with two,
\* even when two joins of the socket overlap.
OneSeatPerClient ==
  \A p, q \in roster : p.client = q.client => p = q

\* The three capacity limits hold at every moment, not only when a peer is
\* added.
RosterWithinLimits ==
  /\ \A s \in SessionIds : Cardinality(PeersOf(roster, s)) <= MaxPeersPerSession
  /\ Cardinality(OpenSessions(roster)) <= MaxSessions
  /\ Cardinality(roster) <= MaxTotalPeers

\* The per-address counters equal the sockets really connected from the
\* address and never pass the limit: no slot leaks, none is released twice.
SocketsFrom(a) == {c \in online : AddressOf[c] = a}

SlotsMatchSockets ==
  \A a \in Addresses :
    /\ connectionCounts[a] = Cardinality(SocketsFrom(a))
    /\ connectionCounts[a] <= MaxConnectionsPerAddress

\* A connected member of a session is in the session's room, so the
\* broadcasts of the session reach it.
SeatedPeersReachable ==
  \A p \in roster : p.client \in online => p.client \in rooms[p.session]

\* Two connected members of a session have been told of each other, unless
\* the join that will tell them is still on its way.
BeingAnnounced(p) ==
  \E j \in Calls : /\ call[j].pc = "joining"
                   /\ call[j].client = p.client
                   /\ call[j].session = p.session

PeersAnnounced ==
  \A p, q \in roster :
    (/\ p.session = q.session /\ p.client # q.client
     /\ {p.client, q.client} \subseteq online
     /\ ~BeingAnnounced(p) /\ ~BeingAnnounced(q))
      => q.client \in told[p.client]

\* The inductive invariant behind it: who is not being announced is known to
\* the others, or a join of theirs is about to tell them.
WillHear(p, q) ==
  \E j \in Calls : /\ call[j].pc = "joining"
                   /\ call[j].client = p.client
                   /\ call[j].session = p.session
                   /\ q.client \in call[j].existing

NewsOnTheWay ==
  \A p, q \in roster :
    (/\ p.session = q.session /\ p.client # q.client
     /\ {p.client, q.client} \subseteq online
     /\ ~BeingAnnounced(q))
      => q.client \in told[p.client] \/ WillHear(p, q)

(* What a step may never do.                                                *)

\* A seat is lost only by expiry, by the disconnect of its socket or by a
\* join of that same socket: no other client can push a peer out.
JoinOf(c) ==
  \E j \in Calls :
    /\ call[j] # call'[j]
    /\ \/ Pending(j) /\ call[j].client = c
       \/ call'[j].pc # "idle" /\ call'[j].client = c

SeatsNotStolen ==
  [][\A p \in roster \ roster' :
       \/ idle[p.session][p.client] > PeerTtl
       \/ p.client \in online /\ p.client \notin online'
       \/ JoinOf(p.client)]_vars

\* A viewer join that needed the host's approval gets past it only if a host
\* of that session said yes to that address less than the cache TTL ago.
PassesApproval(j) ==
  /\ call[j].pc \in {"password", "approval"}
  /\ call'[j].pc \in {"leaving", "joining"}

ConsentRespected ==
  [][\A j \in Calls :
       PassesApproval(j) /\ call'[j].needsApproval
         => consentAge'[KeyOf(call[j])] < ApprovalCacheTtl]_vars

\* "Reconnects/rejoins from the same viewer address should not reprompt the
\* host immediately": no approval request while a consent is still fresh.
NoReprompt ==
  [][\A j \in Calls :
       call[j].pc # "approval" /\ call'[j].pc = "approval"
         => consentAge[KeyOf(call[j])] = ApprovalCacheTtl]_vars

(* The password limiter, asked before an await and charged after it.        *)

\* Passwords of a key that were let past the limiter and have no verdict yet.
Guessing(key) ==
  {j \in Calls : call[j].pc = "password" /\ KeyOf(call[j]) = key}

\* Overlapping joins may fail more often than the limit allows, but by no
\* more than the joins that overlap.
PasswordFailuresBounded ==
  PasswordWindow > 0 =>
    \A key \in Keys :
      ActiveEvents(passwordFailures[key]) + Cardinality(Guessing(key))
        <= MaxPasswordFailures - 1 + Cardinality(Calls)

(* The approval limiter, charged before its await.                          *)

\* The prompts about a key that reached the host within the limiter's window
\* and that it has not answered.
FreshPrompts(key) ==
  {j \in Calls : /\ call[j].pc = "approval"
                 /\ KeyOf(call[j]) = key
                 /\ call[j].timeLeft > 0
                 /\ ApprovalTimeout - call[j].timeLeft < ApprovalWindow}

\* However many joins of an address overlap, and although each of them waits
\* for up to the approval timeout, the host never faces more fresh prompts
\* about that address than the limiter allows in one window.
HostPromptsBounded ==
  ApprovalWindow > 0 =>
    \A key \in Keys : Cardinality(FreshPrompts(key)) <= MaxApprovalRequests

\* Neither prompts about an address nor wrong passwords from it exceed what the
\* limiters allow, however many joins overlap before and after their awaits
\* (signaling.gateway.ts joinSession, rateLimit.ts).
AskedAndGuessedWithinLimits == HostPromptsBounded /\ PasswordFailuresBounded

(* What the gateway promises as a whole.                                     *)

\* Admission's names for the awaits a join is suspended at before it has its
\* seat; a join that has it is no visitor any more.
VisitorAt ==
  [settings |-> "asked", password |-> "met", approval |-> "waiting",
   leaving |-> "admitted"]

VisitorOf(cl) ==
  IF cl.pc \in {"idle", "joining"} THEN [at |-> "nobody"]
  ELSE [at |-> VisitorAt[cl.pc], client |-> cl.client, session |-> cl.session,
        role |-> cl.role, password |-> cl.password,
        byConsent |-> cl.needsApproval, host |-> cl.asked]

Visitors == [j \in Calls |-> VisitorOf(call[j])]

\* The keys a host said yes to less than the TTL ago.
FreshConsents == {key \in Keys : consentAge[key] < ApprovalCacheTtl}

Door == INSTANCE Admission
  WITH members <- roster,
       silent <- StaleSeats,
       door <- Visitors,
       trusted <- FreshConsents

\* The gateway implements Admission: whatever runs during the five awaits of a
\* join, nobody takes a seat but with the password of the moment it is checked
\* and with the host's consent where the settings asked for it, no seat is
\* taken twice or beyond the limits, and none is lost to another client.
AdmissionSpec == Door!Spec

(* Liveness.                                                                *)

\* Every join is answered, even if the asked host or the joining client is
\* gone or the host never reacts.
JoinsAnswered == \A j \in Calls : Pending(j) ~> ~Pending(j)

\* The seat of a socket that is gone is freed in the end, also when a join
\* that was suspended at the disconnect took the seat afterwards.
Ghost(c) == c \notin online /\ SeatsOf(roster, c) # {}

GhostsExpire == \A c \in Clients : Ghost(c) ~> ~Ghost(c)

==============================================================================
