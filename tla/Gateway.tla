-------------------------------- MODULE Gateway --------------------------------
(***************************************************************************)
(* SignalingGateway (apps/server signaling/signaling.gateway.ts): the       *)
(* socket.io endpoint through which a host and its viewer find each other.  *)
(*                                                                          *)
(* One Node process runs every handler on one thread, so a handler is       *)
(* atomic between two awaits and every await is a point where any other     *)
(* handler, timer or disconnect may run.  session:join is the only handler  *)
(* that awaits; a running join is a record call[j] whose pc names the await *)
(* it is suspended at:                                                      *)
(*                                                                          *)
(*   "settings"  getHostSettings()          (viewer joins only)             *)
(*   "password"  verifyHostPassword()                                       *)
(*   "approval"  the acknowledgement of session:approval-request            *)
(*   "leaving"   client.leave(old room)                                     *)
(*   "joining"   client.join(new room)                                      *)
(*                                                                          *)
(* Time is a tick that ages what the code dates with Date.now().  Socket    *)
(* ids are never reused by socket.io; Connect reuses a name of Clients only *)
(* once nothing in the state mentions it.                                   *)
(***************************************************************************)
EXTENDS Sessions, RateLimit

CONSTANTS
  Calls,                    \* slots for joins in progress
  Addresses,
  AddressOf,                \* [Clients -> Addresses], getClientAddress
  RolesOf,                  \* [Clients -> SUBSET Roles], roles a client asks for
  Passwords, NoPassword,
  HostConfigs,              \* values the host settings may take
  MaxConnectionsPerAddress,
  MaxJoinAttempts, JoinWindow,
  MaxPasswordFailures, PasswordWindow,
  MaxApprovalRequests, ApprovalWindow,
  ApprovalTimeout,          \* viewerApprovalTimeoutMs, in ticks
  ApprovalCacheTtl          \* viewerApprovalCacheTtlMs, in ticks

ASSUME GatewayConstants ==
  /\ IsFiniteSet(Clients) /\ IsFiniteSet(Calls)
  /\ AddressOf \in [Clients -> Addresses]
  /\ RolesOf \in [Clients -> SUBSET Roles]
  /\ HostConfigs \subseteq
       [password : Passwords \cup {NoPassword}, requireApproval : BOOLEAN]
  /\ MaxConnectionsPerAddress \in Nat \ {0}
  /\ MaxJoinAttempts \in Nat \ {0} /\ JoinWindow \in Nat
  /\ MaxPasswordFailures \in Nat \ {0} /\ PasswordWindow \in Nat
  /\ MaxApprovalRequests \in Nat \ {0} /\ ApprovalWindow \in Nat
  /\ ApprovalTimeout \in Nat
  /\ ApprovalCacheTtl \in Nat \ {0}

VARIABLES
  online,            \* sockets of the namespace
  connectionCounts,  \* connectionCountsByAddress
  roster, idle,      \* SessionsService, see Sessions
  rooms,             \* socket.io rooms: [SessionIds -> SUBSET Clients]
  call,              \* joins in progress
  joinAttempts,      \* joinAttemptLimiter, per address
  passwordFailures,  \* passwordAttemptLimiter, per address and session
  approvalRequests,  \* approvalRequestLimiter, per address and session
  approvals,         \* recentApprovedViewers, see ApprovalStates
  settings,          \* the host settings file
  told,              \* history: peers each socket has been told are present
  consentAge         \* history: ticks since a host last said yes to the key

limiters == <<joinAttempts, passwordFailures, approvalRequests>>
membership == <<roster, idle, rooms, told>>
sockets == <<online, connectionCounts>>
consents == <<approvals, consentAge>>
vars == <<sockets, membership, call, limiters, consents, settings>>

\* `${clientAddress}:${sessionId}`, the key of both viewer limiters and of
\* the approval cache.
Keys == Addresses \X SessionIds
KeyOf(cl) == <<AddressOf[cl.client], cl.session>>

\* 0: no entry; 1: an entry with expiresAt <= now; n + 1: n ticks to go.
ApprovalStates == 0 .. ApprovalCacheTtl + 1

Decrement(n) == IF n = 0 THEN 0 ELSE n - 1

IdleCall == [pc |-> "idle"]

PendingCalls ==
  [pc : {"settings", "password", "approval", "leaving", "joining"},
   client : Clients, session : SessionIds, role : Roles,
   password : Passwords \cup {NoPassword},
   needsApproval : BOOLEAN,     \* the settings snapshot
   asked : SUBSET Clients,      \* host socket holding the approval request
   timeLeft : 0 .. ApprovalTimeout,
   existing : SUBSET Clients]   \* existingPeers

Pending(j) == call[j].pc # "idle"

TypeOK ==
  /\ online \subseteq Clients
  /\ connectionCounts \in [Addresses -> Nat]
  /\ roster \subseteq Seats
  /\ idle \in IdleTimes
  /\ rooms \in [SessionIds -> SUBSET Clients]
  /\ call \in [Calls -> {IdleCall} \cup PendingCalls]
  /\ joinAttempts \in [Addresses -> Log(JoinWindow)]
  /\ passwordFailures \in [Keys -> Log(PasswordWindow)]
  /\ approvalRequests \in [Keys -> Log(ApprovalWindow)]
  /\ approvals \in [Keys -> ApprovalStates]
  /\ settings \in HostConfigs
  /\ told \in [Clients -> SUBSET Clients]
  /\ consentAge \in [Keys -> 0 .. ApprovalCacheTtl]

Init ==
  /\ online = {}
  /\ connectionCounts = [a \in Addresses |-> 0]
  /\ roster = {}
  /\ idle = [s \in SessionIds |-> [c \in Clients |-> 0]]
  /\ rooms = [s \in SessionIds |-> {}]
  /\ call = [j \in Calls |-> IdleCall]
  /\ joinAttempts = [a \in Addresses |-> EmptyLog(JoinWindow)]
  /\ passwordFailures = [k \in Keys |-> EmptyLog(PasswordWindow)]
  /\ approvalRequests = [k \in Keys |-> EmptyLog(ApprovalWindow)]
  /\ approvals = [k \in Keys |-> 0]
  /\ settings \in HostConfigs
  /\ told = [c \in Clients |-> {}]
  /\ consentAge = [k \in Keys |-> ApprovalCacheTtl]

------------------------------------------------------------------------------
(* Membership helpers shared by the handlers.                               *)

\* What every socket has been told once session:left of the seats `gone' was
\* emitted to their rooms.
TellLeft(known, gone) ==
  [x \in Clients |->
     known[x] \ {p.client : p \in {q \in gone : x \in rooms[q.session]}}]

\* cleanupExpiredPeers: the seats go and their rooms hear session:left; the
\* sockets stay in the rooms.
StaleSeats == Expired(roster, idle)
LiveRoster == roster \ StaleSeats
LiveIdle == ForgetIdle(idle, StaleSeats)
LiveTold == TellLeft(told, StaleSeats)

CleanupExpiredPeers ==
  /\ roster' = LiveRoster
  /\ idle' = LiveIdle
  /\ told' = LiveTold

EndCall(j) == call' = [call EXCEPT ![j] = IdleCall]

\* client.join: the socket is in the room at once; a socket that is gone
\* joins nothing.
EnterRoom(rms, cl) == [rms EXCEPT ![cl.session] = @ \cup ({cl.client} \cap online)]

\* The last synchronous part of a join, lines 184-199: addPeer, and on
\* success client.join.  A capacity error answers the call.
TakeSeat(j, cl, rst, idl, rms, known) ==
  /\ told' = known
  /\ \/ /\ CanAddPeer(rst, cl.session, cl.client, cl.role)
        /\ roster' = AddPeer(rst, cl.session, cl.client, cl.role)
        /\ idle' = Touch(idl, cl.session, cl.client)
        /\ rooms' = EnterRoom(rms, cl)
        /\ call' = [call EXCEPT ![j] =
             [cl EXCEPT !.pc = "joining",
                        !.existing = OtherPeers(rst, cl.session, cl.client)]]
     \/ /\ ~CanAddPeer(rst, cl.session, cl.client, cl.role)
        /\ roster' = rst
        /\ idle' = idl
        /\ rooms' = rms
        /\ EndCall(j)

\* Mutant: the previous seat is never given up.
KeepOldSession(j, cl, rst, idl, known) == TakeSeat(j, cl, rst, idl, rooms, known)

\* Mutant: client.leave before removePeer, which runs after the await.
LeaveRoomFirst(j, cl, rst, idl, known) ==
  \/ /\ SeatsOf(rst, cl.client) = {}
     /\ TakeSeat(j, cl, rst, idl, rooms, known)
  \/ \E p \in SeatsOf(rst, cl.client) :
       /\ roster' = rst
       /\ idle' = idl
       /\ rooms' = [rooms EXCEPT ![p.session] = @ \ {p.client}]
       /\ told' = known
       /\ call' = [call EXCEPT ![j] = [cl EXCEPT !.pc = "leaving"]]

\* Lines 179-182: give up the previous seat, if any, and await client.leave;
\* its room is not told.  Without one the join goes straight on.
LeaveOldSession(j, cl, rst, idl, known) ==
  \/ /\ SeatsOf(rst, cl.client) = {}
     /\ TakeSeat(j, cl, rst, idl, rooms, known)
  \/ \E p \in SeatsOf(rst, cl.client) :
       /\ roster' = rst \ {p}
       /\ idle' = Touch(idl, p.session, p.client)
       /\ rooms' = [rooms EXCEPT ![p.session] = @ \ {p.client}]
       /\ told' = known
       /\ call' = [call EXCEPT ![j] = [cl EXCEPT !.pc = "leaving"]]

------------------------------------------------------------------------------
(* Connections.                                                             *)

Mentioned(c) ==
  \/ SeatsOf(roster, c) # {}
  \/ \E j \in Calls : Pending(j) /\ c \in {call[j].client} \cup call[j].asked
                                            \cup call[j].existing
  \/ \E x \in Clients : c \in told[x]

\* handleConnection; over the limit the socket is closed at once and leaves
\* no trace.
Connect(c) ==
  LET nextCount == connectionCounts[AddressOf[c]] + 1
  IN  /\ c \notin online
      /\ ~Mentioned(c)
      /\ nextCount <= MaxConnectionsPerAddress
      /\ online' = online \cup {c}
      /\ connectionCounts' = [connectionCounts EXCEPT ![AddressOf[c]] = nextCount]
      /\ UNCHANGED <<membership, call, limiters, consents, settings>>

\* Mutant: only a member's slot is released.
ReleaseMemberAddress(c) ==
  connectionCounts' = IF SeatsOf(roster, c) = {} THEN connectionCounts
                      ELSE [connectionCounts EXCEPT ![AddressOf[c]] = Decrement(@)]

\* releaseClientAddress: a count that reaches 0 is deleted.
ReleaseClientAddress(c) ==
  connectionCounts' = [connectionCounts EXCEPT ![AddressOf[c]] = Decrement(@)]

\* socket.io empties the socket's rooms, then handleDisconnect releases the
\* address slot, removes one seat of the client and tells the rest of its room.
Disconnect(c) ==
  /\ c \in online
  /\ online' = online \ {c}
  /\ ReleaseClientAddress(c)
  /\ rooms' = [s \in SessionIds |-> rooms[s] \ {c}]
  /\ \/ /\ SeatsOf(roster, c) = {}
        /\ told' = [told EXCEPT ![c] = {}]
        /\ UNCHANGED <<roster, idle>>
     \/ \E p \in SeatsOf(roster, c) :
          /\ roster' = roster \ {p}
          /\ idle' = Touch(idle, p.session, c)
          /\ told' = [TellLeft(told, {p}) EXCEPT ![c] = {}]
  /\ UNCHANGED <<call, limiters, consents, settings>>

------------------------------------------------------------------------------
(* session:join.                                                            *)

\* A desktop client joins the one session its settings name, so two joins of
\* one socket that overlap (socket connect and network resume) agree on it.
JoinsAgree(c, s) ==
  \A k \in Calls : Pending(k) /\ call[k].client = c => call[k].session = s

NewCall(c, s, r, pw) ==
  [pc |-> "settings", client |-> c, session |-> s, role |-> r, password |-> pw,
   needsApproval |-> FALSE, asked |-> {}, timeLeft |-> 0, existing |-> {}]

\* Up to the first await: cleanup, the join limiter, and then a viewer awaits
\* the settings while a host goes on to lines 179-199.
StartJoin(j, c, s, r, pw) ==
  LET a == AddressOf[c]
  IN  /\ ~Pending(j)
      /\ c \in online
      /\ r \in RolesOf[c]
      /\ JoinsAgree(c, s)
      /\ \/ /\ ~IsAllowed(joinAttempts[a], MaxJoinAttempts)
            /\ CleanupExpiredPeers
            /\ UNCHANGED <<rooms, call, joinAttempts>>
         \/ /\ IsAllowed(joinAttempts[a], MaxJoinAttempts)
            /\ joinAttempts' = [joinAttempts EXCEPT ![a] = Record(@)]
            /\ \/ /\ r = "viewer"
                  /\ CleanupExpiredPeers
                  /\ call' = [call EXCEPT ![j] = NewCall(c, s, r, pw)]
                  /\ UNCHANGED rooms
               \/ /\ r = "host"
                  /\ LeaveOldSession(j, NewCall(c, s, r, NoPassword),
                                     LiveRoster, LiveIdle, LiveTold)
      /\ UNCHANGED <<sockets, passwordFailures, approvalRequests, consents, settings>>

\* Lines 132-143: the approval flag is this snapshot for the rest of the call;
\* the password limiter is only asked here.
ReadSettings(j) ==
  /\ call[j].pc = "settings"
  /\ \/ /\ ~IsAllowed(passwordFailures[KeyOf(call[j])], MaxPasswordFailures)
        /\ EndCall(j)
     \/ /\ IsAllowed(passwordFailures[KeyOf(call[j])], MaxPasswordFailures)
        /\ call' = [call EXCEPT ![j] =
             [@ EXCEPT !.pc = "password",
                       !.needsApproval = settings.requireApproval]]
  /\ UNCHANGED <<sockets, membership, limiters, consents, settings>>

\* Mutant: who gives no password is let in.
PasswordNotGivenAccepted(cl) ==
  \/ cl.password = NoPassword
  \/ settings.password \in {NoPassword, cl.password}

\* verifyHostPassword reads the settings file again.
PasswordAccepted(cl) == settings.password \in {NoPassword, cl.password}

\* Mutant: any entry counts, expired or not.
EverApproved(key) == approvals[key] > 0

\* Mutant: an entry expires one tick early.
ApprovedLongEnough(key) == approvals[key] > 2

\* isRecentlyApproved: an entry with expiresAt > now.
IsRecentlyApproved(key) == approvals[key] > 1

\* getPeerByRole(session, "host"), if its socket is still there.
HostToAsk(s) == {p.client : p \in PeersByRole(roster, s, "host")} \cap online

\* Mutant: the request is charged when it is answered, not when it is made.
RequestApprovalUncharged(j, cl) ==
  /\ UNCHANGED approvalRequests
  /\ \/ /\ ~IsAllowed(approvalRequests[KeyOf(cl)], MaxApprovalRequests)
        /\ EndCall(j)
     \/ /\ IsAllowed(approvalRequests[KeyOf(cl)], MaxApprovalRequests)
        /\ \/ HostToAsk(cl.session) = {} /\ EndCall(j)
           \/ \E h \in HostToAsk(cl.session) :
                call' = [call EXCEPT ![j] =
                  [cl EXCEPT !.pc = "approval", !.asked = {h},
                             !.timeLeft = ApprovalTimeout]]

\* Lines 159-167: the approval limiter, then the request to the host socket.
\* Without a host the answer is no.
RequestApproval(j, cl) ==
  LET key == KeyOf(cl)
  IN  \/ /\ ~IsAllowed(approvalRequests[key], MaxApprovalRequests)
         /\ EndCall(j)
         /\ UNCHANGED approvalRequests
      \/ /\ IsAllowed(approvalRequests[key], MaxApprovalRequests)
         /\ approvalRequests' = [approvalRequests EXCEPT ![key] = Record(@)]
         /\ \/ HostToAsk(cl.session) = {} /\ EndCall(j)
            \/ \E h \in HostToAsk(cl.session) :
                 call' = [call EXCEPT ![j] =
                   [cl EXCEPT !.pc = "approval", !.asked = {h},
                              !.timeLeft = ApprovalTimeout]]

\* Lines 143-182: the verdict on the password, and on to the approval or to
\* the seat.
CheckPassword(j) ==
  /\ call[j].pc = "password"
  /\ LET cl == [call[j] EXCEPT !.password = NoPassword]
         key == KeyOf(cl)
     IN  \/ /\ ~PasswordAccepted(call[j])
            /\ passwordFailures' = [passwordFailures EXCEPT ![key] = Record(@)]
            /\ EndCall(j)
            /\ UNCHANGED <<membership, approvalRequests, approvals>>
         \/ /\ PasswordAccepted(call[j])
            /\ passwordFailures' = [passwordFailures EXCEPT ![key] = Reset(@)]
            /\ \/ /\ cl.needsApproval /\ ~IsRecentlyApproved(key)
                  /\ approvals' = [approvals EXCEPT ![key] = 0]
                  /\ RequestApproval(j, cl)
                  /\ UNCHANGED membership
               \/ /\ cl.needsApproval => IsRecentlyApproved(key)
                  /\ LeaveOldSession(j, cl, roster, idle, told)
                  /\ UNCHANGED <<approvalRequests, approvals>>
  /\ UNCHANGED <<sockets, joinAttempts, consentAge, settings>>

\* markApproved, and the host's consent as the history records it.
MarkApproved(key) ==
  /\ approvals' = [approvals EXCEPT ![key] = ApprovalCacheTtl + 1]
  /\ consentAge' = [consentAge EXCEPT ![key] = 0]

\* The asked host's acknowledgement arrives; the join goes on with the roster
\* of that moment, whether or not its own socket is still connected.
HostAnswers(j, approved) ==
  /\ call[j].pc = "approval"
  /\ call[j].asked \subseteq online
  /\ LET cl == [call[j] EXCEPT !.asked = {}, !.timeLeft = 0]
     IN  \/ /\ approved
            /\ MarkApproved(KeyOf(cl))
            /\ LeaveOldSession(j, cl, roster, idle, told)
         \/ /\ ~approved
            /\ EndCall(j)
            /\ UNCHANGED <<membership, consents>>
  /\ UNCHANGED <<sockets, limiters, settings>>

\* Mutant: a request whose host is gone is never given up.
ApprovalTimesOutIfHostStays(j) ==
  /\ call[j].pc = "approval"
  /\ call[j].timeLeft = 0
  /\ call[j].asked \subseteq online
  /\ EndCall(j)
  /\ UNCHANGED <<sockets, membership, limiters, consents, settings>>

\* socket.timeout() runs out: no acknowledgement counts as a rejection.
ApprovalTimesOut(j) ==
  /\ call[j].pc = "approval"
  /\ call[j].timeLeft = 0
  /\ EndCall(j)
  /\ UNCHANGED <<sockets, membership, limiters, consents, settings>>

\* After client.leave.
ResumeAfterLeave(j) ==
  /\ call[j].pc = "leaving"
  /\ TakeSeat(j, call[j], roster, idle, rooms, told)
  /\ UNCHANGED <<sockets, limiters, consents, settings>>

\* Mutant: the peers already present are not told.
FinishJoinSilently(j) ==
  LET cl == call[j]
  IN  /\ cl.pc = "joining"
      /\ told' = [x \in Clients |->
           told[x] \cup (IF x = cl.client /\ x \in online THEN cl.existing ELSE {})]
      /\ EndCall(j)
      /\ UNCHANGED <<sockets, roster, idle, rooms, limiters, consents, settings>>

\* After client.join, lines 201-213: the client hears of the peers addPeer
\* returned, the rest of the room hears of the client.
FinishJoin(j) ==
  LET cl == call[j]
  IN  /\ cl.pc = "joining"
      /\ told' = [x \in Clients |->
           told[x] \cup (IF x = cl.client /\ x \in online THEN cl.existing ELSE {})
                   \cup (IF x # cl.client /\ x \in rooms[cl.session]
                           THEN {cl.client} ELSE {})]
      /\ EndCall(j)
      /\ UNCHANGED <<sockets, roster, idle, rooms, limiters, consents, settings>>

------------------------------------------------------------------------------
(* The handlers that only touch, the timer, the host's settings, time.      *)

TouchPeer(c, s) ==
  /\ c \in online
  /\ HasSeat(roster, s, c)
  /\ idle' = Touch(idle, s, c)
  /\ UNCHANGED <<sockets, roster, rooms, told, call, limiters, consents, settings>>

\* session:heartbeat
Heartbeat(c, s) == TouchPeer(c, s)

\* signal:offer, signal:answer and signal:ice-candidate: hasPeer touches the
\* sender before the message is forwarded.
RelaySignal(c, s) == TouchPeer(c, s)

\* session:shutdown from a member; the broadcast changes nothing here.
AnnounceShutdown(c, s) == TouchPeer(c, s)

\* cleanupExpiredApprovals
CleanupExpiredApprovals ==
  approvals' = [k \in Keys |-> IF approvals[k] = 1 THEN 0 ELSE approvals[k]]

\* The 30 s interval of onModuleInit.
CleanupTimer ==
  /\ CleanupExpiredPeers
  /\ CleanupExpiredApprovals
  /\ UNCHANGED <<sockets, rooms, call, limiters, consentAge, settings>>

\* The host edits its settings (settings.service, the desktop's appIpc).
ChangeSettings ==
  /\ settings' \in HostConfigs
  /\ UNCHANGED <<sockets, membership, call, limiters, consents>>

Tick ==
  /\ idle' = AgeSeats(roster, idle)
  /\ call' = [j \in Calls |->
       IF call[j].pc = "approval"
         THEN [call[j] EXCEPT !.timeLeft = Decrement(@)]
         ELSE call[j]]
  /\ joinAttempts' = [a \in Addresses |-> Older(joinAttempts[a])]
  /\ passwordFailures' = [k \in Keys |-> Older(passwordFailures[k])]
  /\ approvalRequests' = [k \in Keys |-> Older(approvalRequests[k])]
  /\ approvals' = [k \in Keys |->
       IF approvals[k] > 1 THEN approvals[k] - 1 ELSE approvals[k]]
  /\ consentAge' = [k \in Keys |->
       IF consentAge[k] < ApprovalCacheTtl THEN consentAge[k] + 1 ELSE consentAge[k]]
  /\ UNCHANGED <<sockets, roster, rooms, told, settings>>

------------------------------------------------------------------------------
\* What a suspended join does once its promise settles.
ResumeJoin(j) ==
  \/ ReadSettings(j)
  \/ CheckPassword(j)
  \/ ApprovalTimesOut(j)
  \/ ResumeAfterLeave(j)
  \/ FinishJoin(j)

ClientStep(c) ==
  \/ Connect(c)
  \/ Disconnect(c)
  \/ \E j \in Calls, s \in SessionIds, r \in Roles, pw \in Passwords \cup {NoPassword} :
       StartJoin(j, c, s, r, pw)
  \/ \E s \in SessionIds :
       \/ Heartbeat(c, s)
       \/ RelaySignal(c, s)
       \/ AnnounceShutdown(c, s)

Next ==
  \/ \E c \in Clients : ClientStep(c)
  \/ \E j \in Calls : ResumeJoin(j)
  \/ \E j \in Calls, approved \in BOOLEAN : HostAnswers(j, approved)
  \/ CleanupTimer
  \/ ChangeSettings
  \/ Tick

\* File reads, password hashes and room operations complete, timers fire and
\* the clock runs; nobody has to answer, connect, disconnect or send.
Fairness ==
  /\ \A j \in Calls : WF_vars(ResumeJoin(j))
  /\ WF_vars(CleanupTimer)
  /\ WF_vars(Tick)

Spec == Init /\ [][Next]_vars /\ Fairness

==============================================================================
