----------------------------- MODULE GatewayProofs -----------------------------
(***************************************************************************)
(* Proofs about SignalingGateway and SessionsService for every number of    *)
(* sockets, sessions, addresses and overlapping joins, and every limit.     *)
(***************************************************************************)
EXTENDS GatewayProperties, FiniteSetTheorems, WellFoundedInduction, TLAPS

------------------------------------------------------------------------------
(* Types of the helpers.                                                    *)

\* Every operation on a limiter log yields a log of the same window.
LEMMA LogTypes ==
  ASSUME NEW w \in Nat
  PROVE  /\ EmptyLog(w) \in Log(w)
         /\ \A log \in Log(w) : /\ Record(log) \in Log(w)
                                /\ Reset(log) \in Log(w)
                                /\ Older(log) \in Log(w)
<1>1. EmptyLog(w) \in Log(w)
  BY DEF EmptyLog, Log
<1>2. ASSUME NEW log \in Log(w)
      PROVE  Record(log) \in Log(w) /\ Reset(log) \in Log(w)
  BY DEF Record, Reset, Log
<1>3. ASSUME NEW log \in Log(w)
      PROVE  Older(log) \in Log(w)
  <2>1. DOMAIN log = 0 .. w - 1 /\ \A a \in 0 .. w - 1 : log[a] \in Nat
    BY DEF Log
  <2>2. \A a \in 0 .. w - 1 : a # 0 => a - 1 \in 0 .. w - 1
    OBVIOUS
  <2>3. QED
    BY <2>1, <2>2 DEF Older, Log
<1>4. QED
  BY <1>1, <1>2, <1>3

\* Touching or forgetting seats, and time, keep idle times in range.
LEMMA IdleTypes ==
  ASSUME NEW idl \in IdleTimes, NEW rst
  PROVE  /\ \A s \in SessionIds, c \in Clients : Touch(idl, s, c) \in IdleTimes
         /\ ForgetIdle(idl, rst) \in IdleTimes
         /\ AgeSeats(rst, idl) \in IdleTimes
<1>1. 0 \in 0 .. PeerTtl + 1
  BY SessionLimits
<1>2. \A s \in SessionIds, c \in Clients : Touch(idl, s, c) \in IdleTimes
  BY <1>1 DEF Touch, IdleTimes
<1>3. ForgetIdle(idl, rst) \in IdleTimes
  BY <1>1 DEF ForgetIdle, IdleTimes
<1>4. ASSUME NEW s \in SessionIds, NEW c \in Clients
      PROVE  (IF HasSeat(rst, s, c) /\ idl[s][c] <= PeerTtl
                THEN idl[s][c] + 1 ELSE idl[s][c]) \in 0 .. PeerTtl + 1
  <2>1. idl[s][c] \in 0 .. PeerTtl + 1
    BY DEF IdleTimes
  <2>2. QED
    BY <2>1, SessionLimits
<1>5. AgeSeats(rst, idl) \in IdleTimes
  BY <1>4 DEF AgeSeats, IdleTimes
<1>6. QED
  BY <1>2, <1>3, <1>5

LEMMA ToldTypes ==
  ASSUME NEW known \in [Clients -> SUBSET Clients], NEW gone
  PROVE  TellLeft(known, gone) \in [Clients -> SUBSET Clients]
BY DEF TellLeft

LEMMA CleanupTypes ==
  ASSUME TypeOK
  PROVE  /\ LiveRoster \subseteq Seats
         /\ LiveIdle \in IdleTimes
         /\ LiveTold \in [Clients -> SUBSET Clients]
BY IdleTypes, ToldTypes DEF TypeOK, LiveRoster, LiveIdle, LiveTold

\* A call moved to another await, or finished, is still a call.
LEMMA CallTypes ==
  ASSUME TypeOK, NEW j \in Calls, NEW cl \in {IdleCall} \cup PendingCalls
  PROVE  [call EXCEPT ![j] = cl] \in [Calls -> {IdleCall} \cup PendingCalls]
BY DEF TypeOK

MembershipOK ==
  /\ roster \subseteq Seats
  /\ idle \in IdleTimes
  /\ rooms \in [SessionIds -> SUBSET Clients]
  /\ told \in [Clients -> SUBSET Clients]
  /\ call \in [Calls -> {IdleCall} \cup PendingCalls]

LEMMA TakeSeatTypes ==
  ASSUME TypeOK, NEW j \in Calls, NEW cl \in PendingCalls,
         NEW rst \in SUBSET Seats, NEW idl \in IdleTimes,
         NEW rms \in [SessionIds -> SUBSET Clients],
         NEW known \in [Clients -> SUBSET Clients],
         TakeSeat(j, cl, rst, idl, rms, known)
  PROVE  MembershipOK'
<1>1. cl.session \in SessionIds /\ cl.client \in Clients /\ cl.role \in Roles
  BY DEF PendingCalls
<1>2. CASE /\ roster' = AddPeer(rst, cl.session, cl.client, cl.role)
           /\ idle' = Touch(idl, cl.session, cl.client)
           /\ rooms' = EnterRoom(rms, cl)
           /\ call' = [call EXCEPT ![j] =
                [cl EXCEPT !.pc = "joining",
                           !.existing = OtherPeers(rst, cl.session, cl.client)]]
  <2>1. roster' \subseteq Seats
    BY <1>1, <1>2 DEF AddPeer, Seats
  <2>2. idle' \in IdleTimes
    BY <1>1, <1>2, IdleTypes
  <2>3. rooms' \in [SessionIds -> SUBSET Clients]
    BY <1>1, <1>2 DEF EnterRoom
  <2>4. OtherPeers(rst, cl.session, cl.client) \subseteq Clients
    BY DEF OtherPeers, PeersOf, Seats
  <2>5. [cl EXCEPT !.pc = "joining",
                   !.existing = OtherPeers(rst, cl.session, cl.client)] \in PendingCalls
    BY <2>4 DEF PendingCalls
  <2>6. call' \in [Calls -> {IdleCall} \cup PendingCalls]
    BY <1>2, <2>5, CallTypes
  <2>7. QED
    BY <2>1, <2>2, <2>3, <2>6 DEF MembershipOK, TakeSeat
<1>3. CASE roster' = rst /\ idle' = idl /\ rooms' = rms /\ EndCall(j)
  BY <1>3, CallTypes DEF MembershipOK, TakeSeat, EndCall
<1>4. QED
  BY <1>2, <1>3 DEF TakeSeat

LEMMA LeaveOldSessionTypes ==
  ASSUME TypeOK, NEW j \in Calls, NEW cl \in PendingCalls,
         NEW rst \in SUBSET Seats, NEW idl \in IdleTimes,
         NEW known \in [Clients -> SUBSET Clients],
         LeaveOldSession(j, cl, rst, idl, known)
  PROVE  MembershipOK'
<1>1. rooms \in [SessionIds -> SUBSET Clients]
  BY DEF TypeOK
<1>2. CASE TakeSeat(j, cl, rst, idl, rooms, known)
  BY <1>1, <1>2, TakeSeatTypes
<1>3. ASSUME NEW p \in SeatsOf(rst, cl.client),
             roster' = rst \ {p},
             idle' = Touch(idl, p.session, p.client),
             rooms' = [rooms EXCEPT ![p.session] = @ \ {p.client}],
             told' = known,
             call' = [call EXCEPT ![j] = [cl EXCEPT !.pc = "leaving"]]
      PROVE  MembershipOK'
  <2>1. p.session \in SessionIds /\ p.client \in Clients
    BY DEF SeatsOf, Seats
  <2>2. idle' \in IdleTimes
    BY <1>3, <2>1, IdleTypes
  <2>3. rooms' \in [SessionIds -> SUBSET Clients]
    BY <1>1, <1>3, <2>1
  <2>4. [cl EXCEPT !.pc = "leaving"] \in PendingCalls
    BY DEF PendingCalls
  <2>5. call' \in [Calls -> {IdleCall} \cup PendingCalls]
    BY <1>3, <2>4, CallTypes
  <2>6. QED
    BY <1>3, <2>2, <2>3, <2>5 DEF MembershipOK
<1>4. QED
  BY <1>2, <1>3 DEF LeaveOldSession

------------------------------------------------------------------------------
(* Type correctness, one lemma per handler.                                 *)

LEMMA InitTypes == Init => TypeOK
<1> SUFFICES ASSUME Init PROVE TypeOK
  OBVIOUS
<1>1. \A w \in Nat : EmptyLog(w) \in Log(w)
  BY LogTypes
<1>2. /\ joinAttempts \in [Addresses -> Log(JoinWindow)]
      /\ passwordFailures \in [Keys -> Log(PasswordWindow)]
      /\ approvalRequests \in [Keys -> Log(ApprovalWindow)]
  BY <1>1, GatewayConstants DEF Init
<1>3. idle \in IdleTimes
  BY SessionLimits DEF Init, IdleTimes
<1>4. /\ approvals \in [Keys -> ApprovalStates]
      /\ consentAge \in [Keys -> 0 .. ApprovalCacheTtl]
  BY GatewayConstants DEF Init, ApprovalStates
<1>5. QED
  BY <1>2, <1>3, <1>4 DEF Init, TypeOK

LEMMA ConnectTypes ==
  ASSUME TypeOK, NEW c \in Clients, Connect(c)
  PROVE  TypeOK'
<1>1. connectionCounts' \in [Addresses -> Nat]
  BY GatewayConstants DEF TypeOK, Connect
<1>2. QED
  BY <1>1 DEF TypeOK, Connect, membership, limiters, consents

LEMMA DisconnectTypes ==
  ASSUME TypeOK, NEW c \in Clients, Disconnect(c)
  PROVE  TypeOK'
<1>1. connectionCounts' \in [Addresses -> Nat]
  BY GatewayConstants DEF TypeOK, Disconnect, ReleaseClientAddress, Decrement
<1>2. rooms' \in [SessionIds -> SUBSET Clients]
  BY DEF TypeOK, Disconnect
<1>3. /\ roster' \subseteq Seats
      /\ idle' \in IdleTimes
      /\ told' \in [Clients -> SUBSET Clients]
  <2>1. CASE roster' = roster /\ idle' = idle /\ told' = [told EXCEPT ![c] = {}]
    BY <2>1 DEF TypeOK
  <2>2. ASSUME NEW p \in SeatsOf(roster, c),
               roster' = roster \ {p},
               idle' = Touch(idle, p.session, c),
               told' = [TellLeft(told, {p}) EXCEPT ![c] = {}]
        PROVE  /\ roster' \subseteq Seats
               /\ idle' \in IdleTimes
               /\ told' \in [Clients -> SUBSET Clients]
    <3>1. p.session \in SessionIds
      BY DEF TypeOK, SeatsOf, Seats
    <3>2. TellLeft(told, {p}) \in [Clients -> SUBSET Clients]
      BY ToldTypes DEF TypeOK
    <3>3. idle' \in IdleTimes
      BY <2>2, <3>1, IdleTypes DEF TypeOK
    <3>4. QED
      BY <2>2, <3>2, <3>3 DEF TypeOK
  <2>3. QED
    BY <2>1, <2>2 DEF Disconnect
<1>4. QED
  BY <1>1, <1>2, <1>3 DEF TypeOK, Disconnect, limiters, consents

LEMMA NewCallTypes ==
  ASSUME NEW c \in Clients, NEW s \in SessionIds, NEW r \in Roles,
         NEW pw \in Passwords \cup {NoPassword}
  PROVE  NewCall(c, s, r, pw) \in PendingCalls
BY GatewayConstants DEF NewCall, PendingCalls

LEMMA StartJoinTypes ==
  ASSUME TypeOK, NEW j \in Calls, NEW c \in Clients, NEW s \in SessionIds,
         NEW r \in Roles, NEW pw \in Passwords \cup {NoPassword},
         StartJoin(j, c, s, r, pw)
  PROVE  TypeOK'
<1> DEFINE a == AddressOf[c]
<1>1. joinAttempts' \in [Addresses -> Log(JoinWindow)]
  <2>1. CASE UNCHANGED joinAttempts
    BY <2>1 DEF TypeOK
  <2>2. CASE joinAttempts' = [joinAttempts EXCEPT ![a] = Record(@)]
    <3>1. Record(joinAttempts[a]) \in Log(JoinWindow)
      BY LogTypes, GatewayConstants DEF TypeOK
    <3>2. QED
      BY <2>2, <3>1 DEF TypeOK
  <2>3. QED
    BY <2>1, <2>2 DEF StartJoin
<1>2. MembershipOK'
  <2>1. CASE CleanupExpiredPeers /\ UNCHANGED <<rooms, call>>
    BY <2>1, CleanupTypes DEF MembershipOK, CleanupExpiredPeers, TypeOK
  <2>2. CASE /\ CleanupExpiredPeers
             /\ call' = [call EXCEPT ![j] = NewCall(c, s, r, pw)]
             /\ UNCHANGED rooms
    BY <2>2, CleanupTypes, NewCallTypes, CallTypes
       DEF MembershipOK, CleanupExpiredPeers, TypeOK
  <2>3. CASE LeaveOldSession(j, NewCall(c, s, r, NoPassword),
                             LiveRoster, LiveIdle, LiveTold)
    BY <2>3, CleanupTypes, NewCallTypes, LeaveOldSessionTypes
  <2>4. QED
    BY <2>1, <2>2, <2>3 DEF StartJoin
<1>3. QED
  BY <1>1, <1>2 DEF TypeOK, MembershipOK, StartJoin, sockets, consents

LEMMA ReadSettingsTypes ==
  ASSUME TypeOK, NEW j \in Calls, ReadSettings(j)
  PROVE  TypeOK'
<1>1. call[j] \in PendingCalls
  BY DEF ReadSettings, TypeOK, IdleCall
<1>2. settings.requireApproval \in BOOLEAN
  BY GatewayConstants DEF TypeOK
<1>3. [call[j] EXCEPT !.pc = "password",
                      !.needsApproval = settings.requireApproval] \in PendingCalls
  BY <1>1, <1>2 DEF PendingCalls
<1>4. call' \in [Calls -> {IdleCall} \cup PendingCalls]
  BY <1>3, CallTypes DEF ReadSettings, EndCall
<1>5. QED
  BY <1>4 DEF TypeOK, ReadSettings, sockets, membership, limiters, consents

LEMMA KeyTypes ==
  ASSUME NEW cl \in PendingCalls
  PROVE  KeyOf(cl) \in Keys
BY GatewayConstants DEF PendingCalls, KeyOf, Keys

LEMMA RequestApprovalTypes ==
  ASSUME TypeOK, NEW j \in Calls, NEW cl \in PendingCalls, RequestApproval(j, cl)
  PROVE  /\ call' \in [Calls -> {IdleCall} \cup PendingCalls]
         /\ approvalRequests' \in [Keys -> Log(ApprovalWindow)]
<1>1. EndCall(j) => call' \in [Calls -> {IdleCall} \cup PendingCalls]
  BY CallTypes DEF EndCall
<1>2. ASSUME NEW h \in HostToAsk(cl.session)
      PROVE  [cl EXCEPT !.pc = "approval", !.asked = {h},
                        !.timeLeft = ApprovalTimeout] \in PendingCalls
  <2>1. h \in Clients
    BY DEF HostToAsk, TypeOK
  <2>2. ApprovalTimeout \in 0 .. ApprovalTimeout
    BY GatewayConstants
  <2>3. QED
    BY <2>1, <2>2 DEF PendingCalls
<1>3. call' \in [Calls -> {IdleCall} \cup PendingCalls]
  <2>1. CASE EndCall(j)
    BY <1>1, <2>1
  <2>2. ASSUME NEW h \in HostToAsk(cl.session),
               call' = [call EXCEPT ![j] =
                 [cl EXCEPT !.pc = "approval", !.asked = {h},
                            !.timeLeft = ApprovalTimeout]]
        PROVE  call' \in [Calls -> {IdleCall} \cup PendingCalls]
    BY <1>2, <2>2, CallTypes
  <2>3. QED
    BY <2>1, <2>2 DEF RequestApproval
<1>4. Record(approvalRequests[KeyOf(cl)]) \in Log(ApprovalWindow)
  BY KeyTypes, LogTypes, GatewayConstants DEF TypeOK
<1>5. approvalRequests' \in [Keys -> Log(ApprovalWindow)]
  BY <1>4 DEF RequestApproval, TypeOK
<1>6. QED
  BY <1>3, <1>5

LEMMA CheckPasswordTypes ==
  ASSUME TypeOK, NEW j \in Calls, CheckPassword(j)
  PROVE  TypeOK'
<1> DEFINE cl == [call[j] EXCEPT !.password = NoPassword]
           key == KeyOf(cl)
<1>1. call[j] \in PendingCalls
  BY DEF CheckPassword, TypeOK, IdleCall
<1>2. cl \in PendingCalls
  BY <1>1 DEF PendingCalls
<1>3. key \in Keys
  BY <1>2, KeyTypes
<1> HIDE DEF cl, key
<1>4. passwordFailures' \in [Keys -> Log(PasswordWindow)]
  <2>1. /\ Record(passwordFailures[key]) \in Log(PasswordWindow)
        /\ Reset(passwordFailures[key]) \in Log(PasswordWindow)
    BY <1>3, LogTypes, GatewayConstants DEF TypeOK
  <2>2. \/ passwordFailures' = [passwordFailures EXCEPT ![key] = Record(@)]
        \/ passwordFailures' = [passwordFailures EXCEPT ![key] = Reset(@)]
    BY DEF CheckPassword, cl, key
  <2>3. QED
    BY <2>1, <2>2 DEF TypeOK
<1>5. approvals' \in [Keys -> ApprovalStates]
  <2>1. approvals' = [approvals EXCEPT ![key] = 0] \/ approvals' = approvals
    BY DEF CheckPassword, cl, key
  <2>2. 0 \in ApprovalStates
    BY GatewayConstants DEF ApprovalStates
  <2>3. QED
    BY <2>1, <2>2 DEF TypeOK
<1>6. MembershipOK' /\ approvalRequests' \in [Keys -> Log(ApprovalWindow)]
  <2>1. CASE EndCall(j) /\ UNCHANGED <<membership, approvalRequests>>
    BY <2>1, CallTypes DEF EndCall, TypeOK, MembershipOK, membership
  <2>2. CASE RequestApproval(j, cl) /\ UNCHANGED membership
    BY <2>2, <1>2, RequestApprovalTypes DEF TypeOK, MembershipOK, membership
  <2>3. CASE LeaveOldSession(j, cl, roster, idle, told) /\ UNCHANGED approvalRequests
    <3>1. MembershipOK'
      BY <2>3, <1>2, LeaveOldSessionTypes DEF TypeOK
    <3>2. QED
      BY <2>3, <3>1 DEF TypeOK
  <2>4. QED
    BY <2>1, <2>2, <2>3 DEF CheckPassword, cl, key
<1>7. QED
  BY <1>4, <1>5, <1>6 DEF TypeOK, MembershipOK, CheckPassword, sockets

LEMMA HostAnswersTypes ==
  ASSUME TypeOK, NEW j \in Calls, NEW approved \in BOOLEAN, HostAnswers(j, approved)
  PROVE  TypeOK'
<1> DEFINE cl == [call[j] EXCEPT !.asked = {}, !.timeLeft = 0]
<1>1. call[j] \in PendingCalls
  BY DEF HostAnswers, TypeOK, IdleCall
<1>2. cl \in PendingCalls
  <2>1. 0 \in 0 .. ApprovalTimeout
    BY GatewayConstants
  <2>2. QED
    BY <1>1, <2>1 DEF PendingCalls
<1>3. KeyOf(cl) \in Keys
  BY <1>2, KeyTypes
<1> HIDE DEF cl
<1>4. /\ approvals' \in [Keys -> ApprovalStates]
      /\ consentAge' \in [Keys -> 0 .. ApprovalCacheTtl]
  <2>1. CASE MarkApproved(KeyOf(cl))
    BY <2>1, <1>3, GatewayConstants DEF TypeOK, MarkApproved, ApprovalStates
  <2>2. CASE UNCHANGED consents
    BY <2>2 DEF TypeOK, consents
  <2>3. QED
    BY <2>1, <2>2 DEF HostAnswers, cl
<1>5. MembershipOK'
  <2>1. CASE LeaveOldSession(j, cl, roster, idle, told)
    BY <2>1, <1>2, LeaveOldSessionTypes DEF TypeOK
  <2>2. CASE EndCall(j) /\ UNCHANGED membership
    BY <2>2, CallTypes DEF EndCall, TypeOK, MembershipOK, membership
  <2>3. QED
    BY <2>1, <2>2 DEF HostAnswers, cl
<1>6. QED
  BY <1>4, <1>5 DEF TypeOK, MembershipOK, HostAnswers, sockets, limiters

LEMMA ResumeTypes ==
  ASSUME TypeOK, NEW j \in Calls,
         ApprovalTimesOut(j) \/ ResumeAfterLeave(j) \/ FinishJoin(j)
  PROVE  TypeOK'
<1>1. CASE ApprovalTimesOut(j)
  BY <1>1, CallTypes
     DEF ApprovalTimesOut, EndCall, TypeOK, sockets, membership, limiters, consents
<1>2. CASE ResumeAfterLeave(j)
  <2>1. call[j] \in PendingCalls
    BY <1>2 DEF ResumeAfterLeave, TypeOK, IdleCall
  <2>2. MembershipOK'
    BY <1>2, <2>1, TakeSeatTypes DEF ResumeAfterLeave, TypeOK
  <2>3. QED
    BY <1>2, <2>2 DEF TypeOK, MembershipOK, ResumeAfterLeave, sockets, limiters, consents
<1>3. CASE FinishJoin(j)
  <2>1. call[j] \in PendingCalls
    BY <1>3 DEF FinishJoin, TypeOK, IdleCall
  <2>2. call[j].existing \subseteq Clients /\ call[j].client \in Clients
    BY <2>1 DEF PendingCalls
  <2>3. told' \in [Clients -> SUBSET Clients]
    BY <1>3, <2>2 DEF FinishJoin, TypeOK
  <2>4. QED
    BY <1>3, <2>3, CallTypes
       DEF FinishJoin, EndCall, TypeOK, sockets, limiters, consents
<1>4. QED
  BY <1>1, <1>2, <1>3

LEMMA TouchPeerTypes ==
  ASSUME TypeOK, NEW c \in Clients, NEW s \in SessionIds, TouchPeer(c, s)
  PROVE  TypeOK'
<1>1. idle' \in IdleTimes
  BY IdleTypes DEF TouchPeer, TypeOK
<1>2. QED
  BY <1>1 DEF TouchPeer, TypeOK, sockets, limiters, consents

LEMMA TimerTypes ==
  ASSUME TypeOK, CleanupTimer \/ ChangeSettings
  PROVE  TypeOK'
<1>1. CASE CleanupTimer
  <2>1. approvals' \in [Keys -> ApprovalStates]
    BY <1>1, GatewayConstants
       DEF CleanupTimer, CleanupExpiredApprovals, TypeOK, ApprovalStates
  <2>2. QED
    BY <1>1, <2>1, CleanupTypes
       DEF CleanupTimer, CleanupExpiredPeers, TypeOK, sockets, limiters
<1>2. CASE ChangeSettings
  BY <1>2 DEF ChangeSettings, TypeOK, sockets, membership, limiters, consents
<1>3. QED
  BY <1>1, <1>2

LEMMA TickTypes ==
  ASSUME TypeOK, Tick
  PROVE  TypeOK'
<1>1. idle' \in IdleTimes
  BY IdleTypes DEF Tick, TypeOK
<1>2. call' \in [Calls -> {IdleCall} \cup PendingCalls]
  <2>1. ASSUME NEW j \in Calls, call[j].pc = "approval"
        PROVE  [call[j] EXCEPT !.timeLeft = Decrement(@)] \in PendingCalls
    <3>1. call[j] \in PendingCalls
      BY <2>1 DEF TypeOK, IdleCall
    <3>2. call[j].timeLeft \in 0 .. ApprovalTimeout
      BY <3>1 DEF PendingCalls
    <3>3. Decrement(call[j].timeLeft) \in 0 .. ApprovalTimeout
      BY <3>2, GatewayConstants DEF Decrement
    <3>4. QED
      BY <3>1, <3>3 DEF PendingCalls
  <2>2. QED
    BY <2>1 DEF Tick, TypeOK
<1>3. /\ joinAttempts' \in [Addresses -> Log(JoinWindow)]
      /\ passwordFailures' \in [Keys -> Log(PasswordWindow)]
      /\ approvalRequests' \in [Keys -> Log(ApprovalWindow)]
  BY LogTypes, GatewayConstants DEF Tick, TypeOK
<1>4. /\ approvals' \in [Keys -> ApprovalStates]
      /\ consentAge' \in [Keys -> 0 .. ApprovalCacheTtl]
  BY GatewayConstants DEF Tick, TypeOK, ApprovalStates
<1>5. QED
  BY <1>1, <1>2, <1>3, <1>4 DEF Tick, TypeOK, sockets

LEMMA NextTypes ==
  ASSUME TypeOK, [Next]_vars
  PROVE  TypeOK'
<1>1. CASE UNCHANGED vars
  BY <1>1 DEF vars, sockets, membership, limiters, consents, TypeOK
<1>2. ASSUME NEW c \in Clients, ClientStep(c)
      PROVE  TypeOK'
  BY <1>2, ConnectTypes, DisconnectTypes, StartJoinTypes, TouchPeerTypes
     DEF ClientStep, Heartbeat, RelaySignal, AnnounceShutdown
<1>3. ASSUME NEW j \in Calls, ResumeJoin(j)
      PROVE  TypeOK'
  BY <1>3, ReadSettingsTypes, CheckPasswordTypes, ResumeTypes DEF ResumeJoin
<1>4. ASSUME NEW j \in Calls, NEW approved \in BOOLEAN, HostAnswers(j, approved)
      PROVE  TypeOK'
  BY <1>4, HostAnswersTypes
<1>5. QED
  BY <1>1, <1>2, <1>3, <1>4, TimerTypes, TickTypes DEF Next

\* Every reachable state is well typed: no count goes below zero, no timer or
\* age leaves its range, no call is in an undeclared state.
THEOREM TypeCorrect == Spec => []TypeOK
<1>1. Init => TypeOK
  BY InitTypes
<1>2. TypeOK /\ [Next]_vars => TypeOK'
  BY NextTypes
<1>3. QED
  BY <1>1, <1>2, PTL DEF Spec

------------------------------------------------------------------------------
(* The roster: seats only disappear, or one seat passes assertCapacity.     *)

SeatAdded(rst, s, c, r) ==
  /\ CanAddPeer(rst, s, c, r)
  /\ roster' = AddPeer(rst, s, c, r)

RosterStep ==
  \/ roster' \subseteq roster
  \/ \E rst \in SUBSET roster, s \in SessionIds, c \in Clients, r \in Roles :
       SeatAdded(rst, s, c, r)

LEMMA TakeSeatSteps ==
  ASSUME NEW j, NEW cl \in PendingCalls, NEW rst \in SUBSET roster,
         NEW idl, NEW rms, NEW known, TakeSeat(j, cl, rst, idl, rms, known)
  PROVE  RosterStep
<1>1. cl.session \in SessionIds /\ cl.client \in Clients /\ cl.role \in Roles
  BY DEF PendingCalls
<1>2. \/ SeatAdded(rst, cl.session, cl.client, cl.role)
      \/ roster' = rst
  BY DEF TakeSeat, SeatAdded
<1>3. QED
  BY <1>1, <1>2 DEF RosterStep

LEMMA LeaveOldSessionSteps ==
  ASSUME NEW j, NEW cl \in PendingCalls, NEW rst \in SUBSET roster,
         NEW idl, NEW known, LeaveOldSession(j, cl, rst, idl, known)
  PROVE  RosterStep
<1>1. CASE TakeSeat(j, cl, rst, idl, rooms, known)
  BY <1>1, TakeSeatSteps
<1>2. CASE \E p \in SeatsOf(rst, cl.client) : roster' = rst \ {p}
  BY <1>2 DEF RosterStep
<1>3. QED
  BY <1>1, <1>2 DEF LeaveOldSession

LEMMA RosterSteps ==
  ASSUME TypeOK, [Next]_vars
  PROVE  RosterStep
<1>1. CASE UNCHANGED roster
  BY <1>1 DEF RosterStep
<1>2. ASSUME NEW c \in Clients, Connect(c)
      PROVE  RosterStep
  BY <1>1, <1>2 DEF Connect, membership
<1>3. ASSUME NEW c \in Clients, Disconnect(c)
      PROVE  RosterStep
  BY <1>3 DEF Disconnect, RosterStep
<1>4. LiveRoster \subseteq roster
  BY DEF LiveRoster
<1>5. ASSUME NEW j \in Calls, NEW c \in Clients, NEW s \in SessionIds, NEW r \in Roles,
             NEW pw \in Passwords \cup {NoPassword}, StartJoin(j, c, s, r, pw)
      PROVE  RosterStep
  <2>1. CASE CleanupExpiredPeers
    BY <1>4, <2>1 DEF CleanupExpiredPeers, RosterStep
  <2>2. CASE LeaveOldSession(j, NewCall(c, s, r, NoPassword),
                             LiveRoster, LiveIdle, LiveTold)
    BY <1>4, <2>2, NewCallTypes, LeaveOldSessionSteps
  <2>3. QED
    BY <1>5, <2>1, <2>2 DEF StartJoin
<1>6. ASSUME NEW j \in Calls, CheckPassword(j)
      PROVE  RosterStep
  <2>1. [call[j] EXCEPT !.password = NoPassword] \in PendingCalls
    BY <1>6 DEF CheckPassword, TypeOK, IdleCall, PendingCalls
  <2>2. QED
    BY <1>1, <1>6, <2>1, LeaveOldSessionSteps DEF CheckPassword, membership
<1>7. ASSUME NEW j \in Calls, NEW approved \in BOOLEAN, HostAnswers(j, approved)
      PROVE  RosterStep
  <2>1. call[j] \in PendingCalls
    BY <1>7 DEF HostAnswers, TypeOK, IdleCall
  <2>2. 0 \in 0 .. ApprovalTimeout
    BY GatewayConstants
  <2>3. [call[j] EXCEPT !.asked = {}, !.timeLeft = 0] \in PendingCalls
    BY <2>1, <2>2 DEF PendingCalls
  <2>4. QED
    BY <1>1, <1>7, <2>3, LeaveOldSessionSteps DEF HostAnswers, membership
<1>8. ASSUME NEW j \in Calls, ResumeAfterLeave(j)
      PROVE  RosterStep
  <2>1. call[j] \in PendingCalls
    BY <1>8 DEF ResumeAfterLeave, TypeOK, IdleCall
  <2>2. QED
    BY <1>8, <2>1, TakeSeatSteps DEF ResumeAfterLeave
<1>9. ASSUME NEW j \in Calls, ReadSettings(j) \/ ApprovalTimesOut(j) \/ FinishJoin(j)
      PROVE  RosterStep
  BY <1>1, <1>9 DEF ReadSettings, ApprovalTimesOut, FinishJoin, membership
<1>10. ASSUME NEW c \in Clients, NEW s \in SessionIds, TouchPeer(c, s)
       PROVE  RosterStep
  BY <1>1, <1>10 DEF TouchPeer
<1>11. CASE CleanupTimer
  BY <1>4, <1>11 DEF CleanupTimer, CleanupExpiredPeers, RosterStep
<1>12. CASE ChangeSettings \/ Tick \/ UNCHANGED vars
  BY <1>1, <1>12 DEF ChangeSettings, Tick, vars, membership
<1>13. QED
  BY <1>2, <1>3, <1>5, <1>6, <1>7, <1>8, <1>9, <1>10, <1>11, <1>12
     DEF Next, ClientStep, ResumeJoin, Heartbeat, RelaySignal, AnnounceShutdown

\* Two peers of one session never share a role, for any number of sockets,
\* sessions and overlapping joins.
THEOREM RolesAreUnique == Spec => []OneRolePerSession
<1>1. Init => OneRolePerSession
  BY DEF Init, OneRolePerSession
<1>2. ASSUME TypeOK, OneRolePerSession, [Next]_vars
      PROVE  OneRolePerSession'
  <2>1. CASE roster' \subseteq roster
    BY <1>2, <2>1 DEF OneRolePerSession
  <2>2. ASSUME NEW rst \in SUBSET roster, NEW s \in SessionIds, NEW c \in Clients,
               NEW r \in Roles, SeatAdded(rst, s, c, r)
        PROVE  OneRolePerSession'
    <3> DEFINE seat == [session |-> s, client |-> c, role |-> r]
    <3>1. ASSUME NEW p \in roster', p.session = s, p.role = r
          PROVE  p = seat
      BY <2>2, <3>1 DEF SeatAdded, CanAddPeer, AddPeer, PeersByRole, PeersOf
    <3>2. \A p \in roster' : p \in roster \/ p = seat
      BY <2>2 DEF SeatAdded, AddPeer
    <3>3. QED
      BY <1>2, <3>1, <3>2 DEF OneRolePerSession
  <2>3. QED
    BY <1>2, <2>1, <2>2, RosterSteps DEF RosterStep
<1>3. QED
  BY <1>1, <1>2, TypeCorrect, PTL DEF Spec

------------------------------------------------------------------------------
(* The capacity limits.                                                     *)

\* What assertCapacity needs to count: the roster is finite.
WithinLimits ==
  /\ IsFiniteSet(roster)
  /\ IsFiniteSet(OpenSessions(roster))
  /\ RosterWithinLimits

\* Dropping seats keeps a roster within its limits.
LEMMA FewerSeats ==
  ASSUME NEW big, IsFiniteSet(big), IsFiniteSet(OpenSessions(big)),
         NEW small \in SUBSET big
  PROVE  /\ IsFiniteSet(small) /\ Cardinality(small) <= Cardinality(big)
         /\ IsFiniteSet(OpenSessions(small))
         /\ Cardinality(OpenSessions(small)) <= Cardinality(OpenSessions(big))
         /\ \A s : /\ IsFiniteSet(PeersOf(small, s))
                   /\ Cardinality(PeersOf(small, s)) <= Cardinality(PeersOf(big, s))
<1>1. OpenSessions(small) \subseteq OpenSessions(big)
  BY DEF OpenSessions
<1>2. ASSUME NEW s
      PROVE  /\ IsFiniteSet(PeersOf(small, s))
             /\ Cardinality(PeersOf(small, s)) <= Cardinality(PeersOf(big, s))
  <2>1. PeersOf(big, s) \subseteq big /\ PeersOf(small, s) \subseteq PeersOf(big, s)
    BY DEF PeersOf
  <2>2. IsFiniteSet(PeersOf(big, s))
    BY <2>1, FS_Subset
  <2>3. QED
    BY <2>1, <2>2, FS_Subset
<1>3. QED
  BY <1>1, <1>2, FS_Subset

LEMMA OneMoreElement ==
  ASSUME NEW S, IsFiniteSet(S), NEW x
  PROVE  /\ IsFiniteSet(S \cup {x})
         /\ Cardinality(S) \in Nat /\ Cardinality(S \cup {x}) \in Nat
         /\ Cardinality(S \cup {x}) <= Cardinality(S) + 1
<1>1. IsFiniteSet(S \cup {x}) /\ Cardinality(S) \in Nat
  BY FS_AddElement, FS_CardinalityType
<1>2. Cardinality(S \cup {x}) = IF x \in S THEN Cardinality(S) ELSE Cardinality(S) + 1
  BY FS_AddElement
<1>3. QED
  BY <1>1, <1>2, FS_CardinalityType

\* addPeer after assertCapacity keeps the roster within its limits.
LEMMA OneMoreSeat ==
  ASSUME NEW rst, IsFiniteSet(rst), IsFiniteSet(OpenSessions(rst)),
         \A x \in SessionIds : Cardinality(PeersOf(rst, x)) <= MaxPeersPerSession,
         Cardinality(OpenSessions(rst)) <= MaxSessions,
         Cardinality(rst) <= MaxTotalPeers,
         NEW s \in SessionIds, NEW c \in Clients, NEW r \in Roles,
         SeatAdded(rst, s, c, r)
  PROVE  WithinLimits'
<1> DEFINE seat == [session |-> s, client |-> c, role |-> r]
           own == {p \in rst : p.session = s /\ p.client = c}
           rest == rst \ own
<1>1. roster' = rest \cup {seat}
  BY DEF SeatAdded, AddPeer
<1>2. /\ IsFiniteSet(rest)
      /\ Cardinality(rest) <= Cardinality(rst)
      /\ Cardinality(rest) \in Nat /\ Cardinality(rst) \in Nat
  <2>1. rest \in SUBSET rst
    OBVIOUS
  <2>2. QED
    BY <2>1, FS_Subset, FS_CardinalityType
<1>3. IsFiniteSet(roster') /\ Cardinality(roster') <= MaxTotalPeers
  <2>1. IsFiniteSet(roster') /\ Cardinality(roster') <= Cardinality(rest) + 1
    BY <1>1, <1>2, OneMoreElement
  <2>2. CASE HasSeat(rst, s, c)
    <3>1. PICK p \in rst : p \in own
      BY <2>2 DEF HasSeat
    <3>2. rest \in SUBSET (rst \ {p})
      BY <3>1
    <3>3. IsFiniteSet(rst \ {p}) /\ Cardinality(rst \ {p}) = Cardinality(rst) - 1
      BY <3>1, FS_RemoveElement
    <3>4. Cardinality(rest) <= Cardinality(rst) - 1
      BY <3>2, <3>3, FS_Subset
    <3>5. QED
      BY <1>2, <2>1, <3>4, SessionLimits, FS_CardinalityType
  <2>3. CASE ~HasSeat(rst, s, c)
    <3>1. Cardinality(rst) < MaxTotalPeers
      BY <2>3 DEF SeatAdded, CanAddPeer
    <3>2. QED
      BY <1>2, <2>1, <3>1, SessionLimits, FS_CardinalityType
  <2>4. QED
    BY <2>2, <2>3
<1>4. /\ IsFiniteSet(OpenSessions(roster'))
      /\ Cardinality(OpenSessions(roster')) <= MaxSessions
  <2>1. OpenSessions(roster') \subseteq OpenSessions(rst) \cup {s}
    BY <1>1 DEF OpenSessions
  <2>2. /\ IsFiniteSet(OpenSessions(rst) \cup {s})
        /\ Cardinality(OpenSessions(rst) \cup {s}) <= MaxSessions
    <3>1. CASE s \in OpenSessions(rst)
      <4>1. OpenSessions(rst) \cup {s} = OpenSessions(rst)
        BY <3>1
      <4>2. QED
        BY <4>1
    <3>2. CASE s \notin OpenSessions(rst)
      <4>1. PeersOf(rst, s) = {}
        BY <3>2 DEF PeersOf, OpenSessions
      <4>2. Cardinality(OpenSessions(rst)) < MaxSessions
        BY <4>1 DEF SeatAdded, CanAddPeer
      <4>3. /\ IsFiniteSet(OpenSessions(rst) \cup {s})
            /\ Cardinality(OpenSessions(rst)) \in Nat
            /\ Cardinality(OpenSessions(rst) \cup {s}) \in Nat
            /\ Cardinality(OpenSessions(rst) \cup {s}) <= Cardinality(OpenSessions(rst)) + 1
        BY OneMoreElement
      <4>4. QED
        BY <4>2, <4>3, SessionLimits
    <3>3. QED
      BY <3>1, <3>2
  <2>3. QED
    BY <2>1, <2>2, FS_Subset, FS_CardinalityType, SessionLimits
<1>5. ASSUME NEW x \in SessionIds
      PROVE  Cardinality(PeersOf(roster', x)) <= MaxPeersPerSession
  <2>1. PeersOf(rst, x) \subseteq rst
    BY DEF PeersOf
  <2>2. /\ IsFiniteSet(PeersOf(rst, x))
        /\ Cardinality(PeersOf(rst, x)) \in Nat
    BY <2>1, FS_Subset, FS_CardinalityType
  <2>3. CASE x # s
    <3>1. PeersOf(roster', x) \subseteq PeersOf(rst, x)
      BY <1>1, <2>3 DEF PeersOf
    <3>2. QED
      BY <2>2, <3>1, FS_Subset, FS_CardinalityType, SessionLimits
  <2>4. CASE x = s /\ HasSeat(rst, s, c)
    <3>1. PICK p \in PeersOf(rst, x) : p.client = c
      BY <2>4 DEF HasSeat, PeersOf
    <3>2. PeersOf(roster', x) \subseteq (PeersOf(rst, x) \ {p}) \cup {seat}
      BY <1>1, <2>4, <3>1 DEF PeersOf
    <3>3. /\ IsFiniteSet(PeersOf(rst, x) \ {p})
          /\ Cardinality(PeersOf(rst, x) \ {p}) = Cardinality(PeersOf(rst, x)) - 1
      BY <2>2, <3>1, FS_RemoveElement
    <3>4. /\ IsFiniteSet((PeersOf(rst, x) \ {p}) \cup {seat})
          /\ Cardinality((PeersOf(rst, x) \ {p}) \cup {seat}) <= Cardinality(PeersOf(rst, x))
      <4> DEFINE others == PeersOf(rst, x) \ {p}
      <4>1. IsFiniteSet(others) /\ Cardinality(others) = Cardinality(PeersOf(rst, x)) - 1
        BY <3>3
      <4> HIDE DEF others
      <4>2. /\ IsFiniteSet(others \cup {seat})
            /\ Cardinality(others) \in Nat /\ Cardinality(others \cup {seat}) \in Nat
            /\ Cardinality(others \cup {seat}) <= Cardinality(others) + 1
        BY <4>1, OneMoreElement
      <4>3. QED
        BY <2>2, <4>1, <4>2 DEF others
    <3>5. Cardinality(PeersOf(roster', x)) <= Cardinality(PeersOf(rst, x))
      BY <2>2, <3>2, <3>4, FS_Subset, FS_CardinalityType
    <3>6. QED
      BY <2>2, <3>5, SessionLimits, <3>4, <3>2, FS_Subset, FS_CardinalityType
  <2>5. CASE x = s /\ ~HasSeat(rst, s, c)
    <3>1. Cardinality(PeersOf(rst, x)) < MaxPeersPerSession
      BY <2>5 DEF SeatAdded, CanAddPeer
    <3>2. PeersOf(roster', x) \subseteq PeersOf(rst, x) \cup {seat}
      BY <1>1 DEF PeersOf
    <3>3. /\ IsFiniteSet(PeersOf(rst, x) \cup {seat})
          /\ Cardinality(PeersOf(rst, x) \cup {seat}) <= MaxPeersPerSession
      <4>1. /\ IsFiniteSet(PeersOf(rst, x) \cup {seat})
            /\ Cardinality(PeersOf(rst, x) \cup {seat}) \in Nat
            /\ Cardinality(PeersOf(rst, x) \cup {seat}) <= Cardinality(PeersOf(rst, x)) + 1
        BY <2>2, OneMoreElement
      <4>2. QED
        BY <2>2, <3>1, <4>1, SessionLimits
    <3>4. QED
      BY <3>2, <3>3, FS_Subset, FS_CardinalityType, SessionLimits
  <2>6. QED
    BY <2>3, <2>4, <2>5
<1>6. QED
  BY <1>3, <1>4, <1>5 DEF WithinLimits, RosterWithinLimits

\* The three capacity limits of SessionsService hold in every reachable state.
THEOREM LimitsHold == Spec => []RosterWithinLimits
<1>1. Init => WithinLimits
  <2> SUFFICES ASSUME Init PROVE WithinLimits
    OBVIOUS
  <2>1. roster = {} /\ OpenSessions(roster) = {} /\ \A s : PeersOf(roster, s) = {}
    BY DEF Init, OpenSessions, PeersOf
  <2>2. IsFiniteSet({}) /\ Cardinality({}) = 0
    BY FS_EmptySet
  <2>3. QED
    BY <2>1, <2>2, SessionLimits DEF WithinLimits, RosterWithinLimits
<1>2. ASSUME TypeOK, WithinLimits, [Next]_vars
      PROVE  WithinLimits'
  <2>1. ASSUME NEW rst \in SUBSET roster
        PROVE  /\ IsFiniteSet(rst) /\ IsFiniteSet(OpenSessions(rst))
               /\ \A s \in SessionIds : Cardinality(PeersOf(rst, s)) <= MaxPeersPerSession
               /\ Cardinality(OpenSessions(rst)) <= MaxSessions
               /\ Cardinality(rst) <= MaxTotalPeers
    <3>1. /\ IsFiniteSet(rst) /\ Cardinality(rst) <= Cardinality(roster)
          /\ IsFiniteSet(OpenSessions(rst))
          /\ Cardinality(OpenSessions(rst)) <= Cardinality(OpenSessions(roster))
          /\ \A s : /\ IsFiniteSet(PeersOf(rst, s))
                    /\ Cardinality(PeersOf(rst, s)) <= Cardinality(PeersOf(roster, s))
      BY <1>2, FewerSeats DEF WithinLimits
    <3>2. /\ Cardinality(roster) \in Nat /\ Cardinality(rst) \in Nat
          /\ Cardinality(OpenSessions(roster)) \in Nat
          /\ Cardinality(OpenSessions(rst)) \in Nat
      BY <1>2, <3>1, FS_CardinalityType DEF WithinLimits
    <3>3. ASSUME NEW s \in SessionIds
          PROVE  Cardinality(PeersOf(rst, s)) <= MaxPeersPerSession
      <4>1. PeersOf(roster, s) \subseteq roster
        BY DEF PeersOf
      <4>2. /\ Cardinality(PeersOf(roster, s)) \in Nat
            /\ Cardinality(PeersOf(rst, s)) \in Nat
        BY <1>2, <3>1, <4>1, FS_Subset, FS_CardinalityType DEF WithinLimits
      <4>3. QED
        BY <1>2, <3>1, <4>2, SessionLimits DEF WithinLimits, RosterWithinLimits
    <3>4. QED
      BY <1>2, <3>1, <3>2, <3>3, SessionLimits DEF WithinLimits, RosterWithinLimits
  <2>2. CASE roster' \subseteq roster
    BY <2>1, <2>2 DEF WithinLimits, RosterWithinLimits
  <2>3. ASSUME NEW rst \in SUBSET roster, NEW s \in SessionIds, NEW c \in Clients,
               NEW r \in Roles, SeatAdded(rst, s, c, r)
        PROVE  WithinLimits'
    BY <2>1, <2>3, OneMoreSeat
  <2>4. QED
    BY <1>2, <2>2, <2>3, RosterSteps DEF RosterStep
<1>3. QED
  BY <1>1, <1>2, TypeCorrect, PTL DEF Spec, WithinLimits

------------------------------------------------------------------------------
(* Connection slots.                                                        *)

LEMMA SocketSteps ==
  ASSUME [Next]_vars
  PROVE  \/ UNCHANGED sockets
         \/ \E c \in Clients : Connect(c) \/ Disconnect(c)
<1>1. ASSUME NEW c \in Clients, ClientStep(c)
      PROVE  UNCHANGED sockets \/ Connect(c) \/ Disconnect(c)
  BY <1>1 DEF ClientStep, StartJoin, Heartbeat, RelaySignal, AnnounceShutdown, TouchPeer
<1>2. ASSUME NEW j \in Calls, ResumeJoin(j)
      PROVE  UNCHANGED sockets
  BY <1>2 DEF ResumeJoin, ReadSettings, CheckPassword, ApprovalTimesOut,
              ResumeAfterLeave, FinishJoin
<1>3. ASSUME NEW j \in Calls, NEW approved \in BOOLEAN, HostAnswers(j, approved)
      PROVE  UNCHANGED sockets
  BY <1>3 DEF HostAnswers
<1>4. CASE CleanupTimer \/ ChangeSettings \/ Tick \/ UNCHANGED vars
  BY <1>4 DEF CleanupTimer, ChangeSettings, Tick, vars
<1>5. QED
  BY <1>1, <1>2, <1>3, <1>4 DEF Next

\* The per-address counters are exactly the sockets connected from there and
\* never exceed the limit, however often sockets come and go.
THEOREM SlotsAreExact == Spec => []SlotsMatchSockets
<1>1. Init => SlotsMatchSockets
  <2> SUFFICES ASSUME Init, NEW a \in Addresses
               PROVE  /\ connectionCounts[a] = Cardinality(SocketsFrom(a))
                      /\ connectionCounts[a] <= MaxConnectionsPerAddress
    BY DEF SlotsMatchSockets
  <2>1. SocketsFrom(a) = {} /\ connectionCounts[a] = 0
    BY DEF Init, SocketsFrom
  <2>2. QED
    BY <2>1, FS_EmptySet, GatewayConstants
<1>2. ASSUME TypeOK, SlotsMatchSockets, [Next]_vars
      PROVE  SlotsMatchSockets'
  <2>1. ASSUME NEW a \in Addresses
        PROVE  /\ IsFiniteSet(SocketsFrom(a))
               /\ connectionCounts[a] = Cardinality(SocketsFrom(a))
               /\ connectionCounts[a] \in Nat
               /\ connectionCounts[a] <= MaxConnectionsPerAddress
    <3>1. SocketsFrom(a) \subseteq Clients
      BY <1>2 DEF SocketsFrom, TypeOK
    <3>2. QED
      BY <1>2, <3>1, FS_Subset, GatewayConstants DEF SlotsMatchSockets, TypeOK
  <2>2. CASE UNCHANGED sockets
    BY <1>2, <2>2 DEF sockets, SlotsMatchSockets, SocketsFrom
  <2>3. ASSUME NEW c \in Clients, Connect(c), NEW a \in Addresses
        PROVE  /\ connectionCounts'[a] = Cardinality(SocketsFrom(a)')
               /\ connectionCounts'[a] <= MaxConnectionsPerAddress
    <3>1. CASE a = AddressOf[c]
      <4>1. SocketsFrom(a)' = SocketsFrom(a) \cup {c} /\ c \notin SocketsFrom(a)
        BY <2>3, <3>1 DEF Connect, SocketsFrom
      <4>2. /\ connectionCounts'[a] = connectionCounts[a] + 1
            /\ connectionCounts[a] + 1 <= MaxConnectionsPerAddress
        BY <1>2, <2>3, <3>1 DEF Connect, TypeOK
      <4>3. Cardinality(SocketsFrom(a) \cup {c}) = Cardinality(SocketsFrom(a)) + 1
        BY <2>1, <4>1, FS_AddElement
      <4>4. QED
        BY <2>1, <4>1, <4>2, <4>3
    <3>2. CASE a # AddressOf[c]
      <4>1. SocketsFrom(a)' = SocketsFrom(a)
        BY <2>3, <3>2 DEF Connect, SocketsFrom
      <4>2. connectionCounts'[a] = connectionCounts[a]
        BY <1>2, <2>3, <3>2 DEF Connect, TypeOK
      <4>3. QED
        BY <2>1, <4>1, <4>2
    <3>3. QED
      BY <3>1, <3>2
  <2>4. ASSUME NEW c \in Clients, Disconnect(c), NEW a \in Addresses
        PROVE  /\ connectionCounts'[a] = Cardinality(SocketsFrom(a)')
               /\ connectionCounts'[a] <= MaxConnectionsPerAddress
    <3>1. CASE a = AddressOf[c]
      <4>1. SocketsFrom(a)' = SocketsFrom(a) \ {c} /\ c \in SocketsFrom(a)
        BY <2>4, <3>1 DEF Disconnect, SocketsFrom
      <4>2. connectionCounts'[a] = Decrement(connectionCounts[a])
        BY <1>2, <2>4, <3>1 DEF Disconnect, ReleaseClientAddress, TypeOK
      <4>3. /\ IsFiniteSet(SocketsFrom(a) \ {c})
            /\ Cardinality(SocketsFrom(a) \ {c}) = Cardinality(SocketsFrom(a)) - 1
        BY <2>1, <4>1, FS_RemoveElement
      <4>4. Cardinality(SocketsFrom(a) \ {c}) \in Nat
        BY <4>3, FS_CardinalityType
      <4>5. QED
        BY <2>1, <4>1, <4>2, <4>3, <4>4, GatewayConstants DEF Decrement
    <3>2. CASE a # AddressOf[c]
      <4>1. SocketsFrom(a)' = SocketsFrom(a)
        BY <2>4, <3>2 DEF Disconnect, SocketsFrom
      <4>2. connectionCounts'[a] = connectionCounts[a]
        BY <1>2, <2>4, <3>2 DEF Disconnect, ReleaseClientAddress, TypeOK
      <4>3. QED
        BY <2>1, <4>1, <4>2
    <3>3. QED
      BY <3>1, <3>2
  <2>5. QED
    BY <1>2, <2>2, <2>3, <2>4, SocketSteps DEF SlotsMatchSockets
<1>3. QED
  BY <1>1, <1>2, TypeCorrect, PTL DEF Spec

------------------------------------------------------------------------------
(* Consent.                                                                 *)

\* The approval cache knows exactly the consents younger than its TTL: this
\* ties the code's expiry times to the history of what the hosts said.
CacheKnowsConsent ==
  \A key \in Keys :
    \/ /\ consentAge[key] < ApprovalCacheTtl
       /\ approvals[key] = ApprovalCacheTtl + 1 - consentAge[key]
    \/ /\ consentAge[key] = ApprovalCacheTtl
       /\ approvals[key] \in {0, 1}

\* The steps that touch the approval cache.
LEMMA ConsentSteps ==
  ASSUME TypeOK, [Next]_vars
  PROVE  \/ UNCHANGED consents
         \/ \E key \in Keys : MarkApproved(key)
         \/ \E key \in Keys : /\ ~IsRecentlyApproved(key)
                              /\ approvals' = [approvals EXCEPT ![key] = 0]
                              /\ UNCHANGED consentAge
         \/ CleanupExpiredApprovals /\ UNCHANGED consentAge
         \/ Tick
<1> DEFINE Goal == \/ UNCHANGED consents
                   \/ \E key \in Keys : MarkApproved(key)
                   \/ \E key \in Keys : /\ ~IsRecentlyApproved(key)
                                        /\ approvals' = [approvals EXCEPT ![key] = 0]
                                        /\ UNCHANGED consentAge
<1>1. ASSUME NEW c \in Clients, ClientStep(c)
      PROVE  UNCHANGED consents
  BY <1>1 DEF ClientStep, Connect, Disconnect, StartJoin, Heartbeat, RelaySignal,
              AnnounceShutdown, TouchPeer
<1>2. ASSUME NEW j \in Calls, CheckPassword(j)
      PROVE  Goal
  <2> DEFINE cl == [call[j] EXCEPT !.password = NoPassword]
  <2>1. cl \in PendingCalls
    BY <1>2 DEF CheckPassword, TypeOK, IdleCall, PendingCalls
  <2>2. KeyOf(cl) \in Keys
    BY <2>1, KeyTypes
  <2> HIDE DEF cl
  <2>3. \/ UNCHANGED consents
        \/ /\ ~IsRecentlyApproved(KeyOf(cl))
           /\ approvals' = [approvals EXCEPT ![KeyOf(cl)] = 0]
           /\ UNCHANGED consentAge
    BY <1>2 DEF CheckPassword, consents, cl
  <2>4. QED
    BY <2>2, <2>3
<1>3. ASSUME NEW j \in Calls, NEW approved \in BOOLEAN, HostAnswers(j, approved)
      PROVE  Goal
  <2> DEFINE cl == [call[j] EXCEPT !.asked = {}, !.timeLeft = 0]
  <2>1. call[j] \in PendingCalls
    BY <1>3 DEF HostAnswers, TypeOK, IdleCall
  <2>2. cl.client = call[j].client /\ cl.session = call[j].session
    BY <2>1 DEF PendingCalls
  <2>3. KeyOf(cl) \in Keys
    BY <2>1, <2>2, KeyTypes DEF KeyOf
  <2> HIDE DEF cl
  <2>4. MarkApproved(KeyOf(cl)) \/ UNCHANGED consents
    BY <1>3 DEF HostAnswers, cl
  <2>5. QED
    BY <2>3, <2>4
<1>4. ASSUME NEW j \in Calls,
             ReadSettings(j) \/ ApprovalTimesOut(j) \/ ResumeAfterLeave(j) \/ FinishJoin(j)
      PROVE  UNCHANGED consents
  BY <1>4 DEF ReadSettings, ApprovalTimesOut, ResumeAfterLeave, FinishJoin
<1>5. CASE CleanupTimer
  BY <1>5 DEF CleanupTimer
<1>6. CASE ChangeSettings \/ UNCHANGED vars
  BY <1>6 DEF ChangeSettings, vars
<1>7. QED
  BY <1>1, <1>2, <1>3, <1>4, <1>5, <1>6 DEF Next, ResumeJoin

LEMMA CacheInvariant == Spec => []CacheKnowsConsent
<1>1. Init => CacheKnowsConsent
  BY GatewayConstants DEF Init, CacheKnowsConsent
<1>2. ASSUME TypeOK, CacheKnowsConsent, [Next]_vars
      PROVE  CacheKnowsConsent'
  <2>1. CASE UNCHANGED consents
    BY <1>2, <2>1 DEF consents, CacheKnowsConsent
  <2>2. ASSUME NEW key \in Keys, MarkApproved(key)
        PROVE  CacheKnowsConsent'
    BY <1>2, <2>2, GatewayConstants DEF MarkApproved, CacheKnowsConsent, TypeOK
  <2>3. ASSUME NEW key \in Keys, ~IsRecentlyApproved(key),
               approvals' = [approvals EXCEPT ![key] = 0], UNCHANGED consentAge
        PROVE  CacheKnowsConsent'
    <3>1. approvals[key] <= 1
      BY <1>2, <2>3, GatewayConstants DEF IsRecentlyApproved, TypeOK, ApprovalStates
    <3>2. QED
      BY <1>2, <2>3, <3>1, GatewayConstants DEF CacheKnowsConsent, TypeOK
  <2>4. CASE CleanupExpiredApprovals /\ UNCHANGED consentAge
    BY <1>2, <2>4, GatewayConstants DEF CleanupExpiredApprovals, CacheKnowsConsent, TypeOK
  <2>5. CASE Tick
    BY <1>2, <2>5, GatewayConstants DEF Tick, CacheKnowsConsent, TypeOK
  <2>6. QED
    BY <1>2, <2>1, <2>2, <2>3, <2>4, <2>5, ConsentSteps
<1>3. QED
  BY <1>1, <1>2, TypeCorrect, PTL DEF Spec

\* A step changes the state of at most one join, except that time runs out
\* for all that wait for an approval.
LEMMA CallSteps ==
  ASSUME TypeOK, [Next]_vars, NEW j \in Calls, call'[j] # call[j]
  PROVE  \/ \E c \in Clients, s \in SessionIds, r \in Roles,
               pw \in Passwords \cup {NoPassword} : StartJoin(j, c, s, r, pw)
         \/ ResumeJoin(j)
         \/ \E approved \in BOOLEAN : HostAnswers(j, approved)
         \/ Tick
<1>1. \A k \in Calls : \A cl : call' = [call EXCEPT ![k] = cl] => k = j
  BY DEF TypeOK
<1>2. \A k \in Calls : EndCall(k) => k = j
  BY <1>1 DEF EndCall
<1>3. \A k \in Calls : \A cl, rst, idl, rms, known :
        TakeSeat(k, cl, rst, idl, rms, known) => k = j
  BY <1>1, <1>2 DEF TakeSeat
<1>4. \A k \in Calls : \A cl, rst, idl, known :
        LeaveOldSession(k, cl, rst, idl, known) => k = j
  BY <1>1, <1>3 DEF LeaveOldSession
<1>5. \A k \in Calls : \A cl : RequestApproval(k, cl) => k = j
  BY <1>1, <1>2 DEF RequestApproval
<1>6. \A k \in Calls, c \in Clients, s \in SessionIds, r \in Roles,
         pw \in Passwords \cup {NoPassword} : StartJoin(k, c, s, r, pw) => k = j
  BY <1>1, <1>4 DEF StartJoin
<1>7. \A k \in Calls : ResumeJoin(k) => k = j
  <2>1. \A k \in Calls : ReadSettings(k) => k = j
    BY <1>1, <1>2 DEF ReadSettings
  <2>2. \A k \in Calls : CheckPassword(k) => k = j
    BY <1>2, <1>4, <1>5 DEF CheckPassword
  <2>3. \A k \in Calls : ApprovalTimesOut(k) \/ FinishJoin(k) => k = j
    BY <1>2 DEF ApprovalTimesOut, FinishJoin
  <2>4. \A k \in Calls : ResumeAfterLeave(k) => k = j
    BY <1>3 DEF ResumeAfterLeave
  <2>5. QED
    BY <2>1, <2>2, <2>3, <2>4 DEF ResumeJoin
<1>8. \A k \in Calls, approved \in BOOLEAN : HostAnswers(k, approved) => k = j
  BY <1>2, <1>4 DEF HostAnswers
<1>9. ~(CleanupTimer \/ ChangeSettings \/ UNCHANGED vars)
  BY DEF CleanupTimer, ChangeSettings, vars
<1>10. ASSUME NEW c \in Clients,
              Connect(c) \/ Disconnect(c)
                \/ \E s \in SessionIds : TouchPeer(c, s)
       PROVE  FALSE
  BY <1>10 DEF Connect, Disconnect, TouchPeer
<1>11. QED
  BY <1>6, <1>7, <1>8, <1>9, <1>10
     DEF Next, ClientStep, Heartbeat, RelaySignal, AnnounceShutdown

\* What a join that gives up its old seat or takes the new one becomes.
LEMMA SeatedCall ==
  ASSUME TypeOK, NEW j \in Calls, NEW cl \in PendingCalls, NEW rst, NEW idl, NEW known,
         LeaveOldSession(j, cl, rst, idl, known)
  PROVE  \/ call'[j].pc = "idle"
         \/ /\ call'[j].pc \in {"leaving", "joining"}
            /\ call'[j].needsApproval = cl.needsApproval
<1>1. \A x : call' = [call EXCEPT ![j] = x] => call'[j] = x
  BY DEF TypeOK
<1>2. EndCall(j) => call'[j].pc = "idle"
  BY DEF EndCall, IdleCall, TypeOK
<1>3. \A rms : TakeSeat(j, cl, rst, idl, rms, known) =>
        \/ call'[j].pc = "idle"
        \/ /\ call'[j].pc \in {"leaving", "joining"}
           /\ call'[j].needsApproval = cl.needsApproval
  BY <1>1, <1>2 DEF TakeSeat, PendingCalls
<1>4. QED
  BY <1>1, <1>3 DEF LeaveOldSession, PendingCalls

\* What RequestApproval leaves of the call, and when CheckPassword asks.
LEMMA AskedCall ==
  ASSUME TypeOK, NEW j \in Calls, NEW cl \in PendingCalls, RequestApproval(j, cl)
  PROVE  call'[j].pc \in {"idle", "approval"}
<1>1. \A x : call' = [call EXCEPT ![j] = x] => call'[j] = x
  BY DEF TypeOK
<1>2. EndCall(j) => call'[j].pc = "idle"
  BY DEF EndCall, IdleCall, TypeOK
<1>3. QED
  BY <1>1, <1>2 DEF RequestApproval, PendingCalls

\* The consent properties hold in a step from a state in which the cache knows
\* the consents.
LEMMA ConsentStep ==
  ASSUME TypeOK, CacheKnowsConsent, [Next]_vars, NEW j \in Calls
  PROVE  /\ PassesApproval(j) /\ call'[j].needsApproval
              => consentAge'[KeyOf(call[j])] < ApprovalCacheTtl
         /\ call[j].pc # "approval" /\ call'[j].pc = "approval"
              => consentAge[KeyOf(call[j])] = ApprovalCacheTtl
<1> DEFINE Goal == /\ PassesApproval(j) /\ call'[j].needsApproval
                        => consentAge'[KeyOf(call[j])] < ApprovalCacheTtl
                   /\ call[j].pc # "approval" /\ call'[j].pc = "approval"
                        => consentAge[KeyOf(call[j])] = ApprovalCacheTtl
<1>1. CASE call'[j] = call[j]
  BY <1>1 DEF PassesApproval
<1>2. ASSUME NEW c \in Clients, NEW s \in SessionIds, NEW r \in Roles,
             NEW pw \in Passwords \cup {NoPassword}, StartJoin(j, c, s, r, pw)
      PROVE  Goal
  <2>1. call[j].pc = "idle" /\ ~PassesApproval(j)
    BY <1>2 DEF StartJoin, Pending, PassesApproval
  <2>2. \A x : call' = [call EXCEPT ![j] = x] => call'[j] = x
    BY DEF TypeOK
  <2>3. NewCall(c, s, r, NoPassword) \in PendingCalls
    BY NewCallTypes
  <2>4. LeaveOldSession(j, NewCall(c, s, r, NoPassword), LiveRoster, LiveIdle, LiveTold)
          => call'[j].pc # "approval"
    BY <2>3, SeatedCall
  <2>5. call'[j].pc # "approval"
    BY <1>2, <2>1, <2>2, <2>4 DEF StartJoin, NewCall
  <2>6. QED
    BY <2>1, <2>5
<1>3. CASE CheckPassword(j)
  <2> DEFINE cl == [call[j] EXCEPT !.password = NoPassword]
             key == KeyOf(cl)
  <2>1. call[j] \in PendingCalls
    BY <1>3 DEF CheckPassword, TypeOK, IdleCall
  <2>2. cl \in PendingCalls /\ key = KeyOf(call[j])
    BY <2>1 DEF PendingCalls, KeyOf
  <2>3. key \in Keys
    BY <2>2, KeyTypes
  <2> HIDE DEF cl, key
  <2>4. CASE EndCall(j)
    <3>1. call'[j].pc = "idle"
      BY <2>4 DEF EndCall, IdleCall, TypeOK
    <3>2. QED
      BY <3>1 DEF PassesApproval
  <2>5. CASE ~IsRecentlyApproved(key) /\ RequestApproval(j, cl)
    <3>1. call'[j].pc \in {"idle", "approval"}
      BY <2>2, <2>5, AskedCall
    <3>2. consentAge[key] = ApprovalCacheTtl
      BY <2>3, <2>5, GatewayConstants
         DEF CacheKnowsConsent, IsRecentlyApproved, TypeOK, ApprovalStates
    <3>3. QED
      BY <2>2, <3>1, <3>2 DEF PassesApproval
  <2>6. CASE /\ cl.needsApproval => IsRecentlyApproved(key)
             /\ LeaveOldSession(j, cl, roster, idle, told)
             /\ UNCHANGED consentAge
    <3>1. \/ call'[j].pc = "idle"
          \/ /\ call'[j].pc \in {"leaving", "joining"}
             /\ call'[j].needsApproval = cl.needsApproval
      BY <2>2, <2>6, SeatedCall
    <3>2. IsRecentlyApproved(key) => consentAge[key] < ApprovalCacheTtl
      BY <2>3, GatewayConstants
         DEF CacheKnowsConsent, IsRecentlyApproved, TypeOK, ApprovalStates
    <3>3. QED
      BY <2>2, <2>6, <3>1, <3>2 DEF PassesApproval
  <2>7. QED
    BY <1>3, <2>4, <2>5, <2>6 DEF CheckPassword, cl, key
<1>4. ASSUME NEW approved \in BOOLEAN, HostAnswers(j, approved)
      PROVE  Goal
  <2> DEFINE cl == [call[j] EXCEPT !.asked = {}, !.timeLeft = 0]
  <2>1. call[j] \in PendingCalls /\ call[j].pc = "approval"
    BY <1>4 DEF HostAnswers, TypeOK, IdleCall
  <2>2. KeyOf(cl) = KeyOf(call[j]) /\ KeyOf(call[j]) \in Keys
    BY <2>1, KeyTypes DEF PendingCalls, KeyOf
  <2> HIDE DEF cl
  <2>3. MarkApproved(KeyOf(cl)) => consentAge'[KeyOf(call[j])] < ApprovalCacheTtl
    BY <2>2, GatewayConstants DEF MarkApproved, TypeOK
  <2>4. EndCall(j) => call'[j].pc = "idle"
    BY DEF EndCall, IdleCall, TypeOK
  <2>5. QED
    BY <1>4, <2>1, <2>3, <2>4 DEF HostAnswers, PassesApproval, cl
<1>5. CASE ReadSettings(j) \/ ApprovalTimesOut(j) \/ ResumeAfterLeave(j) \/ FinishJoin(j)
  <2>1. EndCall(j) => call'[j].pc = "idle"
    BY DEF EndCall, IdleCall, TypeOK
  <2>2. CASE ReadSettings(j)
    <3>1. call[j] \in PendingCalls /\ call[j].pc = "settings"
      BY <2>2 DEF ReadSettings, TypeOK, IdleCall
    <3>2. [call[j] EXCEPT !.pc = "password",
                          !.needsApproval = settings.requireApproval].pc = "password"
      BY <3>1 DEF PendingCalls
    <3>3. call'[j].pc \in {"idle", "password"}
      BY <2>1, <2>2, <3>2 DEF ReadSettings, TypeOK
    <3>4. QED
      BY <3>1, <3>3 DEF PassesApproval
  <2>3. CASE ApprovalTimesOut(j) \/ FinishJoin(j)
    BY <2>1, <2>3 DEF ApprovalTimesOut, FinishJoin, PassesApproval
  <2>4. CASE ResumeAfterLeave(j)
    <3>1. call[j] \in PendingCalls /\ call[j].pc = "leaving"
      BY <2>4 DEF ResumeAfterLeave, TypeOK, IdleCall
    <3>2. \A peers : [call[j] EXCEPT !.pc = "joining", !.existing = peers].pc = "joining"
      BY <3>1 DEF PendingCalls
    <3>3. \/ EndCall(j)
          \/ \E peers : call' = [call EXCEPT ![j] =
               [call[j] EXCEPT !.pc = "joining", !.existing = peers]]
      BY <2>4 DEF ResumeAfterLeave, TakeSeat
    <3>4. \A x : call' = [call EXCEPT ![j] = x] => call'[j] = x
      BY DEF TypeOK
    <3>5. call'[j].pc \in {"idle", "joining"}
      BY <2>1, <3>2, <3>3, <3>4
    <3>6. QED
      BY <3>1, <3>5 DEF PassesApproval
  <2>5. QED
    BY <1>5, <2>2, <2>3, <2>4
<1>6. CASE Tick
  <2>1. CASE call[j].pc = "approval"
    <3>1. call[j] \in PendingCalls
      BY <2>1 DEF TypeOK, IdleCall
    <3>2. call'[j].pc = "approval"
      BY <1>6, <2>1, <3>1 DEF Tick, PendingCalls
    <3>3. QED
      BY <2>1, <3>2 DEF PassesApproval
  <2>2. CASE call[j].pc # "approval"
    BY <1>1, <1>6, <2>2 DEF Tick
  <2>3. QED
    BY <2>1, <2>2
<1>7. QED
  BY <1>1, <1>2, <1>3, <1>4, <1>5, <1>6, CallSteps DEF ResumeJoin

\* A viewer that needed the host's approval is let in only on a consent for its
\* address and session that is younger than the cache TTL, in every execution.
THEOREM ConsentIsRespected == Spec => ConsentRespected
<1>1. ASSUME TypeOK, CacheKnowsConsent, [Next]_vars
      PROVE  [\A j \in Calls : PassesApproval(j) /\ call'[j].needsApproval
                => consentAge'[KeyOf(call[j])] < ApprovalCacheTtl]_vars
  BY <1>1, ConsentStep
<1>2. QED
  BY <1>1, TypeCorrect, CacheInvariant, PTL DEF Spec, ConsentRespected

\* The host is never asked again while its last consent is still fresh.
THEOREM NoRepromptWhileFresh == Spec => NoReprompt
<1>1. ASSUME TypeOK, CacheKnowsConsent, [Next]_vars
      PROVE  [\A j \in Calls : call[j].pc # "approval" /\ call'[j].pc = "approval"
                => consentAge[KeyOf(call[j])] = ApprovalCacheTtl]_vars
  BY <1>1, ConsentStep
<1>2. QED
  BY <1>1, TypeCorrect, CacheInvariant, PTL DEF Spec, NoReprompt

------------------------------------------------------------------------------
(* One seat per socket.                                                     *)

JoinsAgreed ==
  \A j, k \in Calls :
    Pending(j) /\ Pending(k) /\ call[j].client = call[k].client
      => call[j].session = call[k].session

LeaversAreFree ==
  \A j \in Calls : call[j].pc = "leaving" =>
    \A p \in SeatsOf(roster, call[j].client) : p.session = call[j].session

\* A join may be suspended in client.leave while an overlapping join of the
\* same socket takes a seat; that is harmless because it is a seat of the same
\* session, which the first join then replaces.
SeatsFollowJoins ==
  /\ OneSeatPerClient
  /\ LeaversAreFree
  /\ JoinsAgreed

\* A seat is added in the session that all joins of its socket name, in place
\* of the seats the socket still has.
SeatMove ==
  \/ roster' \subseteq roster
  \/ \E rst \in SUBSET roster, s \in SessionIds, c \in Clients, r \in Roles :
       /\ SeatAdded(rst, s, c, r)
       /\ \A p \in SeatsOf(rst, c) : p.session = s
       /\ JoinsAgree(c, s)

LEMMA TakeSeatMoves ==
  ASSUME NEW j, NEW cl \in PendingCalls, NEW rst \in SUBSET roster,
         NEW idl, NEW rms, NEW known, TakeSeat(j, cl, rst, idl, rms, known),
         \A p \in SeatsOf(rst, cl.client) : p.session = cl.session,
         JoinsAgree(cl.client, cl.session)
  PROVE  SeatMove
<1>1. cl.session \in SessionIds /\ cl.client \in Clients /\ cl.role \in Roles
  BY DEF PendingCalls
<1>2. \/ SeatAdded(rst, cl.session, cl.client, cl.role)
      \/ roster' = rst
  BY DEF TakeSeat, SeatAdded
<1>3. QED
  BY <1>1, <1>2 DEF SeatMove

\* Leaving the old session also frees the socket of its one seat.
LEMMA LeaveOldSessionMoves ==
  ASSUME TypeOK, OneSeatPerClient, NEW j \in Calls, NEW cl \in PendingCalls,
         NEW rst \in SUBSET roster, NEW idl, NEW known,
         LeaveOldSession(j, cl, rst, idl, known),
         JoinsAgree(cl.client, cl.session)
  PROVE  /\ SeatMove
         /\ \/ call'[j].pc # "leaving"
            \/ SeatsOf(roster', call'[j].client) = {}
<1>1. \A x : call' = [call EXCEPT ![j] = x] => call'[j] = x
  BY DEF TypeOK
<1>2. CASE SeatsOf(rst, cl.client) = {} /\ TakeSeat(j, cl, rst, idl, rooms, known)
  <2>1. SeatMove
    BY <1>2, TakeSeatMoves
  <2>2. \A peers : [cl EXCEPT !.pc = "joining", !.existing = peers].pc = "joining"
    BY DEF PendingCalls
  <2>3. \/ EndCall(j)
        \/ \E peers : call' = [call EXCEPT ![j] =
             [cl EXCEPT !.pc = "joining", !.existing = peers]]
    BY <1>2 DEF TakeSeat
  <2>4. EndCall(j) => call'[j].pc = "idle"
    BY DEF EndCall, IdleCall, TypeOK
  <2>5. call'[j].pc # "leaving"
    BY <1>1, <2>2, <2>3, <2>4
  <2>6. QED
    BY <2>1, <2>5
<1>3. ASSUME NEW p \in SeatsOf(rst, cl.client),
             roster' = rst \ {p},
             call' = [call EXCEPT ![j] = [cl EXCEPT !.pc = "leaving"]]
      PROVE  SeatMove /\ SeatsOf(roster', call'[j].client) = {}
  <2>1. [cl EXCEPT !.pc = "leaving"].client = cl.client
    BY DEF PendingCalls
  <2>2. call'[j].client = cl.client
    BY <1>1, <1>3, <2>1
  <2>3. QED
    BY <1>3, <2>2 DEF SeatMove, SeatsOf, OneSeatPerClient
<1>4. QED
  BY <1>2, <1>3 DEF LeaveOldSession

\* The fields that CheckPassword and HostAnswers clear leave the client and the
\* session of a call alone.
LEMMA ResumedCall ==
  ASSUME TypeOK, SeatsFollowJoins, NEW j \in Calls, Pending(j)
  PROVE  /\ call[j] \in PendingCalls
         /\ [call[j] EXCEPT !.password = NoPassword] \in PendingCalls
         /\ [call[j] EXCEPT !.asked = {}, !.timeLeft = 0] \in PendingCalls
         /\ \A cl \in {call[j], [call[j] EXCEPT !.password = NoPassword],
                       [call[j] EXCEPT !.asked = {}, !.timeLeft = 0]} :
              /\ cl.client = call[j].client
              /\ cl.session = call[j].session
              /\ JoinsAgree(cl.client, cl.session)
<1>1. call[j] \in PendingCalls
  BY DEF Pending, TypeOK, IdleCall
<1>2. 0 \in 0 .. ApprovalTimeout
  BY GatewayConstants
<1>3. /\ [call[j] EXCEPT !.password = NoPassword] \in PendingCalls
      /\ [call[j] EXCEPT !.asked = {}, !.timeLeft = 0] \in PendingCalls
  BY <1>1, <1>2 DEF PendingCalls
<1>4. ASSUME NEW cl \in {call[j], [call[j] EXCEPT !.password = NoPassword],
                         [call[j] EXCEPT !.asked = {}, !.timeLeft = 0]}
      PROVE  cl.client = call[j].client /\ cl.session = call[j].session
  BY <1>1 DEF PendingCalls
<1>5. JoinsAgree(call[j].client, call[j].session)
  BY DEF SeatsFollowJoins, JoinsAgreed, JoinsAgree
<1>6. QED
  BY <1>1, <1>3, <1>4, <1>5

\* No step adds a seat outside the session the joins of its socket name, and
\* whoever starts to leave has no seat left.
LEMMA SeatSteps ==
  ASSUME TypeOK, SeatsFollowJoins, [Next]_vars
  PROVE  /\ SeatMove
         /\ \A j \in Calls : call'[j].pc = "leaving" =>
              call'[j] = call[j] \/ SeatsOf(roster', call'[j].client) = {}
<1> DEFINE Freed(j) == \/ call'[j].pc # "leaving"
                       \/ SeatsOf(roster', call'[j].client) = {}
<1>1. \A j \in Calls : \A x : call' = [call EXCEPT ![j] = x] => call'[j] = x
  BY DEF TypeOK
<1>2. \A j \in Calls : EndCall(j) => Freed(j)
  BY DEF EndCall, IdleCall, TypeOK
<1>3. LiveRoster \subseteq roster
  BY DEF LiveRoster
<1>4. ASSUME NEW j \in Calls, NEW c \in Clients, NEW s \in SessionIds, NEW r \in Roles,
             NEW pw \in Passwords \cup {NoPassword}, StartJoin(j, c, s, r, pw)
      PROVE  SeatMove /\ (call'[j] = call[j] \/ Freed(j))
  <2>1. CASE CleanupExpiredPeers /\ UNCHANGED call
    BY <1>3, <2>1 DEF CleanupExpiredPeers, SeatMove
  <2>2. CASE CleanupExpiredPeers /\ call' = [call EXCEPT ![j] = NewCall(c, s, r, pw)]
    <3>1. NewCall(c, s, r, pw).pc = "settings"
      BY DEF NewCall
    <3>2. call'[j].pc = "settings"
      BY <1>1, <2>2, <3>1
    <3>3. QED
      BY <1>3, <2>2, <3>2 DEF CleanupExpiredPeers, SeatMove
  <2>3. CASE LeaveOldSession(j, NewCall(c, s, r, NoPassword),
                             LiveRoster, LiveIdle, LiveTold)
    <3>1. NewCall(c, s, r, NoPassword) \in PendingCalls
      BY NewCallTypes
    <3>2. JoinsAgree(NewCall(c, s, r, NoPassword).client,
                     NewCall(c, s, r, NoPassword).session)
      BY <1>4 DEF StartJoin, NewCall
    <3>3. QED
      BY <1>3, <2>3, <3>1, <3>2, LeaveOldSessionMoves DEF SeatsFollowJoins
  <2>4. QED
    BY <1>4, <2>1, <2>2, <2>3 DEF StartJoin
<1>5. ASSUME NEW j \in Calls, CheckPassword(j)
      PROVE  SeatMove /\ Freed(j)
  <2> DEFINE cl == [call[j] EXCEPT !.password = NoPassword]
  <2>1. Pending(j)
    BY <1>5 DEF CheckPassword, Pending
  <2>2. cl \in PendingCalls /\ JoinsAgree(cl.client, cl.session)
    BY <2>1, ResumedCall
  <2> HIDE DEF cl
  <2>3. CASE EndCall(j) /\ UNCHANGED membership
    BY <1>2, <2>3 DEF membership, SeatMove
  <2>4. CASE RequestApproval(j, cl) /\ UNCHANGED membership
    <3>1. call'[j].pc \in {"idle", "approval"}
      BY <2>2, <2>4, AskedCall
    <3>2. QED
      BY <2>4, <3>1 DEF membership, SeatMove
  <2>5. CASE LeaveOldSession(j, cl, roster, idle, told)
    BY <2>2, <2>5, LeaveOldSessionMoves DEF SeatsFollowJoins
  <2>6. QED
    BY <1>5, <2>3, <2>4, <2>5 DEF CheckPassword, cl
<1>6. ASSUME NEW j \in Calls, NEW approved \in BOOLEAN, HostAnswers(j, approved)
      PROVE  SeatMove /\ Freed(j)
  <2> DEFINE cl == [call[j] EXCEPT !.asked = {}, !.timeLeft = 0]
  <2>1. Pending(j)
    BY <1>6 DEF HostAnswers, Pending
  <2>2. cl \in PendingCalls /\ JoinsAgree(cl.client, cl.session)
    BY <2>1, ResumedCall
  <2> HIDE DEF cl
  <2>3. CASE EndCall(j) /\ UNCHANGED membership
    BY <1>2, <2>3 DEF membership, SeatMove
  <2>4. CASE LeaveOldSession(j, cl, roster, idle, told)
    BY <2>2, <2>4, LeaveOldSessionMoves DEF SeatsFollowJoins
  <2>5. QED
    BY <1>6, <2>3, <2>4 DEF HostAnswers, cl
<1>7. ASSUME NEW j \in Calls, ResumeAfterLeave(j)
      PROVE  SeatMove /\ Freed(j)
  <2>1. Pending(j) /\ TakeSeat(j, call[j], roster, idle, rooms, told)
    BY <1>7 DEF ResumeAfterLeave, Pending
  <2>2. call[j] \in PendingCalls /\ JoinsAgree(call[j].client, call[j].session)
    BY <2>1, ResumedCall
  <2>3. \A p \in SeatsOf(roster, call[j].client) : p.session = call[j].session
    BY <1>7 DEF ResumeAfterLeave, SeatsFollowJoins, LeaversAreFree
  <2>4. SeatMove
    BY <2>1, <2>2, <2>3, TakeSeatMoves
  <2>5. \A peers : [call[j] EXCEPT !.pc = "joining", !.existing = peers].pc = "joining"
    BY <2>2 DEF PendingCalls
  <2>6. \/ EndCall(j)
        \/ \E peers : call' = [call EXCEPT ![j] =
             [call[j] EXCEPT !.pc = "joining", !.existing = peers]]
    BY <2>1 DEF TakeSeat
  <2>7. Freed(j)
    BY <1>1, <1>2, <2>5, <2>6
  <2>8. QED
    BY <2>4, <2>7
<1>8. ASSUME NEW j \in Calls, ReadSettings(j) \/ ApprovalTimesOut(j) \/ FinishJoin(j)
      PROVE  SeatMove /\ Freed(j)
  <2>1. UNCHANGED roster
    BY <1>8 DEF ReadSettings, ApprovalTimesOut, FinishJoin, membership
  <2>2. CASE EndCall(j)
    BY <1>2, <2>1, <2>2 DEF SeatMove
  <2>3. CASE ReadSettings(j) /\ ~EndCall(j)
    <3>1. Pending(j)
      BY <2>3 DEF ReadSettings, Pending
    <3>2. [call[j] EXCEPT !.pc = "password",
                          !.needsApproval = settings.requireApproval].pc = "password"
      BY <3>1, ResumedCall DEF PendingCalls
    <3>3. call'[j].pc = "password"
      BY <1>1, <2>3, <3>2 DEF ReadSettings
    <3>4. QED
      BY <2>1, <3>3 DEF SeatMove
  <2>4. QED
    BY <1>8, <2>2, <2>3 DEF ApprovalTimesOut, FinishJoin
<1>9. CASE Tick
  <2>1. UNCHANGED roster
    BY <1>9 DEF Tick
  <2>2. ASSUME NEW j \in Calls, call[j].pc = "approval"
        PROVE  call'[j].pc = "approval"
    <3>1. call[j] \in PendingCalls
      BY <2>2 DEF TypeOK, IdleCall
    <3>2. QED
      BY <1>9, <2>2, <3>1 DEF Tick, PendingCalls
  <2>3. \A j \in Calls : call[j].pc # "approval" => call'[j] = call[j]
    BY <1>9 DEF Tick
  <2>4. QED
    BY <2>1, <2>2, <2>3 DEF SeatMove
<1>10. SeatMove
  <2>1. ASSUME NEW c \in Clients, Connect(c) \/ Disconnect(c)
        PROVE  SeatMove
    BY <2>1 DEF Connect, Disconnect, membership, SeatMove
  <2>2. ASSUME NEW c \in Clients, NEW s \in SessionIds, TouchPeer(c, s)
        PROVE  SeatMove
    BY <2>2 DEF TouchPeer, SeatMove
  <2>3. CASE CleanupTimer
    BY <1>3, <2>3 DEF CleanupTimer, CleanupExpiredPeers, SeatMove
  <2>4. CASE ChangeSettings \/ UNCHANGED vars
    BY <2>4 DEF ChangeSettings, vars, membership, SeatMove
  <2>5. QED
    BY <1>4, <1>5, <1>6, <1>7, <1>8, <1>9, <2>1, <2>2, <2>3, <2>4
       DEF Next, ClientStep, ResumeJoin, Heartbeat, RelaySignal, AnnounceShutdown
<1>11. ASSUME NEW j \in Calls, call'[j].pc = "leaving", call'[j] # call[j]
       PROVE  SeatsOf(roster', call'[j].client) = {}
  BY <1>4, <1>5, <1>6, <1>7, <1>8, <1>9, <1>11, CallSteps DEF ResumeJoin
<1>12. QED
  BY <1>10, <1>11

\* Whom a call is for never changes while it runs, and a new call agrees with
\* the running calls of its socket.
LEMMA CallOwners ==
  ASSUME TypeOK, [Next]_vars, NEW j \in Calls, Pending(j)'
  PROVE  \/ /\ Pending(j)
            /\ call'[j].client = call[j].client
            /\ call'[j].session = call[j].session
         \/ /\ JoinsAgree(call'[j].client, call'[j].session)
            /\ \A k \in Calls : k # j => call'[k] = call[k]
<1> DEFINE Same == /\ Pending(j)
                   /\ call'[j].client = call[j].client
                   /\ call'[j].session = call[j].session
           New == /\ JoinsAgree(call'[j].client, call'[j].session)
                  /\ \A k \in Calls : k # j => call'[k] = call[k]
<1>1. \A x : call' = [call EXCEPT ![j] = x] =>
        /\ call'[j] = x
        /\ \A k \in Calls : k # j => call'[k] = call[k]
  BY DEF TypeOK
<1>2. ~EndCall(j)
  BY DEF EndCall, IdleCall, TypeOK, Pending
<1>3. ASSUME NEW cl \in PendingCalls, NEW rst, NEW idl, NEW known,
             \/ LeaveOldSession(j, cl, rst, idl, known)
             \/ \E rms : TakeSeat(j, cl, rst, idl, rms, known)
      PROVE  /\ call'[j].client = cl.client
             /\ call'[j].session = cl.session
             /\ \A k \in Calls : k # j => call'[k] = call[k]
  <2>1. ASSUME NEW x, call' = [call EXCEPT ![j] = x],
               x.client = cl.client, x.session = cl.session
        PROVE  /\ call'[j].client = cl.client
               /\ call'[j].session = cl.session
               /\ \A k \in Calls : k # j => call'[k] = call[k]
    BY <1>1, <2>1
  <2>2. ASSUME NEW peers,
               call' = [call EXCEPT ![j] =
                 [cl EXCEPT !.pc = "joining", !.existing = peers]]
        PROVE  /\ call'[j].client = cl.client
               /\ call'[j].session = cl.session
               /\ \A k \in Calls : k # j => call'[k] = call[k]
    <3> DEFINE x == [cl EXCEPT !.pc = "joining", !.existing = peers]
    <3>1. x.client = cl.client /\ x.session = cl.session
      BY DEF PendingCalls
    <3> HIDE DEF x
    <3>2. QED
      BY <2>1, <2>2, <3>1 DEF x
  <2>3. ASSUME call' = [call EXCEPT ![j] = [cl EXCEPT !.pc = "leaving"]]
        PROVE  /\ call'[j].client = cl.client
               /\ call'[j].session = cl.session
               /\ \A k \in Calls : k # j => call'[k] = call[k]
    <3> DEFINE x == [cl EXCEPT !.pc = "leaving"]
    <3>1. x.client = cl.client /\ x.session = cl.session
      BY DEF PendingCalls
    <3> HIDE DEF x
    <3>2. QED
      BY <2>1, <2>3, <3>1 DEF x
  <2>4. \/ \E peers : call' = [call EXCEPT ![j] =
             [cl EXCEPT !.pc = "joining", !.existing = peers]]
        \/ call' = [call EXCEPT ![j] = [cl EXCEPT !.pc = "leaving"]]
    BY <1>2, <1>3 DEF LeaveOldSession, TakeSeat
  <2>5. QED
    BY <2>2, <2>3, <2>4
<1>4. CASE call'[j] = call[j]
  BY <1>4 DEF Pending
<1>5. ASSUME NEW c \in Clients, NEW s \in SessionIds, NEW r \in Roles,
             NEW pw \in Passwords \cup {NoPassword}, StartJoin(j, c, s, r, pw)
      PROVE  Same \/ New
  <2>1. JoinsAgree(c, s) /\ ~Pending(j)
    BY <1>5 DEF StartJoin
  <2>2. CASE UNCHANGED call
    BY <1>4, <2>2
  <2>3. CASE call' = [call EXCEPT ![j] = NewCall(c, s, r, pw)]
    <3>1. NewCall(c, s, r, pw).client = c /\ NewCall(c, s, r, pw).session = s
      BY DEF NewCall
    <3>2. QED
      BY <1>1, <2>1, <2>3, <3>1
  <2>4. CASE LeaveOldSession(j, NewCall(c, s, r, NoPassword),
                             LiveRoster, LiveIdle, LiveTold)
    <3>1. /\ NewCall(c, s, r, NoPassword).client = c
          /\ NewCall(c, s, r, NoPassword).session = s
      BY DEF NewCall
    <3>2. NewCall(c, s, r, NoPassword) \in PendingCalls
      BY NewCallTypes
    <3>3. QED
      BY <1>3, <2>1, <2>4, <3>1, <3>2
  <2>5. QED
    BY <1>5, <2>2, <2>3, <2>4 DEF StartJoin
<1>6. ASSUME Pending(j), NEW cl \in PendingCalls,
             cl.client = call[j].client, cl.session = call[j].session,
             \/ LeaveOldSession(j, cl, roster, idle, told)
             \/ \E rms : TakeSeat(j, cl, roster, idle, rms, told)
             \/ RequestApproval(j, cl)
      PROVE  Same
  <2>1. CASE RequestApproval(j, cl)
    <3>1. PICK h \in HostToAsk(cl.session) : call' = [call EXCEPT ![j] =
             [cl EXCEPT !.pc = "approval", !.asked = {h},
                        !.timeLeft = ApprovalTimeout]]
      BY <1>2, <2>1 DEF RequestApproval
    <3> DEFINE x == [cl EXCEPT !.pc = "approval", !.asked = {h},
                               !.timeLeft = ApprovalTimeout]
    <3>2. x.client = cl.client /\ x.session = cl.session
      BY DEF PendingCalls
    <3>3. call'[j] = x
      BY <1>1, <3>1
    <3>4. QED
      BY <1>6, <3>2, <3>3
  <2>2. QED
    BY <1>3, <1>6, <2>1
<1>7. ASSUME Pending(j)
      PROVE  /\ call[j] \in PendingCalls
             /\ \A cl \in {[call[j] EXCEPT !.password = NoPassword],
                           [call[j] EXCEPT !.asked = {}, !.timeLeft = 0]} :
                  /\ cl \in PendingCalls
                  /\ cl.client = call[j].client
                  /\ cl.session = call[j].session
  <2>1. call[j] \in PendingCalls
    BY <1>7 DEF Pending, TypeOK, IdleCall
  <2>2. 0 \in 0 .. ApprovalTimeout
    BY GatewayConstants
  <2>3. QED
    BY <2>1, <2>2 DEF PendingCalls
<1>8. CASE CheckPassword(j)
  <2> DEFINE cl == [call[j] EXCEPT !.password = NoPassword]
  <2>1. Pending(j)
    BY <1>8 DEF CheckPassword, Pending
  <2>2. cl \in PendingCalls /\ cl.client = call[j].client /\ cl.session = call[j].session
    BY <1>7, <2>1
  <2>3. LeaveOldSession(j, cl, roster, idle, told) \/ RequestApproval(j, cl)
    BY <1>2, <1>8 DEF CheckPassword
  <2> HIDE DEF cl
  <2>4. QED
    BY <1>6, <2>1, <2>2, <2>3
<1>9. ASSUME NEW approved \in BOOLEAN, HostAnswers(j, approved)
      PROVE  Same
  <2> DEFINE cl == [call[j] EXCEPT !.asked = {}, !.timeLeft = 0]
  <2>1. Pending(j)
    BY <1>9 DEF HostAnswers, Pending
  <2>2. cl \in PendingCalls /\ cl.client = call[j].client /\ cl.session = call[j].session
    BY <1>7, <2>1
  <2>3. LeaveOldSession(j, cl, roster, idle, told)
    BY <1>2, <1>9 DEF HostAnswers
  <2> HIDE DEF cl
  <2>4. QED
    BY <1>6, <2>1, <2>2, <2>3
<1>10. CASE ReadSettings(j)
  <2>1. Pending(j) /\ call[j] \in PendingCalls
    BY <1>7, <1>10 DEF ReadSettings, Pending
  <2> DEFINE x == [call[j] EXCEPT !.pc = "password",
                                  !.needsApproval = settings.requireApproval]
  <2>2. x.client = call[j].client /\ x.session = call[j].session
    BY <2>1 DEF PendingCalls
  <2>3. call'[j] = x
    BY <1>1, <1>2, <1>10 DEF ReadSettings
  <2>4. QED
    BY <2>1, <2>2, <2>3
<1>11. CASE ResumeAfterLeave(j)
  <2>1. /\ Pending(j) /\ call[j] \in PendingCalls
        /\ TakeSeat(j, call[j], roster, idle, rooms, told)
    BY <1>7, <1>11 DEF ResumeAfterLeave, Pending
  <2>2. QED
    BY <1>6, <2>1
<1>12. CASE Tick
  <2>1. CASE call[j].pc = "approval"
    <3>1. Pending(j) /\ call[j] \in PendingCalls
      BY <1>7, <2>1 DEF Pending
    <3>2. call'[j] = [call[j] EXCEPT !.timeLeft = Decrement(@)]
      BY <1>12, <2>1 DEF Tick
    <3>3. QED
      BY <3>1, <3>2 DEF PendingCalls
  <2>2. CASE call[j].pc # "approval"
    BY <1>4, <1>12, <2>2 DEF Tick
  <2>3. QED
    BY <2>1, <2>2
<1>13. QED
  BY <1>2, <1>4, <1>5, <1>8, <1>9, <1>10, <1>11, <1>12, CallSteps
     DEF ResumeJoin, ApprovalTimesOut, FinishJoin

\* The seats follow the joins that are still running.
LEMMA SeatsFollow == Spec => []SeatsFollowJoins
<1>1. Init => SeatsFollowJoins
  BY DEF Init, SeatsFollowJoins, OneSeatPerClient, LeaversAreFree, JoinsAgreed,
         Pending, IdleCall
<1>2. ASSUME TypeOK, SeatsFollowJoins, [Next]_vars
      PROVE  SeatsFollowJoins'
  <2>1. JoinsAgreed'
    <3> SUFFICES ASSUME NEW j \in Calls, NEW k \in Calls, Pending(j)', Pending(k)',
                        call'[j].client = call'[k].client
                 PROVE  call'[j].session = call'[k].session
      BY DEF JoinsAgreed
    <3>1. QED
      BY <1>2, CallOwners DEF SeatsFollowJoins, JoinsAgreed, JoinsAgree, Pending
  <2>2. OneSeatPerClient'
    <3>1. CASE roster' \subseteq roster
      BY <1>2, <3>1 DEF SeatsFollowJoins, OneSeatPerClient
    <3>2. ASSUME NEW rst \in SUBSET roster, NEW s \in SessionIds, NEW c \in Clients,
                 NEW r \in Roles, SeatAdded(rst, s, c, r),
                 \A p \in SeatsOf(rst, c) : p.session = s
          PROVE  OneSeatPerClient'
      <4> DEFINE seat == [session |-> s, client |-> c, role |-> r]
      <4>1. \A p \in roster' : p = seat \/ (p \in roster /\ p.client # c)
        BY <3>2 DEF SeatAdded, AddPeer, SeatsOf
      <4>2. QED
        BY <1>2, <4>1 DEF SeatsFollowJoins, OneSeatPerClient
    <3>3. QED
      BY <1>2, <3>1, <3>2, SeatSteps DEF SeatMove
  <2>3. LeaversAreFree'
    <3> SUFFICES ASSUME NEW j \in Calls, call'[j].pc = "leaving",
                        NEW p \in SeatsOf(roster', call'[j].client)
                 PROVE  p.session = call'[j].session
      BY DEF LeaversAreFree
    <3>1. call'[j] = call[j]
      BY <1>2, SeatSteps
    <3>2. CASE p \in roster
      BY <1>2, <3>1, <3>2 DEF SeatsFollowJoins, LeaversAreFree, SeatsOf
    <3>3. ASSUME NEW rst \in SUBSET roster, NEW s \in SessionIds, NEW c \in Clients,
                 NEW r \in Roles, SeatAdded(rst, s, c, r), JoinsAgree(c, s), p \notin roster
          PROVE  p.session = call'[j].session
      <4>1. p.session = s /\ p.client = c
        BY <3>3 DEF SeatAdded, AddPeer, SeatsOf
      <4>2. Pending(j) /\ call[j].client = c
        BY <3>1, <4>1 DEF Pending, SeatsOf
      <4>3. QED
        BY <3>1, <3>3, <4>1, <4>2 DEF JoinsAgree
    <3>4. QED
      BY <1>2, <3>2, <3>3, SeatSteps DEF SeatMove, SeatsOf
  <2>4. QED
    BY <2>1, <2>2, <2>3 DEF SeatsFollowJoins
<1>3. QED
  BY <1>1, <1>2, TypeCorrect, PTL DEF Spec

\* A socket never sits in two sessions, for any number of sockets, sessions and
\* overlapping joins (sessionJoin with its awaits, SessionsService.addPeer).
THEOREM SeatsAreSingle == Spec => []OneSeatPerClient
<1>1. SeatsFollowJoins => OneSeatPerClient
  BY DEF SeatsFollowJoins
<1>2. QED
  BY <1>1, SeatsFollow, PTL

------------------------------------------------------------------------------
(* What a join does to the room, its members and what they know.            *)

\* The joins that wait for client.join go on waiting.
JoinsGoOn == \A k \in Calls : call[k].pc = "joining" => call'[k] = call[k]

\* Whoever gets a seat beside rst waits for client.join, with all others to be
\* told of.
SeatsAreAnnounced(rst) ==
  \A p \in roster' \ rst :
    \E k \in Calls :
      /\ call'[k].pc = "joining"
      /\ call'[k].client = p.client
      /\ call'[k].session = p.session
      /\ \A q \in roster' :
           q.session = p.session /\ q.client # p.client => q.client \in call'[k].existing

\* The members rst of the sessions who are connected are in the rooms rms.
InRooms(rst, rms) == \A p \in rst : p.client \in online => p.client \in rms[p.session]

\* Join j costs nobody but its own socket a seat.
OwnSeatOnly(j, cl, rst) ==
  \A p \in rst \ roster' :
    /\ p.client = cl.client
    /\ call'[j].pc \in {"leaving", "joining"}
    /\ call'[j].client = cl.client

LEMMA TakeSeatEffect ==
  ASSUME TypeOK, NEW j \in Calls, NEW cl \in PendingCalls, NEW rst \in SUBSET roster,
         NEW idl, NEW rms \in [SessionIds -> SUBSET Clients], NEW known,
         TakeSeat(j, cl, rst, idl, rms, known), call[j].pc # "joining"
  PROVE  /\ told' = known
         /\ JoinsGoOn
         /\ SeatsAreAnnounced(rst)
         /\ OwnSeatOnly(j, cl, rst)
         /\ call'[j].pc \in {"idle", "joining"}
         /\ InRooms(rst, rms) => InRooms(roster', rooms')
<1>1. \A x : call' = [call EXCEPT ![j] = x] =>
        call'[j] = x /\ \A k \in Calls : k # j => call'[k] = call[k]
  BY DEF TypeOK
<1>2. cl.session \in SessionIds /\ cl.client \in Clients
  BY DEF PendingCalls
<1>3. CASE roster' = rst /\ rooms' = rms /\ EndCall(j)
  <2>1. call'[j] = IdleCall /\ \A k \in Calls : k # j => call'[k] = call[k]
    BY <1>1, <1>3 DEF EndCall
  <2>2. JoinsGoOn
    BY <2>1 DEF JoinsGoOn
  <2> QED BY <1>3, <2>1, <2>2
          DEF TakeSeat, SeatsAreAnnounced, OwnSeatOnly, InRooms, IdleCall
<1>4. CASE /\ roster' = AddPeer(rst, cl.session, cl.client, cl.role)
           /\ rooms' = EnterRoom(rms, cl)
           /\ call' = [call EXCEPT ![j] =
                [cl EXCEPT !.pc = "joining",
                           !.existing = OtherPeers(rst, cl.session, cl.client)]]
  <2>1. PICK x : x = [cl EXCEPT !.pc = "joining",
                                !.existing = OtherPeers(rst, cl.session, cl.client)]
    OBVIOUS
  <2>2. /\ x.pc = "joining" /\ x.client = cl.client /\ x.session = cl.session
        /\ x.existing = OtherPeers(rst, cl.session, cl.client)
    BY <2>1 DEF PendingCalls
  <2>3. call'[j] = x /\ \A k \in Calls : k # j => call'[k] = call[k]
    BY <1>1, <1>4, <2>1
  <2>4. JoinsGoOn
    BY <2>3 DEF JoinsGoOn
  <2>5. PICK seat : seat = [session |-> cl.session, client |-> cl.client, role |-> cl.role]
    OBVIOUS
  <2>6. /\ \A p \in roster' : p = seat \/ p \in rst
        /\ \A p \in rst \ roster' : p.client = cl.client
        /\ \A q \in roster' : q.client # cl.client => q \in rst
        /\ seat.session = cl.session /\ seat.client = cl.client
    BY <1>4, <2>5 DEF AddPeer
  <2>7. ASSUME NEW q \in roster', q.session = cl.session, q.client # cl.client
        PROVE  q.client \in x.existing
    BY <2>2, <2>6, <2>7 DEF OtherPeers, PeersOf
  <2>8. SeatsAreAnnounced(rst)
    BY <2>2, <2>3, <2>6, <2>7 DEF SeatsAreAnnounced
  <2>9. OwnSeatOnly(j, cl, rst)
    BY <2>2, <2>3, <2>6 DEF OwnSeatOnly
  <2>10. ASSUME InRooms(rst, rms) PROVE InRooms(roster', rooms')
    <3>1. \A s \in SessionIds : rms[s] \subseteq rooms'[s]
      BY <1>2, <1>4 DEF EnterRoom
    <3>2. cl.client \in online => cl.client \in rooms'[cl.session]
      BY <1>2, <1>4 DEF EnterRoom
    <3>3. \A p \in rst : p.session \in SessionIds
      BY DEF TypeOK, Seats
    <3> QED BY <2>6, <2>10, <3>1, <3>2, <3>3 DEF InRooms
  <2> QED BY <2>2, <2>3, <2>4, <2>8, <2>9, <2>10 DEF TakeSeat
<1> QED BY <1>3, <1>4 DEF TakeSeat

LEMMA LeaveOldSessionEffect ==
  ASSUME TypeOK, OneSeatPerClient, NEW j \in Calls, NEW cl \in PendingCalls,
         NEW rst \in SUBSET roster, NEW idl, NEW known,
         LeaveOldSession(j, cl, rst, idl, known), call[j].pc # "joining"
  PROVE  /\ told' = known
         /\ JoinsGoOn
         /\ SeatsAreAnnounced(rst)
         /\ OwnSeatOnly(j, cl, rst)
         /\ call'[j].pc \in {"idle", "leaving", "joining"}
         /\ InRooms(rst, rooms) => InRooms(roster', rooms')
<1>1. rooms \in [SessionIds -> SUBSET Clients]
  BY DEF TypeOK
<1>2. CASE TakeSeat(j, cl, rst, idl, rooms, known)
  BY <1>1, <1>2, TakeSeatEffect
<1>3. ASSUME NEW p \in SeatsOf(rst, cl.client),
             roster' = rst \ {p},
             rooms' = [rooms EXCEPT ![p.session] = @ \ {p.client}],
             told' = known,
             call' = [call EXCEPT ![j] = [cl EXCEPT !.pc = "leaving"]]
      PROVE  /\ JoinsGoOn
             /\ SeatsAreAnnounced(rst)
             /\ OwnSeatOnly(j, cl, rst)
             /\ call'[j].pc = "leaving"
             /\ InRooms(rst, rooms) => InRooms(roster', rooms')
  <2>1. PICK x : x = [cl EXCEPT !.pc = "leaving"]
    OBVIOUS
  <2>2. x.pc = "leaving" /\ x.client = cl.client
    BY <2>1 DEF PendingCalls
  <2>3. call'[j] = x /\ \A k \in Calls : k # j => call'[k] = call[k]
    BY <1>3, <2>1 DEF TypeOK
  <2>4. JoinsGoOn
    BY <2>3 DEF JoinsGoOn
  <2>5. SeatsAreAnnounced(rst)
    BY <1>3 DEF SeatsAreAnnounced
  <2>6. OwnSeatOnly(j, cl, rst)
    BY <1>3, <2>2, <2>3 DEF OwnSeatOnly, SeatsOf
  <2>7. ASSUME InRooms(rst, rooms) PROVE InRooms(roster', rooms')
    <3>1. ASSUME NEW q \in roster', q.client \in online
          PROVE  q.client \in rooms'[q.session]
      <4>1. q \in rst /\ q \in roster /\ q # p /\ p \in roster
        BY <1>3, <3>1 DEF SeatsOf
      <4>2. q.client # p.client /\ q.session \in SessionIds
        BY <4>1 DEF OneSeatPerClient, TypeOK, Seats
      <4>3. q.client \in rooms[q.session]
        BY <2>7, <3>1, <4>1 DEF InRooms
      <4> QED BY <1>1, <1>3, <4>2, <4>3
    <3> QED BY <3>1 DEF InRooms
  <2> QED BY <2>2, <2>3, <2>4, <2>5, <2>6, <2>7
<1> QED BY <1>2, <1>3 DEF LeaveOldSession

\* The members rst who stay connected forget none of them who stays.
NewsStay(rst) ==
  \A p, q \in rst \cap roster' :
    p.client \in online' /\ q.client \in told[p.client] => q.client \in told'[p.client]

\* Why a seat may be lost.
SeatsAreKept ==
  \A p \in roster \ roster' :
    \/ idle[p.session][p.client] > PeerTtl
    \/ p.client \in online /\ p.client \notin online'
    \/ JoinOf(p.client)

\* What every step keeps but the one that tells the news.
NewsKept ==
  /\ JoinsGoOn
  /\ \A p \in roster \cap roster' : p.client \in online' => p.client \in online
  /\ \E rst \in SUBSET roster : SeatsAreAnnounced(rst) /\ NewsStay(rst)

MembersKept ==
  /\ NewsKept
  /\ SeatsAreKept
  /\ SeatedPeersReachable => SeatedPeersReachable'

\* Steps that leave the seats, the rooms and the news alone.
LEMMA NothingMoves ==
  ASSUME UNCHANGED membership, JoinsGoOn,
         \A c \in online' \ online : SeatsOf(roster, c) = {}
  PROVE  MembersKept
<1>1. roster' = roster /\ rooms' = rooms /\ told' = told
  BY DEF membership
<1>2. \A p \in roster : p.client \in online' => p.client \in online
  BY DEF SeatsOf
<1>3. NewsKept
  <2>1. SeatsAreAnnounced(roster) /\ NewsStay(roster)
    BY <1>1 DEF SeatsAreAnnounced, NewsStay
  <2> QED BY <1>2, <2>1 DEF NewsKept
<1>4. SeatedPeersReachable => SeatedPeersReachable'
  BY <1>1, <1>2 DEF SeatedPeersReachable
<1> QED BY <1>1, <1>3, <1>4 DEF MembersKept, SeatsAreKept

\* The expired seats go, and nobody hears that a member has gone who stays.
LEMMA CleanupNews ==
  ASSUME TypeOK, OneSeatPerClient
  PROVE  /\ LiveRoster \subseteq roster
         /\ \A p, q \in LiveRoster :
              q.client \in told[p.client] => q.client \in LiveTold[p.client]
         /\ \A p \in roster \ LiveRoster : idle[p.session][p.client] > PeerTtl
<1>1. ASSUME NEW p \in LiveRoster, NEW q \in LiveRoster, q.client \in told[p.client]
      PROVE  q.client \in LiveTold[p.client]
  <2>1. ASSUME NEW g \in StaleSeats PROVE g.client # q.client
    <3>1. g \in roster /\ q \in roster /\ g # q
      BY <2>1 DEF LiveRoster, StaleSeats, Expired
    <3> QED BY <3>1 DEF OneSeatPerClient
  <2>2. p.client \in Clients
    BY DEF LiveRoster, TypeOK, Seats
  <2> QED BY <1>1, <2>1, <2>2 DEF LiveTold, TellLeft
<1> QED BY <1>1 DEF LiveRoster, StaleSeats, Expired

LEMMA CleanupKeeps ==
  ASSUME TypeOK, OneSeatPerClient, CleanupExpiredPeers, JoinsGoOn, online' = online,
         rooms' = rooms
  PROVE  MembersKept
<1>1. roster' = LiveRoster /\ told' = LiveTold
  BY DEF CleanupExpiredPeers
<1>2. SeatsAreAnnounced(LiveRoster)
  BY <1>1, CleanupNews DEF SeatsAreAnnounced
<1>3. NewsStay(LiveRoster)
  BY <1>1, CleanupNews DEF NewsStay
<1>4. SeatsAreKept
  BY <1>1, CleanupNews DEF SeatsAreKept
<1>5. SeatedPeersReachable => SeatedPeersReachable'
  BY <1>1, CleanupNews DEF SeatedPeersReachable
<1>6. LiveRoster \in SUBSET roster
  BY CleanupNews
<1> QED BY <1>2, <1>3, <1>4, <1>5, <1>6 DEF MembersKept, NewsKept

\* A join that gives up a seat or takes one costs its own socket a seat at most.
LEMMA SeatingKeeps ==
  ASSUME TypeOK, OneSeatPerClient, NEW j \in Calls, NEW cl \in PendingCalls,
         NEW rst \in SUBSET roster, NEW known,
         online' = online, told' = known, JoinsGoOn, SeatsAreAnnounced(rst),
         OwnSeatOnly(j, cl, rst),
         InRooms(rst, rooms) => InRooms(roster', rooms'),
         call'[j] # call[j] \/ rst \ roster' = {},
         \A p, q \in rst : q.client \in told[p.client] => q.client \in known[p.client],
         \A p \in roster \ rst : idle[p.session][p.client] > PeerTtl
  PROVE  MembersKept
<1>1. NewsStay(rst)
  BY DEF NewsStay
<1>2. SeatsAreKept
  <2>1. ASSUME NEW p \in roster \ roster', p \in rst PROVE JoinOf(p.client)
    BY <2>1 DEF OwnSeatOnly, JoinOf
  <2> QED BY <2>1 DEF SeatsAreKept
<1>3. SeatedPeersReachable => SeatedPeersReachable'
  BY DEF SeatedPeersReachable, InRooms
<1> QED BY <1>1, <1>2, <1>3 DEF MembersKept, NewsKept

LEMMA StartJoinKeeps ==
  ASSUME TypeOK, OneSeatPerClient, NEW j \in Calls, NEW c \in Clients, NEW s \in SessionIds,
         NEW r \in Roles, NEW pw \in Passwords \cup {NoPassword}, StartJoin(j, c, s, r, pw)
  PROVE  MembersKept
<1>1. call[j].pc = "idle" /\ online' = online
  BY DEF StartJoin, Pending, sockets
<1>2. CASE CleanupExpiredPeers /\ UNCHANGED rooms /\ call' = call
  BY <1>1, <1>2, CleanupKeeps DEF JoinsGoOn
<1>3. CASE CleanupExpiredPeers /\ UNCHANGED rooms
             /\ call' = [call EXCEPT ![j] = NewCall(c, s, r, pw)]
  <2>1. JoinsGoOn
    BY <1>1, <1>3 DEF JoinsGoOn, TypeOK
  <2> QED BY <1>1, <1>3, <2>1, CleanupKeeps
<1>4. CASE LeaveOldSession(j, NewCall(c, s, r, NoPassword), LiveRoster, LiveIdle, LiveTold)
  <2>1. PICK cl : cl = NewCall(c, s, r, NoPassword)
    OBVIOUS
  <2>2. cl \in PendingCalls /\ LeaveOldSession(j, cl, LiveRoster, LiveIdle, LiveTold)
    BY <1>4, <2>1, NewCallTypes
  <2>3. LiveRoster \in SUBSET roster
    BY CleanupNews
  <2>4. /\ told' = LiveTold /\ JoinsGoOn /\ SeatsAreAnnounced(LiveRoster)
        /\ OwnSeatOnly(j, cl, LiveRoster)
        /\ InRooms(LiveRoster, rooms) => InRooms(roster', rooms')
    BY <1>1, <2>2, <2>3, LeaveOldSessionEffect
  <2>5. call'[j] # call[j] \/ LiveRoster \ roster' = {}
    BY <1>1, <2>4 DEF OwnSeatOnly
  <2> QED BY <1>1, <2>2, <2>3, <2>4, <2>5, CleanupNews, SeatingKeeps
<1> QED BY <1>1, <1>2, <1>3, <1>4 DEF StartJoin

\* A join goes on after the password or the host's answer.
LEMMA ResumedKeeps ==
  ASSUME TypeOK, OneSeatPerClient, NEW j \in Calls, NEW cl \in PendingCalls,
         Pending(j), cl.client = call[j].client, online' = online,
         \/ /\ call[j].pc \in {"password", "approval"}
            /\ LeaveOldSession(j, cl, roster, idle, told)
         \/ /\ call[j].pc = "leaving"
            /\ TakeSeat(j, cl, roster, idle, rooms, told)
  PROVE  MembersKept
<1>1. /\ told' = told /\ JoinsGoOn /\ SeatsAreAnnounced(roster)
      /\ OwnSeatOnly(j, cl, roster)
      /\ InRooms(roster, rooms) => InRooms(roster', rooms')
      /\ call'[j] # call[j]
  <2>1. rooms \in [SessionIds -> SUBSET Clients]
    BY DEF TypeOK
  <2> QED BY <2>1, TakeSeatEffect, LeaveOldSessionEffect
<1> QED BY <1>1, SeatingKeeps

LEMMA DisconnectKeeps ==
  ASSUME TypeOK, OneSeatPerClient, NEW c \in Clients, Disconnect(c)
  PROVE  MembersKept
<1>1. /\ c \in online /\ online' = online \ {c} /\ call' = call
      /\ rooms' = [s \in SessionIds |-> rooms[s] \ {c}]
  BY DEF Disconnect
<1>2. roster' = {p \in roster : p.client # c}
  <2>1. CASE SeatsOf(roster, c) = {} /\ roster' = roster
    BY <2>1 DEF SeatsOf
  <2>2. ASSUME NEW p \in SeatsOf(roster, c), roster' = roster \ {p}
        PROVE  roster' = {q \in roster : q.client # c}
    BY <2>2 DEF SeatsOf, OneSeatPerClient
  <2> QED BY <2>1, <2>2 DEF Disconnect
<1>3. NewsStay(roster)
  <2>1. ASSUME NEW p \in roster', NEW q \in roster', q.client \in told[p.client]
        PROVE  q.client \in told'[p.client]
    <3>1. p.client \in Clients /\ p.client # c /\ q.client # c
      BY <1>2 DEF TypeOK, Seats
    <3>2. CASE told' = [told EXCEPT ![c] = {}]
      BY <2>1, <3>1, <3>2 DEF TypeOK
    <3>3. ASSUME NEW g \in SeatsOf(roster, c), told' = [TellLeft(told, {g}) EXCEPT ![c] = {}]
          PROVE  q.client \in told'[p.client]
      <4>1. g.client = c
        BY DEF SeatsOf
      <4>2. TellLeft(told, {g}) \in [Clients -> SUBSET Clients]
        BY ToldTypes DEF TypeOK
      <4>3. q.client \in TellLeft(told, {g})[p.client]
        BY <2>1, <3>1, <4>1 DEF TellLeft
      <4> QED BY <3>1, <3>3, <4>2, <4>3
    <3> QED BY <3>2, <3>3 DEF Disconnect
  <2> QED BY <2>1 DEF NewsStay
<1>4. JoinsGoOn /\ SeatsAreAnnounced(roster)
  BY <1>1, <1>2 DEF JoinsGoOn, SeatsAreAnnounced
<1>5. SeatsAreKept
  BY <1>1, <1>2 DEF SeatsAreKept
<1>6. ASSUME SeatedPeersReachable PROVE SeatedPeersReachable'
  <2>1. ASSUME NEW p \in roster', p.client \in online' PROVE p.client \in rooms'[p.session]
    <3>1. p \in roster /\ p.client # c /\ p.client \in online /\ p.session \in SessionIds
      BY <1>1, <1>2, <2>1 DEF TypeOK, Seats
    <3> QED BY <1>1, <1>6, <3>1 DEF SeatedPeersReachable
  <2> QED BY <2>1 DEF SeatedPeersReachable
<1> QED BY <1>1, <1>3, <1>4, <1>5, <1>6 DEF MembersKept, NewsKept

LEMMA AskingKeepsJoins ==
  ASSUME TypeOK, NEW j \in Calls, NEW cl \in PendingCalls, RequestApproval(j, cl), call[j].pc # "joining"
  PROVE  JoinsGoOn
<1>1. \A x : call' = [call EXCEPT ![j] = x] => JoinsGoOn
  BY DEF JoinsGoOn, TypeOK
<1>2. EndCall(j) => JoinsGoOn
  BY <1>1 DEF EndCall
<1> QED BY <1>1, <1>2, Zenon DEF RequestApproval

\* Every step but the one that tells the news.
LEMMA StepKeeps ==
  ASSUME TypeOK, SeatsFollowJoins, [Next]_vars, \A j \in Calls : ~FinishJoin(j)
  PROVE  MembersKept
<1>1. OneSeatPerClient
  BY DEF SeatsFollowJoins
<1>2. ASSUME NEW c \in Clients, Connect(c) PROVE MembersKept
  BY <1>2, NothingMoves DEF Connect, Mentioned, JoinsGoOn
<1>3. ASSUME NEW j \in Calls, ReadSettings(j) \/ ApprovalTimesOut(j) PROVE MembersKept
  <2>1. UNCHANGED membership /\ online' = online
    BY <1>3 DEF ReadSettings, ApprovalTimesOut, sockets
  <2>2. JoinsGoOn
    BY <1>3 DEF ReadSettings, ApprovalTimesOut, EndCall, JoinsGoOn, TypeOK
  <2> QED BY <2>1, <2>2, NothingMoves
<1>4. ASSUME NEW j \in Calls, CheckPassword(j) PROVE MembersKept
  <2> DEFINE cl == [call[j] EXCEPT !.password = NoPassword]
  <2>0. Pending(j)
    BY <1>4 DEF CheckPassword, Pending
  <2>1. call[j].pc = "password" /\ online' = online
    BY <1>4 DEF CheckPassword, Pending, sockets
  <2>2. cl \in PendingCalls /\ cl.client = call[j].client
    <3>1. call[j] \in PendingCalls /\ 0 \in 0 .. ApprovalTimeout
      BY <2>0, GatewayConstants DEF Pending, TypeOK, IdleCall
    <3> QED BY <3>1 DEF PendingCalls
  <2> HIDE DEF cl
  <2>3. CASE UNCHANGED membership /\ (EndCall(j) \/ RequestApproval(j, cl))
    <3>1. JoinsGoOn
      <4>1. CASE EndCall(j)
        BY <2>1, <4>1 DEF EndCall, JoinsGoOn, TypeOK
      <4> QED BY <2>1, <2>2, <2>3, <4>1, AskingKeepsJoins
    <3> QED BY <2>1, <2>3, <3>1, NothingMoves
  <2>4. CASE LeaveOldSession(j, cl, roster, idle, told)
    BY <1>1, <2>0, <2>1, <2>2, <2>4, ResumedKeeps
  <2> QED BY <1>4, <2>3, <2>4 DEF CheckPassword, cl
<1>5. ASSUME NEW j \in Calls, NEW approved \in BOOLEAN, HostAnswers(j, approved)
      PROVE  MembersKept
  <2> DEFINE cl == [call[j] EXCEPT !.asked = {}, !.timeLeft = 0]
  <2>0. Pending(j)
    BY <1>5 DEF HostAnswers, Pending
  <2>1. call[j].pc = "approval" /\ online' = online
    BY <1>5 DEF HostAnswers, Pending, sockets
  <2>2. cl \in PendingCalls /\ cl.client = call[j].client
    <3>1. call[j] \in PendingCalls /\ 0 \in 0 .. ApprovalTimeout
      BY <2>0, GatewayConstants DEF Pending, TypeOK, IdleCall
    <3> QED BY <3>1 DEF PendingCalls
  <2> HIDE DEF cl
  <2>3. CASE UNCHANGED membership /\ EndCall(j)
    <3>1. JoinsGoOn
      BY <2>1, <2>3 DEF EndCall, JoinsGoOn, TypeOK
    <3> QED BY <2>1, <2>3, <3>1, NothingMoves
  <2>4. CASE LeaveOldSession(j, cl, roster, idle, told)
    BY <1>1, <2>0, <2>1, <2>2, <2>4, ResumedKeeps
  <2> QED BY <1>5, <2>3, <2>4 DEF HostAnswers, cl
<1>6. ASSUME NEW j \in Calls, ResumeAfterLeave(j) PROVE MembersKept
  <2>1. online' = online
    BY <1>6 DEF ResumeAfterLeave, sockets
  <2>0. Pending(j)
    BY <1>6 DEF ResumeAfterLeave, Pending
  <2>2. call[j] \in PendingCalls
    BY <2>0 DEF Pending, TypeOK, IdleCall
  <2>3. call[j].pc = "leaving" /\ TakeSeat(j, call[j], roster, idle, rooms, told)
    BY <1>6 DEF ResumeAfterLeave
  <2> QED BY <1>1, <2>0, <2>1, <2>2, <2>3, ResumedKeeps
<1>7. ASSUME NEW c \in Clients, NEW s \in SessionIds, TouchPeer(c, s) PROVE MembersKept
  BY <1>7, NothingMoves DEF TouchPeer, membership, sockets, JoinsGoOn, MembersKept, NewsKept,
     SeatsAreAnnounced, NewsStay, SeatsAreKept, SeatedPeersReachable
<1>8. CASE CleanupTimer
  BY <1>1, <1>8, CleanupKeeps DEF CleanupTimer, JoinsGoOn, sockets
<1>9. CASE ChangeSettings \/ UNCHANGED vars
  BY <1>9, NothingMoves DEF ChangeSettings, vars, sockets, JoinsGoOn
<1>10. CASE Tick
  BY <1>10 DEF Tick, sockets, JoinsGoOn, MembersKept, NewsKept,
     SeatsAreAnnounced, NewsStay, SeatsAreKept, SeatedPeersReachable
<1> QED BY <1>1, <1>2, <1>3, <1>4, <1>5, <1>6, <1>7, <1>8, <1>9, <1>10, StartJoinKeeps,
           DisconnectKeeps
        DEF Next, ClientStep, ResumeJoin, Heartbeat, RelaySignal, AnnounceShutdown

\* The step that tells the news: the room hears of the client, the client of
\* the others.
LEMMA FinishJoinEffect ==
  ASSUME TypeOK, NEW j \in Calls, FinishJoin(j)
  PROVE  /\ UNCHANGED <<roster, rooms, online>>
         /\ call[j].pc = "joining" /\ call'[j].pc = "idle"
         /\ \A k \in Calls : k # j => call'[k] = call[k]
         /\ \A c \in Clients : told[c] \subseteq told'[c]
         /\ call[j].client \in online => call[j].existing \subseteq told'[call[j].client]
         /\ \A c \in Clients :
              c # call[j].client /\ c \in rooms[call[j].session] => call[j].client \in told'[c]
<1>1. call[j].pc = "joining" /\ call[j] \in PendingCalls
  BY DEF FinishJoin, TypeOK, IdleCall
<1>2. call[j].client \in Clients
  BY <1>1 DEF PendingCalls
<1>3. call'[j].pc = "idle" /\ \A k \in Calls : k # j => call'[k] = call[k]
  BY DEF FinishJoin, EndCall, IdleCall, TypeOK
<1> QED BY <1>1, <1>2, <1>3 DEF FinishJoin, sockets

\* In steps that keep the members, the news stay under way.
LEMMA NewsStayOnTheWay ==
  ASSUME NewsOnTheWay, NewsKept
  PROVE  NewsOnTheWay'
<1>1. PICK rst \in SUBSET roster : SeatsAreAnnounced(rst) /\ NewsStay(rst)
  BY DEF NewsKept
<1>2. SUFFICES ASSUME NEW p \in roster', NEW q \in roster',
                      p.session = q.session, p.client # q.client,
                      p.client \in online', q.client \in online', ~BeingAnnounced(q)'
               PROVE  q.client \in told'[p.client] \/ WillHear(p, q)'
  BY DEF NewsOnTheWay
<1>3. q \in rst
  BY <1>1, <1>2 DEF SeatsAreAnnounced, BeingAnnounced
<1>4. CASE p \notin rst
  BY <1>1, <1>2, <1>4 DEF SeatsAreAnnounced, WillHear
<1>5. CASE p \in rst
  <2>1. ~BeingAnnounced(q) /\ {p.client, q.client} \subseteq online
    BY <1>2, <1>3, <1>5 DEF NewsKept, JoinsGoOn, BeingAnnounced
  <2>2. q.client \in told[p.client] \/ WillHear(p, q)
    BY <1>2, <1>3, <1>5, <2>1 DEF NewsOnTheWay
  <2>3. WillHear(p, q) => WillHear(p, q)'
    BY DEF NewsKept, JoinsGoOn, WillHear
  <2>4. q.client \in told[p.client] => q.client \in told'[p.client]
    BY <1>1, <1>2, <1>3, <1>5 DEF NewsStay
  <2> QED BY <2>2, <2>3, <2>4
<1> QED BY <1>4, <1>5

LEMMA NewsAreTold ==
  ASSUME TypeOK, NewsOnTheWay, SeatedPeersReachable, NEW j \in Calls, FinishJoin(j)
  PROVE  NewsOnTheWay'
<1>1. SUFFICES ASSUME NEW p \in roster, NEW q \in roster,
                      p.session = q.session, p.client # q.client,
                      p.client \in online, q.client \in online, ~BeingAnnounced(q)'
               PROVE  q.client \in told'[p.client] \/ WillHear(p, q)'
  BY FinishJoinEffect DEF NewsOnTheWay
<1>2. p.client \in Clients /\ p.client \in rooms[p.session]
  BY <1>1 DEF TypeOK, Seats, SeatedPeersReachable
<1>3. CASE BeingAnnounced(q)
  <2>1. call[j].client = q.client /\ call[j].session = q.session
    BY <1>1, <1>3, FinishJoinEffect DEF BeingAnnounced
  <2> QED BY <1>1, <1>2, <2>1, FinishJoinEffect
<1>4. CASE ~BeingAnnounced(q)
  <2>1. q.client \in told[p.client] \/ WillHear(p, q)
    BY <1>1, <1>4 DEF NewsOnTheWay
  <2>2. CASE q.client \in told[p.client]
    BY <1>2, <2>2, FinishJoinEffect
  <2>3. CASE WillHear(p, q)
    <3>1. PICK k \in Calls : /\ call[k].pc = "joining"
                             /\ call[k].client = p.client
                             /\ call[k].session = p.session
                             /\ q.client \in call[k].existing
      BY <2>3 DEF WillHear
    <3>2. CASE k = j
      BY <1>1, <3>1, <3>2, FinishJoinEffect
    <3>3. CASE k # j
      BY <3>1, <3>3, FinishJoinEffect DEF WillHear
    <3> QED BY <3>2, <3>3
  <2> QED BY <2>1, <2>2, <2>3
<1> QED BY <1>3, <1>4

\* A member whose socket is connected is in the socket.io room of its session
\* after every handler, also when joins and leaves of one socket overlap
\* (joinSession's client.leave and client.join).
THEOREM MembersAreReachable == Spec => []SeatedPeersReachable
<1>1. Init => SeatedPeersReachable
  BY DEF Init, SeatedPeersReachable
<1>2. ASSUME TypeOK, SeatsFollowJoins, SeatedPeersReachable, [Next]_vars
      PROVE  SeatedPeersReachable'
  <2>1. ASSUME NEW j \in Calls, FinishJoin(j) PROVE SeatedPeersReachable'
    BY <1>2, <2>1, FinishJoinEffect DEF SeatedPeersReachable
  <2> QED BY <1>2, <2>1, StepKeeps DEF MembersKept
<1>3. QED
  BY <1>1, <1>2, TypeCorrect, SeatsFollow, PTL DEF Spec

\* The members of a session know of each other once their joins are through,
\* whatever else joined, left, expired or moved meanwhile (session:joined and
\* session:peer-joined at the end of joinSession).
THEOREM MembersAreAnnounced == Spec => []PeersAnnounced
<1>1. Init => NewsOnTheWay
  BY DEF Init, NewsOnTheWay
<1>2. ASSUME TypeOK, SeatsFollowJoins, SeatedPeersReachable, NewsOnTheWay, [Next]_vars
      PROVE  NewsOnTheWay'
  <2>1. ASSUME NEW j \in Calls, FinishJoin(j) PROVE NewsOnTheWay'
    BY <1>2, <2>1, NewsAreTold
  <2> QED BY <1>2, <2>1, StepKeeps, NewsStayOnTheWay DEF MembersKept
<1>3. NewsOnTheWay => PeersAnnounced
  BY DEF NewsOnTheWay, PeersAnnounced, WillHear, BeingAnnounced
<1>4. QED
  BY <1>1, <1>2, <1>3, TypeCorrect, SeatsFollow, MembersAreReachable, PTL DEF Spec

\* Nobody loses a seat to another client: only to time, its own disconnect or a
\* join of its own socket (assertCapacity, removePeer, removeExpiredPeers).
THEOREM SeatsAreNotStolen == Spec => SeatsNotStolen
<1>1. TypeOK /\ SeatsFollowJoins /\ [Next]_vars => [SeatsAreKept]_vars
  <2>1. SUFFICES ASSUME TypeOK, SeatsFollowJoins, [Next]_vars PROVE SeatsAreKept
    OBVIOUS
  <2>2. CASE \A j \in Calls : ~FinishJoin(j)
    BY <2>1, <2>2, StepKeeps DEF MembersKept
  <2>3. ASSUME NEW j \in Calls, FinishJoin(j) PROVE SeatsAreKept
    BY <2>1, <2>3, FinishJoinEffect DEF SeatsAreKept
  <2> QED BY <2>2, <2>3
<1>2. QED
  BY <1>1, TypeCorrect, SeatsFollow, PTL DEF Spec, SeatsNotStolen, SeatsAreKept

------------------------------------------------------------------------------
(* The limiters' logs.                                                      *)

\* A set of numbers that is not empty has a least one.
LEMMA LeastNumber ==
  ASSUME NEW S \in SUBSET Nat, S # {}
  PROVE  \E x \in S : \A y \in S : x <= y
<1>1. PICK R : R = {ss \in Nat \X Nat : ss[1] < ss[2]}
  OBVIOUS
<1>2. IsWellFoundedOn(R, Nat)
  BY <1>1, NatLessThanWellFounded DEF OpToRel
<1>3. PICK x \in S : \A y \in S : ~(<<y, x>> \in R)
  BY ONLY <1>2, WFMin, S \in SUBSET Nat, S # {}
<1>4. ASSUME NEW y \in S PROVE x <= y
  <2>1. x \in Nat /\ y \in Nat /\ <<y, x>> \in Nat \X Nat
    OBVIOUS
  <2>2. ~(<<y, x>>[1] < <<y, x>>[2])
    BY <1>1, <1>3, <2>1
  <2>3. QED
    BY <2>1, <2>2
<1>5. QED
  BY <1>4

\* Induction over the numbers, for a set.
LEMMA SetInduction ==
  ASSUME NEW S, 0 \in S, \A n \in Nat : n \in S => n + 1 \in S
  PROVE  Nat \subseteq S
<1> SUFFICES ASSUME Nat \ S # {} PROVE FALSE
  OBVIOUS
<1>1. PICK x \in Nat \ S : \A y \in Nat \ S : x <= y
  BY LeastNumber
<1>2. x # 0 /\ x - 1 \in Nat /\ x = (x - 1) + 1
  BY <1>1
<1>3. x - 1 \in S
  BY <1>1, <1>2
<1>4. QED
  BY <1>1, <1>2, <1>3

\* The values of f up to n are the sums of the log.
Sums(f, log, n) ==
  f = [m \in 0 .. n |-> IF m = 0 THEN 0 ELSE f[m - 1] + log[m - 1]]

LEMMA SumsAreDefined ==
  ASSUME NEW log, NEW n \in Nat
  PROVE  \E f : Sums(f, log, n)
<1> DEFINE S == {k \in Nat : \E f : Sums(f, log, k)}
<1>1. 0 \in S
  <2>1. PICK f : f = [m \in 0 .. 0 |-> 0]
    OBVIOUS
  <2>2. Sums(f, log, 0)
    BY <2>1 DEF Sums
  <2>3. QED
    BY <2>2
<1>2. ASSUME NEW k \in Nat, k \in S PROVE k + 1 \in S
  <2>1. PICK f : Sums(f, log, k)
    BY <1>2
  <2>2. PICK g : g = [m \in 0 .. k + 1 |-> IF m \in 0 .. k THEN f[m] ELSE f[k] + log[k]]
    OBVIOUS
  <2>3. \A m \in 0 .. k : g[m] = f[m]
    BY <2>2
  <2>4. ASSUME NEW m \in 0 .. k + 1
        PROVE  g[m] = IF m = 0 THEN 0 ELSE g[m - 1] + log[m - 1]
    <3>1. CASE m \in 0 .. k
      <4>1. f[m] = IF m = 0 THEN 0 ELSE f[m - 1] + log[m - 1]
        BY <2>1, <3>1 DEF Sums
      <4>2. m # 0 => g[m - 1] = f[m - 1]
        BY <2>3, <3>1
      <4>3. QED
        BY <2>3, <3>1, <4>1, <4>2
    <3>2. CASE m = k + 1
      <4>1. m # 0 /\ m \notin 0 .. k /\ m - 1 = k /\ k \in 0 .. k
        BY <3>2
      <4>2. g[m] = f[k] + log[k] /\ g[k] = f[k]
        BY <2>2, <2>3, <4>1
      <4>3. QED
        BY <4>1, <4>2
    <3>3. QED
      BY <3>1, <3>2
  <2>5. Sums(g, log, k + 1)
    BY <2>2, <2>4 DEF Sums
  <2>6. QED
    BY <2>5
<1> HIDE DEF S
<1>3. n \in S
  BY <1>1, <1>2, SetInduction
<1>4. QED
  BY <1>3 DEF S

\* The sums of a log do not depend on how far they go.
LEMMA SumsAgree ==
  ASSUME NEW log, NEW n \in Nat, NEW f, Sums(f, log, n),
         NEW k \in Nat, NEW g, Sums(g, log, k)
  PROVE  \A m \in Nat : m <= n /\ m <= k => f[m] = g[m]
<1> DEFINE S == {m \in Nat : m <= n /\ m <= k => f[m] = g[m]}
<1>1. /\ \A m \in 0 .. n : f[m] = IF m = 0 THEN 0 ELSE f[m - 1] + log[m - 1]
      /\ \A m \in 0 .. k : g[m] = IF m = 0 THEN 0 ELSE g[m - 1] + log[m - 1]
  BY DEF Sums
<1>2. 0 \in S
  BY <1>1
<1>3. ASSUME NEW m \in Nat, m \in S PROVE m + 1 \in S
  <2> SUFFICES ASSUME m + 1 <= n, m + 1 <= k PROVE f[m + 1] = g[m + 1]
    OBVIOUS
  <2>1. /\ m + 1 \in 0 .. n /\ m + 1 \in 0 .. k /\ m + 1 # 0 /\ (m + 1) - 1 = m
        /\ m <= n /\ m <= k
    OBVIOUS
  <2>2. f[m] = g[m]
    BY <1>3, <2>1
  <2>3. f[m + 1] = f[m] + log[m] /\ g[m + 1] = g[m] + log[m]
    BY <1>1, <2>1
  <2>4. QED
    BY <2>2, <2>3
<1> HIDE DEF S
<1>4. Nat \subseteq S
  BY <1>2, <1>3, SetInduction
<1>5. QED
  BY <1>4 DEF S

\* How the events of a log add up, tick by tick.
LEMMA YoungerSteps ==
  ASSUME NEW log
  PROVE  /\ Younger(log, 0) = 0
         /\ \A n \in Nat : Younger(log, n + 1) = Younger(log, n) + log[n]
<1> DEFINE sums(n) == CHOOSE f : Sums(f, log, n)
<1>1. ASSUME NEW n \in Nat
      PROVE  Sums(sums(n), log, n) /\ Younger(log, n) = sums(n)[n]
  <2>1. Sums(sums(n), log, n)
    BY SumsAreDefined
  <2>2. Younger(log, n) = sums(n)[n]
    BY DEF Younger, Sums
  <2>3. QED
    BY <2>1, <2>2
<1> HIDE DEF sums
<1>2. \A n \in Nat : \A m \in 0 .. n :
        sums(n)[m] = IF m = 0 THEN 0 ELSE sums(n)[m - 1] + log[m - 1]
  BY <1>1 DEF Sums
<1>3. Younger(log, 0) = 0
  BY <1>1, <1>2
<1>4. ASSUME NEW n \in Nat
      PROVE  Younger(log, n + 1) = Younger(log, n) + log[n]
  <2>1. n + 1 \in Nat /\ n + 1 \in 0 .. n + 1 /\ n + 1 # 0 /\ (n + 1) - 1 = n /\ n <= n
        /\ n <= n + 1
    OBVIOUS
  <2>2. sums(n + 1)[n + 1] = sums(n + 1)[n] + log[n]
    BY <1>2, <2>1
  <2>3. sums(n + 1)[n] = sums(n)[n]
    BY <1>1, <2>1, SumsAgree
  <2>4. QED
    BY <1>1, <2>1, <2>2, <2>3
<1>5. QED
  BY <1>3, <1>4

\* Counting the events of a log, and of what becomes of it.
LEMMA LogCounts ==
  ASSUME NEW w \in Nat, NEW log \in Log(w)
  PROVE  /\ ActiveEvents(log) = Younger(log, w)
         /\ \A n \in 0 .. w :
              /\ Younger(log, n) \in Nat
              /\ Younger(EmptyLog(w), n) = 0 /\ Younger(Reset(log), n) = 0
              /\ Younger(Record(log), n) = IF n = 0 THEN 0 ELSE Younger(log, n) + 1
         /\ \A n \in 0 .. w - 1 : /\ Younger(log, n) <= Younger(log, n + 1)
                                  /\ Younger(Older(log), n + 1) = Younger(log, n)
<1>1. DOMAIN log = 0 .. w - 1 /\ \A a \in 0 .. w - 1 : log[a] \in Nat
  BY DEF Log
<1>2. ActiveEvents(log) = Younger(log, w)
  <2>1. Cardinality(0 .. w - 1) = w
    BY FS_Interval
  <2>2. QED
    BY <1>1, <2>1 DEF ActiveEvents
<1> DEFINE Right(n) ==
             /\ Younger(log, n) \in Nat
             /\ Younger(EmptyLog(w), n) = 0 /\ Younger(Reset(log), n) = 0
             /\ Younger(Record(log), n) = IF n = 0 THEN 0 ELSE Younger(log, n) + 1
           S == {n \in Nat : n <= w => Right(n)}
<1>3. 0 \in S
  BY YoungerSteps
<1>4. ASSUME NEW n \in Nat, n \in S PROVE n + 1 \in S
  <2> SUFFICES ASSUME n + 1 <= w PROVE Right(n + 1)
    OBVIOUS
  <2>1. n \in 0 .. w - 1 /\ Right(n) /\ n + 1 # 0
    BY <1>4
  <2>2. /\ log[n] \in Nat /\ EmptyLog(w)[n] = 0 /\ Reset(log)[n] = 0
        /\ Record(log)[n] = IF n = 0 THEN log[n] + 1 ELSE log[n]
    BY <1>1, <2>1 DEF EmptyLog, Reset, Record
  <2>3. /\ Younger(log, n + 1) = Younger(log, n) + log[n]
        /\ Younger(EmptyLog(w), n + 1) = Younger(EmptyLog(w), n) + EmptyLog(w)[n]
        /\ Younger(Reset(log), n + 1) = Younger(Reset(log), n) + Reset(log)[n]
        /\ Younger(Record(log), n + 1) = Younger(Record(log), n) + Record(log)[n]
    BY YoungerSteps
  <2>4. n = 0 => Younger(log, n) = 0
    BY YoungerSteps
  <2>5. QED
    BY <2>1, <2>2, <2>3, <2>4
<1> HIDE DEF S
<1>5. Nat \subseteq S
  BY <1>3, <1>4, SetInduction
<1>6. \A n \in 0 .. w : Right(n)
  BY <1>5 DEF S
<1> DEFINE T == {n \in Nat : n < w => Younger(Older(log), n + 1) = Younger(log, n)}
<1>7. 0 \in T
  <2> SUFFICES ASSUME 0 < w PROVE Younger(Older(log), 0 + 1) = Younger(log, 0)
    OBVIOUS
  <2>1. Older(log)[0] = 0
    BY <1>1 DEF Older
  <2>2. Younger(Older(log), 0 + 1) = Younger(Older(log), 0) + Older(log)[0]
    BY YoungerSteps
  <2>3. QED
    BY <2>1, <2>2, YoungerSteps
<1>8. ASSUME NEW n \in Nat, n \in T PROVE n + 1 \in T
  <2> SUFFICES ASSUME n + 1 < w
               PROVE  Younger(Older(log), (n + 1) + 1) = Younger(log, n + 1)
    OBVIOUS
  <2>1. n + 1 \in 0 .. w - 1 /\ n + 1 # 0 /\ (n + 1) - 1 = n /\ n + 1 \in Nat
    OBVIOUS
  <2>2. Older(log)[n + 1] = log[n]
    BY <1>1, <2>1 DEF Older
  <2>3. /\ Younger(Older(log), (n + 1) + 1) = Younger(Older(log), n + 1) + Older(log)[n + 1]
        /\ Younger(log, n + 1) = Younger(log, n) + log[n]
    BY <2>1, YoungerSteps
  <2>4. Younger(Older(log), n + 1) = Younger(log, n)
    BY <1>8
  <2>5. QED
    BY <2>2, <2>3, <2>4
<1> HIDE DEF T
<1>9. Nat \subseteq T
  BY <1>7, <1>8, SetInduction
<1>10. ASSUME NEW n \in 0 .. w - 1
       PROVE  /\ Younger(log, n) <= Younger(log, n + 1)
              /\ Younger(Older(log), n + 1) = Younger(log, n)
  <2>1. Younger(log, n + 1) = Younger(log, n) + log[n] /\ log[n] \in Nat
    BY <1>1, YoungerSteps
  <2>2. Younger(log, n) \in Nat
    BY <1>6
  <2>3. Younger(Older(log), n + 1) = Younger(log, n)
    BY <1>9 DEF T
  <2>4. QED
    BY <2>1, <2>2, <2>3
<1>11. QED
  BY <1>2, <1>6, <1>10

\* The step of a join leaves the other joins alone.
LEMMA OtherCallsStay ==
  ASSUME TypeOK, NEW j \in Calls,
         \/ \E c \in Clients, s \in SessionIds, r \in Roles,
               pw \in Passwords \cup {NoPassword} : StartJoin(j, c, s, r, pw)
         \/ ResumeJoin(j)
         \/ \E approved \in BOOLEAN : HostAnswers(j, approved)
  PROVE  \A k \in Calls : k # j => call'[k] = call[k]
<1> DEFINE Stay == \A k \in Calls : k # j => call'[k] = call[k]
<1>1. \A cl : call' = [call EXCEPT ![j] = cl] => Stay
  BY DEF TypeOK
<1>2. call' = call => Stay
  OBVIOUS
<1>3. EndCall(j) => Stay
  BY <1>1 DEF EndCall
<1> HIDE DEF Stay
<1>4. \A cl, rst, idl, rms, known : TakeSeat(j, cl, rst, idl, rms, known) => Stay
  BY <1>1, <1>3 DEF TakeSeat
<1>5. \A cl, rst, idl, known : LeaveOldSession(j, cl, rst, idl, known) => Stay
  BY <1>1, <1>4 DEF LeaveOldSession
<1>6. \A cl : RequestApproval(j, cl) => Stay
  BY <1>1, <1>3 DEF RequestApproval
<1>7. ASSUME NEW c \in Clients, NEW s \in SessionIds, NEW r \in Roles,
             NEW pw \in Passwords \cup {NoPassword}, StartJoin(j, c, s, r, pw)
      PROVE  Stay
  BY <1>1, <1>2, <1>5, <1>7 DEF StartJoin
<1>8. ResumeJoin(j) => Stay
  <2>1. ReadSettings(j) => Stay
    BY <1>1, <1>3 DEF ReadSettings
  <2>2. CheckPassword(j) => Stay
    BY <1>3, <1>5, <1>6 DEF CheckPassword
  <2>3. ApprovalTimesOut(j) \/ FinishJoin(j) => Stay
    BY <1>3 DEF ApprovalTimesOut, FinishJoin
  <2>4. ResumeAfterLeave(j) => Stay
    BY <1>4 DEF ResumeAfterLeave
  <2> QED BY <2>1, <2>2, <2>3, <2>4 DEF ResumeJoin
<1>9. ASSUME NEW approved \in BOOLEAN, HostAnswers(j, approved) PROVE Stay
  BY <1>3, <1>5, <1>9 DEF HostAnswers
<1> QED BY <1>7, <1>8, <1>9 DEF Stay

\* Which steps concern the limiters behind the password: time, the verdict on a
\* password, and the step that lets a password past the limiter.  In all others
\* the joins that wait for a verdict or for the host's answer are those that
\* waited before.
LimiterIdles ==
  /\ UNCHANGED <<passwordFailures, approvalRequests>>
  /\ \A k \in Calls : call'[k].pc \in {"password", "approval"} => call'[k] = call[k]

LEMMA LimiterSteps ==
  ASSUME TypeOK, [Next]_vars
  PROVE  \/ Tick
         \/ \E j \in Calls : CheckPassword(j) \/ ReadSettings(j)
         \/ LimiterIdles
<1> SUFFICES ASSUME ~Tick, \A j \in Calls : ~CheckPassword(j) /\ ~ReadSettings(j)
             PROVE  LimiterIdles
  OBVIOUS
<1>1. UNCHANGED <<passwordFailures, approvalRequests>>
  <2>1. CASE \/ CleanupTimer \/ ChangeSettings \/ UNCHANGED vars
    BY <2>1 DEF CleanupTimer, ChangeSettings, vars, limiters
  <2>2. ASSUME NEW c \in Clients, ClientStep(c)
        PROVE  UNCHANGED <<passwordFailures, approvalRequests>>
    BY <2>2 DEF ClientStep, Connect, Disconnect, StartJoin, Heartbeat, RelaySignal,
                AnnounceShutdown, TouchPeer, limiters
  <2>3. ASSUME NEW j \in Calls,
               ResumeJoin(j) \/ \E approved \in BOOLEAN : HostAnswers(j, approved)
        PROVE  UNCHANGED <<passwordFailures, approvalRequests>>
    BY <2>3 DEF ResumeJoin, ApprovalTimesOut, ResumeAfterLeave, FinishJoin, HostAnswers,
                limiters
  <2> QED BY <2>1, <2>2, <2>3 DEF Next
<1>2. ASSUME NEW j \in Calls, call'[j] # call[j]
      PROVE  call'[j].pc \notin {"password", "approval"}
  <2>1. \A x : call' = [call EXCEPT ![j] = x] => call'[j] = x
    BY DEF TypeOK
  <2>2. EndCall(j) => call'[j].pc = "idle"
    BY DEF EndCall, IdleCall, TypeOK
  <2>3. ASSUME NEW c \in Clients, NEW s \in SessionIds, NEW r \in Roles,
               NEW pw \in Passwords \cup {NoPassword}, StartJoin(j, c, s, r, pw)
        PROVE  call'[j].pc \notin {"password", "approval"}
    <3>1. NewCall(c, s, r, NoPassword) \in PendingCalls
      BY NewCallTypes
    <3>2. LeaveOldSession(j, NewCall(c, s, r, NoPassword), LiveRoster, LiveIdle, LiveTold)
            => call'[j].pc \notin {"password", "approval"}
      BY <3>1, SeatedCall
    <3>3. NewCall(c, s, r, pw).pc = "settings"
      BY DEF NewCall
    <3>4. call' = [call EXCEPT ![j] = NewCall(c, s, r, pw)]
            => call'[j].pc \notin {"password", "approval"}
      BY <2>1, <3>3
    <3> QED BY <1>2, <2>3, <3>2, <3>4 DEF StartJoin
  <2>4. ASSUME NEW approved \in BOOLEAN, HostAnswers(j, approved)
        PROVE  call'[j].pc \notin {"password", "approval"}
    <3> DEFINE cl == [call[j] EXCEPT !.asked = {}, !.timeLeft = 0]
    <3>1. call[j] \in PendingCalls
      BY <2>4 DEF HostAnswers, TypeOK, IdleCall
    <3>2. 0 \in 0 .. ApprovalTimeout
      BY GatewayConstants
    <3>3. cl \in PendingCalls
      BY <3>1, <3>2 DEF PendingCalls
    <3> HIDE DEF cl
    <3>4. LeaveOldSession(j, cl, roster, idle, told)
            => call'[j].pc \notin {"password", "approval"}
      BY <3>3, SeatedCall
    <3> QED BY <2>2, <2>4, <3>4 DEF HostAnswers, cl
  <2>5. CASE ApprovalTimesOut(j) \/ FinishJoin(j)
    BY <2>2, <2>5 DEF ApprovalTimesOut, FinishJoin
  <2>6. CASE ResumeAfterLeave(j)
    <3>1. call[j] \in PendingCalls
      BY <2>6 DEF ResumeAfterLeave, TypeOK, IdleCall
    <3>2. \A peers : [call[j] EXCEPT !.pc = "joining", !.existing = peers].pc = "joining"
      BY <3>1 DEF PendingCalls
    <3>3. \/ EndCall(j)
          \/ \E peers : call' = [call EXCEPT ![j] =
               [call[j] EXCEPT !.pc = "joining", !.existing = peers]]
      BY <2>6 DEF ResumeAfterLeave, TakeSeat
    <3> QED BY <2>1, <2>2, <3>2, <3>3
  <2> QED BY <1>2, <2>3, <2>4, <2>5, <2>6, CallSteps DEF ResumeJoin
<1> QED BY <1>1, <1>2 DEF LimiterIdles

------------------------------------------------------------------------------
(* Wrong passwords.                                                         *)

\* Guesses in flight are joins.
LEMMA GuessesAreCalls ==
  ASSUME NEW key
  PROVE  /\ IsFiniteSet(Guessing(key)) /\ IsFiniteSet(Guessing(key)')
         /\ Cardinality(Guessing(key)) \in Nat /\ Cardinality(Guessing(key)') \in Nat
         /\ Cardinality(Calls) \in Nat
         /\ Cardinality(Guessing(key)) <= Cardinality(Calls)
         /\ Cardinality(Guessing(key)') <= Cardinality(Calls)
<1>1. Guessing(key) \subseteq Calls /\ Guessing(key)' \subseteq Calls
  BY DEF Guessing
<1> HIDE DEF Guessing
<1> QED BY <1>1, GatewayConstants, FS_Subset, FS_CardinalityType

\* What an operation does to the count of a limiter with a real window.
LEMMA ActiveCounts ==
  ASSUME NEW w \in Nat \ {0}, NEW log \in Log(w)
  PROVE  /\ ActiveEvents(log) \in Nat
         /\ ActiveEvents(EmptyLog(w)) = 0 /\ ActiveEvents(Reset(log)) = 0
         /\ ActiveEvents(Record(log)) = ActiveEvents(log) + 1
         /\ ActiveEvents(Older(log)) <= ActiveEvents(log)
<1>1. w \in 0 .. w /\ w - 1 \in 0 .. w - 1 /\ (w - 1) + 1 = w
      /\ w \in Nat /\ w - 1 \in 0 .. w
  OBVIOUS
<1>2. /\ EmptyLog(w) \in Log(w) /\ Record(log) \in Log(w)
      /\ Reset(log) \in Log(w) /\ Older(log) \in Log(w)
  BY LogTypes
<1>3. \A l \in Log(w) : ActiveEvents(l) = Younger(l, w)
  BY LogCounts
<1>4. /\ Younger(log, w) \in Nat /\ Younger(log, w - 1) \in Nat
      /\ Younger(EmptyLog(w), w) = 0 /\ Younger(Reset(log), w) = 0
      /\ Younger(Record(log), w) = Younger(log, w) + 1
      /\ Younger(log, w - 1) <= Younger(log, w)
      /\ Younger(Older(log), w) = Younger(log, w - 1)
  BY <1>1, LogCounts
<1> QED BY <1>2, <1>3, <1>4

LEMMA GuessStep ==
  ASSUME TypeOK, PasswordFailuresBounded, [Next]_vars
  PROVE  PasswordFailuresBounded'
<1> SUFFICES ASSUME PasswordWindow > 0, NEW key \in Keys
             PROVE  (ActiveEvents(passwordFailures[key])
                       + Cardinality(Guessing(key)) <=
                     MaxPasswordFailures - 1 + Cardinality(Calls))'
  BY DEF PasswordFailuresBounded
<1> DEFINE log == passwordFailures[key]
           Bound == MaxPasswordFailures - 1 + Cardinality(Calls)
<1>1. /\ PasswordWindow \in Nat \ {0} /\ MaxPasswordFailures \in Nat \ {0}
      /\ log \in Log(PasswordWindow)
  BY GatewayConstants DEF TypeOK
<1>2. ActiveEvents(log) + Cardinality(Guessing(key)) <= Bound
  BY DEF PasswordFailuresBounded
<1>3. /\ ActiveEvents(log) \in Nat /\ ActiveEvents(Reset(log)) = 0
      /\ ActiveEvents(Record(log)) = ActiveEvents(log) + 1
      /\ ActiveEvents(Older(log)) <= ActiveEvents(log)
      /\ ActiveEvents(Older(log)) \in Nat
  <2>1. Older(log) \in Log(PasswordWindow)
    BY <1>1, LogTypes
  <2> QED BY <1>1, <2>1, ActiveCounts
<1>4. CASE /\ passwordFailures' = passwordFailures
           /\ Guessing(key)' \subseteq Guessing(key)
  <2>1. Cardinality(Guessing(key)') <= Cardinality(Guessing(key))
    BY <1>4, GuessesAreCalls, FS_Subset
  <2>2. /\ Cardinality(Guessing(key)) \in Nat /\ Cardinality(Guessing(key)') \in Nat
        /\ Cardinality(Calls) \in Nat
    BY GuessesAreCalls
  <2> QED BY <1>1, <1>2, <1>3, <1>4, <2>1, <2>2
<1>5. CASE Tick
  <2>1. log' = Older(log)
    BY <1>5 DEF Tick
  <2>2. Guessing(key)' \subseteq Guessing(key)
    <3> SUFFICES ASSUME NEW k \in Calls, k \in Guessing(key)' PROVE k \in Guessing(key)
      BY DEF Guessing
    <3>1. call[k].pc = "approval" => call'[k].pc = "approval"
      <4> SUFFICES ASSUME call[k].pc = "approval" PROVE call'[k].pc = "approval"
        OBVIOUS
      <4>1. call[k] \in PendingCalls
        BY DEF TypeOK, IdleCall
      <4> QED BY <1>5, <4>1 DEF Tick, PendingCalls
    <3> QED BY <1>5, <3>1 DEF Tick, Guessing
  <2> QED BY <1>1, <1>2, <1>3, <2>1, <2>2, GuessesAreCalls, FS_Subset
<1>6. CASE LimiterIdles
  <2>1. Guessing(key)' \subseteq Guessing(key)
    BY <1>6 DEF LimiterIdles, Guessing
  <2> QED BY <1>4, <1>6, <2>1 DEF LimiterIdles
<1>7. ASSUME NEW j \in Calls, CheckPassword(j) \/ ReadSettings(j)
      PROVE  (ActiveEvents(log) + Cardinality(Guessing(key)) <= Bound)'
  <2>1. call[j] \in PendingCalls
    BY <1>7 DEF CheckPassword, ReadSettings, TypeOK, IdleCall
  <2>2. \A k \in Calls : k # j => call'[k] = call[k]
    BY <1>7, OtherCallsStay DEF ResumeJoin
  <2>3. CASE CheckPassword(j)
    <3> DEFINE cl == [call[j] EXCEPT !.password = NoPassword]
    <3>1. cl \in PendingCalls /\ KeyOf(cl) = KeyOf(call[j])
      BY <2>1 DEF PendingCalls, KeyOf
    <3> HIDE DEF cl
    <3>2. call'[j].pc # "password"
      <4>1. EndCall(j) => call'[j].pc = "idle"
        BY DEF EndCall, IdleCall, TypeOK
      <4>2. LeaveOldSession(j, cl, roster, idle, told) => call'[j].pc # "password"
        BY <3>1, SeatedCall
      <4>3. RequestApproval(j, cl) => call'[j].pc # "password"
        BY <3>1, AskedCall
      <4> QED BY <2>3, <4>1, <4>2, <4>3 DEF CheckPassword, cl
    <3>3. Guessing(key)' \subseteq Guessing(key) \ {j}
      BY <2>2, <3>2 DEF Guessing
    <3>4. \/ passwordFailures' = [passwordFailures EXCEPT ![KeyOf(cl)] = Record(@)]
          \/ passwordFailures' = [passwordFailures EXCEPT ![KeyOf(cl)] = Reset(@)]
      BY <2>3 DEF CheckPassword, cl
    <3>5. CASE KeyOf(cl) # key
      <4>1. log' = log
        BY <3>4, <3>5 DEF TypeOK
      <4> QED BY <1>1, <1>2, <1>3, <3>3, <4>1, GuessesAreCalls, FS_Subset
    <3>6. CASE KeyOf(cl) = key
      <4>1. log' = Record(log) \/ log' = Reset(log)
        BY <3>4, <3>6 DEF TypeOK
      <4>2. j \in Guessing(key)
        BY <2>3, <3>1, <3>6 DEF CheckPassword, Guessing
      <4>3. Cardinality(Guessing(key) \ {j}) = Cardinality(Guessing(key)) - 1
        BY <4>2, GuessesAreCalls, FS_RemoveElement
      <4>4. /\ IsFiniteSet(Guessing(key) \ {j})
            /\ Cardinality(Guessing(key)') <= Cardinality(Guessing(key) \ {j})
        BY <3>3, GuessesAreCalls, FS_Subset
      <4> QED BY <1>1, <1>2, <1>3, <4>1, <4>3, <4>4, GuessesAreCalls
    <3> QED BY <3>5, <3>6
  <2>4. CASE ReadSettings(j)
    <3>1. UNCHANGED passwordFailures
      BY <2>4 DEF ReadSettings, limiters
    <3>2. CASE ActiveEvents(log) < MaxPasswordFailures
      BY <1>1, <1>3, <3>1, <3>2, GuessesAreCalls
    <3>3. CASE ~(ActiveEvents(log) < MaxPasswordFailures)
      <4>1. CASE EndCall(j)
        <5>1. call'[j].pc = "idle"
          BY <4>1 DEF EndCall, IdleCall, TypeOK
        <5>2. Guessing(key)' \subseteq Guessing(key)
          BY <2>2, <5>1 DEF Guessing
        <5> QED BY <1>4, <3>1, <5>2
      <4>2. CASE /\ IsAllowed(passwordFailures[KeyOf(call[j])], MaxPasswordFailures)
                 /\ call' = [call EXCEPT ![j] =
                      [@ EXCEPT !.pc = "password",
                                !.needsApproval = settings.requireApproval]]
        <5>1. KeyOf(call[j]) # key
          BY <3>3, <4>2 DEF IsAllowed
        <5>2. KeyOf(call'[j]) = KeyOf(call[j])
          BY <2>1, <4>2 DEF TypeOK, PendingCalls, KeyOf
        <5>3. Guessing(key)' \subseteq Guessing(key)
          BY <2>2, <5>1, <5>2 DEF Guessing, KeyOf
        <5> QED BY <1>4, <3>1, <5>3
      <4> QED BY <2>4, <4>1, <4>2 DEF ReadSettings
    <3> QED BY <3>2, <3>3
  <2> QED BY <1>7, <2>3, <2>4
<1> QED BY <1>5, <1>6, <1>7, LimiterSteps

\* Of all the joins of an address that overlap before and after their await, no
\* more guess a password than the limiter allows and one for each of them
\* (signaling.gateway.ts joinSession, rateLimit.ts).
THEOREM GuessesAreBounded == Spec => []PasswordFailuresBounded
<1>1. Init => PasswordFailuresBounded
  <2> SUFFICES ASSUME Init, PasswordWindow > 0, NEW key \in Keys
               PROVE  ActiveEvents(passwordFailures[key]) + Cardinality(Guessing(key))
                        <= MaxPasswordFailures - 1 + Cardinality(Calls)
    BY DEF PasswordFailuresBounded
  <2>1. PasswordWindow \in Nat \ {0} /\ MaxPasswordFailures \in Nat \ {0}
    BY GatewayConstants
  <2>2. EmptyLog(PasswordWindow) \in Log(PasswordWindow)
    BY <2>1, LogTypes
  <2>3. passwordFailures[key] = EmptyLog(PasswordWindow)
    BY DEF Init
  <2>4. ActiveEvents(EmptyLog(PasswordWindow)) = 0
    BY <2>1, <2>2, ActiveCounts
  <2> QED BY <2>1, <2>3, <2>4, GuessesAreCalls
<1>2. TypeOK /\ PasswordFailuresBounded /\ [Next]_vars => PasswordFailuresBounded'
  BY GuessStep
<1> QED BY <1>1, <1>2, TypeCorrect, PTL DEF Spec

------------------------------------------------------------------------------
(* Prompts.                                                                 *)

\* The unanswered prompts about a key that are younger than n ticks were all
\* charged to the limiter, which holds no more than it allows: the inductive
\* invariant behind HostPromptsBounded.
PromptsYounger(key, n) ==
  {j \in Calls : /\ call[j].pc = "approval"
                 /\ KeyOf(call[j]) = key
                 /\ call[j].timeLeft > 0
                 /\ ApprovalTimeout - call[j].timeLeft < n}

PromptsAreCharged(key) ==
  /\ ActiveEvents(approvalRequests[key]) <= MaxApprovalRequests
  /\ \A n \in 0 .. ApprovalWindow :
       Cardinality(PromptsYounger(key, n)) <= Younger(approvalRequests[key], n)

PromptsCharged == ApprovalWindow > 0 => \A key \in Keys : PromptsAreCharged(key)

\* Prompts are joins.
LEMMA PromptsAreCalls ==
  ASSUME NEW key, NEW n
  PROVE  /\ IsFiniteSet(PromptsYounger(key, n)) /\ IsFiniteSet(PromptsYounger(key, n)')
         /\ Cardinality(PromptsYounger(key, n)) \in Nat
         /\ Cardinality(PromptsYounger(key, n)') \in Nat
<1>1. PromptsYounger(key, n) \subseteq Calls /\ PromptsYounger(key, n)' \subseteq Calls
  BY DEF PromptsYounger
<1> HIDE DEF PromptsYounger
<1> QED BY <1>1, GatewayConstants, FS_Subset, FS_CardinalityType

\* A tick makes every prompt, and what was charged for it, a tick older.
LEMMA PromptsAge ==
  ASSUME TypeOK, Tick, NEW key \in Keys, PromptsAreCharged(key), ApprovalWindow > 0
  PROVE  PromptsAreCharged(key)'
<1> DEFINE log == approvalRequests[key]
<1>1. ApprovalWindow \in Nat \ {0} /\ log \in Log(ApprovalWindow)
  BY GatewayConstants DEF TypeOK
<1>2. log' = Older(log) /\ log' \in Log(ApprovalWindow)
  BY <1>1, LogTypes DEF Tick
<1>3. ActiveEvents(log)' <= MaxApprovalRequests
  <2>1. /\ ActiveEvents(Older(log)) <= ActiveEvents(log)
        /\ ActiveEvents(log) \in Nat /\ ActiveEvents(Older(log)) \in Nat
    BY <1>1, <1>2, ActiveCounts
  <2> QED BY <1>2, <2>1, GatewayConstants DEF PromptsAreCharged
<1>4. \A k \in Calls : call[k] \in PendingCalls \/ call[k] = IdleCall
  BY DEF TypeOK
<1>5. ASSUME NEW k \in Calls, call'[k].pc = "approval", call'[k].timeLeft > 0
      PROVE  /\ call[k] \in PendingCalls /\ call[k].pc = "approval"
             /\ KeyOf(call'[k]) = KeyOf(call[k])
             /\ call[k].timeLeft > 0 /\ call'[k].timeLeft = call[k].timeLeft - 1
  <2>1. call[k] \in PendingCalls /\ call[k].pc = "approval"
    BY <1>4, <1>5 DEF Tick, IdleCall
  <2>2. call'[k] = [call[k] EXCEPT !.timeLeft = Decrement(@)]
    BY <1>5, <2>1 DEF Tick
  <2>3. /\ KeyOf(call'[k]) = KeyOf(call[k])
        /\ call'[k].timeLeft = Decrement(call[k].timeLeft)
    BY <2>1, <2>2 DEF PendingCalls, KeyOf
  <2>4. call[k].timeLeft \in Nat
    BY <2>1, GatewayConstants DEF PendingCalls
  <2> QED BY <1>5, <2>1, <2>3, <2>4 DEF Decrement
<1>6. ASSUME NEW n \in 0 .. ApprovalWindow
      PROVE  Cardinality(PromptsYounger(key, n)') <= Younger(log', n)
  <2>1. CASE n = 0
    <3>1. PromptsYounger(key, n)' = {}
      <4> SUFFICES ASSUME NEW k \in PromptsYounger(key, n)' PROVE FALSE
        OBVIOUS
      <4>1. /\ k \in Calls /\ call'[k].pc = "approval" /\ call'[k].timeLeft > 0
            /\ ApprovalTimeout - call'[k].timeLeft < 0
        BY <2>1 DEF PromptsYounger
      <4>2. call[k] \in PendingCalls /\ call'[k].timeLeft = call[k].timeLeft - 1
        BY <1>5, <4>1
      <4>3. call[k].timeLeft \in 0 .. ApprovalTimeout
        BY <4>2 DEF PendingCalls
      <4> QED BY <4>1, <4>2, <4>3, GatewayConstants
    <3>2. Younger(log', n) \in Nat
      BY <1>1, <1>2, LogCounts
    <3> QED BY <3>1, <3>2, FS_EmptySet
  <2>2. CASE n # 0
    <3>1. n - 1 \in 0 .. ApprovalWindow - 1 /\ n - 1 \in 0 .. ApprovalWindow /\ (n - 1) + 1 = n
      BY <1>1, <2>2
    <3>2. PromptsYounger(key, n)' \subseteq PromptsYounger(key, n - 1)
      <4> SUFFICES ASSUME NEW k \in PromptsYounger(key, n)' PROVE k \in PromptsYounger(key, n - 1)
        OBVIOUS
      <4>1. /\ k \in Calls /\ call'[k].pc = "approval" /\ call'[k].timeLeft > 0
            /\ KeyOf(call'[k]) = key
            /\ ApprovalTimeout - call'[k].timeLeft < n
        BY DEF PromptsYounger, KeyOf
      <4>2. /\ call[k] \in PendingCalls /\ call[k].pc = "approval"
            /\ KeyOf(call[k]) = key
            /\ call[k].timeLeft > 0 /\ call'[k].timeLeft = call[k].timeLeft - 1
        BY <1>5, <4>1
      <4>3. call[k].timeLeft \in Nat /\ ApprovalTimeout \in Nat
        BY <4>2, GatewayConstants DEF PendingCalls
      <4>4. ApprovalTimeout - call[k].timeLeft < n - 1
        BY <4>1, <4>2, <4>3
      <4> QED BY <4>1, <4>2, <4>4 DEF PromptsYounger
    <3>3. Cardinality(PromptsYounger(key, n)') <= Cardinality(PromptsYounger(key, n - 1))
      BY <3>2, PromptsAreCalls, FS_Subset
    <3>4. Younger(log', n) = Younger(log, n - 1) /\ Younger(log, n - 1) \in Nat
      BY <1>1, <1>2, <3>1, LogCounts
    <3>5. Cardinality(PromptsYounger(key, n - 1)) <= Younger(log, n - 1)
      BY <3>1 DEF PromptsAreCharged
    <3> QED BY <3>3, <3>4, <3>5, PromptsAreCalls
  <2> QED BY <2>1, <2>2
<1>7. \A n \in 0 .. ApprovalWindow :
        Cardinality(PromptsYounger(key, n)') <= Younger(approvalRequests'[key], n)
  BY <1>6
<1> QED BY <1>3, <1>7 DEF PromptsAreCharged

\* Where nothing is charged and nobody is asked, nothing is added.
LEMMA NoNewPrompts ==
  ASSUME NEW key \in Keys, PromptsAreCharged(key), TypeOK,
         approvalRequests'[key] = approvalRequests[key],
         \A k \in Calls : call'[k].pc = "approval" /\ KeyOf(call'[k]) = key
                            => call'[k] = call[k]
  PROVE  PromptsAreCharged(key)'
<1>1. ASSUME NEW n \in 0 .. ApprovalWindow
      PROVE  Cardinality(PromptsYounger(key, n)') <= Younger(approvalRequests'[key], n)
  <2>1. PromptsYounger(key, n)' \subseteq PromptsYounger(key, n)
    BY DEF PromptsYounger, KeyOf
  <2>2. Cardinality(PromptsYounger(key, n)') <= Cardinality(PromptsYounger(key, n))
    BY <2>1, PromptsAreCalls, FS_Subset
  <2>3. Younger(approvalRequests[key], n) \in Nat
    BY GatewayConstants, LogCounts DEF TypeOK
  <2>4. Cardinality(PromptsYounger(key, n)) <= Younger(approvalRequests[key], n)
    BY DEF PromptsAreCharged
  <2> QED BY <2>2, <2>3, <2>4, PromptsAreCalls
<1> QED BY <1>1 DEF PromptsAreCharged

\* A new prompt is charged before the host sees it, and only within the limit.
LEMMA NewPrompt ==
  ASSUME TypeOK, NEW j \in Calls, CheckPassword(j),
         NEW key \in Keys, PromptsAreCharged(key), ApprovalWindow > 0
  PROVE  PromptsAreCharged(key)'
<1> DEFINE cl == [call[j] EXCEPT !.password = NoPassword]
<1>1. call[j] \in PendingCalls
  BY DEF CheckPassword, TypeOK, IdleCall
<1>2. cl \in PendingCalls
  BY <1>1 DEF PendingCalls
<1> HIDE DEF cl
<1>3. \A k \in Calls : k # j => call'[k] = call[k]
  BY OtherCallsStay DEF ResumeJoin
<1>4. EndCall(j) => call'[j].pc = "idle"
  BY DEF EndCall, IdleCall, TypeOK
<1>5. CASE UNCHANGED approvalRequests /\ call'[j].pc # "approval"
  BY <1>3, <1>5, NoNewPrompts
<1>6. CASE /\ IsAllowed(approvalRequests[KeyOf(cl)], MaxApprovalRequests)
           /\ approvalRequests' = [approvalRequests EXCEPT ![KeyOf(cl)] = Record(@)]
           /\ call'[j].pc = "approval" => KeyOf(call'[j]) = KeyOf(cl)
  <2>1. CASE KeyOf(cl) # key
    <3>1. approvalRequests'[key] = approvalRequests[key]
      BY <1>6, <2>1 DEF TypeOK
    <3> QED BY <1>3, <1>6, <2>1, <3>1, NoNewPrompts
  <2>2. CASE KeyOf(cl) = key
    <3> DEFINE log == approvalRequests[key]
    <3>1. ApprovalWindow \in Nat \ {0} /\ log \in Log(ApprovalWindow)
      BY GatewayConstants DEF TypeOK
    <3>2. log' = Record(log) /\ ActiveEvents(log) < MaxApprovalRequests
      BY <1>6, <2>2 DEF TypeOK, IsAllowed
    <3>3. /\ ActiveEvents(Record(log)) = ActiveEvents(log) + 1
          /\ ActiveEvents(log) \in Nat
      BY <3>1, ActiveCounts
    <3>4. ActiveEvents(log') <= MaxApprovalRequests
      BY <3>2, <3>3, GatewayConstants
    <3>5. ASSUME NEW n \in 0 .. ApprovalWindow
          PROVE  Cardinality(PromptsYounger(key, n)') <= Younger(log', n)
      <4>1. /\ Younger(log, n) \in Nat
            /\ Younger(Record(log), n) = IF n = 0 THEN 0 ELSE Younger(log, n) + 1
        BY <3>1, LogCounts
      <4>2. Cardinality(PromptsYounger(key, n)) <= Younger(log, n)
        BY DEF PromptsAreCharged
      <4>3. CASE n # 0
        <5>1. PromptsYounger(key, n)' \subseteq PromptsYounger(key, n) \cup {j}
          BY <1>3 DEF PromptsYounger, KeyOf
        <5>2. /\ IsFiniteSet(PromptsYounger(key, n) \cup {j})
              /\ Cardinality(PromptsYounger(key, n) \cup {j}) \in Nat
              /\ Cardinality(PromptsYounger(key, n) \cup {j})
                   <= Cardinality(PromptsYounger(key, n)) + 1
          BY PromptsAreCalls, OneMoreElement
        <5>3. Cardinality(PromptsYounger(key, n)')
                <= Cardinality(PromptsYounger(key, n) \cup {j})
          BY <5>1, <5>2, FS_Subset
        <5> QED BY <3>2, <4>1, <4>2, <4>3, <5>2, <5>3, PromptsAreCalls
      <4>4. CASE n = 0
        <5>1. PromptsYounger(key, n)' = {}
          <6> SUFFICES ASSUME NEW k \in PromptsYounger(key, n)' PROVE FALSE
            OBVIOUS
          <6>1. /\ k \in Calls /\ call'[k].pc = "approval" /\ call'[k].timeLeft > 0
                /\ ApprovalTimeout - call'[k].timeLeft < 0
            BY <4>4 DEF PromptsYounger
          <6>2. call'[k] \in PendingCalls
            BY <6>1, CheckPasswordTypes DEF TypeOK, IdleCall
          <6>3. call'[k].timeLeft \in 0 .. ApprovalTimeout
            BY <6>2 DEF PendingCalls
          <6> QED BY <6>1, <6>3, GatewayConstants
        <5> QED BY <3>2, <4>1, <4>4, <5>1, FS_EmptySet
      <4> QED BY <4>3, <4>4
    <3>6. \A n \in 0 .. ApprovalWindow :
            Cardinality(PromptsYounger(key, n)') <= Younger(approvalRequests'[key], n)
      BY <3>5
    <3> QED BY <3>4, <3>6 DEF PromptsAreCharged
  <2> QED BY <2>1, <2>2
<1>7. LeaveOldSession(j, cl, roster, idle, told) => call'[j].pc # "approval"
  BY <1>2, SeatedCall
<1>8. ASSUME RequestApproval(j, cl) PROVE PromptsAreCharged(key)'
  <2>1. CASE EndCall(j) /\ UNCHANGED approvalRequests
    BY <1>4, <1>5, <2>1
  <2>2. CASE /\ IsAllowed(approvalRequests[KeyOf(cl)], MaxApprovalRequests)
             /\ approvalRequests' = [approvalRequests EXCEPT ![KeyOf(cl)] = Record(@)]
             /\ EndCall(j)
    BY <1>4, <1>6, <2>2
  <2>3. ASSUME NEW h,
               IsAllowed(approvalRequests[KeyOf(cl)], MaxApprovalRequests),
               approvalRequests' = [approvalRequests EXCEPT ![KeyOf(cl)] = Record(@)],
               call' = [call EXCEPT ![j] =
                 [cl EXCEPT !.pc = "approval", !.asked = {h},
                            !.timeLeft = ApprovalTimeout]]
        PROVE  PromptsAreCharged(key)'
    <3>1. KeyOf(call'[j]) = KeyOf(cl)
      BY <1>2, <2>3 DEF TypeOK, PendingCalls, KeyOf
    <3> QED BY <1>6, <2>3, <3>1
  <2> QED BY <1>8, <2>1, <2>2, <2>3 DEF RequestApproval
<1> QED BY <1>4, <1>5, <1>7, <1>8 DEF CheckPassword, cl

\* The host never faces more fresh prompts about an address than the limiter
\* allows in one window, however many joins of it overlap and however late the
\* host answers (signaling.gateway.ts joinSession, rateLimit.ts).
THEOREM PromptsAreBounded == Spec => []HostPromptsBounded
<1>1. ASSUME Init PROVE PromptsCharged
  <2> SUFFICES ASSUME ApprovalWindow > 0, NEW key \in Keys PROVE PromptsAreCharged(key)
    BY DEF PromptsCharged
  <2>1. ApprovalWindow \in Nat \ {0} /\ MaxApprovalRequests \in Nat \ {0}
    BY GatewayConstants
  <2>2. /\ EmptyLog(ApprovalWindow) \in Log(ApprovalWindow)
        /\ approvalRequests[key] = EmptyLog(ApprovalWindow)
    BY <1>1, <2>1, LogTypes DEF Init
  <2>3. ActiveEvents(EmptyLog(ApprovalWindow)) = 0
    BY <2>1, <2>2, ActiveCounts
  <2>4. \A n \in 0 .. ApprovalWindow : Younger(EmptyLog(ApprovalWindow), n) = 0
    BY <2>1, <2>2, LogCounts
  <2>5. \A n : PromptsYounger(key, n) = {}
    BY <1>1 DEF Init, PromptsYounger, IdleCall
  <2>6. \A n : Cardinality(PromptsYounger(key, n)) = 0
    BY <2>5, FS_EmptySet
  <2> QED BY <2>1, <2>2, <2>3, <2>4, <2>6 DEF PromptsAreCharged
<1>2. ASSUME TypeOK, PromptsCharged, [Next]_vars PROVE PromptsCharged'
  <2> SUFFICES ASSUME ApprovalWindow > 0, NEW key \in Keys PROVE PromptsAreCharged(key)'
    BY DEF PromptsCharged
  <2>1. PromptsAreCharged(key)
    BY <1>2 DEF PromptsCharged
  <2>2. CASE Tick
    BY <1>2, <2>1, <2>2, PromptsAge
  <2>3. ASSUME NEW j \in Calls, CheckPassword(j) PROVE PromptsAreCharged(key)'
    BY <1>2, <2>1, <2>3, NewPrompt
  <2>4. ASSUME NEW j \in Calls, ReadSettings(j) PROVE PromptsAreCharged(key)'
    <3>1. \A k \in Calls : k # j => call'[k] = call[k]
      BY <1>2, <2>4, OtherCallsStay DEF ResumeJoin
    <3>2. call'[j].pc # "approval"
      <4>1. call[j] \in PendingCalls
        BY <1>2, <2>4 DEF ReadSettings, TypeOK, IdleCall
      <4>2. EndCall(j) => call'[j].pc = "idle"
        BY <1>2 DEF EndCall, IdleCall, TypeOK
      <4> QED BY <1>2, <2>4, <4>1, <4>2 DEF ReadSettings, TypeOK, PendingCalls
    <3>3. UNCHANGED approvalRequests
      BY <2>4 DEF ReadSettings, limiters
    <3> QED BY <1>2, <2>1, <3>1, <3>2, <3>3, NoNewPrompts
  <2>5. CASE LimiterIdles
    BY <1>2, <2>1, <2>5, NoNewPrompts DEF LimiterIdles
  <2> QED BY <1>2, <2>2, <2>3, <2>4, <2>5, LimiterSteps
<1>3. ASSUME TypeOK, PromptsCharged PROVE HostPromptsBounded
  <2> SUFFICES ASSUME ApprovalWindow > 0, NEW key \in Keys
               PROVE  Cardinality(FreshPrompts(key)) <= MaxApprovalRequests
    BY DEF HostPromptsBounded
  <2>1. ApprovalWindow \in Nat \ {0} /\ ApprovalWindow \in 0 .. ApprovalWindow
    BY GatewayConstants
  <2>2. FreshPrompts(key) = PromptsYounger(key, ApprovalWindow)
    BY DEF FreshPrompts, PromptsYounger
  <2>3. /\ Cardinality(PromptsYounger(key, ApprovalWindow))
             <= Younger(approvalRequests[key], ApprovalWindow)
        /\ ActiveEvents(approvalRequests[key]) <= MaxApprovalRequests
    BY <1>3, <2>1 DEF PromptsCharged, PromptsAreCharged
  <2>4. /\ ActiveEvents(approvalRequests[key])
             = Younger(approvalRequests[key], ApprovalWindow)
        /\ Younger(approvalRequests[key], ApprovalWindow) \in Nat
    BY <1>3, <2>1, LogCounts DEF TypeOK
  <2> QED BY <2>2, <2>3, <2>4, PromptsAreCalls, GatewayConstants
<1> QED BY <1>1, <1>2, <1>3, TypeCorrect, PTL DEF Spec

\* Neither limiter is passed, however many joins overlap before and after its
\* await (signaling.gateway.ts joinSession, rateLimit.ts): the approval limiter
\* is charged before it, the password limiter after it.
THEOREM LimitersHold == Spec => []AskedAndGuessedWithinLimits
<1> QED
  BY PromptsAreBounded, GuessesAreBounded, PTL DEF AskedAndGuessedWithinLimits

------------------------------------------------------------------------------
(* The gateway implements Admission.                                        *)

\* The records a suspended join and Admission's visitor agree on.
LEMMA VisitorFields ==
  ASSUME NEW cl \in PendingCalls, cl.pc # "joining"
  PROVE  /\ VisitorOf(cl).at = VisitorAt[cl.pc]
         /\ VisitorOf(cl).client = cl.client
         /\ VisitorOf(cl).session = cl.session
         /\ VisitorOf(cl).role = cl.role
         /\ VisitorOf(cl).password = cl.password
         /\ VisitorOf(cl).byConsent = cl.needsApproval
         /\ VisitorOf(cl).host = cl.asked
<1>1. cl.pc \notin {"idle", "joining"}
  BY DEF PendingCalls
<1> QED BY <1>1 DEF VisitorOf

\* Admission's door follows a change of one join.
LEMMA DoorFollows ==
  ASSUME TypeOK, NEW j \in Calls, NEW cl, call' = [call EXCEPT ![j] = cl]
  PROVE  Visitors' = [Visitors EXCEPT ![j] = VisitorOf(cl)]
<1>1. call'[j] = cl /\ \A k \in Calls : k # j => call'[k] = call[k]
  BY DEF TypeOK
<1>2. /\ Visitors' = [k \in Calls |-> VisitorOf(call'[k])]
      /\ Visitors = [k \in Calls |-> VisitorOf(call[k])]
  BY Zenon DEF Visitors
<1>3. \A k \in Calls : VisitorOf(call'[k]) = IF k = j THEN VisitorOf(cl) ELSE VisitorOf(call[k])
  BY <1>1
<1> QED BY <1>2, <1>3

\* A join that ends leaves the door.
LEMMA EndLeaves ==
  ASSUME TypeOK, NEW j \in Calls, EndCall(j)
  PROVE  Door!Leave(j)
<1>1. Visitors' = [Visitors EXCEPT ![j] = VisitorOf(IdleCall)]
  BY DoorFollows DEF EndCall
<1>2. VisitorOf(IdleCall) = [at |-> "nobody"]
  BY DEF VisitorOf, IdleCall
<1> QED BY <1>1, <1>2 DEF Door!Leave, Door!Nobody

\* What the invariants say of the roster is what Admission asks of its places.
PlacesAreGood == OneSeatPerClient /\ OneRolePerSession /\ RosterWithinLimits

LEMMA GoodIsWellTaken ==
  ASSUME PlacesAreGood'
  PROVE  Door!WellTaken(roster')
<1>1. \A S : Door!Cardinality(S) = Cardinality(S)
  BY DEF Door!Cardinality, Cardinality
<1>2. /\ \A s \in SessionIds : PeersOf(roster', s) = {p \in roster' : p.session = s}
      /\ OpenSessions(roster') = {p.session : p \in roster'}
  BY DEF PeersOf, OpenSessions
<1>3. /\ \A s \in SessionIds : Cardinality(PeersOf(roster', s)) <= MaxPeersPerSession
      /\ Cardinality(OpenSessions(roster')) <= MaxSessions
      /\ Cardinality(roster') <= MaxTotalPeers
  BY DEF PlacesAreGood, RosterWithinLimits
<1>4. /\ \A p, q \in roster' : p.client = q.client => p = q
      /\ \A p, q \in roster' : p.session = q.session /\ p.role = q.role => p = q
  BY DEF PlacesAreGood, OneSeatPerClient, OneRolePerSession
<1> QED BY <1>1, <1>2, <1>3, <1>4 DEF Door!WellTaken

\* Expiry takes exactly the silent members away, and the rest are as idle as before.
LEMMA LiveAreNotSilent ==
  ASSUME TypeOK
  PROVE  /\ LiveRoster = roster \ StaleSeats
         /\ LiveRoster \in SUBSET roster
         /\ \A p \in LiveRoster : /\ LiveIdle[p.session][p.client] = idle[p.session][p.client]
                                  /\ ~(LiveIdle[p.session][p.client] > PeerTtl)
<1>1. ASSUME NEW p \in LiveRoster
      PROVE  /\ LiveIdle[p.session][p.client] = idle[p.session][p.client]
             /\ ~(LiveIdle[p.session][p.client] > PeerTtl)
  <2>1. ~(idle[p.session][p.client] > PeerTtl) /\ p \in Seats
    BY DEF LiveRoster, StaleSeats, Expired, TypeOK
  <2>2. ~HasSeat(StaleSeats, p.session, p.client)
    BY <2>1 DEF StaleSeats, Expired, HasSeat
  <2>3. p.session \in SessionIds /\ p.client \in Clients
    BY <2>1 DEF Seats
  <2> QED BY <2>1, <2>2, <2>3 DEF LiveIdle, ForgetIdle
<1> QED BY <1>1 DEF LiveRoster

\* A join takes the place Admission lets it take, or finds none.
LEMMA TakeSeatRefines ==
  ASSUME TypeOK, PlacesAreGood', NEW j \in Calls, NEW cl \in PendingCalls,
         NEW rst \in SUBSET roster, NEW idl \in IdleTimes, NEW rms, NEW known,
         \A p \in rst : idl[p.session][p.client] = idle[p.session][p.client],
         TakeSeat(j, cl, rst, idl, rms, known),
         NEW v, v.client = cl.client, v.session = cl.session, v.role = cl.role
  PROVE  Door!TakePlace(j, v, rst) \/ Door!FindNoPlace(j, rst)
<1>1. CASE roster' = rst /\ idle' = idl /\ EndCall(j)
  <2>1. StaleSeats' = StaleSeats \cap rst
    BY <1>1 DEF StaleSeats, Expired
  <2> QED BY <1>1, <2>1, EndLeaves DEF Door!FindNoPlace
<1>2. CASE /\ roster' = AddPeer(rst, cl.session, cl.client, cl.role)
           /\ idle' = Touch(idl, cl.session, cl.client)
           /\ call' = [call EXCEPT ![j] =
                [cl EXCEPT !.pc = "joining",
                           !.existing = OtherPeers(rst, cl.session, cl.client)]]
  <2>1. PICK x : x = [cl EXCEPT !.pc = "joining",
                                !.existing = OtherPeers(rst, cl.session, cl.client)]
    OBVIOUS
  <2>2. x.pc = "joining"
    BY <2>1 DEF PendingCalls
  <2>3. Visitors' = [Visitors EXCEPT ![j] = VisitorOf(x)]
    BY <1>2, <2>1, DoorFollows
  <2>4. Door!Leave(j)
    BY <2>2, <2>3 DEF VisitorOf, Door!Leave, Door!Nobody
  <2>5. PICK seat : seat = [session |-> cl.session, client |-> cl.client, role |-> cl.role]
    OBVIOUS
  <2>6. Door!Place(v) = seat /\ seat.client = cl.client /\ seat.session = cl.session
    BY <2>5 DEF Door!Place
  <2>7. roster' = {p \in rst : ~(p.session = cl.session /\ p.client = cl.client)} \cup {seat}
    BY <1>2, <2>5 DEF AddPeer
  <2>8. ASSUME NEW p \in rst, p.client = cl.client PROVE p.session = cl.session
    <3>1. SUFFICES ASSUME p.session # cl.session PROVE FALSE
      OBVIOUS
    <3>2. p \in roster' /\ seat \in roster' /\ p # seat /\ p.client = seat.client
      BY <2>6, <2>7, <2>8, <3>1
    <3> QED BY <3>2 DEF PlacesAreGood, OneSeatPerClient
  <2>9. roster' = Door!Others(rst, v.client) \cup {Door!Place(v)}
    BY <2>6, <2>7, <2>8 DEF Door!Others
  <2>10. Door!WellTaken(roster')
    BY GoodIsWellTaken
  <2>11. StaleSeats' = (StaleSeats \cap roster') \ {Door!Place(v)}
    <3>1. cl.session \in SessionIds /\ cl.client \in Clients
      BY DEF PendingCalls
    <3>2. idle'[cl.session][cl.client] = 0
      BY <1>2, <3>1 DEF Touch, IdleTimes
    <3>3. ~(0 > PeerTtl)
      BY SessionLimits
    <3>4. seat \notin StaleSeats'
      BY <2>6, <3>2, <3>3 DEF StaleSeats, Expired
    <3>5. ASSUME NEW p \in roster', p # seat
          PROVE  idle'[p.session][p.client] = idle[p.session][p.client] /\ p \in roster
      <4>1. p \in rst /\ ~(p.session = cl.session /\ p.client = cl.client)
        BY <2>7, <3>5
      <4>2. p.session \in SessionIds /\ p.client \in Clients
        BY <4>1 DEF TypeOK, Seats
      <4>3. idle'[p.session][p.client] = idl[p.session][p.client]
        BY <1>2, <3>1, <4>1, <4>2 DEF Touch, IdleTimes
      <4> QED BY <4>1, <4>3
    <3> QED BY <2>6, <3>4, <3>5 DEF StaleSeats, Expired
  <2> QED BY <2>4, <2>9, <2>10, <2>11 DEF Door!TakePlace
<1> QED BY <1>1, <1>2 DEF TakeSeat

\* A join that may have a seat goes in as Admission says.
LEMMA LeaveOldSessionRefines ==
  ASSUME TypeOK, OneSeatPerClient, PlacesAreGood',
         NEW j \in Calls, NEW cl \in PendingCalls, cl.pc # "joining",
         NEW rst \in SUBSET roster, NEW idl \in IdleTimes, NEW known,
         \A p \in rst : idl[p.session][p.client] = idle[p.session][p.client],
         LeaveOldSession(j, cl, rst, idl, known)
  PROVE  Door!GoIn(j, VisitorOf(cl), rst)
<1>1. CASE TakeSeat(j, cl, rst, idl, rooms, known)
  BY <1>1, VisitorFields, TakeSeatRefines DEF Door!GoIn
<1>2. ASSUME NEW p \in SeatsOf(rst, cl.client),
             roster' = rst \ {p}, idle' = Touch(idl, p.session, p.client),
             call' = [call EXCEPT ![j] = [cl EXCEPT !.pc = "leaving"]]
      PROVE  Door!GiveUpPlace(j, VisitorOf(cl), rst)
  <2>1. PICK x : x = [cl EXCEPT !.pc = "leaving"]
    OBVIOUS
  <2>2. /\ x \in PendingCalls /\ x.pc = "leaving"
        /\ x.client = cl.client /\ x.session = cl.session /\ x.role = cl.role
        /\ x.password = cl.password /\ x.needsApproval = cl.needsApproval
        /\ x.asked = cl.asked
    BY <2>1 DEF PendingCalls
  <2>3. VisitorOf(x) = [VisitorOf(cl) EXCEPT !.at = "admitted"]
    <3>1. cl.pc \notin {"idle", "joining"}
      BY DEF PendingCalls
    <3> QED BY <2>2, <3>1 DEF VisitorOf, VisitorAt
  <2>4. Visitors' = [Visitors EXCEPT ![j] = [VisitorOf(cl) EXCEPT !.at = "admitted"]]
    BY <1>2, <2>1, <2>3, DoorFollows
  <2>5. p \in rst /\ p.client = cl.client /\ VisitorOf(cl).client = cl.client
    BY VisitorFields DEF SeatsOf
  <2>6. \A q \in rst : q.client = cl.client => q = p
    BY <2>5 DEF OneSeatPerClient
  <2>7. roster' = Door!Others(rst, VisitorOf(cl).client)
    BY <1>2, <2>5, <2>6 DEF Door!Others
  <2>8. roster' # rst
    BY <1>2, <2>5
  <2>9. StaleSeats' = StaleSeats \cap roster'
    <3>1. ASSUME NEW q \in roster' PROVE idle'[q.session][q.client] = idle[q.session][q.client]
      <4>1. q \in rst /\ q.client # p.client
        BY <1>2, <2>5, <2>6
      <4>2. q \in Seats /\ p \in Seats
        BY <2>5, <4>1 DEF TypeOK
      <4>3. idle'[q.session][q.client] = idl[q.session][q.client]
        BY <1>2, <4>1, <4>2 DEF Touch, IdleTimes, Seats
      <4> QED BY <4>1, <4>3
    <3>2. roster' \subseteq roster
      BY <1>2
    <3> QED BY <3>1, <3>2 DEF StaleSeats, Expired
  <2> QED BY <2>4, <2>7, <2>8, <2>9 DEF Door!GiveUpPlace
<1> QED BY <1>1, <1>2 DEF LeaveOldSession, Door!GoIn

\* What Admission sees of a suspended join.
LEMMA AtTheDoor ==
  ASSUME TypeOK, NEW j \in Calls
  PROVE  /\ Visitors[j] = VisitorOf(call[j])
         /\ call[j].pc \in {"idle", "joining"} => Visitors[j] = Door!Nobody
         /\ Pending(j) => call[j] \in PendingCalls
<1>1. Visitors[j] = VisitorOf(call[j])
  BY DEF Visitors
<1>2. Pending(j) => call[j] \in PendingCalls
  BY DEF Pending, TypeOK, IdleCall
<1>3. call[j].pc \in {"idle", "joining"} => Visitors[j] = Door!Nobody
  BY <1>1 DEF VisitorOf, Door!Nobody
<1> QED BY <1>1, <1>2, <1>3

\* Nothing but what Admission leaves out has changed.
LEMMA NothingSeen ==
  ASSUME UNCHANGED <<roster, idle, online, settings, consentAge>>,
         Visitors' = Visitors
  PROVE  UNCHANGED Door!vars
<1>1. StaleSeats' = StaleSeats /\ FreshConsents' = FreshConsents
  BY DEF StaleSeats, Expired, FreshConsents
<1> QED BY <1>1 DEF Door!vars

\* The key of a join is the key of the visitor.
LEMMA SameKey ==
  ASSUME NEW cl \in PendingCalls, cl.pc # "joining"
  PROVE  /\ Door!KeyOf(VisitorOf(cl)) = KeyOf(cl)
         /\ KeyOf(cl) \in Keys
BY VisitorFields, KeyTypes DEF Door!KeyOf, KeyOf

\* Expiry.
LEMMA CleanupRefines ==
  ASSUME TypeOK, CleanupExpiredPeers
  PROVE  roster' = roster \ StaleSeats /\ StaleSeats' = {}
<1>1. roster' = LiveRoster /\ idle' = LiveIdle
  BY DEF CleanupExpiredPeers
<1> QED BY <1>1, LiveAreNotSilent DEF StaleSeats, Expired

\* session:join up to its first await.
LEMMA StartJoinRefines ==
  ASSUME TypeOK, OneSeatPerClient, PlacesAreGood', NEW j \in Calls, NEW c \in Clients,
         NEW s \in SessionIds, NEW r \in Roles, NEW pw \in Passwords \cup {NoPassword},
         StartJoin(j, c, s, r, pw)
  PROVE  Door!Next
<1>1. c \in online /\ Visitors[j] = Door!Nobody
  BY AtTheDoor DEF StartJoin, Pending
<1>2. UNCHANGED <<online, settings, consentAge>>
  BY DEF StartJoin, sockets, consents
<1>3. FreshConsents' = FreshConsents
  BY <1>2 DEF FreshConsents
<1>4. CASE CleanupExpiredPeers /\ UNCHANGED call
  <2>1. Visitors' = Visitors
    BY <1>4 DEF Visitors, VisitorOf, VisitorAt
  <2> QED BY <1>2, <1>3, <1>4, <2>1, CleanupRefines
          DEF Door!SilentAreRemoved, Door!Next
<1>5. CASE /\ r = "viewer" /\ CleanupExpiredPeers
           /\ call' = [call EXCEPT ![j] = NewCall(c, s, r, pw)]
  <2>1. VisitorOf(NewCall(c, s, r, pw)) = Door!Visitor(c, s, "viewer", pw)
    BY <1>5 DEF NewCall, VisitorOf, VisitorAt, Door!Visitor
  <2>2. Visitors' = [Visitors EXCEPT ![j] = Door!Visitor(c, s, "viewer", pw)]
    BY <1>5, <2>1, DoorFollows
  <2>3. Door!ViewerArrives(j, c, s, pw)
    BY <1>1, <1>2, <1>3, <1>5, <2>2, CleanupRefines DEF Door!ViewerArrives
  <2> QED BY <2>3 DEF Door!Next, Door!ClientStep
<1>6. CASE /\ r = "host"
           /\ LeaveOldSession(j, NewCall(c, s, r, NoPassword), LiveRoster, LiveIdle, LiveTold)
  <2>1. /\ NewCall(c, s, r, NoPassword) \in PendingCalls
        /\ NewCall(c, s, r, NoPassword).pc # "joining"
    BY NewCallTypes DEF NewCall
  <2>2. VisitorOf(NewCall(c, s, r, NoPassword)) = Door!Visitor(c, s, "host", NoPassword)
    BY <1>6 DEF NewCall, VisitorOf, VisitorAt, Door!Visitor
  <2>3. Door!GoIn(j, VisitorOf(NewCall(c, s, r, NoPassword)), LiveRoster)
    BY <1>6, <2>1, LeaveOldSessionRefines, LiveAreNotSilent, CleanupTypes
  <2>4. Door!HostArrives(j, c, s)
    BY <1>1, <1>2, <1>3, <2>2, <2>3, LiveAreNotSilent DEF Door!HostArrives
  <2> QED BY <2>4 DEF Door!Next, Door!ClientStep
<1> QED BY <1>4, <1>5, <1>6 DEF StartJoin

\* A join that is refused.
LEMMA RefusalRefines ==
  ASSUME TypeOK, NEW j \in Calls, EndCall(j),
         UNCHANGED <<roster, idle, online, settings, consentAge>>
  PROVE  Door!Next
<1>1. StaleSeats' = StaleSeats /\ FreshConsents' = FreshConsents
  BY DEF StaleSeats, Expired, FreshConsents
<1>2. Door!IsTurnedAway(j)
  BY <1>1, EndLeaves DEF Door!IsTurnedAway
<1> QED BY <1>2 DEF Door!Next, Door!DoorStep

\* getHostSettings resolves.
LEMMA ReadSettingsRefines ==
  ASSUME TypeOK, NEW j \in Calls, ReadSettings(j)
  PROVE  Door!Next
<1>1. UNCHANGED <<roster, idle, online, settings, consentAge>>
  BY DEF ReadSettings, membership, sockets, consents
<1>2. CASE EndCall(j)
  BY <1>1, <1>2, RefusalRefines
<1>3. CASE call' = [call EXCEPT ![j] =
             [@ EXCEPT !.pc = "password", !.needsApproval = settings.requireApproval]]
  <2>1. PICK x : x = [call[j] EXCEPT !.pc = "password",
                                     !.needsApproval = settings.requireApproval]
    OBVIOUS
  <2>2. call[j].pc = "settings" /\ call[j] \in PendingCalls
    BY AtTheDoor DEF ReadSettings, Pending
  <2>3. /\ x.pc = "password" /\ x.needsApproval = settings.requireApproval
        /\ x.client = call[j].client /\ x.session = call[j].session
        /\ x.role = call[j].role /\ x.password = call[j].password
        /\ x.asked = call[j].asked
    BY <2>1, <2>2 DEF PendingCalls
  <2>4. VisitorOf(x) = [VisitorOf(call[j]) EXCEPT
          !.at = "met", !.byConsent = settings.requireApproval]
    <3>1. VisitorOf(call[j]) =
            [at |-> "asked", client |-> call[j].client, session |-> call[j].session,
             role |-> call[j].role, password |-> call[j].password,
             byConsent |-> call[j].needsApproval, host |-> call[j].asked]
      BY <2>2 DEF VisitorOf, VisitorAt
    <3>2. VisitorOf(x) =
            [at |-> "met", client |-> call[j].client, session |-> call[j].session,
             role |-> call[j].role, password |-> call[j].password,
             byConsent |-> settings.requireApproval, host |-> call[j].asked]
      BY <2>3 DEF VisitorOf, VisitorAt
    <3>3. PICK w : w = [VisitorOf(call[j]) EXCEPT !.at = "met"]
      OBVIOUS
    <3>4. w = [at |-> "met", client |-> call[j].client, session |-> call[j].session,
               role |-> call[j].role, password |-> call[j].password,
               byConsent |-> call[j].needsApproval, host |-> call[j].asked]
      BY <3>1, <3>3
    <3>5. [w EXCEPT !.byConsent = settings.requireApproval] = VisitorOf(x)
      BY <3>2, <3>4
    <3> QED BY <3>3, <3>5
  <2>5. Visitors' = [Visitors EXCEPT ![j] = VisitorOf(x)]
    BY <1>3, <2>1, DoorFollows
  <2>6. Visitors' = [Visitors EXCEPT ![j].at = "met",
                                     ![j].byConsent = settings.requireApproval]
    BY <2>4, <2>5 DEF Visitors
  <2>7. Visitors[j].at = "asked"
    BY <2>2, AtTheDoor, VisitorFields DEF VisitorAt
  <2>8. StaleSeats' = StaleSeats /\ FreshConsents' = FreshConsents
    BY <1>1 DEF StaleSeats, Expired, FreshConsents
  <2>9. Door!IsMet(j)
    BY <1>1, <2>6, <2>7, <2>8 DEF Door!IsMet
  <2> QED BY <2>9 DEF Door!Next, Door!DoorStep
<1> QED BY <1>2, <1>3 DEF ReadSettings

\* The cache tells fresh consents from others.
LEMMA FreshIsRecent ==
  ASSUME TypeOK, CacheKnowsConsent, NEW key \in Keys
  PROVE  IsRecentlyApproved(key) <=> key \in FreshConsents
<1>1. consentAge[key] \in 0 .. ApprovalCacheTtl /\ ApprovalCacheTtl \in Nat
  BY GatewayConstants DEF TypeOK
<1>2. CASE /\ consentAge[key] < ApprovalCacheTtl
           /\ approvals[key] = ApprovalCacheTtl + 1 - consentAge[key]
  BY <1>1, <1>2 DEF IsRecentlyApproved, FreshConsents
<1>3. CASE consentAge[key] = ApprovalCacheTtl /\ approvals[key] \in {0, 1}
  BY <1>1, <1>3 DEF IsRecentlyApproved, FreshConsents
<1> QED BY <1>2, <1>3 DEF CacheKnowsConsent

\* verifyHostPassword resolves.
LEMMA CheckPasswordRefines ==
  ASSUME TypeOK, OneSeatPerClient, CacheKnowsConsent, PlacesAreGood',
         NEW j \in Calls, CheckPassword(j)
  PROVE  Door!Next
<1>1. PICK cl : cl = [call[j] EXCEPT !.password = NoPassword]
  OBVIOUS
<1>2. call[j].pc = "password" /\ call[j] \in PendingCalls
  BY AtTheDoor DEF CheckPassword, Pending
<1>3. cl \in PendingCalls
  BY <1>1, <1>2 DEF PendingCalls
<1>4. /\ cl.pc = "password" /\ cl.client = call[j].client
      /\ cl.session = call[j].session /\ cl.role = call[j].role
      /\ cl.password = NoPassword /\ cl.needsApproval = call[j].needsApproval
      /\ cl.asked = call[j].asked
  BY <1>1, <1>2 DEF PendingCalls
<1>5. UNCHANGED <<online, settings, consentAge>> /\ FreshConsents' = FreshConsents
  BY DEF CheckPassword, sockets, FreshConsents
<1>6. Visitors[j].at = "met" /\ Visitors[j].password = call[j].password
  BY <1>2, AtTheDoor, VisitorFields DEF VisitorAt
<1>7. VisitorOf(cl) = [Visitors[j] EXCEPT !.password = NoPassword]
  <2>1. Visitors[j] =
          [at |-> "met", client |-> call[j].client, session |-> call[j].session,
           role |-> call[j].role, password |-> call[j].password,
           byConsent |-> call[j].needsApproval, host |-> call[j].asked]
    BY <1>2, AtTheDoor DEF VisitorOf, VisitorAt
  <2>2. VisitorOf(cl) =
          [at |-> "met", client |-> call[j].client, session |-> call[j].session,
           role |-> call[j].role, password |-> NoPassword,
           byConsent |-> call[j].needsApproval, host |-> call[j].asked]
    BY <1>4 DEF VisitorOf, VisitorAt
  <2> QED BY <2>1, <2>2
<1>8. /\ VisitorOf(cl).byConsent = cl.needsApproval
      /\ VisitorOf(cl).session = cl.session
      /\ Door!KeyOf(VisitorOf(cl)) = KeyOf(cl) /\ KeyOf(cl) \in Keys
  BY <1>3, <1>4, VisitorFields, SameKey
<1>9. CASE EndCall(j) /\ UNCHANGED membership
  BY <1>5, <1>9, RefusalRefines DEF membership
<1>10. CASE /\ PasswordAccepted(call[j])
            /\ cl.needsApproval => IsRecentlyApproved(KeyOf(cl))
            /\ LeaveOldSession(j, cl, roster, idle, told)
  <2>1. Door!GoIn(j, VisitorOf(cl), roster)
    BY <1>3, <1>4, <1>10, LeaveOldSessionRefines DEF TypeOK
  <2>2. VisitorOf(cl).byConsent => Door!KeyOf(VisitorOf(cl)) \in FreshConsents
    BY <1>8, <1>10, FreshIsRecent
  <2>3. settings.password \in {NoPassword, Visitors[j].password}
    BY <1>6, <1>10 DEF PasswordAccepted
  <2>4. Door!IsChecked(j)
    BY <1>5, <1>6, <1>7, <2>1, <2>2, <2>3 DEF Door!IsChecked
  <2> QED BY <2>4 DEF Door!Next, Door!DoorStep
<1>11. ASSUME PasswordAccepted(call[j]), cl.needsApproval, ~IsRecentlyApproved(KeyOf(cl)),
              UNCHANGED membership, NEW h \in HostToAsk(cl.session),
              call' = [call EXCEPT ![j] =
                [cl EXCEPT !.pc = "approval", !.asked = {h}, !.timeLeft = ApprovalTimeout]]
       PROVE  Door!Next
  <2>1. PICK x : x = [cl EXCEPT !.pc = "approval", !.asked = {h},
                                !.timeLeft = ApprovalTimeout]
    OBVIOUS
  <2>2. /\ x.pc = "approval" /\ x.client = cl.client /\ x.session = cl.session
        /\ x.role = cl.role /\ x.password = cl.password
        /\ x.needsApproval = cl.needsApproval /\ x.asked = {h}
    BY <1>3, <2>1 DEF PendingCalls
  <2>3. VisitorOf(x) = [VisitorOf(cl) EXCEPT !.at = "waiting", !.host = {h}]
    <3>1. VisitorOf(cl) =
            [at |-> "met", client |-> cl.client, session |-> cl.session,
             role |-> cl.role, password |-> cl.password,
             byConsent |-> cl.needsApproval, host |-> cl.asked]
      BY <1>4 DEF VisitorOf, VisitorAt
    <3>2. VisitorOf(x) =
            [at |-> "waiting", client |-> cl.client, session |-> cl.session,
             role |-> cl.role, password |-> cl.password,
             byConsent |-> cl.needsApproval, host |-> {h}]
      BY <2>2 DEF VisitorOf, VisitorAt
    <3>3. PICK w : w = [VisitorOf(cl) EXCEPT !.at = "waiting"]
      OBVIOUS
    <3>4. w = [at |-> "waiting", client |-> cl.client, session |-> cl.session,
               role |-> cl.role, password |-> cl.password,
               byConsent |-> cl.needsApproval, host |-> cl.asked]
      BY <3>1, <3>3
    <3>5. [w EXCEPT !.host = {h}] = VisitorOf(x)
      BY <3>2, <3>4
    <3> QED BY <3>3, <3>5
  <2>4. Visitors' = [Visitors EXCEPT ![j] =
          [VisitorOf(cl) EXCEPT !.at = "waiting", !.host = {h}]]
    BY <1>11, <2>1, <2>3, DoorFollows
  <2>5. PICK p \in roster : p.session = cl.session /\ p.role = "host"
                            /\ p.client = h /\ h \in online
    BY <1>11 DEF HostToAsk, PeersByRole, PeersOf
  <2>6. VisitorOf(cl).byConsent /\ Door!KeyOf(VisitorOf(cl)) \notin FreshConsents
    BY <1>8, <1>11, FreshIsRecent
  <2>7. settings.password \in {NoPassword, Visitors[j].password}
    BY <1>6, <1>11 DEF PasswordAccepted
  <2>8. UNCHANGED <<roster, StaleSeats>>
    BY <1>11 DEF membership, StaleSeats, Expired
  <2>9. Door!IsChecked(j)
    BY <1>5, <1>6, <1>7, <1>8, <2>4, <2>5, <2>6, <2>7, <2>8 DEF Door!IsChecked
  <2> QED BY <2>9 DEF Door!Next, Door!DoorStep
<1> QED BY <1>1, <1>9, <1>10, <1>11 DEF CheckPassword, RequestApproval

\* The host's acknowledgement arrives.
LEMMA HostAnswersRefines ==
  ASSUME TypeOK, OneSeatPerClient, PlacesAreGood',
         NEW j \in Calls, NEW approved \in BOOLEAN, HostAnswers(j, approved)
  PROVE  Door!Next
<1>1. PICK cl : cl = [call[j] EXCEPT !.asked = {}, !.timeLeft = 0]
  OBVIOUS
<1>2. call[j].pc = "approval" /\ call[j] \in PendingCalls
  BY AtTheDoor DEF HostAnswers, Pending
<1>3. cl \in PendingCalls
  <2>1. 0 \in 0 .. ApprovalTimeout
    BY GatewayConstants
  <2> QED BY <1>1, <1>2, <2>1 DEF PendingCalls
<1>4. /\ cl.pc = "approval" /\ cl.client = call[j].client
      /\ cl.session = call[j].session /\ cl.role = call[j].role
      /\ cl.password = call[j].password /\ cl.needsApproval = call[j].needsApproval
      /\ cl.asked = {}
  BY <1>1, <1>2 DEF PendingCalls
<1>5. UNCHANGED <<online, settings>>
  BY DEF HostAnswers, sockets
<1>6. CASE EndCall(j) /\ UNCHANGED <<membership, consents>>
  BY <1>5, <1>6, RefusalRefines DEF membership, consents
<1>7. CASE MarkApproved(KeyOf(cl)) /\ LeaveOldSession(j, cl, roster, idle, told)
  <2>1. Door!GoIn(j, VisitorOf(cl), roster)
    BY <1>3, <1>4, <1>7, LeaveOldSessionRefines DEF TypeOK
  <2>2. VisitorOf(cl) = [Visitors[j] EXCEPT !.host = {}]
    <3>1. Visitors[j] =
            [at |-> "waiting", client |-> call[j].client, session |-> call[j].session,
             role |-> call[j].role, password |-> call[j].password,
             byConsent |-> call[j].needsApproval, host |-> call[j].asked]
      BY <1>2, AtTheDoor DEF VisitorOf, VisitorAt
    <3>2. VisitorOf(cl) =
            [at |-> "waiting", client |-> call[j].client, session |-> call[j].session,
             role |-> call[j].role, password |-> call[j].password,
             byConsent |-> call[j].needsApproval, host |-> {}]
      BY <1>4 DEF VisitorOf, VisitorAt
    <3> QED BY <3>1, <3>2
  <2>3. Visitors[j].at = "waiting" /\ Visitors[j].host \subseteq online
    BY <1>2, AtTheDoor, VisitorFields DEF VisitorAt, HostAnswers
  <2>4. Door!KeyOf(VisitorOf(cl)) = KeyOf(cl) /\ KeyOf(cl) \in Keys
    BY <1>3, <1>4, SameKey
  <2>5. FreshConsents' = FreshConsents \cup {KeyOf(cl)}
    <3>1. /\ consentAge'[KeyOf(cl)] = 0
          /\ \A key \in Keys : key # KeyOf(cl) => consentAge'[key] = consentAge[key]
      BY <1>7, <2>4 DEF MarkApproved, TypeOK
    <3>2. 0 < ApprovalCacheTtl
      BY GatewayConstants
    <3> QED BY <2>4, <3>1, <3>2 DEF FreshConsents
  <2>6. Door!HostConsents(j)
    BY <1>5, <2>1, <2>2, <2>3, <2>4, <2>5 DEF Door!HostConsents
  <2> QED BY <2>6 DEF Door!Next, Door!DoorStep
<1> QED BY <1>1, <1>6, <1>7 DEF HostAnswers

\* The approval timer fires.
LEMMA ApprovalTimesOutRefines ==
  ASSUME TypeOK, NEW j \in Calls, ApprovalTimesOut(j)
  PROVE  Door!Next
BY RefusalRefines DEF ApprovalTimesOut, sockets, membership, consents

\* client.leave resolves.
LEMMA ResumeAfterLeaveRefines ==
  ASSUME TypeOK, PlacesAreGood', NEW j \in Calls, ResumeAfterLeave(j)
  PROVE  Door!Next
<1>1. call[j].pc = "leaving" /\ call[j] \in PendingCalls
  BY AtTheDoor DEF ResumeAfterLeave, Pending
<1>2. TakeSeat(j, call[j], roster, idle, rooms, told)
      /\ UNCHANGED <<online, settings, consentAge>>
  BY DEF ResumeAfterLeave, sockets, consents
<1>3. FreshConsents' = FreshConsents
  BY <1>2 DEF FreshConsents
<1>4. /\ Visitors[j] = VisitorOf(call[j]) /\ Visitors[j].at = "admitted"
      /\ Visitors[j].client = call[j].client /\ Visitors[j].session = call[j].session
      /\ Visitors[j].role = call[j].role
  BY <1>1, AtTheDoor, VisitorFields DEF VisitorAt
<1>5. Door!TakePlace(j, Visitors[j], roster) \/ Door!FindNoPlace(j, roster)
  BY <1>1, <1>2, <1>4, TakeSeatRefines DEF TypeOK
<1>6. CASE Door!TakePlace(j, Visitors[j], roster)
  <2>1. Door!ComesBack(j)
    BY <1>2, <1>3, <1>4, <1>6 DEF Door!ComesBack
  <2> QED BY <2>1 DEF Door!Next, Door!DoorStep
<1>7. CASE Door!FindNoPlace(j, roster)
  <2>1. StaleSeats' = StaleSeats /\ roster' = roster
    BY <1>7 DEF Door!FindNoPlace, StaleSeats, Expired
  <2>2. Door!IsTurnedAway(j)
    BY <1>2, <1>3, <1>7, <2>1 DEF Door!IsTurnedAway, Door!FindNoPlace
  <2> QED BY <2>2 DEF Door!Next, Door!DoorStep
<1> QED BY <1>5, <1>6, <1>7

\* client.join resolves: nobody is at the door any more.
LEMMA FinishJoinRefines ==
  ASSUME TypeOK, NEW j \in Calls, FinishJoin(j)
  PROVE  UNCHANGED Door!vars
<1>1. /\ call[j].pc = "joining" /\ EndCall(j)
      /\ UNCHANGED <<roster, idle, online, settings, consentAge>>
  BY DEF FinishJoin, sockets, consents
<1>2. Visitors' = [Visitors EXCEPT ![j] = Door!Nobody]
  BY <1>1, EndLeaves DEF Door!Leave
<1>3. Visitors[j] = Door!Nobody
  BY <1>1, AtTheDoor
<1>4. Visitors' = Visitors
  BY <1>2, <1>3 DEF Visitors
<1> QED BY <1>1, <1>4, NothingSeen

\* handleConnection.
LEMMA ConnectRefines ==
  ASSUME NEW c \in Clients, Connect(c)
  PROVE  Door!Next
<1>1. /\ UNCHANGED <<roster, idle, call, settings, consentAge>>
      /\ online' = online \cup {c}
  BY DEF Connect, membership, consents
<1>2. UNCHANGED <<StaleSeats, FreshConsents, Visitors>>
  BY <1>1 DEF StaleSeats, Expired, FreshConsents, Visitors, VisitorOf, VisitorAt
<1>3. Door!Connects(c)
  BY <1>1, <1>2 DEF Door!Connects
<1> QED BY <1>3 DEF Door!Next, Door!ClientStep

\* handleDisconnect.
LEMMA DisconnectRefines ==
  ASSUME TypeOK, OneSeatPerClient, NEW c \in Clients, Disconnect(c)
  PROVE  Door!Next
<1>1. /\ UNCHANGED <<call, settings, consentAge>>
      /\ online' = online \ {c}
  BY DEF Disconnect, consents
<1>2. UNCHANGED <<FreshConsents, Visitors>>
  BY <1>1 DEF FreshConsents, Visitors, VisitorOf, VisitorAt
<1>3. /\ roster' = Door!Others(roster, c)
      /\ \A q \in roster' : idle'[q.session][q.client] = idle[q.session][q.client]
  <2>1. CASE SeatsOf(roster, c) = {} /\ UNCHANGED <<roster, idle>>
    BY <2>1 DEF SeatsOf, Door!Others
  <2>2. ASSUME NEW p \in SeatsOf(roster, c), roster' = roster \ {p},
               idle' = Touch(idle, p.session, c)
        PROVE  <1>3
    <3>1. p \in roster /\ p.client = c /\ \A q \in roster : q.client = c => q = p
      BY DEF SeatsOf, OneSeatPerClient
    <3>2. roster' = Door!Others(roster, c)
      BY <2>2, <3>1 DEF Door!Others
    <3>3. ASSUME NEW q \in roster'
          PROVE  idle'[q.session][q.client] = idle[q.session][q.client]
      <4>1. q \in Seats /\ p \in Seats /\ q.client # c
        BY <2>2, <3>1 DEF TypeOK
      <4> QED BY <2>2, <4>1 DEF Touch, IdleTimes, Seats, TypeOK
    <3> QED BY <3>2, <3>3
  <2> QED BY <2>1, <2>2 DEF Disconnect
<1>4. StaleSeats' = StaleSeats \cap roster'
  <2>1. roster' \subseteq roster
    BY <1>3 DEF Door!Others
  <2> QED BY <1>3, <2>1 DEF StaleSeats, Expired
<1>5. Door!Departs(c)
  BY <1>1, <1>2, <1>3, <1>4 DEF Door!Departs
<1> QED BY <1>5 DEF Door!Next, Door!ClientStep

\* The handlers that only touch the sender.
LEMMA TouchPeerRefines ==
  ASSUME TypeOK, OneSeatPerClient, NEW c \in Clients, NEW s \in SessionIds, TouchPeer(c, s)
  PROVE  Door!Next
<1>1. /\ UNCHANGED <<online, roster, call, settings, consentAge>>
      /\ c \in online /\ idle' = Touch(idle, s, c)
  BY DEF TouchPeer, sockets, consents
<1>2. UNCHANGED <<FreshConsents, Visitors>>
  BY <1>1 DEF FreshConsents, Visitors, VisitorOf, VisitorAt
<1>3. PICK p \in roster : p.session = s /\ p.client = c
  BY DEF TouchPeer, HasSeat
<1>4. ASSUME NEW q \in roster
      PROVE  q \in StaleSeats' <=> q \in StaleSeats /\ q.client # c
  <2>1. q.session \in SessionIds /\ q.client \in Clients
    BY DEF TypeOK, Seats
  <2>2. CASE q.client = c
    <3>1. q.session = s
      BY <1>3, <2>2 DEF OneSeatPerClient
    <3>2. idle'[q.session][q.client] = 0
      BY <1>1, <2>1, <2>2, <3>1 DEF Touch, IdleTimes, TypeOK
    <3>3. ~(0 > PeerTtl)
      BY SessionLimits
    <3> QED BY <2>2, <3>2, <3>3 DEF StaleSeats, Expired
  <2>3. CASE q.client # c
    <3>1. idle'[q.session][q.client] = idle[q.session][q.client]
      BY <1>1, <2>1, <2>3 DEF Touch, IdleTimes, TypeOK
    <3> QED BY <1>1, <2>3, <3>1 DEF StaleSeats, Expired
  <2> QED BY <2>2, <2>3
<1>5. StaleSeats' = {q \in StaleSeats : q.client # c}
  BY <1>1, <1>4 DEF StaleSeats, Expired
<1>6. Door!IsHeard(c)
  BY <1>1, <1>2, <1>5 DEF Door!IsHeard
<1> QED BY <1>6 DEF Door!Next, Door!ClientStep

\* The cleanup interval, and a change of the settings.
LEMMA TimerRefines ==
  ASSUME TypeOK, CleanupTimer \/ ChangeSettings
  PROVE  Door!Next
<1>1. UNCHANGED <<FreshConsents, Visitors, online>>
  BY DEF CleanupTimer, ChangeSettings, sockets, consents, FreshConsents,
         Visitors, VisitorOf, VisitorAt
<1>2. CASE CleanupTimer
  <2>1. Door!SilentAreRemoved
    BY <1>1, <1>2, CleanupRefines DEF CleanupTimer, Door!SilentAreRemoved
  <2> QED BY <2>1 DEF Door!Next
<1>3. CASE ChangeSettings
  <2>1. UNCHANGED <<roster, StaleSeats>> /\ settings' \in HostConfigs
    BY <1>3 DEF ChangeSettings, membership, StaleSeats, Expired
  <2>2. Door!HostChangesSettings
    BY <1>1, <2>1 DEF Door!HostChangesSettings
  <2> QED BY <2>2 DEF Door!Next
<1> QED BY <1>2, <1>3

\* The clock.
LEMMA TickRefines ==
  ASSUME TypeOK, Tick
  PROVE  Door!Next
<1>1. UNCHANGED <<roster, online, settings>> /\ idle' = AgeSeats(roster, idle)
  BY DEF Tick, sockets
<1>2. Visitors' = Visitors
  <2>1. ASSUME NEW k \in Calls PROVE VisitorOf(call'[k]) = VisitorOf(call[k])
    <3>1. CASE call[k].pc = "approval"
      <4>1. PICK x : x = [call[k] EXCEPT !.timeLeft = Decrement(@)]
        OBVIOUS
      <4>2. call'[k] = x /\ call[k] \in PendingCalls
        BY <3>1, <4>1, AtTheDoor DEF Tick, Pending
      <4>3. /\ x.pc = call[k].pc /\ x.client = call[k].client
            /\ x.session = call[k].session /\ x.role = call[k].role
            /\ x.password = call[k].password /\ x.asked = call[k].asked
            /\ x.needsApproval = call[k].needsApproval
        BY <4>1, <4>2 DEF PendingCalls
      <4> QED BY <4>2, <4>3 DEF VisitorOf
    <3>2. CASE call[k].pc # "approval"
      BY <3>2 DEF Tick
    <3> QED BY <3>1, <3>2
  <2>2. /\ Visitors' = [k \in Calls |-> VisitorOf(call'[k])]
        /\ Visitors = [k \in Calls |-> VisitorOf(call[k])]
    BY Zenon DEF Visitors
  <2> QED BY <2>1, <2>2
<1>3. FreshConsents' \subseteq FreshConsents
  <2>1. ASSUME NEW key \in Keys, consentAge'[key] < ApprovalCacheTtl
        PROVE  consentAge[key] < ApprovalCacheTtl
    <3>1. consentAge[key] \in 0 .. ApprovalCacheTtl /\ ApprovalCacheTtl \in Nat
      BY GatewayConstants DEF TypeOK
    <3>2. consentAge'[key] = IF consentAge[key] < ApprovalCacheTtl
                               THEN consentAge[key] + 1 ELSE consentAge[key]
      BY DEF Tick
    <3> QED BY <2>1, <3>1, <3>2
  <2> QED BY <2>1 DEF FreshConsents
<1>4. StaleSeats \subseteq StaleSeats' /\ StaleSeats' \subseteq roster
  <2>1. ASSUME NEW p \in roster, idle[p.session][p.client] > PeerTtl
        PROVE  idle'[p.session][p.client] > PeerTtl
    <3>1. p.session \in SessionIds /\ p.client \in Clients
      BY DEF TypeOK, Seats
    <3>2. idle[p.session][p.client] \in 0 .. PeerTtl + 1
      BY <3>1 DEF TypeOK, IdleTimes
    <3>3. ~(idle[p.session][p.client] <= PeerTtl)
      BY <2>1, <3>2, SessionLimits
    <3>4. idle'[p.session][p.client] = idle[p.session][p.client]
      BY <1>1, <3>1, <3>3 DEF AgeSeats
    <3> QED BY <2>1, <3>4
  <2> QED BY <1>1, <2>1 DEF StaleSeats, Expired
<1>5. Door!TimePasses
  BY <1>1, <1>2, <1>3, <1>4 DEF Door!TimePasses
<1> QED BY <1>5 DEF Door!Next

\* Every step of the gateway is a step of Admission or none it sees.
LEMMA StepRefines ==
  ASSUME TypeOK, OneSeatPerClient, CacheKnowsConsent, PlacesAreGood', [Next]_vars
  PROVE  [Door!Next]_(Door!vars)
<1>1. ASSUME NEW c \in Clients, ClientStep(c) PROVE Door!Next
  BY <1>1, ConnectRefines, DisconnectRefines, StartJoinRefines, TouchPeerRefines
     DEF ClientStep, Heartbeat, RelaySignal, AnnounceShutdown
<1>2. ASSUME NEW j \in Calls, ResumeJoin(j) PROVE [Door!Next]_(Door!vars)
  BY <1>2, ReadSettingsRefines, CheckPasswordRefines, ApprovalTimesOutRefines,
     ResumeAfterLeaveRefines, FinishJoinRefines DEF ResumeJoin
<1>3. ASSUME NEW j \in Calls, NEW approved \in BOOLEAN, HostAnswers(j, approved)
      PROVE  Door!Next
  BY <1>3, HostAnswersRefines
<1>4. CASE UNCHANGED vars
  <2>1. /\ UNCHANGED <<roster, idle, online, settings, consentAge, call>>
    BY <1>4 DEF vars, sockets, membership, consents
  <2>2. Visitors' = Visitors
    BY <2>1 DEF Visitors, VisitorOf, VisitorAt
  <2> QED BY <2>1, <2>2, NothingSeen
<1> QED BY <1>1, <1>2, <1>3, <1>4, TimerRefines, TickRefines DEF Next

\* The gateway implements Admission: through the five awaits of joinSession
\* (signaling.gateway.ts) and whatever runs during them, a place in a session is
\* only taken with the password and the consent that its settings asked for, by
\* the rules of one place per client, one role per session and the limits, and it
\* is lost only by silence, by leaving or to the join of the same client.
THEOREM GatewayAdmits == Spec => AdmissionSpec
<1>1. Init => Door!Init
  <2>1. ASSUME Init PROVE Visitors = [j \in Calls |-> Door!Nobody]
    BY <2>1 DEF Init, Visitors, VisitorOf, IdleCall, Door!Nobody
  <2>2. ASSUME Init PROVE FreshConsents = {}
    <3>1. \A key \in Keys : consentAge[key] = ApprovalCacheTtl
      BY <2>2 DEF Init
    <3>2. ~(ApprovalCacheTtl < ApprovalCacheTtl)
      BY GatewayConstants
    <3> QED BY <3>1, <3>2 DEF FreshConsents
  <2> QED BY <2>1, <2>2 DEF Init, StaleSeats, Expired, Door!Init
<1>2. TypeOK /\ CacheKnowsConsent /\ PlacesAreGood /\ PlacesAreGood' /\ [Next]_vars
        => [Door!Next]_(Door!vars)
  BY StepRefines DEF PlacesAreGood
<1>3. Spec => []PlacesAreGood
  BY SeatsAreSingle, RolesAreUnique, LimitsHold, PTL DEF PlacesAreGood
<1> QED BY <1>1, <1>2, <1>3, TypeCorrect, CacheInvariant, PTL
        DEF Spec, AdmissionSpec, Door!Spec

==============================================================================
