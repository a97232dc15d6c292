----------------------------- MODULE SessionProofs -----------------------------
(***************************************************************************)
(* Proofs about a session between two apps: the pointer, the clipboards, the *)
(* captures and the client, each by the inductive invariant of its module.   *)
(***************************************************************************)
EXTENDS Session, HostCaptureProofs, Integers, TLAPS

\* A step of the session is a step of the part in question or leaves it alone.
LEMMA SessionParts ==
    ASSUME [SessionNext]_sessionVars
    PROVE  /\ Pointer!Next \/ UNCHANGED Pointer!vars
           /\ Client!Next \/ UNCHANGED Client!vars
           /\ alone => Copying!Next \/ UNCHANGED Copying!vars
           /\ ~alone => Echo!Next \/ UNCHANGED Echo!vars
           /\ Next \/ UNCHANGED vars
           /\ UNCHANGED alone
    BY DEF SessionNext, sessionVars, CaptureMoves, ClientMoves, PointerMoves,
        ClipboardMoves, captureVars, pointerVars, clientVars, clipboardVars, Pointer!vars,
        Client!vars, Copying!vars, Copying!snapshots, Echo!vars, Echo!snapshots

-------------------------------------------------------------------------------
\* The captures

\* Beside the other parts of a session, too, changes settle and no handler stops what
\* is sent (RemoteControlClient.startDesktopCapture).
THEOREM CapturesOfSession == SessionSpec => []CaptureSettles /\ []SentIsLive
<1>1. SessionInit => Init
    BY DEF SessionInit
<1>2. [SessionNext]_sessionVars => [Next]_vars
    BY SessionParts
<1>3. SessionSpec => Spec
    BY <1>1, <1>2, PTL DEF SessionSpec, Spec
<1> QED
    BY <1>3, ChangesSettle, SentCaptureRuns

-------------------------------------------------------------------------------
\* The client

\* The proofs about a client are made of the same definitions.
ClientProofs == INSTANCE PeerClientProofs

LEMMA SameInit == ASSUME Client!Init PROVE ClientProofs!Init
    BY DEF
        Client!Init, ClientProofs!Init, Client!New, ClientProofs!New,
        Client!FaultKinds, ClientProofs!FaultKinds, Client!Slots,
        ClientProofs!Slots, Client!NoTask, ClientProofs!NoTask

LEMMA SameNext == ASSUME Client!Next PROVE ClientProofs!Next
    BY DEF
        Client!FaultKinds, ClientProofs!FaultKinds, Client!LifecycleStates,
        ClientProofs!LifecycleStates, Client!TimerKinds,
        ClientProofs!TimerKinds, Client!Slots, ClientProofs!Slots,
        Client!TaskKinds, ClientProofs!TaskKinds, Client!Causes,
        ClientProofs!Causes, Client!Task, ClientProofs!Task, Client!NoTask,
        ClientProofs!NoTask, Client!Client, ClientProofs!Client,
        Client!reduceSessionLifecycleState,
        ClientProofs!reduceSessionLifecycleState, Client!Transition,
        ClientProofs!Transition, Client!Arm, ClientProofs!Arm, Client!Stop,
        ClientProofs!Stop, Client!Free, ClientProofs!Free, Client!Await,
        ClientProofs!Await, Client!Done, ClientProofs!Done, Client!Orphaned,
        ClientProofs!Orphaned, Client!ensurePeerConnection,
        ClientProofs!ensurePeerConnection, Client!ClosedConnection,
        ClientProofs!ClosedConnection, Client!ResetKeepingCandidates,
        ClientProofs!ResetKeepingCandidates, Client!resetPeerConnection,
        ClientProofs!resetPeerConnection, Client!disconnect,
        ClientProofs!disconnect, Client!joinSession,
        ClientProofs!joinSession, Client!scheduleReconnect,
        ClientProofs!scheduleReconnect, Client!StreamMissing,
        ClientProofs!StreamMissing, Client!scheduleRemoteTrackWatchdog,
        ClientProofs!scheduleRemoteTrackWatchdog, Client!openSocket,
        ClientProofs!openSocket, Client!startDesktopCapture,
        ClientProofs!startDesktopCapture, Client!createOffer,
        ClientProofs!createOffer, Client!Settled, ClientProofs!Settled,
        Client!Connect, ClientProofs!Connect, Client!Disconnect,
        ClientProofs!Disconnect, Client!CaptureDone,
        ClientProofs!CaptureDone, Client!CaptureFails,
        ClientProofs!CaptureFails, Client!HandleHostCommand,
        ClientProofs!HandleHostCommand, Client!SocketConnects,
        ClientProofs!SocketConnects, Client!SocketDrops,
        ClientProofs!SocketDrops, Client!Answered, ClientProofs!Answered,
        Client!JoinSucceeds, ClientProofs!JoinSucceeds,
        Client!JoinNeedsPassword, ClientProofs!JoinNeedsPassword,
        Client!JoinRefused, ClientProofs!JoinRefused, Client!PasswordGiven,
        ClientProofs!PasswordGiven, Client!PasswordCancelled,
        ClientProofs!PasswordCancelled, Client!SessionJoined,
        ClientProofs!SessionJoined, Client!PeerLeaves,
        ClientProofs!PeerLeaves, Client!HandleOffer,
        ClientProofs!HandleOffer, Client!HandleAnswer,
        ClientProofs!HandleAnswer, Client!HandleIceCandidate,
        ClientProofs!HandleIceCandidate, Client!RemoteSet,
        ClientProofs!RemoteSet, Client!LocalSet, ClientProofs!LocalSet,
        Client!NegotiationFails, ClientProofs!NegotiationFails,
        Client!PcConnects, ClientProofs!PcConnects,
        Client!PcBreaksUnnoticed, ClientProofs!PcBreaksUnnoticed,
        Client!PcBreaks, ClientProofs!PcBreaks, Client!TrackStarts,
        ClientProofs!TrackStarts, Client!TrackEnds, ClientProofs!TrackEnds,
        Client!RecoverWithoutCapture, ClientProofs!RecoverWithoutCapture,
        Client!recoverConnection, ClientProofs!recoverConnection,
        Client!ReconnectFires, ClientProofs!ReconnectFires,
        Client!WatchdogFires, ClientProofs!WatchdogFires,
        Client!PotentialResume, ClientProofs!PotentialResume,
        Client!RecoverAfterNetworkResume,
        ClientProofs!RecoverAfterNetworkResume, Client!SocketStep,
        ClientProofs!SocketStep, Client!SessionStep,
        ClientProofs!SessionStep, Client!TaskStep, ClientProofs!TaskStep,
        Client!PeerMessage, ClientProofs!PeerMessage, Client!PcStep,
        ClientProofs!PcStep, Client!TimerStep, ClientProofs!TimerStep,
        Client!ClientStep, ClientProofs!ClientStep, Client!Next,
        ClientProofs!Next

LEMMA SamePromises ==
    ASSUME ClientProofs!PeerClientInv, ClientProofs!OneRecovery,
           ClientProofs!Calm => ClientProofs!HostStreams
    PROVE  ClientInOrder /\ RecoveredHostStreams
<1>1. Client!Client = ClientProofs!Client
    BY DEF Client!Client, ClientProofs!Client, Client!Task, ClientProofs!Task,
        Client!LifecycleStates, ClientProofs!LifecycleStates, Client!TimerKinds,
        ClientProofs!TimerKinds, Client!Slots, ClientProofs!Slots, Client!TaskKinds,
        ClientProofs!TaskKinds, Client!Causes, ClientProofs!Causes
<1>2. Client!PeerClientInv
    BY <1>1 DEF
        Client!PeerClientInv, ClientProofs!PeerClientInv, Client!TypeOK,
        ClientProofs!TypeOK, Client!GivenUpIsSilent,
        ClientProofs!GivenUpIsSilent, Client!SeatHeldOrRequested,
        ClientProofs!SeatHeldOrRequested, Client!HeartbeatNeedsSocket,
        ClientProofs!HeartbeatNeedsSocket, Client!DescriptionsHaveASocket,
        ClientProofs!DescriptionsHaveASocket,
        Client!QueueBelongsToConnection,
        ClientProofs!QueueBelongsToConnection, Client!ReconnectHasAPeer,
        ClientProofs!ReconnectHasAPeer, Client!WatchersHaveAConnection,
        ClientProofs!WatchersHaveAConnection, Client!Live,
        ClientProofs!Live, Client!Waiting, ClientProofs!Waiting,
        Client!Slots, ClientProofs!Slots, Client!TaskKinds,
        ClientProofs!TaskKinds
<1>3. Client!OneRecovery
    BY DEF Client!OneRecovery, ClientProofs!OneRecovery, Client!Live, ClientProofs!Live,
        Client!Slots, ClientProofs!Slots
<1>4. RecoveredHostStreams
    BY DEF RecoveredHostStreams, ClientProofs!Calm, Client!HostStreams,
        ClientProofs!HostStreams, Client!Waiting, ClientProofs!Waiting, Client!Slots,
        ClientProofs!Slots
<1> QED
    BY <1>2, <1>3, <1>4 DEF ClientInOrder

\* Beside the other parts of a session, too, a client keeps its seat, its queue, its
\* timers and its recovery with the connection they belong to, and a host whose
\* surroundings are calm streams whenever it is connected (RemoteControlClient.ts).
THEOREM ClientOfSessionInOrder ==
    SessionSpec => []ClientInOrder /\ []RecoveredHostStreams
<1>1. ClientProofs!PeersAssumption /\ ClientProofs!BoundsAssumption
    BY SessionAssumption DEF Client!PeersAssumption, Client!BoundsAssumption,
        ClientProofs!PeersAssumption, ClientProofs!BoundsAssumption
<1>2. SessionInit => ClientProofs!ClientInv
    BY <1>1, SameInit, ClientProofs!ClientInvHolds DEF SessionInit
<1>3. ASSUME ClientProofs!ClientInv, [SessionNext]_sessionVars
      PROVE  ClientProofs!ClientInv'
    <2>1. [ClientProofs!Next]_(ClientProofs!vars)
        BY <1>3, SessionParts, SameNext DEF Client!vars, ClientProofs!vars
    <2>2. ClientProofs!ClientInv /\ [ClientProofs!Next]_(ClientProofs!vars)
              => ClientProofs!ClientInv'
        BY <1>1, ClientProofs!ClientInvHolds
    <2> QED
        BY <1>3, <2>1, <2>2
<1>4. ClientProofs!ClientInv => ClientInOrder /\ RecoveredHostStreams
    BY ClientProofs!ClientPromises, SamePromises
<1> QED
    BY <1>2, <1>3, <1>4, PTL DEF SessionSpec

\* A host whose surroundings are calm streams whenever it is connected, however
\* often its connection broke and was recovered before, and whatever the other parts
\* of the session do meanwhile (RemoteControlClient.ts recoverConnection).
THEOREM RecoveredHostKeepsStreaming == SessionSpec => []RecoveredHostStreams
<1> QED
    BY ClientOfSessionInOrder, PTL

-------------------------------------------------------------------------------
\* The pointer

\* What a quotient lies between.
LEMMA Quotient ==
    ASSUME NEW n \in Int, NEW d \in Nat \ {0}, NEW low \in Int, NEW high \in Int,
           low * d <= n, n < (high + 1) * d
    PROVE  n \div d \in low..high
    OBVIOUS

\* Rounding brings a fraction nowhere that no fraction between two numbers is.
LEMMA RoundBetween ==
    ASSUME NEW n \in Int, NEW d \in Nat \ {0}, NEW low \in Int, NEW high \in Int,
           low * d <= n, n <= high * d
    PROVE  Pointer!Round(n, d) \in low..high
<1>1. 2 * n + d \in Int /\ 2 * d \in Nat \ {0}
    OBVIOUS
<1>2. low * (2 * d) <= 2 * n + d
    OBVIOUS
<1>3. 2 * n + d < (high + 1) * (2 * d)
    OBVIOUS
<1> QED
    BY <1>1, <1>2, <1>3, Quotient DEF Pointer!Round

LEMMA Products ==
    ASSUME NEW x \in Nat, NEW a \in Nat, NEW b \in Nat, NEW left \in Int, x <= a
    PROVE  /\ x * b \in Nat /\ x * b <= a * b /\ left * a \in Int
           /\ (left + b) * a = left * a + a * b
    OBVIOUS

LEMMA MiddleIsOnStream ==
    ASSUME NEW width \in VideoWidths
    PROVE  /\ Pointer!Middle(width) \in [x : Nat, screenWidth : VideoWidths]
           /\ Pointer!Middle(width).screenWidth = width
           /\ Pointer!Middle(width).x \in 0..width
<1>1. width \in Nat \ {0}
    BY SessionAssumption DEF Pointer!PointerAssumption
<1>2. Pointer!Round(width, 2) \in 0..width
    BY <1>1, RoundBetween
<1> QED
    BY <1>1, <1>2 DEF Pointer!Middle

LEMMA PointerInit == Pointer!Init => Pointer!PointerInv
<1> SUFFICES ASSUME Pointer!Init PROVE Pointer!PointerInv
    OBVIOUS
<1>1. videoWidth \in VideoWidths /\ virtualPointer = Pointer!Middle(videoWidth)
    BY DEF Pointer!Init
<1>2. /\ virtualPointer \in [x : Nat, screenWidth : VideoWidths]
      /\ virtualPointer.screenWidth \in VideoWidths
      /\ virtualPointer.x \in 0..virtualPointer.screenWidth
    BY <1>1, MiddleIsOnStream
<1>3. changes \in 0..MaxChanges
    BY SessionAssumption DEF Pointer!Init, Pointer!PointerAssumption
<1>4. cursor \in Int
    BY DEF Pointer!Init
<1>5. Pointer!TypeOK
    BY <1>2, <1>3, <1>4, Zenon DEF Pointer!Init, Pointer!TypeOK
<1> QED
    BY <1>2, <1>5 DEF Pointer!Init, Pointer!PointerInv

\* A move is put on the display or right after it.
LEMMA MoveIsNear ==
    ASSUME Pointer!PointerInv, sent # None, NEW s, s = sent.sourceId, s \in sourcesById
    PROVE  Pointer!mapControlMessageToDisplay(Pointer!sanitizePointerCoordinates(sent))
                \in layout[s].left .. (layout[s].left + layout[s].width)
<1> DEFINE move == Pointer!sanitizePointerCoordinates(sent)
           W == sent.screenWidth
           left == layout[s].left
           width == layout[s].width
           num == left * W + move.x * width
<1>1. /\ sent \in [x : Int, screenWidth : VideoWidths, sourceId : Displays]
      /\ W \in Nat \ {0} /\ left \in Int /\ width \in Nat \ {0}
    BY SessionAssumption DEF Pointer!PointerInv, Pointer!TypeOK, Pointer!PointerAssumption
<1>2. move.sourceId = s /\ move.screenWidth = W /\ move.x \in 0..W
    BY <1>1 DEF Pointer!sanitizePointerCoordinates, Pointer!clamp
<1>3. Pointer!mapControlMessageToDisplay(move) = Pointer!Round(num, W)
    BY <1>2 DEF Pointer!mapControlMessageToDisplay
<1> HIDE DEF move, W, left, width
<1>4. num \in Int /\ left * W <= num /\ num <= (left + width) * W
    <2>1. /\ move.x * width \in Nat /\ move.x * width <= W * width
          /\ left * W \in Int /\ (left + width) * W = left * W + W * width
        BY <1>1, <1>2, Products
    <2>2. W * width \in Nat
        BY <1>1
    <2> QED
        BY <2>1, <2>2
<1> HIDE DEF num
<1>5. W \in Nat \ {0} /\ left \in Int /\ left + width \in Int
    BY <1>1
<1>6. Pointer!Round(num, W) \in left..(left + width)
    BY <1>4, <1>5, RoundBetween
<1> QED
    BY <1>3, <1>6 DEF move, left, width

LEMMA PointerNext ==
    ASSUME Pointer!PointerInv, Pointer!Next
    PROVE  Pointer!PointerInv'
<1> USE DEF Pointer!PointerInv
<1>1. Pointer!TypeOK /\ VideoWidths \subseteq Nat \ {0} /\ Reach \in Nat
    BY SessionAssumption DEF Pointer!PointerAssumption
<1>2. CASE Pointer!PointerMoves
    BY <1>1, <1>2 DEF Pointer!PointerMoves, Pointer!TypeOK, Pointer!Move,
        Pointer!pointerPosition
<1>3. CASE Pointer!handlePointerMove
    <2>1. PICK x \in (0 - Reach)..Reach :
            virtualPointer' = [virtualPointer EXCEPT !.x = Pointer!Moved(x)]
        BY <1>3 DEF Pointer!handlePointerMove
    <2>2. Pointer!Moved(x) \in 0..virtualPointer.screenWidth
        BY <1>1 DEF Pointer!Moved, Pointer!clamp, Pointer!TypeOK
    <2>3. /\ virtualPointer' \in [x : Nat, screenWidth : VideoWidths]
          /\ virtualPointer'.screenWidth = virtualPointer.screenWidth
          /\ virtualPointer'.x \in 0..virtualPointer.screenWidth
        BY <1>1, <2>1, <2>2 DEF Pointer!TypeOK
    <2>4. sent' \in [x : Int, screenWidth : VideoWidths, sourceId : Displays]
        BY <1>1, <1>3, <2>3 DEF Pointer!handlePointerMove, Pointer!Move, Pointer!TypeOK
    <2> QED
        BY <1>1, <1>3, <2>3, <2>4 DEF Pointer!handlePointerMove, Pointer!TypeOK
<1>4. ASSUME NEW enabled \in BOOLEAN, Pointer!Capture(enabled)
      PROVE  Pointer!PointerInv'
    <2>1. /\ virtualPointer' \in [x : Nat, screenWidth : VideoWidths]
          /\ virtualPointer'.screenWidth \in VideoWidths
          /\ virtualPointer'.x \in 0..virtualPointer'.screenWidth
        BY <1>1, <1>4, MiddleIsOnStream DEF Pointer!Capture, Pointer!TypeOK
    <2>2. captured' \in BOOLEAN
        BY <1>4 DEF Pointer!Capture
    <2> QED
        BY <1>1, <1>4, <2>1, <2>2 DEF Pointer!Capture, Pointer!TypeOK
<1>5. ASSUME NEW s \in Displays, Pointer!switchRemoteSource(s)
      PROVE  Pointer!PointerInv'
    <2>1. /\ virtualPointer' \in [x : Nat, screenWidth : VideoWidths]
          /\ virtualPointer'.screenWidth \in VideoWidths
          /\ virtualPointer'.x \in 0..virtualPointer'.screenWidth
        BY <1>1, <1>5, MiddleIsOnStream DEF Pointer!switchRemoteSource, Pointer!TypeOK
    <2> QED
        BY <1>1, <1>5, <2>1 DEF Pointer!switchRemoteSource, Pointer!TypeOK
<1>6. ASSUME NEW width \in VideoWidths, Pointer!VideoResizes(width)
      PROVE  Pointer!PointerInv'
    BY <1>1, <1>6 DEF Pointer!VideoResizes, Pointer!TypeOK
<1>7. ASSUME NEW next \in Layouts, Pointer!DisplaysChange(next)
      PROVE  Pointer!PointerInv'
    BY <1>1, <1>7, SessionAssumption DEF Pointer!DisplaysChange, Pointer!TypeOK,
        Pointer!PointerAssumption
<1>8. CASE Pointer!getSources
    BY <1>1, <1>8 DEF Pointer!getSources, Pointer!TypeOK
<1>9. CASE Pointer!HandleMove
    <2> DEFINE move == Pointer!sanitizePointerCoordinates(sent)
    <2>1. /\ sent # None
          /\ sent \in [x : Int, screenWidth : VideoWidths, sourceId : Displays]
          /\ cursor' = Pointer!mapControlMessageToDisplay(move)
        BY <1>9 DEF Pointer!HandleMove
    <2>2. move.sourceId = sent.sourceId /\ move.x \in Int
        BY <1>1, <2>1 DEF Pointer!sanitizePointerCoordinates, Pointer!clamp
    <2> HIDE DEF move
    <2>3. CASE sent.sourceId \in sourcesById
        <3>1. layout[sent.sourceId].left \in Int /\ layout[sent.sourceId].width \in Int
            BY <1>1, <2>1, SessionAssumption DEF Pointer!TypeOK, Pointer!PointerAssumption
        <3>2. cursor' \in layout[sent.sourceId].left ..
                            (layout[sent.sourceId].left + layout[sent.sourceId].width)
            BY <2>1, <2>3, MoveIsNear DEF move
        <3> QED
            BY <1>1, <1>9, <3>1, <3>2 DEF Pointer!HandleMove, Pointer!TypeOK
    <2>4. CASE sent.sourceId \notin sourcesById
        <3>1. cursor' = move.x
            BY <2>1, <2>2, <2>4 DEF Pointer!mapControlMessageToDisplay
        <3> QED
            BY <1>1, <1>9, <2>2, <3>1 DEF Pointer!HandleMove, Pointer!TypeOK
    <2> QED
        BY <2>3, <2>4
<1> QED
    BY <1>2, <1>3, <1>4, <1>5, <1>6, <1>7, <1>8, <1>9 DEF Pointer!Next

\* Whatever the monitors, their arrangement and the resolution of the stream, a move
\* puts the host's pointer on the monitor it was made for, or on the line right after
\* it (index.ts mapControlMessageToDisplay).
THEOREM PointerStaysNearMonitor == SessionSpec => PointerNearMonitor
<1> DEFINE Near == (Pointer!HandleMove /\ sent.sourceId \in sourcesById) =>
            LET display == Pointer!Bounds(sent.sourceId)
            IN  cursor' \in display.left..(display.left + display.width)
<1>1. SessionInit => Pointer!PointerInv
    BY PointerInit DEF SessionInit
<1>2. Pointer!PointerInv /\ UNCHANGED Pointer!vars => Pointer!PointerInv'
    BY DEF Pointer!PointerInv, Pointer!TypeOK, Pointer!vars
<1>3. Pointer!PointerInv /\ [SessionNext]_sessionVars => Pointer!PointerInv'
    BY <1>2, PointerNext, SessionParts
<1>4. Pointer!PointerInv /\ [SessionNext]_sessionVars => [Near]_Pointer!vars
    BY MoveIsNear DEF Pointer!HandleMove, Pointer!Bounds
<1>5. Pointer!PointerInv => Pointer!TypeOK
    BY DEF Pointer!PointerInv
<1> HIDE DEF Near
<1>6. SessionSpec => []Pointer!TypeOK /\ [][Near]_Pointer!vars
    BY <1>1, <1>3, <1>4, <1>5, PTL DEF SessionSpec
<1> QED
    BY <1>6 DEF PointerNearMonitor, Pointer!PutNearDisplay, Near

-------------------------------------------------------------------------------
\* The clipboards

LEMMA Ends == /\ \A e \in TwoEnds : OtherEnd(e) \in TwoEnds /\ OtherEnd(e) # e
              /\ \A e \in TwoEnds : OtherEnd(OtherEnd(e)) = e
              /\ \A e, f \in TwoEnds : f = e \/ f = OtherEnd(e)
    BY DEF TwoEnds, OtherEnd

LEMMA ContentTypes ==
    /\ Empty \in Contents /\ Copies \in [TwoEnds -> SUBSET Contents]
    /\ ViewerCopies \in [TwoEnds -> SUBSET Contents]
    BY SessionAssumption DEF Echo!ClipboardAssumption, ViewerCopies

LEMMA EchoInit == Echo!Init => Echo!EchoInv
<1> SUFFICES ASSUME Echo!Init PROVE Echo!EchoInv
    OBVIOUS
<1>1. board \in [TwoEnds -> Contents]
    BY ContentTypes DEF Echo!Init
<1>2. /\ clipboardSnapshot = board /\ remoteClipboardSnapshot = [e \in TwoEnds |-> Empty]
      /\ pending = [e \in TwoEnds |-> Empty] /\ wire = [e \in TwoEnds |-> <<>>]
    BY DEF Echo!Init
<1>3. Echo!TypeOK
    <2>1. interval \in [TwoEnds -> BOOLEAN] /\ channelOpen \in BOOLEAN
        BY DEF Echo!Init
    <2> QED
        BY <1>1, <1>2, <2>1, ContentTypes DEF Echo!TypeOK
<1>4. Echo!Wires /\ Echo!NoEcho
    BY <1>2, Ends DEF Echo!Wires, Echo!NoEcho
<1>5. Echo!NothingWaits
    BY DEF Echo!Init, Echo!NothingWaits
<1>6. Echo!SentIsOwn
    BY <1>1, <1>2 DEF Echo!SentIsOwn
<1> QED
    BY <1>3, <1>4, <1>5, <1>6 DEF Echo!EchoInv

LEMMA EchoNext ==
    ASSUME Echo!EchoInv, Echo!Next
    PROVE  Echo!EchoInv'
<1>1. /\ Echo!TypeOK /\ Echo!Wires /\ Echo!NothingWaits /\ Echo!NoEcho /\ Echo!SentIsOwn
    BY DEF Echo!EchoInv
<1>2. ASSUME NEW e \in TwoEnds, NEW content \in Copies[e], Echo!Copy(e, content)
      PROVE  Echo!EchoInv'
    <2>1. content \in Contents
        BY <1>2, ContentTypes
    <2>2. board' = [board EXCEPT ![e] = content]
          /\ UNCHANGED <<clipboardSnapshot, remoteClipboardSnapshot, pending, interval,
                         channelOpen, wire>>
        BY <1>2 DEF Echo!Copy, Echo!snapshots
    <2>3. Echo!TypeOK'
        BY <1>1, <2>1, <2>2 DEF Echo!TypeOK
    <2>4. Echo!SentIsOwn'
        BY <1>1, <1>2, <2>2 DEF Echo!SentIsOwn, Echo!TypeOK
    <2> QED
        BY <1>1, <2>2, <2>3, <2>4 DEF Echo!EchoInv, Echo!Wires, Echo!NothingWaits,
            Echo!NoEcho
<1>3. ASSUME NEW e \in TwoEnds, Echo!Poll(e)
      PROVE  Echo!EchoInv'
    <2>1. /\ interval[e] /\ channelOpen /\ board[e] # clipboardSnapshot[e]
          /\ clipboardSnapshot' = [clipboardSnapshot EXCEPT ![e] = board[e]]
          /\ \/ pending' = pending
             \/ board[e] # remoteClipboardSnapshot[e]
                /\ pending' = [pending EXCEPT ![e] = board[e]]
          /\ UNCHANGED <<board, remoteClipboardSnapshot, interval, channelOpen, wire>>
        BY <1>3 DEF Echo!Poll
    <2>2. board[e] \in Contents
        BY <1>1 DEF Echo!TypeOK
    <2>3. Echo!TypeOK'
        BY <1>1, <2>1, <2>2 DEF Echo!TypeOK
    <2>4. Echo!SentIsOwn'
        BY <1>1, <2>1 DEF Echo!SentIsOwn, Echo!TypeOK
    <2> QED
        BY <1>1, <2>1, <2>3, <2>4 DEF Echo!EchoInv, Echo!Wires, Echo!NothingWaits,
            Echo!NoEcho
<1>4. ASSUME NEW e \in TwoEnds, Echo!SendPending(e)
      PROVE  Echo!EchoInv'
    <2> DEFINE o == OtherEnd(e)
    <2>1. /\ pending[e] # Empty /\ channelOpen
          /\ pending' = [pending EXCEPT ![e] = Empty]
          /\ wire' = [wire EXCEPT ![o] = Append(wire[o], pending[e])]
          /\ UNCHANGED <<board, clipboardSnapshot, remoteClipboardSnapshot, interval,
                         channelOpen>>
        BY <1>1, <1>4 DEF Echo!SendPending, Echo!NothingWaits, Echo!snapshots
    <2>2. /\ o \in TwoEnds /\ o # e /\ OtherEnd(o) = e /\ pending[e] \in Contents
          /\ wire \in [TwoEnds -> Seq(Contents)] /\ wire[o] \in Seq(Contents)
        BY <1>1, Ends DEF Echo!TypeOK, Echo!Wires
    <2> HIDE DEF o
    <2>3. /\ wire' \in [TwoEnds -> Seq(Contents)]
          /\ \A f \in TwoEnds : f # o => wire'[f] = wire[f]
          /\ \A i \in DOMAIN wire'[o] :
                wire'[o][i] = pending[e] \/ \E j \in DOMAIN wire[o] : wire'[o][i] = wire[o][j]
        BY <2>1, <2>2, Appended
    <2>4. pending[e] \in Copies[e] /\ \A f \in TwoEnds : OtherEnd(f) = o => f = e
        BY <1>1, <2>1, <2>2, Ends DEF Echo!SentIsOwn
    <2>5. Echo!TypeOK'
        BY <1>1, <2>1, <2>3, ContentTypes DEF Echo!TypeOK
    <2>6. Echo!Wires'
        BY <1>1, <2>1, <2>3 DEF Echo!Wires
    <2>7. Echo!NoEcho'
        <3>1. ASSUME NEW f \in TwoEnds, NEW i \in DOMAIN wire'[OtherEnd(f)]
              PROVE  wire'[OtherEnd(f)][i] \in Copies[f]
            <4>1. CASE OtherEnd(f) = o
                <5>1. f = e
                    BY <2>4, <4>1
                <5>2. wire'[o][i] = pending[e] \/ \E j \in DOMAIN wire[o] : wire'[o][i] = wire[o][j]
                    BY <2>3, <3>1, <4>1
                <5>3. \A j \in DOMAIN wire[o] : wire[o][j] \in Copies[e]
                    BY <1>1, <4>1, <5>1 DEF Echo!NoEcho
                <5> QED
                    BY <2>4, <4>1, <5>1, <5>2, <5>3
            <4>2. CASE OtherEnd(f) # o
                BY <1>1, <2>3, <3>1, <4>2, Ends DEF Echo!NoEcho
            <4> QED
                BY <4>1, <4>2
        <3> QED
            BY <3>1 DEF Echo!NoEcho
    <2>8. Echo!SentIsOwn' /\ Echo!NothingWaits'
        BY <1>1, <2>1 DEF Echo!SentIsOwn, Echo!TypeOK, Echo!NothingWaits
    <2> QED
        BY <2>5, <2>6, <2>7, <2>8 DEF Echo!EchoInv
<1>5. ASSUME NEW e \in TwoEnds, Echo!Receive(e)
      PROVE  Echo!EchoInv'
    <2>1. /\ wire[e] # <<>> /\ wire' = [wire EXCEPT ![e] = Tail(wire[e])]
          /\ wire \in [TwoEnds -> Seq(Contents)] /\ wire[e] \in Seq(Contents)
          /\ UNCHANGED <<pending, interval, channelOpen>>
        BY <1>1, <1>5 DEF Echo!Receive, Echo!Wires
    <2>2. Head(wire[e]) \in Contents
        BY <2>1, Shortened
    <2>3. \/ UNCHANGED <<board, clipboardSnapshot, remoteClipboardSnapshot>>
          \/ /\ board' = [board EXCEPT ![e] = Head(wire[e])]
             /\ clipboardSnapshot' = [clipboardSnapshot EXCEPT ![e] = Head(wire[e])]
             /\ remoteClipboardSnapshot' =
                    [remoteClipboardSnapshot EXCEPT ![e] = Head(wire[e])]
        BY <1>5 DEF Echo!Receive, Echo!applyRemoteClipboard, AsWritten, Echo!snapshots
    <2>4. /\ wire' \in [TwoEnds -> Seq(Contents)]
          /\ \A f \in TwoEnds : \A i \in DOMAIN wire'[f] :
                \E j \in DOMAIN wire[f] : wire'[f][i] = wire[f][j]
        BY <2>1, Shortened
    <2>5. Echo!TypeOK'
        <3>1. /\ board' \in [TwoEnds -> Contents] /\ clipboardSnapshot' \in [TwoEnds -> Contents]
              /\ remoteClipboardSnapshot' \in [TwoEnds -> Contents]
            BY <1>1, <2>2, <2>3 DEF Echo!TypeOK
        <3> QED
            BY <1>1, <2>1, <2>4, <3>1 DEF Echo!TypeOK
    <2>6. Echo!Wires' /\ Echo!NothingWaits'
        BY <1>1, <2>1, <2>4 DEF Echo!Wires, Echo!NothingWaits
    <2>7. Echo!NoEcho'
        BY <1>1, <2>4, Ends DEF Echo!NoEcho
    <2>8. Echo!SentIsOwn'
        BY <1>1, <2>1, <2>3 DEF Echo!SentIsOwn, Echo!TypeOK
    <2> QED
        BY <2>5, <2>6, <2>7, <2>8 DEF Echo!EchoInv
<1>6. CASE Echo!ChannelCloses
    <2>1. /\ channelOpen' = FALSE /\ wire' = [e \in TwoEnds |-> <<>>]
          /\ pending' = [e \in TwoEnds |-> Empty] /\ interval' = [e \in TwoEnds |-> FALSE]
          /\ UNCHANGED <<board, clipboardSnapshot, remoteClipboardSnapshot>>
        BY <1>6 DEF Echo!ChannelCloses, Echo!snapshots
    <2>2. Echo!TypeOK'
        <3>1. pending' \in [TwoEnds -> Contents] /\ interval' \in [TwoEnds -> BOOLEAN]
            BY <2>1, ContentTypes
        <3>2. \A e \in TwoEnds : \A i \in DOMAIN wire'[e] : wire'[e][i] \in Contents
            BY <2>1
        <3> QED
            BY <1>1, <2>1, <3>1, <3>2 DEF Echo!TypeOK
    <2>3. Echo!Wires' /\ Echo!NoEcho'
        BY <2>1, Ends DEF Echo!Wires, Echo!NoEcho
    <2>4. Echo!NothingWaits' /\ Echo!SentIsOwn'
        BY <1>1, <2>1 DEF Echo!NothingWaits, Echo!SentIsOwn
    <2> QED
        BY <2>2, <2>3, <2>4 DEF Echo!EchoInv
<1>7. CASE Echo!ChannelOpens
    <2>1. /\ channelOpen' = TRUE /\ clipboardSnapshot' = board
          /\ interval' = [e \in TwoEnds |-> TRUE]
          /\ UNCHANGED <<board, remoteClipboardSnapshot, pending, wire>>
        BY <1>7 DEF Echo!ChannelOpens
    <2>2. Echo!TypeOK'
        BY <1>1, <2>1 DEF Echo!TypeOK
    <2>3. Echo!Wires' /\ Echo!NoEcho' /\ Echo!NothingWaits'
        BY <1>1, <2>1 DEF Echo!Wires, Echo!NoEcho, Echo!NothingWaits
    <2>4. Echo!SentIsOwn'
        BY <1>1, <2>1 DEF Echo!SentIsOwn
    <2> QED
        BY <2>2, <2>3, <2>4 DEF Echo!EchoInv
<1> QED
    BY <1>2, <1>3, <1>4, <1>5, <1>6, <1>7 DEF Echo!Next, Echo!Sync

\* What OneWay says of the viewer, whose user alone copies.
LEMMA ViewerToHost ==
    Copying!OneWay <=>
        /\ wire["viewer"] = <<>> /\ pending["host"] = Empty
        /\ remoteClipboardSnapshot["viewer"] = Empty
        /\ board["host"] = clipboardSnapshot["host"]
        /\ remoteClipboardSnapshot["host"] \in {Empty, board["host"]}
        /\ Copying!LastPolledIsOnItsWay("viewer", "host")
<1>1. /\ TwoEnds = {"viewer", "host"} /\ OtherEnd("viewer") = "host"
      /\ OtherEnd("host") = "viewer"
    BY DEF TwoEnds, OtherEnd
<1>2. ViewerCopies["host"] = {} /\ ViewerCopies["viewer"] # {}
    BY ContentTypes DEF ViewerCopies, TwoEnds
<1> HIDE DEF TwoEnds, OtherEnd
<1> QED
    BY <1>1, <1>2 DEF Copying!OneWay

LEMMA ViewerToHostNext ==
    ASSUME wire'["viewer"] = <<>>, pending'["host"] = Empty,
           remoteClipboardSnapshot'["viewer"] = Empty,
           board'["host"] = clipboardSnapshot'["host"],
           remoteClipboardSnapshot'["host"] \in {Empty, board'["host"]},
           Copying!LastPolledIsOnItsWay("viewer", "host")'
    PROVE  Copying!OneWay'
<1>1. /\ TwoEnds = {"viewer", "host"} /\ OtherEnd("viewer") = "host"
      /\ OtherEnd("host") = "viewer"
    BY DEF TwoEnds, OtherEnd
<1>2. ViewerCopies["viewer"] # {}
    BY ContentTypes DEF ViewerCopies, TwoEnds
<1> HIDE DEF TwoEnds, OtherEnd
<1> QED
    BY <1>1, <1>2 DEF Copying!OneWay

LEMMA CopyingInit == Copying!Init => Copying!CopyingInv
<1> SUFFICES ASSUME Copying!Init PROVE Copying!CopyingInv
    OBVIOUS
<1>1. board \in [TwoEnds -> Contents]
    BY ContentTypes DEF Copying!Init
<1>2. /\ clipboardSnapshot = board /\ remoteClipboardSnapshot = [e \in TwoEnds |-> Empty]
      /\ pending = [e \in TwoEnds |-> Empty] /\ wire = [e \in TwoEnds |-> <<>>]
    BY DEF Copying!Init
<1>3. Copying!TypeOK /\ channelOpen
    <2>1. interval \in [TwoEnds -> BOOLEAN] /\ channelOpen = TRUE
        BY DEF Copying!Init
    <2> QED
        BY <1>1, <1>2, <2>1, ContentTypes DEF Copying!TypeOK
<1>4. Copying!Wires
    BY <1>2 DEF Copying!Wires
<1>5. Copying!OneWay
    BY <1>2, ViewerToHost DEF Copying!LastPolledIsOnItsWay, TwoEnds
<1> QED
    BY <1>3, <1>4, <1>5 DEF Copying!CopyingInv

LEMMA CopyingNext ==
    ASSUME Copying!CopyingInv, Copying!Next
    PROVE  Copying!CopyingInv'
<1>1. /\ Copying!TypeOK /\ Copying!Wires /\ channelOpen /\ Copying!OneWay
    BY DEF Copying!CopyingInv
<1>2. /\ wire["viewer"] = <<>> /\ pending["host"] = Empty
      /\ remoteClipboardSnapshot["viewer"] = Empty
      /\ board["host"] = clipboardSnapshot["host"]
      /\ remoteClipboardSnapshot["host"] \in {Empty, board["host"]}
      /\ Copying!LastPolledIsOnItsWay("viewer", "host")
    BY <1>1, ViewerToHost
<1>3. /\ "viewer" \in TwoEnds /\ "host" \in TwoEnds
      /\ TwoEnds = {"viewer", "host"}
    BY DEF TwoEnds
<1>4. ASSUME NEW e \in TwoEnds, NEW content \in ViewerCopies[e], Copying!Copy(e, content)
      PROVE  Copying!CopyingInv'
    <2>1. e = "viewer" /\ content \in Contents
        BY <1>4 DEF ViewerCopies, TwoEnds
    <2>2. board' = [board EXCEPT !["viewer"] = content]
          /\ UNCHANGED <<clipboardSnapshot, remoteClipboardSnapshot, pending, interval,
                         channelOpen, wire>>
        BY <1>4, <2>1 DEF Copying!Copy, Copying!snapshots
    <2>3. Copying!TypeOK'
        BY <1>1, <2>1, <2>2 DEF Copying!TypeOK
    <2>4. board'["host"] = board["host"]
        BY <1>1, <1>3, <2>2 DEF Copying!TypeOK
    <2>5. Copying!LastPolledIsOnItsWay("viewer", "host")'
        BY <1>2, <2>2 DEF Copying!LastPolledIsOnItsWay
    <2>6. Copying!OneWay'
        BY <1>2, <2>2, <2>4, <2>5, ViewerToHostNext
    <2> QED
        BY <1>1, <2>2, <2>3, <2>6 DEF Copying!CopyingInv, Copying!Wires
<1>5. ASSUME NEW e \in TwoEnds, Copying!Poll(e)
      PROVE  Copying!CopyingInv'
    <2>1. e = "viewer"
        BY <1>2, <1>3, <1>5 DEF Copying!Poll
    <2>2. /\ clipboardSnapshot' = [clipboardSnapshot EXCEPT !["viewer"] = board["viewer"]]
          /\ pending' = IF board["viewer"] # Empty
                        THEN [pending EXCEPT !["viewer"] = board["viewer"]] ELSE pending
          /\ UNCHANGED <<board, remoteClipboardSnapshot, interval, channelOpen, wire>>
        BY <1>2, <1>5, <2>1 DEF Copying!Poll, Copying!hasClipboardData
    <2>3. board["viewer"] \in Contents
        BY <1>1, <1>3 DEF Copying!TypeOK
    <2>4. Copying!TypeOK'
        BY <1>1, <2>2, <2>3 DEF Copying!TypeOK
    <2>5. /\ clipboardSnapshot'["viewer"] = board["viewer"]
          /\ clipboardSnapshot'["host"] = clipboardSnapshot["host"]
          /\ pending'["host"] = pending["host"]
          /\ board["viewer"] # Empty => pending'["viewer"] = board["viewer"]
        BY <1>1, <1>3, <2>2 DEF Copying!TypeOK
    <2>6. Copying!LastPolledIsOnItsWay("viewer", "host")'
        BY <2>5 DEF Copying!LastPolledIsOnItsWay
    <2>7. Copying!OneWay'
        BY <1>2, <2>2, <2>5, <2>6, ViewerToHostNext
    <2> QED
        BY <1>1, <2>2, <2>4, <2>7 DEF Copying!CopyingInv, Copying!Wires
<1>6. ASSUME NEW e \in TwoEnds, Copying!SendPending(e)
      PROVE  Copying!CopyingInv'
    <2>1. e = "viewer" /\ OtherEnd(e) = "host"
        BY <1>2, <1>3, <1>6 DEF Copying!SendPending, OtherEnd
    <2>2. /\ pending["viewer"] # Empty
          /\ pending' = [pending EXCEPT !["viewer"] = Empty]
          /\ wire' = [wire EXCEPT !["host"] = Append(wire["host"], pending["viewer"])]
          /\ UNCHANGED <<board, clipboardSnapshot, remoteClipboardSnapshot, interval,
                         channelOpen>>
        BY <1>1, <1>6, <2>1 DEF Copying!SendPending, Copying!snapshots
    <2>3. /\ wire \in [TwoEnds -> Seq(Contents)] /\ wire["host"] \in Seq(Contents)
          /\ pending["viewer"] \in Contents /\ pending \in [TwoEnds -> Contents]
        BY <1>1, <1>3 DEF Copying!TypeOK, Copying!Wires
    <2>4. /\ wire' \in [TwoEnds -> Seq(Contents)] /\ wire'["viewer"] = wire["viewer"]
          /\ wire'["host"] = Append(wire["host"], pending["viewer"])
        <3>1. Append(wire["host"], pending["viewer"]) \in Seq(Contents)
            BY ONLY <2>3, Appended
        <3> QED
            BY <1>3, <2>2, <2>3, <3>1
    <2>5. /\ wire'["host"] # <<>> /\ wire'["host"][Len(wire'["host"])] = pending["viewer"]
          /\ \A i \in DOMAIN wire'["host"] : wire'["host"][i] = pending["viewer"]
                \/ \E j \in DOMAIN wire["host"] : wire'["host"][i] = wire["host"][j]
        <3> DEFINE queue == wire["host"]
                   new == pending["viewer"]
        <3>1. queue \in Seq(Contents) /\ new \in Contents
            BY <2>3
        <3>2. wire'["host"] = Append(queue, new)
            BY <2>4
        <3> HIDE DEF queue, new
        <3>3. /\ Append(queue, new) # <<>>
              /\ Append(queue, new)[Len(Append(queue, new))] = new
              /\ \A i \in DOMAIN Append(queue, new) :
                    Append(queue, new)[i] = new
                    \/ \E j \in DOMAIN queue : Append(queue, new)[i] = queue[j]
            BY ONLY <3>1, Appended
        <3>4. /\ wire'["host"] # <<>> /\ wire'["host"][Len(wire'["host"])] = new
              /\ \A i \in DOMAIN wire'["host"] : wire'["host"][i] = new
                    \/ \E j \in DOMAIN queue : wire'["host"][i] = queue[j]
            BY ONLY <3>2, <3>3
        <3> QED
            BY <3>4 DEF queue, new
    <2>6. /\ pending' \in [TwoEnds -> Contents] /\ pending'["viewer"] = Empty
          /\ pending'["host"] = pending["host"]
        BY <1>3, <2>2, <2>3, ContentTypes
    <2>7. Copying!Wires'
        BY <1>1, <1>3, <2>2, <2>4, <2>5 DEF Copying!Wires
    <2>8. Copying!TypeOK'
        BY <1>1, <2>2, <2>4, <2>6 DEF Copying!TypeOK
    <2>9. Copying!LastPolledIsOnItsWay("viewer", "host")'
        BY <1>2, <2>2, <2>5, <2>6 DEF Copying!LastPolledIsOnItsWay
    <2>10. Copying!OneWay'
        BY <1>2, <2>2, <2>4, <2>6, <2>9, ViewerToHostNext
    <2> QED
        BY <1>1, <2>2, <2>7, <2>8, <2>10 DEF Copying!CopyingInv
<1>7. ASSUME NEW e \in TwoEnds, Copying!Receive(e)
      PROVE  Copying!CopyingInv'
    <2> DEFINE content == Head(wire["host"])
    <2>1. e = "host"
        BY <1>2, <1>3, <1>7 DEF Copying!Receive
    <2>2. /\ wire["host"] # <<>> /\ wire' = [wire EXCEPT !["host"] = Tail(wire["host"])]
          /\ wire \in [TwoEnds -> Seq(Contents)] /\ wire["host"] \in Seq(Contents)
          /\ UNCHANGED <<pending, interval, channelOpen>>
        BY <1>1, <1>3, <1>7, <2>1 DEF Copying!Receive, Copying!Wires
    <2>3. /\ Tail(wire["host"]) \in Seq(Contents) /\ content \in Contents
          /\ content = wire["host"][1] /\ 1 \in DOMAIN wire["host"]
          /\ \A i \in DOMAIN Tail(wire["host"]) :
                \E j \in DOMAIN wire["host"] : Tail(wire["host"])[i] = wire["host"][j]
          /\ Tail(wire["host"]) # <<>> =>
                Tail(wire["host"])[Len(Tail(wire["host"]))] = wire["host"][Len(wire["host"])]
          /\ Tail(wire["host"]) = <<>> => wire["host"][Len(wire["host"])] = content
        BY <2>2, Shortened
    <2>4. content # Empty
        BY <1>1, <1>3, <2>3 DEF Copying!Wires
    <2>5. \/ UNCHANGED <<board, clipboardSnapshot, remoteClipboardSnapshot>>
             /\ content \in Refused
          \/ /\ board' = [board EXCEPT !["host"] = content]
             /\ clipboardSnapshot' = [clipboardSnapshot EXCEPT !["host"] = content]
             /\ remoteClipboardSnapshot' = [remoteClipboardSnapshot EXCEPT !["host"] = content]
        BY <1>7, <2>1, <2>4 DEF Copying!Receive, Copying!applyRemoteClipboard, AsWritten,
            Copying!snapshots, Copying!hasClipboardData, Copying!sanitizeClipboardSyncMessage
    <2> HIDE DEF content
    <2>6. /\ wire' \in [TwoEnds -> Seq(Contents)] /\ wire'["viewer"] = wire["viewer"]
          /\ wire'["host"] = Tail(wire["host"])
        BY <1>3, <2>2, <2>3
    <2>7. /\ board' \in [TwoEnds -> Contents] /\ clipboardSnapshot' \in [TwoEnds -> Contents]
          /\ remoteClipboardSnapshot' \in [TwoEnds -> Contents]
          /\ board'["viewer"] = board["viewer"]
          /\ clipboardSnapshot'["viewer"] = clipboardSnapshot["viewer"]
          /\ remoteClipboardSnapshot'["viewer"] = remoteClipboardSnapshot["viewer"]
          /\ board'["host"] = clipboardSnapshot'["host"]
          /\ remoteClipboardSnapshot'["host"] \in {Empty, board'["host"]}
          /\ content \in Refused \/ remoteClipboardSnapshot'["host"] = content
        BY <1>1, <1>2, <1>3, <2>3, <2>5 DEF Copying!TypeOK
    <2>8. Copying!Wires'
        <3>1. \A i \in DOMAIN wire'["host"] : wire'["host"][i] # Empty
            BY <1>1, <1>3, <2>3, <2>6 DEF Copying!Wires
        <3> QED
            BY <1>1, <1>3, <2>6, <3>1 DEF Copying!Wires
    <2>9. Copying!TypeOK'
        BY <1>1, <2>2, <2>6, <2>7 DEF Copying!TypeOK
    <2>10. Copying!LastPolledIsOnItsWay("viewer", "host")'
        <3>1. CASE clipboardSnapshot["viewer"] \in {Empty, pending["viewer"]}
            BY <2>2, <2>7, <3>1 DEF Copying!LastPolledIsOnItsWay
        <3>2. CASE /\ pending["viewer"] = Empty
                   /\ wire["host"][Len(wire["host"])] = clipboardSnapshot["viewer"]
            <4>1. CASE Tail(wire["host"]) = <<>>
                BY <2>2, <2>3, <2>6, <2>7, <3>2, <4>1 DEF Copying!LastPolledIsOnItsWay
            <4>2. CASE Tail(wire["host"]) # <<>>
                <5>1. wire'["host"][Len(wire'["host"])] = clipboardSnapshot["viewer"]
                    BY <2>3, <2>6, <3>2, <4>2
                <5> QED
                    BY <2>2, <2>6, <2>7, <3>2, <4>2, <5>1 DEF Copying!LastPolledIsOnItsWay
            <4> QED
                BY <4>1, <4>2
        <3> QED
            BY <1>2, <2>2, <3>1, <3>2 DEF Copying!LastPolledIsOnItsWay
    <2>11. Copying!OneWay'
        BY <1>2, <2>2, <2>6, <2>7, <2>10, ViewerToHostNext
    <2> QED
        BY <1>1, <2>2, <2>8, <2>9, <2>11 DEF Copying!CopyingInv
<1>8. ~Copying!ChannelCloses /\ ~Copying!ChannelOpens
    BY <1>1 DEF Copying!ChannelCloses, Copying!ChannelOpens
<1> QED
    BY <1>4, <1>5, <1>6, <1>7, <1>8 DEF Copying!Next, Copying!Sync

LEMMA LastCopyArrived == Copying!CopyingInv => Copying!LastCopyArrives
<1> SUFFICES ASSUME Copying!CopyingInv, NEW e \in TwoEnds, Copying!Quiet,
                    remoteClipboardSnapshot[OtherEnd(e)] # Empty,
                    board[e] \notin Refused \cup {Empty}
             PROVE  board[OtherEnd(e)] = board[e]
    BY DEF Copying!LastCopyArrives
<1>1. /\ wire["viewer"] = <<>> /\ pending["host"] = Empty
      /\ remoteClipboardSnapshot["viewer"] = Empty
      /\ remoteClipboardSnapshot["host"] \in {Empty, board["host"]}
      /\ Copying!LastPolledIsOnItsWay("viewer", "host")
    BY ViewerToHost DEF Copying!CopyingInv
<1>2. e = "viewer" /\ OtherEnd(e) = "host"
    BY <1>1 DEF OtherEnd, TwoEnds
<1>3. /\ wire["host"] = <<>> /\ pending["viewer"] = Empty
      /\ board["viewer"] \in {clipboardSnapshot["viewer"], remoteClipboardSnapshot["viewer"]}
    BY DEF Copying!Quiet, TwoEnds
<1> QED
    BY <1>1, <1>2, <1>3 DEF Copying!LastPolledIsOnItsWay

\* However copies, polls and messages cross, nothing is sent back to where it was
\* copied, nothing that was copied before waits for the next channel, and where one
\* user copies the last copy arrives, for any contents (RemoteControlClient.ts
\* applyRemoteClipboard, startClipboardSync).
THEOREM ClipboardsOfSessionAgree == SessionSpec => []ClipboardsAgree
<1> DEFINE Inv == IF alone THEN Copying!CopyingInv ELSE Echo!EchoInv
<1>1. SessionInit => Inv
    BY CopyingInit, EchoInit DEF SessionInit
<1>2. Inv /\ UNCHANGED <<alone, clipboardVars>> => Inv'
    <2> SUFFICES ASSUME Inv, UNCHANGED <<alone, clipboardVars>> PROVE Inv'
        OBVIOUS
    <2>1. CASE alone
        BY <2>1 DEF clipboardVars, Copying!CopyingInv, Copying!TypeOK, Copying!Wires,
            Copying!OneWay, Copying!LastPolledIsOnItsWay
    <2>2. CASE ~alone
        BY <2>2 DEF clipboardVars, Echo!EchoInv, Echo!TypeOK, Echo!Wires,
            Echo!NothingWaits, Echo!NoEcho, Echo!SentIsOwn
    <2> QED
        BY <2>1, <2>2
<1>3. Inv /\ [SessionNext]_sessionVars => Inv'
    BY <1>2, CopyingNext, EchoNext, SessionParts DEF Copying!vars, Copying!snapshots,
        Echo!vars, Echo!snapshots, clipboardVars
<1>4. Inv => ClipboardsAgree
    BY LastCopyArrived DEF ClipboardsAgree, Copying!CopyingInv, Echo!EchoInv
<1> HIDE DEF Inv
<1> QED
    BY <1>1, <1>3, <1>4, PTL DEF SessionSpec

===============================================================================
