------------------------------ MODULE PeerClient ------------------------------
(***************************************************************************)
(* RemoteControlClient of the renderer: one connection of a host or a       *)
(* viewer, from connect() to disconnect().  The client joins a session over *)
(* a socket that comes and goes, negotiates a WebRTC connection with the    *)
(* peer it is told about, and repairs both with timers.                     *)
(*                                                                          *)
(* The fields of the object are the record c.  A handler runs from one      *)
(* await to the next in one step, so its effect is a function of the record *)
(* and handlers that call each other compose.  What stands behind an await  *)
(* is a task in a slot.  Only the current RTCPeerConnection is ever open: a *)
(* task knows whether the connection it started on is still that one.       *)
(***************************************************************************)
EXTENDS Naturals

CONSTANTS
    Peers,      \* clients the server may announce
    NoPeer,     \* peerClientId is undefined
    MaxTasks,   \* bound: asynchronous functions that wait at the same time
    MaxJoins    \* bound: join requests without an answer are counted up to here

FaultKinds == {"leave", "drop", "break", "resume", "noCapture", "refuse"}

PeersAssumption == NoPeer \notin Peers
BoundsAssumption == MaxTasks \in Nat \ {0} /\ MaxJoins \in Nat \ {0}

VARIABLES
    c,
    surroundings    \* what may happen to the client, decided once and for all

vars == <<c, surroundings>>

LifecycleStates == {"idle", "disconnected", "signaling-connecting",
    "signaling-connected", "joining-session", "session-joined",
    "peer-connecting", "peer-connected", "recovering"}
TimerKinds == {"reconnect", "watchdog", "heartbeat", "resume", "stats"}
Slots == 1 .. MaxTasks

\* A task waits for the capture of the desktop, for its own description
\* ("offer", "answer"), for the peer's description to be set ("offered",
\* "accept") or for a password.  "on": its connection is still the current one.
TaskKinds == {"none", "capture", "offer", "offered", "answer", "accept", "password"}
Causes == {"none", "connect", "recover", "command"}
Task == [kind : TaskKinds, cause : Causes, on : BOOLEAN]
NoTask == [kind |-> "none", cause |-> "none", on |-> FALSE]

Client == [
    role : {"host", "viewer"},          \* options.role
    gone : BOOLEAN,                     \* isDisconnected
    life : LifecycleStates,             \* lifecycleState
    socket : {"none", "connecting", "stopped", "connected"},
    joins : 0 .. MaxJoins,              \* session:join without an answer, MaxJoins or more
    peer : Peers \cup {NoPeer},         \* peerClientId
    pc : {"none", "new", "connected", "broken"},
    offered : BOOLEAN,                  \* signalingState is have-local-offer
    remote : BOOLEAN,                   \* remoteDescription is set
    video : BOOLEAN,                    \* a sender has the captured track
    tracks : BOOLEAN,                   \* hasActiveRemoteTracks()
    pending : BOOLEAN,                  \* pendingCandidates is not empty
    timers : SUBSET TimerKinds,         \* timers that are armed
    recovering : BOOLEAN,               \* reconnectInProgress
    listening : BOOLEAN,                \* removeNetworkRecoveryListeners
    stream : BOOLEAN,                   \* localStream
    task : [Slots -> Task]]

New(role) == [role |-> role, gone |-> TRUE, life |-> "idle", socket |-> "none",
    joins |-> 0, peer |-> NoPeer, pc |-> "none", offered |-> FALSE, remote |-> FALSE,
    video |-> FALSE, tracks |-> FALSE, pending |-> FALSE, timers |-> {},
    recovering |-> FALSE, listening |-> FALSE, stream |-> FALSE,
    task |-> [t \in Slots |-> NoTask]]
Init ==
    /\ \E role \in {"host", "viewer"} : c = New(role)
    /\ surroundings \in SUBSET FaultKinds

-------------------------------------------------------------------------------
(* What the methods of the client do to its fields.                         *)

reduceSessionLifecycleState(current, event) ==
    CASE event = "disconnected"        -> "disconnected"
      [] event = "connect-requested"   -> "signaling-connecting"
      [] event = "signaling-connected" -> "signaling-connected"
      [] event = "join-requested"      -> "joining-session"
      [] event = "join-succeeded"      -> "session-joined"
      [] event = "peer-announced"      ->
            IF current = "peer-connected" THEN current ELSE "peer-connecting"
      [] event = "webrtc-connected"    -> "peer-connected"
      [] event = "recovery-started"    -> "recovering"
      [] event = "peer-reset"          ->
            IF current = "disconnected" THEN current ELSE "session-joined"

Transition(k, event) ==
    [k EXCEPT !.life = reduceSessionLifecycleState(k.life, event)]

Arm(k, timer) == [k EXCEPT !.timers = @ \cup {timer}]
Stop(k, timers) == [k EXCEPT !.timers = @ \ timers]

\* A slot for one more asynchronous function.
Free(k) == {t \in Slots : k.task[t] = NoTask}

Await(k, kind, cause) ==
    LET slot == CHOOSE t \in Free(k) : TRUE
    IN  [k EXCEPT !.task[slot] = [kind |-> kind, cause |-> cause, on |-> TRUE]]

Done(k, t) == [k EXCEPT !.task[t] = NoTask]

Orphaned(task) ==
    [t \in Slots |-> IF task[t] = NoTask THEN NoTask ELSE [task[t] EXCEPT !.on = FALSE]]

ensurePeerConnection(k) == IF k.pc = "none" THEN [k EXCEPT !.pc = "new"] ELSE k

ClosedConnection(k) ==
    [k EXCEPT !.pc = "none", !.offered = FALSE, !.remote = FALSE, !.video = FALSE,
              !.tracks = FALSE, !.pending = FALSE, !.task = Orphaned(k.task),
              !.timers = @ \ {"stats", "reconnect", "watchdog"}]

\* Mutant: the candidates of the old connection stay in the queue.
ResetKeepingCandidates(k) ==
    [Transition(ClosedConnection(k), "peer-reset") EXCEPT !.pending = k.pending]

resetPeerConnection(k) == Transition(ClosedConnection(k), "peer-reset")

disconnect(k) ==
    [Transition(ClosedConnection(k), "disconnected") EXCEPT
        !.gone = TRUE, !.recovering = FALSE, !.timers = {}, !.listening = FALSE,
        !.socket = "none", !.joins = 0, !.stream = FALSE, !.peer = NoPeer]

joinSession(k) ==
    IF k.socket = "none" THEN k
    ELSE [Transition(k, "join-requested") EXCEPT !.joins = IF @ = MaxJoins THEN @ ELSE @ + 1]

scheduleReconnect(k) ==
    IF k.gone \/ k.peer = NoPeer \/ "reconnect" \in k.timers \/ k.recovering
    THEN k
    ELSE Arm(Transition(k, "recovery-started"), "reconnect")

StreamMissing(k) ==
    k.role = "viewer" /\ ~k.gone /\ k.life = "peer-connected" /\ ~k.tracks

scheduleRemoteTrackWatchdog(k) ==
    IF StreamMissing(k) THEN Arm(k, "watchdog") ELSE Stop(k, {"watchdog"})

openSocket(k) == [k EXCEPT !.socket = "connecting", !.listening = TRUE]

\* startDesktopCapture up to its first await, and createOffer likewise.
startDesktopCapture(k, cause) == Await(ensurePeerConnection(k), "capture", cause)
createOffer(k, cause) ==
    IF k.socket = "none" THEN k ELSE Await(ensurePeerConnection(k), "offer", cause)

\* recoverConnection has ended, one way or the other.
Settled(k, cause) == IF cause = "recover" THEN [k EXCEPT !.recovering = FALSE] ELSE k

-------------------------------------------------------------------------------
(* The user of the client.                                                  *)

Connect ==
    /\ c.life = "idle"
    /\ LET k == Transition([c EXCEPT !.gone = FALSE], "connect-requested")
       IN  IF c.role = "host" THEN Free(c) # {} /\ c' = startDesktopCapture(k, "connect")
           ELSE c' = openSocket(k)

Disconnect == c.life # "idle" /\ c' = disconnect(c)

\* What getUserMedia and addTransceiver do on a closed connection: the first
\* works, the second throws, and nobody stops the new stream.
CaptureDone(t) ==
    LET task == c.task[t]
        k == [Done(c, t) EXCEPT !.video = TRUE, !.stream = TRUE]
    IN  /\ task.kind = "capture"
        /\ c' = IF ~task.on THEN Settled(Done(c, t), task.cause)
                ELSE CASE task.cause = "connect" -> openSocket(k)
                       [] task.cause = "command" -> k
                       [] task.cause = "recover" ->
                            IF ~c.gone /\ c.socket = "connected"
                            THEN createOffer(k, "recover") ELSE Settled(k, "recover")

CaptureFails(t) ==
    /\ "noCapture" \in surroundings
    /\ c.task[t].kind = "capture"
    /\ c' = Settled(Done(c, t), c.task[t].cause)

\* A viewer's command that changes source, frame rate or sound.
HandleHostCommand ==
    /\ c.role = "host" /\ c.pc = "connected" /\ Free(c) # {}
    /\ c' = startDesktopCapture(c, "command")

-------------------------------------------------------------------------------
(* Signaling: the socket, the session, the peer.                            *)

SocketConnects ==
    /\ c.socket = "connecting"
    /\ c' = joinSession(Transition([c EXCEPT !.socket = "connected"], "signaling-connected"))

\* A socket that the server closed does not reconnect by itself.
SocketDrops ==
    /\ "drop" \in surroundings /\ c.socket = "connected"
    /\ \E next \in {"connecting", "stopped"} :
        c' = scheduleReconnect(Stop([c EXCEPT !.socket = next, !.joins = 0], {"heartbeat"}))

\* One request fewer is without an answer; of "MaxJoins or more" as many may be.
Answered == {[c EXCEPT !.joins = @ - 1]} \cup {k \in {c} : k.joins = MaxJoins}

JoinSucceeds ==
    /\ c.socket = "connected" /\ c.joins > 0
    /\ \E k \in Answered : c' = Arm(Transition(k, "join-succeeded"), "heartbeat")

JoinNeedsPassword ==
    /\ c.socket = "connected" /\ c.joins > 0 /\ Free(c) # {}
    /\ \E k \in Answered : c' = Await(k, "password", "none")

JoinRefused ==
    /\ "refuse" \in surroundings /\ c.socket = "connected" /\ c.joins > 0
    /\ \E k \in Answered : c' = disconnect(k)

PasswordGiven(t) ==
    /\ c.task[t].kind = "password"
    /\ c' = joinSession(Done(c, t))

PasswordCancelled(t) ==
    /\ c.task[t].kind = "password"
    /\ c' = disconnect(Done(c, t))

SessionJoined(p) ==
    /\ c.socket = "connected"
    /\ LET k == Transition([c EXCEPT !.peer = p], "peer-announced")
       IN  IF c.role = "host" THEN Free(c) # {} /\ c' = createOffer(k, "none") ELSE c' = k

\* session:left and session:shutdown.
PeerLeaves(p) ==
    /\ "leave" \in surroundings
    /\ c.socket = "connected" /\ p = c.peer
    /\ c' = resetPeerConnection([c EXCEPT !.peer = NoPeer])

-------------------------------------------------------------------------------
(* Negotiation.                                                             *)

\* The peer's offer; the answer follows when two awaits have ended.
HandleOffer(p) ==
    /\ c.role = "viewer" /\ c.socket = "connected" /\ Free(c) # {}
    /\ c' = Await(ensurePeerConnection([c EXCEPT !.peer = p]), "offered", "none")

HandleAnswer ==
    /\ c.role = "host" /\ c.socket = "connected" /\ Free(c) # {}
    /\ c' = Await(ensurePeerConnection(c), "accept", "none")

HandleIceCandidate ==
    /\ c.socket = "connected"
    /\ LET k == ensurePeerConnection(c)
       IN  c' = IF k.remote THEN k ELSE [k EXCEPT !.pending = TRUE]

\* setRemoteDescription succeeds: the queue is flushed and the viewer answers.
RemoteSet(t) ==
    LET task == c.task[t] IN
    /\ task.kind \in {"offered", "accept"} /\ task.on
    /\ \/ task.kind = "accept" /\ c.offered
          /\ c' = [Done(c, t) EXCEPT !.remote = TRUE, !.pending = FALSE, !.offered = FALSE]
       \/ task.kind = "offered"
          /\ c' = [c EXCEPT !.remote = TRUE, !.pending = FALSE, !.task[t].kind = "answer"]

\* The local description is set and goes to the peer.
LocalSet(t) ==
    LET task == c.task[t] IN
    /\ task.kind \in {"offer", "answer"} /\ task.on
    /\ c' = IF task.kind = "offer"
            THEN [Settled(Done(c, t), task.cause) EXCEPT !.offered = TRUE]
            ELSE Done(c, t)

\* The browser rejects a step of the negotiation: the connection was closed, or
\* the description does not fit it.  Closing may also leave the promise pending
\* for ever: then this step is never taken.
NegotiationFails(t) ==
    /\ c.task[t].kind \in {"offer", "offered", "answer", "accept"}
    /\ ~c.task[t].on \/ c.task[t].kind \in {"offered", "accept"}
    /\ c' = Settled(Done(c, t), c.task[t].cause)

-------------------------------------------------------------------------------
(* The connection's own events; a closed one has none.                      *)

PcConnects ==
    /\ c.pc \in {"new", "broken"} /\ c.remote
    /\ c' = scheduleRemoteTrackWatchdog(
                Arm(Stop(Transition([c EXCEPT !.pc = "connected", !.recovering = FALSE],
                                    "webrtc-connected"), {"reconnect"}), "stats"))

\* Mutant: only the loss of an established connection is repaired.
PcBreaksUnnoticed ==
    /\ "break" \in surroundings /\ c.pc \in {"new", "connected"} /\ c.remote
    /\ c' = IF c.pc = "connected" THEN scheduleReconnect([c EXCEPT !.pc = "broken"])
            ELSE [c EXCEPT !.pc = "broken"]

PcBreaks ==
    /\ "break" \in surroundings /\ c.pc \in {"new", "connected"} /\ c.remote
    /\ c' = scheduleReconnect([c EXCEPT !.pc = "broken"])

TrackStarts ==
    /\ c.role = "viewer" /\ c.pc # "none" /\ c.remote /\ ~c.tracks
    /\ c' = Stop([c EXCEPT !.tracks = TRUE], {"watchdog"})

TrackEnds ==
    /\ c.tracks
    /\ c' = scheduleRemoteTrackWatchdog([c EXCEPT !.tracks = FALSE])

-------------------------------------------------------------------------------
(* Timers.                                                                  *)

\* Mutant: the host offers again without capturing the desktop again.
RecoverWithoutCapture(k) ==
    IF k.gone \/ k.peer = NoPeer THEN Settled(k, "recover")
    ELSE LET r == resetPeerConnection(k)
         IN  CASE k.role = "host" -> createOffer(r, "recover")
               [] k.role = "viewer" ->
                    Settled(IF r.socket = "connected" THEN joinSession(r) ELSE r, "recover")

recoverConnection(k) ==
    IF k.gone \/ k.peer = NoPeer THEN Settled(k, "recover")
    ELSE LET r == resetPeerConnection(k)
         IN  CASE k.role = "host" -> startDesktopCapture(r, "recover")
               [] k.role = "viewer" ->
                    Settled(IF r.socket = "connected" THEN joinSession(r) ELSE r, "recover")

ReconnectFires ==
    /\ "reconnect" \in c.timers
    /\ c.role = "host" => Free(c) # {}
    /\ LET k == Stop(c, {"reconnect"})
       IN  c' = IF k.gone \/ k.peer = NoPeer \/ k.recovering THEN k
                ELSE recoverConnection([k EXCEPT !.recovering = TRUE])

WatchdogFires ==
    /\ "watchdog" \in c.timers
    /\ LET k == Stop(c, {"watchdog"})
       IN  c' = IF ~StreamMissing(k) THEN k
                ELSE IF k.socket = "connected" THEN joinSession(k) ELSE scheduleReconnect(k)

\* The window gets focus or the network comes back.
PotentialResume ==
    /\ "resume" \in surroundings /\ c.listening
    /\ c' = IF c.gone THEN c ELSE Arm(c, "resume")

RecoverAfterNetworkResume ==
    /\ "resume" \in c.timers
    /\ c.role = "host" => Free(c) # {}
    /\ LET k == Stop(c, {"resume"})
           joined == joinSession(k)
       IN  c' = CASE k.gone \/ k.socket = "none" -> k
                  [] k.socket \in {"connecting", "stopped"} ->
                        [k EXCEPT !.socket = "connecting"]
                  [] k.socket = "connected" ->
                        IF k.role = "host" /\ k.peer # NoPeer /\ k.pc = "connected"
                        THEN createOffer(joined, "none")
                        ELSE IF k.pc = "broken" THEN resetPeerConnection(joined)
                        ELSE joined

-------------------------------------------------------------------------------

SocketStep == SocketConnects \/ SocketDrops
SessionStep ==
    \/ JoinSucceeds \/ JoinNeedsPassword \/ JoinRefused
    \/ \E t \in Slots : PasswordGiven(t) \/ PasswordCancelled(t)
    \/ \E p \in Peers : SessionJoined(p) \/ PeerLeaves(p)
TaskStep(t) ==
    CaptureDone(t) \/ CaptureFails(t) \/ RemoteSet(t) \/ LocalSet(t) \/ NegotiationFails(t)
PeerMessage == HandleAnswer \/ HandleIceCandidate \/ \E p \in Peers : HandleOffer(p)
PcStep == PcConnects \/ PcBreaks \/ TrackStarts \/ TrackEnds
TimerStep == ReconnectFires \/ WatchdogFires \/ RecoverAfterNetworkResume

ClientStep ==
    \/ Connect \/ Disconnect \/ HandleHostCommand \/ PotentialResume
    \/ SocketStep \/ SessionStep \/ PeerMessage \/ PcStep \/ TimerStep
    \/ \E t \in Slots : TaskStep(t)
Next == ClientStep /\ UNCHANGED surroundings

Spec == Init /\ [][Next]_vars

\* setTimeout fires.
FairSpec == Spec /\ WF_c(ReconnectFires) /\ WF_c(WatchdogFires)

===============================================================================
