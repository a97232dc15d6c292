------------------------- MODULE PeerClientProperties -------------------------
(***************************************************************************)
(* What a connection of the renderer promises, whatever order its awaits,   *)
(* timers and socket events come in.                                        *)
(***************************************************************************)
EXTENDS PeerClient

\* The fields hold what their declarations say.
TypeOK == c \in Client

Live(kinds) == {t \in Slots : c.task[t].on /\ c.task[t].kind \in kinds}
Waiting(kinds) == {t \in Slots : c.task[t].kind \in kinds}

\* A client that was given up stays silent: no await, timer or event that was
\* under way when disconnect() ran brings back its socket, its connection, a
\* timer or its place in the lifecycle.
GivenUpIsSilent ==
    c.gone =>
        /\ c.life \in {"idle", "disconnected"}
        /\ c.socket = "none" /\ c.joins = 0 /\ c.pc = "none" /\ ~c.pending
        /\ c.peer = NoPeer /\ c.timers = {} /\ ~c.recovering /\ ~c.listening /\ ~c.stream
        /\ Live(TaskKinds) \subseteq Waiting({"password"})

\* The client that is connected to the server keeps its seat there alive, or
\* a request for one is under way, or the user is asked for the password.
\* Otherwise the seat would expire though socket and picture look healthy.
SeatHeldOrRequested ==
    c.socket = "connected" =>
        \/ "heartbeat" \in c.timers
        \/ c.joins > 0
        \/ Waiting({"password"}) # {}

\* The heartbeat lives and dies with the socket.
HeartbeatNeedsSocket == "heartbeat" \in c.timers => c.socket = "connected"

\* An offer or answer that resumes from an await on a connection that is still
\* the current one finds the socket it emits to (createOffer and handleOffer
\* test it only before they wait).
DescriptionsHaveASocket == Live({"offer", "answer", "offered"}) # {} => c.socket # "none"

\* Candidates wait in the queue only while the connection they came for has no
\* remote description yet: none is stranded, none is left for another one.
QueueBelongsToConnection == c.pending => c.pc # "none" /\ ~c.remote

\* A reconnect is only ordered while there is a peer to reconnect to.
ReconnectHasAPeer == "reconnect" \in c.timers => ~c.gone /\ c.peer # NoPeer

\* Of the recoveries that are under way at most one still works on the current
\* connection: the answer "connected" may end one early and admit the next.
OneRecovery ==
    LET recoveries == {t \in Live({"capture", "offer"}) : c.task[t].cause = "recover"}
    IN  \A t, u \in recoveries : t = u

\* The timers that watch a connection go with it.
WatchersHaveAConnection == {"stats", "watchdog"} \cap c.timers # {} => c.pc # "none"

\* All of the above in one invariant.
PeerClientInv ==
    /\ TypeOK
    /\ GivenUpIsSilent
    /\ SeatHeldOrRequested
    /\ HeartbeatNeedsSocket
    /\ DescriptionsHaveASocket
    /\ QueueBelongsToConnection
    /\ ReconnectHasAPeer
    /\ WatchersHaveAConnection

\* A host that the browser calls connected streams the desktop, unless a new
\* capture is under way.
HostStreams ==
    c.role = "host" /\ c.pc = "connected" /\ Waiting({"capture"}) = {} => c.video

\* A viewer whose connection broke does not stay with the broken connection.
BrokenIsReplaced == c.pc = "broken" ~> c.pc # "broken"

\* A viewer that is connected but lost its stream gets tracks again, loses the
\* connection or asks for a fresh join.
LostStreamIsNoticed == StreamMissing(c) ~> ~StreamMissing(c)

===============================================================================
