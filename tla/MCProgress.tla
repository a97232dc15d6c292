------------------------------ MODULE MCProgress ------------------------------
(***************************************************************************)
(* What must happen in the end, for TLC: the parts of the server and of the *)
(* two apps that wait for something, each under the fairness its scheduling *)
(* gives it.  No two of these parts share a variable: a behaviour picks the *)
(* part that moves, and fairness is asked of that part alone.               *)
(***************************************************************************)
EXTENDS Naturals, FiniteSets

CONSTANTS
    None, NoPeer,
    Parts   \* those of which one moves

VARIABLES
    part,   \* the part that moves
    online, connectionCounts, roster, idle, rooms, call, joinAttempts,
    passwordFailures, approvalRequests, approvals, settings, told, consentAge,
    open, generation, closeEvents, toReceiver, toSender, sender, abortReasons,
    incoming, transfer, reports, saves, entry, disk,
    c, surroundings,
    taken, shocks, start, backend, child, quit, window, update,
    listening, responses, attempt, socket, timer, servers, udp, index, probing,
    httpServers, probed, heard, result,
    board, clipboardSnapshot, remoteClipboardSnapshot, pending, interval,
    channelOpen, wire, copied,
    captureMode, link, polling, report, sampled, network, waited, rate, bitrate,
    recapturing, encoder, faults

gatewayVars == <<online, connectionCounts, roster, idle, rooms, call, joinAttempts,
                 passwordFailures, approvalRequests, approvals, settings, told,
                 consentAge>>
fileVars == <<open, generation, closeEvents, toReceiver, toSender, sender,
              abortReasons, incoming, transfer, reports, saves, entry, disk>>
clientVars == <<c, surroundings>>
backendVars == <<taken, shocks, start, backend, child, quit, window, update>>
scanVars == <<listening, responses, attempt, socket, timer, servers, udp, index,
              probing, httpServers, probed, heard, result>>
clipboardVars == <<board, clipboardSnapshot, remoteClipboardSnapshot, pending,
                   interval, channelOpen, wire, copied>>
encoderVars == <<captureMode, link, polling, report, sampled, network, waited, rate,
                 bitrate, recapturing, encoder, faults>>
progressVars == <<part, gatewayVars, fileVars, clientVars, backendVars, scanVars,
                  clipboardVars, encoderVars>>

-------------------------------------------------------------------------------
\* A host that asks for approval and a viewer; two joins may overlap.
Gate == INSTANCE GatewayProperties WITH
    Clients <- {"h", "v"}, SessionIds <- {"lan"}, Calls <- 1..2,
    MaxSessions <- 1, MaxPeersPerSession <- 2, MaxTotalPeers <- 2, PeerTtl <- 1,
    Addresses <- {"host", "viewer"},
    AddressOf <- [x \in {"h", "v"} |-> IF x = "h" THEN "host" ELSE "viewer"],
    RolesOf <- [x \in {"h", "v"} |-> IF x = "h" THEN {"host"} ELSE {"viewer"}],
    Passwords <- {}, NoPassword <- None,
    HostConfigs <- {[password |-> None, requireApproval |-> TRUE]},
    MaxConnectionsPerAddress <- 2, MaxJoinAttempts <- 1, JoinWindow <- 0,
    MaxPasswordFailures <- 1, PasswordWindow <- 0,
    MaxApprovalRequests <- 1, ApprovalWindow <- 0, ApprovalTimeout <- 1,
    ApprovalCacheTtl <- 1

\* A file of two chunks, where its name is taken.
File == INSTANCE FileTransferProperties WITH
    Transfers <- {"f"}, Chunks <- [t \in {"f"} |-> 2],
    Paths <- (0..1) \X BOOLEAN,
    Candidates <- [t \in {"f"} |-> <<<<0, FALSE>>, <<1, FALSE>>>>],
    TempOf <- [x \in (0..1) \X {FALSE} |-> <<x[1], TRUE>>],
    Leftovers <- {<<0, FALSE>>, <<0, TRUE>>},
    MaxIncoming <- 1, MaxChannels <- 1, MaxCloses <- 1

Client == INSTANCE PeerClientProperties WITH
    Peers <- {"peer"}, MaxTasks <- 2, MaxJoins <- 1

Backend == INSTANCE BackendProcess WITH
    FirstPort <- 1, LastPort <- 4, SearchSpan <- 2, SearchLimit <- 3,
    MaxShocks <- 1, SlowProbe <- FALSE

\* Two servers on two machines, and an address where nobody is; both attempts to
\* bind the socket may fail.
ScanAddress(s) == IF s = "tower" THEN "lan1" ELSE "lan2"
DefaultScanPort(s) == 47315
PublicUrl(s) == s
Scan == INSTANCE DiscoveryScan WITH
    Addresses <- {"lan1", "lan2", "lan3"}, Servers <- {"tower", "laptop"},
    ServerAddress <- ScanAddress, Port <- DefaultScanPort, Url <- PublicUrl,
    DefaultPort <- 47315, ProbeList <- <<"lan3", "lan1", "lan2">>,
    Concurrency <- 2, BindFails <- {1, 2}

\* The host's system turns rich text into its own form; the viewer's keeps all.
TwoEnds == {"viewer", "host"}
OtherEnd(e) == IF e = "viewer" THEN "host" ELSE "viewer"
Converted(e, content) == IF e = "host" /\ content = "rich" THEN "plain" ELSE content
Clips == INSTANCE Clipboard WITH
    Ends <- TwoEnds, Other <- OtherEnd, Contents <- {"empty", "note", "rich", "plain", "huge"},
    Empty <- "empty", Refused <- {"huge"}, Written <- Converted, Drops <- TRUE,
    MaxCopies <- 3, Copies <- [e \in TwoEnds |-> {"note", "rich", "huge"}]

Encoder == INSTANCE Bitrate WITH
    FrameRates <- {15, 30, 60}, InitialRate <- 30, MaxFaults <- 1

ASSUME /\ Gate!SessionLimits /\ Gate!GatewayConstants
       /\ File!FileTransferConstants /\ File!TempPathsApart /\ File!LeftoversPaired
       /\ Client!BoundsAssumption /\ Backend!PortsAssumption
       /\ Scan!DiscoveryAssumption /\ Clips!ClipboardAssumption
       /\ Encoder!BitrateAssumption

-------------------------------------------------------------------------------
\* A part that does not move begins in one of its initial states.
ProgressInit ==
    /\ part \in Parts
    /\ Gate!Init /\ File!Init
    /\ Client!Init /\ c.role = "viewer" /\ surroundings = Client!FaultKinds
    /\ Backend!Init
    /\ part # "backend" => taken = {}
    /\ Scan!Init /\ Clips!Init
    /\ part # "clipboard" => board = [e \in TwoEnds |-> "empty"]
    /\ Encoder!Init
    /\ part # "encoder" => network = "good" /\ captureMode = "desktop"

GatewayMoves ==
    /\ part = "gateway" /\ Gate!Next
    /\ UNCHANGED <<part, fileVars, clientVars, backendVars, scanVars, clipboardVars,
                   encoderVars>>
FileMoves ==
    /\ part = "file" /\ File!Next
    /\ UNCHANGED <<part, gatewayVars, clientVars, backendVars, scanVars,
                   clipboardVars, encoderVars>>
ClientMoves ==
    /\ part = "client" /\ Client!Next
    /\ UNCHANGED <<part, gatewayVars, fileVars, backendVars, scanVars, clipboardVars,
                   encoderVars>>
BackendMoves ==
    /\ part = "backend" /\ Backend!Next
    /\ UNCHANGED <<part, gatewayVars, fileVars, clientVars, scanVars,
                   clipboardVars, encoderVars>>
ScanMoves ==
    /\ part = "scan" /\ Scan!Next
    /\ UNCHANGED <<part, gatewayVars, fileVars, clientVars, backendVars,
                   clipboardVars, encoderVars>>
ClipboardMoves ==
    /\ part = "clipboard" /\ Clips!Next
    /\ UNCHANGED <<part, gatewayVars, fileVars, clientVars, backendVars, scanVars,
                   encoderVars>>
EncoderMoves ==
    /\ part = "encoder" /\ Encoder!Next
    /\ UNCHANGED <<part, gatewayVars, fileVars, clientVars, backendVars, scanVars,
                   clipboardVars>>

ProgressNext ==
    \/ GatewayMoves \/ FileMoves \/ ClientMoves \/ BackendMoves
    \/ ScanMoves \/ ClipboardMoves \/ EncoderMoves

\* The fairness of each module, asked for while its part moves.
GatewayFairness ==
    /\ \A j \in 1..2 : WF_gatewayVars(part = "gateway" /\ Gate!ResumeJoin(j))
    /\ WF_gatewayVars(part = "gateway" /\ Gate!CleanupTimer)
    /\ WF_gatewayVars(part = "gateway" /\ Gate!Tick)
FileFairness ==
    /\ WF_fileVars(part = "file" /\ File!WriterStep("f"))
    /\ WF_fileVars(part = "file" /\ File!TimeOut("f"))
ClientFairness ==
    /\ WF_c(part = "client" /\ Client!ReconnectFires)
    /\ WF_c(part = "client" /\ Client!WatchdogFires)
BackendFairness ==
    /\ WF_backendVars(part = "backend" /\ Backend!StartStep)
    /\ WF_backendVars(part = "backend" /\ Backend!QuitStep)
ScanFairness ==
    /\ WF_scanVars(part = "scan" /\ (Scan!Bind \/ Scan!BindError))
    /\ WF_scanVars(part = "scan" /\ Scan!TimeoutFires)
    /\ \A a \in {"lan1", "lan2", "lan3"} : WF_scanVars(part = "scan" /\ Scan!ProbeEnds(a))
    /\ WF_scanVars(part = "scan" /\ (Scan!Resolve \/ Scan!Reject))
ClipboardFairness ==
    /\ \A e \in TwoEnds :
        /\ WF_clipboardVars(part = "clipboard" /\ Clips!Poll(e))
        /\ WF_clipboardVars(part = "clipboard" /\ Clips!SendPending(e))
        /\ WF_clipboardVars(part = "clipboard" /\ Clips!Receive(e))
    /\ WF_clipboardVars(part = "clipboard" /\ Clips!ChannelOpens)
EncoderFairness ==
    /\ WF_encoderVars(part = "encoder" /\ Encoder!collectStats)
    /\ WF_encoderVars(part = "encoder" /\ Encoder!StatsArrive)
    /\ WF_encoderVars(part = "encoder" /\ Encoder!Connected)
    /\ WF_encoderVars(part = "encoder" /\ Encoder!Recaptured)

ProgressSpec ==
    /\ ProgressInit /\ [][ProgressNext]_progressVars
    /\ GatewayFairness /\ FileFairness /\ ClientFairness /\ BackendFairness
    /\ ScanFairness /\ ClipboardFairness /\ EncoderFairness

-------------------------------------------------------------------------------
\* A join is answered whatever becomes of the host and the client, and the seat of
\* a socket that is gone is freed (signaling.gateway.ts, sessions.service.ts).
GatewayComesThrough ==
    part = "gateway" => Gate!JoinsAnswered /\ Gate!GhostsExpire

\* The receiver of a file reaches a verdict, and its main process forgets the
\* session (RemoteControlClient.ts, fileIpc.ts).
FileIsSettled == part = "file" => File!VerdictReached /\ File!SessionsReleased

\* A viewer does not stay with a broken connection or without its stream
\* (RemoteControlClient.ts scheduleReconnect, scheduleRemoteTrackWatchdog).
ViewerRecovers ==
    part = "client" => Client!BrokenIsReplaced /\ Client!LostStreamIsNoticed

\* An app told to quit exits, a scan ends whatever fails, and what was copied does
\* not go back and forth for ever (index.ts, discoveryClient.ts).
AppsComeToRest ==
    /\ part = "backend" => Backend!QuitEnds
    /\ part = "scan" => Scan!ScanEnds
    /\ part = "clipboard" => Clips!ComesToRest

\* On a network that stays bad the bitrate comes down to the least.  On one that
\* stays good it comes back to the most when the host captures games; when it
\* captures the desktop it may stay where it came down to, below 1875 kbit/s, where
\* 8% more are less than the smallest change (RemoteControlClient.ts
\* adaptVideoBitrate).
BitrateFollowsNetwork ==
    part = "encoder" => Encoder!ComesDown /\ Encoder!ComesBack
===============================================================================
