-------------------------------- MODULE Session --------------------------------
(***************************************************************************)
(* A session between two desktop apps: the captures of the host, the client *)
(* of one side, the pointer and the clipboards.  No two of these parts      *)
(* share a variable; a step of the session is a step of one of them.  What  *)
(* the users and the surroundings do is chosen when the session begins.     *)
(***************************************************************************)
EXTENDS HostCapture

CONSTANTS
    Peers, NoPeer, MaxTasks, MaxJoins,                      \* see PeerClient
    Displays, Layouts, VideoWidths, Reach, MaxChanges,      \* see PointerMapping
    Contents, Empty, Refused, Copies, MaxCopies             \* see Clipboard

VARIABLES
    alone,      \* only the viewer's user copies, and the channel stays open
    c, surroundings,
    layout, sourcesById, activeSourceId, videoWidth, captured, virtualPointer,
    sent, cursor, changes,
    board, clipboardSnapshot, remoteClipboardSnapshot, pending, interval,
    channelOpen, wire, copied

captureVars == vars
clientVars == <<c, surroundings>>
pointerVars == <<layout, sourcesById, activeSourceId, videoWidth, captured,
                 virtualPointer, sent, cursor, changes>>
clipboardVars == <<board, clipboardSnapshot, remoteClipboardSnapshot, pending,
                   interval, channelOpen, wire, copied>>
sessionVars == <<alone, captureVars, clientVars, pointerVars, clipboardVars>>

-------------------------------------------------------------------------------
Client == INSTANCE PeerClientProperties

Pointer == INSTANCE PointerMapping WITH Sources <- Displays

\* What an end writes it reads back; both users copy, or the viewer's user alone.
TwoEnds == {"viewer", "host"}
OtherEnd(e) == IF e = "viewer" THEN "host" ELSE "viewer"
AsWritten(e, content) == content
ViewerCopies == [e \in TwoEnds |-> IF e = "viewer" THEN Contents ELSE {}]
Echo == INSTANCE Clipboard WITH
    Ends <- TwoEnds, Other <- OtherEnd, Written <- AsWritten, Drops <- TRUE
Copying == INSTANCE Clipboard WITH
    Ends <- TwoEnds, Other <- OtherEnd, Written <- AsWritten, Drops <- FALSE,
    Copies <- ViewerCopies

ASSUME SessionAssumption ==
    /\ Client!PeersAssumption /\ Client!BoundsAssumption
    /\ Pointer!PointerAssumption
    /\ Echo!ClipboardAssumption /\ Copying!ClipboardAssumption

-------------------------------------------------------------------------------

SessionInit ==
    /\ alone \in BOOLEAN
    /\ Init /\ Client!Init /\ Pointer!Init
    /\ IF alone THEN Copying!Init ELSE Echo!Init

CaptureMoves ==
    Next /\ UNCHANGED <<alone, clientVars, pointerVars, clipboardVars>>
ClientMoves ==
    Client!Next /\ UNCHANGED <<alone, captureVars, pointerVars, clipboardVars>>
PointerMoves ==
    Pointer!Next /\ UNCHANGED <<alone, captureVars, clientVars, clipboardVars>>
ClipboardMoves ==
    /\ IF alone THEN Copying!Next ELSE Echo!Next
    /\ UNCHANGED <<alone, captureVars, clientVars, pointerVars>>

SessionNext == CaptureMoves \/ ClientMoves \/ PointerMoves \/ ClipboardMoves
SessionSpec == SessionInit /\ [][SessionNext]_sessionVars

-------------------------------------------------------------------------------
\* A client keeps its seat, its queue of candidates, its timers and its recovery
\* with the connection they belong to, and one that was given up stays silent, in
\* whatever order awaits, timers and socket events come (RemoteControlClient.ts).
ClientInOrder == Client!PeerClientInv /\ Client!OneRecovery

\* A host whose viewer stays and whose captures succeed streams the desktop whenever
\* it is connected, also after a recovery (RemoteControlClient.ts recoverConnection).
RecoveredHostStreams ==
    surroundings \cap {"leave", "resume", "noCapture"} = {} => Client!HostStreams

\* Whatever monitor, resolution and layout a move was made for, it puts the host's
\* pointer on that monitor or on the line right after its right or lower edge, which
\* may be the next monitor's first (index.ts mapControlMessageToDisplay).
PointerNearMonitor == []Pointer!TypeOK /\ Pointer!PutNearDisplay

\* Copies are not sent back, nothing that was copied before waits for the next
\* channel, and the last copy arrives (RemoteControlClient.ts applyRemoteClipboard).
ClipboardsAgree ==
    IF alone THEN Copying!TypeOK /\ Copying!LastCopyArrives
    ELSE Echo!TypeOK /\ Echo!NothingWaits /\ Echo!NoEcho
===============================================================================
