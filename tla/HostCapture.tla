----------------------------- MODULE HostCapture -------------------------------
(***************************************************************************)
(* What a host captures and sends while its viewer switches monitors and    *)
(* changes the stream's settings.  Commands are handled as they arrive: each *)
(* handler awaits the capture, the senders and the list of monitors, and     *)
(* nothing keeps two of them apart.                                          *)
(***************************************************************************)
EXTENDS Naturals, Sequences, FiniteSets

CONSTANTS
    Sources,    \* the monitors
    Settings,   \* records of a frame rate and whether there is audio
    None,
    MaxCalls    \* bound: so many handlers are started

ASSUME HostCaptureAssumption ==
    /\ None \notin Sources
    /\ MaxCalls \in Nat \ {0}

VARIABLES
    conditions,     \* how the session goes, fixed when it begins
    plugged,        \* the monitors that are there
    current, settings,  \* currentCaptureSourceId; frame rate and audio
    call,           \* the handlers in progress
    stream,         \* the captures so far
    local,          \* localStream
    video, audio,   \* the captures whose tracks the senders have
    toHost, toViewer,   \* the control channel
    shownSource, shownSources   \* what the viewer takes for active, and its menu

hostVars == <<current, settings, call, stream, local, video, audio>>
viewerVars == <<shownSource, shownSources>>
vars == <<conditions, plugged, hostVars, toHost, toViewer, viewerVars>>

\* Commands come in turn when the viewer waits for one to be done; a capture may
\* fail, and a monitor may be unplugged.
Conditions == {"inTurn", "capture", "unplug"}
NothingFails == conditions \cap {"capture", "unplug"} = {}

NoStream == 0
Commands == [type : {"switch-source"}, sourceId : Sources]
            \cup [type : {"update-stream-settings"}, settings : Settings]
HostStates == [activeSourceId : Sources, sources : SUBSET Sources]

Init ==
    /\ conditions \in SUBSET Conditions
    /\ plugged = Sources
    /\ current \in Sources /\ settings \in Settings
    /\ call = <<>>
    /\ stream = <<[source |-> current, settings |-> settings, live |-> TRUE]>>
    /\ local = 1 /\ video = 1
    /\ audio = IF settings.audio THEN 1 ELSE NoStream
    /\ toHost = <<>> /\ toViewer = <<>>
    /\ shownSource = current /\ shownSources = Sources

Active(c) == call[c].phase # "done"
Busy == {c \in DOMAIN call : Active(c)}
Quiet == Busy = {} /\ toHost = <<>> /\ toViewer = <<>>

Phase(c, phase) == call' = [call EXCEPT ![c].phase = phase]
NewCall(phase, source, with) ==
    Append(call, [phase |-> phase, source |-> source, settings |-> with,
                  previous |-> local, next |-> NoStream])

-------------------------------------------------------------------------------
\* The viewer

Queued == Len(call) + Len(toHost) < MaxCalls

switchRemoteSource(source) ==
    /\ Queued
    /\ shownSource' = source
    /\ toHost' = Append(toHost, [type |-> "switch-source", sourceId |-> source])
    /\ UNCHANGED <<plugged, hostVars, toViewer, shownSources>>

sendHostStreamSettings(wanted) ==
    /\ Queued
    /\ toHost' = Append(toHost, [type |-> "update-stream-settings", settings |-> wanted])
    /\ UNCHANGED <<plugged, hostVars, toViewer, viewerVars>>

\* A list that lacks the active monitor is taken for an invalid message.
sanitizeHostStateMessage(state) == state.activeSourceId \in state.sources

HostStateArrives ==
    /\ toViewer # <<>>
    /\ toViewer' = Tail(toViewer)
    /\ IF sanitizeHostStateMessage(Head(toViewer))
       THEN /\ shownSource' = Head(toViewer).activeSourceId
            /\ shownSources' = Head(toViewer).sources
       ELSE UNCHANGED viewerVars
    /\ UNCHANGED <<plugged, hostVars, toHost>>

-------------------------------------------------------------------------------
\* The host

MayHandle == "inTurn" \in conditions => Busy = {}

\* startDesktopCapture up to getUserMedia: what to capture is decided here, and
\* which capture to stop afterwards.
startDesktopCapture(source, with) == call' = NewCall("capture", source, with)

switchSource(source) ==
    IF source = current
    THEN call' = NewCall("list", source, settings) /\ UNCHANGED <<current, settings>>
    ELSE /\ current' = source
         /\ startDesktopCapture(source, settings)
         /\ UNCHANGED settings

updateStreamSettings(wanted) ==
    /\ settings' = wanted
    /\ IF wanted # settings THEN startDesktopCapture(current, wanted) ELSE UNCHANGED call
    /\ UNCHANGED current

handleHostCommand ==
    /\ toHost # <<>> /\ MayHandle
    /\ toHost' = Tail(toHost)
    /\ LET command == Head(toHost)
       IN  IF command.type = "switch-source" THEN switchSource(command.sourceId)
           ELSE updateStreamSettings(command.settings)
    /\ UNCHANGED <<plugged, stream, local, video, audio, toViewer, viewerVars>>

GetUserMedia(c) ==
    /\ call[c].phase = "capture" /\ call[c].source \in plugged
    /\ stream' = Append(stream, [source |-> call[c].source,
                                 settings |-> call[c].settings, live |-> TRUE])
    /\ call' = [call EXCEPT ![c].phase = "video", ![c].next = Len(stream) + 1]
    /\ UNCHANGED <<plugged, current, settings, local, video, audio, toHost,
                   toViewer, viewerVars>>

\* The rejection is nobody's: the source stays the current one.
CaptureFails(c) ==
    /\ call[c].phase = "capture"
    /\ "capture" \in conditions \/ call[c].source \notin plugged
    /\ Phase(c, "done")
    /\ UNCHANGED <<plugged, current, settings, stream, local, video, audio,
                   toHost, toViewer, viewerVars>>

ReplaceVideo(c) ==
    /\ call[c].phase = "video"
    /\ video' = call[c].next
    /\ Phase(c, "audio")
    /\ UNCHANGED <<plugged, current, settings, stream, local, audio, toHost,
                   toViewer, viewerVars>>

ReplaceAudio(c) ==
    /\ call[c].phase = "audio"
    /\ audio' = IF call[c].settings.audio THEN call[c].next ELSE NoStream
    /\ Phase(c, "finish")
    /\ UNCHANGED <<plugged, current, settings, stream, local, video, toHost,
                   toViewer, viewerVars>>

\* Mutant: the capture that is the local stream by now is stopped.
StopLatest(c) ==
    /\ call[c].phase = "finish"
    /\ stream' = [stream EXCEPT ![local].live = FALSE]
    /\ local' = call[c].next
    /\ Phase(c, "list")
    /\ UNCHANGED <<plugged, current, settings, video, audio, toHost, toViewer,
                   viewerVars>>

StopPrevious(c) ==
    /\ call[c].phase = "finish"
    /\ stream' = [stream EXCEPT ![call[c].previous].live = FALSE]
    /\ local' = call[c].next
    /\ Phase(c, "list")
    /\ UNCHANGED <<plugged, current, settings, video, audio, toHost, toViewer,
                   viewerVars>>

\* Mutant: the active source is the one the handler was called for.
PublishOwnSource(c) ==
    /\ call[c].phase = "list"
    /\ toViewer' = Append(toViewer, [activeSourceId |-> call[c].source, sources |-> plugged])
    /\ Phase(c, "done")
    /\ UNCHANGED <<plugged, current, settings, stream, local, video, audio,
                   toHost, viewerVars>>

\* The list has arrived; the active source is the one of now.
publishHostState(c) ==
    /\ call[c].phase = "list"
    /\ toViewer' = Append(toViewer, [activeSourceId |-> current, sources |-> plugged])
    /\ Phase(c, "done")
    /\ UNCHANGED <<plugged, current, settings, stream, local, video, audio,
                   toHost, viewerVars>>

\* Its captures end with a monitor.
Unplug(source) ==
    /\ "unplug" \in conditions /\ source \in plugged
    /\ plugged' = plugged \ {source}
    /\ stream' = [s \in DOMAIN stream |->
                    [stream[s] EXCEPT !.live = @ /\ stream[s].source # source]]
    /\ UNCHANGED <<current, settings, call, local, video, audio, toHost,
                   toViewer, viewerVars>>

HostStep ==
    \/ \E source \in shownSources : switchRemoteSource(source)
    \/ \E wanted \in Settings : sendHostStreamSettings(wanted)
    \/ HostStateArrives \/ handleHostCommand
    \/ \E c \in DOMAIN call :
        \/ GetUserMedia(c) \/ CaptureFails(c) \/ ReplaceVideo(c)
        \/ ReplaceAudio(c) \/ StopPrevious(c) \/ publishHostState(c)
    \/ \E source \in Sources : Unplug(source)

Next == HostStep /\ UNCHANGED conditions
Spec == Init /\ [][Next]_vars

-------------------------------------------------------------------------------

TypeOK ==
    /\ conditions \subseteq Conditions
    /\ plugged \subseteq Sources /\ current \in Sources /\ settings \in Settings
    /\ \A c \in DOMAIN call :
        call[c] \in [phase : {"capture", "video", "audio", "finish", "list", "done"},
                     source : Sources, settings : Settings,
                     previous : DOMAIN stream, next : DOMAIN stream \cup {NoStream}]
    /\ \A s \in DOMAIN stream :
        stream[s] \in [source : Sources, settings : Settings, live : BOOLEAN]
    /\ local \in DOMAIN stream /\ video \in DOMAIN stream
    /\ audio \in DOMAIN stream \cup {NoStream}
    /\ \A i \in DOMAIN toHost : toHost[i] \in Commands
    /\ \A i \in DOMAIN toViewer : toViewer[i] \in HostStates
    /\ shownSource \in Sources /\ shownSources \subseteq Sources

\* However commands overlap, no handler stops the capture that is being sent,
\* or the one that will be: only a monitor that is gone can end it.
SentIsLive == stream[video].source \in plugged => stream[video].live

\* When no capture fails, the viewer learns which monitor the host takes for
\* the active one, though states and commands cross.
ViewerKnowsActive == Quiet => shownSource = current

\* When commands do not overlap and no capture fails, one capture is running,
\* of the active monitor and with the settings asked for last, and it is sent.
OneCapture ==
    Quiet =>
        /\ {s \in DOMAIN stream : stream[s].live} = {local}
        /\ video = local
        /\ stream[local].source = current /\ stream[local].settings = settings
        /\ audio = IF settings.audio THEN local ELSE NoStream

\* A change of monitor or settings settles, the less happens meanwhile the better
\* (RemoteControlClient.ts startDesktopCapture, publishHostState).
CaptureSettles ==
    /\ TypeOK
    /\ NothingFails => ViewerKnowsActive
    /\ conditions = {"inTurn"} => OneCapture

\* What the viewer sees is the monitor that its menu calls active.
SeesActiveMonitor == Quiet => stream[video].source = shownSource

===============================================================================
