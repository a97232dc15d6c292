--------------------------- MODULE HostCaptureProofs ---------------------------
(***************************************************************************)
(* For every number of overlapping commands, monitors and settings: no      *)
(* handler of a host stops the capture that is being sent.                  *)
(***************************************************************************)
EXTENDS HostCapture, TLAPS

Phases == {"capture", "video", "audio", "finish", "list", "done"}
HandlerCalls == [phase : Phases, source : Sources, settings : Settings,
                 previous : Nat, next : Nat]
Captures == [source : Sources, settings : Settings, live : BOOLEAN]

HostTypes ==
    /\ plugged \subseteq Sources /\ current \in Sources /\ settings \in Settings
    /\ call \in Seq(HandlerCalls) /\ stream \in Seq(Captures)
    /\ local \in DOMAIN stream /\ video \in DOMAIN stream
    /\ toHost \in Seq(Commands) /\ toViewer \in Seq(HostStates)
    /\ shownSources \subseteq Sources

\* How far a handler that got a capture has come.
Captured(c) == call[c].next # NoStream
Replaced(c) == Captured(c) /\ call[c].phase \in {"audio", "finish", "list", "done"}
Finished(c) == Captured(c) /\ call[c].phase \in {"list", "done"}

\* Each handler has a capture of its own, from getUserMedia on.
OwnCaptures ==
    /\ \A c \in DOMAIN call :
        /\ call[c].phase = "capture" => ~Captured(c)
        /\ call[c].phase \in {"video", "audio", "finish"} => Captured(c)
        /\ Captured(c) => call[c].next \in 2 .. Len(stream)
    /\ \A c, d \in DOMAIN call : Captured(c) /\ call[c].next = call[d].next => c = d

\* What is the local stream, or was when a handler began, is the first capture
\* or one whose handler was done with it.
LocalIsFinished ==
    /\ local = 1 \/ \E d \in DOMAIN call : Finished(d) /\ call[d].next = local
    /\ \A c \in DOMAIN call :
        \/ call[c].previous = 1
        \/ \E d \in DOMAIN call : Finished(d) /\ call[d].next = call[c].previous

\* A handler that has replaced the video track never stops what is sent.
SentIsSpared == \A c \in DOMAIN call : Replaced(c) => call[c].previous # video

\* Captures end by a handler that finished, or with their monitor.
StoppedByFinished ==
    \A s \in DOMAIN stream :
        ~stream[s].live /\ stream[s].source \in plugged =>
            \E c \in DOMAIN call : Finished(c) /\ call[c].previous = s

CaptureInv ==
    HostTypes /\ OwnCaptures /\ LocalIsFinished /\ SentIsSpared /\ StoppedByFinished

-------------------------------------------------------------------------------
(* Types.                                                                    *)

\* Ending a step of a handler changes that handler's phase and nothing else.
LEMMA PhaseFacts ==
  ASSUME HostTypes, NEW c \in DOMAIN call, NEW p \in Phases, Phase(c, p)
  PROVE  /\ call' \in Seq(HandlerCalls) /\ DOMAIN call' = DOMAIN call
         /\ call'[c].phase = p
         /\ \A d \in DOMAIN call : d # c => call'[d] = call[d]
         /\ \A d \in DOMAIN call : call'[d].next = call[d].next
                                   /\ call'[d].previous = call[d].previous
         /\ call'[c].source = call[c].source /\ call'[c].settings = call[c].settings
<1>1. call \in Seq(HandlerCalls) /\ call[c] \in HandlerCalls
  BY DEF HostTypes
<1>2. [call[c] EXCEPT !.phase = p] \in HandlerCalls
  BY <1>1 DEF HandlerCalls
<1>3. call' = [call EXCEPT ![c] = [call[c] EXCEPT !.phase = p]]
  BY DEF Phase
<1>4. DOMAIN call' = DOMAIN call /\ call' \in Seq(HandlerCalls)
  BY <1>1, <1>2, <1>3
<1>5. \A d \in DOMAIN call : d # c => call'[d] = call[d]
  BY <1>1, <1>3
<1>6. call'[c] = [call[c] EXCEPT !.phase = p]
  BY <1>1, <1>3
<1>7. call'[c].phase = p /\ call'[c].next = call[c].next
      /\ call'[c].previous = call[c].previous
      /\ call'[c].source = call[c].source /\ call'[c].settings = call[c].settings
  BY <1>1, <1>6 DEF HandlerCalls
<1>8. QED
  BY <1>4, <1>5, <1>7

\* A handler that begins takes the local stream for the one to stop later.
LEMMA NewCallFacts ==
  ASSUME HostTypes, NEW p \in {"capture", "list"}, NEW s \in Sources, NEW w \in Settings,
         call' = NewCall(p, s, w)
  PROVE  /\ call' \in Seq(HandlerCalls)
         /\ DOMAIN call' = DOMAIN call \cup {Len(call) + 1}
         /\ \A d \in DOMAIN call : call'[d] = call[d]
         /\ call'[Len(call) + 1].phase = p
         /\ call'[Len(call) + 1].next = NoStream
         /\ call'[Len(call) + 1].previous = local
         /\ call'[Len(call) + 1].source = s /\ call'[Len(call) + 1].settings = w
<1> DEFINE new == [phase |-> p, source |-> s, settings |-> w,
                   previous |-> local, next |-> NoStream]
<1>1. call \in Seq(HandlerCalls) /\ local \in Nat
  BY DEF HostTypes
<1>2. new \in HandlerCalls
  BY <1>1 DEF HandlerCalls, Phases, NoStream
<1>3. call' = Append(call, new)
  BY DEF NewCall
<1>4. call'[Len(call) + 1] = new
  BY <1>1, <1>3
<1> HIDE DEF new
<1>5. /\ call' \in Seq(HandlerCalls)
      /\ DOMAIN call' = DOMAIN call \cup {Len(call) + 1}
      /\ \A d \in DOMAIN call : call'[d] = call[d]
  BY <1>1, <1>2, <1>3
<1>6. /\ new.phase = p /\ new.next = NoStream /\ new.previous = local
      /\ new.source = s /\ new.settings = w
  BY DEF new
<1>7. QED
  BY <1>4, <1>5, <1>6

\* A command begins a handler, or is one that changes nothing.
LEMMA HandleFacts ==
  ASSUME HostTypes, handleHostCommand
  PROVE  /\ \/ call' = call
            \/ \E p \in {"capture", "list"}, s \in Sources, w \in Settings :
                    call' = NewCall(p, s, w)
         /\ UNCHANGED <<plugged, stream, local, video>>
         /\ HostTypes'
<1> DEFINE command == Head(toHost)
<1>1. command \in Commands /\ toHost' \in Seq(Commands)
  BY DEF HostTypes, handleHostCommand
<1>2. CASE command.type = "switch-source"
  <2>1. command.sourceId \in Sources
    BY <1>1, <1>2 DEF Commands
  <2>2. switchSource(command.sourceId)
    BY <1>2 DEF handleHostCommand
  <2> HIDE DEF command
  <2>3. /\ \E p \in {"capture", "list"}, s \in Sources, w \in Settings :
                    call' = NewCall(p, s, w)
        /\ current' \in Sources /\ settings' \in Settings
    BY <2>1, <2>2 DEF HostTypes, switchSource, startDesktopCapture
  <2>4. call' \in Seq(HandlerCalls)
    BY <2>3, NewCallFacts
  <2>5. QED
    BY <1>1, <2>3, <2>4 DEF HostTypes, handleHostCommand, viewerVars
<1>3. CASE command.type # "switch-source"
  <2>1. command.settings \in Settings
    BY <1>1, <1>3 DEF Commands
  <2>2. updateStreamSettings(command.settings)
    BY <1>3 DEF handleHostCommand
  <2> HIDE DEF command
  <2>3. /\ \/ call' = call
           \/ \E p \in {"capture", "list"}, s \in Sources, w \in Settings :
                    call' = NewCall(p, s, w)
        /\ current' \in Sources /\ settings' \in Settings
    BY <2>1, <2>2 DEF HostTypes, updateStreamSettings, startDesktopCapture
  <2>4. call' \in Seq(HandlerCalls)
    BY <2>3, NewCallFacts DEF HostTypes
  <2>5. QED
    BY <1>1, <2>3, <2>4 DEF HostTypes, handleHostCommand, viewerVars
<1>4. QED
  BY <1>2, <1>3

\* The viewer only sends and learns.
LEMMA ViewerFacts ==
  ASSUME HostTypes,
         \/ \E source \in shownSources : switchRemoteSource(source)
         \/ \E wanted \in Settings : sendHostStreamSettings(wanted)
         \/ HostStateArrives
  PROVE  UNCHANGED <<plugged, call, stream, local, video>> /\ HostTypes'
<1>1. CASE \E source \in shownSources : switchRemoteSource(source)
  <2>1. PICK source \in shownSources : switchRemoteSource(source)
    BY <1>1
  <2>2. [type |-> "switch-source", sourceId |-> source] \in Commands
    BY DEF HostTypes, Commands
  <2>3. toHost' \in Seq(Commands)
    BY <2>1, <2>2 DEF HostTypes, switchRemoteSource
  <2>4. QED
    BY <2>1, <2>3 DEF HostTypes, switchRemoteSource, hostVars
<1>2. CASE \E wanted \in Settings : sendHostStreamSettings(wanted)
  <2>1. PICK wanted \in Settings : sendHostStreamSettings(wanted)
    BY <1>2
  <2>2. [type |-> "update-stream-settings", settings |-> wanted] \in Commands
    BY DEF HostTypes, Commands
  <2>3. toHost' \in Seq(Commands)
    BY <2>1, <2>2 DEF HostTypes, sendHostStreamSettings
  <2>4. QED
    BY <2>1, <2>3 DEF HostTypes, sendHostStreamSettings, hostVars, viewerVars
<1>3. CASE HostStateArrives
  <2>1. Head(toViewer) \in HostStates /\ toViewer' \in Seq(HostStates)
    BY <1>3 DEF HostTypes, HostStateArrives
  <2>2. Head(toViewer).sources \subseteq Sources
    BY <2>1 DEF HostStates
  <2>3. shownSources' \subseteq Sources
    BY <1>3, <2>2 DEF HostTypes, HostStateArrives, viewerVars
  <2>4. QED
    BY <1>3, <2>1, <2>3 DEF HostTypes, HostStateArrives, hostVars
<1>4. QED
  BY <1>1, <1>2, <1>3

\* A capture that began is one more at the end of the list.
LEMMA GetUserMediaFacts ==
  ASSUME HostTypes, NEW c \in DOMAIN call, GetUserMedia(c)
  PROVE  /\ call' \in Seq(HandlerCalls) /\ DOMAIN call' = DOMAIN call
         /\ call'[c].phase = "video" /\ call'[c].next = Len(stream) + 1
         /\ call'[c].previous = call[c].previous
         /\ \A d \in DOMAIN call : d # c => call'[d] = call[d]
         /\ stream' \in Seq(Captures) /\ Len(stream') = Len(stream) + 1
         /\ \A s \in DOMAIN stream : stream'[s] = stream[s]
         /\ stream'[Len(stream) + 1].live
         /\ stream'[Len(stream) + 1].source = call[c].source
         /\ stream'[Len(stream) + 1].settings = call[c].settings
         /\ call'[c].source = call[c].source /\ call'[c].settings = call[c].settings
         /\ UNCHANGED <<plugged, local, video>>
<1> DEFINE ready == [call[c] EXCEPT !.phase = "video"]
           moved == [ready EXCEPT !.next = Len(stream) + 1]
           new == [source |-> call[c].source, settings |-> call[c].settings, live |-> TRUE]
<1>1. call \in Seq(HandlerCalls) /\ call[c] \in HandlerCalls /\ stream \in Seq(Captures)
  BY DEF HostTypes
<1>2. /\ new \in Captures /\ new.live
      /\ new.source = call[c].source /\ new.settings = call[c].settings
  BY <1>1 DEF HandlerCalls, Captures
<1>2a. /\ ready \in HandlerCalls /\ ready.phase = "video" /\ ready.previous = call[c].previous
       /\ ready.source = call[c].source /\ ready.settings = call[c].settings
  BY <1>1 DEF HandlerCalls, Phases
<1>2b. Len(stream) + 1 \in Nat
  BY <1>1
<1>3. /\ moved \in HandlerCalls
      /\ moved.phase = "video" /\ moved.next = Len(stream) + 1
      /\ moved.previous = call[c].previous
      /\ moved.source = call[c].source /\ moved.settings = call[c].settings
  <2> HIDE DEF ready
  <2>1. QED
    BY <1>2a, <1>2b DEF HandlerCalls
<1>4. call' = [call EXCEPT ![c] = moved] /\ stream' = Append(stream, new)
  BY DEF GetUserMedia
<1> HIDE DEF ready, moved, new
<1>5. /\ call' \in Seq(HandlerCalls) /\ DOMAIN call' = DOMAIN call
      /\ call'[c] = moved
      /\ \A d \in DOMAIN call : d # c => call'[d] = call[d]
  BY <1>1, <1>3, <1>4
<1>6. /\ stream' \in Seq(Captures) /\ Len(stream') = Len(stream) + 1
      /\ \A s \in DOMAIN stream : stream'[s] = stream[s]
      /\ stream'[Len(stream) + 1] = new
  BY <1>1, <1>2, <1>4
<1>7. UNCHANGED <<plugged, local, video>>
  BY DEF GetUserMedia
<1>8. QED
  BY <1>2, <1>3, <1>5, <1>6, <1>7

\* A handler that ends stops what was the local stream when it began.
LEMMA StopFacts ==
  ASSUME HostTypes, NEW c \in DOMAIN call, StopPrevious(c),
         call[c].next \in DOMAIN stream
  PROVE  /\ stream' \in Seq(Captures) /\ DOMAIN stream' = DOMAIN stream
         /\ \A s \in DOMAIN stream :
                /\ stream'[s].source = stream[s].source
                /\ s # call[c].previous => stream'[s] = stream[s]
         /\ call[c].phase = "finish" /\ Phase(c, "list")
         /\ local' = call[c].next
         /\ UNCHANGED <<plugged, video>>
         /\ HostTypes'
<1> DEFINE p == call[c].previous
           stopped == [stream[p] EXCEPT !.live = FALSE]
<1>1. stream \in Seq(Captures)
  BY DEF HostTypes
<1>2. stream' = [stream EXCEPT ![p] = stopped]
  BY DEF StopPrevious
<1>3. /\ stream' \in Seq(Captures) /\ DOMAIN stream' = DOMAIN stream
      /\ \A s \in DOMAIN stream : stream'[s].source = stream[s].source
  <2>1. CASE p \in DOMAIN stream
    <3>1. stream[p] \in Captures
      BY <1>1, <2>1
    <3>2. stopped \in Captures /\ stopped.source = stream[p].source
      BY <3>1 DEF Captures
    <3> HIDE DEF stopped, p
    <3>3. QED
      BY <1>1, <1>2, <2>1, <3>2
  <2>2. CASE p \notin DOMAIN stream
    <3>1. stream' = stream
      BY <1>1, <1>2, <2>2
    <3>2. QED
      BY <1>1, <3>1
  <2>3. QED
    BY <2>1, <2>2
<1>4. \A s \in DOMAIN stream : s # p => stream'[s] = stream[s]
  BY <1>1, <1>2
<1>5. /\ call[c].phase = "finish" /\ Phase(c, "list") /\ local' = call[c].next
      /\ UNCHANGED <<plugged, current, settings, video, toHost, toViewer, shownSources>>
  BY DEF StopPrevious, viewerVars
<1>6. call' \in Seq(HandlerCalls)
  BY <1>5, PhaseFacts DEF Phases
<1>7. QED
  BY <1>3, <1>4, <1>5, <1>6 DEF HostTypes

\* A monitor that is gone takes its captures with it and no other.
LEMMA UnplugFacts ==
  ASSUME HostTypes, NEW m \in Sources, Unplug(m)
  PROVE  /\ stream' \in Seq(Captures) /\ DOMAIN stream' = DOMAIN stream
         /\ plugged' = plugged \ {m}
         /\ \A s \in DOMAIN stream :
                /\ stream'[s].source = stream[s].source
                /\ stream[s].source # m => stream'[s].live = stream[s].live
         /\ UNCHANGED <<call, local, video>>
         /\ HostTypes'
<1>1. stream \in Seq(Captures)
  BY DEF HostTypes
<1>2. \A s \in DOMAIN stream : stream[s] \in Captures
  BY <1>1
<1> DEFINE after(s) == [stream[s] EXCEPT !.live = @ /\ stream[s].source # m]
<1>3. stream' = [s \in DOMAIN stream |-> after(s)]
  BY DEF Unplug
<1>4. ASSUME NEW s \in DOMAIN stream
      PROVE  /\ after(s) \in Captures /\ after(s).source = stream[s].source
             /\ stream[s].source # m => after(s).live = stream[s].live
  <2>1. stream[s] \in Captures
    BY <1>2
  <2>2. (stream[s].live /\ stream[s].source # m) \in BOOLEAN
    OBVIOUS
  <2>3. QED
    BY <2>1, <2>2 DEF Captures
<1> HIDE DEF after
<1>5. DOMAIN stream' = DOMAIN stream /\ \A s \in DOMAIN stream : stream'[s] = after(s)
  BY <1>3
<1>6. stream' \in Seq(Captures)
  BY <1>1, <1>3, <1>4
<1>7. UNCHANGED <<call, current, settings, local, video, toHost, toViewer, shownSources>>
      /\ plugged' = plugged \ {m}
  BY DEF Unplug, viewerVars
<1>8. HostTypes'
  BY <1>5, <1>6, <1>7 DEF HostTypes
<1>9. QED
  BY <1>4, <1>5, <1>6, <1>7, <1>8

-------------------------------------------------------------------------------
(* The invariant.                                                            *)

LEMMA InitInv == Init => CaptureInv
<1> SUFFICES ASSUME Init PROVE CaptureInv
  OBVIOUS
<1> DEFINE first == [source |-> current, settings |-> settings, live |-> TRUE]
<1>1. call = <<>> /\ stream = <<first>> /\ local = 1 /\ video = 1
  BY DEF Init
<1>2. first \in Captures /\ first.live
  BY DEF Init, Captures
<1> HIDE DEF first
<1>3. DOMAIN call = {} /\ DOMAIN stream = {1} /\ stream[1] = first
  BY <1>1
<1>4. call \in Seq(HandlerCalls) /\ stream \in Seq(Captures)
  BY <1>1, <1>2
<1>5. HostTypes
  BY <1>1, <1>3, <1>4 DEF HostTypes, Init
<1>6. QED
  BY <1>1, <1>2, <1>3, <1>5
  DEF CaptureInv, OwnCaptures, LocalIsFinished, SentIsSpared, StoppedByFinished

\* What no handler, capture or monitor is part of.
LEMMA UntouchedStep ==
  ASSUME CaptureInv, HostTypes', UNCHANGED <<plugged, call, stream, local, video>>
  PROVE  CaptureInv'
BY DEF CaptureInv, OwnCaptures, LocalIsFinished, SentIsSpared, StoppedByFinished,
       Captured, Replaced, Finished

LEMMA NewCallStep ==
  ASSUME CaptureInv, HostTypes',
         NEW p \in {"capture", "list"}, NEW s \in Sources, NEW w \in Settings,
         call' = NewCall(p, s, w), UNCHANGED <<plugged, stream, local, video>>
  PROVE  CaptureInv'
<1>0. PICK n \in Nat : n = Len(call) + 1
  BY DEF CaptureInv, HostTypes
<1>1. /\ DOMAIN call' = DOMAIN call \cup {n}
      /\ \A d \in DOMAIN call : call'[d] = call[d]
      /\ call'[n].phase = p /\ call'[n].next = NoStream /\ call'[n].previous = local
  BY <1>0, NewCallFacts DEF CaptureInv
<1>2. n \notin DOMAIN call /\ n \in DOMAIN call'
  BY <1>0, <1>1 DEF CaptureInv, HostTypes
<1>3. \A d \in DOMAIN call : /\ Captured(d)' <=> Captured(d)
                             /\ Replaced(d)' <=> Replaced(d)
                             /\ Finished(d)' <=> Finished(d)
  BY <1>1 DEF Captured, Replaced, Finished
<1>4. ~Captured(n)' /\ ~Replaced(n)' /\ ~Finished(n)'
  BY <1>1 DEF Captured, Replaced, Finished
<1>5. OwnCaptures'
  <2>1. \A c \in DOMAIN call' :
            /\ call'[c].phase = "capture" => ~Captured(c)'
            /\ call'[c].phase \in {"video", "audio", "finish"} => Captured(c)'
            /\ Captured(c)' => call'[c].next \in 2 .. Len(stream')
    BY <1>1, <1>3, <1>4 DEF CaptureInv, OwnCaptures
  <2>2. \A c, d \in DOMAIN call' :
            Captured(c)' /\ call'[c].next = call'[d].next => c = d
    BY <1>1, <1>3, <1>4 DEF CaptureInv, OwnCaptures, Captured
  <2>3. QED
    BY <2>1, <2>2 DEF OwnCaptures
<1>6. LocalIsFinished'
  <2>1. local' = 1 \/ \E d \in DOMAIN call' : Finished(d)' /\ call'[d].next = local'
    BY <1>1, <1>3 DEF CaptureInv, LocalIsFinished
  <2>2. \A c \in DOMAIN call' :
            \/ call'[c].previous = 1
            \/ \E d \in DOMAIN call' : Finished(d)' /\ call'[d].next = call'[c].previous
    BY <1>1, <1>3, <2>1 DEF CaptureInv, LocalIsFinished
  <2>3. QED
    BY <2>1, <2>2 DEF LocalIsFinished
<1>7. SentIsSpared' /\ StoppedByFinished'
  BY <1>1, <1>3, <1>4 DEF CaptureInv, SentIsSpared, StoppedByFinished
<1>8. QED
  BY <1>5, <1>6, <1>7 DEF CaptureInv

\* A capture that is new is nobody else's, and not one that anybody will stop.
LEMMA GetUserMediaStep ==
  ASSUME CaptureInv, NEW c \in DOMAIN call, GetUserMedia(c)
  PROVE  CaptureInv'
<1>0. PICK n \in Nat : n = Len(stream) + 1
  BY DEF CaptureInv, HostTypes
<1>1. /\ call' \in Seq(HandlerCalls) /\ DOMAIN call' = DOMAIN call
      /\ call'[c].phase = "video" /\ call'[c].next = n
      /\ call'[c].previous = call[c].previous
      /\ \A d \in DOMAIN call : d # c => call'[d] = call[d]
      /\ stream' \in Seq(Captures) /\ Len(stream') = n
      /\ \A s \in DOMAIN stream : stream'[s] = stream[s]
      /\ stream'[n].live
      /\ UNCHANGED <<plugged, local, video>>
  BY <1>0, GetUserMediaFacts DEF CaptureInv
<1>2. call[c].phase = "capture" /\ ~Captured(c) /\ ~Replaced(c) /\ ~Finished(c)
  BY DEF CaptureInv, OwnCaptures, GetUserMedia, Replaced, Finished
<1>3. /\ n \in Nat /\ n >= 2 /\ n \notin DOMAIN stream
      /\ DOMAIN stream' = DOMAIN stream \cup {n}
  BY <1>0, <1>1 DEF CaptureInv, HostTypes
<1>4. \A d \in DOMAIN call : Captured(d) => call[d].next \in 2 .. Len(stream)
  BY DEF CaptureInv, OwnCaptures
<1>5. HostTypes'
  BY <1>1, <1>3 DEF CaptureInv, HostTypes, GetUserMedia, viewerVars
<1>6. \A d \in DOMAIN call : /\ d # c => (Captured(d)' <=> Captured(d))
                             /\ Replaced(d)' <=> Replaced(d)
                             /\ Finished(d)' <=> Finished(d)
                             /\ Finished(d) => call'[d] = call[d]
                             /\ call'[d].previous = call[d].previous
  BY <1>1, <1>2 DEF Captured, Replaced, Finished
<1>7. Captured(c)'
  BY <1>1, <1>3 DEF Captured, NoStream
<1>8. OwnCaptures'
  <2>1. ASSUME NEW d \in DOMAIN call'
        PROVE  /\ call'[d].phase = "capture" => ~Captured(d)'
               /\ call'[d].phase \in {"video", "audio", "finish"} => Captured(d)'
               /\ Captured(d)' => call'[d].next \in 2 .. Len(stream')
    <3>1. CASE d = c
      BY <1>1, <1>3, <1>7, <3>1
    <3>2. CASE d # c
      BY <1>1, <1>3, <1>4, <1>6, <3>2 DEF CaptureInv, HostTypes, OwnCaptures
    <3>3. QED
      BY <3>1, <3>2
  <2>2. \A d \in DOMAIN call : d # c => call[d].next # n
    BY <1>3, <1>4 DEF Captured, NoStream, CaptureInv, HostTypes
  <2>3. \A d, e \in DOMAIN call' :
            Captured(d)' /\ call'[d].next = call'[e].next => d = e
    BY <1>1, <1>6, <2>2 DEF CaptureInv, OwnCaptures
  <2>4. QED
    BY <2>1, <2>3 DEF OwnCaptures
<1>9. LocalIsFinished'
  BY <1>1, <1>6 DEF CaptureInv, LocalIsFinished
<1>10. SentIsSpared' /\ StoppedByFinished'
  BY <1>1, <1>3, <1>6 DEF CaptureInv, SentIsSpared, StoppedByFinished
<1>11. QED
  BY <1>5, <1>8, <1>9, <1>10 DEF CaptureInv

\* The ends of a capture that failed, of replacing the audio track and of a
\* handler leave every track and stream as it is.
LEMMA PhaseStep ==
  ASSUME CaptureInv, NEW c \in DOMAIN call,
         \/ call[c].phase = "capture" /\ Phase(c, "done")
         \/ call[c].phase = "audio" /\ Phase(c, "finish")
         \/ call[c].phase = "list" /\ Phase(c, "done"),
         UNCHANGED <<plugged, stream, local, video, current, settings, toHost,
                     shownSources>>,
         toViewer' \in Seq(HostStates)
  PROVE  CaptureInv'
<1>1. PICK p \in Phases : Phase(c, p) /\ p \in {"done", "finish"}
                          /\ (p = "finish" <=> call[c].phase = "audio")
  BY DEF Phases
<1>2. /\ call' \in Seq(HandlerCalls) /\ DOMAIN call' = DOMAIN call
      /\ call'[c].phase = p
      /\ \A d \in DOMAIN call : d # c => call'[d] = call[d]
      /\ \A d \in DOMAIN call : call'[d].next = call[d].next
                                /\ call'[d].previous = call[d].previous
  BY <1>1, PhaseFacts DEF CaptureInv
<1>3. \A d \in DOMAIN call : Captured(d)' <=> Captured(d)
  BY <1>2 DEF Captured
<1>4. call[c].phase = "capture" => ~Captured(c)
  BY DEF CaptureInv, OwnCaptures
<1>5. \A d \in DOMAIN call : /\ Replaced(d)' <=> Replaced(d)
                             /\ Finished(d)' <=> Finished(d)
  BY <1>1, <1>2, <1>3, <1>4 DEF Replaced, Finished
<1>6. HostTypes'
  BY <1>2 DEF CaptureInv, HostTypes
<1>7. OwnCaptures'
  BY <1>1, <1>2, <1>3, <1>4 DEF CaptureInv, OwnCaptures
<1>8. LocalIsFinished' /\ SentIsSpared' /\ StoppedByFinished'
  BY <1>2, <1>5 DEF CaptureInv, LocalIsFinished, SentIsSpared, StoppedByFinished
<1>9. QED
  BY <1>6, <1>7, <1>8 DEF CaptureInv

\* The track that is sent from now on is of a capture that was never local.
LEMMA ReplaceVideoStep ==
  ASSUME CaptureInv, NEW c \in DOMAIN call, ReplaceVideo(c)
  PROVE  CaptureInv'
<1>1. call[c].phase = "video" /\ Phase(c, "audio") /\ video' = call[c].next
      /\ UNCHANGED <<plugged, stream, local, current, settings, toHost, toViewer,
                     shownSources>>
  BY DEF ReplaceVideo, viewerVars
<1>2. /\ call' \in Seq(HandlerCalls) /\ DOMAIN call' = DOMAIN call
      /\ call'[c].phase = "audio"
      /\ \A d \in DOMAIN call : d # c => call'[d] = call[d]
      /\ \A d \in DOMAIN call : call'[d].next = call[d].next
                                /\ call'[d].previous = call[d].previous
  BY <1>1, PhaseFacts DEF CaptureInv, Phases
<1>3. Captured(c) /\ call[c].next \in 2 .. Len(stream) /\ ~Finished(c)
  BY <1>1 DEF CaptureInv, OwnCaptures, Finished
<1>4. \A d \in DOMAIN call : Captured(d)' <=> Captured(d)
  BY <1>2 DEF Captured
<1>5. \A d \in DOMAIN call : Finished(d)' <=> Finished(d)
  BY <1>1, <1>2, <1>4 DEF Finished
<1>6. video' \in DOMAIN stream
  BY <1>1, <1>3 DEF CaptureInv, HostTypes
<1>7. HostTypes'
  BY <1>1, <1>2, <1>6 DEF CaptureInv, HostTypes
<1>8. OwnCaptures'
  BY <1>1, <1>2, <1>3, <1>4 DEF CaptureInv, OwnCaptures
<1>9. LocalIsFinished' /\ StoppedByFinished'
  BY <1>1, <1>2, <1>5 DEF CaptureInv, LocalIsFinished, StoppedByFinished
<1>10. SentIsSpared'
  <2>1. ASSUME NEW d \in DOMAIN call
        PROVE  call[d].previous # call[c].next
    <3>1. call[d].previous = 1 \/ \E e \in DOMAIN call :
                Finished(e) /\ call[e].next = call[d].previous
      BY DEF CaptureInv, LocalIsFinished
    <3>2. \A e \in DOMAIN call : Finished(e) => call[e].next # call[c].next
      BY <1>3 DEF CaptureInv, OwnCaptures
    <3>3. call[c].next # 1
      BY <1>3
    <3>4. QED
      BY <3>1, <3>2, <3>3
  <2>2. QED
    BY <1>1, <1>2, <2>1 DEF SentIsSpared
<1>11. QED
  BY <1>7, <1>8, <1>9, <1>10 DEF CaptureInv

LEMMA StopPreviousStep ==
  ASSUME CaptureInv, NEW c \in DOMAIN call, StopPrevious(c)
  PROVE  CaptureInv'
<1>1. call[c].phase = "finish" /\ Captured(c)
      /\ call[c].next \in 2 .. Len(stream)
  BY DEF CaptureInv, OwnCaptures, StopPrevious
<1>2. call[c].next \in DOMAIN stream
  BY <1>1 DEF CaptureInv, HostTypes
<1>3. /\ DOMAIN stream' = DOMAIN stream /\ stream' \in Seq(Captures)
      /\ \A s \in DOMAIN stream :
            /\ stream'[s].source = stream[s].source
            /\ s # call[c].previous => stream'[s] = stream[s]
      /\ Phase(c, "list") /\ local' = call[c].next
      /\ UNCHANGED <<plugged, video>>
      /\ HostTypes'
  BY <1>2, StopFacts DEF CaptureInv
<1>4. /\ DOMAIN call' = DOMAIN call /\ call'[c].phase = "list"
      /\ \A d \in DOMAIN call : d # c => call'[d] = call[d]
      /\ \A d \in DOMAIN call : call'[d].next = call[d].next
                                /\ call'[d].previous = call[d].previous
  BY <1>3, PhaseFacts DEF CaptureInv, Phases
<1>5. \A d \in DOMAIN call : /\ Captured(d)' <=> Captured(d)
                             /\ Replaced(d)' <=> Replaced(d)
                             /\ Finished(d) => Finished(d)'
  BY <1>1, <1>4 DEF Captured, Replaced, Finished
<1>6. Finished(c)' /\ call'[c].next = local'
  BY <1>1, <1>3, <1>4, <1>5 DEF Finished
<1>7. Len(stream') = Len(stream)
  BY <1>3 DEF CaptureInv, HostTypes
<1>8. OwnCaptures'
  BY <1>1, <1>4, <1>5, <1>7 DEF CaptureInv, OwnCaptures
<1>9. LocalIsFinished'
  BY <1>4, <1>5, <1>6 DEF CaptureInv, LocalIsFinished
<1>10. SentIsSpared'
  BY <1>3, <1>4, <1>5 DEF CaptureInv, SentIsSpared
<1>11. StoppedByFinished'
  BY <1>3, <1>4, <1>5, <1>6 DEF CaptureInv, StoppedByFinished
<1>12. QED
  BY <1>3, <1>8, <1>9, <1>10, <1>11 DEF CaptureInv

LEMMA UnplugStep ==
  ASSUME CaptureInv, NEW m \in Sources, Unplug(m)
  PROVE  CaptureInv'
<1>1. /\ stream' \in Seq(Captures) /\ DOMAIN stream' = DOMAIN stream
      /\ plugged' = plugged \ {m}
      /\ \A s \in DOMAIN stream :
            /\ stream'[s].source = stream[s].source
            /\ stream[s].source # m => stream'[s].live = stream[s].live
      /\ UNCHANGED <<call, local, video>>
      /\ HostTypes'
  BY UnplugFacts DEF CaptureInv
<1>2. Len(stream') = Len(stream)
  BY <1>1 DEF CaptureInv, HostTypes
<1>3. StoppedByFinished'
  BY <1>1 DEF CaptureInv, StoppedByFinished, Finished, Captured
<1>4. QED
  BY <1>1, <1>2, <1>3 DEF CaptureInv, OwnCaptures, LocalIsFinished, SentIsSpared,
       Captured, Replaced, Finished

\* Every step of handlers, viewer and monitors keeps the invariant.
LEMMA StepInv == CaptureInv /\ [Next]_vars => CaptureInv'
<1> SUFFICES ASSUME CaptureInv, [Next]_vars PROVE CaptureInv'
  OBVIOUS
<1>1. CASE UNCHANGED vars
  <2>1. UNCHANGED <<plugged, current, settings, call, stream, local, video, toHost,
                    toViewer, shownSources>>
    BY <1>1 DEF vars, hostVars, viewerVars
  <2>2. HostTypes'
    BY <2>1 DEF CaptureInv, HostTypes
  <2>3. QED
    BY <2>1, <2>2, UntouchedStep
<1>2. CASE \/ \E source \in shownSources : switchRemoteSource(source)
           \/ \E wanted \in Settings : sendHostStreamSettings(wanted)
           \/ HostStateArrives
  BY <1>2, ViewerFacts, UntouchedStep DEF CaptureInv
<1>3. CASE handleHostCommand
  <2>1. HostTypes
    BY DEF CaptureInv
  <2>2. /\ \/ call' = call
           \/ \E p \in {"capture", "list"}, s \in Sources, w \in Settings :
                    call' = NewCall(p, s, w)
        /\ UNCHANGED <<plugged, stream, local, video>>
        /\ HostTypes'
    BY <1>3, <2>1, HandleFacts
  <2>3. QED
    BY <2>2, NewCallStep, UntouchedStep
<1>4. ASSUME NEW c \in DOMAIN call, GetUserMedia(c)
      PROVE  CaptureInv'
  BY <1>4, GetUserMediaStep
<1>5. ASSUME NEW c \in DOMAIN call, CaptureFails(c)
      PROVE  CaptureInv'
  BY <1>5, PhaseStep DEF CaptureFails, viewerVars, CaptureInv, HostTypes
<1>6. ASSUME NEW c \in DOMAIN call, ReplaceVideo(c)
      PROVE  CaptureInv'
  BY <1>6, ReplaceVideoStep
<1>7. ASSUME NEW c \in DOMAIN call, ReplaceAudio(c)
      PROVE  CaptureInv'
  BY <1>7, PhaseStep DEF ReplaceAudio, viewerVars, CaptureInv, HostTypes
<1>8. ASSUME NEW c \in DOMAIN call, StopPrevious(c)
      PROVE  CaptureInv'
  BY <1>8, StopPreviousStep
<1>9. ASSUME NEW c \in DOMAIN call, publishHostState(c)
      PROVE  CaptureInv'
  <2>1. [activeSourceId |-> current, sources |-> plugged] \in HostStates
    BY DEF CaptureInv, HostTypes, HostStates
  <2>2. toViewer' \in Seq(HostStates)
    BY <1>9, <2>1 DEF publishHostState, CaptureInv, HostTypes
  <2>3. QED
    BY <1>9, <2>2, PhaseStep DEF publishHostState, viewerVars
<1>10. ASSUME NEW m \in Sources, Unplug(m)
       PROVE  CaptureInv'
  BY <1>10, UnplugStep
<1>11. QED
  BY <1>1, <1>2, <1>3, <1>4, <1>5, <1>6, <1>7, <1>8, <1>9, <1>10 DEF Next, HostStep

\* However commands overlap and monitors come and go, no handler stops the
\* capture that is being sent (RemoteControlClient.startDesktopCapture).
THEOREM SentCaptureRuns == Spec => []SentIsLive
<1>1. CaptureInv => SentIsLive
  BY DEF CaptureInv, HostTypes, StoppedByFinished, SentIsSpared, SentIsLive,
         Replaced, Finished
<1>2. QED
  BY InitInv, StepInv, <1>1, PTL DEF Spec

-------------------------------------------------------------------------------
(* How commands settle.                                                      *)

\* The last state on its way to the viewer, or else what it shows, names the
\* active monitor once no handler and no switch is left.
Follows ==
    /\ plugged = Sources
    /\ \A i \in DOMAIN toViewer : toViewer[i].sources = Sources
    /\ Busy = {} /\ (\A i \in DOMAIN toHost : toHost[i].type # "switch-source") =>
        IF toViewer = <<>> THEN shownSource = current
        ELSE toViewer[Len(toViewer)].activeSourceId = current

Live == {s \in DOMAIN stream : stream[s].live}
Fits(s) == stream[s].source = current /\ stream[s].settings = settings
AudioOf(s) == IF settings.audio THEN s ELSE NoStream
Settled == Live = {local} /\ video = local /\ Fits(local) /\ audio = AudioOf(local)

\* How far the only handler has come, and what runs and is sent by then.
OnItsWay(c) ==
    LET next == call[c].next
        phase == call[c].phase
    IN  /\ \A d \in DOMAIN call : Active(d) => d = c
        /\ phase = "list" => Settled
        /\ phase # "list" =>
            /\ call[c].source = current /\ call[c].settings = settings
            /\ call[c].previous = local
        /\ phase = "capture" => Live = {local} /\ video = local
        /\ phase \in {"video", "audio", "finish"} =>
            Live = {local, next} /\ next # local /\ Fits(next)
        /\ phase = "video" => video = local
        /\ phase \in {"audio", "finish"} => video = next
        /\ phase = "finish" => audio = AudioOf(next)

OneByOne ==
    /\ Busy = {} => Settled
    /\ \A c \in DOMAIN call : Active(c) => OnItsWay(c)

\* What the invariant of all conditions leaves open.
Shown ==
    /\ conditions \subseteq Conditions
    /\ audio \in DOMAIN stream \cup {NoStream} /\ shownSource \in Sources

SettleInv ==
    /\ CaptureInv /\ Shown
    /\ NothingFails => Follows
    /\ conditions = {"inTurn"} => OneByOne

\* A queue with something more at its end, and without its first.
LEMMA Appended ==
  ASSUME NEW S, NEW q \in Seq(S), NEW x \in S
  PROVE  /\ Append(q, x) \in Seq(S) /\ Append(q, x) # <<>>
         /\ Len(Append(q, x)) \in DOMAIN Append(q, x)
         /\ Append(q, x)[Len(Append(q, x))] = x
         /\ \A i \in DOMAIN Append(q, x) :
              Append(q, x)[i] = x \/ \E j \in DOMAIN q : Append(q, x)[i] = q[j]
OBVIOUS

LEMMA Shortened ==
  ASSUME NEW S, NEW q \in Seq(S), q # <<>>
  PROVE  /\ Tail(q) \in Seq(S) /\ Head(q) \in S /\ Head(q) = q[1] /\ 1 \in DOMAIN q
         /\ \A i \in DOMAIN Tail(q) : \E j \in DOMAIN q : Tail(q)[i] = q[j]
         /\ Tail(q) # <<>> => Tail(q)[Len(Tail(q))] = q[Len(q)]
         /\ Tail(q) = <<>> => q[Len(q)] = Head(q)
OBVIOUS

\* A handler that moves on leaves the others as busy as they were.
LEMMA PhaseActive ==
  ASSUME HostTypes, NEW c \in DOMAIN call, NEW p \in Phases, Phase(c, p)
  PROVE  /\ Active(c)' <=> p # "done"
         /\ \A d \in DOMAIN call : d # c => (Active(d)' <=> Active(d))
  BY PhaseFacts DEF Active

LEMMA FollowsStep ==
  ASSUME HostTypes, HostTypes', NothingFails, Follows, [Next]_vars
  PROVE  Follows'
<1> USE DEF HostTypes
<1>1. CASE UNCHANGED vars
  BY <1>1 DEF vars, hostVars, viewerVars, Follows, Busy, Active
<1>2. ASSUME NEW source \in shownSources, switchRemoteSource(source)
      PROVE  Follows'
  <2> DEFINE command == [type |-> "switch-source", sourceId |-> source]
  <2>1. command \in Commands /\ command.type = "switch-source"
    BY DEF Commands
  <2>2. toHost' = Append(toHost, command) /\ toHost \in Seq(Commands)
    BY <1>2 DEF switchRemoteSource
  <2> HIDE DEF command
  <2>3. \E i \in DOMAIN toHost' : toHost'[i].type = "switch-source"
    <3>1. /\ Len(toHost') \in DOMAIN toHost' /\ toHost'[Len(toHost')] = command
      BY ONLY <2>1, <2>2, Appended
    <3>2. QED
      BY <2>1, <3>1
  <2>4. QED
    BY <1>2, <2>3 DEF switchRemoteSource, hostVars, Follows
<1>3. ASSUME NEW wanted \in Settings, sendHostStreamSettings(wanted)
      PROVE  Follows'
  <2>1. \A i \in DOMAIN toHost : i \in DOMAIN toHost' /\ toHost'[i] = toHost[i]
    BY <1>3 DEF sendHostStreamSettings
  <2>2. QED
    BY <1>3, <2>1 DEF sendHostStreamSettings, hostVars, viewerVars, Follows, Busy, Active
<1>4. CASE HostStateArrives
  <2>1. toViewer \in Seq(HostStates) /\ toViewer # <<>> /\ toViewer' = Tail(toViewer)
    BY <1>4 DEF HostStateArrives
  <2>2. /\ Head(toViewer) \in HostStates /\ Head(toViewer) = toViewer[1]
        /\ 1 \in DOMAIN toViewer
    BY <2>1
  <2>3. Head(toViewer).sources = Sources
    BY <2>2 DEF Follows
  <2>4. sanitizeHostStateMessage(Head(toViewer))
    BY <2>2, <2>3 DEF sanitizeHostStateMessage, HostStates
  <2>5. shownSource' = Head(toViewer).activeSourceId
    BY <1>4, <2>4 DEF HostStateArrives
  <2>6. \A i \in DOMAIN toViewer' : i + 1 \in DOMAIN toViewer /\ toViewer'[i] = toViewer[i + 1]
    BY <2>1
  <2>7. \A i \in DOMAIN toViewer' : toViewer'[i].sources = Sources
    BY <2>6 DEF Follows
  <2>8. IF toViewer' = <<>> THEN Head(toViewer) = toViewer[Len(toViewer)]
        ELSE toViewer'[Len(toViewer')] = toViewer[Len(toViewer)]
    BY <2>1, Shortened
  <2>9. UNCHANGED <<plugged, current, call, toHost>>
    BY <1>4 DEF HostStateArrives, hostVars
  <2>10. QED
    BY <2>1, <2>5, <2>7, <2>8, <2>9 DEF Follows, Busy, Active
<1>5. CASE handleHostCommand
  <2> DEFINE command == Head(toHost)
  <2>1. /\ toHost \in Seq(Commands) /\ toHost # <<>> /\ toHost' = Tail(toHost)
        /\ UNCHANGED <<plugged, toViewer, shownSource>>
    BY <1>5 DEF handleHostCommand, viewerVars
  <2>2. command \in Commands /\ command = toHost[1]
    BY <2>1
  <2>3. \A i \in DOMAIN toHost : i = 1 \/ (i - 1 \in DOMAIN toHost' /\ toHost'[i - 1] = toHost[i])
    BY <2>1
  <2>4. ASSUME NEW p \in {"capture", "list"}, NEW s \in Sources, NEW w \in Settings,
               call' = NewCall(p, s, w)
        PROVE  Busy' # {}
    <3>1. /\ Len(call) + 1 \in DOMAIN call'
          /\ call'[Len(call) + 1].phase = p
      BY <2>4, NewCallFacts
    <3>2. QED
      BY <3>1 DEF Busy, Active
  <2>5. CASE Busy' # {}
    BY <2>1, <2>5 DEF Follows
  <2>6. CASE Busy' = {}
    <3>1. command.type # "switch-source"
      <4>1. SUFFICES ASSUME command.type = "switch-source" PROVE FALSE
        OBVIOUS
      <4>2. command.sourceId \in Sources
        BY <2>2, <4>1 DEF Commands
      <4>3. switchSource(command.sourceId)
        BY <1>5, <4>1 DEF handleHostCommand
      <4> HIDE DEF command
      <4>4. QED
        BY <2>4, <2>6, <4>2, <4>3 DEF switchSource, startDesktopCapture
    <3>2. command.settings \in Settings
      BY <2>2, <3>1 DEF Commands
    <3>3. updateStreamSettings(command.settings)
      BY <1>5, <3>1 DEF handleHostCommand
    <3>4. call' = call /\ current' = current
      <4> HIDE DEF command
      <4>1. QED
        BY <2>4, <2>6, <3>2, <3>3 DEF updateStreamSettings, startDesktopCapture
    <3>5. Busy = {}
      BY <2>6, <3>4 DEF Busy, Active
    <3>6. (\A i \in DOMAIN toHost' : toHost'[i].type # "switch-source")
            => \A i \in DOMAIN toHost : toHost[i].type # "switch-source"
      BY <2>2, <2>3, <3>1
    <3> HIDE DEF command
    <3>7. QED
      BY <2>1, <3>4, <3>5, <3>6 DEF Follows
  <2>7. QED
    BY <2>5, <2>6
<1>6. ASSUME NEW c \in DOMAIN call,
             GetUserMedia(c) \/ ReplaceVideo(c) \/ ReplaceAudio(c) \/ StopPrevious(c)
      PROVE  Follows'
  <2>1. c \in DOMAIN call' /\ call'[c].phase # "done"
    BY <1>6, PhaseFacts, GetUserMediaFacts DEF ReplaceVideo, ReplaceAudio, StopPrevious, Phases
  <2>2. Busy' # {}
    BY <2>1 DEF Busy, Active
  <2>3. UNCHANGED <<plugged, toViewer>>
    BY <1>6 DEF GetUserMedia, ReplaceVideo, ReplaceAudio, StopPrevious
  <2>4. QED
    BY <2>2, <2>3 DEF Follows
<1>7. ASSUME NEW c \in DOMAIN call PROVE ~CaptureFails(c)
  <2>0. call[c] \in HandlerCalls
    OBVIOUS
  <2>1. call[c].source \in Sources
    BY <2>0 DEF HandlerCalls
  <2>2. QED
    BY <2>1 DEF CaptureFails, NothingFails, Follows
<1>8. ASSUME NEW c \in DOMAIN call, publishHostState(c)
      PROVE  Follows'
  <2> DEFINE state == [activeSourceId |-> current, sources |-> plugged]
  <2>1. /\ state \in HostStates /\ state.activeSourceId = current
        /\ state.sources = Sources
    BY DEF HostStates, Follows
  <2>2. /\ toViewer \in Seq(HostStates) /\ toViewer' = Append(toViewer, state)
        /\ UNCHANGED <<plugged, current>>
    BY <1>8 DEF publishHostState
  <2> HIDE DEF state
  <2>3. /\ toViewer' # <<>> /\ toViewer'[Len(toViewer')] = state
        /\ \A i \in DOMAIN toViewer' : toViewer'[i] = state
                \/ \E j \in DOMAIN toViewer : toViewer'[i] = toViewer[j]
    BY ONLY <2>1, <2>2, Appended
  <2>4. QED
    BY <2>1, <2>2, <2>3 DEF Follows
<1>9. ASSUME NEW m \in Sources PROVE ~Unplug(m)
  BY DEF Unplug, NothingFails
<1>10. QED
  BY <1>1, <1>2, <1>3, <1>4, <1>5, <1>6, <1>7, <1>8, <1>9 DEF Next, HostStep

\* The only handler in progress stays the only one.
LEMMA OnlyOne ==
  ASSUME HostTypes, OneByOne, NEW c \in DOMAIN call, Active(c),
         DOMAIN call' = DOMAIN call,
         \A d \in DOMAIN call : d # c => call'[d] = call[d],
         IF Active(c)' THEN OnItsWay(c)' ELSE Settled'
  PROVE  OneByOne'
<1>1. \A d \in DOMAIN call : d # c => ~Active(d) /\ ~Active(d)'
  BY DEF OneByOne, OnItsWay, Active
<1>2. CASE Active(c)'
  <2>1. Busy' # {}
    BY <1>2 DEF Busy
  <2>2. \A d \in DOMAIN call' : Active(d)' => OnItsWay(d)'
    BY <1>1, <1>2
  <2>3. QED
    BY <2>1, <2>2 DEF OneByOne
<1>3. CASE ~Active(c)'
  <2>1. \A d \in DOMAIN call' : ~Active(d)'
    BY <1>1, <1>3
  <2>2. QED
    BY <1>3, <2>1 DEF OneByOne
<1>4. QED
  BY <1>2, <1>3

\* A command that begins a handler begins the only one.
LEMMA FirstOne ==
  ASSUME HostTypes, Settled, Busy = {}, UNCHANGED <<stream, local, video, audio>>,
         NEW p \in {"capture", "list"}, NEW s \in Sources, NEW w \in Settings,
         call' = NewCall(p, s, w),
         p = "capture" => s = current' /\ w = settings',
         p = "list" => UNCHANGED <<current, settings>>
  PROVE  OneByOne'
<1>0. PICK n \in Nat : n = Len(call) + 1
  BY DEF HostTypes
<1>1. /\ DOMAIN call' = DOMAIN call \cup {n}
      /\ \A d \in DOMAIN call : call'[d] = call[d]
      /\ call'[n].phase = p /\ call'[n].previous = local
      /\ call'[n].source = s /\ call'[n].settings = w
  BY <1>0, NewCallFacts
<1>2. \A d \in DOMAIN call' : Active(d)' => d = n
  BY <1>1 DEF Busy, Active
<1>3. n \in Busy'
  BY <1>1 DEF Busy, Active
<1>4. p = "list" => Settled'
  BY DEF Settled, Live, Fits, AudioOf
<1>5. Live' = {local'} /\ video' = local'
  BY DEF Settled, Live
<1>6. OnItsWay(n)'
  BY <1>1, <1>2, <1>4, <1>5 DEF OnItsWay
<1>7. QED
  BY <1>2, <1>3, <1>6 DEF OneByOne

LEMMA HandleSettles ==
  ASSUME HostTypes, OneByOne, "inTurn" \in conditions, handleHostCommand
  PROVE  OneByOne'
<1> DEFINE command == Head(toHost)
<1>1. /\ command \in Commands
      /\ Busy = {} /\ UNCHANGED <<stream, local, video, audio>>
  BY Shortened DEF HostTypes, handleHostCommand, MayHandle
<1>2. Settled
  BY <1>1 DEF OneByOne
<1>3. CASE command.type = "switch-source"
  <2>1. command.sourceId \in Sources /\ settings \in Settings
    BY <1>1, <1>3 DEF Commands, HostTypes
  <2>2. switchSource(command.sourceId)
    BY <1>3 DEF handleHostCommand
  <2> HIDE DEF command
  <2>3. QED
    BY <1>1, <1>2, <2>1, <2>2, FirstOne DEF switchSource, startDesktopCapture
<1>4. CASE command.type # "switch-source"
  <2>1. command.settings \in Settings /\ current \in Sources
    BY <1>1, <1>4 DEF Commands, HostTypes
  <2>2. updateStreamSettings(command.settings)
    BY <1>4 DEF handleHostCommand
  <2> HIDE DEF command
  <2>3. CASE command.settings # settings
    BY <1>1, <1>2, <2>1, <2>2, <2>3, FirstOne DEF updateStreamSettings, startDesktopCapture
  <2>4. CASE command.settings = settings
    <3>1. UNCHANGED <<call, current, settings>>
      BY <2>2, <2>4 DEF updateStreamSettings
    <3>2. QED
      BY <1>1, <1>2, <3>1 DEF OneByOne, Settled, Live, Fits, AudioOf, Busy, Active
  <2>5. QED
    BY <2>3, <2>4
<1>5. QED
  BY <1>3, <1>4

\* The new capture runs beside the old one until that is stopped.
LEMMA GetUserMediaSettles ==
  ASSUME CaptureInv, OneByOne, NEW c \in DOMAIN call, GetUserMedia(c)
  PROVE  OneByOne'
<1> DEFINE n == Len(stream) + 1
<1>1. HostTypes
  BY DEF CaptureInv
<1>2. /\ DOMAIN call' = DOMAIN call
      /\ call'[c].phase = "video" /\ call'[c].next = n
      /\ call'[c].previous = call[c].previous
      /\ call'[c].source = call[c].source /\ call'[c].settings = call[c].settings
      /\ \A d \in DOMAIN call : d # c => call'[d] = call[d]
      /\ stream' \in Seq(Captures) /\ Len(stream') = n
      /\ \A s \in DOMAIN stream : stream'[s] = stream[s]
      /\ stream'[n].live
      /\ stream'[n].source = call[c].source /\ stream'[n].settings = call[c].settings
      /\ UNCHANGED <<local, video, current, settings, audio>>
  BY <1>1, GetUserMediaFacts DEF GetUserMedia
<1>3. DOMAIN stream' = DOMAIN stream \cup {n} /\ n \notin DOMAIN stream
      /\ local \in DOMAIN stream
  BY <1>1, <1>2 DEF HostTypes
<1> HIDE DEF n
<1>4. call[c].phase = "capture" /\ Active(c) /\ OnItsWay(c)
  BY DEF GetUserMedia, Active, OneByOne
<1>5. /\ call[c].source = current /\ call[c].settings = settings
      /\ call[c].previous = local /\ Live = {local} /\ video = local
      /\ \A d \in DOMAIN call : Active(d) => d = c
  BY <1>4 DEF OnItsWay
<1>6. Live' = {local, n}
  BY <1>2, <1>3, <1>5 DEF Live
<1>7. Active(c)' /\ \A d \in DOMAIN call' : Active(d)' => d = c
  BY <1>2, <1>5 DEF Active
<1>8. OnItsWay(c)'
  BY <1>2, <1>3, <1>5, <1>6, <1>7 DEF OnItsWay, Fits
<1>9. QED
  BY <1>1, <1>2, <1>4, <1>7, <1>8, OnlyOne

\* A handler that moves on without a capture beginning or ending.
LEMMA PhaseSettles ==
  ASSUME HostTypes, OneByOne, NEW c \in DOMAIN call,
         \/ /\ call[c].phase = "video" /\ Phase(c, "audio")
            /\ video' = call[c].next /\ UNCHANGED audio
         \/ /\ call[c].phase = "audio" /\ Phase(c, "finish")
            /\ audio' = IF call[c].settings.audio THEN call[c].next ELSE NoStream
            /\ UNCHANGED video
         \/ /\ call[c].phase = "list" /\ Phase(c, "done")
            /\ UNCHANGED <<video, audio>>,
         UNCHANGED <<stream, local, current, settings>>
  PROVE  OneByOne'
<1>1. PICK p \in Phases : Phase(c, p) /\ p \in {"audio", "finish", "done"}
                          /\ (p = "audio" => call[c].phase = "video")
                          /\ (p = "finish" => call[c].phase = "audio")
                          /\ (p = "done" => call[c].phase = "list")
                          /\ (p = "audio" => video' = call[c].next)
                          /\ (p = "finish" => video' = video)
                          /\ (p = "finish" => audio' = IF call[c].settings.audio
                                                       THEN call[c].next ELSE NoStream)
                          /\ (p = "done" => video' = video /\ audio' = audio)
  BY DEF Phases
<1>2. Active(c) /\ OnItsWay(c)
  BY <1>1 DEF Active, OneByOne
<1>3. /\ DOMAIN call' = DOMAIN call
      /\ call'[c].phase = p
      /\ \A d \in DOMAIN call : d # c => call'[d] = call[d]
      /\ call'[c].next = call[c].next /\ call'[c].previous = call[c].previous
      /\ call'[c].source = call[c].source /\ call'[c].settings = call[c].settings
  BY <1>1, PhaseFacts
<1>4. Live' = Live /\ (\A s : Fits(s)' <=> Fits(s)) /\ \A s : AudioOf(s)' = AudioOf(s)
  BY DEF Live, Fits, AudioOf
<1>5. CASE p = "done"
  <2>1. Settled'
    BY <1>1, <1>2, <1>4, <1>5 DEF OnItsWay, Settled
  <2>2. QED
    BY <1>2, <1>3, <1>5, <2>1, OnlyOne DEF Active
<1>6. CASE p # "done"
  <2>1. Active(c)' /\ \A d \in DOMAIN call' : Active(d)' => d = c
    BY <1>2, <1>3, <1>6 DEF Active, OnItsWay
  <2>2. /\ call[c].source = current /\ call[c].settings = settings
        /\ call[c].previous = local
        /\ Live = {local, call[c].next} /\ call[c].next # local /\ Fits(call[c].next)
        /\ call[c].phase = "audio" => video = call[c].next
    BY <1>1, <1>2, <1>6 DEF OnItsWay
  <2>3. OnItsWay(c)'
    BY <1>1, <1>3, <1>4, <1>6, <2>1, <2>2 DEF OnItsWay, AudioOf
  <2>4. QED
    BY <1>2, <1>3, <2>1, <2>3, OnlyOne
<1>7. QED
  BY <1>5, <1>6

\* The old capture stops, and the new one is left.
LEMMA StopSettles ==
  ASSUME CaptureInv, OneByOne, NEW c \in DOMAIN call, StopPrevious(c)
  PROVE  OneByOne'
<1> DEFINE next == call[c].next
<1>1. HostTypes /\ call[c].phase = "finish" /\ Active(c) /\ OnItsWay(c)
  BY DEF CaptureInv, StopPrevious, Active, OneByOne
<1>2. next \in DOMAIN stream
  BY <1>1 DEF CaptureInv, OwnCaptures, HostTypes
<1>3. /\ call[c].previous = local /\ Live = {local, next} /\ next # local
      /\ Fits(next) /\ video = next /\ audio = AudioOf(next)
      /\ \A d \in DOMAIN call : Active(d) => d = c
  BY <1>1 DEF OnItsWay
<1>4. /\ DOMAIN stream' = DOMAIN stream
      /\ \A s \in DOMAIN stream :
            /\ stream'[s].source = stream[s].source
            /\ s # local => stream'[s] = stream[s]
      /\ Phase(c, "list") /\ local' = next
      /\ UNCHANGED <<video, audio, current, settings>>
  BY <1>1, <1>2, <1>3, StopFacts DEF StopPrevious
<1>5. ~stream'[local].live
  <2>1. local \in DOMAIN stream /\ stream[local] \in Captures
    BY <1>1 DEF HostTypes
  <2>2. stream' = [stream EXCEPT ![local] = [stream[local] EXCEPT !.live = FALSE]]
    BY <1>3 DEF StopPrevious
  <2>3. stream'[local] = [stream[local] EXCEPT !.live = FALSE]
    BY <2>1, <2>2 DEF HostTypes, CaptureInv
  <2>4. QED
    BY <2>1, <2>3 DEF Captures
<1> HIDE DEF next
<1>6. Live' = {local'}
  BY <1>2, <1>3, <1>4, <1>5 DEF Live
<1>7. Settled'
  BY <1>2, <1>3, <1>4, <1>6 DEF Settled, Fits, AudioOf
<1>8. /\ DOMAIN call' = DOMAIN call /\ call'[c].phase = "list"
      /\ \A d \in DOMAIN call : d # c => call'[d] = call[d]
  BY <1>1, <1>4, PhaseFacts DEF Phases
<1>9. Active(c)' /\ OnItsWay(c)'
  BY <1>3, <1>7, <1>8 DEF OnItsWay, Active
<1>10. QED
  BY <1>1, <1>8, <1>9, OnlyOne

LEMMA OneByOneStep ==
  ASSUME CaptureInv, Follows, OneByOne, conditions = {"inTurn"}, [Next]_vars
  PROVE  OneByOne'
<1> DEFINE captures == <<current, settings, call, stream, local, video, audio>>
<1>1. CASE UNCHANGED captures
  BY <1>1 DEF OneByOne, OnItsWay, Settled, Live, Fits, AudioOf, Busy, Active
<1>2. CASE handleHostCommand
  BY <1>2, HandleSettles DEF CaptureInv
<1>3. ASSUME NEW c \in DOMAIN call, GetUserMedia(c) PROVE OneByOne'
  BY <1>3, GetUserMediaSettles
<1>4. ASSUME NEW c \in DOMAIN call PROVE ~CaptureFails(c)
  <2>1. call[c] \in HandlerCalls
    BY DEF CaptureInv, HostTypes
  <2>2. QED
    BY <2>1 DEF HandlerCalls, CaptureFails, Follows
<1>5. ASSUME NEW c \in DOMAIN call, ReplaceVideo(c) \/ ReplaceAudio(c) \/ publishHostState(c)
      PROVE  OneByOne'
  <2>1. UNCHANGED <<stream, local, current, settings>>
    BY <1>5 DEF ReplaceVideo, ReplaceAudio, publishHostState
  <2>2. QED
    BY <1>5, <2>1, PhaseSettles DEF ReplaceVideo, ReplaceAudio, publishHostState, CaptureInv
<1>6. ASSUME NEW c \in DOMAIN call, StopPrevious(c) PROVE OneByOne'
  BY <1>6, StopSettles
<1>7. ASSUME NEW m \in Sources PROVE ~Unplug(m)
  BY DEF Unplug
<1>8. \/ UNCHANGED vars
      \/ \E source \in shownSources : switchRemoteSource(source)
      \/ \E wanted \in Settings : sendHostStreamSettings(wanted)
      \/ HostStateArrives
      => UNCHANGED captures
  BY DEF vars, hostVars, switchRemoteSource, sendHostStreamSettings, HostStateArrives
<1>9. QED
  BY <1>1, <1>2, <1>3, <1>4, <1>5, <1>6, <1>7, <1>8 DEF Next, HostStep

-------------------------------------------------------------------------------
(* The theorems.                                                             *)

LEMMA SettleInit == Init => SettleInv
<1> SUFFICES ASSUME Init PROVE SettleInv
  OBVIOUS
<1> DEFINE first == [source |-> current, settings |-> settings, live |-> TRUE]
<1>1. /\ plugged = Sources /\ call = <<>> /\ stream = <<first>> /\ local = 1 /\ video = 1
      /\ toViewer = <<>> /\ shownSource = current /\ current \in Sources
      /\ audio = AudioOf(1) /\ conditions \subseteq Conditions
  BY DEF Init, AudioOf
<1>2. first.live /\ first.source = current /\ first.settings = settings
  OBVIOUS
<1> HIDE DEF first
<1>3. DOMAIN call = {} /\ DOMAIN toViewer = {} /\ DOMAIN stream = {1} /\ stream[1] = first
  BY <1>1
<1>4. Shown
  BY <1>1, <1>3 DEF Shown, AudioOf
<1>5. Follows
  BY <1>1, <1>3 DEF Follows
<1>6. OneByOne
  BY <1>1, <1>2, <1>3 DEF OneByOne, Settled, Live, Fits
<1>7. QED
  BY <1>4, <1>5, <1>6, InitInv DEF SettleInv

\* Only a capture is sent as sound, and only a monitor is shown.
LEMMA ShownStep ==
  ASSUME CaptureInv, CaptureInv', Shown, [Next]_vars
  PROVE  Shown'
<1>1. conditions' = conditions
  BY DEF Next, vars
<1>2. DOMAIN stream \subseteq DOMAIN stream'
  <2>1. HostTypes
    BY DEF CaptureInv
  <2>2. ASSUME NEW c \in DOMAIN call, StopPrevious(c)
        PROVE  DOMAIN stream' = DOMAIN stream
    BY <2>2 DEF StopPrevious
  <2>3. ASSUME NEW c \in DOMAIN call, GetUserMedia(c)
        PROVE  DOMAIN stream \subseteq DOMAIN stream'
    BY <2>1, <2>3, GetUserMediaFacts DEF HostTypes
  <2>4. ASSUME NEW m \in Sources, Unplug(m)
        PROVE  DOMAIN stream' = DOMAIN stream
    BY <2>4 DEF Unplug
  <2>5. QED
    BY <2>2, <2>3, <2>4 DEF Next, HostStep, vars, hostVars, switchRemoteSource,
       sendHostStreamSettings, HostStateArrives, handleHostCommand, CaptureFails,
       ReplaceVideo, ReplaceAudio, publishHostState
<1>3. audio' \in DOMAIN stream' \cup {NoStream}
  <2>1. ASSUME NEW c \in DOMAIN call, ReplaceAudio(c)
        PROVE  audio' \in DOMAIN stream \cup {NoStream}
    <3>1. call[c].next \in 2 .. Len(stream)
      BY <2>1 DEF ReplaceAudio, CaptureInv, OwnCaptures
    <3>2. call[c].next \in DOMAIN stream
      BY <3>1 DEF CaptureInv, HostTypes
    <3>3. QED
      BY <2>1, <3>2 DEF ReplaceAudio
  <2>2. \/ audio' = audio
        \/ \E c \in DOMAIN call : ReplaceAudio(c)
    BY DEF Next, HostStep, vars, hostVars, switchRemoteSource,
       sendHostStreamSettings, HostStateArrives, handleHostCommand, CaptureFails,
       ReplaceVideo, GetUserMedia, StopPrevious, publishHostState, Unplug
  <2>3. QED
    BY <1>2, <2>1, <2>2 DEF Shown
<1>4. shownSource' \in Sources
  <2>1. ASSUME HostStateArrives PROVE shownSource' \in Sources
    <3>1. Head(toViewer) \in HostStates
      BY <2>1, Shortened DEF HostStateArrives, CaptureInv, HostTypes
    <3>2. QED
      BY <2>1, <3>1 DEF HostStateArrives, HostStates, Shown, viewerVars
  <2>2. ASSUME NEW source \in shownSources, switchRemoteSource(source)
        PROVE  shownSource' \in Sources
    BY <2>2 DEF switchRemoteSource, CaptureInv, HostTypes
  <2>3. \/ shownSource' = shownSource
        \/ HostStateArrives
        \/ \E source \in shownSources : switchRemoteSource(source)
    BY DEF Next, HostStep, vars, viewerVars, sendHostStreamSettings, handleHostCommand,
       CaptureFails, ReplaceVideo, ReplaceAudio, GetUserMedia, StopPrevious,
       publishHostState, Unplug
  <2>4. QED
    BY <2>1, <2>2, <2>3 DEF Shown
<1>5. QED
  BY <1>1, <1>3, <1>4 DEF Shown

LEMMA SettleStep == SettleInv /\ [Next]_vars => SettleInv'
<1> SUFFICES ASSUME SettleInv, [Next]_vars PROVE SettleInv'
  OBVIOUS
<1>1. CaptureInv' /\ Shown'
  BY StepInv, ShownStep DEF SettleInv
<1>2. conditions' = conditions /\ (NothingFails' <=> NothingFails)
  BY DEF Next, vars, NothingFails
<1>3. NothingFails => Follows'
  BY <1>1, FollowsStep DEF SettleInv, CaptureInv
<1>4. ASSUME conditions = {"inTurn"} PROVE OneByOne'
  <2>1. NothingFails
    BY <1>4 DEF NothingFails
  <2>2. QED
    BY <1>4, <2>1, OneByOneStep DEF SettleInv
<1>5. QED
  BY <1>1, <1>2, <1>3, <1>4 DEF SettleInv

LEMMA SettleTypes == SettleInv => TypeOK
<1> SUFFICES ASSUME SettleInv PROVE TypeOK
  OBVIOUS
<1>1. HostTypes /\ OwnCaptures /\ LocalIsFinished /\ Shown
  BY DEF SettleInv, CaptureInv
<1>2. DOMAIN stream = 1 .. Len(stream) /\ 1 \in DOMAIN stream
  BY <1>1 DEF HostTypes
<1>3. \A c \in DOMAIN call : call[c].next \in DOMAIN stream \cup {NoStream}
  BY <1>1, <1>2 DEF OwnCaptures, Captured
<1>4. \A c \in DOMAIN call : call[c].previous \in DOMAIN stream
  BY <1>1, <1>2, <1>3 DEF LocalIsFinished, Finished, Captured
<1>5. ASSUME NEW c \in DOMAIN call
      PROVE  call[c] \in [phase : {"capture", "video", "audio", "finish", "list", "done"},
                          source : Sources, settings : Settings,
                          previous : DOMAIN stream, next : DOMAIN stream \cup {NoStream}]
  <2>1. call[c] \in HandlerCalls
    BY <1>1 DEF HostTypes
  <2>2. QED
    BY <2>1, <1>3, <1>4 DEF HandlerCalls, Phases
<1>6. \A s \in DOMAIN stream : stream[s] \in Captures
  BY <1>1 DEF HostTypes
<1>7. QED
  BY <1>1, <1>5, <1>6 DEF TypeOK, HostTypes, Shown, Captures

\* A change of monitor or settings settles (RemoteControlClient.startDesktopCapture):
\* if nothing fails, the viewer knows the active monitor when all is done, though
\* commands overlapped, and if they came in turn one capture runs, the one asked for.
THEOREM ChangesSettle == Spec => []CaptureSettles
<1>1. SettleInv => ViewerKnowsActive \/ ~NothingFails
  BY DEF SettleInv, Follows, ViewerKnowsActive, Quiet
<1>2. SettleInv => OneCapture \/ conditions # {"inTurn"}
  BY DEF SettleInv, OneByOne, OneCapture, Quiet, Settled, Live, Fits, AudioOf
<1>3. SettleInv => CaptureSettles
  BY <1>1, <1>2, SettleTypes DEF CaptureSettles
<1>4. QED
  BY SettleInit, SettleStep, <1>3, PTL DEF Spec

===============================================================================
