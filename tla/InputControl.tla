----------------------------- MODULE InputControl ------------------------------
(***************************************************************************)
(* A viewer's keyboard and mouse on the host.  Out of capture the video     *)
(* element sends what happens over it; in a capture the listeners of an     *)
(* effect send everything and remember what is down.  The host presses and  *)
(* releases what it is told and keeps no record of it.                      *)
(***************************************************************************)
EXTENDS Naturals, FiniteSets, SequencesExt

CONSTANTS
    Keys, Buttons,
    Modifiers,  \* stands for Ctrl, Alt and Shift, which the shortcuts share
    Quit,       \* with the modifiers: the disconnect shortcut, when it is a key
    Exit,       \* with the modifiers: the end of a capture
    MaxInFlight \* bound: no input while more messages are under way

KeysAssumption ==
    /\ Modifiers \in Keys
    /\ IsFiniteSet(Keys) /\ IsFiniteSet(Buttons)
MaxInFlightAssumption == MaxInFlight \in Nat \ {0}

VARIABLES
    keys, events,   \* the keys in use and what happens besides, fixed at the start
    held,           \* the keys and buttons the viewer's user holds down
    focused,        \* the viewer's window has the focus
    app,            \* the App component's state
    rendered,       \* that state as of the last render, which handlers see
    lock,           \* the pointer lock of the video element
    pressedKeys, pressedButtons,    \* the refs of RemoteVideo
    open,           \* the control channel
    wire,           \* the messages that the host has not applied
    nut,            \* the host has loaded its input library
    hostKeys, hostButtons,  \* what is down on the host
    loose           \* keys whose keyDown was sent out of a capture

viewerVars == <<held, focused, app, rendered, lock, pressedKeys, pressedButtons>>
hostVars == <<nut, hostKeys, hostButtons>>
vars == <<keys, events, viewerVars, open, wire, hostVars, loose>>

\* The disconnect shortcut, a connection that is lost, renders for statistics,
\* and a window that loses the focus.
Events == {"quit", "drop", "stats", "blur"}

Inputs == Keys \cup Buttons
State == [connected : BOOLEAN, control : BOOLEAN, capture : BOOLEAN]
Messages == [type : {"keyDown", "keyUp"}, of : Keys]
            \cup [type : {"mouseDown", "mouseUp"}, of : Buttons]

Init ==
    /\ keys \in SUBSET Keys /\ events \in SUBSET Events
    /\ held = {} /\ focused = TRUE
    /\ app = [connected |-> TRUE, control |-> TRUE, capture |-> FALSE]
    /\ rendered = app
    /\ lock = "none"
    /\ pressedKeys = {} /\ pressedButtons = {}
    /\ open = TRUE /\ wire = <<>>
    /\ nut = FALSE /\ hostKeys = {} /\ hostButtons = {}
    /\ loose = {}

\* The effect with the capture listeners is in place.
captured == rendered.connected /\ rendered.control /\ rendered.capture
\* The handlers of the video element send.
pointing == rendered.connected /\ rendered.control /\ ~rendered.capture

isInputCaptureExitShortcut(key) == key = Exit /\ Modifiers \in held
isKeyboardShortcut(key) == key = Quit /\ Modifiers \in held

\* The character, and with it the identity, of a key depends on Shift.
getKeyIdentity(key) == <<key, key # Modifiers /\ Modifiers \in held>>

keyEvent(type, key) == [type |-> type, of |-> key]

keyUps(pressed) == SetToSeq({keyEvent("keyUp", k[1]) : k \in pressed})
mouseUps(buttons) == SetToSeq({[type |-> "mouseUp", of |-> b] : b \in buttons})

\* A handler's closure has the state it was rendered with; the channel is the
\* one of now.
sendControl(allowed, messages) ==
    wire' = IF allowed /\ open THEN wire \o messages ELSE wire

HasRoom == Len(wire) < MaxInFlight

-------------------------------------------------------------------------------
\* Keyboard

CapturedKeyDown(key) ==
    /\ captured
    /\ ~isInputCaptureExitShortcut(key)
    /\ pressedKeys' = pressedKeys \cup {getKeyIdentity(key)}
    /\ sendControl(rendered.control, <<keyEvent("keyDown", key)>>)
    /\ UNCHANGED <<app, lock, pressedButtons, open, loose>>

ExitCapture(key) ==
    /\ captured
    /\ isInputCaptureExitShortcut(key)
    /\ pressedKeys' = {}
    /\ sendControl(rendered.control, keyUps(pressedKeys))
    /\ loose' = IF open THEN loose \ {k[1] : k \in pressedKeys} ELSE loose
    /\ app' = [app EXCEPT !.capture = FALSE]
    /\ UNCHANGED <<lock, pressedButtons, open>>

VideoKeyDown(key) ==
    /\ pointing
    /\ sendControl(rendered.control, <<keyEvent("keyDown", key)>>)
    /\ loose' = IF open THEN loose \cup {key} ELSE loose
    /\ UNCHANGED <<app, lock, pressedKeys, pressedButtons, open>>

\* The window's own listener disconnects.  That of a capture, which is on the
\* same window, still runs, before it or after it.
DisconnectShortcut(key) ==
    /\ rendered.connected /\ "quit" \in events
    /\ isKeyboardShortcut(key)
    /\ app' = [app EXCEPT !.connected = FALSE, !.control = FALSE]
    /\ open' = FALSE
    /\ pressedKeys' = IF captured THEN pressedKeys \cup {getKeyIdentity(key)}
                      ELSE pressedKeys
    /\ \/ captured /\ sendControl(TRUE, <<keyEvent("keyDown", key)>>)
       \/ UNCHANGED wire
    /\ UNCHANGED <<lock, pressedButtons, loose>>

IgnoredKeyDown ==
    /\ ~captured /\ ~pointing
    /\ UNCHANGED <<app, lock, pressedKeys, pressedButtons, open, wire, loose>>

PressKey(key) ==
    /\ focused /\ key \notin held /\ HasRoom
    /\ held' = held \cup {key}
    /\ \/ ExitCapture(key)
       \/ ~(isKeyboardShortcut(key) /\ rendered.connected)
            /\ (CapturedKeyDown(key) \/ VideoKeyDown(key) \/ IgnoredKeyDown)
       \/ DisconnectShortcut(key)
    /\ UNCHANGED <<focused, rendered, hostVars>>

CapturedKeyUp(key) ==
    /\ captured
    /\ \/ /\ isInputCaptureExitShortcut(key)
          /\ UNCHANGED <<pressedKeys, wire, loose>>
       \/ /\ ~isInputCaptureExitShortcut(key)
          /\ pressedKeys' = pressedKeys \ {getKeyIdentity(key)}
          /\ sendControl(rendered.control, <<keyEvent("keyUp", key)>>)
          /\ loose' = IF open THEN loose \ {key} ELSE loose

VideoKeyUp(key) ==
    /\ ~captured
    /\ sendControl(pointing, <<keyEvent("keyUp", key)>>)
    /\ loose' = IF pointing /\ open THEN loose \ {key} ELSE loose
    /\ UNCHANGED pressedKeys

ReleaseKey(key) ==
    /\ focused /\ key \in held /\ HasRoom
    /\ held' = held \ {key}
    /\ CapturedKeyUp(key) \/ VideoKeyUp(key)
    /\ UNCHANGED <<focused, app, rendered, lock, pressedButtons, open, hostVars>>

-------------------------------------------------------------------------------
\* Mouse

\* Without the lock the first click asks for it again.
CapturedMouseDown(button) ==
    /\ captured
    /\ IF lock \in {"locked", "exiting"}
       THEN /\ pressedButtons' = pressedButtons \cup {button}
            /\ sendControl(rendered.control, <<keyEvent("mouseDown", button)>>)
            /\ UNCHANGED lock
       ELSE /\ lock' = "asked"
            /\ UNCHANGED <<pressedButtons, wire>>

VideoPointerDown(button) ==
    /\ pointing
    /\ pressedButtons' = pressedButtons \cup {button}
    /\ sendControl(rendered.control, <<keyEvent("mouseDown", button)>>)
    /\ UNCHANGED lock

PressButton(button) ==
    /\ focused /\ button \notin held /\ HasRoom
    /\ held' = held \cup {button}
    /\ CapturedMouseDown(button) \/ VideoPointerDown(button)
    /\ UNCHANGED <<focused, app, rendered, pressedKeys, open, hostVars, loose>>

CapturedMouseUp(button) ==
    /\ captured
    /\ IF lock \in {"locked", "exiting"}
       THEN /\ pressedButtons' = pressedButtons \ {button}
            /\ sendControl(rendered.control, <<keyEvent("mouseUp", button)>>)
       ELSE UNCHANGED <<pressedButtons, wire>>

\* Only a button that went down over the video is let go.
VideoPointerUp(button) ==
    /\ ~captured
    /\ pressedButtons' = IF pointing THEN pressedButtons \ {button} ELSE pressedButtons
    /\ sendControl(pointing /\ button \in pressedButtons, <<keyEvent("mouseUp", button)>>)

ReleaseButton(button) ==
    /\ button \in held /\ HasRoom
    /\ held' = held \ {button}
    /\ CapturedMouseUp(button) \/ VideoPointerUp(button)
    /\ UNCHANGED <<focused, app, rendered, lock, pressedKeys, open, hostVars, loose>>

-------------------------------------------------------------------------------
\* Settings, renders and the pointer lock

changeControlEnabled(enabled) ==
    /\ app.connected
    /\ app' = [app EXCEPT !.control = enabled, !.capture = enabled /\ @]

changeCaptureLocalInput(enabled) ==
    /\ app.connected
    /\ app' = [app EXCEPT !.capture = enabled, !.control = enabled \/ @]

Toggle ==
    /\ \E enabled \in BOOLEAN :
        changeControlEnabled(enabled) \/ changeCaptureLocalInput(enabled)
    /\ UNCHANGED <<held, focused, rendered, lock, pressedKeys, pressedButtons,
                   open, wire, hostVars, loose>>

\* Connecting again takes control when the settings say so.
connect ==
    /\ ~app.connected /\ ~rendered.connected /\ ~open
    /\ \E control \in BOOLEAN :
        app' = [app EXCEPT !.connected = TRUE, !.control = control \/ app.capture]
    /\ open' = TRUE /\ wire' = <<>>
    /\ UNCHANGED <<held, focused, rendered, lock, pressedKeys, pressedButtons,
                   hostVars, loose>>

\* What the effect's cleanup and a lost lock send.
releasePressed(allowed) ==
    /\ pressedKeys' = {} /\ pressedButtons' = {}
    /\ sendControl(allowed, keyUps(pressedKeys) \o mouseUps(pressedButtons))
    /\ loose' = IF allowed /\ open THEN loose \ {k[1] : k \in pressedKeys} ELSE loose

\* Mutant: the cleanup asks whether control is on now.
CleanupAsksNow ==
    IF captured THEN releasePressed(app.control)
    ELSE UNCHANGED <<pressedKeys, pressedButtons, wire, loose>>

\* The closure that the effect was made with still sends.
Cleanup ==
    IF captured THEN releasePressed(rendered.control)
    ELSE UNCHANGED <<pressedKeys, pressedButtons, wire, loose>>

requestLock(current) == IF current = "none" THEN "asked" ELSE current
exitPointerLock(current) == IF current = "locked" THEN "exiting" ELSE current

\* exitPointerLock takes effect later; until then requestLock does nothing.
Render ==
    /\ rendered # app \/ "stats" \in events
    /\ rendered' = app
    /\ Cleanup
    /\ LET exited == IF captured THEN exitPointerLock(lock) ELSE lock
       IN  lock' = IF captured' THEN requestLock(exited) ELSE exited
    /\ UNCHANGED <<held, focused, app, open, hostVars>>

LockAnswered ==
    /\ lock = "asked"
    /\ lock' = "locked" \/ lock' = "none"
    /\ UNCHANGED <<held, focused, app, rendered, pressedKeys, pressedButtons,
                   open, wire, hostVars, loose>>

\* pointerlockchange: the browser, the user or exitPointerLock ended the lock.
LockEnds ==
    /\ lock \in {"locked", "exiting"}
    /\ lock' = "none"
    /\ IF captured
       THEN releasePressed(rendered.control) /\ app' = [app EXCEPT !.capture = FALSE]
       ELSE UNCHANGED <<app, pressedKeys, pressedButtons, wire, loose>>
    /\ UNCHANGED <<held, focused, rendered, open, hostVars>>

\* Keys that are let go while another window has the focus send nothing.
Blur ==
    /\ "blur" \in events /\ focused
    /\ focused' = FALSE
    /\ UNCHANGED <<held, app, rendered, lock, pressedKeys, pressedButtons,
                   open, wire, hostVars, loose>>

Focus ==
    /\ ~focused
    /\ focused' = TRUE
    /\ \E still \in SUBSET held : held' = still
    /\ UNCHANGED <<app, rendered, lock, pressedKeys, pressedButtons,
                   open, wire, hostVars, loose>>

-------------------------------------------------------------------------------
\* The channel and the host

\* The connection is lost and made again, or lost with what it carried.
ChannelDrops ==
    /\ "drop" \in events \/ ~app.connected
    /\ open \/ wire # <<>>
    /\ open' = FALSE /\ wire' = <<>>
    /\ UNCHANGED <<viewerVars, hostVars, loose>>

ChannelReopens ==
    /\ app.connected /\ ~open
    /\ open' = TRUE
    /\ UNCHANGED <<viewerVars, wire, hostVars, loose>>

loadNut ==
    /\ ~nut /\ wire # <<>>
    /\ nut' = TRUE
    /\ UNCHANGED <<viewerVars, open, wire, hostKeys, hostButtons, loose>>

\* Every message that waits for the library fails with it; the next one tries
\* again.
LoadFails ==
    /\ ~nut /\ wire # <<>>
    /\ wire' = <<>>
    /\ UNCHANGED <<viewerVars, open, hostVars, loose>>

applyKeyboardEvent(event) ==
    /\ hostKeys' = IF event.type = "keyDown" THEN hostKeys \cup {event.of}
                   ELSE hostKeys \ {event.of}
    /\ UNCHANGED hostButtons

applyPointerEvent(event) ==
    /\ hostButtons' = IF event.type = "mouseDown" THEN hostButtons \cup {event.of}
                      ELSE hostButtons \ {event.of}
    /\ UNCHANGED hostKeys

applyHostControl(message) ==
    IF message.type \in {"keyDown", "keyUp"} THEN applyKeyboardEvent(message)
    ELSE applyPointerEvent(message)

Deliver ==
    /\ nut /\ wire # <<>>
    /\ wire' = Tail(wire)
    /\ applyHostControl(Head(wire))
    /\ UNCHANGED <<viewerVars, open, nut, loose>>

Step ==
    \/ \E key \in keys : PressKey(key) \/ ReleaseKey(key)
    \/ \E button \in Buttons : PressButton(button) \/ ReleaseButton(button)
    \/ Toggle \/ connect \/ Render
    \/ LockAnswered \/ LockEnds \/ Blur \/ Focus
    \/ ChannelDrops \/ ChannelReopens \/ loadNut \/ LoadFails \/ Deliver

Next == Step /\ UNCHANGED <<keys, events>>

Spec == Init /\ [][Next]_vars

-------------------------------------------------------------------------------

TypeOK ==
    /\ keys \subseteq Keys /\ events \subseteq Events
    /\ held \subseteq Inputs /\ focused \in BOOLEAN
    /\ app \in State /\ rendered \in State
    /\ lock \in {"none", "asked", "locked", "exiting"}
    /\ pressedKeys \subseteq Keys \X BOOLEAN /\ pressedButtons \subseteq Buttons
    /\ open \in BOOLEAN /\ wire \in Seq(Messages) /\ nut \in BOOLEAN
    /\ hostKeys \subseteq Keys /\ hostButtons \subseteq Buttons
    /\ loose \subseteq Keys

\* No key that a capture pressed on the host stays down after the capture has
\* ended and its messages have arrived.
KeysLetGo == ~captured /\ open /\ wire = <<>> => hostKeys \subseteq loose

\* A button that is down on the host is one that the viewer will let go.
ButtonsLetGo == open /\ wire = <<>> => hostButtons \subseteq pressedButtons

\* A viewer that is connected and captures its input has control, also when
\* it disconnected in the middle of a capture and connected again.
CaptureTakesControl == app.connected /\ app.capture => app.control

\* Once a viewer has disconnected and its messages have arrived, it holds no
\* key down on the host.
KeysLetGoAfterDisconnect ==
    ~app.connected /\ ~rendered.connected /\ wire = <<>> => hostKeys = {}

\* Rendering, which happens every second, does not end a capture: a lock that
\* the code itself gives up is not taken for the user's wish to leave.
CaptureSurvivesRender ==
    [][lock = "exiting" /\ lock' = "none" => app'.capture = app.capture]_vars

===============================================================================
