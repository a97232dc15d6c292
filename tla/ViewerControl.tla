----------------------------- MODULE ViewerControl -----------------------------
(***************************************************************************)
(* The handlers that update settings.json of a viewer, and whether the viewer *)
(* controls the host: what its user has chosen, what is saved for the next    *)
(* start, and whether input is sent now.  Each change is a call to the main   *)
(* process that the renderer does not wait for; connecting goes on when the   *)
(* server has been added to the history, with the choice of the render in     *)
(* which Connect was pressed.  The folder for files is chosen in a dialog     *)
(* that stays open between the read of the file and the write.               *)
(***************************************************************************)
EXTENDS SettingsFile

CONSTANTS
    On, Off,    \* what a switch is set to
    Initial,    \* what the file may hold when the app is installed or updated
    None        \* the call is not one that connecting waits for

Switches == {"takeControl", "captureLocalInput"}

ViewerControlAssumption ==
    /\ Fields = Switches \cup {"recentServers", "saveDirectory"}
    /\ \A s \in Switches : /\ Inputs[s] = {On, Off} /\ Stored[s] = {On, Off}
                          /\ \A v, old \in {On, Off, Unset} : NewValue(s, v, old) = v
    /\ Initial \subseteq Contents
    /\ On # Off /\ None \notin {On, Off}

VARIABLES
    choice,         \* takeControl and captureLocalInput in the renderer
    controlEnabled, \* input is sent
    load,           \* loadViewerSettings: called, read with its value, or done
    connected,
    after,          \* for a call that connecting waits for, whether to send input then
    unsure,         \* the switches that were chosen while they were loaded or saved
                    \* already, or whose saving failed
    crossed         \* the choice changed, or saving failed, while connecting waited

controlVars == <<choice, controlEnabled, load, connected, after, unsure, crossed>>
vars == <<fileVars, controlVars>>

DefaultSettings == [s \in Switches |-> IF s = "takeControl" THEN On ELSE Off]
\* getViewerSettings: what is not in the file has its default.
ViewerSettings(content) ==
    [s \in Switches |-> IF content[s] = Unset THEN DefaultSettings[s] ELSE content[s]]
Controls(settings) == IF \E s \in Switches : settings[s] = On THEN On ELSE Off

NotLoaded == [phase |-> "called", value |-> DefaultSettings]
NotWaiting == [c \in Calls |-> None]
Waiting == {c \in Calls : after[c] # None}

TypeOK ==
    /\ FileTypeOK
    /\ choice \in [Switches -> {On, Off}]
    /\ controlEnabled \in {On, Off}
    /\ load \in [phase : {"called", "read", "done"}, value : [Switches -> {On, Off}]]
    /\ connected \in BOOLEAN
    /\ after \in [Calls -> {On, Off, None}]
    /\ unsure \in SUBSET Switches
    /\ crossed \in BOOLEAN

Init ==
    /\ \E content \in Initial : FileInit(content)
    /\ choice = DefaultSettings /\ controlEnabled = Off
    /\ load = NotLoaded /\ connected = FALSE
    /\ after = NotWaiting /\ unsure = {} /\ crossed = FALSE

-------------------------------------------------------------------------------
\* The user changes switches: the renderer at once, the file when a call is done.

Changes(change) ==
    /\ choice' = [s \in Switches |-> IF s \in DOMAIN change THEN change[s] ELSE choice[s]]
    /\ unsure' = (unsure \ DOMAIN change) \cup
                    {s \in DOMAIN change : Saving(s) # {} \/ load.phase # "done"}
    /\ crossed' = (crossed \/ Waiting # {})

Patch(change) ==
    [f \in Fields |-> IF f \in DOMAIN change THEN change[f] ELSE Keep]

\* Mutant: capturing input does not save that control is taken.
CapturePatchBare(v) == ChangeOf("captureLocalInput", v)

CaptureChange(v) == [s \in IF v = On THEN Switches ELSE {"captureLocalInput"} |-> v]
CapturePatch(v) == Patch(CaptureChange(v))

changeCaptureLocalInput(c, v) ==
    /\ Start(c, CapturePatch(v))
    /\ Changes(CaptureChange(v))
    /\ controlEnabled' = IF v = On THEN On ELSE controlEnabled
    /\ UNCHANGED <<load, connected, after>>

\* The toggle is there in a session only.  Giving up control gives up the capture,
\* with a second call at once.
changeControlEnabled(c, d, v) ==
    /\ connected
    /\ IF v = Off /\ choice["captureLocalInput"] = On
       THEN /\ c # d
            /\ Begin([e \in {c, d} |-> IF e = c THEN ChangeOf("takeControl", Off)
                                       ELSE CapturePatch(Off)])
            /\ Changes([s \in Switches |-> Off])
       ELSE /\ Start(c, ChangeOf("takeControl", v))
            /\ Changes([s \in {"takeControl"} |-> v])
    /\ controlEnabled' = v
    /\ UNCHANGED <<load, connected, after>>

-------------------------------------------------------------------------------
\* The start of the app

\* viewer:get-settings; there is nothing to read while a call has the file open.
LoadReads ==
    /\ load.phase = "called"
    /\ load' = [phase |-> "read", value |-> ViewerSettings(readSettings)]
    /\ unsure' = IF Open = {} THEN unsure ELSE Switches
    /\ UNCHANGED <<fileVars, choice, controlEnabled, connected, after, crossed>>

\* The answer sets the switches, whatever the user did meanwhile.
loadViewerSettings ==
    /\ load.phase = "read" /\ load' = [load EXCEPT !.phase = "done"]
    /\ choice' = load.value
    /\ controlEnabled' = Controls(load.value)
    /\ crossed' = (crossed \/ Waiting # {})
    /\ UNCHANGED <<fileVars, connected, after, unsure>>

Restart ==
    /\ AppRestarts
    /\ choice' = DefaultSettings /\ controlEnabled' = Off
    /\ load' = NotLoaded /\ connected' = FALSE
    /\ after' = NotWaiting /\ unsure' = {} /\ crossed' = FALSE

-------------------------------------------------------------------------------
\* Connecting, and the calls that are under way

\* The client of a viewer is made at once, then the server is added to the history.
connect(c, server) ==
    /\ ~connected /\ connected' = TRUE
    /\ Start(c, ChangeOf("recentServers", server))
    /\ after' = [after EXCEPT ![c] = Controls(choice)]
    /\ crossed' = (crossed /\ Waiting # {})
    /\ UNCHANGED <<choice, controlEnabled, load, unsure>>

disconnect ==
    /\ connected /\ connected' = FALSE
    /\ controlEnabled' = Off
    /\ UNCHANGED <<fileVars, choice, load, after, unsure, crossed>>

\* UpdateFails is also the user who cancels the dialog.
chooseSaveDirectory(c, folder) ==
    /\ Start(c, ChangeOf("saveDirectory", folder))
    /\ UNCHANGED controlVars

UpdateProceeds(c) ==
    /\ ReadFile(c) \/ OpenFile(c)
    /\ UNCHANGED controlVars

\* connect() goes on, also when it has been disconnected meanwhile.
GoesOn(c) ==
    /\ controlEnabled' = IF after[c] = None THEN controlEnabled ELSE after[c]
    /\ UNCHANGED crossed

UpdateEnds(c) ==
    /\ WriteFile(c)
    /\ GoesOn(c)
    /\ after' = [after EXCEPT ![c] = None]
    /\ UNCHANGED <<choice, load, connected, unsure>>

\* A call that throws is reported; connect() does not go on then.  It does after an
\* answer that the url is none for the history.
UpdateRefused(c) ==
    /\ UpdateFails(c)
    /\ unsure' = unsure \cup (Switches \cap Patched(op[c].patch))
    /\ \/ op[c].phase = "begun" /\ after[c] # None /\ GoesOn(c)
       \/ crossed' = (crossed \/ after[c] # None) /\ UNCHANGED controlEnabled
    /\ after' = [after EXCEPT ![c] = None]
    /\ UNCHANGED <<choice, load, connected>>

Next ==
    \/ \E c \in Calls :
        \/ \E v \in {On, Off} :
            \/ changeCaptureLocalInput(c, v)
            \/ \E d \in Calls : changeControlEnabled(c, d, v)
        \/ \E server \in Inputs["recentServers"] : connect(c, server)
        \/ \E folder \in Inputs["saveDirectory"] : chooseSaveDirectory(c, folder)
        \/ UpdateProceeds(c) \/ UpdateEnds(c) \/ UpdateRefused(c)
    \/ LoadReads \/ loadViewerSettings \/ disconnect \/ Restart

Spec == Init /\ [][Next]_vars

-------------------------------------------------------------------------------
\* A choice that is not being saved any more is in the file for the next start, also
\* after several clicks and restarts (App.tsx saveViewerSettings, appIpc.ts
\* viewer:update-settings), unless a call wrote over the file unseen or failed, or
\* the switch was used again while it was being saved or the app was loading.
SavedIsChosen ==
    Open = {} /\ load.phase = "done" =>
        \A s \in Switches \ (unsure \cup atRisk) :
            Saving(s) = {} => ViewerSettings(readSettings)[s] = choice[s]

\* The capture of local input never outlives control: while a viewer captures its
\* keyboard in a session, what is captured is sent, across reconnects, restarts and
\* a load that comes late, unless a choice was changed, or the history was not
\* written, while connect() waited for the history.
CaptureIsSent ==
    connected /\ Waiting = {} /\ choice["captureLocalInput"] = On /\ ~crossed
        => controlEnabled = On

-------------------------------------------------------------------------------
\* The inductive invariant behind both, beside FileInv.

\* What was chosen is what the one call that saves it will save, or what has been
\* reported as saved; before it is loaded, what was read is.
ChoiceKnown ==
    \A s \in Switches \ unsure :
        IF load.phase = "done"
        THEN /\ \A c \in Saving(s) : Saving(s) = {c} /\ op[c].patch[s] = choice[s]
             /\ Saving(s) = {} /\ s \notin atRisk => ViewerSettings(wanted)[s] = choice[s]
        ELSE /\ Saving(s) = {}
             /\ load.phase = "read" /\ s \notin atRisk =>
                    load.value[s] = ViewerSettings(wanted)[s]

\* Unless crossed, connect() goes on with the choice there is.
GoesOnAsChosen == ~crossed => \A c \in Waiting : after[c] = Controls(choice)

ControlInv == TypeOK /\ FileInv /\ ChoiceKnown /\ GoesOnAsChosen /\ CaptureIsSent

=============================================================================
