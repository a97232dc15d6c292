------------------------------- MODULE ViewerApp --------------------------------
(***************************************************************************)
(* The viewer's side of the desktop app: the password dialog, the capture    *)
(* and the choice of input, the settings file, the search for servers and    *)
(* the picker.  No two of these parts share a variable; a step of the app is *)
(* a step of one of them.                                                   *)
(***************************************************************************)
EXTENDS PasswordPrompt

CONSTANTS
    Keys, Buttons, Modifiers, Quit, Exit, MaxInFlight,      \* see InputControl
    Calls, Known, Folders, RecentLimit, On, Off, Unset, Keep,   \* see AppSettings
    Initial,                                    \* see ViewerControl
    Addresses, Announced, AddressOf(_), PortOf(_), UrlOf(_), DefaultPort,
    ProbeList, Concurrency, BindFails,          \* see DiscoveryScan
    Urls, defaultServerUrl, MaxScans            \* see ServerPicker

VARIABLES
    keys, events, held, focused, app, rendered, lock, pressedKeys, pressedButtons,
    open, wire, nut, hostKeys, hostButtons, loose,
    file, op, wanted, atRisk,
    choice, controlEnabled, load, connected, after, unsure, crossed,
    listening, responses, attempt, socket, timer, servers, udp, index, probing,
    httpServers, probed, heard, result,
    serverUrl, connectedTo, scan, discoveredServers, scans, entered, raced

promptVars == vars
inputVars == <<keys, events, held, focused, app, rendered, lock, pressedKeys,
               pressedButtons, open, wire, nut, hostKeys, hostButtons, loose>>
controlVars == <<file, op, wanted, atRisk,
                 choice, controlEnabled, load, connected, after, unsure, crossed>>
scanVars == <<listening, responses, attempt, socket, timer, servers, udp, index,
              probing, httpServers, probed, heard, result>>
pickerVars == <<serverUrl, connectedTo, scan, discoveredServers, scans, entered, raced>>
viewerVars == <<promptVars, inputVars, controlVars, scanVars, pickerVars>>

-------------------------------------------------------------------------------
Input == INSTANCE InputControl

Recent == INSTANCE AppSettings WITH Servers <- Known
AsSaved(f, v, old) == Recent!SavedAs(f, v, old)
Control == INSTANCE ViewerControl WITH
    Fields <- Recent!AppFields, Inputs <- Recent!AppInputs, Stored <- Recent!AppStored,
    NewValue <- AsSaved

Scan == INSTANCE DiscoveryScan WITH
    Servers <- Announced, ServerAddress <- AddressOf, Port <- PortOf, Url <- UrlOf

Picker == INSTANCE ServerPicker

ASSUME ViewerAppAssumption ==
    /\ Input!KeysAssumption /\ Input!MaxInFlightAssumption
    /\ Recent!AppSettingsAssumption /\ Control!ViewerControlAssumption
    /\ Scan!DiscoveryAssumption
    /\ Picker!ServerPickerAssumption

-------------------------------------------------------------------------------

ViewerInit ==
    Init /\ Input!Init /\ Control!Init /\ Scan!Init /\ Picker!Init

PromptMoves ==
    Next /\ UNCHANGED <<inputVars, controlVars, scanVars, pickerVars>>
InputMoves ==
    Input!Next /\ UNCHANGED <<promptVars, controlVars, scanVars, pickerVars>>
ControlMoves ==
    Control!Next /\ UNCHANGED <<promptVars, inputVars, scanVars, pickerVars>>
ScanMoves ==
    Scan!Next /\ UNCHANGED <<promptVars, inputVars, controlVars, pickerVars>>
PickerMoves ==
    Picker!Next /\ UNCHANGED <<promptVars, inputVars, controlVars, scanVars>>

ViewerNext == PromptMoves \/ InputMoves \/ ControlMoves \/ ScanMoves \/ PickerMoves

ViewerSpec == ViewerInit /\ [][ViewerNext]_viewerVars

-------------------------------------------------------------------------------
\* While no connection is lost and no shortcut closes it, the host keeps no key or
\* button of a viewer that let go or stopped capturing, once all messages have
\* arrived (RemoteVideo.tsx releasePressedInputs); and a capture that goes on is
\* sent, across reconnects too (App.tsx).
InputLetGo ==
    /\ Input!TypeOK
    /\ events \cap {"quit", "drop"} = {} => Input!KeysLetGo /\ Input!ButtonsLetGo
    /\ Input!CaptureTakesControl

\* A choice of the user is in the file for the next start once its saving is over,
\* unless a call wrote over the file unseen or failed, or the switch was used again
\* while it was being saved or the app was loading (App.tsx saveViewerSettings,
\* appIpc.ts viewer:update-settings).  What is captured is sent, also after
\* reconnects and restarts, unless a choice crossed connect() on its way or the
\* history could not be written (App.tsx connect).
ChoiceKept == Control!SavedIsChosen /\ Control!CaptureIsSent

\* Updates of settings.json that were reported as done are in it, whatever overlaps,
\* except what a call wrote over that had read the file before another one opened
\* it, as the folder dialog does, or what was being written when a write failed or
\* the app ended; saving a field again brings it back.  The list of recent servers
\* has none twice and no more than fit (appIpc.ts history:add-server).
HistoryKept ==
    /\ Control!UpdatesSurvive
    /\ Recent!DistinctServers(Control!readSettings["recentServers"])

\* A scan probes every address once and lists every server that answered it, each
\* url once; a url that the user entered, other than the default one, is replaced
\* only by a scan that was looking for servers when it was entered, as the scan at
\* the start of the app may (discoveryClient.ts, useServerDiscovery.ts).
ServersFound ==
    /\ Scan!TypeOK /\ Scan!ProbedOnce /\ Scan!AnswerIsListed
    /\ Picker!EnteredUrlStays
===============================================================================
