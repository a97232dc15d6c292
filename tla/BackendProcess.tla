---------------------------- MODULE BackendProcess ----------------------------
(***************************************************************************)
(* The desktop app of a host: its main process looks for a free port, runs  *)
(* the signaling server as a child process on it, and on quitting tells the *)
(* viewers, stops the child and exits.  The child looks for a free port      *)
(* again, from the one it was given, before it listens.                     *)
(***************************************************************************)
EXTENDS Naturals, FiniteSets

CONSTANTS
    FirstPort,      \* REMOTE_CONTROL_BACKEND_PORT, 47315 by default
    LastPort,       \* bound: the ports that exist
    SearchSpan,     \* findAvailablePort of the main process tries so many
    SearchLimit,    \* findAvailablePort of the server tries so many
    MaxShocks,      \* bound: how often another program takes or frees a port
    SlowProbe       \* may the search for a port outlast the grace period?

PortsAssumption ==
    /\ FirstPort \in Nat \ {0} /\ LastPort \in Nat /\ FirstPort <= LastPort
    /\ SearchSpan \in Nat /\ SearchLimit \in Nat \ {0} /\ MaxShocks \in Nat
SlowProbeAssumption == SlowProbe \in BOOLEAN

VARIABLES
    taken,      \* ports that other programs listen on
    shocks,     \* how often that has changed
    start,      \* startEmbeddedBackend: the phase it is in and the port it is at
    backend,    \* what the controller knows: status, port, process, token, log
    child,      \* the child process itself
    quit,       \* the main process on its way out
    window,     \* the main window
    update      \* the dialog of the updater

vars == <<taken, shocks, start, backend, child, quit, window, update>>

Ports == FirstPort .. LastPort
NoPort == 0

TypeOK ==
    /\ taken \subseteq Ports
    /\ shocks \in 0 .. MaxShocks
    /\ start \in [phase : {"idle", "probing", "found", "done", "failed"},
                  port : Nat]
    /\ backend \in [status : {"disabled", "starting", "running", "stopped", "error"},
                    port : Ports \cup {NoPort},
                    process : BOOLEAN, token : BOOLEAN, log : BOOLEAN]
    /\ child \in [state : {"none", "booting", "binding", "listening", "dead"},
                  port : Ports \cup {NoPort},
                  exitSeen : BOOLEAN]
    /\ quit \in [quitting : BOOLEAN, notified : BOOLEAN, grace : BOOLEAN,
                 closing : BOOLEAN, exited : BOOLEAN]
    /\ window \in {"shown", "hidden", "closed"}
    /\ update \in {"none", "asked", "later", "installing"}

Init ==
    /\ taken \in SUBSET Ports
    /\ shocks = 0
    /\ start = [phase |-> "idle", port |-> FirstPort]
    /\ backend = [status |-> "disabled", port |-> NoPort,
                  process |-> FALSE, token |-> FALSE, log |-> FALSE]
    /\ child = [state |-> "none", port |-> NoPort, exitSeen |-> FALSE]
    /\ quit = [quitting |-> FALSE, notified |-> FALSE, grace |-> FALSE,
               closing |-> FALSE, exited |-> FALSE]
    /\ window = "shown"
    /\ update = "none"

Alive == child.state \in {"booting", "binding", "listening"}
Running == ~quit.exited

-------------------------------------------------------------------------------
(* Other programs.                                                          *)

OthersChange ==
    /\ shocks < MaxShocks
    /\ \E p \in Ports :
        /\ ~(child.state = "listening" /\ child.port = p)
        /\ taken' = IF p \in taken THEN taken \ {p} ELSE taken \cup {p}
    /\ shocks' = shocks + 1
    /\ UNCHANGED <<start, backend, child, quit, window, update>>

-------------------------------------------------------------------------------
(* Starting the child.                                                      *)

StartEmbeddedBackend ==
    /\ Running /\ start.phase = "idle"
    /\ start' = [start EXCEPT !.phase = "probing"]
    /\ UNCHANGED <<taken, shocks, backend, child, quit, window, update>>

\* One isPortAvailable, from listen to its callback.
FindAvailablePort ==
    /\ Running /\ start.phase = "probing"
    /\ start' =
        CASE start.port >= FirstPort + SearchSpan -> [start EXCEPT !.phase = "failed"]
          [] start.port < FirstPort + SearchSpan /\ start.port \in Ports \ taken ->
                [start EXCEPT !.phase = "found"]
          [] OTHER -> [start EXCEPT !.port = @ + 1]
    /\ UNCHANGED <<taken, shocks, backend, child, quit, window, update>>

Spawn ==
    /\ Running /\ start.phase = "found"
    /\ start' = [start EXCEPT !.phase = "done"]
    /\ child' = [child EXCEPT !.state = "booting"]
    /\ backend' = [status |-> "starting", port |-> start.port,
                   process |-> TRUE, token |-> TRUE, log |-> TRUE]
    /\ UNCHANGED <<taken, shocks, quit, window, update>>

SpawnSeen ==
    /\ Running /\ backend.status = "starting" /\ Alive
    /\ backend' = [backend EXCEPT !.status = "running"]
    /\ UNCHANGED <<taken, shocks, start, child, quit, window, update>>

Released == [backend EXCEPT !.process = FALSE, !.token = FALSE, !.log = FALSE]

\* The executable cannot be started: there is an error and no exit.
SpawnFails ==
    /\ Running /\ backend.status = "starting" /\ child.state = "booting"
    /\ child' = [child EXCEPT !.state = "dead", !.exitSeen = TRUE]
    /\ backend' = [Released EXCEPT !.status = "error"]
    /\ UNCHANGED <<taken, shocks, start, quit, window, update>>

\* Mutant: the exit of the child only changes the status.
ExitSeenOnly ==
    /\ Running /\ child.state = "dead" /\ ~child.exitSeen
    /\ child' = [child EXCEPT !.exitSeen = TRUE]
    /\ backend' = [backend EXCEPT !.status = "stopped"]
    /\ UNCHANGED <<taken, shocks, start, quit, window, update>>

ExitSeen ==
    /\ Running /\ child.state = "dead" /\ ~child.exitSeen
    /\ child' = [child EXCEPT !.exitSeen = TRUE]
    /\ backend' = [Released EXCEPT !.status = "stopped"]
    /\ UNCHANGED <<taken, shocks, start, quit, window, update>>

\* stopEmbeddedBackend, as part of an action.
stopEmbeddedBackend ==
    IF backend.process
    THEN /\ backend' = [Released EXCEPT !.status = "stopped"]
         /\ child' = IF Alive THEN [child EXCEPT !.state = "dead"] ELSE child
    ELSE UNCHANGED <<backend, child>>

-------------------------------------------------------------------------------
(* The child: bootstrapServer.                                              *)

ServerPorts == {p \in Ports : backend.port <= p /\ p < backend.port + SearchLimit}

\* The server does its own search, from the port in its environment.
ServerFindsPort ==
    /\ child.state = "booting"
    /\ LET free == ServerPorts \ taken
       IN  child' = IF free = {} THEN [child EXCEPT !.state = "dead"]
                    ELSE [child EXCEPT !.state = "binding",
                                       !.port = CHOOSE p \in free : \A q \in free : p <= q]
    /\ UNCHANGED <<taken, shocks, start, backend, quit, window, update>>

ServerListens ==
    /\ child.state = "binding"
    /\ child' = [child EXCEPT !.state = IF child.port \in taken THEN "dead" ELSE "listening"]
    /\ UNCHANGED <<taken, shocks, start, backend, quit, window, update>>

ChildCrashes ==
    /\ Alive
    /\ child' = [child EXCEPT !.state = "dead"]
    /\ UNCHANGED <<taken, shocks, start, backend, quit, window, update>>

-------------------------------------------------------------------------------
(* Quitting.                                                                *)

\* Closing the window of a host only hides it, unless the app is quitting.
CloseWindow ==
    /\ Running /\ window # "closed"
    /\ window' = IF quit.quitting THEN "closed" ELSE "hidden"
    /\ UNCHANGED <<taken, shocks, start, backend, child, quit, update>>

ShowWindow ==
    /\ Running /\ window = "hidden"
    /\ window' = "shown"
    /\ UNCHANGED <<taken, shocks, start, backend, child, quit, update>>

ProbeIsOver == SlowProbe \/ start.phase \notin {"idle", "probing", "found"}

\* Mutant: before-quit is prevented as long as there is a window.
BeforeQuitAlwaysDelayed ==
    IF window # "closed"
    THEN /\ quit' = [quit EXCEPT !.quitting = TRUE, !.notified = TRUE, !.grace = TRUE]
         /\ UNCHANGED <<backend, child>>
    ELSE /\ ProbeIsOver
         /\ quit' = [quit EXCEPT !.quitting = TRUE, !.grace = FALSE, !.closing = TRUE]
         /\ stopEmbeddedBackend

\* Mutant: the app that quits stops its backend at once.
BeforeQuitAtOnce ==
    /\ ProbeIsOver
    /\ quit' = [quit EXCEPT !.quitting = TRUE, !.grace = FALSE, !.closing = TRUE]
    /\ stopEmbeddedBackend

\* The window must still be there to be told.
shouldDelayQuitForHostShutdown == ~quit.notified /\ window # "closed"

\* The first time the viewers are told and the quit is put off for the grace
\* period; the timer stops the backend and quits again.
BeforeQuit ==
    IF shouldDelayQuitForHostShutdown
    THEN /\ quit' = [quit EXCEPT !.quitting = TRUE, !.notified = TRUE, !.grace = TRUE]
         /\ UNCHANGED <<backend, child>>
    ELSE /\ ProbeIsOver
         /\ quit' = [quit EXCEPT !.quitting = TRUE, !.grace = FALSE, !.closing = TRUE]
         /\ stopEmbeddedBackend

\* From the tray, or by the system.
Quit ==
    /\ Running /\ ~quit.closing
    /\ BeforeQuit
    /\ UNCHANGED <<taken, shocks, start, window, update>>

GraceEnds ==
    /\ Running /\ quit.grace
    /\ BeforeQuit
    /\ UNCHANGED <<taken, shocks, start, window, update>>

\* app.quit() closes the windows, then the process ends.
WindowsClose ==
    /\ Running /\ quit.closing /\ window # "closed"
    /\ window' = "closed"
    /\ UNCHANGED <<taken, shocks, start, backend, child, quit, update>>

\* window-all-closed: the user closed the window while the app was quitting.
WindowAllClosed ==
    /\ Running /\ window = "closed" /\ ~quit.closing
    /\ BeforeQuit
    /\ UNCHANGED <<taken, shocks, start, window, update>>

Exit ==
    /\ Running /\ quit.closing /\ window = "closed"
    /\ quit' = [quit EXCEPT !.exited = TRUE]
    /\ UNCHANGED <<taken, shocks, start, backend, child, window, update>>

UpdateDownloaded ==
    /\ Running /\ update = "none"
    /\ update' = "asked"
    /\ UNCHANGED <<taken, shocks, start, backend, child, quit, window>>

\* "Restart now" quits like the tray does; "Later" waits for the next quit.
UpdateAnswered ==
    /\ Running /\ update = "asked"
    /\ \/ update' = "later" /\ UNCHANGED <<quit, backend, child>>
       \/ update' = "installing" /\ ~quit.closing /\ BeforeQuit
    /\ UNCHANGED <<taken, shocks, start, window>>

-------------------------------------------------------------------------------

StartStep == StartEmbeddedBackend \/ FindAvailablePort \/ Spawn
ChildStep == ServerFindsPort \/ ServerListens \/ ChildCrashes
ControllerStep == SpawnSeen \/ SpawnFails \/ ExitSeen
QuitStep == GraceEnds \/ WindowsClose \/ WindowAllClosed \/ Exit

Next ==
    \/ OthersChange \/ StartStep \/ ChildStep \/ ControllerStep
    \/ Quit \/ QuitStep \/ CloseWindow \/ ShowWindow
    \/ UpdateDownloaded \/ UpdateAnswered

Spec == Init /\ [][Next]_vars

\* The event loop of the main process: its own steps and timers run.
FairSpec == Spec /\ WF_vars(StartStep) /\ WF_vars(QuitStep)

-------------------------------------------------------------------------------
(* What the desktop app of a host promises about its child process.         *)

\* What the controller keeps for a child, its settings token and its log, it
\* keeps exactly while it holds the process, and it says "starting" or
\* "running" exactly then, whichever of spawn, error, exit and stop came first.
ControllerAgrees ==
    /\ TypeOK
    /\ backend.token = backend.process
    /\ backend.log = backend.process
    /\ backend.process <=> backend.status \in {"starting", "running"}
    /\ Alive => backend.process

\* No child survives the app: whatever was started is dead when it has exited.
NoOrphan == quit.exited => ~Alive

\* A host that quits does not take the server away before it has told the
\* window to announce the shutdown, unless there is no window left.
ShutdownAnnounced ==
    [][backend.process /\ ~backend'.process /\ ~child.exitSeen /\ ~child'.exitSeen
        => quit.notified \/ window = "closed"]_vars

\* Once the app is told to quit it exits: the quit is put off once, not again.
QuitEnds == quit.quitting ~> quit.exited

\* As long as no other program takes or frees a port, the server listens where the
\* app says it does: both searches for a port end at the same one.
AdvertisedIsServed ==
    shocks = 0 /\ child.state = "listening" => child.port = backend.port

-------------------------------------------------------------------------------
\* What keeps the controller, the search for a port and the way out together: the
\* inductive invariant behind the three invariants above.

\* There is a child only after the search has found its port.
SpawnedFromSearch ==
    /\ start.phase # "done" => ~backend.process /\ child.state = "none"
    /\ start.phase \in {"found", "done"} => start.port \in Ports
    /\ start.phase = "done" => backend.port = start.port

\* While nobody else moves, the port that was found free stays free.
FoundIsFree ==
    shocks = 0 =>
        /\ start.phase \in {"found", "done"} => start.port \notin taken
        /\ child.state \in {"binding", "listening"} => child.port = backend.port

\* Whoever is past the last before-quit holds no child and starts none.
ClosingHasStopped ==
    /\ quit.closing => ProbeIsOver /\ ~backend.process
    /\ quit.exited => quit.closing

ChildInv == ControllerAgrees /\ SpawnedFromSearch /\ FoundIsFree /\ ClosingHasStopped

===============================================================================
