------------------------------ MODULE HostAppProofs ------------------------------
(***************************************************************************)
(* Proofs about the host's side of the app: the child process, its log, the  *)
(* settings, the encoder and the approval of viewers, each by the inductive  *)
(* invariant of its module.                                                 *)
(***************************************************************************)
EXTENDS HostApp, WellFoundedInduction, TLAPS

\* A step of the app is a step of the part in question or leaves it alone.
LEMMA PartSteps ==
    ASSUME [HostNext]_hostVars
    PROVE  /\ Backend!Next \/ UNCHANGED Backend!vars
           /\ Log!Next \/ UNCHANGED Log!vars
           /\ Settings!Next \/ UNCHANGED Settings!vars
           /\ Encoder!Next \/ UNCHANGED Encoder!vars
    BY DEF HostNext, hostVars, ApprovalMoves, BackendMoves, LogMoves, SettingsMove,
        EncoderMoves, backendVars, logVars, settingsVars, encoderVars, Backend!vars,
        Log!vars, Settings!vars, Settings!hostVars, Settings!fileVars, Encoder!vars

-------------------------------------------------------------------------------
\* The child process

\* Every state of the search comes with a port that exists.
LEMMA ChildInit == Backend!Init => Backend!ChildInv
<1> SUFFICES ASSUME Backend!Init PROVE Backend!ChildInv
    OBVIOUS
<1>1. Backend!PortsAssumption
    BY HostAppAssumption
<1>2. Backend!TypeOK
    BY <1>1 DEF Backend!Init, Backend!TypeOK, Backend!PortsAssumption, Backend!Ports,
        Backend!NoPort
<1>3. Backend!ControllerAgrees
    BY <1>2 DEF Backend!Init, Backend!ControllerAgrees, Backend!Alive
<1>4. Backend!SpawnedFromSearch /\ Backend!FoundIsFree /\ Backend!ClosingHasStopped
    BY DEF Backend!Init, Backend!SpawnedFromSearch, Backend!FoundIsFree,
        Backend!ClosingHasStopped
<1> QED
    BY <1>3, <1>4 DEF Backend!ChildInv

\* Another program takes or frees a port.
LEMMA ChildAndOthers ==
    ASSUME Backend!ChildInv, Backend!OthersChange
    PROVE  Backend!ChildInv'
<1> USE DEF Backend!OthersChange
<1>1. Backend!TypeOK /\ shocks' # 0
    BY DEF Backend!ChildInv, Backend!ControllerAgrees, Backend!TypeOK
<1>2. Backend!TypeOK'
    BY <1>1, HostAppAssumption DEF Backend!TypeOK, Backend!PortsAssumption, Backend!Ports
<1>3. Backend!ControllerAgrees'
    BY <1>2 DEF Backend!ChildInv, Backend!ControllerAgrees, Backend!Alive
<1>4. Backend!SpawnedFromSearch' /\ Backend!FoundIsFree' /\ Backend!ClosingHasStopped'
    BY <1>1 DEF Backend!ChildInv, Backend!SpawnedFromSearch, Backend!FoundIsFree,
        Backend!ClosingHasStopped, Backend!ProbeIsOver, Backend!Ports
<1> QED
    BY <1>3, <1>4 DEF Backend!ChildInv

\* A set of ports that is not empty has a least one.
LEMMA MinimalNumber ==
    ASSUME NEW S, S \subseteq Nat, S # {}, NEW R, IsWellFoundedOn(R, Nat)
    PROVE  \E least \in S : \A q \in S : ~(<<q, least>> \in R)
    BY WFMin, Zenon

LEMMA LeastNumber ==
    ASSUME NEW S, S \subseteq Nat, S # {}, NEW R, IsWellFoundedOn(R, Nat),
           \A p, q \in Nat : p < q => <<p, q>> \in R
    PROVE  \E least \in S : \A q \in S : least <= q
<1>1. PICK least \in S : \A q \in S : ~(<<q, least>> \in R)
    BY MinimalNumber
<1>2. ASSUME NEW q \in S PROVE least <= q
    <2>1. ~(q < least)
        BY <1>1
    <2> QED
        BY <2>1
<1> QED
    BY <1>2

LEMMA LeastPort ==
    ASSUME NEW S \in SUBSET Backend!Ports, S # {}
    PROVE  \E least \in S : \A q \in S : least <= q
<1>1. S \subseteq Nat
    BY HostAppAssumption DEF Backend!Ports, Backend!PortsAssumption
<1>2. \A p, q \in Nat : p < q => <<p, q>> \in OpToRel(<, Nat)
    BY DEF OpToRel
<1> HIDE DEF OpToRel
<1> QED
    BY <1>1, <1>2, NatLessThanWellFounded, LeastNumber

\* The main process looks for a port and starts the child on it.
LEMMA ChildAndStart ==
    ASSUME Backend!ChildInv, Backend!StartStep
    PROVE  Backend!ChildInv'
<1>1. Backend!PortsAssumption
    BY HostAppAssumption
<1>2. Backend!TypeOK
    BY DEF Backend!ChildInv, Backend!ControllerAgrees
<1>3. CASE Backend!StartEmbeddedBackend
    <2>1. Backend!TypeOK'
        BY <1>2, <1>3 DEF Backend!TypeOK, Backend!StartEmbeddedBackend
    <2>2. Backend!ControllerAgrees'
        BY <2>1, <1>3 DEF Backend!StartEmbeddedBackend, Backend!ChildInv,
            Backend!ControllerAgrees, Backend!Alive
    <2> QED
        BY <2>2, <1>2, <1>3 DEF Backend!StartEmbeddedBackend, Backend!ChildInv,
            Backend!SpawnedFromSearch, Backend!FoundIsFree, Backend!ClosingHasStopped,
            Backend!ProbeIsOver, Backend!TypeOK
<1>4. CASE Backend!FindAvailablePort
    <2>1. /\ start' \in [phase : {"probing", "found", "failed"}, port : Nat]
          /\ start'.phase = "found" => start'.port \in Backend!Ports \ taken
        BY <1>1, <1>2, <1>4 DEF Backend!TypeOK, Backend!FindAvailablePort,
            Backend!PortsAssumption, Backend!Ports
    <2>2. Backend!TypeOK'
        BY <1>2, <1>4, <2>1 DEF Backend!TypeOK, Backend!FindAvailablePort
    <2>3. Backend!ControllerAgrees'
        BY <2>2, <1>4 DEF Backend!FindAvailablePort, Backend!ChildInv,
            Backend!ControllerAgrees, Backend!Alive
    <2> QED
        BY <2>1, <2>3, <1>2, <1>4 DEF Backend!FindAvailablePort, Backend!ChildInv,
            Backend!SpawnedFromSearch, Backend!FoundIsFree, Backend!ClosingHasStopped,
            Backend!ProbeIsOver, Backend!TypeOK
<1>5. CASE Backend!Spawn
    <2>1. start.port \in Backend!Ports /\ ~backend.process /\ child.state = "none"
        BY <1>5 DEF Backend!Spawn, Backend!ChildInv, Backend!SpawnedFromSearch
    <2>2. Backend!TypeOK'
        BY <1>2, <1>5, <2>1 DEF Backend!TypeOK, Backend!Spawn
    <2>3. Backend!ControllerAgrees'
        BY <2>2, <1>5 DEF Backend!Spawn, Backend!ControllerAgrees
    <2>4. start.phase = "found" /\ start' = [start EXCEPT !.phase = "done"]
          /\ child' = [child EXCEPT !.state = "booting"] /\ backend'.port = start.port
        BY <1>5 DEF Backend!Spawn
    <2> QED
        BY <2>1, <2>3, <2>4, <1>2, <1>5 DEF Backend!Spawn, Backend!ChildInv,
            Backend!SpawnedFromSearch, Backend!FoundIsFree, Backend!ClosingHasStopped,
            Backend!ProbeIsOver, Backend!TypeOK
<1> QED
    BY <1>3, <1>4, <1>5 DEF Backend!StartStep

\* What the child does by itself; the port it finds is the least that is free from
\* the one it was given, which is that one as long as nobody has taken it.
LEMMA ChildByItself ==
    ASSUME Backend!ChildInv, Backend!ChildStep
    PROVE  Backend!ChildInv'
<1>1. Backend!PortsAssumption
    BY HostAppAssumption
<1>2. Backend!TypeOK
    BY DEF Backend!ChildInv, Backend!ControllerAgrees
<1>3. Backend!Alive
    BY DEF Backend!ChildStep, Backend!ServerFindsPort, Backend!ServerListens,
        Backend!ChildCrashes, Backend!Alive
<1>4. backend.process /\ start.phase = "done" /\ backend.port = start.port
    BY <1>3, <1>2 DEF Backend!ChildInv, Backend!ControllerAgrees, Backend!SpawnedFromSearch,
        Backend!Alive
<1>5. UNCHANGED <<taken, shocks, start, backend, quit, window, update>>
    BY DEF Backend!ChildStep, Backend!ServerFindsPort, Backend!ServerListens,
        Backend!ChildCrashes
<1>6. SUFFICES
        /\ child' \in [state : {"booting", "binding", "listening", "dead"},
                       port : Backend!Ports \cup {Backend!NoPort}, exitSeen : BOOLEAN]
        /\ shocks = 0 /\ child'.state \in {"binding", "listening"} =>
               child'.port = backend.port
    <2>1. Backend!TypeOK'
        BY <1>2, <1>5, <1>6 DEF Backend!TypeOK, Backend!NoPort
    <2>2. Backend!ControllerAgrees'
        BY <2>1, <1>4, <1>5 DEF Backend!ChildInv, Backend!ControllerAgrees
    <2> QED
        BY <2>2, <1>4, <1>5, <1>6 DEF Backend!ChildInv, Backend!SpawnedFromSearch,
            Backend!FoundIsFree, Backend!ClosingHasStopped, Backend!ProbeIsOver
<1>7. CASE Backend!ServerFindsPort
    <2> DEFINE free == Backend!ServerPorts \ taken
    <2>1. free \subseteq Backend!Ports
        BY DEF Backend!ServerPorts
    <2>2. CASE free = {}
        BY <1>2, <1>7, <2>2 DEF Backend!ServerFindsPort, Backend!TypeOK
    <2>3. CASE free # {}
        <3>1. PICK least \in free : \A q \in free : least <= q
            BY <2>1, <2>3, LeastPort
        <3>2. \A x \in free : (\A q \in free : x <= q) => x = least
            BY <3>1, <2>1, <1>1 DEF Backend!Ports, Backend!PortsAssumption
        <3>3. least = CHOOSE x \in free : \A q \in free : x <= q
            BY <3>1, <3>2
        <3>4. child' = [child EXCEPT !.state = "binding", !.port = least]
            BY <1>7, <2>3, <3>3 DEF Backend!ServerFindsPort
        <3>5. shocks = 0 => backend.port \in free
            BY <1>1, <1>4 DEF Backend!ChildInv, Backend!SpawnedFromSearch,
                Backend!FoundIsFree, Backend!ServerPorts, Backend!Ports,
                Backend!PortsAssumption
        <3>6. shocks = 0 => least = backend.port
            BY <3>1, <3>5, <2>1, <1>1 DEF Backend!ServerPorts, Backend!Ports,
                Backend!PortsAssumption
        <3> QED
            BY <1>2, <3>1, <3>4, <3>6, <2>1 DEF Backend!TypeOK
    <2> QED
        BY <2>2, <2>3
<1>8. CASE Backend!ServerListens
    BY <1>2, <1>8 DEF Backend!ServerListens, Backend!TypeOK, Backend!ChildInv,
        Backend!FoundIsFree
<1>9. CASE Backend!ChildCrashes
    BY <1>2, <1>9 DEF Backend!ChildCrashes, Backend!TypeOK
<1> QED
    BY <1>7, <1>8, <1>9 DEF Backend!ChildStep

\* What the controller knows of a child that it has let go.
LEMMA ReleasedFields ==
    ASSUME Backend!TypeOK, NEW s,
           backend' = [Backend!Released EXCEPT !.status = s]
    PROVE  backend' = [status |-> s, port |-> backend.port, process |-> FALSE,
                       token |-> FALSE, log |-> FALSE]
    BY DEF Backend!Released, Backend!TypeOK

\* The controller hears of the spawn, of its failure or of the exit.
LEMMA ChildAndController ==
    ASSUME Backend!ChildInv, Backend!ControllerStep
    PROVE  Backend!ChildInv'
<1>1. Backend!TypeOK
    BY DEF Backend!ChildInv, Backend!ControllerAgrees
<1>2. UNCHANGED <<taken, shocks, start, quit, window, update>> /\ backend'.port = backend.port
    BY <1>1 DEF Backend!ControllerStep, Backend!SpawnSeen, Backend!SpawnFails,
        Backend!ExitSeen, Backend!Released, Backend!TypeOK
<1>3. /\ Backend!TypeOK' /\ Backend!ControllerAgrees'
      /\ backend'.process => backend.process
      /\ child'.state # "none" => child.state # "none"
      /\ child'.state \in {"binding", "listening"} =>
            child.state \in {"binding", "listening"} /\ child'.port = child.port
    <2>1. CASE Backend!SpawnSeen
        BY <1>1, <2>1 DEF Backend!SpawnSeen, Backend!TypeOK, Backend!ChildInv,
            Backend!ControllerAgrees, Backend!Alive
    <2>2. CASE Backend!SpawnFails \/ Backend!ExitSeen
        <3>1. PICK s \in {"stopped", "error"} :
                backend' = [status |-> s, port |-> backend.port, process |-> FALSE,
                            token |-> FALSE, log |-> FALSE]
            BY <1>1, <2>2, ReleasedFields DEF Backend!SpawnFails, Backend!ExitSeen
        <3>2. /\ child' \in [state : {"dead"}, port : {child.port}, exitSeen : {TRUE}]
              /\ child.state # "none"
            BY <1>1, <2>2 DEF Backend!SpawnFails, Backend!ExitSeen, Backend!TypeOK
        <3>5. /\ backend' \in [status : {"disabled", "starting", "running", "stopped", "error"},
                                port : Backend!Ports \cup {Backend!NoPort},
                                process : BOOLEAN, token : BOOLEAN, log : BOOLEAN]
              /\ child' \in [state : {"none", "booting", "binding", "listening", "dead"},
                              port : Backend!Ports \cup {Backend!NoPort},
                              exitSeen : BOOLEAN]
            BY <1>1, <3>1, <3>2 DEF Backend!TypeOK
        <3>3. Backend!TypeOK'
            BY <1>1, <1>2, <3>5 DEF Backend!TypeOK, Backend!Ports, Backend!NoPort
        <3>4. Backend!ControllerAgrees'
            BY <3>1, <3>2, <3>3 DEF Backend!ControllerAgrees, Backend!Alive
        <3> QED
            BY <3>1, <3>2, <3>3, <3>4
    <2> QED
        BY <2>1, <2>2 DEF Backend!ControllerStep
<1>4. Backend!SpawnedFromSearch' /\ Backend!ClosingHasStopped'
    BY <1>1, <1>2, <1>3 DEF Backend!ChildInv, Backend!SpawnedFromSearch, Backend!TypeOK,
        Backend!ClosingHasStopped, Backend!ProbeIsOver
<1>5. Backend!FoundIsFree'
    BY <1>1, <1>2, <1>3 DEF Backend!ChildInv, Backend!FoundIsFree
<1> QED
    BY <1>3, <1>4, <1>5 DEF Backend!ChildInv

\* before-quit, whoever caused it: either the quit is put off, or the search is over
\* and the child is stopped.
LEMMA ChildAndBeforeQuit ==
    ASSUME Backend!ChildInv, Backend!BeforeQuit, ~quit.exited,
           UNCHANGED <<taken, shocks, start, window>>, Backend!TypeOK',
           backend' \in [status : {"disabled", "starting", "running", "stopped", "error"},
                         port : Backend!Ports \cup {Backend!NoPort},
                         process : BOOLEAN, token : BOOLEAN, log : BOOLEAN]
    PROVE  Backend!ChildInv'
<1>1. Backend!TypeOK
    BY DEF Backend!ChildInv, Backend!ControllerAgrees
<1>2. CASE Backend!shouldDelayQuitForHostShutdown
    <2>1. /\ UNCHANGED <<backend, child>>
          /\ quit' = [quit EXCEPT !.quitting = TRUE, !.notified = TRUE, !.grace = TRUE]
        BY <1>2 DEF Backend!BeforeQuit
    <2>2. Backend!ControllerAgrees'
        BY <2>1 DEF Backend!ChildInv, Backend!ControllerAgrees, Backend!Alive
    <2> QED
        BY <1>1, <2>1, <2>2 DEF Backend!ChildInv, Backend!TypeOK, Backend!SpawnedFromSearch,
            Backend!FoundIsFree, Backend!ClosingHasStopped, Backend!ProbeIsOver
<1>3. CASE ~Backend!shouldDelayQuitForHostShutdown
    <2>1. /\ Backend!ProbeIsOver /\ Backend!stopEmbeddedBackend
          /\ quit' = [quit EXCEPT !.quitting = TRUE, !.grace = FALSE, !.closing = TRUE]
        BY <1>3 DEF Backend!BeforeQuit
    <2>2. /\ Backend!ControllerAgrees' /\ ~backend'.process
          /\ backend'.port = backend.port
          /\ child'.state # "none" => child.state # "none"
          /\ child'.state \in {"binding", "listening"} => child' = child
        <3>1. CASE backend.process
            <4>1. backend' = [status |-> "stopped", port |-> backend.port, process |-> FALSE,
                              token |-> FALSE, log |-> FALSE]
                BY <1>1, <2>1, <3>1, ReleasedFields DEF Backend!stopEmbeddedBackend
            <4>2. child' = IF Backend!Alive THEN [child EXCEPT !.state = "dead"] ELSE child
                BY <2>1, <3>1 DEF Backend!stopEmbeddedBackend
            <4>3. CASE Backend!Alive
                BY <1>1, <4>1, <4>2, <4>3 DEF Backend!ControllerAgrees, Backend!Alive,
                    Backend!TypeOK
            <4>4. CASE ~Backend!Alive
                BY <4>1, <4>2, <4>4 DEF Backend!ControllerAgrees, Backend!Alive
            <4> QED
                BY <4>3, <4>4
        <3>2. CASE ~backend.process
            BY <2>1, <3>2 DEF Backend!stopEmbeddedBackend, Backend!ChildInv,
                Backend!ControllerAgrees, Backend!Alive
        <3> QED
            BY <3>1, <3>2
    <2>3. Backend!SpawnedFromSearch' /\ Backend!ClosingHasStopped'
        BY <1>1, <2>1, <2>2 DEF Backend!ChildInv, Backend!SpawnedFromSearch, Backend!TypeOK,
            Backend!ClosingHasStopped, Backend!ProbeIsOver
    <2>4. Backend!FoundIsFree'
        BY <2>2 DEF Backend!ChildInv, Backend!FoundIsFree
    <2> QED
        BY <2>2, <2>3, <2>4 DEF Backend!ChildInv
<1> QED
    BY <1>2, <1>3

\* A step of before-quit leaves every variable in its type.
LEMMA BeforeQuitTypes ==
    ASSUME Backend!TypeOK, Backend!BeforeQuit,
           UNCHANGED <<taken, shocks, start, window>>,
           update' \in {"none", "asked", "later", "installing"}
    PROVE  Backend!TypeOK'
<1>1. quit' \in [quitting : BOOLEAN, notified : BOOLEAN, grace : BOOLEAN,
                 closing : BOOLEAN, exited : BOOLEAN]
    BY DEF Backend!BeforeQuit, Backend!TypeOK
<1>2. CASE UNCHANGED <<backend, child>>
    BY <1>1, <1>2 DEF Backend!TypeOK, Backend!Ports, Backend!NoPort
<1>3. CASE ~UNCHANGED <<backend, child>>
    <2>1. Backend!stopEmbeddedBackend /\ backend.process
        BY <1>3 DEF Backend!BeforeQuit, Backend!stopEmbeddedBackend
    <2>2. backend' = [status |-> "stopped", port |-> backend.port, process |-> FALSE,
                      token |-> FALSE, log |-> FALSE]
        BY <2>1, ReleasedFields DEF Backend!stopEmbeddedBackend
    <2>3. child' \in [state : {"none", "booting", "binding", "listening", "dead"},
                      port : Backend!Ports \cup {Backend!NoPort}, exitSeen : BOOLEAN]
        BY <2>1 DEF Backend!stopEmbeddedBackend, Backend!TypeOK
    <2> QED
        BY <1>1, <2>2, <2>3 DEF Backend!TypeOK, Backend!Ports, Backend!NoPort
<1> QED
    BY <1>2, <1>3

\* The user, the window, the updater and the way out.
LEMMA ChildAndQuit ==
    ASSUME Backend!ChildInv,
           \/ Backend!Quit \/ Backend!QuitStep \/ Backend!CloseWindow \/ Backend!ShowWindow
           \/ Backend!UpdateDownloaded \/ Backend!UpdateAnswered
    PROVE  Backend!ChildInv'
<1>1. Backend!TypeOK
    BY DEF Backend!ChildInv, Backend!ControllerAgrees
<1>2. CASE \/ Backend!Quit \/ Backend!GraceEnds \/ Backend!WindowAllClosed
           \/ Backend!UpdateAnswered /\ update' = "installing"
    <2>1. /\ Backend!BeforeQuit /\ ~quit.exited /\ UNCHANGED <<taken, shocks, start, window>>
          /\ update' \in {"none", "asked", "later", "installing"}
        BY <1>1, <1>2 DEF Backend!Quit, Backend!GraceEnds, Backend!WindowAllClosed,
            Backend!UpdateAnswered, Backend!Running, Backend!TypeOK
    <2>2. Backend!TypeOK'
        BY <1>1, <2>1, BeforeQuitTypes
    <2> QED
        BY <2>1, <2>2, ChildAndBeforeQuit DEF Backend!TypeOK
<1>3. CASE \/ Backend!CloseWindow \/ Backend!ShowWindow \/ Backend!WindowsClose
           \/ Backend!UpdateDownloaded
           \/ Backend!UpdateAnswered /\ update' = "later"
    <2>1. /\ UNCHANGED <<taken, shocks, start, backend, child, quit>>
          /\ window' \in {"shown", "hidden", "closed"}
          /\ update' \in {"none", "asked", "later", "installing"}
        BY <1>1, <1>3 DEF Backend!CloseWindow, Backend!ShowWindow, Backend!WindowsClose,
            Backend!UpdateDownloaded, Backend!UpdateAnswered, Backend!TypeOK
    <2>2. Backend!TypeOK'
        BY <1>1, <2>1 DEF Backend!TypeOK
    <2>3. Backend!ControllerAgrees'
        BY <2>1, <2>2 DEF Backend!ChildInv, Backend!ControllerAgrees, Backend!Alive
    <2> QED
        BY <2>1, <2>3 DEF Backend!ChildInv, Backend!SpawnedFromSearch, Backend!FoundIsFree,
            Backend!ClosingHasStopped, Backend!ProbeIsOver
<1>4. CASE Backend!Exit
    <2>0. quit' \in [quitting : BOOLEAN, notified : BOOLEAN, grace : BOOLEAN,
                     closing : BOOLEAN, exited : BOOLEAN]
        BY <1>1, <1>4 DEF Backend!Exit, Backend!TypeOK
    <2>1. Backend!TypeOK'
        BY <1>1, <1>4, <2>0 DEF Backend!Exit, Backend!TypeOK, Backend!Ports, Backend!NoPort
    <2>2. Backend!ControllerAgrees'
        BY <1>4, <2>1 DEF Backend!Exit, Backend!ChildInv, Backend!ControllerAgrees,
            Backend!Alive
    <2> QED
        BY <1>1, <1>4, <2>2 DEF Backend!Exit, Backend!ChildInv, Backend!SpawnedFromSearch,
            Backend!FoundIsFree, Backend!ClosingHasStopped, Backend!ProbeIsOver,
            Backend!TypeOK
<1>5. Backend!UpdateAnswered => update' = "installing" \/ update' = "later"
    BY DEF Backend!UpdateAnswered
<1>6. Backend!QuitStep =>
        Backend!GraceEnds \/ Backend!WindowsClose \/ Backend!WindowAllClosed \/ Backend!Exit
    BY DEF Backend!QuitStep
<1> QED
    BY <1>2, <1>3, <1>4, <1>5, <1>6

LEMMA ChildStays == Backend!ChildInv /\ UNCHANGED Backend!vars => Backend!ChildInv'
    BY DEF Backend!vars, Backend!ChildInv, Backend!ControllerAgrees, Backend!TypeOK,
        Backend!Alive, Backend!SpawnedFromSearch, Backend!FoundIsFree,
        Backend!ClosingHasStopped, Backend!ProbeIsOver

LEMMA ChildNext == Backend!ChildInv /\ Backend!Next => Backend!ChildInv'
    BY ChildAndOthers, ChildAndStart, ChildByItself, ChildAndController, ChildAndQuit
        DEF Backend!Next

LEMMA ChildStep == Backend!ChildInv /\ [HostNext]_hostVars => Backend!ChildInv'
    BY ChildNext, ChildStays, PartSteps

\* Whatever the order of spawn, exit, crash, quit, update and port changes, the
\* controller knows its child, none outlives the app, and it listens where the app
\* says (backendProcess.ts, index.ts before-quit, main.ts bootstrapServer).
THEOREM ChildOfHostIsHeld == HostSpec => []ChildIsHeld
<1>1. HostInit => Backend!ChildInv
    BY ChildInit DEF HostInit
<1>2. Backend!ChildInv /\ [HostNext]_hostVars => Backend!ChildInv'
    BY ChildStep
<1>3. Backend!ChildInv => ChildIsHeld
    BY DEF ChildIsHeld, Backend!ChildInv, Backend!ControllerAgrees, Backend!FoundIsFree,
        Backend!NoOrphan, Backend!AdvertisedIsServed, Backend!ClosingHasStopped
<1> QED
    BY <1>1, <1>2, <1>3, PTL DEF HostSpec

-------------------------------------------------------------------------------
\* The log of the child

\* The names of the log, for any step of the rotation.
LEMMA LogInit == Log!Init => Log!RotationInv
<1> SUFFICES ASSUME Log!Init PROVE Log!RotationInv
    OBVIOUS
<1> USE DEF Log!NoLog, Log!Numbers, Log!Idle
<1>1. Log!BackupsAssumption
    BY HostAppAssumption
<1>2. \A n \in Log!Numbers : log[n] = 0
    BY DEF Log!Init
<1>3. Log!TypeOK
    <2>1. log \in [Log!Numbers -> 0 .. MaxLogs] /\ begun \in 0 .. MaxLogs /\ at \in 0 .. Log!Idle
        BY <1>1 DEF Log!Init, Log!BackupsAssumption
    <2>2. big \in BOOLEAN /\ cut \in BOOLEAN
        BY DEF Log!Init
    <2> QED
        BY <2>1, <2>2 DEF Log!TypeOK
<1>4. Log!OlderHasHigherNumber /\ \A n \in Log!Numbers : log[n] <= begun
    BY <1>2 DEF Log!OlderHasHigherNumber, Log!Init
<1>5. Log!RoomAbove
    BY <1>1 DEF Log!RoomAbove, Log!Init, Log!BackupsAssumption
<1>6. Log!NoGap
    BY <1>2 DEF Log!NoGap
<1> QED
    BY <1>3, <1>4, <1>5, <1>6 DEF Log!RotationInv, Log!LogInv

\* A number is vacated when the one above it is free: the order stays, and no log is
\* lost.
LEMMA LogMovedUp ==
    ASSUME Log!RotationInv, NEW n \in Log!Numbers, n < Backups, at = n,
           log' = [log EXCEPT ![n + 1] = log[n], ![n] = Log!NoLog],
           at' = IF n = 0 THEN Log!Idle ELSE n - 1,
           big' \in BOOLEAN, UNCHANGED <<begun, cut>>
    PROVE  /\ Log!RotationInv'
           /\ \A i \in Log!Numbers : log[i] # Log!NoLog =>
                \E m \in Log!Numbers : log'[m] = log[i]
<1> USE DEF Log!NoLog, Log!Numbers, Log!Idle
<1>1. Log!BackupsAssumption
    BY HostAppAssumption
<1>2. /\ log \in [Log!Numbers -> 0 .. MaxLogs] /\ begun \in 0 .. MaxLogs
      /\ log[n + 1] = 0
      /\ \A i \in Log!Numbers : log[i] <= begun
      /\ \A i, k \in Log!Numbers : i < k /\ log[i] # 0 /\ log[k] # 0 => log[k] < log[i]
    BY DEF Log!RotationInv, Log!LogInv, Log!TypeOK, Log!RoomAbove, Log!OlderHasHigherNumber
<1>3. n \in Nat /\ n + 1 \in Log!Numbers /\ n # n + 1
    BY <1>1 DEF Log!BackupsAssumption
<1>4. /\ log'[n] = 0 /\ log'[n + 1] = log[n]
      /\ \A i \in Log!Numbers : i # n /\ i # n + 1 => log'[i] = log[i]
    BY <1>2, <1>3
<1>5. Log!TypeOK'
    <2>1. at' \in 0 .. Log!Idle /\ begun' \in 0 .. MaxLogs /\ log' \in [Log!Numbers -> 0 .. MaxLogs]
        BY <1>1, <1>2, <1>3 DEF Log!BackupsAssumption
    <2>2. big' \in BOOLEAN /\ cut' \in BOOLEAN
        BY DEF Log!RotationInv, Log!LogInv, Log!TypeOK
    <2> QED
        BY <2>1, <2>2 DEF Log!TypeOK
<1>6. Log!OlderHasHigherNumber'
    <2> SUFFICES ASSUME NEW i \in Log!Numbers, NEW k \in Log!Numbers,
                        i < k, log'[i] # 0, log'[k] # 0
                 PROVE  log'[k] < log'[i]
        BY DEF Log!OlderHasHigherNumber
    <2>1. i # n /\ k # n
        BY <1>4
    <2>2. CASE i = n + 1
        <3>2. n < k /\ k # n + 1
            BY <1>1, <1>3, <2>2 DEF Log!BackupsAssumption
        <3>1. n < k /\ log'[k] = log[k] /\ log'[i] = log[n]
            BY <1>4, <2>1, <2>2, <3>2
        <3> QED
            BY <1>2, <3>1
    <2>3. CASE k = n + 1
        <3>2. i < n /\ i # n + 1
            BY <1>1, <1>3, <2>1, <2>3 DEF Log!BackupsAssumption
        <3>1. i < n /\ log'[i] = log[i] /\ log'[k] = log[n]
            BY <1>4, <2>1, <2>3, <3>2
        <3> QED
            BY <1>2, <3>1
    <2>4. CASE i # n + 1 /\ k # n + 1
        BY <1>2, <1>4, <2>1, <2>4
    <2> QED
        BY <2>2, <2>3, <2>4
<1>7. \A i \in Log!Numbers : log'[i] <= begun'
    BY <1>2, <1>3, <1>4
<1>8. Log!RoomAbove'
    <2>1. at' < Backups => at' + 1 = n
        BY <1>1, <1>3 DEF Log!BackupsAssumption
    <2> QED
        BY <1>4, <2>1 DEF Log!RoomAbove
<1>9. \A i \in Log!Numbers : log[i] # 0 => \E m \in Log!Numbers : log'[m] = log[i]
    <2> SUFFICES ASSUME NEW i \in Log!Numbers, log[i] # 0
                 PROVE  \E m \in Log!Numbers : log'[m] = log[i]
        OBVIOUS
    <2>1. i # n + 1
        BY <1>2
    <2> QED
        BY <1>3, <1>4, <2>1
<1>10. Log!NoGap'
    <2> SUFFICES ASSUME ~cut, NEW i \in Log!Numbers, NEW k \in Log!Numbers,
                        i < k, log'[k] # 0, i # n
                 PROVE  log'[i] # 0
        <3>1. Log!Hole' = n
            BY <1>1, <1>3 DEF Log!Hole, Log!BackupsAssumption
        <3>2. Log!NoGap' = (cut \/ \A i, k \in Log!Numbers :
                                i < k /\ log'[k] # 0 /\ i # n => log'[i] # 0)
            BY <3>1, Zenon DEF Log!NoGap
        <3> QED
            BY <3>2
    <2>1. \A j, l \in Log!Numbers : j < l /\ log[l] # 0 /\ j # n + 1 => log[j] # 0
        <3>1. Log!Hole = n + 1
            BY <1>1, <1>3 DEF Log!Hole, Log!BackupsAssumption
        <3>2. Log!NoGap = (cut \/ \A j, l \in Log!Numbers :
                                j < l /\ log[l] # 0 /\ j # n + 1 => log[j] # 0)
            BY <3>1, Zenon DEF Log!NoGap
        <3>3. Log!NoGap
            BY DEF Log!RotationInv
        <3> QED
            BY <3>2, <3>3, Zenon
    <2>2. k # n
        BY <1>4
    <2>3. CASE i = n + 1
        <3>1. n < k /\ k # n + 1
            BY <1>1, <1>3, <2>3 DEF Log!BackupsAssumption
        <3>2. log'[k] = log[k]
            BY <1>4, <2>2, <3>1
        <3> QED
            BY <1>3, <1>4, <2>1, <2>3, <3>1, <3>2
    <2>4. CASE i # n + 1 /\ k = n + 1
        <3>1. i < n
            BY <1>1, <1>3, <2>4 DEF Log!BackupsAssumption
        <3> QED
            BY <1>4, <2>1, <2>4, <3>1
    <2>5. CASE i # n + 1 /\ k # n + 1
        BY <1>4, <2>1, <2>2, <2>5
    <2> QED
        BY <2>3, <2>4, <2>5
<1> QED
    BY <1>5, <1>6, <1>7, <1>8, <1>9, <1>10 DEF Log!RotationInv, Log!LogInv

\* Every step of the rotation keeps the order, and loses at most the oldest, of a full
\* set unless a rotation was cut short.
LEMMA LogNext ==
    ASSUME Log!RotationInv, Log!Next
    PROVE  /\ Log!RotationInv'
           /\ \A n \in Log!Numbers :
                log[n] # Log!NoLog /\ (\A m \in Log!Numbers : log'[m] # log[n])
                => n = Backups /\ (cut \/ \A m \in Log!Numbers : log[m] # Log!NoLog)
<1>1. Log!BackupsAssumption
    BY HostAppAssumption
<1>2. Log!TypeOK
    BY DEF Log!RotationInv, Log!LogInv
<1>3. CASE Log!Write
    <2> USE DEF Log!NoLog, Log!Numbers, Log!Idle
    <2>1. CASE log[0] = 0
        <3>1. /\ log' = [log EXCEPT ![0] = begun + 1] /\ begun' = begun + 1
              /\ begun < MaxLogs /\ 0 \in Log!Numbers /\ at = Backups + 1 /\ at' = at
            BY <1>1, <1>3, <2>1 DEF Log!Write, Log!BackupsAssumption
        <3>2. /\ log'[0] = begun + 1
              /\ \A n \in Log!Numbers : n # 0 => log'[n] = log[n]
            BY <1>2, <3>1 DEF Log!TypeOK
        <3>6. begun + 1 \in 0 .. MaxLogs
            BY <1>1, <1>2, <3>1 DEF Log!TypeOK, Log!BackupsAssumption
        <3>7. big' \in BOOLEAN /\ cut' \in BOOLEAN
            BY <1>2, <1>3 DEF Log!TypeOK, Log!Write
        <3>3. Log!TypeOK'
            BY <1>2, <3>1, <3>6, <3>7 DEF Log!TypeOK
        <3>4. Log!OlderHasHigherNumber' /\ \A n \in Log!Numbers : log'[n] <= begun'
            BY <1>1, <1>2, <3>1, <3>2 DEF Log!RotationInv, Log!LogInv, Log!TypeOK,
                Log!OlderHasHigherNumber, Log!BackupsAssumption
        <3>5. Log!RoomAbove'
            BY <1>1, <3>1 DEF Log!RoomAbove, Log!BackupsAssumption
        <3>8. Log!NoGap'
            <4>1. cut' = (cut /\ \E n \in Log!Numbers : log'[n] = 0)
                BY <1>3 DEF Log!Write
            <4>2. CASE cut
                BY <4>1, <4>2 DEF Log!NoGap
            <4>3. CASE ~cut
                <5>1. \A m, n \in Log!Numbers : m < n /\ log[n] # 0 /\ m # 0 => log[m] # 0
                    BY <3>1, <4>3 DEF Log!RotationInv, Log!NoGap, Log!Hole
                <5>2. Log!Hole' = 0
                    BY <3>1 DEF Log!Hole
                <5>3. \A m, n \in Log!Numbers : m < n /\ log'[n] # 0 /\ m # 0 => log'[m] # 0
                    <6>1. \A m, n \in Log!Numbers : m < n => n # 0
                        BY <1>1 DEF Log!BackupsAssumption
                    <6> QED
                        BY <3>2, <5>1, <6>1
                <5> QED
                    BY <5>2, <5>3 DEF Log!NoGap
            <4> QED
                BY <4>2, <4>3
        <3> QED
            BY <2>1, <3>2, <3>3, <3>4, <3>5, <3>8 DEF Log!RotationInv, Log!LogInv
    <2>2. CASE log[0] # 0
        <3>1. /\ UNCHANGED <<log, begun, at>> /\ big' \in BOOLEAN /\ cut' \in BOOLEAN
              /\ cut' = (cut /\ \E n \in Log!Numbers : log'[n] = 0)
            BY <1>2, <1>3, <2>2 DEF Log!Write, Log!TypeOK
        <3>2. Log!TypeOK'
            BY <1>2, <3>1 DEF Log!TypeOK
        <3>3. Log!NoGap'
            <4>1. Log!Hole' = Log!Hole
                BY <3>1 DEF Log!Hole
            <4> QED
                BY <3>1, <4>1 DEF Log!RotationInv, Log!NoGap
        <3> QED
            BY <3>1, <3>2, <3>3 DEF Log!RotationInv, Log!LogInv,
                Log!OlderHasHigherNumber, Log!RoomAbove
    <2> QED
        BY <2>1, <2>2
<1>4. CASE Log!StartRotation
    <2>1. /\ at = Log!Idle /\ at' = Backups /\ log[0] # 0
          /\ UNCHANGED <<log, begun, big, cut>>
        BY <1>4 DEF Log!StartRotation, Log!NoLog
    <2>2. Log!TypeOK'
        BY <1>1, <1>2, <2>1 DEF Log!TypeOK, Log!BackupsAssumption, Log!Idle
    <2>3. Log!NoGap'
        <3>1. Log!Hole = 0
            BY <2>1 DEF Log!Hole
        <3> QED
            BY <2>1, <3>1 DEF Log!RotationInv, Log!NoGap, Log!NoLog
    <2> QED
        BY <1>1, <2>1, <2>2, <2>3 DEF Log!RotationInv, Log!LogInv, Log!OlderHasHigherNumber,
            Log!RoomAbove, Log!BackupsAssumption, Log!NoLog, Log!Numbers
<1>8. CASE Log!RotationEnds
    <2>1. /\ at' = Log!Idle /\ cut' = (\E n \in Log!Numbers : log[n] = 0)
          /\ UNCHANGED <<log, begun, big>>
        BY <1>8 DEF Log!RotationEnds, Log!NoLog
    <2>2. Log!TypeOK' /\ Log!NoGap'
        BY <1>1, <1>2, <2>1 DEF Log!TypeOK, Log!BackupsAssumption, Log!Idle, Log!NoGap,
            Log!NoLog
    <2> QED
        BY <1>1, <2>1, <2>2 DEF Log!RotationInv, Log!LogInv, Log!OlderHasHigherNumber,
            Log!RoomAbove, Log!BackupsAssumption, Log!Idle
<1>5. CASE Log!UnlinkOldest
    <2> USE DEF Log!NoLog, Log!Numbers, Log!Idle
    <2>1. /\ log' = [log EXCEPT ![Backups] = 0] /\ Backups \in Log!Numbers
          /\ at = Backups /\ at' = Backups - 1 /\ UNCHANGED <<begun, big, cut>>
        BY <1>1, <1>5 DEF Log!UnlinkOldest, Log!BackupsAssumption
    <2>2. /\ log'[Backups] = 0
          /\ \A n \in Log!Numbers : n # Backups => log'[n] = log[n]
        BY <1>2, <2>1 DEF Log!TypeOK
    <2>3. Log!TypeOK'
        BY <1>1, <1>2, <2>1 DEF Log!TypeOK, Log!BackupsAssumption
    <2>4. Log!OlderHasHigherNumber' /\ \A n \in Log!Numbers : log'[n] <= begun'
        BY <1>2, <2>1, <2>2 DEF Log!RotationInv, Log!LogInv, Log!TypeOK,
            Log!OlderHasHigherNumber
    <2>5. Log!RoomAbove'
        BY <1>1, <2>1, <2>2 DEF Log!RoomAbove, Log!BackupsAssumption
    <2>6. cut \/ \A m, n \in Log!Numbers : m < n /\ log[n] # 0 => log[m] # 0
        <3>1. Log!Hole = Backups + 1
            BY <1>1, <2>1 DEF Log!Hole, Log!BackupsAssumption
        <3>2. \A m \in Log!Numbers : m # Backups + 1
            BY <1>1 DEF Log!BackupsAssumption
        <3> QED
            BY <3>1, <3>2 DEF Log!RotationInv, Log!NoGap
    <2>7. Log!NoGap'
        <3>1. Log!Hole' = Backups
            BY <1>1, <2>1 DEF Log!Hole, Log!BackupsAssumption
        <3> QED
            BY <2>1, <2>2, <2>6, <3>1 DEF Log!NoGap
    <2>8. log[Backups] # 0 => cut \/ \A m \in Log!Numbers : log[m] # 0
        <3>1. \A m \in Log!Numbers : m # Backups => m < Backups
            BY <1>1 DEF Log!BackupsAssumption
        <3> QED
            BY <2>1, <2>6, <3>1
    <2> QED
        BY <2>2, <2>3, <2>4, <2>5, <2>7, <2>8 DEF Log!RotationInv, Log!LogInv
<1>6. CASE Log!MoveUp
    <2>1. CASE log[at] = Log!NoLog
        <3> USE DEF Log!NoLog, Log!Numbers, Log!Idle
        <3>1. /\ at \in Log!Numbers /\ at < Backups /\ at' = at - 1 /\ at > 0
              /\ UNCHANGED <<log, begun, big, cut>>
            BY <1>1, <1>2, <1>6, <2>1 DEF Log!MoveUp, Log!TypeOK, Log!BackupsAssumption
        <3>2. Log!TypeOK' /\ Log!RoomAbove'
            BY <1>1, <1>2, <2>1, <3>1 DEF Log!TypeOK, Log!RoomAbove, Log!BackupsAssumption
        <3>3. Log!Hole = at + 1 /\ Log!Hole' = at
            BY <1>1, <1>2, <3>1 DEF Log!Hole, Log!TypeOK, Log!BackupsAssumption
        <3>4. Log!NoGap'
            <4> SUFFICES ASSUME ~cut, NEW m \in Log!Numbers, NEW n \in Log!Numbers,
                                m < n, log[n] # 0, m # at
                         PROVE  log[m] # 0
                BY <3>1, <3>3 DEF Log!NoGap
            <4>1. \A j, l \in Log!Numbers : j < l /\ log[l] # 0 /\ j # at + 1 => log[j] # 0
                BY <3>3 DEF Log!RotationInv, Log!NoGap
            <4>2. CASE m = at + 1
                <5>1. at < n /\ at # at + 1
                    BY <1>1, <3>1, <4>2 DEF Log!BackupsAssumption
                <5> QED
                    BY <2>1, <3>1, <4>1, <5>1
            <4> QED
                BY <4>1, <4>2
        <3> QED
            BY <3>1, <3>2, <3>4 DEF Log!RotationInv, Log!LogInv, Log!OlderHasHigherNumber
    <2>2. CASE log[at] # Log!NoLog
        <3>1. /\ at \in Log!Numbers /\ at < Backups
              /\ at' = IF at = 0 THEN Log!Idle ELSE at - 1
              /\ log' = [log EXCEPT ![at + 1] = log[at], ![at] = Log!NoLog]
              /\ UNCHANGED <<begun, cut>> /\ big' \in BOOLEAN
            BY <1>1, <1>2, <1>6, <2>2 DEF Log!MoveUp, Log!TypeOK, Log!Numbers, Log!Idle,
                Log!BackupsAssumption
        <3> QED
            BY <3>1, LogMovedUp
    <2> QED
        BY <2>1, <2>2
<1>7. CASE Log!MoveCurrent
    <2>1. PICK n : n = 0
        OBVIOUS
    <2>2. n \in Log!Numbers /\ n < Backups /\ n + 1 = 1 /\ at = n
        BY <1>1, <1>7, <2>1 DEF Log!MoveCurrent, Log!Numbers, Log!BackupsAssumption
    <2>3. at' = IF n = 0 THEN Log!Idle ELSE n - 1
        BY <1>7, <2>1 DEF Log!MoveCurrent
    <2>4. UNCHANGED <<begun, cut>> /\ big' \in BOOLEAN
        BY <1>7 DEF Log!MoveCurrent
    <2>5. log' = [log EXCEPT ![n + 1] = log[n], ![n] = Log!NoLog]
        BY <1>7, <2>1, <2>2 DEF Log!MoveCurrent
    <2> QED
        BY <2>2, <2>3, <2>4, <2>5, LogMovedUp
<1> QED
    BY <1>3, <1>4, <1>5, <1>6, <1>7, <1>8 DEF Log!Next

LEMMA LogStays == Log!RotationInv /\ UNCHANGED Log!vars => Log!RotationInv'
    BY DEF Log!vars, Log!RotationInv, Log!LogInv, Log!TypeOK, Log!OlderHasHigherNumber,
        Log!RoomAbove, Log!NoGap, Log!Hole, Log!Numbers, Log!NoLog, Log!Idle

LEMMA LogStep == Log!RotationInv /\ [HostNext]_hostVars => Log!RotationInv'
    BY LogNext, LogStays, PartSteps

-------------------------------------------------------------------------------
\* Losses

\* Only before-quit lets a child go whose end was not seen, and it has put the quit
\* off for the window's sake before.
LEMMA StopIsAnnounced ==
    ASSUME Backend!ChildInv, Backend!Next,
           backend.process, ~backend'.process, ~child.exitSeen, ~child'.exitSeen
    PROVE  quit.notified \/ window = "closed"
<1>1. Backend!TypeOK
    BY DEF Backend!ChildInv, Backend!ControllerAgrees
<1>2. ~Backend!ControllerStep
    <2>1. ~Backend!SpawnSeen
        BY <1>1 DEF Backend!SpawnSeen, Backend!TypeOK
    <2>2. ~Backend!SpawnFails /\ ~Backend!ExitSeen
        BY <1>1 DEF Backend!SpawnFails, Backend!ExitSeen, Backend!TypeOK
    <2> QED
        BY <2>1, <2>2 DEF Backend!ControllerStep
<1>3. ~Backend!StartStep /\ ~Backend!ChildStep /\ ~Backend!OthersChange
    BY DEF Backend!StartStep, Backend!StartEmbeddedBackend, Backend!FindAvailablePort,
        Backend!Spawn, Backend!ChildStep, Backend!ServerFindsPort, Backend!ServerListens,
        Backend!ChildCrashes, Backend!OthersChange
<1>4. Backend!BeforeQuit
    <2>1. /\ ~Backend!CloseWindow /\ ~Backend!ShowWindow /\ ~Backend!UpdateDownloaded
          /\ ~Backend!WindowsClose /\ ~Backend!Exit
        BY DEF Backend!CloseWindow, Backend!ShowWindow, Backend!UpdateDownloaded,
            Backend!WindowsClose, Backend!Exit
    <2>2. \/ Backend!Quit \/ Backend!GraceEnds \/ Backend!WindowAllClosed
          \/ Backend!UpdateAnswered
        BY <1>2, <1>3, <2>1 DEF Backend!Next, Backend!QuitStep
    <2> QED
        BY <2>2 DEF Backend!Quit, Backend!GraceEnds, Backend!WindowAllClosed,
            Backend!UpdateAnswered
<1> QED
    BY <1>4 DEF Backend!BeforeQuit, Backend!shouldDelayQuitForHostShutdown

\* The server is not stopped before the window was told, and no log is lost but the
\* oldest of a full set, or the one with the highest number after a rotation that was
\* cut short (index.ts notifyHostShutdownAndQuit, backendProcess.ts
\* rotateBackendLog).
THEOREM NothingIsLostSilently == HostSpec => NothingLostSilently
<1> DEFINE Announced ==
        backend.process /\ ~backend'.process /\ ~child.exitSeen /\ ~child'.exitSeen
            => quit.notified \/ window = "closed"
           OldestLost ==
        \A n \in Log!Numbers :
            log[n] # Log!NoLog /\ (\A m \in Log!Numbers : log'[m] # log[n])
                => n = Backups /\ (cut \/ \A m \in Log!Numbers : log[m] # Log!NoLog)
<1>1. HostInit => Backend!ChildInv /\ Log!RotationInv
    BY ChildInit, LogInit DEF HostInit
<1>2. Backend!ChildInv /\ Log!RotationInv /\ [HostNext]_hostVars
      => Backend!ChildInv' /\ Log!RotationInv'
    BY ChildStep, LogStep
<1>3. Backend!ChildInv /\ [HostNext]_hostVars => [Announced]_(Backend!vars)
    BY StopIsAnnounced, PartSteps
<1>4. Log!RotationInv /\ [HostNext]_hostVars => [OldestLost]_(Log!vars)
    BY LogNext, PartSteps
<1> HIDE DEF Announced, OldestLost
<1>5. HostSpec => [][Announced]_(Backend!vars)
    BY <1>1, <1>2, <1>3, PTL DEF HostSpec
<1>6. HostSpec => [][OldestLost]_(Log!vars)
    BY <1>1, <1>2, <1>4, PTL DEF HostSpec
<1> QED
    BY <1>5, <1>6 DEF Announced, OldestLost, NothingLostSilently,
        Backend!ShutdownAnnounced, Log!OnlyOldestIsLost

-------------------------------------------------------------------------------
\* The settings file

FileProofs == INSTANCE SettingsFileProofs WITH
    Fields <- HostFields, Inputs <- Written, Stored <- HostStored,
    Keep <- "keep", NewValue <- AsGiven

\* The constants of the file for the host's fields.
LEMMA HostFile ==
    /\ FileProofs!SettingsFileAssumption
    /\ Settings!Contents = FileProofs!Contents /\ Settings!Patches = FileProofs!Patches
    /\ Written["hash"] \subseteq Passwords /\ Written["legacy"] = {}
    /\ Written["requireApproval"] \subseteq {"on", "off"}
    /\ Written["launchOnStartup"] = {"on", "off"}
    /\ Initial \subseteq Settings!Contents
    /\ None \notin Calls /\ None # "start" /\ "start" \notin Calls
    /\ Unset # "keep" /\ Unset \notin {"on", "off"}
<1>1. Settings!SettingsFileAssumption /\ Settings!HostFieldsAssumption
    BY HostAppAssumption
<1>2. FileProofs!SettingsFileAssumption
    BY <1>1 DEF Settings!SettingsFileAssumption, FileProofs!SettingsFileAssumption
<1>3. Settings!Contents = FileProofs!Contents /\ Settings!Patches = FileProofs!Patches
    BY DEF Settings!Contents, FileProofs!Contents, Settings!Patches, FileProofs!Patches,
        Settings!AnyStored, FileProofs!AnyStored, Settings!AnyInput, FileProofs!AnyInput
<1>4. /\ Written["hash"] \subseteq Passwords /\ Written["legacy"] = {}
      /\ Written["requireApproval"] \subseteq {"on", "off"}
      /\ Written["launchOnStartup"] = {"on", "off"}
      /\ Initial \subseteq Settings!Contents
      /\ None \notin Calls /\ None # "start" /\ "start" \notin Calls
    BY <1>1 DEF Settings!HostFieldsAssumption
<1>5. Unset # "keep" /\ Unset \notin {"on", "off"}
    <2>1. "launchOnStartup" \in HostFields
        BY DEF HostFields
    <2> QED
        BY <1>1, <1>4, <2>1 DEF Settings!SettingsFileAssumption
<1> QED
    BY <1>2, <1>3, <1>4, <1>5

\* What SettingsFileProofs proves of a settings file holds of this one.
LEMMA SameFile ==
    /\ Settings!FileInv <=> FileProofs!FileInv
    /\ Settings!FileInv' <=> FileProofs!FileInv'
<1> USE DEF Settings!FileInv, FileProofs!FileInv, Settings!FileTypeOK, FileProofs!FileTypeOK,
        Settings!Contents, FileProofs!Contents, Settings!Patches, FileProofs!Patches,
        Settings!AnyStored, FileProofs!AnyStored, Settings!AnyInput, FileProofs!AnyInput,
        Settings!Open, FileProofs!Open, Settings!UpdatesSurvive, FileProofs!UpdatesSurvive,
        Settings!readSettings, FileProofs!readSettings, Settings!Nothing, FileProofs!Nothing
<1>1. Settings!FileInv <=> FileProofs!FileInv
    OBVIOUS
<1>2. Settings!FileInv' <=> FileProofs!FileInv'
    OBVIOUS
<1> QED
    BY <1>1, <1>2

LEMMA FileSteps ==
    ASSUME Settings!FileInv
    PROVE  /\ \A c \in Calls, p \in Settings!Patches : Settings!Start(c, p) => Settings!FileInv'
           /\ \A c \in Calls : Settings!ReadFile(c) \/ Settings!OpenFile(c)
                                \/ Settings!WriteFile(c) \/ Settings!UpdateFails(c)
                                    => Settings!FileInv'
           /\ Settings!AppRestarts => Settings!FileInv'
           /\ UNCHANGED Settings!fileVars => Settings!FileInv'
<1> USE DEF Settings!Idle, FileProofs!Idle, Settings!NoUpdate, FileProofs!NoUpdate,
        Settings!NoChange, FileProofs!NoChange, Settings!Nothing, FileProofs!Nothing,
        Settings!Open, FileProofs!Open, Settings!readSettings, FileProofs!readSettings,
        Settings!GivenUp, FileProofs!GivenUp
<1>1. FileProofs!FileInv
    BY SameFile
<1>2. ASSUME NEW c \in Calls, NEW p \in Settings!Patches, Settings!Start(c, p)
      PROVE  Settings!FileInv'
    <2> DEFINE started == [d \in {c} |-> p]
    <2>1. FileProofs!Begin(started)
        BY <1>2 DEF Settings!Start, Settings!Begin, FileProofs!Begin
    <2>2. \A d \in DOMAIN started : started[d] \in FileProofs!Patches
        BY HostFile
    <2> HIDE DEF started
    <2>3. FileProofs!FileInv'
        BY <1>1, <2>1, <2>2, FileProofs!BeginStep
    <2> QED
        BY <2>3, SameFile
<1>3. ASSUME NEW c \in Calls,
             Settings!ReadFile(c) \/ Settings!OpenFile(c) \/ Settings!WriteFile(c)
                \/ Settings!UpdateFails(c)
      PROVE  Settings!FileInv'
    <2>1. CASE Settings!ReadFile(c)
        <3>1. FileProofs!ReadFile(c)
            BY <2>1 DEF Settings!ReadFile, FileProofs!ReadFile
        <3> QED
            BY <1>1, <3>1, FileProofs!ReadStep, SameFile
    <2>2. CASE Settings!OpenFile(c)
        <3>1. FileProofs!OpenFile(c)
            BY <2>2 DEF Settings!OpenFile, FileProofs!OpenFile
        <3> QED
            BY <1>1, <3>1, FileProofs!OpenStep, SameFile
    <2>3. CASE Settings!WriteFile(c)
        <3>1. FileProofs!WriteFile(c)
            BY <2>3 DEF Settings!WriteFile, FileProofs!WriteFile, Settings!Reported,
                FileProofs!Reported, Settings!Changed, FileProofs!Changed,
                Settings!Patched, FileProofs!Patched
        <3> QED
            BY <1>1, <3>1, HostFile, FileProofs!WriteStep, SameFile
    <2>4. CASE Settings!UpdateFails(c)
        <3>1. FileProofs!UpdateFails(c)
            BY <2>4 DEF Settings!UpdateFails, FileProofs!UpdateFails
        <3> QED
            BY <1>1, <3>1, FileProofs!FailStep, SameFile
    <2> QED
        BY <1>3, <2>1, <2>2, <2>3, <2>4
<1>4. ASSUME Settings!AppRestarts
      PROVE  Settings!FileInv'
    <2>1. FileProofs!AppRestarts
        BY <1>4 DEF Settings!AppRestarts, FileProofs!AppRestarts
    <2> QED
        BY <1>1, <2>1, FileProofs!RestartStep, SameFile
<1>5. ASSUME UNCHANGED Settings!fileVars
      PROVE  Settings!FileInv'
    <2>1. UNCHANGED FileProofs!fileVars
        BY <1>5 DEF Settings!fileVars, FileProofs!fileVars
    <2> QED
        BY <1>1, <2>1, FileProofs!NothingStep, SameFile
<1> QED
    BY <1>2, <1>3, <1>4, <1>5

\* The patches that the handlers apply.
LEMMA HandlersPatch ==
    /\ \A f \in HostFields : \A v \in Written[f] \cup {Unset} :
            /\ Settings!ChangeOf(f, v) \in Settings!Patches
            /\ Settings!ChangeOf(f, v)[f] = v
            /\ \A g \in HostFields : g # f => Settings!ChangeOf(f, v)[g] = "keep"
    /\ \A p \in Settings!Patches :
            /\ [p EXCEPT !["legacy"] = Unset] \in Settings!Patches
            /\ \A g \in HostFields : g # "legacy" => [p EXCEPT !["legacy"] = Unset][g] = p[g]
            /\ [p EXCEPT !["legacy"] = Unset]["legacy"] = Unset
<1> "legacy" \in HostFields
    BY DEF HostFields
<1>1. \A f \in HostFields : Written[f] \subseteq Settings!AnyInput
    <2> SUFFICES ASSUME NEW f \in HostFields PROVE Written[f] \subseteq Settings!AnyInput
        OBVIOUS
    <2>1. Written[f] \in {Written[g] : g \in HostFields}
        OBVIOUS
    <2> QED
        BY <2>1 DEF Settings!AnyInput
<1>2. Unset \in Settings!AnyInput /\ "keep" \in Settings!AnyInput
    BY DEF Settings!AnyInput
<1>3. ASSUME NEW f \in HostFields, NEW v \in Written[f] \cup {Unset}
      PROVE  /\ Settings!ChangeOf(f, v) \in Settings!Patches
             /\ Settings!ChangeOf(f, v)[f] = v
             /\ \A g \in HostFields : g # f => Settings!ChangeOf(f, v)[g] = "keep"
    <2> DEFINE p == Settings!ChangeOf(f, v)
    <2>1. p = [[g \in HostFields |-> "keep"] EXCEPT ![f] = v]
        BY DEF Settings!ChangeOf, Settings!NoChange
    <2>2. p[f] = v /\ \A g \in HostFields : g # f => p[g] = "keep"
        BY <2>1
    <2>3. p \in [HostFields -> Settings!AnyInput]
        BY <1>1, <1>2, <2>1
    <2>4. \A g \in HostFields : p[g] \in Written[g] \cup {Unset, "keep"}
        BY <2>2
    <2> QED
        BY <2>2, <2>3, <2>4 DEF Settings!Patches
<1>4. ASSUME NEW p \in Settings!Patches
      PROVE  LET q == [p EXCEPT !["legacy"] = Unset]
             IN  /\ q \in Settings!Patches /\ q["legacy"] = Unset
                 /\ \A g \in HostFields : g # "legacy" => q[g] = p[g]
    <2> DEFINE q == [p EXCEPT !["legacy"] = Unset]
    <2>1. /\ p \in [HostFields -> Settings!AnyInput]
          /\ \A g \in HostFields : p[g] \in Written[g] \cup {Unset, "keep"}
        BY DEF Settings!Patches
    <2>2. q["legacy"] = Unset /\ \A g \in HostFields : g # "legacy" => q[g] = p[g]
        BY <2>1
    <2>3. q \in [HostFields -> Settings!AnyInput]
        BY <1>2, <2>1
    <2>4. \A g \in HostFields : q[g] \in Written[g] \cup {Unset, "keep"}
        BY <2>1, <2>2
    <2> QED
        BY <2>2, <2>3, <2>4 DEF Settings!Patches
<1> QED
    BY <1>3, <1>4

LEMMA SettingsInit == Settings!Init => Settings!SettingsInv
<1> SUFFICES ASSUME Settings!Init PROVE Settings!SettingsInv
    OBVIOUS
<1>1. /\ before \in Settings!Contents /\ wanted = before /\ done = {} /\ login \in {"on", "off"}
      /\ previous = [c \in Calls |-> Unset] /\ sync = [phase |-> "asking", value |-> Unset]
      /\ alone = None /\ agreed = FALSE
    BY HostFile DEF Settings!Init, Settings!FileInit, Settings!Asking
<1>2. Settings!FileInv
    <2>1. FileProofs!FileInit(before)
        BY DEF Settings!Init, Settings!FileInit, FileProofs!FileInit, Settings!NoUpdate,
            FileProofs!NoUpdate, Settings!NoChange, FileProofs!NoChange, Settings!Nothing,
            FileProofs!Nothing
    <2>2. FileProofs!FileInv
        BY <1>1, <2>1, HostFile, FileProofs!FileStarts
    <2> QED
        BY <2>2, SameFile
<1>3. Settings!TypeOK
    BY <1>1, <1>2 DEF Settings!TypeOK, Settings!FileInv
<1>4. Settings!Launching = {}
    BY DEF Settings!Launching, Settings!Saving, Settings!Idle, Settings!Init,
        Settings!FileInit, Settings!NoUpdate
<1>5. Settings!LoginAhead
    BY <1>1, <1>4, HostFile DEF Settings!LoginAhead
<1>6. Settings!PasswordUntouched
    BY <1>1 DEF Settings!PasswordUntouched
<1> QED
    BY <1>2, <1>3, <1>5, <1>6 DEF Settings!SettingsInv

\* A handler is called: its call is under way and the others stay.
LEMMA HandlerBegins ==
    ASSUME Settings!SettingsInv, NEW c \in Calls, NEW p \in Settings!Patches,
           Settings!Start(c, p)
    PROVE  /\ Settings!FileInv' /\ UNCHANGED wanted
           /\ c \notin Settings!Launching
           /\ Settings!Launching' = IF p["launchOnStartup"] = "keep" THEN Settings!Launching
                                    ELSE Settings!Launching \cup {c}
           /\ op'[c].patch = p
           /\ \A d \in Calls : d # c => op'[d] = op[d]
<1>1. Settings!FileInv'
    BY FileSteps DEF Settings!SettingsInv
<1>2. /\ wanted' = wanted /\ Settings!Idle(c)
      /\ op' = [d \in Calls |->
            IF d \in {c} THEN [Settings!NoUpdate EXCEPT !.phase = "begun", !.patch = p]
            ELSE op[d]]
    BY DEF Settings!Start, Settings!Begin
<1>3. op'[c] = [Settings!NoUpdate EXCEPT !.phase = "begun", !.patch = p]
    BY <1>2
<1>4. op'[c].phase = "begun" /\ op'[c].patch = p
    BY <1>3 DEF Settings!NoUpdate
<1>5. \A d \in Calls : d # c => op'[d] = op[d]
    BY <1>2
<1> QED
    BY <1>1, <1>2, <1>4, <1>5 DEF Settings!Launching, Settings!Saving, Settings!Idle

\* A call that begins and leaves the login item alone.
LEMMA OtherHandlerStep ==
    ASSUME Settings!SettingsInv, NEW c \in Calls, NEW p \in Settings!Patches,
           p["launchOnStartup"] = "keep", Settings!Start(c, p), UNCHANGED Settings!hostVars
    PROVE  Settings!SettingsInv'
<1>1. /\ Settings!FileInv' /\ wanted' = wanted
      /\ Settings!Launching' = Settings!Launching
      /\ \A d \in Settings!Launching : op'[d] = op[d]
    BY HandlerBegins DEF Settings!Launching, Settings!Saving
<1>2. UNCHANGED <<before, done, login, previous, sync, alone, agreed>>
    BY DEF Settings!hostVars
<1>3. Settings!TypeOK'
    BY <1>1, <1>2 DEF Settings!SettingsInv, Settings!TypeOK, Settings!FileInv,
        Settings!Contents
<1>4. Settings!LoginAhead'
    BY <1>1, <1>2 DEF Settings!SettingsInv, Settings!LoginAhead
<1>5. Settings!PasswordUntouched'
    BY <1>1, <1>2 DEF Settings!SettingsInv, Settings!PasswordUntouched
<1> QED
    BY <1>1, <1>3, <1>4, <1>5 DEF Settings!SettingsInv

\* The handler for launch settings moves the login item before it saves.
LEMMA LaunchStep ==
    ASSUME Settings!SettingsInv, NEW c \in Calls, NEW b \in {"on", "off"},
           Settings!SetLaunchSettings(c, b)
    PROVE  Settings!SettingsInv'
<1> DEFINE p == [Settings!ChangeOf("launchOnStartup", b) EXCEPT !["legacy"] = Unset]
<1>1. p \in Settings!Patches /\ p["launchOnStartup"] = b /\ b # "keep"
    <2>1. "launchOnStartup" \in HostFields /\ b \in Written["launchOnStartup"]
        BY HostFile DEF HostFields
    <2>2. /\ Settings!ChangeOf("launchOnStartup", b) \in Settings!Patches
          /\ Settings!ChangeOf("launchOnStartup", b)["launchOnStartup"] = b
        BY <2>1, HandlersPatch
    <2>3. "launchOnStartup" # "legacy" /\ b # "keep"
        OBVIOUS
    <2> QED
        BY <2>1, <2>2, <2>3, HandlersPatch
<1>2. Settings!Start(c, p)
    BY DEF Settings!SetLaunchSettings
<1> HIDE DEF p
<1>3. /\ Settings!FileInv' /\ wanted' = wanted /\ c \notin Settings!Launching
      /\ Settings!Launching' = Settings!Launching \cup {c} /\ op'[c].patch = p
    BY <1>1, <1>2, HandlerBegins
<1>4. /\ previous' = [previous EXCEPT ![c] = login] /\ login' = b
      /\ UNCHANGED <<before, done, sync>>
    BY DEF Settings!SetLaunchSettings
<1>5. /\ previous \in [Calls -> {"on", "off", Unset}] /\ login \in {"on", "off"}
      /\ alone \in Calls \cup {"start", None} /\ agreed \in BOOLEAN
    BY DEF Settings!SettingsInv, Settings!TypeOK
<1>6. previous'[c] = login /\ \A d \in Calls : d # c => previous'[d] = previous[d]
    BY <1>4, <1>5
<1>7. \/ /\ Settings!Launching = {} /\ sync.phase # "answered"
         /\ alone' = c /\ agreed' = agreed
      \/ alone' = None /\ agreed' = FALSE
    BY DEF Settings!SetLaunchSettings, Settings!Moves
<1>8. Settings!TypeOK'
    <2>1. previous' \in [Calls -> {"on", "off", Unset}]
        BY <1>4, <1>5
    <2>2. alone' \in Calls \cup {"start", None} /\ agreed' \in BOOLEAN
        BY <1>5, <1>7
    <2> QED
        BY <1>3, <1>4, <2>1, <2>2 DEF Settings!SettingsInv, Settings!TypeOK, Settings!FileInv,
            Settings!Contents
<1>9. \A d \in Settings!Launching' : previous'[d] # Unset
    <2>1. \A d \in Settings!Launching : previous[d] # Unset /\ d \in Calls
        BY DEF Settings!SettingsInv, Settings!LoginAhead, Settings!Launching, Settings!Saving
    <2> QED
        BY <1>3, <1>5, <1>6, <2>1, HostFile
<1>10. Settings!LoginAhead'
    <2>1. CASE /\ Settings!Launching = {} /\ sync.phase # "answered"
               /\ alone' = c /\ agreed' = agreed
        <3>1. Settings!Launching' = {c} /\ c # None /\ c # "start"
            BY <1>3, <2>1, HostFile
        <3>2. alone \notin Calls
            BY <2>1 DEF Settings!SettingsInv, Settings!LoginAhead
        <3>3. agreed => wanted["launchOnStartup"] \in {login, Unset}
            BY <3>2 DEF Settings!SettingsInv, Settings!LoginAhead
        <3> QED
            BY <1>1, <1>3, <1>4, <1>6, <1>9, <2>1, <3>1, <3>3 DEF Settings!LoginAhead
    <2>2. CASE alone' = None /\ agreed' = FALSE
        BY <1>9, <2>2, HostFile DEF Settings!LoginAhead
    <2> QED
        BY <1>7, <2>1, <2>2
<1>11. Settings!PasswordUntouched'
    BY <1>3, <1>4 DEF Settings!SettingsInv, Settings!PasswordUntouched
<1> QED
    BY <1>3, <1>8, <1>10, <1>11 DEF Settings!SettingsInv

\* A call reads the file or opens it.
LEMMA ProceedStep ==
    ASSUME Settings!SettingsInv, NEW c \in Calls, Settings!UpdateProceeds(c)
    PROVE  Settings!SettingsInv'
<1>1. UNCHANGED <<before, done, login, previous, sync, alone, agreed, wanted>>
    BY DEF Settings!UpdateProceeds, Settings!hostVars, Settings!ReadFile, Settings!OpenFile
<1>2. Settings!FileInv'
    BY FileSteps DEF Settings!UpdateProceeds, Settings!SettingsInv
<1>3. op \in [Calls -> [phase : {"idle", "begun", "read", "open"}, patch : Settings!Patches,
                       read : Settings!Contents, stale : BOOLEAN]]
    BY DEF Settings!SettingsInv, Settings!TypeOK, Settings!FileTypeOK
<1>4. \A d \in Calls : /\ op'[d].patch = op[d].patch
                       /\ op'[d].phase = "idle" <=> op[d].phase = "idle"
    <2>1. CASE Settings!ReadFile(c)
        BY <1>3, <2>1 DEF Settings!ReadFile
    <2>2. CASE Settings!OpenFile(c)
        <3>1. op[c].phase = "read" /\ op' = [d \in Calls |->
                IF d = c THEN [op[c] EXCEPT !.phase = "open"]
                ELSE IF op[d].phase \in {"read", "open"} THEN [op[d] EXCEPT !.stale = TRUE]
                ELSE op[d]]
            BY <2>2 DEF Settings!OpenFile
        <3> QED
            BY <1>3, <3>1
    <2> QED
        BY <2>1, <2>2 DEF Settings!UpdateProceeds
<1>5. Settings!Launching' = Settings!Launching /\ Settings!Launching \subseteq Calls
    BY <1>4 DEF Settings!Launching, Settings!Saving, Settings!Idle
<1>6. Settings!TypeOK'
    BY <1>1, <1>2 DEF Settings!SettingsInv, Settings!TypeOK, Settings!FileInv,
        Settings!Contents
<1>7. Settings!LoginAhead'
    BY <1>1, <1>4, <1>5 DEF Settings!SettingsInv, Settings!LoginAhead
<1>8. Settings!PasswordUntouched'
    BY <1>1 DEF Settings!SettingsInv, Settings!PasswordUntouched
<1> QED
    BY <1>2, <1>6, <1>7, <1>8 DEF Settings!SettingsInv

\* A call is over: it is not under way any more, and the others stay.
LEMMA HandlerEnds ==
    ASSUME Settings!SettingsInv, NEW c \in Calls, op' = [op EXCEPT ![c] = Settings!NoUpdate]
    PROVE  /\ Settings!Launching \subseteq Calls
           /\ Settings!Launching' = Settings!Launching \ {c}
           /\ \A d \in Calls : d # c => op'[d] = op[d]
<1>1. op \in [Calls -> [phase : {"idle", "begun", "read", "open"}, patch : Settings!Patches,
                       read : Settings!Contents, stale : BOOLEAN]]
    BY DEF Settings!SettingsInv, Settings!TypeOK, Settings!FileTypeOK
<1>2. op'[c] = Settings!NoUpdate /\ \A d \in Calls : d # c => op'[d] = op[d]
    BY <1>1
<1>3. Settings!NoUpdate.phase = "idle"
    BY DEF Settings!NoUpdate
<1> QED
    BY <1>2, <1>3 DEF Settings!Launching, Settings!Saving, Settings!Idle

\* A change of the login item is saved, or another field: what is reported is what
\* the call set.
LEMMA EndStep ==
    ASSUME Settings!SettingsInv, NEW c \in Calls, Settings!UpdateEnds(c)
    PROVE  Settings!SettingsInv'
<1> DEFINE patch == op[c].patch
<1>1. /\ Settings!WriteFile(c) /\ op[c].phase = "open"
      /\ op' = [op EXCEPT ![c] = Settings!NoUpdate]
      /\ wanted' = [f \in HostFields |->
                        IF patch[f] = "keep" THEN wanted[f]
                        ELSE Settings!Changed(op[c].read, patch)[f]]
      /\ done' = done \cup (Settings!Patched(patch) \cap {"hash", "legacy"})
      /\ previous' = [previous EXCEPT ![c] = Unset]
      /\ UNCHANGED <<before, login, sync>>
    BY DEF Settings!UpdateEnds, Settings!WriteFile, Settings!Reported
<1>2. /\ patch \in Settings!Patches
      /\ previous \in [Calls -> {"on", "off", Unset}]
      /\ alone \in Calls \cup {"start", None} /\ agreed \in BOOLEAN
      /\ op \in [Calls -> [phase : {"idle", "begun", "read", "open"},
                           patch : Settings!Patches, read : Settings!Contents,
                           stale : BOOLEAN]]
    BY DEF Settings!SettingsInv, Settings!TypeOK, Settings!FileTypeOK
<1> HIDE DEF patch
<1>3. /\ Settings!Launching \subseteq Calls
      /\ Settings!Launching' = Settings!Launching \ {c}
      /\ \A d \in Calls : d # c => op'[d] = op[d]
    BY <1>1, HandlerEnds
<1>4. Settings!FileInv'
    BY <1>1, FileSteps DEF Settings!SettingsInv
<1>5. \A f \in HostFields : wanted'[f] = IF patch[f] = "keep" THEN wanted[f] ELSE patch[f]
    <2> SUFFICES ASSUME NEW f \in HostFields
                 PROVE  wanted'[f] = IF patch[f] = "keep" THEN wanted[f] ELSE patch[f]
        OBVIOUS
    <2>1. Settings!Changed(op[c].read, patch)[f] =
            IF patch[f] = "keep" THEN op[c].read[f]
            ELSE IF patch[f] = Unset THEN Unset ELSE patch[f]
        BY DEF Settings!Changed, AsGiven
    <2> QED
        BY <1>1, <2>1
<1>6. c \in Settings!Launching <=> patch["launchOnStartup"] # "keep"
    BY <1>1 DEF patch, Settings!Launching, Settings!Saving, Settings!Idle
<1>7. \A d \in Calls : d # c => previous'[d] = previous[d]
    BY <1>1, <1>2
<1>8. /\ agreed' = (agreed \/ (c \in Settings!Launching /\ alone = c))
      /\ alone' = IF c \in Settings!Launching /\ alone = c THEN None ELSE alone
    <2>1. CASE c \in Settings!Launching
        <3>1. agreed' = (agreed \/ alone = c) /\ alone' = IF alone = c THEN None ELSE alone
            BY <2>1 DEF Settings!UpdateEnds, Settings!Settles
        <3> QED
            BY <2>1, <3>1
    <2>2. CASE c \notin Settings!Launching
        <3>1. agreed' = agreed /\ alone' = alone
            BY <2>2 DEF Settings!UpdateEnds
        <3> QED
            BY <1>2, <2>2, <3>1
    <2> QED
        BY <2>1, <2>2
<1>9. Settings!TypeOK'
    <2>1. previous' \in [Calls -> {"on", "off", Unset}]
        BY <1>1, <1>2
    <2>2. alone' \in Calls \cup {"start", None} /\ agreed' \in BOOLEAN
        BY <1>2, <1>8
    <2>3. done' \in SUBSET {"hash", "legacy"}
        BY <1>1 DEF Settings!SettingsInv, Settings!TypeOK
    <2> QED
        BY <1>1, <1>4, <2>1, <2>2, <2>3 DEF Settings!SettingsInv, Settings!TypeOK,
            Settings!FileInv, Settings!Contents
<1>10. Settings!LoginAhead'
    <2> DEFINE l == "launchOnStartup"
    <2>0. l \in HostFields
        BY DEF HostFields
    <2>1. \A d \in Settings!Launching' : d \in Settings!Launching /\ d # c
                                         /\ op'[d] = op[d] /\ previous'[d] # Unset
        BY <1>3, <1>7 DEF Settings!SettingsInv, Settings!LoginAhead
    <2>2. CASE c \in Settings!Launching /\ alone = c
        <3>1. Settings!Launching' = {}
            BY <1>3, <2>2, HostFile DEF Settings!SettingsInv, Settings!LoginAhead
        <3>2. login = patch[l] /\ sync.phase # "answered"
            BY <2>2 DEF patch, Settings!SettingsInv, Settings!LoginAhead
        <3>3. wanted'[l] = login
            BY <1>5, <1>6, <2>0, <2>2, <3>2
        <3>4. alone' = None /\ agreed' = TRUE
            BY <1>8, <2>2
        <3> QED
            BY <1>1, <3>1, <3>2, <3>3, <3>4, HostFile DEF Settings!LoginAhead
    <2>3. CASE c \in Settings!Launching /\ alone # c
        <3>1. agreed = FALSE /\ alone = None
            BY <1>2, <2>3 DEF Settings!SettingsInv, Settings!LoginAhead
        <3>2. alone' = None /\ agreed' = FALSE
            BY <1>8, <2>3, <3>1
        <3> QED
            BY <2>1, <3>2, HostFile DEF Settings!LoginAhead
    <2>4. CASE c \notin Settings!Launching
        <3>1. wanted'[l] = wanted[l] /\ Settings!Launching' = Settings!Launching
            BY <1>3, <1>5, <1>6, <2>0, <2>4
        <3>2. alone' = alone /\ agreed' = agreed
            BY <1>2, <1>8, <2>4
        <3>3. alone \in Calls => alone # c /\ op'[alone] = op[alone]
                                 /\ previous'[alone] = previous[alone]
            BY <1>3, <1>7, <2>4 DEF Settings!SettingsInv, Settings!LoginAhead
        <3> QED
            BY <1>1, <2>1, <3>1, <3>2, <3>3 DEF Settings!SettingsInv, Settings!LoginAhead
    <2> QED
        BY <2>2, <2>3, <2>4
<1>11. Settings!PasswordUntouched'
    <2>1. "hash" \in HostFields /\ "legacy" \in HostFields
        BY DEF HostFields
    <2>2. patch["legacy"] \in {Unset, "keep"}
        BY <1>2, <2>1, HostFile DEF Settings!Patches
    <2>3. \A f \in {"hash", "legacy"} : f \in done' <=> f \in done \/ patch[f] # "keep"
        BY <1>1, <2>1 DEF Settings!Patched
    <2>4. "hash" \notin done' => wanted'["hash"] = before["hash"]
        BY <1>5, <2>1, <2>3 DEF Settings!SettingsInv, Settings!PasswordUntouched
    <2>5. wanted'["legacy"] = IF "legacy" \in done' THEN Unset ELSE before["legacy"]
        BY <1>5, <2>1, <2>2, <2>3 DEF Settings!SettingsInv, Settings!PasswordUntouched
    <2> QED
        BY <1>1, <2>4, <2>5 DEF Settings!PasswordUntouched
<1> QED
    BY <1>4, <1>9, <1>10, <1>11 DEF Settings!SettingsInv

\* Saving failed: the login item is what it was before.
LEMMA RefusedStep ==
    ASSUME Settings!SettingsInv, NEW c \in Calls, Settings!UpdateRefused(c)
    PROVE  Settings!SettingsInv'
<1>1. /\ Settings!UpdateFails(c) /\ ~Settings!Idle(c)
      /\ op' = [op EXCEPT ![c] = Settings!NoUpdate]
      /\ previous' = [previous EXCEPT ![c] = Unset]
      /\ UNCHANGED <<wanted, before, done, sync>>
    BY DEF Settings!UpdateRefused, Settings!UpdateFails, Settings!GivenUp
<1>2. /\ previous \in [Calls -> {"on", "off", Unset}] /\ login \in {"on", "off"}
      /\ alone \in Calls \cup {"start", None} /\ agreed \in BOOLEAN
    BY DEF Settings!SettingsInv, Settings!TypeOK
<1>3. /\ Settings!Launching \subseteq Calls
      /\ Settings!Launching' = Settings!Launching \ {c}
      /\ \A d \in Calls : d # c => op'[d] = op[d]
    BY <1>1, HandlerEnds
<1>4. Settings!FileInv'
    BY <1>1, FileSteps DEF Settings!SettingsInv
<1>5. \A d \in Calls : d # c => previous'[d] = previous[d]
    BY <1>1, <1>2
<1>6. \A d \in Settings!Launching' : d \in Settings!Launching /\ d # c
                                     /\ op'[d] = op[d] /\ previous'[d] # Unset
    BY <1>3, <1>5 DEF Settings!SettingsInv, Settings!LoginAhead
<1>7. CASE c \in Settings!Launching
    <2>1. /\ login' = previous[c] /\ agreed' = agreed
          /\ alone' = IF alone = c THEN None ELSE alone
        BY <1>7 DEF Settings!UpdateRefused, Settings!SetBack
    <2>2. previous[c] \in {"on", "off"}
        BY <1>2, <1>7 DEF Settings!SettingsInv, Settings!LoginAhead
    <2>3. Settings!TypeOK'
        <3>1. previous' \in [Calls -> {"on", "off", Unset}]
            BY <1>1, <1>2
        <3>2. alone' \in Calls \cup {"start", None} /\ agreed' \in BOOLEAN
            BY <1>2, <2>1
        <3> QED
            BY <1>1, <1>4, <2>1, <2>2, <3>1, <3>2 DEF Settings!SettingsInv, Settings!TypeOK,
                Settings!FileInv, Settings!Contents
    <2>6. Settings!LoginAhead'
        <3>1. ASSUME alone = c PROVE Settings!LoginAhead'
            <4>1. Settings!Launching' = {} /\ alone' = None
                BY <1>3, <2>1, <3>1, HostFile DEF Settings!SettingsInv, Settings!LoginAhead
            <4>2. /\ sync.phase # "answered"
                  /\ agreed => wanted["launchOnStartup"] \in {previous[c], Unset}
                BY <3>1 DEF Settings!SettingsInv, Settings!LoginAhead
            <4> QED
                BY <1>1, <2>1, <4>1, <4>2, HostFile DEF Settings!LoginAhead
        <3>2. ASSUME alone # c PROVE Settings!LoginAhead'
            <4>1. agreed = FALSE /\ alone = None
                BY <1>2, <1>7, <3>2 DEF Settings!SettingsInv, Settings!LoginAhead
            <4> QED
                BY <1>6, <2>1, <4>1, HostFile DEF Settings!LoginAhead
        <3> QED
            BY <3>1, <3>2
    <2>7. Settings!PasswordUntouched'
        BY <1>1 DEF Settings!SettingsInv, Settings!PasswordUntouched
    <2> QED
        BY <1>4, <2>3, <2>6, <2>7 DEF Settings!SettingsInv
<1>8. CASE c \notin Settings!Launching
    <2>1. UNCHANGED <<login, alone, agreed>>
        BY <1>8 DEF Settings!UpdateRefused
    <2>2. Settings!Launching' = Settings!Launching
        BY <1>3, <1>8
    <2>3. alone \in Calls => alone # c /\ op'[alone] = op[alone]
                             /\ previous'[alone] = previous[alone]
        BY <1>3, <1>5, <1>8 DEF Settings!SettingsInv, Settings!LoginAhead
    <2>4. Settings!TypeOK'
        <3>1. previous' \in [Calls -> {"on", "off", Unset}]
            BY <1>1, <1>2
        <3> QED
            BY <1>1, <1>4, <2>1, <3>1 DEF Settings!SettingsInv, Settings!TypeOK,
                Settings!FileInv, Settings!Contents
    <2>5. Settings!LoginAhead'
        BY <1>1, <1>6, <2>1, <2>2, <2>3 DEF Settings!SettingsInv, Settings!LoginAhead
    <2>6. Settings!PasswordUntouched'
        BY <1>1 DEF Settings!SettingsInv, Settings!PasswordUntouched
    <2> QED
        BY <1>4, <2>4, <2>5, <2>6 DEF Settings!SettingsInv
<1> QED
    BY <1>7, <1>8

\* The start of the app moves the login item to what the backend answered, whoever
\* moved it meanwhile.
LEMMA SyncStep ==
    ASSUME Settings!SettingsInv,
           Settings!SyncAnswered \/ Settings!SyncGivesUp \/ Settings!SyncLaunchOnStartup
    PROVE  Settings!SettingsInv'
<1> DEFINE l == "launchOnStartup"
<1>1. UNCHANGED Settings!fileVars /\ UNCHANGED <<op, wanted, before, done, previous>>
    BY DEF Settings!SyncAnswered, Settings!SyncGivesUp, Settings!SyncLaunchOnStartup,
        Settings!fileVars
<1>2. Settings!FileInv'
    BY <1>1, FileSteps DEF Settings!SettingsInv
<1>3. Settings!PasswordUntouched'
    BY <1>1 DEF Settings!SettingsInv, Settings!PasswordUntouched
<1>4. Settings!Launching' = Settings!Launching /\ Settings!Launching \subseteq Calls
    BY <1>1 DEF Settings!Launching, Settings!Saving, Settings!Idle
<1>5. /\ login \in {"on", "off"} /\ alone \in Calls \cup {"start", None} /\ agreed \in BOOLEAN
      /\ sync \in [phase : {"asking", "answered", "over"}, value : {"on", "off", Unset}]
    BY DEF Settings!SettingsInv, Settings!TypeOK
<1>6. CASE Settings!SyncAnswered
    <2>1. /\ sync.phase = "asking" /\ login' = login
          /\ sync' = [phase |-> "answered", value |-> Settings!readSettings[l]]
        BY <1>6 DEF Settings!SyncAnswered
    <2>2. \/ /\ Settings!Open = {} /\ l \notin atRisk /\ Settings!Launching = {}
             /\ alone' = "start" /\ agreed' = agreed
          \/ alone' = None /\ agreed' = FALSE
        BY <1>6 DEF Settings!SyncAnswered, Settings!Moves
    <2>3. Settings!readSettings[l] \in {"on", "off", Unset}
        <3>1. l \in HostFields /\ HostStored[l] = {"on", "off"}
            BY DEF HostFields, HostStored
        <3>2. FileProofs!FileTypeOK
            BY SameFile DEF Settings!SettingsInv, FileProofs!FileInv
        <3>3. FileProofs!readSettings \in FileProofs!Contents
            BY <3>2, FileProofs!Readable
        <3>4. Settings!readSettings = FileProofs!readSettings
            BY DEF Settings!readSettings, FileProofs!readSettings, Settings!Nothing,
                FileProofs!Nothing
        <3> QED
            BY <3>1, <3>3, <3>4 DEF FileProofs!Contents
    <2>4. Settings!TypeOK'
        <3>1. /\ sync' \in [phase : {"asking", "answered", "over"}, value : {"on", "off", Unset}]
              /\ alone' \in Calls \cup {"start", None} /\ agreed' \in BOOLEAN
            BY <1>5, <2>1, <2>2, <2>3
        <3> QED
            BY <1>1, <1>2, <2>1, <3>1 DEF Settings!SettingsInv, Settings!TypeOK,
                Settings!FileInv, Settings!Contents
    <2>5. Settings!LoginAhead'
        <3>1. CASE alone' = None /\ agreed' = FALSE
            BY <1>1, <1>4, <3>1, HostFile DEF Settings!SettingsInv, Settings!LoginAhead
        <3>2. CASE /\ Settings!Open = {} /\ l \notin atRisk /\ Settings!Launching = {}
                   /\ alone' = "start" /\ agreed' = agreed
            <4>1. l \in HostFields
                BY DEF HostFields
            <4>2. Settings!readSettings[l] = wanted[l]
                BY <3>2, <4>1 DEF Settings!SettingsInv, Settings!FileInv,
                    Settings!UpdatesSurvive
            <4>3. alone \notin Calls /\ (agreed => wanted[l] \in {login, Unset})
                BY <3>2 DEF Settings!SettingsInv, Settings!LoginAhead
            <4> QED
                BY <1>1, <1>4, <2>1, <3>2, <4>2, <4>3, HostFile DEF Settings!LoginAhead
        <3> QED
            BY <2>2, <3>1, <3>2
    <2> QED
        BY <1>2, <1>3, <2>4, <2>5 DEF Settings!SettingsInv
<1>7. CASE Settings!SyncGivesUp
    <2>1. /\ sync.phase = "asking" /\ sync' = [sync EXCEPT !.phase = "over"]
          /\ UNCHANGED <<login, alone, agreed>>
        BY <1>7 DEF Settings!SyncGivesUp
    <2>2. sync'.phase = "over" /\ sync'.value \in {"on", "off", Unset}
          /\ sync' \in [phase : {"asking", "answered", "over"}, value : {"on", "off", Unset}]
        BY <1>5, <2>1
    <2>3. Settings!TypeOK'
        BY <1>1, <1>2, <2>1, <2>2 DEF Settings!SettingsInv, Settings!TypeOK,
            Settings!FileInv, Settings!Contents
    <2>4. Settings!LoginAhead'
        BY <1>1, <1>4, <2>1, <2>2 DEF Settings!SettingsInv, Settings!LoginAhead
    <2> QED
        BY <1>2, <1>3, <2>3, <2>4 DEF Settings!SettingsInv
<1>8. CASE Settings!SyncLaunchOnStartup
    <2>1. /\ sync.phase = "answered" /\ sync' = [sync EXCEPT !.phase = "over"]
          /\ login' = IF sync.value = Unset THEN login ELSE sync.value
          /\ agreed' = (agreed \/ alone = "start")
          /\ alone' = IF alone = "start" THEN None ELSE alone
        BY <1>8 DEF Settings!SyncLaunchOnStartup, Settings!Settles
    <2>2. sync'.phase = "over"
          /\ sync' \in [phase : {"asking", "answered", "over"}, value : {"on", "off", Unset}]
        BY <1>5, <2>1
    <2>3. Settings!TypeOK'
        <3>1. /\ login' \in {"on", "off"}
              /\ alone' \in Calls \cup {"start", None} /\ agreed' \in BOOLEAN
            BY <1>5, <2>1
        <3> QED
            BY <1>1, <1>2, <2>2, <3>1 DEF Settings!SettingsInv, Settings!TypeOK,
                Settings!FileInv, Settings!Contents
    <2>4. Settings!LoginAhead'
        <3>1. CASE alone = "start"
            <4>1. /\ Settings!Launching = {} /\ sync.value = wanted[l]
                BY <1>4, <3>1, HostFile DEF Settings!SettingsInv, Settings!LoginAhead
            <4>2. alone' = None /\ wanted'[l] \in {login', Unset}
                BY <1>1, <2>1, <3>1, <4>1
            <4> QED
                BY <1>4, <2>2, <4>1, <4>2, HostFile DEF Settings!LoginAhead
        <3>2. CASE alone # "start"
            <4>1. agreed = FALSE /\ alone = None
                BY <1>5, <2>1, <3>2 DEF Settings!SettingsInv, Settings!LoginAhead
            <4>2. agreed' = FALSE /\ alone' = None
                BY <2>1, <3>2, <4>1
            <4> QED
                BY <1>1, <1>4, <4>2, HostFile DEF Settings!SettingsInv, Settings!LoginAhead
        <3> QED
            BY <3>1, <3>2
    <2> QED
        BY <1>2, <1>3, <2>3, <2>4 DEF Settings!SettingsInv
<1> QED
    BY <1>6, <1>7, <1>8

LEMMA RestartedStep ==
    ASSUME Settings!SettingsInv, Settings!Restart
    PROVE  Settings!SettingsInv'
<1>1. /\ Settings!AppRestarts /\ op' = [c \in Calls |-> Settings!NoUpdate]
      /\ previous' = [c \in Calls |-> Unset]
      /\ sync' = [phase |-> "asking", value |-> Unset]
      /\ alone' = None /\ agreed' = (agreed /\ Settings!Launching = {})
      /\ UNCHANGED <<wanted, before, done, login>>
    BY DEF Settings!Restart, Settings!AppRestarts, Settings!GivenUp, Settings!Asking
<1>2. Settings!FileInv'
    BY <1>1, FileSteps DEF Settings!SettingsInv
<1>3. Settings!Launching' = {}
    BY <1>1 DEF Settings!Launching, Settings!Saving, Settings!Idle, Settings!NoUpdate
<1>4. Settings!TypeOK'
    <2>1. /\ previous' \in [Calls -> {"on", "off", Unset}]
          /\ sync' \in [phase : {"asking", "answered", "over"}, value : {"on", "off", Unset}]
          /\ alone' \in Calls \cup {"start", None} /\ agreed' \in BOOLEAN
        BY <1>1
    <2> QED
        BY <1>1, <1>2, <2>1 DEF Settings!SettingsInv, Settings!TypeOK, Settings!FileInv,
            Settings!Contents
<1>5. Settings!LoginAhead'
    <2>1. agreed /\ Settings!Launching = {} => wanted["launchOnStartup"] \in {login, Unset}
        BY DEF Settings!SettingsInv, Settings!LoginAhead
    <2> QED
        BY <1>1, <1>3, <2>1, HostFile DEF Settings!LoginAhead
<1>6. Settings!PasswordUntouched'
    BY <1>1 DEF Settings!SettingsInv, Settings!PasswordUntouched
<1> QED
    BY <1>2, <1>4, <1>5, <1>6 DEF Settings!SettingsInv

LEMMA SettingsNext == Settings!SettingsInv /\ Settings!Next => Settings!SettingsInv'
<1> SUFFICES ASSUME Settings!SettingsInv, Settings!Next PROVE Settings!SettingsInv'
    OBVIOUS
<1>1. /\ "hash" \in HostFields /\ "requireApproval" \in HostFields
      /\ "launchOnStartup" \in HostFields
    BY DEF HostFields
<1>2. ASSUME NEW c \in Calls, NEW v \in Written["hash"] \cup {Unset},
             Settings!SetHostAccessPassword(c, v)
      PROVE  Settings!SettingsInv'
    <2> DEFINE p == Settings!PasswordPatch(v)
    <2>1. p \in Settings!Patches /\ p["launchOnStartup"] = "keep"
        <3>1. /\ Settings!ChangeOf("hash", v) \in Settings!Patches
              /\ Settings!ChangeOf("hash", v)["launchOnStartup"] = "keep"
            BY <1>1, HandlersPatch
        <3> QED
            BY <1>1, <3>1, HandlersPatch DEF Settings!PasswordPatch
    <2>2. Settings!Start(c, p) /\ UNCHANGED Settings!hostVars
        BY <1>2 DEF Settings!SetHostAccessPassword
    <2> HIDE DEF p
    <2> QED
        BY <2>1, <2>2, OtherHandlerStep
<1>3. ASSUME NEW c \in Calls, NEW b \in Written["requireApproval"],
             Settings!SetRequireViewerApproval(c, b)
      PROVE  Settings!SettingsInv'
    <2> DEFINE p == Settings!ChangeOf("requireApproval", b)
    <2>1. p \in Settings!Patches /\ p["launchOnStartup"] = "keep"
        BY <1>1, HandlersPatch
    <2>2. Settings!Start(c, p) /\ UNCHANGED Settings!hostVars
        BY <1>3 DEF Settings!SetRequireViewerApproval
    <2> HIDE DEF p
    <2> QED
        BY <2>1, <2>2, OtherHandlerStep
<1>4. ASSUME NEW c \in Calls,
             \/ \E b \in {"on", "off"} : Settings!SetLaunchSettings(c, b)
             \/ Settings!UpdateProceeds(c)
             \/ Settings!UpdateEnds(c)
             \/ Settings!UpdateRefused(c)
      PROVE  Settings!SettingsInv'
    BY <1>4, LaunchStep, ProceedStep, EndStep, RefusedStep
<1>5. CASE \/ Settings!SyncAnswered \/ Settings!SyncGivesUp \/ Settings!SyncLaunchOnStartup
           \/ Settings!Restart
    BY <1>5, SyncStep, RestartedStep
<1> QED
    BY <1>2, <1>3, <1>4, <1>5 DEF Settings!Next

LEMMA SettingsStep == Settings!SettingsInv /\ [HostNext]_hostVars => Settings!SettingsInv'
<1>1. ASSUME Settings!SettingsInv, UNCHANGED Settings!vars
      PROVE  Settings!SettingsInv'
    <2>1. UNCHANGED Settings!fileVars
          /\ UNCHANGED <<op, wanted, before, done, login, previous, sync, alone, agreed>>
        BY <1>1 DEF Settings!vars, Settings!fileVars, Settings!hostVars
    <2>2. Settings!FileInv'
        BY <1>1, <2>1, FileSteps DEF Settings!SettingsInv
    <2>3. Settings!TypeOK'
        BY <1>1, <2>1, <2>2 DEF Settings!SettingsInv, Settings!TypeOK, Settings!FileInv,
            Settings!Contents
    <2>4. Settings!LoginAhead' /\ Settings!PasswordUntouched'
        BY <1>1, <2>1 DEF Settings!SettingsInv, Settings!LoginAhead,
            Settings!PasswordUntouched, Settings!Launching, Settings!Saving, Settings!Idle
    <2> QED
        BY <2>2, <2>3, <2>4 DEF Settings!SettingsInv
<1> QED
    BY <1>1, SettingsNext, PartSteps

\* While nobody has the file open it holds what was reported as saved, and the same
\* passwords are accepted as long as none was set.
LEMMA SettingsAddUp ==
    ASSUME Settings!SettingsInv
    PROVE  /\ Settings!TypeOK /\ Settings!UpdatesSurvive
           /\ Settings!LoginFollowsSettings /\ Settings!PasswordKept
<1>1. /\ Settings!TypeOK /\ Settings!UpdatesSurvive /\ Settings!LoginAhead
      /\ Settings!PasswordUntouched
    BY DEF Settings!SettingsInv, Settings!FileInv
<1>2. Settings!LoginFollowsSettings
    <2>1. Settings!Launching = {} => alone \notin Calls
        BY <1>1 DEF Settings!LoginAhead
    <2> QED
        BY <1>1, <2>1 DEF Settings!LoginFollowsSettings, Settings!LoginAhead
<1>3. Settings!PasswordKept
    <2> DEFINE kept == IF "legacy" \in done THEN [before EXCEPT !["legacy"] = Unset] ELSE before
    <2> SUFFICES ASSUME Settings!Open = {}, "hash" \notin done,
                        {"hash", "legacy"} \cap atRisk = {}, NEW v \in Passwords
                 PROVE  Settings!Accepts(Settings!readSettings, v) <=> Settings!Accepts(kept, v)
        BY DEF Settings!PasswordKept
    <2>1. "hash" \in HostFields /\ "legacy" \in HostFields
        BY DEF HostFields
    <2>2. /\ Settings!readSettings["hash"] = before["hash"]
          /\ Settings!readSettings["legacy"] = IF "legacy" \in done THEN Unset
                                               ELSE before["legacy"]
        BY <1>1, <2>1 DEF Settings!UpdatesSurvive, Settings!PasswordUntouched
    <2>3. kept["hash"] = before["hash"]
          /\ kept["legacy"] = IF "legacy" \in done THEN Unset ELSE before["legacy"]
        <3>1. before \in [HostFields -> Settings!AnyStored]
            BY <1>1 DEF Settings!TypeOK, Settings!Contents
        <3> QED
            BY <2>1, <3>1
    <2> HIDE DEF kept
    <2> QED
        BY <2>2, <2>3 DEF Settings!Accepts
<1> QED
    BY <1>1, <1>2, <1>3

\* However the handlers overlap, fail and are killed: the logs stay in the order of
\* their age; a field of the settings that was not written over unseen is in the file
\* as it was reported; the login item agrees with its field when it was last moved by
\* one alone; and until a password is set the same ones are accepted, a plaintext one
\* until the backend saves something (backendProcess.ts rotateBackendLog,
\* settings.service.ts, appIpc.ts, index.ts syncLaunchOnStartup).
THEOREM DiskOfHostAddsUp == HostSpec => []DiskAddsUp
<1>1. HostInit => Log!RotationInv /\ Settings!SettingsInv
    BY LogInit, SettingsInit DEF HostInit
<1>2. /\ Log!RotationInv /\ Settings!SettingsInv /\ [HostNext]_hostVars
      => Log!RotationInv' /\ Settings!SettingsInv'
    BY LogStep, SettingsStep
<1>3. Log!RotationInv /\ Settings!SettingsInv => DiskAddsUp
    BY SettingsAddUp DEF DiskAddsUp, Log!RotationInv
<1> QED
    BY <1>1, <1>2, <1>3, PTL DEF HostSpec

-------------------------------------------------------------------------------
\* The encoder

\* There is room between the least and the most bitrate at every frame rate.
LEMMA BitrateRange ==
    ASSUME captureMode \in {"desktop", "game"}, NEW fps \in FrameRates
    PROVE  /\ Encoder!getMinVideoBitrate \in Nat /\ Encoder!getMaxVideoBitrate(fps) \in Nat
           /\ Encoder!getMinVideoBitrate <= Encoder!getMaxVideoBitrate(fps)
<1>1. fps \in {15, 30, 60}
    BY HostAppAssumption DEF Encoder!BitrateAssumption
<1>2. /\ (15000 * 15) \div 30 = 7500 /\ (15000 * 30) \div 30 = 15000
      /\ (15000 * 60) \div 30 = 30000 /\ (8000 * 15) \div 30 = 4000
      /\ (8000 * 30) \div 30 = 8000 /\ (8000 * 60) \div 30 = 16000
    OBVIOUS
<1> QED
    BY <1>1, <1>2 DEF Encoder!getMinVideoBitrate, Encoder!getMaxVideoBitrate

LEMMA LimitedRange ==
    ASSUME captureMode \in {"desktop", "game"}, NEW fps \in FrameRates, NEW value \in Int
    PROVE  Encoder!Limited(value, fps) \in Nat
           /\ Encoder!Limited(value, fps) \in
                Encoder!getMinVideoBitrate .. Encoder!getMaxVideoBitrate(fps)
    BY BitrateRange DEF Encoder!Limited, Encoder!clamp

\* What the sender is told is a bitrate that the mode allows at that frame rate.
LEMMA EncoderParams ==
    ASSUME captureMode \in {"desktop", "game"}, NEW fps \in FrameRates, NEW value \in Int,
           Encoder!applyVideoEncoderParams(value, fps)
    PROVE  /\ bitrate' \in Nat
           /\ bitrate' \in Encoder!getMinVideoBitrate .. Encoder!getMaxVideoBitrate(fps)
           /\ encoder' \in [maxBitrate : Nat, maxFramerate : FrameRates \cup {0}]
           /\ encoder' = [maxBitrate |-> bitrate', maxFramerate |-> fps]
    BY LimitedRange DEF Encoder!applyVideoEncoderParams

\* An adaptation tells the sender what it decides, or decides nothing.
LEMMA Adaptation ==
    ASSUME Encoder!TypeOK, Encoder!adaptVideoBitrate
    PROVE  /\ waited' \in 0..Encoder!Pause
           /\ \/ UNCHANGED <<bitrate, encoder>>
              \/ \E value \in Int : Encoder!applyVideoEncoderParams(value, rate)
<1> DEFINE value == Encoder!Limited(Encoder!wantedBitrate(bitrate), rate)
<1>1. Encoder!wantedBitrate(bitrate) \in Int
    BY DEF Encoder!TypeOK, Encoder!wantedBitrate
<1>2. value \in Int
    BY <1>1, LimitedRange DEF Encoder!TypeOK
<1>3. CASE UNCHANGED <<bitrate, encoder, waited>>
    BY <1>3 DEF Encoder!TypeOK
<1>4. CASE waited' = 0 /\ Encoder!applyVideoEncoderParams(value, rate)
    BY <1>2, <1>4 DEF Encoder!Pause
<1> HIDE DEF value
<1>5. \/ UNCHANGED <<bitrate, encoder, waited>>
      \/ waited' = 0 /\ Encoder!applyVideoEncoderParams(value, rate)
    BY DEF Encoder!adaptVideoBitrate, value
<1> QED
    BY <1>3, <1>4, <1>5

LEMMA EncoderInit == Encoder!Init => EncoderFollowsSamples
<1> SUFFICES ASSUME Encoder!Init PROVE EncoderFollowsSamples
    OBVIOUS
<1>1. captureMode \in {"desktop", "game"} /\ rate \in FrameRates /\ rate = InitialRate
    BY HostAppAssumption DEF Encoder!Init, Encoder!BitrateAssumption
<1>2. bitrate \in Nat
    <2>1. Encoder!getMaxVideoBitrate(rate) \in Nat
        BY <1>1, BitrateRange
    <2>2. bitrate = (Encoder!getMaxVideoBitrate(rate) * 3) \div 4
        BY <1>1 DEF Encoder!Init, Encoder!getInitialVideoBitrate
    <2> QED
        BY <2>1, <2>2
<1>3. encoder \in [maxBitrate : Nat, maxFramerate : FrameRates \cup {0}]
    BY DEF Encoder!Init, Encoder!NoEncoder
<1>4. waited \in 0..Encoder!Pause
    BY DEF Encoder!Init, Encoder!Pause
<1>5. Encoder!TypeOK
    BY <1>1, <1>2, <1>3, <1>4 DEF Encoder!Init, Encoder!TypeOK
<1> QED
    BY <1>5 DEF Encoder!Init, EncoderFollowsSamples, Encoder!EncoderFollows,
        Encoder!SamplesOfConnection

LEMMA EncoderNext ==
    ASSUME EncoderFollowsSamples, Encoder!Next
    PROVE  EncoderFollowsSamples'
<1>1. Encoder!TypeOK /\ Encoder!EncoderFollows /\ Encoder!SamplesOfConnection
    BY DEF EncoderFollowsSamples
<1>2. captureMode \in {"desktop", "game"} /\ rate \in FrameRates /\ bitrate \in Int
    BY <1>1 DEF Encoder!TypeOK
<1> USE DEF EncoderFollowsSamples
<1>3. CASE Encoder!collectStats
    <2>1. waited' \in 0..Encoder!Pause
        BY <1>1, <1>3 DEF Encoder!collectStats, Encoder!TypeOK, Encoder!Pause
    <2>2. Encoder!TypeOK'
        BY <1>1, <1>3, <2>1 DEF Encoder!collectStats, Encoder!TypeOK
    <2> QED
        BY <1>1, <1>3, <2>2 DEF Encoder!collectStats, Encoder!EncoderFollows,
            Encoder!SamplesOfConnection, Encoder!getMinVideoBitrate,
            Encoder!getMaxVideoBitrate
<1>4. CASE Encoder!StatsArrive
    <2>1. /\ UNCHANGED <<captureMode, link, polling, network, rate, recapturing, faults>>
          /\ report' = "none"
        BY <1>4 DEF Encoder!StatsArrive
    <2>2. sampled' \in BOOLEAN /\ (link = "none" => sampled' = sampled)
        BY <1>1, <1>4 DEF Encoder!StatsArrive, Encoder!TypeOK
    <2>3. CASE UNCHANGED <<bitrate, encoder, waited>>
        <3>1. Encoder!TypeOK'
            BY <1>1, <2>1, <2>2, <2>3 DEF Encoder!TypeOK
        <3> QED
            BY <1>1, <2>1, <2>2, <2>3, <3>1 DEF Encoder!EncoderFollows,
                Encoder!SamplesOfConnection, Encoder!getMinVideoBitrate,
                Encoder!getMaxVideoBitrate
    <2>4. CASE Encoder!adaptVideoBitrate
        <3>1. waited' \in 0..Encoder!Pause
            BY <1>1, <2>4, Adaptation
        <3>2. CASE UNCHANGED <<bitrate, encoder>>
            <4>1. Encoder!TypeOK'
                BY <1>1, <2>1, <2>2, <3>1, <3>2 DEF Encoder!TypeOK
            <4> QED
                BY <1>1, <2>1, <2>2, <3>2, <4>1 DEF Encoder!EncoderFollows,
                    Encoder!SamplesOfConnection, Encoder!getMinVideoBitrate,
                    Encoder!getMaxVideoBitrate
        <3>3. ASSUME NEW value \in Int, Encoder!applyVideoEncoderParams(value, rate)
              PROVE  EncoderFollowsSamples'
            <4>1. /\ bitrate' \in Nat
                  /\ bitrate' \in Encoder!getMinVideoBitrate ..
                                    Encoder!getMaxVideoBitrate(rate)
                  /\ encoder' \in [maxBitrate : Nat, maxFramerate : FrameRates \cup {0}]
                  /\ encoder' = [maxBitrate |-> bitrate', maxFramerate |-> rate]
                BY <1>2, <3>3, EncoderParams
            <4>2. Encoder!TypeOK'
                BY <1>1, <2>1, <2>2, <3>1, <4>1 DEF Encoder!TypeOK
            <4> QED
                BY <1>1, <2>1, <2>2, <4>1, <4>2 DEF Encoder!EncoderFollows,
                    Encoder!SamplesOfConnection, Encoder!getMinVideoBitrate,
                    Encoder!getMaxVideoBitrate
        <3> QED
            BY <1>1, <2>4, <3>2, <3>3, Adaptation
    <2> QED
        BY <1>4, <2>3, <2>4 DEF Encoder!StatsArrive
<1>5. CASE Encoder!Connected
    <2>1. /\ bitrate' \in Nat
          /\ bitrate' \in Encoder!getMinVideoBitrate .. Encoder!getMaxVideoBitrate(rate)
          /\ encoder' \in [maxBitrate : Nat, maxFramerate : FrameRates \cup {0}]
          /\ encoder' = [maxBitrate |-> bitrate', maxFramerate |-> rate]
        BY <1>2, <1>5, EncoderParams DEF Encoder!Connected
    <2>2. /\ UNCHANGED <<captureMode, sampled, network, waited, rate, recapturing, faults>>
          /\ link' = "connected" /\ polling' = TRUE
          /\ report' \in {"none", "stale"}
        BY <1>5 DEF Encoder!Connected, Encoder!startStatsPolling, Encoder!Outdated
    <2>3. Encoder!TypeOK'
        BY <1>1, <2>1, <2>2 DEF Encoder!TypeOK
    <2> QED
        BY <2>1, <2>2, <2>3 DEF Encoder!EncoderFollows, Encoder!SamplesOfConnection,
            Encoder!getMinVideoBitrate, Encoder!getMaxVideoBitrate
<1>6. CASE Encoder!LinkBreaks
    <2>1. Encoder!TypeOK'
        BY <1>1, <1>6 DEF Encoder!LinkBreaks, Encoder!TypeOK
    <2> QED
        BY <1>6, <2>1 DEF Encoder!LinkBreaks, Encoder!EncoderFollows,
            Encoder!SamplesOfConnection
<1>7. CASE Encoder!resetPeerConnection
    <2>1. Encoder!TypeOK'
        BY <1>1, <1>7 DEF Encoder!resetPeerConnection, Encoder!stopStatsPolling,
            Encoder!Outdated, Encoder!NoEncoder, Encoder!TypeOK
    <2> QED
        BY <1>7, <2>1 DEF Encoder!resetPeerConnection, Encoder!EncoderFollows,
            Encoder!SamplesOfConnection
<1>8. ASSUME NEW fps \in FrameRates, Encoder!ChangeFrameRate(fps)
      PROVE  EncoderFollowsSamples'
    <2>1. bitrate' \in Nat
        BY <1>1, <1>2, <1>8, BitrateRange DEF Encoder!ChangeFrameRate, Encoder!TypeOK
    <2>2. Encoder!TypeOK'
        BY <1>1, <1>8, <2>1 DEF Encoder!ChangeFrameRate, Encoder!TypeOK
    <2> QED
        BY <1>1, <1>8, <2>2 DEF Encoder!ChangeFrameRate, Encoder!EncoderFollows,
            Encoder!SamplesOfConnection
<1>9. CASE Encoder!Recaptured
    <2>1. /\ UNCHANGED <<captureMode, link, polling, report, sampled, network, waited, rate,
                         faults>>
          /\ recapturing' = FALSE
        BY <1>9 DEF Encoder!Recaptured
    <2>2. CASE link = "none" /\ UNCHANGED <<bitrate, encoder>>
        <3>1. Encoder!TypeOK'
            BY <1>1, <2>1, <2>2 DEF Encoder!TypeOK
        <3> QED
            BY <1>1, <2>1, <2>2, <3>1 DEF Encoder!EncoderFollows,
                Encoder!SamplesOfConnection
    <2>3. CASE Encoder!applyVideoEncoderParams(bitrate, rate)
        <3>1. /\ bitrate' \in Nat
              /\ bitrate' \in Encoder!getMinVideoBitrate .. Encoder!getMaxVideoBitrate(rate)
              /\ encoder' \in [maxBitrate : Nat, maxFramerate : FrameRates \cup {0}]
              /\ encoder' = [maxBitrate |-> bitrate', maxFramerate |-> rate]
            BY <1>2, <2>3, EncoderParams
        <3>2. Encoder!TypeOK'
            BY <1>1, <2>1, <3>1 DEF Encoder!TypeOK
        <3> QED
            BY <1>1, <2>1, <3>1, <3>2 DEF Encoder!EncoderFollows,
                Encoder!SamplesOfConnection, Encoder!getMinVideoBitrate,
                Encoder!getMaxVideoBitrate
    <2> QED
        BY <1>9, <2>2, <2>3 DEF Encoder!Recaptured
<1>10. CASE Encoder!NetworkChanges
    <2>1. Encoder!TypeOK'
        BY <1>1, <1>10 DEF Encoder!NetworkChanges, Encoder!TypeOK
    <2> QED
        BY <1>1, <1>10, <2>1 DEF Encoder!NetworkChanges, Encoder!EncoderFollows,
            Encoder!SamplesOfConnection, Encoder!getMinVideoBitrate,
            Encoder!getMaxVideoBitrate
<1> QED
    BY <1>3, <1>4, <1>5, <1>6, <1>7, <1>8, <1>9, <1>10 DEF Encoder!Next

\* The encoder of a connection has the rate and the bitrate that were decided last,
\* a bitrate the mode allows, whatever the frame rate and however often the network
\* changes (RemoteControlClient.ts applyVideoEncoderParams, adaptVideoBitrate).
THEOREM EncoderOfHostFollows == HostSpec => []EncoderFollowsSamples
<1>1. HostInit => EncoderFollowsSamples
    BY EncoderInit DEF HostInit
<1>2. EncoderFollowsSamples /\ UNCHANGED Encoder!vars => EncoderFollowsSamples'
    BY DEF EncoderFollowsSamples, Encoder!vars, Encoder!TypeOK, Encoder!EncoderFollows,
        Encoder!SamplesOfConnection, Encoder!getMinVideoBitrate,
        Encoder!getMaxVideoBitrate
<1>3. EncoderFollowsSamples /\ [HostNext]_hostVars => EncoderFollowsSamples'
    BY <1>2, EncoderNext, PartSteps
<1> QED
    BY <1>1, <1>3, PTL DEF HostSpec

-------------------------------------------------------------------------------
\* Approval of viewers: the seat is for an address the host's user allowed, and tray
\* and notifications follow it.

JoinRecords == [viewer : Viewers, answer : Answers,
                click : {"allow", "deny", None}, during : SUBSET Joins]
Replies == [join : Joins, approved : BOOLEAN]
Names == {Name(v) : v \in Viewers}
NameOf(v) == IF v = None THEN None ELSE Name(v)

\* A request is on its way to the dialog at most once and was not clicked yet.
IsRequest(i) == toHost[i].type = "approval-request"
RequestsAreNew ==
    /\ \A i \in DOMAIN toHost : IsRequest(i) =>
            /\ toHost[i].join \in DOMAIN join
            /\ join[toHost[i].join].click = None /\ toHost[i].join # shown
    /\ \A i, k \in DOMAIN toHost :
            IsRequest(i) /\ IsRequest(k) /\ toHost[i].join = toHost[k].join => i = k
    /\ shown # None => join[shown].click = None

Allowed(v) ==
    \E j \in DOMAIN join : Address(join[j].viewer) = Address(v) /\ join[j].click = "allow"

\* Yes comes from a click, on its way, with the gateway and in the session.
YesIsAClick ==
    /\ \A i \in DOMAIN toGateway : toGateway[i].approved =>
            toGateway[i].join \in DOMAIN join /\ join[toGateway[i].join].click = "allow"
    /\ \A j \in DOMAIN join : join[j].answer = "approved" => Allowed(join[j].viewer)
    /\ SeatedIsAllowed

AskedInv == TypeOK /\ RequestsAreNew /\ YesIsAClick

-------------------------------------------------------------------------------
(* Joins.                                                                    *)

\* Changing what became of a join leaves whose it is and the others alone.
LEMMA JoinChanged ==
  ASSUME join \in Seq(JoinRecords), NEW j \in DOMAIN join,
         NEW new \in JoinRecords, join' = [join EXCEPT ![j] = new]
  PROVE  /\ join' \in Seq(JoinRecords) /\ DOMAIN join' = DOMAIN join
         /\ Len(join') = Len(join)
         /\ join'[j] = new
         /\ \A k \in DOMAIN join : k # j => join'[k] = join[k]
OBVIOUS

LEMMA Answering ==
  ASSUME join \in Seq(JoinRecords), NEW j \in DOMAIN join, NEW a \in Answers,
         join' = [join EXCEPT ![j].answer = a]
  PROVE  /\ join' \in Seq(JoinRecords) /\ DOMAIN join' = DOMAIN join
         /\ Len(join') = Len(join)
         /\ join'[j].answer = a
         /\ \A k \in DOMAIN join : /\ k # j => join'[k] = join[k]
                                   /\ join'[k].viewer = join[k].viewer
                                   /\ join'[k].click = join[k].click
<1> DEFINE new == [join[j] EXCEPT !.answer = a]
<1>1. join[j] \in JoinRecords
  OBVIOUS
<1>2. new \in JoinRecords /\ new.answer = a /\ new.viewer = join[j].viewer
      /\ new.click = join[j].click
  BY <1>1 DEF JoinRecords
<1>3. join' = [join EXCEPT ![j] = new]
  OBVIOUS
<1> HIDE DEF new
<1>4. QED
  BY <1>2, <1>3, JoinChanged

LEMMA Clicking ==
  ASSUME join \in Seq(JoinRecords), NEW j \in DOMAIN join, NEW a \in {"allow", "deny"},
         join' = [join EXCEPT ![j].click = a]
  PROVE  /\ join' \in Seq(JoinRecords) /\ DOMAIN join' = DOMAIN join
         /\ Len(join') = Len(join)
         /\ join'[j].click = a
         /\ \A k \in DOMAIN join : /\ k # j => join'[k] = join[k]
                                   /\ join'[k].viewer = join[k].viewer
                                   /\ join'[k].answer = join[k].answer
<1> DEFINE new == [join[j] EXCEPT !.click = a]
<1>1. join[j] \in JoinRecords
  OBVIOUS
<1>2. new \in JoinRecords /\ new.answer = join[j].answer
      /\ new.viewer = join[j].viewer /\ new.click = a
  BY <1>1 DEF JoinRecords
<1>3. join' = [join EXCEPT ![j] = new]
  OBVIOUS
<1> HIDE DEF new
<1>4. QED
  BY <1>2, <1>3, JoinChanged

\* A join is recorded at the end, with no click yet.
LEMMA Recording ==
  ASSUME TypeOK, NEW v \in Viewers, NEW a \in Answers, Record(v, a),
         NEW n \in Nat, n = Len(join) + 1
  PROVE  /\ join' \in Seq(JoinRecords) /\ DOMAIN join' = DOMAIN join \cup {n}
         /\ n \notin DOMAIN join /\ n \in Joins /\ Len(join') <= MaxJoins
         /\ join'[n].viewer = v /\ join'[n].answer = a /\ join'[n].click = None
         /\ \A k \in DOMAIN join : join'[k] = join[k]
<1> DEFINE new == [viewer |-> v, answer |-> a, click |-> None, during |-> Pending]
<1>1. join \in Seq(JoinRecords) /\ Len(join) < MaxJoins /\ join' = Append(join, new)
  BY DEF TypeOK, JoinRecords, Record
<1>2. DOMAIN join \subseteq Joins
  BY <1>1, HostApprovalAssumption DEF Joins
<1>3. new \in JoinRecords
  BY <1>2 DEF JoinRecords, Pending
<1>4. new.viewer = v /\ new.answer = a /\ new.click = None
  OBVIOUS
<1> HIDE DEF new
<1>5. /\ join' \in Seq(JoinRecords) /\ DOMAIN join' = DOMAIN join \cup {n}
      /\ n \notin DOMAIN join /\ join'[n] = new
      /\ \A k \in DOMAIN join : join'[k] = join[k]
      /\ Len(join') = n
  BY <1>1, <1>3
<1>6. n \in Joins
  BY <1>1, HostApprovalAssumption DEF Joins
<1>7. QED
  BY <1>4, <1>5, <1>6 DEF Joins

\* Taking a message off a queue moves the others up.
LEMMA TailFacts ==
  ASSUME NEW S, NEW s \in Seq(S), s # <<>>
  PROVE  /\ Tail(s) \in Seq(S) /\ Head(s) \in S /\ Head(s) = s[1] /\ 1 \in DOMAIN s
         /\ \A i \in DOMAIN Tail(s) : i + 1 \in DOMAIN s /\ Tail(s)[i] = s[i + 1]
OBVIOUS

LEMMA AppendFacts ==
  ASSUME NEW S, NEW s \in Seq(S), NEW x \in S
  PROVE  /\ Append(s, x) \in Seq(S) /\ Append(s, x) # <<>>
         /\ DOMAIN Append(s, x) = DOMAIN s \cup {Len(s) + 1}
         /\ Len(s) + 1 \notin DOMAIN s
         /\ Append(s, x)[Len(s) + 1] = x
         /\ \A i \in DOMAIN s : Append(s, x)[i] = s[i]
OBVIOUS

-------------------------------------------------------------------------------
(* The gateway.                                                              *)

\* What the gateway leaves alone.
LEMMA DialogTypes ==
  ASSUME TypeOK, join' \in Seq(JoinRecords), Len(join') <= MaxJoins,
         DOMAIN join \subseteq DOMAIN join', UNCHANGED <<dialogVars, presenceVars>>,
         seat' \in Viewers \cup {None}, toHost' \in Seq(Requests \cup Announcements),
         toGateway' \in Seq(Replies)
  PROVE  TypeOK'
BY DEF TypeOK, JoinRecords, Replies, dialogVars, presenceVars

\* Nobody asks anything: clicks stay and announcements are not requests.
LEMMA NoRequestStep ==
  ASSUME AskedInv, DOMAIN join \subseteq DOMAIN join',
         \A k \in DOMAIN join : join'[k].click = join[k].click,
         UNCHANGED shown,
         \/ toHost' = toHost
         \/ \E a \in Announcements : toHost' = Append(toHost, a)
  PROVE  RequestsAreNew'
<1>1. shown \in DOMAIN join \cup {None} /\ toHost \in Seq(Requests \cup Announcements)
  BY DEF AskedInv, TypeOK
<1>2. CASE toHost' = toHost
  BY <1>1, <1>2 DEF AskedInv, RequestsAreNew, IsRequest
<1>3. CASE \E a \in Announcements : toHost' = Append(toHost, a)
  <2>1. PICK a \in Announcements : toHost' = Append(toHost, a)
    BY <1>3
  <2>2. a \in Requests \cup Announcements /\ a.type # "approval-request"
    BY DEF Announcements
  <2>3. PICK n : n = Len(toHost) + 1
    OBVIOUS
  <2>4. /\ DOMAIN toHost' = DOMAIN toHost \cup {n} /\ toHost'[n] = a
        /\ \A i \in DOMAIN toHost : toHost'[i] = toHost[i]
    BY <1>1, <2>1, <2>2, <2>3, AppendFacts
  <2>5. \A i \in DOMAIN toHost' : toHost'[i].type = "approval-request" =>
            i \in DOMAIN toHost /\ toHost'[i] = toHost[i]
    BY <2>2, <2>4
  <2>6. QED
    BY <1>1, <2>5 DEF AskedInv, RequestsAreNew, IsRequest
<1>4. QED
  BY <1>2, <1>3

LEMMA RequestStep ==
  ASSUME AskedInv, NEW v \in Viewers, requestViewerApproval(v)
  PROVE  AskedInv'
<1>0. TypeOK
  BY DEF AskedInv
<1>1. PICK n \in Nat : n = Len(join) + 1
  BY <1>0 DEF TypeOK
<1>2. /\ join' \in Seq(JoinRecords) /\ DOMAIN join' = DOMAIN join \cup {n}
      /\ n \notin DOMAIN join /\ n \in Joins /\ Len(join') <= MaxJoins
      /\ join'[n].viewer = v /\ join'[n].answer = "pending" /\ join'[n].click = None
      /\ \A k \in DOMAIN join : join'[k] = join[k]
  <2>1. "pending" \in Answers /\ Record(v, "pending")
    BY DEF requestViewerApproval, Answers
  <2>2. QED
    BY <1>0, <1>1, <2>1, Recording
<1> DEFINE request == [type |-> "approval-request", join |-> n]
<1>3. request \in Requests \cup Announcements /\ request.join = n
      /\ toHost' = Append(toHost, request)
  BY <1>1, <1>2 DEF Requests, requestViewerApproval
<1> HIDE DEF request
<1>4. PICK m : m = Len(toHost) + 1
  OBVIOUS
<1>5. /\ toHost' \in Seq(Requests \cup Announcements)
      /\ DOMAIN toHost' = DOMAIN toHost \cup {m} /\ toHost'[m] = request
      /\ \A i \in DOMAIN toHost : toHost'[i] = toHost[i]
  BY <1>0, <1>3, <1>4, AppendFacts DEF TypeOK
<1>6. UNCHANGED <<seat, toGateway, dialogVars, presenceVars>>
  BY DEF requestViewerApproval
<1>7. TypeOK'
  BY <1>0, <1>2, <1>5, <1>6, DialogTypes DEF TypeOK, Replies
<1>8. shown' = shown /\ shown \in DOMAIN join \cup {None} /\ n # None
  BY <1>0, <1>1, <1>6, HostApprovalAssumption DEF TypeOK, dialogVars
<1>9. RequestsAreNew'
  BY <1>2, <1>3, <1>5, <1>8 DEF AskedInv, RequestsAreNew, IsRequest
<1>10. YesIsAClick'
  BY <1>2, <1>6 DEF AskedInv, YesIsAClick, Allowed, SeatedIsAllowed
<1>11. QED
  BY <1>7, <1>9, <1>10 DEF AskedInv

\* Whoever sits down was allowed.
LEMMA SitFacts ==
  ASSUME TypeOK, NEW v \in Viewers, Sit(v, toHost)
  PROVE  /\ seat' \in {seat, v} /\ toHost' \in Seq(Requests \cup Announcements)
         /\ toHost' = toHost \/ \E a \in Announcements : toHost' = Append(toHost, a)
<1> DEFINE a == [type |-> "joined", viewer |-> v]
<1>1. a \in Announcements
  BY DEF Announcements
<1>2. seat' \in {seat, v} /\ (toHost' = toHost \/ toHost' = Append(toHost, a))
  BY DEF Sit
<1> HIDE DEF a
<1>3. toHost \in Seq(Requests \cup Announcements) /\ a \in Requests \cup Announcements
  BY <1>1 DEF TypeOK
<1>4. toHost' \in Seq(Requests \cup Announcements)
  BY <1>2, <1>3
<1>5. QED
  BY <1>1, <1>2, <1>4

LEMMA RecentStep ==
  ASSUME AskedInv, NEW v \in Viewers, isRecentlyApproved(v)
  PROVE  AskedInv'
<1>0. TypeOK
  BY DEF AskedInv
<1>1. PICK n \in Nat : n = Len(join) + 1
  BY <1>0 DEF TypeOK
<1>2. /\ join' \in Seq(JoinRecords) /\ DOMAIN join' = DOMAIN join \cup {n}
      /\ n \notin DOMAIN join /\ n \in Joins /\ Len(join') <= MaxJoins
      /\ join'[n].viewer = v /\ join'[n].answer = "approved" /\ join'[n].click = None
      /\ \A k \in DOMAIN join : join'[k] = join[k]
  <2>1. "approved" \in Answers /\ Record(v, "approved")
    BY DEF isRecentlyApproved, Answers
  <2>2. QED
    BY <1>0, <1>1, <2>1, Recording
<1>3. /\ seat' \in {seat, v} /\ toHost' \in Seq(Requests \cup Announcements)
      /\ toHost' = toHost \/ \E a \in Announcements : toHost' = Append(toHost, a)
  <2>1. Sit(v, toHost)
    BY DEF isRecentlyApproved
  <2>2. QED
    BY <1>0, <2>1, SitFacts
<1>4. UNCHANGED <<toGateway, dialogVars, presenceVars>>
  BY DEF isRecentlyApproved
<1>5. TypeOK'
  BY <1>0, <1>2, <1>3, <1>4, DialogTypes DEF TypeOK, Replies
<1>6. RequestsAreNew'
  BY <1>2, <1>3, <1>4, NoRequestStep DEF dialogVars
<1>7. Allowed(v)
  <2>1. PICK j \in DOMAIN join : /\ Address(join[j].viewer) = Address(v)
                                 /\ join[j].answer = "approved"
    BY DEF isRecentlyApproved, Approved
  <2>2. Allowed(join[j].viewer)
    BY <2>1 DEF AskedInv, YesIsAClick
  <2>3. QED
    BY <2>1, <2>2 DEF Allowed
<1>8. YesIsAClick'
  BY <1>2, <1>3, <1>4, <1>7 DEF AskedInv, YesIsAClick, Allowed, SeatedIsAllowed
<1>9. QED
  BY <1>5, <1>6, <1>8 DEF AskedInv

\* A join that is answered, with yes only when its user was clicked Allow for.
LEMMA AnsweredStep ==
  ASSUME AskedInv, NEW j \in DOMAIN join, NEW a \in Answers,
         join' = [join EXCEPT ![j].answer = a],
         a = "approved" => Allowed(join[j].viewer),
         \/ UNCHANGED <<seat, toHost>>
         \/ a = "approved" /\ Sit(join[j].viewer, toHost)
         \/ /\ seat' = None
            /\ \E m \in Announcements : toHost' = Append(toHost, m),
         toGateway' \in {toGateway, Tail(toGateway)}, toGateway' # toGateway => toGateway # <<>>,
         UNCHANGED <<dialogVars, presenceVars>>
  PROVE  AskedInv'
<1>0. TypeOK /\ join \in Seq(JoinRecords)
  BY DEF AskedInv, TypeOK, JoinRecords
<1>1. /\ join' \in Seq(JoinRecords) /\ DOMAIN join' = DOMAIN join
      /\ Len(join') = Len(join) /\ join'[j].answer = a
      /\ \A k \in DOMAIN join : /\ k # j => join'[k] = join[k]
                                /\ join'[k].viewer = join[k].viewer
                                /\ join'[k].click = join[k].click
  BY <1>0, Answering
<1>2. join[j].viewer \in Viewers
  <2>1. join[j] \in JoinRecords
    BY <1>0
  <2>2. QED
    BY <2>1 DEF JoinRecords
<1>3. toHost \in Seq(Requests \cup Announcements) /\ seat \in Viewers \cup {None}
  BY <1>0 DEF TypeOK
<1>4. /\ seat' = seat \/ seat' = None \/ (a = "approved" /\ seat' = join[j].viewer)
      /\ seat' \in Viewers \cup {None}
      /\ toHost' \in Seq(Requests \cup Announcements)
      /\ toHost' = toHost \/ \E m \in Announcements : toHost' = Append(toHost, m)
  <2>1. CASE UNCHANGED <<seat, toHost>>
    <3>1. seat' = seat /\ toHost' = toHost
      BY <2>1
    <3>2. seat' \in Viewers \cup {None} /\ toHost' \in Seq(Requests \cup Announcements)
      BY <1>3, <3>1
    <3>3. QED
      BY <3>1, <3>2
  <2>2. CASE a = "approved" /\ Sit(join[j].viewer, toHost)
    <3>1. /\ seat' \in {seat, join[j].viewer}
          /\ toHost' \in Seq(Requests \cup Announcements)
          /\ toHost' = toHost \/ \E m \in Announcements : toHost' = Append(toHost, m)
      BY <1>0, <1>2, <2>2, SitFacts
    <3>2. seat' = seat \/ seat' = join[j].viewer
      BY <3>1
    <3>3. seat' \in Viewers \cup {None}
      BY <1>2, <1>3, <3>2
    <3>4. QED
      BY <2>2, <3>1, <3>2, <3>3
  <2>3. CASE seat' = None /\ \E m \in Announcements : toHost' = Append(toHost, m)
    <3>1. toHost' \in Seq(Requests \cup Announcements)
      BY <1>3, <2>3
    <3>2. QED
      BY <2>3, <3>1
  <2>4. QED
    BY <2>1, <2>2, <2>3
<1>5. /\ toGateway' \in Seq(Replies)
      /\ \A i \in DOMAIN toGateway' :
            \E k \in DOMAIN toGateway : toGateway'[i] = toGateway[k]
  <2>1. toGateway \in Seq(Replies)
    BY <1>0 DEF TypeOK, Replies
  <2>2. QED
    BY <2>1, TailFacts
<1>6. TypeOK'
  BY <1>0, <1>1, <1>4, <1>5, DialogTypes DEF TypeOK
<1>7. RequestsAreNew'
  BY <1>1, <1>4, NoRequestStep DEF dialogVars
<1>8. \A v : Allowed(v) => \E k \in DOMAIN join' : /\ Address(join'[k].viewer) = Address(v)
                                               /\ join'[k].click = "allow"
  BY <1>1 DEF Allowed
<1>9. YesIsAClick'
  <2>1. \A i \in DOMAIN toGateway' : toGateway'[i].approved =>
            toGateway'[i].join \in DOMAIN join' /\ join'[toGateway'[i].join].click = "allow"
    BY <1>1, <1>5 DEF AskedInv, YesIsAClick
  <2>2. ASSUME NEW k \in DOMAIN join', join'[k].answer = "approved"
        PROVE  \E l \in DOMAIN join' : /\ Address(join'[l].viewer) = Address(join'[k].viewer)
                                        /\ join'[l].click = "allow"
    <3>1. PICK v : v = join[k].viewer
      OBVIOUS
    <3>2. join'[k].viewer = v /\ k \in DOMAIN join
      BY <1>1, <3>1
    <3>3. Allowed(v)
      <4>1. CASE k = j
        BY <1>1, <2>2, <3>1, <4>1
      <4>2. CASE k # j
        BY <1>1, <2>2, <3>1, <3>2, <4>2 DEF AskedInv, YesIsAClick
      <4>3. QED
        BY <4>1, <4>2
    <3>4. \E l \in DOMAIN join' : /\ Address(join'[l].viewer) = Address(v)
                                   /\ join'[l].click = "allow"
      BY <1>8, <3>3
    <3>5. QED
      BY <3>2, <3>4
  <2>3. seat # None => Allowed(seat)
    BY DEF AskedInv, YesIsAClick, SeatedIsAllowed, Allowed
  <2>4. ASSUME seat' # None PROVE SeatedIsAllowed'
    <3>1. PICK v : v = seat'
      OBVIOUS
    <3>2. Allowed(v)
      BY <1>4, <2>3, <2>4, <3>1
    <3>3. \E l \in DOMAIN join' : /\ Address(join'[l].viewer) = Address(v)
                                   /\ join'[l].click = "allow"
      BY <1>8, <3>2
    <3>4. QED
      BY <3>1, <3>3 DEF SeatedIsAllowed
  <2>5. SeatedIsAllowed'
    BY <2>4 DEF SeatedIsAllowed
  <2>6. QED
    BY <2>1, <2>2, <2>5 DEF YesIsAClick, Allowed
<1>10. QED
  BY <1>6, <1>7, <1>9 DEF AskedInv

LEMMA TimeoutStep ==
  ASSUME AskedInv, NEW j \in DOMAIN join, ApprovalTimeout(j)
  PROVE  AskedInv'
<1>1. "timeout" \in Answers /\ "timeout" # "approved"
  BY DEF Answers
<1>2. /\ join' = [join EXCEPT ![j].answer = "timeout"]
      /\ UNCHANGED <<seat, toHost, toGateway, dialogVars, presenceVars>>
  BY DEF ApprovalTimeout
<1>3. QED
  BY <1>1, <1>2, AnsweredStep

\* A step that leaves the joins alone.
LEMMA JoinsStayStep ==
  ASSUME AskedInv, UNCHANGED <<join, dialogVars, presenceVars>>, seat' \in {seat, None},
         \/ toHost' = toHost
         \/ \E m \in Announcements : toHost' = Append(toHost, m),
         toGateway' \in {toGateway, Tail(toGateway)}, toGateway' # toGateway => toGateway # <<>>
  PROVE  AskedInv'
<1>0. TypeOK /\ join \in Seq(JoinRecords) /\ Len(join) <= MaxJoins
      /\ toHost \in Seq(Requests \cup Announcements) /\ toGateway \in Seq(Replies)
  BY DEF AskedInv, TypeOK, JoinRecords, Replies
<1>1. toHost' \in Seq(Requests \cup Announcements)
  BY <1>0
<1>2. /\ toGateway' \in Seq(Replies)
      /\ \A i \in DOMAIN toGateway' :
            \E k \in DOMAIN toGateway : toGateway'[i] = toGateway[k]
  <2>1. toGateway \in Seq(Replies)
    BY <1>0
  <2>2. QED
    BY <2>1, TailFacts
<1>3. TypeOK'
  BY <1>0, <1>1, <1>2, DialogTypes DEF TypeOK
<1>4. RequestsAreNew'
  BY NoRequestStep DEF dialogVars
<1>5. YesIsAClick'
  BY <1>2 DEF AskedInv, YesIsAClick, Allowed, SeatedIsAllowed
<1>6. QED
  BY <1>3, <1>4, <1>5 DEF AskedInv

LEMMA AnswerArrivesStep ==
  ASSUME AskedInv, AnswerArrives
  PROVE  AskedInv'
<1> DEFINE answer == Head(toGateway)
           j == answer.join
<1>0. toGateway \in Seq(Replies) /\ toGateway # <<>> /\ toGateway' = Tail(toGateway)
      /\ UNCHANGED <<dialogVars, presenceVars>>
  BY DEF AskedInv, TypeOK, Replies, AnswerArrives
<1>1. answer \in Replies /\ answer = toGateway[1] /\ 1 \in DOMAIN toGateway
  BY <1>0, TailFacts
<1>2. CASE j \notin Pending
  BY <1>0, <1>2, JoinsStayStep DEF AnswerArrives, gatewayVars
<1>3. CASE j \in Pending /\ answer.approved
  <2>1. j \in DOMAIN join /\ join[j].click = "allow"
    BY <1>1, <1>3 DEF AskedInv, YesIsAClick, Pending
  <2>2. Allowed(join[j].viewer)
    BY <2>1 DEF Allowed
  <2>3. join' = [join EXCEPT ![j].answer = "approved"] /\ Sit(join[j].viewer, toHost)
    BY <1>3 DEF AnswerArrives
  <2>4. "approved" \in Answers
    BY DEF Answers
  <2> HIDE DEF answer, j
  <2>5. QED
    BY <1>0, <2>1, <2>2, <2>3, <2>4, AnsweredStep
<1>4. CASE j \in Pending /\ ~answer.approved
  <2>1. j \in DOMAIN join
    BY <1>4 DEF Pending
  <2>2. join' = [join EXCEPT ![j].answer = "rejected"] /\ UNCHANGED <<seat, toHost>>
    BY <1>4 DEF AnswerArrives
  <2>3. "rejected" \in Answers /\ "rejected" # "approved"
    BY DEF Answers
  <2> HIDE DEF answer, j
  <2>4. QED
    BY <1>0, <2>1, <2>2, <2>3, AnsweredStep
<1>5. QED
  BY <1>2, <1>3, <1>4

LEMMA LeaveStep ==
  ASSUME AskedInv, Leave
  PROVE  AskedInv'
<1> DEFINE m == [type |-> "left", viewer |-> seat]
<1>1. m \in Announcements /\ toHost' = Append(toHost, m) /\ seat' = None
      /\ UNCHANGED <<join, toGateway, dialogVars, presenceVars>>
  BY DEF Leave, AskedInv, TypeOK, Announcements
<1> HIDE DEF m
<1>2. QED
  BY <1>1, JoinsStayStep

-------------------------------------------------------------------------------
(* The dialog.                                                               *)

\* What is still queued of the host's messages after one was taken.
LEMMA TakenRequests ==
  ASSUME TypeOK, RequestsAreNew, toHost # <<>>, toHost' = Tail(toHost)
  PROVE  /\ toHost' \in Seq(Requests \cup Announcements)
         /\ \A i \in DOMAIN toHost' : toHost'[i].type = "approval-request" =>
              /\ toHost'[i].join \in DOMAIN join
              /\ join[toHost'[i].join].click = None /\ toHost'[i].join # shown
              /\ toHost[1].type = "approval-request" => toHost'[i].join # toHost[1].join
         /\ \A i, k \in DOMAIN toHost' :
              /\ toHost'[i].type = "approval-request" /\ toHost'[k].type = "approval-request"
              /\ toHost'[i].join = toHost'[k].join
              => i = k
<1>0. toHost \in Seq(Requests \cup Announcements)
  BY DEF TypeOK
<1>1. /\ toHost' \in Seq(Requests \cup Announcements)
      /\ 1 \in DOMAIN toHost
      /\ \A i \in DOMAIN toHost' : i + 1 \in DOMAIN toHost /\ toHost'[i] = toHost[i + 1]
  BY <1>0, TailFacts
<1>2. \A i \in DOMAIN toHost' : i \in Nat /\ i + 1 # 1
  BY <1>1
<1>3. ASSUME NEW i \in DOMAIN toHost', toHost'[i].type = "approval-request"
      PROVE  /\ toHost'[i].join \in DOMAIN join
             /\ join[toHost'[i].join].click = None /\ toHost'[i].join # shown
             /\ toHost[1].type = "approval-request" => toHost'[i].join # toHost[1].join
  <2>1. PICK n : n = i + 1
    OBVIOUS
  <2>2. n \in DOMAIN toHost /\ n # 1 /\ toHost'[i] = toHost[n]
    BY <1>1, <1>2, <2>1
  <2>3. QED
    BY <1>1, <1>3, <2>2 DEF RequestsAreNew, IsRequest
<1>4. ASSUME NEW i \in DOMAIN toHost', NEW k \in DOMAIN toHost',
             toHost'[i].type = "approval-request", toHost'[k].type = "approval-request",
             toHost'[i].join = toHost'[k].join
      PROVE  i = k
  <2>1. PICK n : n = i + 1
    OBVIOUS
  <2>2. PICK m : m = k + 1
    OBVIOUS
  <2>3. n \in DOMAIN toHost /\ toHost'[i] = toHost[n]
        /\ m \in DOMAIN toHost /\ toHost'[k] = toHost[m]
    BY <1>1, <2>1, <2>2
  <2>4. n = m
    BY <1>4, <2>3 DEF RequestsAreNew, IsRequest
  <2>5. QED
    BY <1>2, <2>1, <2>2, <2>4
<1>5. QED
  BY <1>1, <1>3, <1>4

LEMMA RequestShown ==
  ASSUME AskedInv, HandleApprovalRequest
  PROVE  AskedInv'
<1>0. TypeOK /\ RequestsAreNew /\ YesIsAClick /\ toHost # <<>> /\ toHost' = Tail(toHost)
      /\ UNCHANGED <<join, seat, presenceVars>>
  BY DEF AskedInv, HandleApprovalRequest, gatewayVars
<1>1. toHost \in Seq(Requests \cup Announcements) /\ toGateway \in Seq(Replies)
      /\ shown \in DOMAIN join \cup {None} /\ resolver = shown
  BY <1>0 DEF TypeOK, Replies
<1>2. Head(toHost) = toHost[1] /\ 1 \in DOMAIN toHost
  BY <1>0, <1>1, TailFacts
<1>3. PICK j : j = toHost[1].join
  OBVIOUS
<1>4. toHost[1].type = "approval-request" /\ AskUser(j)
  BY <1>2, <1>3 DEF HandleApprovalRequest
<1>5. j \in DOMAIN join /\ join[j].click = None
  BY <1>0, <1>2, <1>3, <1>4 DEF RequestsAreNew, IsRequest
<1>6. j \in Joins
  BY <1>0, <1>5, HostApprovalAssumption DEF TypeOK, Joins
<1>7. CASE resolver # None
  <2> DEFINE reply == [join |-> j, approved |-> FALSE]
  <2>1. reply \in Replies /\ reply.approved = FALSE /\ reply.join = j
    BY <1>6 DEF Replies
  <2>2. toGateway' = Append(toGateway, reply) /\ UNCHANGED dialogVars
    BY <1>4, <1>7 DEF AskUser, respond
  <2> HIDE DEF reply
  <2>3. PICK n : n = Len(toGateway) + 1
    OBVIOUS
  <2>4. /\ toGateway' \in Seq(Replies) /\ DOMAIN toGateway' = DOMAIN toGateway \cup {n}
        /\ toGateway'[n] = reply /\ \A i \in DOMAIN toGateway : toGateway'[i] = toGateway[i]
    BY <1>1, <2>1, <2>2, <2>3, AppendFacts
  <2>5. shown' = shown /\ resolver' = resolver
    BY <2>2 DEF dialogVars
  <2>6. TypeOK'
    BY <1>0, <2>4, <2>5, TakenRequests DEF TypeOK, Replies, presenceVars
  <2>7. RequestsAreNew'
    BY <1>0, <2>5, TakenRequests DEF RequestsAreNew, IsRequest
  <2>8. YesIsAClick'
    BY <1>0, <2>1, <2>4 DEF YesIsAClick, Allowed, SeatedIsAllowed
  <2>9. QED
    BY <2>6, <2>7, <2>8 DEF AskedInv
<1>8. CASE resolver = None
  <2>1. shown' = j /\ resolver' = j /\ toGateway' = toGateway
    BY <1>4, <1>8 DEF AskUser
  <2>2. TypeOK'
    BY <1>0, <1>5, <2>1, TakenRequests DEF TypeOK, presenceVars
  <2>3. RequestsAreNew'
    BY <1>0, <1>3, <1>4, <1>5, <2>1, TakenRequests DEF RequestsAreNew, IsRequest
  <2>4. YesIsAClick'
    BY <1>0, <2>1 DEF YesIsAClick, Allowed, SeatedIsAllowed
  <2>5. QED
    BY <2>2, <2>3, <2>4 DEF AskedInv
<1>9. QED
  BY <1>7, <1>8

LEMMA ClickStep ==
  ASSUME AskedInv, NEW approved \in BOOLEAN, resolveViewerApproval(approved)
  PROVE  AskedInv'
<1>0. TypeOK /\ RequestsAreNew /\ YesIsAClick
  BY DEF AskedInv
<1>1. join \in Seq(JoinRecords) /\ toHost \in Seq(Requests \cup Announcements)
      /\ toGateway \in Seq(Replies) /\ shown \in DOMAIN join \cup {None}
      /\ resolver = shown
  BY <1>0 DEF TypeOK, JoinRecords, Replies
<1>2. PICK j : j = shown
  OBVIOUS
<1>3. PICK a : a = IF approved THEN "allow" ELSE "deny"
  OBVIOUS
<1>4. shown # None /\ shown' = None /\ resolver' = None /\ toHost' = toHost /\ seat' = seat
      /\ UNCHANGED presenceVars
  BY DEF resolveViewerApproval
<1>5. j \in DOMAIN join /\ join[j].click = None /\ a \in {"allow", "deny"}
  BY <1>0, <1>1, <1>2, <1>3, <1>4 DEF RequestsAreNew
<1>6. join' = [join EXCEPT ![j].click = a]
  BY <1>2, <1>3 DEF resolveViewerApproval
<1>7. /\ join' \in Seq(JoinRecords) /\ DOMAIN join' = DOMAIN join
      /\ Len(join') = Len(join) /\ join'[j].click = a
      /\ \A k \in DOMAIN join : /\ k # j => join'[k] = join[k]
                                /\ join'[k].viewer = join[k].viewer
                                /\ join'[k].answer = join[k].answer
  BY <1>1, <1>5, <1>6, Clicking
<1> DEFINE reply == [join |-> j, approved |-> approved]
<1>8. reply \in Replies /\ reply.approved = approved /\ reply.join = j
  <2>1. j \in Joins
    BY <1>0, <1>5, HostApprovalAssumption DEF TypeOK, Joins
  <2>2. QED
    BY <2>1 DEF Replies
<1>9. toGateway' = Append(toGateway, reply)
  BY <1>1, <1>2, <1>4 DEF resolveViewerApproval, respond
<1> HIDE DEF reply
<1>10. PICK n : n = Len(toGateway) + 1
  OBVIOUS
<1>11. /\ toGateway' \in Seq(Replies) /\ DOMAIN toGateway' = DOMAIN toGateway \cup {n}
       /\ toGateway'[n] = reply /\ \A i \in DOMAIN toGateway : toGateway'[i] = toGateway[i]
  BY <1>1, <1>8, <1>9, <1>10, AppendFacts
<1>12. "allow" # None
  BY HostApprovalAssumption
<1>13. TypeOK'
  BY <1>0, <1>4, <1>7, <1>11 DEF TypeOK, JoinRecords, Replies, presenceVars
<1>14. RequestsAreNew'
  <2>1. None \notin DOMAIN join
    BY <1>1, HostApprovalAssumption
  <2>2. QED
    BY <1>0, <1>2, <1>4, <1>7, <2>1 DEF RequestsAreNew, IsRequest
<1>15. \A v : Allowed(v) => \E k \in DOMAIN join' : /\ Address(join'[k].viewer) = Address(v)
                                               /\ join'[k].click = "allow"
  BY <1>5, <1>7, <1>12 DEF Allowed
<1>16. YesIsAClick'
  <2>1. \A i \in DOMAIN toGateway' : toGateway'[i].approved =>
            toGateway'[i].join \in DOMAIN join' /\ join'[toGateway'[i].join].click = "allow"
    <3>1. reply.approved => a = "allow"
      BY <1>3, <1>8
    <3>2. QED
      BY <1>0, <1>5, <1>7, <1>8, <1>11, <1>12, <3>1 DEF YesIsAClick
  <2>2. ASSUME NEW k \in DOMAIN join', join'[k].answer = "approved"
        PROVE  \E l \in DOMAIN join' : /\ Address(join'[l].viewer) = Address(join'[k].viewer)
                                        /\ join'[l].click = "allow"
    <3>1. PICK v : v = join[k].viewer
      OBVIOUS
    <3>2. Allowed(v) /\ join'[k].viewer = v
      BY <1>0, <1>7, <2>2, <3>1 DEF YesIsAClick
    <3>3. QED
      BY <1>15, <3>2
  <2>3. SeatedIsAllowed'
    <3>1. PICK v : v = seat
      OBVIOUS
    <3>2. seat # None => Allowed(v)
      BY <1>0, <3>1 DEF YesIsAClick, SeatedIsAllowed, Allowed
    <3>3. QED
      BY <1>4, <1>15, <3>1, <3>2 DEF SeatedIsAllowed
  <2>4. QED
    BY <2>1, <2>2, <2>3 DEF YesIsAClick, Allowed
<1>17. QED
  BY <1>13, <1>14, <1>16 DEF AskedInv

-------------------------------------------------------------------------------
(* The presence.                                                             *)

\* A notification of who left follows one of the same that came, and who is
\* remembered is the last one that came.
NoticesInv ==
    /\ \A i \in DOMAIN toMain : toMain[i].connected => toMain[i].viewerName # None
    /\ NoticesPair
    /\ lastViewerName # None =>
            /\ Len(notified) \in DOMAIN notified
            /\ notified[Len(notified)] = [title |-> "connected", name |-> lastViewerName]

\* The dialog and the gateway do not look at the presence.
LEMMA PresenceOnly ==
  ASSUME AskedInv, UNCHANGED <<gatewayVars, toHost, toGateway, dialogVars>>
  PROVE  RequestsAreNew' /\ YesIsAClick'
BY DEF AskedInv, RequestsAreNew, IsRequest, YesIsAClick, Allowed, SeatedIsAllowed,
       gatewayVars, dialogVars

LEMMA AnnouncementStep ==
  ASSUME AskedInv, HandleAnnouncement
  PROVE  AskedInv'
<1>0. TypeOK /\ RequestsAreNew /\ YesIsAClick /\ toHost # <<>> /\ toHost' = Tail(toHost)
      /\ UNCHANGED <<join, seat, toGateway, shown, resolver>>
      /\ UNCHANGED <<rendered, toMain, tray, lastViewerName, notified>>
  BY DEF AskedInv, HandleAnnouncement, gatewayVars, dialogVars
<1>1. toHost \in Seq(Requests \cup Announcements)
  BY <1>0 DEF TypeOK
<1>2. Head(toHost) \in Requests \cup Announcements
  BY <1>0, <1>1, TailFacts
<1>3. peer' \in Viewers \cup {None}
  <2>1. PICK a : a = Head(toHost)
    OBVIOUS
  <2>2. a \in Announcements /\ peer' = NextPeer(a)
    BY <1>2, <2>1 DEF HandleAnnouncement, Requests
  <2>3. a.viewer \in Viewers /\ peer \in Viewers \cup {None}
    BY <1>0, <2>2 DEF Announcements, TypeOK
  <2>4. QED
    BY <2>2, <2>3 DEF NextPeer
<1>4. TypeOK'
  BY <1>0, <1>3, TakenRequests DEF TypeOK
<1>5. RequestsAreNew'
  BY <1>0, TakenRequests DEF RequestsAreNew, IsRequest
<1>6. YesIsAClick'
  BY <1>0 DEF YesIsAClick, Allowed, SeatedIsAllowed
<1>7. QED
  BY <1>4, <1>5, <1>6 DEF AskedInv

LEMMA RenderStep ==
  ASSUME AskedInv, NoticesInv, Render
  PROVE  AskedInv' /\ NoticesInv'
<1> DEFINE p == [connected |-> peer # None,
                 viewerName |-> IF peer = None THEN None ELSE Name(peer)]
<1>0. TypeOK /\ rendered' = peer
      /\ UNCHANGED <<gatewayVars, toHost, toGateway, dialogVars, peer, tray,
                     lastViewerName, notified>>
  BY DEF AskedInv, Render
<1>1. p \in Presence /\ (p.connected => p.viewerName # None)
  <2>1. peer \in Viewers \cup {None}
    BY <1>0 DEF TypeOK
  <2>2. (peer # None) \in BOOLEAN
    OBVIOUS
  <2>3. (IF peer = None THEN None ELSE Name(peer)) \in Names \cup {None}
    BY <2>1 DEF Names
  <2>4. p \in Presence
    BY <2>2, <2>3 DEF Presence, Names
  <2>5. peer # None => Name(peer) # None
    BY <2>1, HostApprovalAssumption
  <2>6. QED
    BY <2>4, <2>5
<1>2. toMain' = Append(toMain, p)
  BY DEF Render
<1> HIDE DEF p
<1>3. toMain \in Seq(Presence)
  BY <1>0 DEF TypeOK
<1>4. PICK n : n = Len(toMain) + 1
  OBVIOUS
<1>5. /\ toMain' \in Seq(Presence) /\ DOMAIN toMain' = DOMAIN toMain \cup {n}
      /\ toMain'[n] = p /\ \A i \in DOMAIN toMain : toMain'[i] = toMain[i]
  BY <1>1, <1>2, <1>3, <1>4, AppendFacts
<1>6. TypeOK'
  BY <1>0, <1>5 DEF TypeOK, gatewayVars, dialogVars
<1>7. \A i \in DOMAIN toMain' : toMain'[i].connected => toMain'[i].viewerName # None
  BY <1>1, <1>5 DEF NoticesInv
<1>8. NoticesInv'
  BY <1>0, <1>7 DEF NoticesInv, NoticesPair
<1>9. QED
  BY <1>0, <1>6, <1>8, PresenceOnly DEF AskedInv

\* A notification that fits the last one keeps the pairs.
LEMMA Noticed ==
  ASSUME notified \in Seq(Notices), NoticesInv, NEW x \in Notices,
         x.title = "disconnected" => lastViewerName # None /\ x.name = lastViewerName,
         notified' = Append(notified, x)
  PROVE  /\ notified' \in Seq(Notices) /\ NoticesPair'
         /\ Len(notified') \in DOMAIN notified' /\ notified'[Len(notified')] = x
<1>1. PICK n \in Nat : n = Len(notified)
  OBVIOUS
<1>2. /\ notified' \in Seq(Notices) /\ Len(notified') = n + 1
      /\ DOMAIN notified' = DOMAIN notified \cup {n + 1}
      /\ notified'[n + 1] = x /\ \A i \in DOMAIN notified : notified'[i] = notified[i]
  BY <1>1
<1>3. \A i \in DOMAIN notified : i \in Nat /\ (i > 1 => i - 1 \in DOMAIN notified)
  BY <1>1
<1>4. ASSUME NEW i \in DOMAIN notified', notified'[i].title = "disconnected"
      PROVE  i > 1 /\ notified'[i - 1] = [title |-> "connected", name |-> notified'[i].name]
  <2>1. CASE i = n + 1
    <3>1. x.title = "disconnected" /\ x.name = lastViewerName /\ lastViewerName # None
      BY <1>2, <1>4, <2>1
    <3>2. n \in DOMAIN notified
          /\ notified[n] = [title |-> "connected", name |-> lastViewerName]
      BY <1>1, <3>1 DEF NoticesInv
    <3>3. n > 0 /\ i - 1 = n
      BY <1>1, <2>1, <3>2
    <3>4. notified'[i] = x /\ notified'[i - 1] = notified[n] /\ i > 1
      BY <1>1, <1>2, <2>1, <3>2, <3>3
    <3>5. QED
      BY <3>1, <3>2, <3>4
  <2>2. CASE i # n + 1
    <3>1. i \in DOMAIN notified /\ notified'[i] = notified[i]
      BY <1>2, <2>2
    <3>2. i > 1 /\ notified[i - 1] = [title |-> "connected", name |-> notified[i].name]
      BY <1>4, <3>1 DEF NoticesInv, NoticesPair
    <3>3. notified'[i - 1] = notified[i - 1]
      BY <1>2, <1>3, <3>1, <3>2
    <3>4. QED
      BY <3>1, <3>2, <3>3
  <2>3. QED
    BY <2>1, <2>2
<1>5. QED
  BY <1>2, <1>4 DEF NoticesPair

LEMMA PresenceStep ==
  ASSUME AskedInv, NoticesInv, updateHostPresence
  PROVE  AskedInv' /\ NoticesInv'
<1>0. TypeOK /\ toMain # <<>> /\ toMain' = Tail(toMain)
      /\ UNCHANGED <<gatewayVars, toHost, toGateway, dialogVars, peer, rendered>>
  BY DEF AskedInv, updateHostPresence
<1>1. toMain \in Seq(Presence) /\ notified \in Seq(Notices)
      /\ lastViewerName \in Names \cup {None}
  BY <1>0 DEF TypeOK, Names
<1>2. PICK p : p = Head(toMain)
  OBVIOUS
<1>3. /\ toMain' \in Seq(Presence) /\ p \in Presence /\ p = toMain[1] /\ 1 \in DOMAIN toMain
      /\ \A i \in DOMAIN toMain' : i + 1 \in DOMAIN toMain /\ toMain'[i] = toMain[i + 1]
  BY <1>0, <1>1, <1>2, TailFacts
<1>4. p.viewerName \in Names \cup {None} /\ (p.connected => p.viewerName \in Names)
  BY <1>3 DEF Presence, Names, NoticesInv
<1>5. tray' = p.viewerName
      /\ lastViewerName' = (IF p.connected THEN p.viewerName ELSE None)
  BY <1>2 DEF updateHostPresence, NextViewerName
<1>6. \A i \in DOMAIN toMain' : toMain'[i].connected => toMain'[i].viewerName # None
  BY <1>3 DEF NoticesInv
<1>7. /\ notified' \in Seq(Notices) /\ NoticesPair'
      /\ lastViewerName' # None =>
            /\ Len(notified') \in DOMAIN notified'
            /\ notified'[Len(notified')] = [title |-> "connected", name |-> lastViewerName']
  <2>1. CASE p.connected /\ p.viewerName # lastViewerName
    <3> DEFINE x == [title |-> "connected", name |-> p.viewerName]
    <3>1. x \in Notices /\ x.title = "connected"
      BY <1>4, <2>1 DEF Notices, Names
    <3>2. notified' = Append(notified, x)
      BY <1>2, <2>1 DEF updateHostPresence, showHostNotification
    <3>3. x = [title |-> "connected", name |-> lastViewerName']
      BY <1>5, <2>1
    <3> HIDE DEF x
    <3>4. QED
      BY <1>1, <3>1, <3>2, <3>3, Noticed
  <2>2. CASE ~p.connected /\ lastViewerName # None
    <3> DEFINE x == [title |-> "disconnected", name |-> lastViewerName]
    <3>1. x \in Notices /\ x.name = lastViewerName
      BY <1>1, <2>2 DEF Notices, Names
    <3>2. notified' = Append(notified, x)
      BY <1>2, <2>2 DEF updateHostPresence, showHostNotification
    <3> HIDE DEF x
    <3>3. lastViewerName' = None
      BY <1>5, <2>2
    <3>4. QED
      BY <1>1, <2>2, <3>1, <3>2, <3>3, Noticed
  <2>3. CASE (p.connected => p.viewerName = lastViewerName)
             /\ (~p.connected => lastViewerName = None)
    <3>1. notified' = notified
      BY <1>2, <2>3 DEF updateHostPresence
    <3>2. lastViewerName' = lastViewerName
      BY <1>5, <2>3
    <3>3. QED
      BY <1>1, <3>1, <3>2 DEF NoticesInv, NoticesPair
  <2>4. QED
    BY <2>1, <2>2, <2>3
<1>8. {tray', lastViewerName'} \subseteq Names \cup {None}
  BY <1>4, <1>5
<1>9. TypeOK'
  BY <1>0, <1>3, <1>7, <1>8 DEF TypeOK, Names, gatewayVars, dialogVars
<1>10. NoticesInv'
  BY <1>6, <1>7 DEF NoticesInv
<1>11. QED
  BY <1>0, <1>9, <1>10, PresenceOnly DEF AskedInv

-------------------------------------------------------------------------------
(* The tray.                                                                 *)

\* b[i] is the peer that the host knows of once it has handled i of the messages
\* that are on their way to it: the peer of now at first, in the end the seat's.
Followed(b) ==
    /\ b[0] = peer /\ b[Len(toHost)] = seat
    /\ \A i \in DOMAIN toHost :
        /\ IsRequest(i) => b[i] = b[i - 1]
        /\ toHost[i].type = "joined" => b[i] = toHost[i].viewer
        /\ toHost[i].type = "left" => toHost[i].viewer = b[i - 1] /\ b[i] = None
PeerFollowsSeat == \E b \in [0..Len(toHost) -> Viewers \cup {None}] : Followed(b)

\* What the tray shows, or will once the main process has caught up.
LatestIsRendered ==
    IF toMain = <<>> THEN tray = NameOf(rendered)
    ELSE toMain[Len(toMain)].viewerName = NameOf(rendered)

TrayInv == PeerFollowsSeat /\ LatestIsRendered

\* A message at the end of the queue says what became of the seat.
LEMMA SeatAnnounced ==
  ASSUME toHost \in Seq(Requests \cup Announcements), seat' \in Viewers \cup {None},
         PeerFollowsSeat, UNCHANGED peer,
         NEW m \in Requests \cup Announcements, toHost' = Append(toHost, m),
         \/ m.type = "approval-request" /\ seat' = seat
         \/ m.type = "joined" /\ seat' = m.viewer
         \/ m.type = "left" /\ m.viewer = seat /\ seat' = None
  PROVE  PeerFollowsSeat'
<1>1. PICK b \in [0..Len(toHost) -> Viewers \cup {None}] : Followed(b)
  BY DEF PeerFollowsSeat
<1>2. PICK n \in Nat : n = Len(toHost)
  OBVIOUS
<1>3. /\ Len(toHost') = n + 1 /\ DOMAIN toHost' = 1..(n + 1) /\ DOMAIN toHost = 1..n
      /\ toHost'[n + 1] = m /\ \A i \in 1..n : toHost'[i] = toHost[i]
  BY <1>2
<1>4. PICK d : d = [i \in 0..(n + 1) |-> IF i = n + 1 THEN seat' ELSE b[i]]
  OBVIOUS
<1>5. /\ d \in [0..(n + 1) -> Viewers \cup {None}]
      /\ d[n + 1] = seat' /\ \A i \in 0..n : d[i] = b[i]
  BY <1>1, <1>2, <1>4
<1>6. b[0] = peer /\ b[n] = seat
  BY <1>1, <1>2 DEF Followed
<1>7. ASSUME NEW i \in 1..(n + 1)
      PROVE  /\ toHost'[i].type = "approval-request" => d[i] = d[i - 1]
             /\ toHost'[i].type = "joined" => d[i] = toHost'[i].viewer
             /\ toHost'[i].type = "left" => toHost'[i].viewer = d[i - 1] /\ d[i] = None
  <2>1. CASE i = n + 1
    <3>1. toHost'[i] = m /\ d[i] = seat' /\ d[i - 1] = seat
      BY <1>2, <1>3, <1>5, <1>6, <2>1
    <3>2. QED
      BY <3>1
  <2>2. CASE i # n + 1
    <3>1. i \in 1..n /\ i \in 0..n /\ i - 1 \in 0..n
      BY <1>2, <2>2
    <3>2. toHost'[i] = toHost[i] /\ d[i] = b[i] /\ d[i - 1] = b[i - 1]
      BY <1>3, <1>5, <3>1
    <3>3. QED
      BY <1>1, <1>3, <3>1, <3>2 DEF Followed, IsRequest
  <2>3. QED
    BY <2>1, <2>2
<1>8. d[0] = peer' /\ d[Len(toHost')] = seat'
  BY <1>2, <1>3, <1>5, <1>6
<1>9. Followed(d)'
  BY <1>3, <1>7, <1>8 DEF Followed, IsRequest
<1>10. d \in [0..Len(toHost') -> Viewers \cup {None}]
  BY <1>3, <1>5
<1>11. QED
  BY <1>9, <1>10 DEF PeerFollowsSeat

\* The message at the front of the queue tells the host what it says.
LEMMA SeatHeardOf ==
  ASSUME toHost \in Seq(Requests \cup Announcements), toHost # <<>>, PeerFollowsSeat,
         toHost' = Tail(toHost), UNCHANGED seat,
         \/ toHost[1].type = "approval-request" /\ peer' = peer
         \/ toHost[1].type \in {"joined", "left"} /\ peer' = NextPeer(toHost[1])
  PROVE  PeerFollowsSeat'
<1>1. PICK b \in [0..Len(toHost) -> Viewers \cup {None}] : Followed(b)
  BY DEF PeerFollowsSeat
<1>2. PICK n \in Nat : n + 1 = Len(toHost)
  <2>1. Len(toHost) \in Nat /\ Len(toHost) # 0
    OBVIOUS
  <2>2. Len(toHost) - 1 \in Nat /\ (Len(toHost) - 1) + 1 = Len(toHost)
    BY <2>1
  <2>3. QED
    BY <2>2
<1>3. /\ Len(toHost') = n /\ DOMAIN toHost' = 1..n /\ DOMAIN toHost = 1..(n + 1)
      /\ \A i \in 1..n : toHost'[i] = toHost[i + 1]
  BY <1>2
<1>4. PICK d : d = [i \in 0..n |-> b[i + 1]]
  OBVIOUS
<1>4a. d \in [0..n -> Viewers \cup {None}] /\ \A i \in 0..n : d[i] = b[i + 1]
  BY <1>1, <1>2, <1>4
<1>5. b[0] = peer /\ b[n + 1] = seat /\ 1 \in DOMAIN toHost /\ 1 - 1 = 0
  BY <1>1, <1>2 DEF Followed
<1>6. /\ toHost[1].type = "approval-request" => b[1] = b[0]
      /\ toHost[1].type = "joined" => b[1] = toHost[1].viewer
      /\ toHost[1].type = "left" => toHost[1].viewer = b[0] /\ b[1] = None
  BY <1>1, <1>5 DEF Followed, IsRequest
<1>7. b[1] = peer'
  BY <1>5, <1>6 DEF NextPeer
<1>8. ASSUME NEW i \in 1..n
      PROVE  /\ toHost'[i].type = "approval-request" => d[i] = d[i - 1]
             /\ toHost'[i].type = "joined" => d[i] = toHost'[i].viewer
             /\ toHost'[i].type = "left" => toHost'[i].viewer = d[i - 1] /\ d[i] = None
  <2>1. PICK k : k = i + 1
    OBVIOUS
  <2>2. k \in DOMAIN toHost /\ k - 1 = i /\ i \in 0..n /\ i - 1 \in 0..n /\ (i - 1) + 1 = i
    BY <1>2, <1>3, <2>1
  <2>3. toHost'[i] = toHost[k] /\ d[i] = b[k] /\ d[i - 1] = b[k - 1]
    BY <1>3, <1>4a, <2>1, <2>2
  <2>4. QED
    BY <1>1, <2>2, <2>3 DEF Followed, IsRequest
<1>9. d[0] = peer' /\ d[Len(toHost')] = seat'
  BY <1>2, <1>3, <1>4a, <1>5, <1>7
<1>10. Followed(d)'
  BY <1>3, <1>8, <1>9 DEF Followed, IsRequest
<1>11. d \in [0..Len(toHost') -> Viewers \cup {None}]
  BY <1>3, <1>4a
<1>12. QED
  BY <1>10, <1>11 DEF PeerFollowsSeat

LEMMA TrayStays ==
  ASSUME UNCHANGED <<toMain, tray, rendered>>, LatestIsRendered
  PROVE  LatestIsRendered'
BY DEF LatestIsRendered, NameOf

\* Whoever sits down is announced.
LEMMA SitTray ==
  ASSUME TypeOK, TrayInv, NEW v \in Viewers, Sit(v, toHost), UNCHANGED presenceVars
  PROVE  TrayInv'
<1>1. /\ toHost \in Seq(Requests \cup Announcements) /\ UNCHANGED peer
      /\ UNCHANGED <<toMain, tray, rendered>>
  BY DEF TypeOK, presenceVars
<1>2. CASE seat = None
  <2> DEFINE m == [type |-> "joined", viewer |-> v]
  <2>1. m \in Requests \cup Announcements /\ m.type = "joined" /\ m.viewer = v
    BY DEF Announcements
  <2>2. seat' = v /\ toHost' = Append(toHost, m)
    BY <1>2 DEF Sit
  <2> HIDE DEF m
  <2>3. PeerFollowsSeat'
    BY <1>1, <2>1, <2>2, SeatAnnounced DEF TrayInv
  <2>4. QED
    BY <1>1, <2>3, TrayStays DEF TrayInv
<1>3. CASE seat # None
  <2>1. UNCHANGED <<seat, toHost, peer>>
    BY <1>1, <1>3 DEF Sit
  <2>2. PeerFollowsSeat'
    BY <2>1 DEF TrayInv, PeerFollowsSeat, Followed, IsRequest
  <2>3. QED
    BY <1>1, <2>2, TrayStays DEF TrayInv
<1>4. QED
  BY <1>2, <1>3

\* Nothing that the tray depends on changes.
LEMMA TrayUntouched ==
  ASSUME TrayInv, UNCHANGED <<seat, toHost, peer, rendered, toMain, tray>>
  PROVE  TrayInv'
<1>1. PeerFollowsSeat'
  BY DEF TrayInv, PeerFollowsSeat, Followed, IsRequest
<1>2. QED
  BY <1>1, TrayStays DEF TrayInv

LEMMA RequestTray ==
  ASSUME TypeOK, TypeOK', TrayInv, NEW v \in Viewers, requestViewerApproval(v)
  PROVE  TrayInv'
<1> DEFINE m == [type |-> "approval-request", join |-> Len(join) + 1]
<1>1. /\ toHost \in Seq(Requests \cup Announcements) /\ seat' \in Viewers \cup {None}
      /\ Len(join) + 1 \in Joins
  <2>1. Len(join) \in Nat /\ Len(join) < MaxJoins
    BY DEF TypeOK, requestViewerApproval, Record
  <2>2. QED
    BY <2>1, HostApprovalAssumption DEF TypeOK, Joins
<1>2. m \in Requests \cup Announcements /\ m.type = "approval-request"
  BY <1>1 DEF Requests
<1>3. toHost' = Append(toHost, m) /\ seat' = seat
      /\ UNCHANGED <<peer, toMain, tray, rendered>>
  BY DEF requestViewerApproval, presenceVars
<1> HIDE DEF m
<1>4. PeerFollowsSeat'
  BY <1>1, <1>2, <1>3, SeatAnnounced DEF TrayInv
<1>5. QED
  BY <1>3, <1>4, TrayStays DEF TrayInv

LEMMA AnswerTray ==
  ASSUME TypeOK, TrayInv, AnswerArrives
  PROVE  TrayInv'
<1>1. UNCHANGED presenceVars
  BY DEF AnswerArrives
<1>2. CASE \E j \in Pending : Sit(join[j].viewer, toHost)
  <2>1. PICK j \in Pending : Sit(join[j].viewer, toHost)
    BY <1>2
  <2>2. join \in Seq(JoinRecords) /\ j \in DOMAIN join
    BY <2>1 DEF TypeOK, JoinRecords, Pending
  <2>3. join[j] \in JoinRecords
    BY <2>2
  <2>3a. join[j].viewer \in Viewers
    BY <2>3 DEF JoinRecords
  <2>4. QED
    BY <1>1, <2>1, <2>3a, SitTray
<1>3. CASE UNCHANGED <<seat, toHost>>
  BY <1>1, <1>3, TrayUntouched DEF presenceVars
<1>4. QED
  BY <1>2, <1>3 DEF AnswerArrives, gatewayVars

LEMMA LeaveTray ==
  ASSUME TypeOK, TrayInv, Leave
  PROVE  TrayInv'
<1> DEFINE m == [type |-> "left", viewer |-> seat]
<1>1. toHost \in Seq(Requests \cup Announcements) /\ seat' = None
      /\ UNCHANGED <<peer, toMain, tray, rendered>>
  BY DEF TypeOK, Leave, presenceVars
<1>2. m \in Requests \cup Announcements /\ m.type = "left" /\ m.viewer = seat
  BY DEF TypeOK, Leave, Announcements
<1>3. toHost' = Append(toHost, m)
  BY DEF Leave
<1> HIDE DEF m
<1>4. PeerFollowsSeat'
  BY <1>1, <1>2, <1>3, SeatAnnounced DEF TrayInv
<1>5. QED
  BY <1>1, <1>4, TrayStays DEF TrayInv

\* The host takes a message off its queue.
LEMMA HandledTray ==
  ASSUME TypeOK, TrayInv, HandleApprovalRequest \/ HandleAnnouncement
  PROVE  TrayInv'
<1>1. /\ toHost \in Seq(Requests \cup Announcements) /\ toHost # <<>>
      /\ toHost' = Tail(toHost) /\ UNCHANGED seat /\ UNCHANGED <<toMain, tray, rendered>>
  BY DEF TypeOK, HandleApprovalRequest, HandleAnnouncement, gatewayVars, presenceVars
<1>2. Head(toHost) = toHost[1]
  BY <1>1
<1>3. \/ toHost[1].type = "approval-request" /\ peer' = peer
      \/ toHost[1].type \in {"joined", "left"} /\ peer' = NextPeer(toHost[1])
  BY <1>2 DEF HandleApprovalRequest, HandleAnnouncement, presenceVars
<1>4. PeerFollowsSeat'
  BY <1>1, <1>3, SeatHeardOf DEF TrayInv
<1>5. QED
  BY <1>1, <1>4, TrayStays DEF TrayInv

LEMMA RenderTray ==
  ASSUME TypeOK, TrayInv, Render
  PROVE  TrayInv'
<1>1. toMain \in Seq(Presence) /\ rendered' = peer /\ UNCHANGED <<seat, toHost, peer>>
  BY DEF TypeOK, Render, gatewayVars
<1> DEFINE presence == [connected |-> peer # None,
                        viewerName |-> IF peer = None THEN None ELSE Name(peer)]
<1>2. toMain' = Append(toMain, presence)
  BY DEF Render
<1>3. presence.viewerName = NameOf(peer)
  BY DEF NameOf
<1> HIDE DEF presence
<1>4. toMain' # <<>> /\ toMain'[Len(toMain')] = presence
  BY <1>1, <1>2
<1>5. LatestIsRendered'
  BY <1>1, <1>3, <1>4 DEF LatestIsRendered, NameOf
<1>6. PeerFollowsSeat'
  BY <1>1 DEF TrayInv, PeerFollowsSeat, Followed, IsRequest
<1>7. QED
  BY <1>5, <1>6 DEF TrayInv

LEMMA PresenceTray ==
  ASSUME TypeOK, TrayInv, updateHostPresence
  PROVE  TrayInv'
<1>1. /\ toMain \in Seq(Presence) /\ toMain # <<>> /\ toMain' = Tail(toMain)
      /\ tray' = Head(toMain).viewerName
      /\ UNCHANGED <<seat, toHost, peer, rendered>>
  BY DEF TypeOK, updateHostPresence, gatewayVars
<1>2. toMain[Len(toMain)].viewerName = NameOf(rendered)
  BY <1>1 DEF TrayInv, LatestIsRendered
<1>3. CASE Len(toMain) = 1
  <2>1. toMain' = <<>> /\ Head(toMain) = toMain[Len(toMain)]
    BY <1>1, <1>3
  <2>2. QED
    BY <1>1, <1>2, <2>1 DEF TrayInv, LatestIsRendered, NameOf, PeerFollowsSeat, Followed, IsRequest
<1>4. CASE Len(toMain) # 1
  <2>1. toMain' # <<>> /\ toMain'[Len(toMain')] = toMain[Len(toMain)]
    <3>1. PICK n \in Nat : n = Len(toMain)
      BY <1>1
    <3>2. n > 1 /\ Len(toMain') = n - 1 /\ n - 1 \in 1..(n - 1)
      BY <1>1, <1>4, <3>1
    <3>3. toMain'[n - 1] = toMain[n] /\ toMain' \in Seq(Presence)
      BY <1>1, <3>1, <3>2
    <3>4. toMain' # <<>>
      BY <3>1, <3>2
    <3>5. QED
      BY <3>1, <3>2, <3>3, <3>4
  <2>2. QED
    BY <1>1, <1>2, <2>1 DEF TrayInv, LatestIsRendered, NameOf, PeerFollowsSeat, Followed, IsRequest
<1>5. QED
  BY <1>3, <1>4

-------------------------------------------------------------------------------
(* The whole.                                                                *)

HostApprovalInv == AskedInv /\ NoticesInv

LEMMA InitInv ==
  ASSUME Init
  PROVE  HostApprovalInv
<1>1. join = <<>> /\ toHost = <<>> /\ toGateway = <<>> /\ toMain = <<>> /\ notified = <<>>
      /\ shown = None /\ resolver = None /\ seat = None /\ peer = None /\ rendered = None
      /\ tray = None /\ lastViewerName = None
  BY DEF Init
<1>2. TypeOK
  BY <1>1, HostApprovalAssumption DEF TypeOK
<1>3. RequestsAreNew /\ YesIsAClick
  BY <1>1 DEF RequestsAreNew, YesIsAClick, SeatedIsAllowed
<1>4. NoticesInv
  BY <1>1 DEF NoticesInv, NoticesPair
<1>5. QED
  BY <1>2, <1>3, <1>4 DEF HostApprovalInv, AskedInv

\* Only the renders and the presence they send disturb the notifications.
LEMMA NoticesStay ==
  ASSUME NoticesInv, UNCHANGED <<toMain, lastViewerName, notified>>
  PROVE  NoticesInv'
BY DEF NoticesInv, NoticesPair

LEMMA StepInv ==
  ASSUME HostApprovalInv, [Next]_vars
  PROVE  HostApprovalInv'
<1>0. AskedInv /\ NoticesInv
  BY DEF HostApprovalInv
<1>1. ASSUME NEW v \in Viewers, requestViewerApproval(v)
      PROVE  AskedInv' /\ NoticesInv'
  <2>1. AskedInv'
    BY <1>0, <1>1, RequestStep
  <2>2. UNCHANGED <<toMain, lastViewerName, notified>>
    BY <1>1 DEF requestViewerApproval, presenceVars
  <2>3. QED
    BY <1>0, <2>1, <2>2, NoticesStay DEF HostApprovalInv
<1>2. ASSUME NEW v \in Viewers, isRecentlyApproved(v)
      PROVE  AskedInv' /\ NoticesInv'
  <2>1. AskedInv'
    BY <1>0, <1>2, RecentStep
  <2>2. UNCHANGED <<toMain, lastViewerName, notified>>
    BY <1>2 DEF isRecentlyApproved, presenceVars
  <2>3. QED
    BY <1>0, <2>1, <2>2, NoticesStay DEF HostApprovalInv
<1>3. ASSUME NEW j \in DOMAIN join, ApprovalTimeout(j)
      PROVE  AskedInv' /\ NoticesInv'
  <2>1. AskedInv'
    BY <1>0, <1>3, TimeoutStep
  <2>2. UNCHANGED <<toMain, lastViewerName, notified>>
    BY <1>3 DEF ApprovalTimeout, presenceVars
  <2>3. QED
    BY <1>0, <2>1, <2>2, NoticesStay DEF HostApprovalInv
<1>4. CASE AnswerArrives
  <2>1. AskedInv'
    BY <1>0, <1>4, AnswerArrivesStep
  <2>2. UNCHANGED <<toMain, lastViewerName, notified>>
    BY <1>4 DEF AnswerArrives, presenceVars
  <2>3. QED
    BY <1>0, <2>1, <2>2, NoticesStay DEF HostApprovalInv
<1>5. CASE Leave
  <2>1. AskedInv'
    BY <1>0, <1>5, LeaveStep
  <2>2. UNCHANGED <<toMain, lastViewerName, notified>>
    BY <1>5 DEF Leave, presenceVars
  <2>3. QED
    BY <1>0, <2>1, <2>2, NoticesStay DEF HostApprovalInv
<1>6. CASE HandleApprovalRequest
  <2>1. AskedInv'
    BY <1>0, <1>6, RequestShown
  <2>2. UNCHANGED <<toMain, lastViewerName, notified>>
    BY <1>6 DEF HandleApprovalRequest, presenceVars
  <2>3. QED
    BY <1>0, <2>1, <2>2, NoticesStay DEF HostApprovalInv
<1>7. CASE HandleAnnouncement
  <2>1. AskedInv'
    BY <1>0, <1>7, AnnouncementStep
  <2>2. UNCHANGED <<toMain, lastViewerName, notified>>
    BY <1>7 DEF HandleAnnouncement
  <2>3. QED
    BY <1>0, <2>1, <2>2, NoticesStay DEF HostApprovalInv
<1>8. ASSUME NEW approved \in BOOLEAN, resolveViewerApproval(approved)
      PROVE  AskedInv' /\ NoticesInv'
  <2>1. AskedInv'
    BY <1>0, <1>8, ClickStep
  <2>2. UNCHANGED <<toMain, lastViewerName, notified>>
    BY <1>8 DEF resolveViewerApproval, presenceVars
  <2>3. QED
    BY <1>0, <2>1, <2>2, NoticesStay DEF HostApprovalInv
<1>9. CASE Render
  BY <1>0, <1>9, RenderStep DEF HostApprovalInv
<1>10. CASE updateHostPresence
  BY <1>0, <1>10, PresenceStep DEF HostApprovalInv
<1>11. CASE UNCHANGED vars
  <2>1. UNCHANGED <<gatewayVars, toHost, toGateway, dialogVars>>
        /\ UNCHANGED <<peer, rendered, toMain, tray, lastViewerName, notified>>
    BY <1>11 DEF vars, presenceVars
  <2>2. TypeOK'
    BY <1>0, <2>1 DEF AskedInv, TypeOK, gatewayVars, dialogVars
  <2>3. QED
    BY <1>0, <2>1, <2>2, PresenceOnly, NoticesStay DEF AskedInv, HostApprovalInv
<1>12. QED
  BY <1>1, <1>2, <1>3, <1>4, <1>5, <1>6, <1>7, <1>8, <1>9, <1>10, <1>11
  DEF Next, HostApprovalInv

\* The inductive invariant holds in every state: requests are new, a yes is a click,
\* the peer and the notices follow the seat (App.tsx, signaling.gateway.ts).
THEOREM Inductive == Spec => []HostApprovalInv
<1>1. Init => HostApprovalInv
  BY InitInv
<1>2. HostApprovalInv /\ [Next]_vars => HostApprovalInv'
  BY StepInv
<1>3. QED
  BY <1>1, <1>2, PTL DEF Spec

\* Types: what the dialog waits for is what it shows, and is a join.
THEOREM ApprovalTypes == Spec => []TypeOK
<1>1. HostApprovalInv => TypeOK
  BY DEF HostApprovalInv, AskedInv
<1>2. QED
  BY <1>1, Inductive, PTL

\* However requests overlap, run out and are answered late, whoever gets the
\* seat comes from an address for which the user of the host clicked Allow.
THEOREM SeatIsForTheAllowed == Spec => []SeatedIsAllowed
<1>1. HostApprovalInv => SeatedIsAllowed
  BY DEF HostApprovalInv, AskedInv, YesIsAClick
<1>2. QED
  BY <1>1, Inductive, PTL

\* However viewers come and go between two renders, a notification that one
\* disconnected directly follows the one that the same one connected.
THEOREM NotificationsPair == Spec => []NoticesPair
<1>1. HostApprovalInv => NoticesPair
  BY DEF HostApprovalInv, NoticesInv
<1>2. QED
  BY <1>1, Inductive, PTL

\* A step of the spec keeps the tray in step with the seat.
LEMMA TrayStep ==
  ASSUME HostApprovalInv, HostApprovalInv', TrayInv, [Next]_vars
  PROVE  TrayInv'
<1>0. TypeOK /\ TypeOK'
  BY DEF HostApprovalInv, AskedInv
<1>1. ASSUME NEW v \in Viewers, requestViewerApproval(v)
      PROVE  TrayInv'
  BY <1>0, <1>1, RequestTray
<1>2. ASSUME NEW v \in Viewers, isRecentlyApproved(v)
      PROVE  TrayInv'
  <2>1. Sit(v, toHost) /\ UNCHANGED presenceVars
    BY <1>2 DEF isRecentlyApproved
  <2>2. QED
    BY <1>0, <2>1, SitTray
<1>3. ASSUME NEW j \in DOMAIN join, ApprovalTimeout(j)
      PROVE  TrayInv'
  BY <1>3, TrayUntouched DEF ApprovalTimeout, presenceVars
<1>4. CASE AnswerArrives
  BY <1>0, <1>4, AnswerTray
<1>5. CASE Leave
  BY <1>0, <1>5, LeaveTray
<1>6. CASE HandleApprovalRequest \/ HandleAnnouncement
  BY <1>0, <1>6, HandledTray
<1>7. ASSUME NEW approved \in BOOLEAN, resolveViewerApproval(approved)
      PROVE  TrayInv'
  BY <1>7, TrayUntouched DEF resolveViewerApproval, presenceVars
<1>8. CASE Render
  BY <1>0, <1>8, RenderTray
<1>9. CASE updateHostPresence
  BY <1>0, <1>9, PresenceTray
<1>10. CASE UNCHANGED vars
  BY <1>10, TrayUntouched DEF vars, gatewayVars, presenceVars
<1>11. QED
  BY <1>1, <1>2, <1>3, <1>4, <1>5, <1>6, <1>7, <1>8, <1>9, <1>10 DEF Next

\* However answers, departures, renders and the main process are late, once all
\* have been handled the tray names the viewer in the session, or nobody.
THEOREM TrayNamesTheSeat == Spec => []TrayTellsSeat
<1>1. Init => TrayInv
  <2>1. SUFFICES ASSUME Init PROVE TrayInv
    OBVIOUS
  <2>2. toHost = <<>> /\ toMain = <<>> /\ seat = None /\ peer = None
        /\ rendered = None /\ tray = None
    BY <2>1 DEF Init
  <2>3. PICK b : b = [i \in 0..0 |-> None]
    OBVIOUS
  <2>4. b \in [0..Len(toHost) -> Viewers \cup {None}] /\ Followed(b)
    BY <2>2, <2>3 DEF Followed
  <2>5. PeerFollowsSeat
    BY <2>4 DEF PeerFollowsSeat
  <2>6. QED
    BY <2>2, <2>5 DEF TrayInv, LatestIsRendered, NameOf
<1>2. HostApprovalInv /\ HostApprovalInv' /\ TrayInv /\ [Next]_vars => TrayInv'
  BY TrayStep
<1>3. TrayInv => TrayTellsSeat
  <2>1. SUFFICES ASSUME TrayInv, toHost = <<>>, rendered = peer, toMain = <<>>
                 PROVE  tray = NameOf(seat)
    BY DEF TrayTellsSeat, NameOf
  <2>2. peer = seat
    BY <2>1 DEF TrayInv, PeerFollowsSeat, Followed
  <2>3. QED
    BY <2>1, <2>2 DEF TrayInv, LatestIsRendered
<1>4. QED
  BY <1>1, <1>2, <1>3, Inductive, PTL DEF Spec

===============================================================================
