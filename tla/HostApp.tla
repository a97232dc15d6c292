-------------------------------- MODULE HostApp ---------------------------------
(***************************************************************************)
(* The host's side of the desktop app: the approval dialog, the server it    *)
(* runs as a child process, that server's log, the settings file and the     *)
(* encoder.  No two of these parts share a variable; a step of the app is a  *)
(* step of one of them.                                                     *)
(***************************************************************************)
EXTENDS HostApproval

CONSTANTS
    FirstPort, LastPort, SearchSpan, SearchLimit, MaxShocks,    \* see BackendProcess
    Backups, MaxLogs,                       \* see BackendLog
    Calls, Passwords, Written, Initial, Unset,      \* see HostSettings
    FrameRates, InitialRate, MaxFaults      \* see Bitrate

VARIABLES
    taken, shocks, start, backend, child, quit, window, update,
    log, begun, big, cut, at,
    file, op, wanted, atRisk, before, done, login, previous, sync, alone, agreed,
    captureMode, link, polling, report, sampled, network, waited, rate, bitrate,
    recapturing, encoder, faults

approvalVars == vars
backendVars == <<taken, shocks, start, backend, child, quit, window, update>>
logVars == <<log, begun, big, cut, at>>
settingsVars == <<file, op, wanted, atRisk, before, done, login, previous, sync, alone,
                  agreed>>
encoderVars == <<captureMode, link, polling, report, sampled, network, waited, rate,
                 bitrate, recapturing, encoder, faults>>
hostVars == <<approvalVars, backendVars, logVars, settingsVars, encoderVars>>

-------------------------------------------------------------------------------
\* A search for a port ends within the grace period of a quit.
Backend == INSTANCE BackendProcess WITH SlowProbe <- FALSE

Log == INSTANCE BackendLog

\* The handlers for the password and the approval work in the main process, the
\* one for launch settings in the backend; the calls of all three overlap freely.
HostFields == {"hash", "legacy", "requireApproval", "launchOnStartup"}
HostStored == [f \in HostFields |->
    IF f \in {"hash", "legacy"} THEN Passwords ELSE {"on", "off"}]
AsGiven(f, v, old) == v
Settings == INSTANCE HostSettings WITH
    hash <- "hash", legacy <- "legacy", requireApproval <- "requireApproval",
    launchOnStartup <- "launchOnStartup", On <- "on", Off <- "off",
    Fields <- HostFields, Inputs <- Written, Stored <- HostStored,
    Keep <- "keep", NewValue <- AsGiven, Sync <- "start"

Encoder == INSTANCE Bitrate

ASSUME HostAppAssumption ==
    /\ Backend!SlowProbeAssumption /\ Backend!PortsAssumption
    /\ Log!BackupsAssumption
    /\ Settings!SettingsFileAssumption /\ Settings!HostFieldsAssumption
    /\ Encoder!BitrateAssumption

-------------------------------------------------------------------------------

HostInit == Init /\ Backend!Init /\ Log!Init /\ Settings!Init /\ Encoder!Init

ApprovalMoves ==
    Next /\ UNCHANGED <<backendVars, logVars, settingsVars, encoderVars>>
BackendMoves ==
    Backend!Next /\ UNCHANGED <<approvalVars, logVars, settingsVars, encoderVars>>
LogMoves ==
    Log!Next /\ UNCHANGED <<approvalVars, backendVars, settingsVars, encoderVars>>
SettingsMove ==
    Settings!Next /\ UNCHANGED <<approvalVars, backendVars, logVars, encoderVars>>
EncoderMoves ==
    Encoder!Next /\ UNCHANGED <<approvalVars, backendVars, logVars, settingsVars>>

HostNext == ApprovalMoves \/ BackendMoves \/ LogMoves \/ SettingsMove \/ EncoderMoves

HostSpec == HostInit /\ [][HostNext]_hostVars

-------------------------------------------------------------------------------
\* What the controller keeps for its child it keeps exactly while it holds the
\* process, no child outlives the app, and when nobody takes a port meanwhile the
\* child listens where the app says (backendProcess.ts, index.ts before-quit).
ChildIsHeld ==
    Backend!ControllerAgrees /\ Backend!NoOrphan /\ Backend!AdvertisedIsServed

\* Nothing goes unannounced: the server is not stopped before the window was told
\* of the shutdown, and a log is lost only as the oldest of a full set, or with the
\* highest number after a rotation that was cut short left a lower one free
\* (index.ts notifyHostShutdownAndQuit, backendProcess.ts rotateBackendLog).
NothingLostSilently == Backend!ShutdownAnnounced /\ Log!OnlyOldestIsLost

\* What is on the disk adds up although the handlers overlap.  Logs are in the
\* order of their age after any rotation.  A field of the settings is in the file
\* as it was reported, unless a call went on to write though another one had
\* opened the file meanwhile, or a write failed half-way.  The login item agrees
\* with its field when it was last moved by one alone.  Until a password is set and
\* with the same exceptions, the same passwords open the host; the plaintext of an
\* older version goes with the first launch setting that is saved
\* (index.ts writeJsonSettings, syncLaunchOnStartup; appIpc.ts app:set-launch-settings;
\* settings.service.ts updateHostSettings, verifyHostPassword).
DiskAddsUp ==
    /\ Log!LogInv
    /\ Settings!TypeOK /\ Settings!UpdatesSurvive
    /\ Settings!LoginFollowsSettings /\ Settings!PasswordKept

\* The encoder of a connection has the rate and bitrate that were decided last,
\* from samples of this connection, in both capture modes
\* (RemoteControlClient.ts applyVideoSenderParameters, collectStats).
EncoderFollowsSamples ==
    Encoder!TypeOK /\ Encoder!EncoderFollows /\ Encoder!SamplesOfConnection

===============================================================================
