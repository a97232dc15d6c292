----------------------------- MODULE HostSettings -----------------------------
(***************************************************************************)
(* The settings of a host: the handlers that update host-settings.json, the *)
(* login item of the operating system that follows one of them, and what a  *)
(* joining viewer's password is compared with.  The checkboxes and the       *)
(* password can be used again while an earlier call is under way.            *)
(***************************************************************************)
EXTENDS SettingsFile

CONSTANTS
    hash, legacy, requireApproval, launchOnStartup,     \* the fields
    On, Off,        \* what a switch is set to
    Passwords,      \* what a host is protected with
    Initial,        \* what the file may hold when the app is installed or updated
    None, Sync      \* nobody, and the call that sets the login item at start

\* Nobody sets a plaintext password; an older version left it.
HostFieldsAssumption ==
    /\ Fields = {hash, legacy, requireApproval, launchOnStartup}
    /\ Inputs[hash] \subseteq Passwords /\ Inputs[legacy] = {}
    /\ Inputs[requireApproval] \subseteq {On, Off} /\ Inputs[launchOnStartup] = {On, Off}
    /\ Stored = [f \in Fields |-> IF f \in {hash, legacy} THEN Passwords ELSE {On, Off}]
    /\ \A f \in Fields : \A v \in Inputs[f], old \in Stored[f] \cup {Unset} :
            NewValue(f, v, old) = v
    /\ Initial \subseteq Contents
    /\ None \notin Calls \cup {Sync} /\ Sync \notin Calls

VARIABLES
    before,     \* the file as it was in the beginning
    done,       \* the password's fields that were reported as saved
    login,      \* openAtLogin of the operating system
    previous,   \* previousOpenAtLogin of each handler that is under way
    sync,       \* syncLaunchOnStartup: asking the backend, with its answer, or over
    alone,      \* who moves the login item with nobody else moving it meanwhile
    agreed      \* the last that moved it did so alone

hostVars == <<before, done, login, previous, sync, alone, agreed>>
vars == <<fileVars, hostVars>>

TypeOK ==
    /\ FileTypeOK
    /\ before \in Contents
    /\ done \in SUBSET {hash, legacy}
    /\ login \in {On, Off}
    /\ previous \in [Calls -> {On, Off, Unset}]
    /\ sync \in [phase : {"asking", "answered", "over"}, value : {On, Off, Unset}]
    /\ alone \in Calls \cup {Sync, None}
    /\ agreed \in BOOLEAN

Asking == [phase |-> "asking", value |-> Unset]

Init ==
    /\ before \in Initial /\ FileInit(before)
    /\ done = {}
    /\ login \in {On, Off} /\ previous = [c \in Calls |-> Unset]
    /\ sync = Asking /\ alone = None /\ agreed = FALSE

-------------------------------------------------------------------------------
\* The handlers

\* The plaintext password is dropped whether or not another one is given.
PasswordPatch(v) == [ChangeOf(hash, v) EXCEPT ![legacy] = Unset]

SetHostAccessPassword(c, v) ==
    /\ Start(c, PasswordPatch(v))
    /\ UNCHANGED hostVars

SetRequireViewerApproval(c, b) ==
    /\ Start(c, ChangeOf(requireApproval, b))
    /\ UNCHANGED hostVars

\* Who moves the login item, and who else does so at the same time.
Launching == Saving(launchOnStartup)
Moves(mover) ==
    IF Launching = {} /\ sync.phase # "answered"
    THEN alone' = mover /\ UNCHANGED agreed
    ELSE alone' = None /\ agreed' = FALSE

\* The login item changes first, then the backend is asked to save the setting,
\* which never writes a plaintext password.
SetLaunchSettings(c, b) ==
    /\ Start(c, [ChangeOf(launchOnStartup, b) EXCEPT ![legacy] = Unset])
    /\ previous' = [previous EXCEPT ![c] = login]
    /\ login' = b
    /\ Moves(c)
    /\ UNCHANGED <<before, done, sync>>

\* What c leaves of the login item is as saved if nobody else moved it.
Settles(c) ==
    /\ agreed' = (agreed \/ alone = c)
    /\ alone' = IF alone = c THEN None ELSE alone

\* When saving fails the login item goes back to what it was.
SetBack(c) ==
    /\ login' = previous[c]
    /\ alone' = IF alone = c THEN None ELSE alone
    /\ UNCHANGED agreed

UpdateEnds(c) ==
    /\ WriteFile(c)
    /\ done' = done \cup (Patched(op[c].patch) \cap {hash, legacy})
    /\ IF c \in Launching THEN Settles(c) ELSE UNCHANGED <<alone, agreed>>
    /\ previous' = [previous EXCEPT ![c] = Unset]
    /\ UNCHANGED <<before, login, sync>>

UpdateRefused(c) ==
    /\ UpdateFails(c)
    /\ IF c \in Launching THEN SetBack(c) ELSE UNCHANGED <<login, alone, agreed>>
    /\ previous' = [previous EXCEPT ![c] = Unset]
    /\ UNCHANGED <<before, done, sync>>

UpdateProceeds(c) ==
    /\ ReadFile(c) \/ OpenFile(c)
    /\ UNCHANGED hostVars

-------------------------------------------------------------------------------
\* The start of the app

\* The backend answers with what it reads, which is nothing while a call has the
\* file open.
SyncAnswered ==
    /\ sync.phase = "asking"
    /\ sync' = [phase |-> "answered", value |-> readSettings[launchOnStartup]]
    /\ IF Open = {} /\ launchOnStartup \notin atRisk THEN Moves(Sync)
       ELSE alone' = None /\ agreed' = FALSE
    /\ UNCHANGED <<fileVars, before, done, login, previous>>

SyncGivesUp ==
    /\ sync.phase = "asking" /\ sync' = [sync EXCEPT !.phase = "over"]
    /\ UNCHANGED <<fileVars, before, done, login, previous, alone, agreed>>

\* The login item is set from the answer, whatever was set meanwhile.
SyncLaunchOnStartup ==
    /\ sync.phase = "answered" /\ sync' = [sync EXCEPT !.phase = "over"]
    /\ login' = IF sync.value = Unset THEN login ELSE sync.value
    /\ Settles(Sync)
    /\ UNCHANGED <<fileVars, before, done, previous>>

Restart ==
    /\ AppRestarts
    /\ previous' = [c \in Calls |-> Unset]
    /\ sync' = Asking /\ alone' = None /\ agreed' = (agreed /\ Launching = {})
    /\ UNCHANGED <<before, done, login>>

Next ==
    \/ \E c \in Calls :
        \/ \E v \in Inputs[hash] \cup {Unset} : SetHostAccessPassword(c, v)
        \/ \E b \in Inputs[requireApproval] : SetRequireViewerApproval(c, b)
        \/ \E b \in {On, Off} : SetLaunchSettings(c, b)
        \/ UpdateProceeds(c) \/ UpdateEnds(c) \/ UpdateRefused(c)
    \/ SyncAnswered \/ SyncGivesUp \/ SyncLaunchOnStartup \/ Restart

Spec == Init /\ [][Next]_vars

-------------------------------------------------------------------------------

\* verifyHostPassword: a hash is compared first, then a legacy password; with
\* neither, every password is accepted.
Accepts(content, v) ==
    CASE content[hash] # Unset   -> v = content[hash]
      [] content[hash] = Unset /\ content[legacy] # Unset -> v = content[legacy]
      [] OTHER -> TRUE

\* The operating system and the settings agree on starting the app with Windows,
\* though one is set before the other and saving may fail, when whoever moved the
\* login item last (a call that was saved, or the start of the app) was alone; two
\* changes at a time, or one while the app starts, may leave them apart.
LoginFollowsSettings ==
    agreed /\ Launching = {} /\ wanted[launchOnStartup] # Unset
        => login = wanted[launchOnStartup]

\* Until a password is set, and while the file is not written over unseen, the
\* same passwords are accepted: the hash, or any when there is none.  A plaintext
\* password of an older version counts until something else is saved by the
\* backend, which deletes it and leaves the host open.
PasswordKept ==
    Open = {} /\ hash \notin done /\ {hash, legacy} \cap atRisk = {} =>
        LET kept == IF legacy \in done THEN [before EXCEPT ![legacy] = Unset] ELSE before
        IN  \A v \in Passwords : Accepts(readSettings, v) <=> Accepts(kept, v)

-------------------------------------------------------------------------------
\* The inductive invariant behind the properties above, beside FileInv.

\* Who moves the login item alone knows what it is and was.
LoginAhead ==
    /\ agreed \/ alone # None => Launching \subseteq {alone}
    /\ alone \in Calls => /\ alone \in Launching /\ sync.phase # "answered"
                          /\ login = op[alone].patch[launchOnStartup]
                          /\ agreed => wanted[launchOnStartup] \in {previous[alone], Unset}
    /\ alone = Sync => sync.phase = "answered" /\ sync.value = wanted[launchOnStartup]
    /\ agreed /\ alone \notin Calls => wanted[launchOnStartup] \in {login, Unset}
    /\ agreed /\ sync.phase = "answered" => alone = Sync
    /\ \A c \in Launching : previous[c] # Unset

\* Nothing but the password's own handler changes what is compared with it.
PasswordUntouched ==
    /\ hash \notin done => wanted[hash] = before[hash]
    /\ wanted[legacy] = IF legacy \in done THEN Unset ELSE before[legacy]

SettingsInv == TypeOK /\ FileInv /\ LoginAhead /\ PasswordUntouched

===============================================================================
