----------------------------- MODULE SettingsFile -----------------------------
(***************************************************************************)
(* A settings file that is read, changed and written back whole:            *)
(* host-settings.json, which the main process and the embedded backend both *)
(* update, and settings.json, which the handlers of a viewer's main process *)
(* update.  Nothing orders the calls: each reads the file, waits, empties    *)
(* it and writes what it read with its own fields changed, whatever others   *)
(* did meanwhile.                                                           *)
(***************************************************************************)
EXTENDS Naturals, FiniteSets

CONSTANTS
    Calls,      \* bound: so many calls of the handlers are under way at a time
    Fields,     \* the properties of the JSON object
    Inputs,     \* what a call can set a field to
    Stored,     \* what a field can hold
    Unset,      \* the field is not there
    Keep,       \* the call leaves the field as it read it
    NewValue(_, _, _)   \* of a field, a call's input and the old value

SettingsFileAssumption ==
    /\ \A f \in Fields : Keep \notin Inputs[f] /\ Unset \notin Inputs[f] \cup Stored[f]
    /\ Keep # Unset
    /\ \A f \in Fields : \A v \in Inputs[f] : \A old \in Stored[f] \cup {Unset} :
            NewValue(f, v, old) \in Stored[f]

VARIABLES
    file,       \* the file: whole, empty between open and write, or torn
    op,         \* the calls that are under way
    wanted,     \* each field as the last call that reported it as saved left it
    atRisk      \* the fields that were written over unseen and not saved since

fileVars == <<file, op, wanted, atRisk>>

AnyStored == (UNION {Stored[f] : f \in Fields}) \cup {Unset}
AnyInput == (UNION {Inputs[f] : f \in Fields}) \cup {Unset, Keep}
Contents == {c \in [Fields -> AnyStored] : \A f \in Fields : c[f] \in Stored[f] \cup {Unset}}
Patches == {p \in [Fields -> AnyInput] :
                \A f \in Fields : p[f] \in Inputs[f] \cup {Unset, Keep}}
Nothing == [f \in Fields |-> Unset]
NoChange == [f \in Fields |-> Keep]
NoUpdate == [phase |-> "idle", patch |-> NoChange, read |-> Nothing, stale |-> FALSE]

FileTypeOK ==
    /\ file \in [state : {"whole", "empty", "torn"}, content : Contents]
    /\ op \in [Calls -> [phase : {"idle", "begun", "read", "open"}, patch : Patches,
                         read : Contents, stale : BOOLEAN]]
    /\ wanted \in Contents
    /\ atRisk \in SUBSET Fields

FileInit(initial) ==
    /\ file = [state |-> "whole", content |-> initial]
    /\ op = [c \in Calls |-> NoUpdate]
    /\ wanted = initial
    /\ atRisk = {}

Idle(c) == op[c].phase = "idle"
Open == {c \in Calls : op[c].phase = "open"}
ChangeOf(f, v) == [NoChange EXCEPT ![f] = v]
Patched(patch) == {f \in Fields : patch[f] # Keep}
\* The calls under way that set a field.
Saving(f) == {c \in Calls : ~Idle(c) /\ op[c].patch[f] # Keep}

\* JSON.parse throws on anything but the whole file, and the reader takes {}.
readSettings == IF file.state = "whole" THEN file.content ELSE Nothing

Changed(content, patch) ==
    [f \in Fields |-> IF patch[f] = Keep THEN content[f]
                      ELSE IF patch[f] = Unset THEN Unset
                      ELSE NewValue(f, patch[f], content[f])]

\* Calls are made; Unset deletes a field, as an empty password does.
Begin(started) ==
    /\ \A c \in DOMAIN started : Idle(c)
    /\ op' = [c \in Calls |-> IF c \in DOMAIN started
                              THEN [NoUpdate EXCEPT !.phase = "begun", !.patch = started[c]]
                              ELSE op[c]]
    /\ UNCHANGED <<file, wanted, atRisk>>

Start(c, patch) == Begin([d \in {c} |-> patch])

\* While another call has the file open there is nothing to read.
ReadFile(c) ==
    /\ op[c].phase = "begun"
    /\ op' = [op EXCEPT ![c].phase = "read", ![c].read = readSettings,
                        ![c].stale = (Open # {})]
    /\ UNCHANGED <<file, wanted, atRisk>>

\* writeFile opens the file, which empties it; what others have read is stale, and
\* a call that goes on with what is stale takes the fields back.
OpenFile(c) ==
    /\ op[c].phase = "read"
    /\ op' = [d \in Calls |->
                IF d = c THEN [op[c] EXCEPT !.phase = "open"]
                ELSE IF op[d].phase \in {"read", "open"} THEN [op[d] EXCEPT !.stale = TRUE]
                ELSE op[d]]
    /\ file' = [state |-> "empty", content |-> Nothing]
    /\ atRisk' = IF op[c].stale THEN Fields ELSE atRisk
    /\ UNCHANGED wanted

\* What a call reports as saved when it has written, to a file that nobody else
\* touched or over the others.
Reported(c, next) ==
    /\ op' = [op EXCEPT ![c] = NoUpdate]
    /\ wanted' = [f \in Fields |-> IF op[c].patch[f] = Keep THEN wanted[f] ELSE next[f]]
    /\ atRisk' = IF op[c].stale THEN atRisk ELSE atRisk \ Patched(op[c].patch)

\* Mutant: the handler writes its own fields only.
WriteOwnFields(c) ==
    /\ op[c].phase = "open"
    /\ LET next == Changed(Nothing, op[c].patch)
       IN  file' = [state |-> "whole", content |-> next] /\ Reported(c, next)

\* The text goes over what another call wrote meanwhile; where that was longer,
\* its tail stays.
WriteFile(c) ==
    /\ op[c].phase = "open"
    /\ LET next == Changed(op[c].read, op[c].patch)
       IN  /\ \/ file' = [state |-> "whole", content |-> next]
              \/ file.state # "empty" /\ file' = [state |-> "torn", content |-> Nothing]
           /\ Reported(c, next)

\* Calls end where they are: what was being written may stay half-written.
GivenUp(ended) ==
    /\ IF ended \cap Open = {} THEN UNCHANGED <<file, atRisk>>
       ELSE /\ file' \in {file, [state |-> "torn", content |-> Nothing]}
            /\ atRisk' = Fields
    /\ UNCHANGED wanted

\* The handler ends without a change: its call is refused, the hash fails, the
\* folder cannot be made, the user cancels the dialog.  When the disk is full the
\* file is open already.
UpdateFails(c) ==
    /\ ~Idle(c)
    /\ op' = [op EXCEPT ![c] = NoUpdate]
    /\ GivenUp({c})

\* The app is closed or killed and starts again; calls that are under way are gone.
AppRestarts ==
    /\ op' = [c \in Calls |-> NoUpdate]
    /\ GivenUp(Calls)

-------------------------------------------------------------------------------
\* A field is in the file as it was reported to be saved, whatever the other
\* calls write.  It may be lost only when a call goes on to write though another
\* one opened the file after it had read it, or when a write fails or is killed
\* half-way; once the field is saved again undisturbed, it is in the file again.
UpdatesSurvive == Open = {} => \A f \in Fields \ atRisk : readSettings[f] = wanted[f]

\* The inductive invariant behind UpdatesSurvive: a call that is not stale is
\* alone with the file and has read what was reported.
FileInv ==
    /\ FileTypeOK
    /\ \A c \in Calls : op[c].phase \in {"read", "open"} /\ ~op[c].stale =>
            /\ Open \subseteq {c}
            /\ \A f \in Fields \ atRisk : op[c].read[f] = wanted[f]
    /\ \A c \in Open : IF op[c].stale THEN atRisk = Fields ELSE file.state = "empty"
    /\ UpdatesSurvive

===============================================================================
