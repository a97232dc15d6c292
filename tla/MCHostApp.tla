------------------------------ MODULE MCHostApp -------------------------------
(***************************************************************************)
(* The host's side of the desktop app for TLC.  Whatever a part does alone   *)
(* it also does beside the others: a behaviour picks the part that moves,    *)
(* and the others stay as they began.                                       *)
(***************************************************************************)
EXTENDS HostApp, FiniteSets, TLC

CONSTANTS
    ann, ben, eve,      \* the viewers
    c1, c2,             \* calls of the handlers that are under way together
    CallsMade           \* bound: so many changes of the settings in all

\* Two of them have one name, two are behind one address.
ThreeViewers == {ann, ben, eve}
TwoNames(v) == IF v = eve THEN "Ann's laptop" ELSE "viewer"
TwoAddresses(v) == IF v = ann THEN "192.168.1.7" ELSE "192.168.1.9"

TwoCalls == {c1, c2}
EitherCall == Permutations(TwoCalls)

\* What the user enters: one password, which is not the one of an older version.
OnePassword == [f \in HostFields |->
    CASE f = "hash" -> {"secret"} [] f = "legacy" -> {} [] f = "requireApproval" -> {"on"}
      [] f = "launchOnStartup" -> {"on", "off"}]

\* A host with a password, and one whose password an older version left in plaintext.
Protected == [f \in HostFields |->
    CASE f = "hash" -> "secret" [] f = "launchOnStartup" -> "on" [] OTHER -> Unset]
FromOlder == [f \in HostFields |-> IF f = "legacy" THEN "other" ELSE Unset]
AsFound == {Protected, FromOlder}

VARIABLES
    part,       \* the part that moves
    made        \* the changes of the settings so far

partVars == <<part, made, hostVars>>
Parts == {"approval", "backend", "log", "settings", "encoder"}

\* A part that does not move begins in one of its initial states; the login item is
\* off at first, whatever the file says.
PartInit ==
    /\ part \in Parts /\ made = 0
    /\ part # "backend" => taken = {}
    /\ login = "off"
    /\ part # "settings" => before = Protected
    /\ part # "encoder" => network = "good" /\ captureMode = "desktop"
    /\ HostInit

Started == {c \in Calls : op[c].phase = "idle" /\ op'[c].phase # "idle"}

PartNext ==
    /\ \/ part = "approval" /\ ApprovalMoves
       \/ part = "backend" /\ BackendMoves
       \/ part = "log" /\ LogMoves
       \/ part = "settings" /\ SettingsMove
       \/ part = "encoder" /\ EncoderMoves
    /\ made' = made + Cardinality(Started) /\ made' <= CallsMade
    /\ UNCHANGED part

PartSpec == PartInit /\ [][PartNext]_partVars
===============================================================================
