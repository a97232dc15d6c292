----------------------------- MODULE MCViewerApp ------------------------------
(***************************************************************************)
(* The viewer's side of the desktop app for TLC, and the subnets that a scan *)
(* asks.  Whatever a part does alone it also does beside the others: a       *)
(* behaviour picks the part that moves, and the others stay as they began.   *)
(***************************************************************************)
EXTENDS ViewerApp, FiniteSets, TLC

CONSTANTS
    office, home, kiosk,    \* servers; the kiosk has no password
    CallsMade               \* bound: so many calls to update the settings in all

ThreeServers == {office, home, kiosk}
TwoProtected == {office, home}

\* Three servers, two of them on one machine, and two that give the same public
\* url; nobody is at lan3.
ThreeAnnounced == {"tower", "tower2", "laptop"}
ScanAddress(s) == IF s = "laptop" THEN "lan2" ELSE "lan1"
ScanPort(s) == IF s = "tower2" THEN 47316 ELSE 47315
PublicUrl(s) == IF s = "tower2" THEN "own" ELSE "public"
ThreeProbes == <<"lan3", "lan1", "lan2">>

\* Whoever installs the app has no settings; an update finds some.
NothingSaved == [f \in Recent!AppFields |-> Unset]
CaptureSaved == [NothingSaved EXCEPT !["takeControl"] = Off, !["captureLocalInput"] = On]
AsFound == {NothingSaved, CaptureSaved}
EitherCall == Permutations(Calls)

VARIABLES
    part,   \* the part that moves
    made,   \* the calls to update the settings so far
    interfaces, broadcasts, probes

Subnets == INSTANCE SubnetProbes WITH
    OctetBits <- 2, maxHostsPerSubnet <- 6, MaxInterfaces <- 2
subnetVars == <<interfaces, broadcasts, probes>>

ASSUME Subnets!SubnetAssumption

Parts == {"prompt", "capture", "reconnects", "control", "history", "scan", "subnets",
          "picker"}

\* The user captures the keyboard, in a window that loses the focus; or quits and
\* connects again, while the channel drops and statistics are rendered.
KeysOfPart == IF part = "reconnects" THEN {"modifiers", "quit"} ELSE {"modifiers", "exit"}
EventsOfPart == IF part = "reconnects" THEN {"quit", "drop", "stats"} ELSE {"blur"}

\* The calls of the step, no more of them than the bound.  The user uses the
\* switches, and connects to one server; or leaves the switches alone, which are
\* not loaded then.
Started == {c \in Calls : op[c].phase = "idle" /\ op'[c].phase = "begun"}
SettingsMove ==
    /\ ControlMoves
    /\ made' = made + Cardinality(Started) /\ made' <= CallsMade
    /\ \A c \in Started : LET patch == op'[c].patch IN
        IF part = "control" THEN patch["recentServers"] \in {Keep, home}
                                 /\ patch["saveDirectory"] = Keep
        ELSE \A s \in Control!Switches : patch[s] = Keep
    /\ part = "history" => UNCHANGED load

-------------------------------------------------------------------------------
\* A part that does not move begins in one of its initial states.
PartInit ==
    /\ part \in Parts /\ made = 0
    /\ ViewerInit /\ Subnets!Init
    /\ keys = KeysOfPart /\ events = EventsOfPart
    /\ file.content = (IF part = "control" THEN CaptureSaved ELSE NothingSaved)

PartNext ==
    /\ UNCHANGED part
    /\ \/ /\ \/ part = "prompt" /\ PromptMoves
             \/ part \in {"capture", "reconnects"} /\ InputMoves
             \/ part = "scan" /\ ScanMoves
             \/ part = "picker" /\ PickerMoves
          /\ UNCHANGED <<made, subnetVars>>
       \/ part \in {"control", "history"} /\ SettingsMove /\ UNCHANGED subnetVars
       \/ part = "subnets" /\ Subnets!Next /\ UNCHANGED <<made, viewerVars>>

PartSpec == PartInit /\ [][PartNext]_<<part, made, subnetVars, viewerVars>>

-------------------------------------------------------------------------------
\* A scan probes every neighbour in every subnet that is not too large, /31 and /32
\* among them, and asks each subnet at its broadcast address (discoveryClient.ts
\* getSubnetProbeAddresses, shared toDiscoveryBroadcastAddress).
SubnetsProbed == Subnets!ProbesAreNeighbours /\ Subnets!BroadcastIsHighest
===============================================================================
