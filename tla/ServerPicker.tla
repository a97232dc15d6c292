----------------------------- MODULE ServerPicker ------------------------------
(***************************************************************************)
(* The url a viewer connects to: entered by its user or picked from a list,   *)
(* and set by a scan that finds servers.  A scan decides with the values of   *)
(* the render it was started in; the field and the list can be used, and      *)
(* Connect pressed, while it is in progress.                                 *)
(***************************************************************************)
EXTENDS Naturals, Sequences

CONSTANTS
    Urls, defaultServerUrl,
    None,
    MaxScans    \* bound: so many scans

ServerPickerAssumption ==
    defaultServerUrl \notin Urls /\ None \notin Urls /\ MaxScans \in Nat

VARIABLES
    serverUrl, connectedTo,
    scan,           \* the scan in progress: what it goes by
    discoveredServers,
    scans,          \* the scans so far
    entered,        \* the url the user entered or picked last
    raced           \* a scan that goes by the default url was looking for servers then

vars == <<serverUrl, connectedTo, scan, discoveredServers, scans, entered, raced>>

isDiscovering == scan # None
\* A scan that will set the url if it finds a server.
MayTake ==
    isDiscovering /\ scan.phase = "discover"
        /\ ~scan.isConnected /\ scan.serverUrl = defaultServerUrl
NewScan == [serverUrl |-> serverUrl, isConnected |-> connectedTo # None, phase |-> "discover"]

\* The app scans as soon as it is there.
Init ==
    /\ serverUrl = defaultServerUrl /\ connectedTo = None
    /\ scan = [serverUrl |-> defaultServerUrl, isConnected |-> FALSE, phase |-> "discover"]
    /\ discoveredServers = <<>> /\ scans = 1 /\ entered = None /\ raced = FALSE

\* The Scan button is disabled while a scan is in progress.
scanServers ==
    /\ ~isDiscovering /\ connectedTo = None /\ scans < MaxScans
    /\ scan' = NewScan /\ scans' = scans + 1
    /\ UNCHANGED <<serverUrl, connectedTo, discoveredServers, entered, raced>>

ServersFound(found) ==
    /\ isDiscovering /\ scan.phase = "discover"
    /\ discoveredServers' = found
    /\ serverUrl' = IF MayTake /\ found # <<>> THEN found[1] ELSE serverUrl
    /\ raced' = (raced /\ ~(MayTake /\ found = <<>>))
    /\ scan' = [scan EXCEPT !.phase = "latencies"]
    /\ UNCHANGED <<connectedTo, scans, entered>>

ScanFails ==
    /\ isDiscovering /\ scan.phase = "discover" /\ scan' = None
    /\ raced' = (raced /\ ~MayTake)
    /\ UNCHANGED <<serverUrl, connectedTo, discoveredServers, scans, entered>>

LatenciesKnown ==
    /\ isDiscovering /\ scan.phase = "latencies" /\ scan' = None
    /\ UNCHANGED <<serverUrl, connectedTo, discoveredServers, scans, entered, raced>>

EnterUrl(url) ==
    /\ connectedTo = None
    /\ serverUrl' = url /\ entered' = url /\ raced' = MayTake
    /\ UNCHANGED <<connectedTo, scan, discoveredServers, scans>>

connect ==
    /\ connectedTo = None
    /\ connectedTo' = serverUrl
    /\ UNCHANGED <<serverUrl, scan, discoveredServers, scans, entered, raced>>

disconnect ==
    /\ connectedTo # None /\ connectedTo' = None
    /\ UNCHANGED <<serverUrl, scan, discoveredServers, scans, entered, raced>>

Found == {<<>>} \cup {<<u>> : u \in Urls} \cup {<<u, v>> : u, v \in Urls}

Next ==
    \/ scanServers \/ ScanFails \/ LatenciesKnown
    \/ \E found \in Found : ServersFound(found)
    \/ \E url \in Urls \cup {defaultServerUrl} : EnterUrl(url)
    \/ connect \/ disconnect

Spec == Init /\ [][Next]_vars

-------------------------------------------------------------------------------
\* "either select the discovered LAN server or enter the server URL manually": a
\* url that the user entered or picked, other than the default one, is replaced
\* only by a scan that was looking for servers when it was entered, as the scan at
\* the start of the app may (useServerDiscovery.ts scanServers, App.tsx).
EnteredUrlStays ==
    entered \notin {None, defaultServerUrl} /\ ~raced => serverUrl = entered

=============================================================================
