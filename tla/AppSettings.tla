----------------------------- MODULE AppSettings ------------------------------
(***************************************************************************)
(* What settings.json of a viewer holds: two of its viewer settings, the     *)
(* servers it connected to and the folder for incoming files.               *)
(***************************************************************************)
EXTENDS Naturals, FiniteSets, SequencesExt

CONSTANTS
    Servers, Folders,   \* what the user connects to and chooses
    RecentLimit,        \* so many servers are remembered
    On, Off,            \* what a switch is set to
    Unset, Keep         \* see SettingsFile

AppFields == {"takeControl", "captureLocalInput", "recentServers", "saveDirectory"}
Lists == {list \in UNION {[1 .. n -> Servers] : n \in 0 .. RecentLimit} : IsInjective(list)}

AppInputs == [f \in AppFields |->
    CASE f = "recentServers" -> Servers [] f = "saveDirectory" -> Folders [] OTHER -> {On, Off}]
AppStored == [f \in AppFields |->
    CASE f = "recentServers" -> Lists [] f = "saveDirectory" -> Folders [] OTHER -> {On, Off}]

AppSettingsAssumption ==
    /\ RecentLimit \in Nat \ {0}
    /\ {Unset, Keep} \cap (Servers \cup Folders \cup {On, Off}) = {}
    /\ Unset \notin Lists /\ Unset # Keep /\ On # Off

\* Mutant: a server that is in the list is not taken out of it.
AddServerAgain(servers, server) ==
    LET list == <<server>> \o (IF servers = Unset THEN <<>> ELSE servers)
    IN  SubSeq(list, 1, IF Len(list) < RecentLimit THEN Len(list) ELSE RecentLimit)

\* The filter of the handler, server by server.
without(servers, server) ==
    LET others[n \in 0 .. Len(servers)] ==
            IF n = 0 THEN <<>>
            ELSE IF servers[n] # server THEN Append(others[n - 1], servers[n])
            ELSE others[n - 1]
    IN  others[Len(servers)]

\* The newest first, each server once, no more than the limit.
addServer(servers, server) ==
    LET others == without(IF servers = Unset THEN <<>> ELSE servers, server)
        list == <<server>> \o others
    IN  SubSeq(list, 1, IF Len(list) < RecentLimit THEN Len(list) ELSE RecentLimit)

SavedAs(f, v, old) == IF f = "recentServers" THEN addServer(old, v) ELSE v

-------------------------------------------------------------------------------

\* The list a viewer picks from has no server twice and no more than fit.
DistinctServers(list) ==
    list # Unset => IsInjective(list) /\ Len(list) <= RecentLimit

===============================================================================
