----------------------------- MODULE HostApproval ------------------------------
(***************************************************************************)
(* What a host's user is asked and told: the approval dialog, which has room *)
(* for one request, and the tray and notifications, which follow the peer.   *)
(* The gateway asks at most for 30 seconds; the dialog does not know that.   *)
(***************************************************************************)
EXTENDS Naturals, Sequences

CONSTANTS
    Viewers, Name(_),   \* viewers, and what they call themselves
    Address(_),         \* the address that a viewer comes from
    None,
    MaxJoins            \* bound: so many joins get to the question of approval

ASSUME HostApprovalAssumption ==
    /\ None \notin Viewers \cup Nat \cup {"allow", "deny"}
    /\ None \notin {Name(v) : v \in Viewers}
    /\ MaxJoins \in Nat \ {0}

VARIABLES
    join,       \* the joins: who, what the gateway decided, what the user clicked
    seat,       \* the viewer in the session
    toHost, toGateway,  \* the host's socket, both ways
    shown,      \* viewerApprovalPrompt: the join whose dialog is open
    resolver,   \* viewerApprovalResolverRef: the join that waits for it
    peer,       \* the peer the renderer knows of
    rendered,   \* the peer of the last render
    toMain,     \* app:update-host-presence
    tray, lastViewerName,
    notified    \* the notifications that were shown

gatewayVars == <<join, seat>>
dialogVars == <<shown, resolver>>
presenceVars == <<peer, rendered, toMain, tray, lastViewerName, notified>>
vars == <<gatewayVars, toHost, toGateway, dialogVars, presenceVars>>

Joins == 1..MaxJoins
Answers == {"pending", "approved", "rejected", "timeout"}
Requests == [type : {"approval-request"}, join : Joins]
Announcements == [type : {"joined", "left"}, viewer : Viewers]
Presence == [connected : BOOLEAN, viewerName : {Name(v) : v \in Viewers} \cup {None}]
Notices == [title : {"connected", "disconnected"}, name : {Name(v) : v \in Viewers}]

Init ==
    /\ join = <<>> /\ seat = None
    /\ toHost = <<>> /\ toGateway = <<>>
    /\ shown = None /\ resolver = None
    /\ peer = None /\ rendered = None /\ toMain = <<>>
    /\ tray = None /\ lastViewerName = None /\ notified = <<>>

-------------------------------------------------------------------------------
\* The gateway

Pending == {j \in DOMAIN join : join[j].answer = "pending"}
Approved(v) ==
    \E j \in DOMAIN join :
        Address(join[j].viewer) = Address(v) /\ join[j].answer = "approved"
Record(v, answer) ==
    /\ Len(join) < MaxJoins
    /\ v # seat /\ \A j \in Pending : join[j].viewer # v
    /\ join' = Append(join, [viewer |-> v, answer |-> answer, click |-> None,
                             during |-> Pending])

\* There is one seat for a viewer; who finds it taken is told so.
Sit(v, message) ==
    IF seat = None
    THEN seat' = v /\ toHost' = Append(message, [type |-> "joined", viewer |-> v])
    ELSE UNCHANGED seat /\ toHost' = message

requestViewerApproval(v) ==
    /\ Record(v, "pending")
    /\ toHost' = Append(toHost, [type |-> "approval-request", join |-> Len(join) + 1])
    /\ UNCHANGED <<seat, toGateway, dialogVars, presenceVars>>

\* Whoever comes from an address that was approved within the last two minutes is
\* not asked about, another viewer behind that address included.
isRecentlyApproved(v) ==
    /\ Approved(v) /\ Record(v, "approved")
    /\ Sit(v, toHost)
    /\ UNCHANGED <<toGateway, dialogVars, presenceVars>>

ApprovalTimeout(j) ==
    /\ j \in Pending
    /\ join' = [join EXCEPT ![j].answer = "timeout"]
    /\ UNCHANGED <<seat, toHost, toGateway, dialogVars, presenceVars>>

\* An answer that comes after the timeout is dropped.
AnswerArrives ==
    /\ toGateway # <<>>
    /\ toGateway' = Tail(toGateway)
    /\ LET answer == Head(toGateway)
           j == answer.join
       IN  IF j \notin Pending THEN UNCHANGED <<gatewayVars, toHost>>
           ELSE IF answer.approved
           THEN /\ join' = [join EXCEPT ![j].answer = "approved"]
                /\ Sit(join[j].viewer, toHost)
           ELSE /\ join' = [join EXCEPT ![j].answer = "rejected"]
                /\ UNCHANGED <<seat, toHost>>
    /\ UNCHANGED <<dialogVars, presenceVars>>

Leave ==
    /\ seat # None /\ seat' = None
    /\ toHost' = Append(toHost, [type |-> "left", viewer |-> seat])
    /\ UNCHANGED <<join, toGateway, dialogVars, presenceVars>>

-------------------------------------------------------------------------------
\* The host's dialog

respond(j, approved) == toGateway' = Append(toGateway, [join |-> j, approved |-> approved])

\* Mutant: the dialog is set before the check that it is free.
AskUserShowsFirst(j) ==
    /\ shown' = j
    /\ IF resolver # None THEN respond(j, FALSE) /\ UNCHANGED resolver
       ELSE resolver' = j /\ UNCHANGED toGateway

AskUser(j) ==
    IF resolver # None
    THEN respond(j, FALSE) /\ UNCHANGED dialogVars
    ELSE /\ shown' = j /\ resolver' = j
         /\ UNCHANGED toGateway

HandleApprovalRequest ==
    /\ toHost # <<>> /\ Head(toHost).type = "approval-request"
    /\ toHost' = Tail(toHost)
    /\ AskUser(Head(toHost).join)
    /\ UNCHANGED <<gatewayVars, presenceVars>>

\* The user clicks Allow or Deny in the dialog that is open.
resolveViewerApproval(approved) ==
    /\ shown # None
    /\ join' = [join EXCEPT ![shown].click = IF approved THEN "allow" ELSE "deny"]
    /\ IF resolver # None THEN respond(resolver, approved) ELSE UNCHANGED toGateway
    /\ shown' = None /\ resolver' = None
    /\ UNCHANGED <<seat, toHost, presenceVars>>

-------------------------------------------------------------------------------
\* The host's presence

\* Mutant: the peer that left stays the peer.
NextPeerKeeps(announcement) ==
    IF announcement.type = "joined" THEN announcement.viewer ELSE peer

NextPeer(announcement) ==
    IF announcement.type = "joined" THEN announcement.viewer
    ELSE IF announcement.viewer = peer THEN None ELSE peer

HandleAnnouncement ==
    /\ toHost # <<>> /\ Head(toHost).type \in {"joined", "left"}
    /\ toHost' = Tail(toHost)
    /\ peer' = NextPeer(Head(toHost))
    /\ UNCHANGED <<gatewayVars, toGateway, dialogVars, rendered, toMain, tray,
                   lastViewerName, notified>>

\* React may have taken several announcements together.
Render ==
    /\ rendered # peer /\ rendered' = peer
    /\ toMain' = Append(toMain, [connected |-> peer # None,
                                 viewerName |-> IF peer = None THEN None ELSE Name(peer)])
    /\ UNCHANGED <<gatewayVars, toHost, toGateway, dialogVars, peer, tray,
                   lastViewerName, notified>>

\* Mutant: the name of a viewer that left is remembered.
NextViewerNameKeeps(presence) ==
    IF presence.connected THEN presence.viewerName ELSE lastViewerName

NextViewerName(presence) == IF presence.connected THEN presence.viewerName ELSE None

showHostNotification(title, name) ==
    notified' = Append(notified, [title |-> title, name |-> name])

updateHostPresence ==
    /\ toMain # <<>> /\ toMain' = Tail(toMain)
    /\ LET presence == Head(toMain)
       IN  /\ tray' = presence.viewerName
           /\ lastViewerName' = NextViewerName(presence)
           /\ IF presence.connected /\ presence.viewerName # lastViewerName
              THEN showHostNotification("connected", presence.viewerName)
              ELSE IF ~presence.connected /\ lastViewerName # None
              THEN showHostNotification("disconnected", lastViewerName)
              ELSE UNCHANGED notified
    /\ UNCHANGED <<gatewayVars, toHost, toGateway, dialogVars, peer, rendered>>

Next ==
    \/ \E v \in Viewers : requestViewerApproval(v) \/ isRecentlyApproved(v)
    \/ \E j \in DOMAIN join : ApprovalTimeout(j)
    \/ AnswerArrives \/ Leave
    \/ HandleApprovalRequest \/ HandleAnnouncement
    \/ \E approved \in BOOLEAN : resolveViewerApproval(approved)
    \/ Render \/ updateHostPresence

Spec == Init /\ [][Next]_vars

-------------------------------------------------------------------------------
\* The variables have their types.
TypeOK ==
    /\ join \in Seq([viewer : Viewers, answer : Answers,
                     click : {"allow", "deny", None}, during : SUBSET Joins])
    /\ Len(join) <= MaxJoins
    /\ seat \in Viewers \cup {None}
    /\ toHost \in Seq(Requests \cup Announcements)
    /\ toGateway \in Seq([join : Joins, approved : BOOLEAN])
    /\ shown \in DOMAIN join \cup {None} /\ resolver = shown
    /\ {peer, rendered} \subseteq Viewers \cup {None}
    /\ toMain \in Seq(Presence)
    /\ {tray, lastViewerName} \subseteq {Name(v) : v \in Viewers} \cup {None}
    /\ notified \in Seq(Notices)

\* The dialog and what waits for it belong to each other across requests that
\* overlap or run out: who gets the seat comes from an address for which the user
\* clicked Allow, for this viewer or for another one behind the same address
\* (App.tsx requestViewerApproval, resolveViewerApproval; signaling.gateway.ts
\* approvalCacheKey).
SeatedIsAllowed ==
    seat # None => \E j \in DOMAIN join : /\ Address(join[j].viewer) = Address(seat)
                                          /\ join[j].click = "allow"

\* When everything has been handled, the tray names the viewer in the session.
TrayTellsSeat ==
    (toHost = <<>> /\ rendered = peer /\ toMain = <<>>)
        => tray = IF seat = None THEN None ELSE Name(seat)

\* Notifications make sense one after the other: somebody "disconnected" right
\* after the same somebody "connected", whatever renders were taken together.
NoticesPair ==
    \A i \in DOMAIN notified :
        notified[i].title = "disconnected" =>
            i > 1 /\ notified[i - 1] = [title |-> "connected", name |-> notified[i].name]

\* "Ask on this host before allowing a client to connect": a client is refused
\* because the user denied it, ran out of time, or was busy with another one.
RefusedByUser ==
    \A j \in DOMAIN join : join[j].answer = "rejected" =>
        \/ join[j].click = "deny"
        \/ join[j].during # {} \/ \E k \in DOMAIN join : j \in join[k].during

=============================================================================
