---------------------------- MODULE PasswordPrompt -----------------------------
(***************************************************************************)
(* How a viewer is asked for a server's password: there is one dialog and one *)
(* resolver for all the clients a viewer has in turn, and a client joins its *)
(* session again whenever it connects or recovers.                           *)
(***************************************************************************)
EXTENDS Naturals, Sequences

CONSTANTS
    Servers, Protected, \* the servers; those with a password
    None,
    MaxClients, MaxJoins    \* bounds: connects, and joins of a client

ASSUME PasswordPromptAssumption ==
    /\ Protected \subseteq Servers /\ None \notin Servers \cup Nat
    /\ MaxClients \in Nat \ {0} /\ MaxJoins \in Nat \ {0}

VARIABLES
    client,     \* the clients so far
    clientRef,  \* the current one
    isConnected,    \* what the sidebar's button goes by
    shown,      \* passwordPrompt: the client whose message is in the dialog
    resolver,   \* passwordPromptResolverRef: the client that waits for it
    joined      \* the clients whose join the gateway accepted

vars == <<client, clientRef, isConnected, shown, resolver, joined>>

\* A password is the server it was typed for and whether it is the right one.
Passwords == [for : Servers, right : BOOLEAN] \cup {None}
Clients == 1..MaxClients

Init ==
    /\ client = <<>> /\ clientRef = None
    /\ isConnected = FALSE
    /\ shown = None /\ resolver = None
    /\ joined = {}

Alive(c) == ~client[c].isDisconnected
Online(c) == Alive(c) /\ client[c].online
Disconnected(cs) ==
    [c \in DOMAIN client |->
        IF c \in cs
        THEN [client[c] EXCEPT !.isDisconnected = TRUE, !.online = FALSE,
                               !.joins = <<>>, !.lastSessionPassword = None]
        ELSE client[c]]

\* joinSession: the password that worked, or was typed last, is sent again.
Joining(c, password) ==
    [client EXCEPT ![c].joins = Append(@, password), ![c].lastSessionPassword = password,
                   ![c].count = @ + 1]
MayJoin(c) == client[c].count < MaxJoins

Connect(server) ==
    /\ ~isConnected /\ Len(client) < MaxClients
    /\ client' = Append(IF clientRef = None THEN client ELSE Disconnected({clientRef}),
                        [server |-> server, isDisconnected |-> FALSE, online |-> FALSE,
                         joins |-> <<>>, count |-> 0, lastSessionPassword |-> None])
    /\ clientRef' = Len(client) + 1
    /\ isConnected' = TRUE
    /\ UNCHANGED <<shown, resolver, joined>>

SocketConnects(c) ==
    /\ Alive(c) /\ ~client[c].online /\ MayJoin(c)
    /\ client' = [Joining(c, client[c].lastSessionPassword) EXCEPT ![c].online = TRUE]
    /\ UNCHANGED <<clientRef, isConnected, shown, resolver, joined>>

SocketDrops(c) ==
    /\ Online(c) /\ MayJoin(c)
    /\ client' = [client EXCEPT ![c].online = FALSE, ![c].joins = <<>>]
    /\ UNCHANGED <<clientRef, isConnected, shown, resolver, joined>>

recoverAfterNetworkResume(c) ==
    /\ Online(c) /\ MayJoin(c)
    /\ client' = Joining(c, client[c].lastSessionPassword)
    /\ UNCHANGED <<clientRef, isConnected, shown, resolver, joined>>

-------------------------------------------------------------------------------
\* The gateway's answer to the first join that waits for one

Answered(c) == [client EXCEPT ![c].joins = Tail(@)]
verifyHostPassword(c, password) ==
    client[c].server \in Protected =>
        password # None /\ password.for = client[c].server /\ password.right

JoinAccepted(c) ==
    /\ Online(c) /\ client[c].joins # <<>>
    /\ verifyHostPassword(c, Head(client[c].joins))
    /\ client' = Answered(c)
    /\ joined' = joined \cup {c}
    /\ UNCHANGED <<clientRef, isConnected, shown, resolver>>

\* Mutant: the resolver of a dialog that is open is kept.
requestServerPasswordKeeps(c) ==
    shown' = c /\ resolver' = IF resolver = None THEN c ELSE resolver

\* Mutant: the dialog that is open is kept.
requestServerPasswordOverlooked(c) ==
    shown' = (IF shown = None THEN c ELSE shown) /\ resolver' = c

requestServerPassword(c) == shown' = c /\ resolver' = c

\* The password is wrong, or there were too many wrong ones.
PasswordRequired(c) ==
    /\ Online(c) /\ client[c].joins # <<>>
    /\ client[c].server \in Protected
    /\ client' = Answered(c)
    /\ requestServerPassword(c)
    /\ UNCHANGED <<clientRef, isConnected, joined>>

\* Any other error: the client gives up, and nobody tells the sidebar.
JoinRefused(c) ==
    /\ Online(c) /\ client[c].joins # <<>>
    /\ client' = Disconnected({c})
    /\ UNCHANGED <<clientRef, isConnected, shown, resolver, joined>>

-------------------------------------------------------------------------------
\* The viewer's user

CloseDialog == shown' = None /\ resolver' = None

\* The password is for the server whose client asked; a client that is gone
\* has no socket to send it on.
SubmitPassword(right) ==
    /\ shown # None
    /\ LET password == [for |-> client[shown].server, right |-> right]
       IN  IF resolver # None /\ Alive(resolver)
           THEN MayJoin(resolver) /\ client' = Joining(resolver, password)
           ELSE UNCHANGED client
    /\ CloseDialog
    /\ UNCHANGED <<clientRef, isConnected, joined>>

\* Cancel ends the client that asked, and the current one.
CancelPassword ==
    /\ shown # None
    /\ client' = Disconnected({resolver, clientRef} \ {None})
    /\ clientRef' = None /\ isConnected' = FALSE
    /\ CloseDialog
    /\ UNCHANGED joined

\* The Disconnect button or shortcut: the password dialog stays.
disconnect ==
    /\ isConnected
    /\ client' = Disconnected({clientRef} \ {None})
    /\ clientRef' = None /\ isConnected' = FALSE
    /\ UNCHANGED <<shown, resolver, joined>>

Next ==
    \/ \E s \in Servers : Connect(s)
    \/ \E c \in DOMAIN client :
        \/ SocketConnects(c) \/ SocketDrops(c) \/ recoverAfterNetworkResume(c)
        \/ JoinAccepted(c) \/ PasswordRequired(c) \/ JoinRefused(c)
    \/ \E right \in BOOLEAN : SubmitPassword(right)
    \/ CancelPassword \/ disconnect

Spec == Init /\ [][Next]_vars

-------------------------------------------------------------------------------
\* The variables have their types.
TypeOK ==
    /\ client \in Seq([server : Servers, isDisconnected : BOOLEAN, online : BOOLEAN,
                       joins : Seq(Passwords), count : 0..MaxJoins,
                       lastSessionPassword : Passwords])
    /\ clientRef \in DOMAIN client \cup {None} /\ isConnected = (clientRef # None)
    /\ shown \in DOMAIN client \cup {None} /\ resolver = shown
    /\ joined \subseteq DOMAIN client

\* A password that was typed into a dialog left open by an earlier client is
\* never sent to the server of a later one (App.tsx requestServerPassword,
\* resolvePasswordPrompt; RemoteControlClient handleJoinResponse).
PasswordGoesToItsServer ==
    \A c \in DOMAIN client :
        \A p \in {client[c].lastSessionPassword} \cup
                 {client[c].joins[i] : i \in DOMAIN client[c].joins} :
            p # None => p.for = client[c].server

\* However dialogs and joins of several clients overlap, the user is not left
\* waiting: an attempt whose joins have all been answered was accepted, or its
\* dialog is open.
AttemptIsAnswered ==
    \A c \in DOMAIN client :
        (Online(c) /\ client[c].joins = <<>>) => c \in joined \/ (shown = c /\ resolver = c)

=============================================================================
