---------------------------- MODULE ViewerAppProofs ----------------------------
(***************************************************************************)
(* For every number of servers, connections, keys, calls and scans: what the *)
(* viewer's side of the desktop app promises.  Each part has an inductive    *)
(* invariant of its own, which the steps of the other parts leave alone;     *)
(* that of the settings file is SettingsFileProofs'.                         *)
(***************************************************************************)
EXTENDS ViewerApp, FiniteSetTheorems, FunctionTheorems, WellFoundedInduction, TLAPS

\* A step of the app is a step of the part in question or leaves it alone.
LEMMA PartSteps ==
  ASSUME [ViewerNext]_viewerVars
  PROVE  /\ [Next]_promptVars
         /\ Input!Next \/ UNCHANGED inputVars
         /\ Control!Next \/ UNCHANGED controlVars
         /\ Scan!Next \/ UNCHANGED scanVars
         /\ Picker!Next \/ UNCHANGED pickerVars
BY DEF ViewerNext, viewerVars, PromptMoves, InputMoves, ControlMoves, ScanMoves,
   PickerMoves

\* The parts mean by finite and by the size of a set what this module does.
LEMMA FiniteSetsOfParts ==
  /\ \A S : Input!IsFiniteSet(S) <=> IsFiniteSet(S)
  /\ \A S : Input!Cardinality(S) = Cardinality(S)
  /\ \A S : Scan!Cardinality(S) = Cardinality(S)
BY DEF Scan!Cardinality, Input!Cardinality, Cardinality, Scan!IsFiniteSet,
   Input!IsFiniteSet, IsFiniteSet

-------------------------------------------------------------------------------
(* The password dialog                                                       *)

ClientStates == [server : Servers, isDisconnected : BOOLEAN, online : BOOLEAN,
                 joins : Seq(Passwords), count : 0..MaxJoins,
                 lastSessionPassword : Passwords]

\* What one client remembers and sends is for its own server.
OwnPasswords(k) ==
    /\ k.lastSessionPassword # None => k.lastSessionPassword.for = k.server
    /\ \A i \in DOMAIN k.joins : k.joins[i] # None => k.joins[i].for = k.server

\* The invariant of one client, of the state in which it is k, the current one
\* is r, the dialog is for s, and those in j were accepted: one that is not the
\* current one was given up, one that was given up is offline, and one that has
\* no join under way was accepted or has the dialog.
Fits(c, k, r, s, j) ==
    /\ OwnPasswords(k)
    /\ ~k.isDisconnected => c = r
    /\ k.isDisconnected => ~k.online
    /\ k.online /\ k.joins = <<>> => c \in j \/ s = c

PromptInv ==
    TypeOK /\ \A c \in DOMAIN client : Fits(c, client[c], clientRef, shown, joined)

-------------------------------------------------------------------------------
(* What the operations on a client return.                                   *)

\* Giving clients up silences them and leaves the others alone.
LEMMA DisconnectedFacts ==
  ASSUME TypeOK, NEW cs
  PROVE  /\ Disconnected(cs) \in Seq(ClientStates)
         /\ DOMAIN Disconnected(cs) = DOMAIN client
         /\ \A c \in DOMAIN client :
                /\ Disconnected(cs)[c].server = client[c].server
                /\ c \notin cs => Disconnected(cs)[c] = client[c]
                /\ c \in cs => /\ Disconnected(cs)[c].isDisconnected
                               /\ ~Disconnected(cs)[c].online
                               /\ Disconnected(cs)[c].joins = <<>>
                               /\ Disconnected(cs)[c].lastSessionPassword = None
<1> DEFINE silenced(c) == [client[c] EXCEPT !.isDisconnected = TRUE, !.online = FALSE,
                               !.joins = <<>>, !.lastSessionPassword = None]
           given(c) == IF c \in cs THEN silenced(c) ELSE client[c]
<1>1. client \in Seq(ClientStates)
  BY DEF TypeOK, ClientStates
<1>2. ASSUME NEW c \in DOMAIN client
      PROVE  /\ silenced(c) \in ClientStates /\ silenced(c).server = client[c].server
             /\ silenced(c).isDisconnected /\ ~silenced(c).online
             /\ silenced(c).joins = <<>> /\ silenced(c).lastSessionPassword = None
  <2>1. client[c] \in ClientStates
    BY <1>1
  <2>2. <<>> \in Seq(Passwords) /\ None \in Passwords
    BY DEF Passwords
  <2>3. QED
    BY <2>1, <2>2 DEF ClientStates
<1> HIDE DEF silenced
<1>3. \A c \in DOMAIN client : given(c) \in ClientStates
  BY <1>1, <1>2
<1>4. Disconnected(cs) = [c \in DOMAIN client |-> given(c)]
  BY DEF Disconnected, silenced
<1>5. Disconnected(cs) \in Seq(ClientStates)
  BY <1>1, <1>3, <1>4
<1>6. QED
  BY <1>2, <1>4, <1>5

\* A join with a password that is the client's own keeps its passwords its own.
LEMMA JoiningFacts ==
  ASSUME TypeOK, NEW c \in DOMAIN client, MayJoin(c), NEW password \in Passwords
  PROVE  /\ Joining(c, password) \in Seq(ClientStates)
         /\ DOMAIN Joining(c, password) = DOMAIN client
         /\ \A d \in DOMAIN client : d # c => Joining(c, password)[d] = client[d]
         /\ Joining(c, password)[c].server = client[c].server
         /\ Joining(c, password)[c].isDisconnected = client[c].isDisconnected
         /\ Joining(c, password)[c].online = client[c].online
         /\ Joining(c, password)[c].joins = Append(client[c].joins, password)
         /\ Joining(c, password)[c].lastSessionPassword = password
<1> DEFINE asked == Append(client[c].joins, password)
           more == client[c].count + 1
           one == [client[c] EXCEPT !.joins = asked]
           two == [one EXCEPT !.lastSessionPassword = password]
           new == [two EXCEPT !.count = more]
<1>0. client \in Seq(ClientStates)
  BY DEF TypeOK, ClientStates
<1>1. client[c] \in ClientStates
  BY <1>0
<1>2. asked \in Seq(Passwords) /\ more \in 0..MaxJoins
  BY <1>1, PasswordPromptAssumption DEF ClientStates, MayJoin
<1>3. Joining(c, password) = [client EXCEPT ![c] = new]
  BY <1>0 DEF Joining
<1> HIDE DEF asked, more
<1>4. /\ new \in ClientStates
      /\ new.server = client[c].server /\ new.online = client[c].online
      /\ new.isDisconnected = client[c].isDisconnected
      /\ new.joins = asked /\ new.lastSessionPassword = password
  <2>1. /\ one \in ClientStates
        /\ one.server = client[c].server /\ one.online = client[c].online
        /\ one.isDisconnected = client[c].isDisconnected /\ one.joins = asked
    BY <1>1, <1>2 DEF ClientStates
  <2> HIDE DEF one
  <2>2. /\ two \in ClientStates
        /\ two.server = client[c].server /\ two.online = client[c].online
        /\ two.isDisconnected = client[c].isDisconnected /\ two.joins = asked
        /\ two.lastSessionPassword = password
    BY <2>1 DEF ClientStates
  <2> HIDE DEF two
  <2>3. QED
    BY <1>2, <2>2 DEF ClientStates
<1> HIDE DEF new
<1>5. QED
  BY <1>0, <1>3, <1>4 DEF asked

\* The gateway answers the join that was sent first.
LEMMA AnsweredFacts ==
  ASSUME TypeOK, NEW c \in DOMAIN client, client[c].joins # <<>>
  PROVE  /\ Answered(c) \in Seq(ClientStates)
         /\ DOMAIN Answered(c) = DOMAIN client
         /\ \A d \in DOMAIN client : d # c => Answered(c)[d] = client[d]
         /\ Answered(c)[c].server = client[c].server
         /\ Answered(c)[c].isDisconnected = client[c].isDisconnected
         /\ Answered(c)[c].online = client[c].online
         /\ Answered(c)[c].joins = Tail(client[c].joins)
         /\ Answered(c)[c].lastSessionPassword = client[c].lastSessionPassword
<1> DEFINE rest == Tail(client[c].joins)
           new == [client[c] EXCEPT !.joins = rest]
<1>0. client \in Seq(ClientStates)
  BY DEF TypeOK, ClientStates
<1>1. client[c] \in ClientStates
  BY <1>0
<1>2. rest \in Seq(Passwords)
  BY <1>1 DEF ClientStates
<1>3. Answered(c) = [client EXCEPT ![c] = new]
  BY <1>0 DEF Answered
<1> HIDE DEF rest
<1>4. /\ new \in ClientStates
      /\ new.server = client[c].server /\ new.online = client[c].online
      /\ new.isDisconnected = client[c].isDisconnected
      /\ new.joins = rest /\ new.lastSessionPassword = client[c].lastSessionPassword
  BY <1>1, <1>2 DEF ClientStates
<1> HIDE DEF new
<1>5. QED
  BY <1>0, <1>3, <1>4 DEF rest

-------------------------------------------------------------------------------
(* Steps.                                                                    *)

\* Clients that are as they were still fit, when nobody else becomes the current
\* one and the dialog is not taken from them.
LEMMA FitsStays ==
  ASSUME NEW c, NEW k, NEW r, NEW s, NEW j, NEW s1, NEW j1, Fits(c, k, r, s, j),
         j \subseteq j1, s = c /\ k.online /\ k.joins = <<>> => s1 = c \/ c \in j1
  PROVE  Fits(c, k, r, s1, j1)
BY DEF Fits

\* A client that was given up fits whatever is open.
LEMMA SilentFits ==
  ASSUME NEW c, NEW k, NEW r, NEW s, NEW j,
         k.isDisconnected = TRUE, k.online = FALSE, k.lastSessionPassword = None,
         k.joins = <<>>
  PROVE  Fits(c, k, r, s, j)
BY DEF Fits, OwnPasswords

LEMMA TypesOfStep ==
  ASSUME client' \in Seq(ClientStates),
         clientRef' \in DOMAIN client' \cup {None}, isConnected' = (clientRef' # None),
         shown' \in DOMAIN client' \cup {None}, resolver' = shown',
         joined' \subseteq DOMAIN client'
  PROVE  TypeOK'
BY DEF TypeOK, ClientStates

LEMMA InitInv == Init => PromptInv
<1> SUFFICES ASSUME Init PROVE PromptInv
  OBVIOUS
<1>1. client = <<>> /\ client \in Seq(ClientStates) /\ DOMAIN client = {}
  BY DEF Init
<1>2. TypeOK
  BY <1>1 DEF Init, TypeOK, ClientStates
<1>3. QED
  BY <1>1, <1>2 DEF PromptInv

LEMMA ConnectStep ==
  ASSUME PromptInv, NEW server \in Servers, Connect(server)
  PROVE  PromptInv'
<1> DEFINE new == [server |-> server, isDisconnected |-> FALSE, online |-> FALSE,
                   joins |-> <<>>, count |-> 0, lastSessionPassword |-> None]
<1>1. TypeOK /\ client \in Seq(ClientStates) /\ clientRef = None
  BY DEF PromptInv, TypeOK, ClientStates, Connect
<1>2. 0 \in 0..MaxJoins /\ <<>> \in Seq(Passwords) /\ None \in Passwords
  BY PasswordPromptAssumption DEF Passwords
<1>3. new \in ClientStates
  BY <1>2 DEF ClientStates
<1>4. /\ new.lastSessionPassword = None /\ new.joins = <<>> /\ new.online = FALSE
      /\ new.isDisconnected = FALSE
  OBVIOUS
<1>5. PICK n \in Nat : n = Len(client) + 1
  BY <1>1
<1>6. client' = Append(client, new) /\ clientRef' = n /\ isConnected' = TRUE
      /\ UNCHANGED <<shown, resolver, joined>>
  BY <1>1, <1>5 DEF Connect
<1> HIDE DEF new
<1>7. /\ client' \in Seq(ClientStates) /\ DOMAIN client' = DOMAIN client \cup {n}
      /\ n \notin DOMAIN client /\ client'[n] = new
      /\ \A c \in DOMAIN client : client'[c] = client[c]
  BY <1>1, <1>3, <1>5, <1>6
<1>8. None \notin Nat
  BY PasswordPromptAssumption
<1>9. TypeOK'
  BY <1>1, <1>6, <1>7, <1>8, TypesOfStep DEF TypeOK
<1>10. Fits(n, client'[n], clientRef', shown', joined')
  BY <1>4, <1>6, <1>7 DEF Fits, OwnPasswords
<1>11. ASSUME NEW c \in DOMAIN client
       PROVE  Fits(c, client'[c], clientRef', shown', joined')
  <2>1. Fits(c, client[c], clientRef, shown, joined) /\ c # clientRef
    BY <1>1, <1>8 DEF PromptInv
  <2>2. QED
    BY <1>6, <1>7, <2>1 DEF Fits
<1>12. QED
  BY <1>7, <1>9, <1>10, <1>11 DEF PromptInv

\* A step that changes client c only, and perhaps the dialog or the accepted
\* ones, keeps the invariant when c fits afterwards.
LEMMA OneClientStep ==
  ASSUME PromptInv, NEW c \in DOMAIN client,
         client' \in Seq(ClientStates), DOMAIN client' = DOMAIN client,
         \A d \in DOMAIN client : d # c => client'[d] = client[d],
         UNCHANGED <<clientRef, isConnected>>,
         shown' \in {shown, c, None}, resolver' = shown',
         joined' \in {joined, joined \cup {c}},
         Fits(c, client'[c], clientRef, shown', joined'),
         shown' # shown => shown = c \/ clientRef = c \/ shown = None
  PROVE  PromptInv'
<1>1. TypeOK /\ client \in Seq(ClientStates)
  BY DEF PromptInv, TypeOK, ClientStates
<1>2. TypeOK'
  BY <1>1, TypesOfStep DEF TypeOK
<1>3. ASSUME NEW d \in DOMAIN client, d # c
      PROVE  Fits(d, client'[d], clientRef', shown', joined')
  <2>1. Fits(d, client[d], clientRef, shown, joined) /\ client'[d] = client[d]
    BY <1>3 DEF PromptInv
  <2>2. CASE client[d].isDisconnected
    BY <2>1, <2>2 DEF Fits
  <2>3. CASE ~client[d].isDisconnected
    <3>1. d = clientRef /\ clientRef # c
      BY <1>3, <2>1, <2>3 DEF Fits
    <3>2. shown' # shown => shown # d
      BY <1>1, <1>3, <3>1, PasswordPromptAssumption
    <3>3. QED
      BY <2>1, <3>2 DEF Fits
  <2>4. QED
    BY <2>2, <2>3
<1>4. QED
  BY <1>2, <1>3 DEF PromptInv

\* A join that is sent with one of the client's own passwords.
LEMMA JoiningStep ==
  ASSUME PromptInv, NEW c \in DOMAIN client, MayJoin(c), Alive(c),
         NEW password \in Passwords, password # None => password.for = client[c].server,
         NEW k \in ClientStates,
         k.server = client[c].server, k.isDisconnected = client[c].isDisconnected,
         k.joins = Append(client[c].joins, password),
         k.lastSessionPassword = password
  PROVE  \A s, j : Fits(c, k, clientRef, s, j)
<1>0. client \in Seq(ClientStates)
  BY DEF PromptInv, TypeOK, ClientStates
<1>1. client[c] \in ClientStates /\ client[c].joins \in Seq(Passwords)
  <2>1. client[c] \in ClientStates
    BY <1>0
  <2>2. QED
    BY <2>1 DEF ClientStates
<1>2. Fits(c, client[c], clientRef, shown, joined)
  BY DEF PromptInv
<1>3. k.joins # <<>> /\ k.isDisconnected = FALSE
  BY <1>1 DEF Alive, ClientStates
<1>4. OwnPasswords(k)
  <2>1. k.lastSessionPassword # None => k.lastSessionPassword.for = k.server
    OBVIOUS
  <2>2. ASSUME NEW i \in DOMAIN k.joins
        PROVE  k.joins[i] # None => k.joins[i].for = k.server
    <3>1. CASE i \in DOMAIN client[c].joins
      <4>1. k.joins[i] = client[c].joins[i]
        BY <1>1, <3>1
      <4>2. QED
        BY <1>2, <3>1, <4>1 DEF Fits, OwnPasswords
    <3>2. CASE i \notin DOMAIN client[c].joins
      <4>1. k.joins[i] = password
        BY <1>1, <3>2
      <4>2. QED
        BY <4>1
    <3>3. QED
      BY <3>1, <3>2
  <2>3. QED
    BY <2>1, <2>2 DEF OwnPasswords
<1>5. QED
  BY <1>2, <1>3, <1>4 DEF Fits, Alive

LEMMA SocketConnectsStep ==
  ASSUME PromptInv, NEW c \in DOMAIN client, SocketConnects(c)
  PROVE  PromptInv'
<1> DEFINE password == client[c].lastSessionPassword
           asked == Joining(c, password)
           new == [asked[c] EXCEPT !.online = TRUE]
<1>1. TypeOK /\ client \in Seq(ClientStates) /\ MayJoin(c) /\ Alive(c)
  BY DEF PromptInv, TypeOK, ClientStates, SocketConnects
<1>2. client[c] \in ClientStates
  BY <1>1
<1>3. password \in Passwords /\ (password # None => password.for = client[c].server)
  BY <1>2 DEF ClientStates, PromptInv, Fits, OwnPasswords
<1>4. client' = [asked EXCEPT ![c] = new]
  BY DEF SocketConnects
<1> HIDE DEF password
<1>5. /\ asked \in Seq(ClientStates) /\ DOMAIN asked = DOMAIN client
      /\ \A d \in DOMAIN client : d # c => asked[d] = client[d]
      /\ asked[c].server = client[c].server
      /\ asked[c].isDisconnected = client[c].isDisconnected
      /\ asked[c].joins = Append(client[c].joins, password)
      /\ asked[c].lastSessionPassword = password
  BY <1>1, <1>3, JoiningFacts
<1> HIDE DEF asked
<1>6. asked[c] \in ClientStates
  BY <1>5
<1>7. /\ new \in ClientStates
      /\ new.server = client[c].server
      /\ new.isDisconnected = client[c].isDisconnected
      /\ new.joins = Append(client[c].joins, password)
      /\ new.lastSessionPassword = password
  BY <1>5, <1>6 DEF ClientStates
<1> HIDE DEF new
<1>8. \A s, j : Fits(c, new, clientRef, s, j)
  BY <1>1, <1>3, <1>7, JoiningStep
<1>9. /\ client' \in Seq(ClientStates) /\ DOMAIN client' = DOMAIN client
      /\ client'[c] = new
      /\ \A d \in DOMAIN client : d # c => client'[d] = client[d]
  BY <1>4, <1>5, <1>7
<1>10. UNCHANGED <<clientRef, isConnected, shown, resolver, joined>> /\ resolver = shown
  BY <1>1 DEF SocketConnects, TypeOK
<1>11. QED
  BY <1>8, <1>9, <1>10, OneClientStep

LEMMA SocketDropsStep ==
  ASSUME PromptInv, NEW c \in DOMAIN client, SocketDrops(c)
  PROVE  PromptInv'
<1> DEFINE one == [client[c] EXCEPT !.online = FALSE]
           new == [one EXCEPT !.joins = <<>>]
<1>1. TypeOK /\ client \in Seq(ClientStates)
  BY DEF PromptInv, TypeOK, ClientStates
<1>2. client[c] \in ClientStates /\ <<>> \in Seq(Passwords)
  BY <1>1
<1>3. client' = [client EXCEPT ![c] = new]
  BY <1>1 DEF SocketDrops
<1>4. /\ one \in ClientStates /\ one.server = client[c].server /\ one.online = FALSE
      /\ one.isDisconnected = client[c].isDisconnected
      /\ one.lastSessionPassword = client[c].lastSessionPassword
  BY <1>2 DEF ClientStates
<1> HIDE DEF one
<1>5. /\ new \in ClientStates /\ new.server = client[c].server /\ new.online = FALSE
      /\ new.isDisconnected = client[c].isDisconnected /\ new.joins = <<>>
      /\ new.lastSessionPassword = client[c].lastSessionPassword
  BY <1>2, <1>4 DEF ClientStates
<1> HIDE DEF new
<1>6. Fits(c, client[c], clientRef, shown, joined)
  BY DEF PromptInv
<1>7. Fits(c, new, clientRef, shown, joined)
  BY <1>5, <1>6 DEF Fits, OwnPasswords
<1>8. /\ client' \in Seq(ClientStates) /\ DOMAIN client' = DOMAIN client
      /\ client'[c] = new
      /\ \A d \in DOMAIN client : d # c => client'[d] = client[d]
  BY <1>1, <1>3, <1>5
<1>9. UNCHANGED <<clientRef, isConnected, shown, resolver, joined>> /\ resolver = shown
  BY <1>1 DEF SocketDrops, TypeOK
<1>10. QED
  BY <1>7, <1>8, <1>9, OneClientStep

LEMMA RecoverStep ==
  ASSUME PromptInv, NEW c \in DOMAIN client, recoverAfterNetworkResume(c)
  PROVE  PromptInv'
<1> DEFINE password == client[c].lastSessionPassword
<1>1. TypeOK /\ client \in Seq(ClientStates) /\ MayJoin(c) /\ Alive(c)
  BY DEF PromptInv, TypeOK, ClientStates, recoverAfterNetworkResume, Online
<1>2. client[c] \in ClientStates
  BY <1>1
<1>3. password \in Passwords /\ (password # None => password.for = client[c].server)
  BY <1>2 DEF ClientStates, PromptInv, Fits, OwnPasswords
<1>4. client' = Joining(c, password)
      /\ UNCHANGED <<clientRef, isConnected, shown, resolver, joined>>
  BY DEF recoverAfterNetworkResume
<1> HIDE DEF password
<1>5. /\ client' \in Seq(ClientStates) /\ DOMAIN client' = DOMAIN client
      /\ \A d \in DOMAIN client : d # c => client'[d] = client[d]
      /\ client'[c].server = client[c].server
      /\ client'[c].isDisconnected = client[c].isDisconnected
      /\ client'[c].joins = Append(client[c].joins, password)
      /\ client'[c].lastSessionPassword = password
  BY <1>1, <1>3, <1>4, JoiningFacts
<1>6. client'[c] \in ClientStates
  BY <1>5
<1>7. \A s, j : Fits(c, client'[c], clientRef, s, j)
  BY <1>1, <1>3, <1>5, <1>6, JoiningStep
<1>8. resolver = shown
  BY <1>1 DEF TypeOK
<1>9. QED
  BY <1>4, <1>5, <1>7, <1>8, OneClientStep

\* What is still under way after an answer was under way before it.
LEMMA AnsweredFits ==
  ASSUME PromptInv, NEW c \in DOMAIN client, client[c].joins # <<>>,
         NEW k, k = Answered(c)[c], NEW s, NEW j, s = c \/ c \in j
  PROVE  Fits(c, k, clientRef, s, j)
<1>0. client \in Seq(ClientStates) /\ TypeOK
  BY DEF PromptInv, TypeOK, ClientStates
<1>1. client[c].joins \in Seq(Passwords)
  <2>1. client[c] \in ClientStates
    BY <1>0
  <2>2. QED
    BY <2>1 DEF ClientStates
<1>2. Fits(c, client[c], clientRef, shown, joined)
  BY DEF PromptInv
<1>3. /\ k.server = client[c].server /\ k.isDisconnected = client[c].isDisconnected
      /\ k.online = client[c].online /\ k.joins = Tail(client[c].joins)
      /\ k.lastSessionPassword = client[c].lastSessionPassword
  BY <1>0, AnsweredFacts
<1>4. ASSUME NEW i \in DOMAIN k.joins
      PROVE  k.joins[i] # None => k.joins[i].for = k.server
  <2>1. i + 1 \in DOMAIN client[c].joins /\ k.joins[i] = client[c].joins[i + 1]
    BY <1>1, <1>3
  <2>2. QED
    BY <1>2, <1>3, <2>1 DEF Fits, OwnPasswords
<1>5. OwnPasswords(k)
  BY <1>2, <1>3, <1>4 DEF Fits, OwnPasswords
<1>6. QED
  BY <1>2, <1>3, <1>5 DEF Fits

LEMMA JoinAcceptedStep ==
  ASSUME PromptInv, NEW c \in DOMAIN client, JoinAccepted(c)
  PROVE  PromptInv'
<1>1. TypeOK /\ resolver = shown
  BY DEF PromptInv, TypeOK
<1>2. client' = Answered(c) /\ joined' = joined \cup {c} /\ client[c].joins # <<>>
      /\ UNCHANGED <<clientRef, isConnected, shown, resolver>>
  BY DEF JoinAccepted
<1>3. /\ client' \in Seq(ClientStates) /\ DOMAIN client' = DOMAIN client
      /\ \A d \in DOMAIN client : d # c => client'[d] = client[d]
  BY <1>1, <1>2, AnsweredFacts
<1>4. Fits(c, client'[c], clientRef, shown', joined')
  BY <1>2, AnsweredFits
<1>5. QED
  BY <1>1, <1>2, <1>3, <1>4, OneClientStep

LEMMA PasswordRequiredStep ==
  ASSUME PromptInv, NEW c \in DOMAIN client, PasswordRequired(c)
  PROVE  PromptInv'
<1>1. TypeOK
  BY DEF PromptInv
<1>2. client' = Answered(c) /\ shown' = c /\ resolver' = c /\ client[c].joins # <<>>
      /\ UNCHANGED <<clientRef, isConnected, joined>>
  BY DEF PasswordRequired, requestServerPassword
<1>3. clientRef = c
  BY DEF PasswordRequired, PromptInv, Fits, Online, Alive
<1>4. /\ client' \in Seq(ClientStates) /\ DOMAIN client' = DOMAIN client
      /\ \A d \in DOMAIN client : d # c => client'[d] = client[d]
  BY <1>1, <1>2, AnsweredFacts
<1>5. Fits(c, client'[c], clientRef, shown', joined')
  BY <1>2, AnsweredFits
<1>6. QED
  BY <1>2, <1>3, <1>4, <1>5, OneClientStep

\* Giving up clients, the current one among them when there is none afterwards.
LEMMA GiveUpStep ==
  ASSUME PromptInv, NEW cs, client' = Disconnected(cs),
         \/ UNCHANGED <<clientRef, isConnected>>
         \/ clientRef' = None /\ isConnected' = FALSE
            /\ (clientRef = None \/ clientRef \in cs),
         \/ UNCHANGED <<shown, resolver>>
         \/ shown' = None /\ resolver' = None
            /\ (clientRef = None \/ clientRef \in cs),
         UNCHANGED joined
  PROVE  PromptInv'
<1>1. TypeOK
  BY DEF PromptInv
<1>2. /\ client' \in Seq(ClientStates) /\ DOMAIN client' = DOMAIN client
      /\ \A c \in DOMAIN client :
            /\ client'[c].server = client[c].server
            /\ c \notin cs => client'[c] = client[c]
            /\ c \in cs => /\ client'[c].isDisconnected
                           /\ ~client'[c].online
                           /\ client'[c].joins = <<>>
                           /\ client'[c].lastSessionPassword = None
  BY <1>1, DisconnectedFacts
<1>3. TypeOK'
  BY <1>1, <1>2, TypesOfStep DEF TypeOK
<1>4. ASSUME NEW c \in DOMAIN client, c \in cs
      PROVE  Fits(c, client'[c], clientRef', shown', joined')
  BY <1>2, <1>4 DEF Fits, OwnPasswords
<1>5. ASSUME NEW c \in DOMAIN client, c \notin cs
      PROVE  Fits(c, client'[c], clientRef', shown', joined')
  <2>1. Fits(c, client[c], clientRef, shown, joined) /\ client'[c] = client[c]
    BY <1>2, <1>5 DEF PromptInv
  <2>2. c # None
    BY <1>1, PasswordPromptAssumption DEF TypeOK
  <2>3. CASE client[c].isDisconnected
    BY <2>1, <2>3 DEF Fits
  <2>4. CASE ~client[c].isDisconnected
    <3>1. c = clientRef
      BY <2>1, <2>4 DEF Fits
    <3>2. UNCHANGED <<clientRef, shown, joined>>
      BY <1>5, <2>2, <3>1
    <3>3. QED
      BY <2>1, <3>2
  <2>5. QED
    BY <2>3, <2>4
<1>6. QED
  BY <1>2, <1>3, <1>4, <1>5 DEF PromptInv

\* The password that was typed is for the server of the client that gets it.
LEMMA SubmitStep ==
  ASSUME PromptInv, NEW right \in BOOLEAN, SubmitPassword(right)
  PROVE  PromptInv'
<1> DEFINE password == [for |-> client[shown].server, right |-> right]
<1>1. TypeOK /\ client \in Seq(ClientStates) /\ resolver = shown
      /\ shown \in DOMAIN client
  BY DEF PromptInv, TypeOK, ClientStates, SubmitPassword
<1>2. PICK c \in DOMAIN client : c = shown
  BY <1>1
<1>3. client[c] \in ClientStates
  BY <1>1
<1>4. client[c].server \in Servers
  BY <1>3 DEF ClientStates
<1>5. password \in Passwords /\ password.for = client[c].server
  BY <1>2, <1>4 DEF Passwords
<1>6. shown' = None /\ resolver' = None /\ UNCHANGED <<clientRef, isConnected, joined>>
  BY DEF SubmitPassword, CloseDialog
<1>7. CASE Alive(c)
  <2>1. MayJoin(c) /\ client' = Joining(c, password)
    BY <1>1, <1>2, <1>7 DEF SubmitPassword
  <2> HIDE DEF password
  <2>2. /\ client' \in Seq(ClientStates) /\ DOMAIN client' = DOMAIN client
        /\ \A d \in DOMAIN client : d # c => client'[d] = client[d]
        /\ client'[c].server = client[c].server
        /\ client'[c].isDisconnected = client[c].isDisconnected
        /\ client'[c].joins = Append(client[c].joins, password)
        /\ client'[c].lastSessionPassword = password
    BY <1>1, <1>5, <2>1, JoiningFacts
  <2>3. client'[c] \in ClientStates
    BY <2>2
  <2>4. \A s, j : Fits(c, client'[c], clientRef, s, j)
    BY <1>5, <1>7, <2>1, <2>2, <2>3, JoiningStep
  <2>5. QED
    BY <1>2, <1>6, <2>2, <2>4, OneClientStep
<1>8. CASE ~Alive(c)
  <2>1. client' = client
    BY <1>1, <1>2, <1>8 DEF SubmitPassword
  <2>2. Fits(c, client[c], clientRef, shown', joined')
    BY <1>8 DEF PromptInv, Fits, Alive
  <2>3. QED
    BY <1>1, <1>2, <1>6, <2>1, <2>2, OneClientStep
<1>9. QED
  BY <1>7, <1>8

LEMMA StepInv == PromptInv /\ [Next]_vars => PromptInv'
<1> SUFFICES ASSUME PromptInv, [Next]_vars PROVE PromptInv'
  OBVIOUS
<1>1. CASE UNCHANGED vars
  <2>1. TypeOK'
    BY <1>1 DEF PromptInv, TypeOK, vars
  <2>2. QED
    BY <1>1, <2>1 DEF PromptInv, vars
<1>2. ASSUME NEW s \in Servers, Connect(s)
      PROVE  PromptInv'
  BY <1>2, ConnectStep
<1>3. ASSUME NEW c \in DOMAIN client,
             \/ SocketConnects(c) \/ SocketDrops(c) \/ recoverAfterNetworkResume(c)
             \/ JoinAccepted(c) \/ PasswordRequired(c)
      PROVE  PromptInv'
  BY <1>3, SocketConnectsStep, SocketDropsStep, RecoverStep, JoinAcceptedStep,
     PasswordRequiredStep
<1>4. ASSUME NEW c \in DOMAIN client, JoinRefused(c)
      PROVE  PromptInv'
  BY <1>4, GiveUpStep DEF JoinRefused
<1>5. ASSUME NEW right \in BOOLEAN, SubmitPassword(right)
      PROVE  PromptInv'
  BY <1>5, SubmitStep
<1>6. CASE CancelPassword
  BY <1>6, GiveUpStep DEF CancelPassword, CloseDialog
<1>7. CASE disconnect
  BY <1>7, GiveUpStep DEF disconnect
<1>8. QED
  BY <1>1, <1>2, <1>3, <1>4, <1>5, <1>6, <1>7 DEF Next

LEMMA InvAlways == Spec => []PromptInv
BY InitInv, StepInv, PTL DEF Spec

\* The dialog and the resolver belong to one client, and Connect and Disconnect
\* go by the client there is (App.tsx connect, disconnect).
THEOREM PromptTypes == Spec => []TypeOK
<1>1. PromptInv => TypeOK
  BY DEF PromptInv
<1>2. QED
  BY InvAlways, <1>1, PTL

\* A password that was typed into any dialog is only ever sent to the server
\* whose client asked for it (App.tsx requestServerPassword, resolvePasswordPrompt).
THEOREM PasswordsStayHome == Spec => []PasswordGoesToItsServer
<1>1. PromptInv => PasswordGoesToItsServer
  BY DEF PromptInv, Fits, OwnPasswords, PasswordGoesToItsServer
<1>2. QED
  BY InvAlways, <1>1, PTL

\* However dialogs and joins of several clients overlap, an attempt whose joins
\* were answered was accepted or has its dialog open.
THEOREM AttemptsAreAnswered == Spec => []AttemptIsAnswered
<1>1. PromptInv => AttemptIsAnswered
  BY DEF PromptInv, TypeOK, Fits, AttemptIsAnswered, Online
<1>2. QED
  BY InvAlways, <1>1, PTL

\* The same holds beside the other parts of the app (App.tsx connect,
\* requestServerPassword).
THEOREM PromptOfViewer ==
  ViewerSpec => [](PasswordGoesToItsServer /\ AttemptIsAnswered)
<1>1. ViewerInit => PromptInv
  BY InitInv DEF ViewerInit
<1>2. PromptInv /\ [ViewerNext]_viewerVars => PromptInv'
  BY PartSteps, StepInv DEF promptVars
<1>3. PromptInv => PasswordGoesToItsServer /\ AttemptIsAnswered
  BY DEF PromptInv, TypeOK, Fits, OwnPasswords, PasswordGoesToItsServer, AttemptIsAnswered,
     Online
<1> QED
  BY <1>1, <1>2, <1>3, PTL DEF ViewerSpec

-------------------------------------------------------------------------------
(* Keys and buttons                                                          *)

\* A list of a finite set has all its elements.
LEMMA ListOfSet ==
  ASSUME NEW S, IsFiniteSet(S)
  PROVE  /\ Input!SetToSeq(S) \in Seq(S)
         /\ \A x \in S : \E i \in DOMAIN Input!SetToSeq(S) : Input!SetToSeq(S)[i] = x
<1> DEFINE n == Cardinality(S)
           list == Input!SetToSeq(S)
<1>1. n \in Nat /\ ExistsBijection(1..n, S)
  BY FS_CardinalityType
<1>2. PICK f : f \in Bijection(1..n, S)
  BY <1>1 DEF ExistsBijection
<1>3. f \in [1..n -> S] /\ \A i, j \in 1..n : f[i] = f[j] => i = j
  BY <1>2, Fun_BijectionProperties
<1>4. list \in [1..n -> S] /\ \A i, j \in 1..n : list[i] = list[j] => i = j
  <2>1. list = CHOOSE g \in [1..n -> S] : Input!IsInjective(g)
    BY FiniteSetsOfParts DEF Input!SetToSeq
  <2>2. Input!IsInjective(f)
    BY <1>3 DEF Input!IsInjective
  <2> HIDE DEF n, list
  <2>3. list \in [1..n -> S] /\ Input!IsInjective(list)
    BY <1>3, <2>1, <2>2
  <2> QED
    BY <2>3 DEF Input!IsInjective
<1> HIDE DEF n, list
<1>5. list \in Injection(1..n, S)
  BY <1>4 DEF Injection, IsInjective
<1>6. IsFiniteSet(1..n) /\ Cardinality(1..n) = n
  BY <1>1, FS_Interval
<1>7. list \in Surjection(1..n, S)
  BY <1>5, <1>6, FS_Injection DEF n
<1>8. \A x \in S : \E i \in 1..n : list[i] = x
  BY <1>7 DEF Surjection
<1>9. list \in Seq(S) /\ DOMAIN list = 1..n
  BY <1>1, <1>4
<1> QED
  BY <1>8, <1>9 DEF list

\* In the queue, x is let go after i.
LetGo(queue, i, up, x) ==
  \E j \in DOMAIN queue : j > i /\ queue[j].type = up /\ queue[j].of = x

\* What is down, and what goes down when the queue is applied, is kept or let go by
\* the queue.
Covered(queue, isDown, kept, down, up) ==
  /\ \A x \in isDown : x \in kept \/ LetGo(queue, 0, up, x)
  /\ \A i \in DOMAIN queue : queue[i].type = down =>
        queue[i].of \in kept \/ LetGo(queue, i, up, queue[i].of)

\* More messages: what is not kept any longer is let go by them, what they press is
\* kept.
LEMMA CoveredByMore ==
  ASSUME NEW S, NEW queue \in Seq(S), NEW more \in Seq(S),
         NEW isDown, NEW kept, NEW keeps, NEW down, NEW up,
         Covered(queue, isDown, kept, down, up),
         \A x \in kept : x \in keeps \/ LetGo(more, 0, up, x),
         \A i \in DOMAIN more : more[i].type = down => more[i].of \in keeps
  PROVE  Covered(queue \o more, isDown, keeps, down, up)
<1> DEFINE longer == queue \o more
           n == Len(queue)
<1>1. /\ n \in Nat /\ DOMAIN queue = 1..n /\ Len(more) \in Nat /\ DOMAIN more = 1..Len(more)
      /\ DOMAIN longer = 1..(n + Len(more))
      /\ \A i \in DOMAIN queue : longer[i] = queue[i]
      /\ \A i \in DOMAIN more : n + i \in DOMAIN longer /\ longer[n + i] = more[i]
      /\ \A i \in DOMAIN longer : i \notin DOMAIN queue =>
            i - n \in DOMAIN more /\ longer[i] = more[i - n]
  OBVIOUS
<1> HIDE DEF longer, n
<1>2. ASSUME NEW i \in 0..n, NEW x, LetGo(queue, i, up, x) \/ LetGo(more, 0, up, x)
      PROVE  LetGo(longer, i, up, x)
  <2>1. CASE LetGo(queue, i, up, x)
    BY <1>1, <2>1 DEF LetGo
  <2>2. CASE LetGo(more, 0, up, x)
    <3>1. PICK j \in DOMAIN more : more[j].type = up /\ more[j].of = x
      BY <2>2 DEF LetGo
    <3>2. n + j \in DOMAIN longer /\ longer[n + j] = more[j] /\ n + j > i
      BY <1>1, <3>1
    <3> QED
      BY <3>1, <3>2 DEF LetGo
  <2> QED
    BY <1>2, <2>1, <2>2
<1>3. \A x \in isDown : x \in keeps \/ LetGo(longer, 0, up, x)
  BY <1>1, <1>2 DEF Covered
<1>4. ASSUME NEW i \in DOMAIN longer, longer[i].type = down
      PROVE  longer[i].of \in keeps \/ LetGo(longer, i, up, longer[i].of)
  <2>1. CASE i \in DOMAIN queue
    <3>1. queue[i].of \in kept \/ LetGo(queue, i, up, queue[i].of)
      BY <1>1, <1>4, <2>1 DEF Covered
    <3>2. i \in 0..n /\ longer[i] = queue[i]
      BY <1>1, <2>1
    <3> QED
      BY <1>2, <3>1, <3>2
  <2>2. CASE i \notin DOMAIN queue
    BY <1>1, <1>4, <2>2
  <2> QED
    BY <2>1, <2>2
<1> QED
  BY <1>3, <1>4 DEF Covered, longer

\* The first message is applied.
LEMMA CoveredByRest ==
  ASSUME NEW S, NEW queue \in Seq(S), queue # <<>>,
         NEW isDown, NEW kept, NEW down, NEW up, down # up,
         Covered(queue, isDown, kept, down, up),
         NEW nowDown,
         \A x \in nowDown :
            \/ x \in isDown /\ ~(queue[1].type = up /\ queue[1].of = x)
            \/ queue[1].type = down /\ queue[1].of = x
  PROVE  Covered(Tail(queue), nowDown, kept, down, up)
<1> DEFINE rest == Tail(queue)
<1>1. /\ DOMAIN queue = 1..Len(queue) /\ Len(queue) \in Nat /\ 1 \in DOMAIN queue
      /\ DOMAIN rest = 1..(Len(queue) - 1)
      /\ \A i \in DOMAIN rest : i + 1 \in DOMAIN queue /\ rest[i] = queue[i + 1]
      /\ \A i \in DOMAIN queue : i # 1 => i - 1 \in DOMAIN rest /\ rest[i - 1] = queue[i]
  OBVIOUS
<1> HIDE DEF rest
<1>2. ASSUME NEW i \in Nat, i > 0, NEW x, LetGo(queue, i, up, x)
      PROVE  LetGo(rest, i - 1, up, x)
  <2>1. PICK j \in DOMAIN queue : j > i /\ queue[j].type = up /\ queue[j].of = x
    BY <1>2 DEF LetGo
  <2>2. j - 1 \in DOMAIN rest /\ rest[j - 1] = queue[j] /\ j - 1 > i - 1
    BY <1>1, <1>2, <2>1
  <2> QED
    BY <2>1, <2>2 DEF LetGo
<1>3. ASSUME NEW x \in nowDown PROVE x \in kept \/ LetGo(rest, 0, up, x)
  <2>1. CASE queue[1].type = down /\ queue[1].of = x
    <3>1. x \in kept \/ LetGo(queue, 1, up, x)
      BY <1>1, <2>1 DEF Covered
    <3> QED
      BY <1>2, <3>1
  <2>2. CASE x \in isDown /\ ~(queue[1].type = up /\ queue[1].of = x)
    <3>1. x \in kept \/ \E j \in DOMAIN queue : queue[j].type = up /\ queue[j].of = x
      BY <2>2 DEF Covered, LetGo
    <3>2. ASSUME NEW j \in DOMAIN queue, queue[j].type = up, queue[j].of = x
          PROVE  LetGo(rest, 0, up, x)
      <4>1. j - 1 \in DOMAIN rest /\ rest[j - 1] = queue[j]
        BY <1>1, <2>2, <3>2
      <4> QED
        BY <1>1, <3>2, <4>1 DEF LetGo
    <3> QED
      BY <3>1, <3>2
  <2> QED
    BY <2>1, <2>2
<1>4. ASSUME NEW i \in DOMAIN rest, rest[i].type = down
      PROVE  rest[i].of \in kept \/ LetGo(rest, i, up, rest[i].of)
  <2>1. i + 1 \in DOMAIN queue /\ rest[i] = queue[i + 1] /\ i \in Nat
    BY <1>1
  <2>2. rest[i].of \in kept \/ LetGo(queue, i + 1, up, rest[i].of)
    BY <1>4, <2>1 DEF Covered
  <2>3. LetGo(queue, i + 1, up, rest[i].of) => LetGo(rest, (i + 1) - 1, up, rest[i].of)
    BY <1>2, <2>1
  <2> QED
    BY <2>1, <2>2, <2>3
<1> QED
  BY <1>3, <1>4 DEF Covered, rest

\* The names of keys.
Names(pressed) == {k[1] : k \in pressed}

\* What a cleanup sends lets go of all keys and buttons, and presses nothing.
LEMMA Releases ==
  ASSUME NEW pressed \in SUBSET (Keys \X BOOLEAN), NEW buttons \in SUBSET Buttons
  PROVE  /\ Input!keyUps(pressed) \in Seq(Input!Messages)
         /\ Input!mouseUps(buttons) \in Seq(Input!Messages)
         /\ \A i \in DOMAIN Input!keyUps(pressed) : Input!keyUps(pressed)[i].type = "keyUp"
         /\ \A i \in DOMAIN Input!mouseUps(buttons) :
                Input!mouseUps(buttons)[i].type = "mouseUp"
         /\ \A x \in Names(pressed) : LetGo(Input!keyUps(pressed), 0, "keyUp", x)
         /\ \A x \in buttons : LetGo(Input!mouseUps(buttons), 0, "mouseUp", x)
<1> DEFINE ups == {Input!keyEvent("keyUp", k[1]) : k \in pressed}
           mouse == {[type |-> "mouseUp", of |-> b] : b \in buttons}
           allUps == [type : {"keyUp"}, of : Keys]
           allMouse == [type : {"mouseUp"}, of : Buttons]
<1>1. IsFiniteSet(Keys) /\ IsFiniteSet(Buttons)
  BY ViewerAppAssumption, FiniteSetsOfParts DEF Input!KeysAssumption
<1>2. ups \subseteq allUps /\ mouse \subseteq allMouse
  BY DEF Input!keyEvent
<1>3. IsFiniteSet(allUps) /\ IsFiniteSet(allMouse)
  <2>1. PICK f : f = [x \in Keys |-> [type |-> "keyUp", of |-> x]]
    OBVIOUS
  <2>2. PICK g : g = [x \in Buttons |-> [type |-> "mouseUp", of |-> x]]
    OBVIOUS
  <2>3. f \in Surjection(Keys, allUps)
    <3>1. f \in [Keys -> allUps]
      BY <2>1
    <3>2. \A y \in allUps : y.of \in Keys /\ f[y.of] = y
      BY <2>1
    <3> QED
      BY <3>1, <3>2 DEF Surjection
  <2>4. g \in Surjection(Buttons, allMouse)
    <3>1. g \in [Buttons -> allMouse]
      BY <2>2
    <3>2. \A y \in allMouse : y.of \in Buttons /\ g[y.of] = y
      BY <2>2
    <3> QED
      BY <3>1, <3>2 DEF Surjection
  <2> QED
    BY <1>1, <2>3, <2>4, FS_Surjection
<1>4. IsFiniteSet(ups) /\ IsFiniteSet(mouse)
  BY <1>2, <1>3, FS_Subset
<1>5. allUps \subseteq Input!Messages /\ allMouse \subseteq Input!Messages
  BY DEF Input!Messages
<1>6. /\ Input!keyUps(pressed) \in Seq(ups)
      /\ \A m \in ups : \E i \in DOMAIN Input!keyUps(pressed) : Input!keyUps(pressed)[i] = m
  BY <1>4, ListOfSet DEF Input!keyUps
<1>7. /\ Input!mouseUps(buttons) \in Seq(mouse)
      /\ \A m \in mouse : \E i \in DOMAIN Input!mouseUps(buttons) : Input!mouseUps(buttons)[i] = m
  BY <1>4, ListOfSet DEF Input!mouseUps
<1>8. ASSUME NEW x \in Names(pressed) PROVE LetGo(Input!keyUps(pressed), 0, "keyUp", x)
  <2>1. PICK m \in ups : m = [type |-> "keyUp", of |-> x]
    BY DEF Names, Input!keyEvent
  <2>2. PICK i \in DOMAIN Input!keyUps(pressed) : Input!keyUps(pressed)[i] = m
    BY <1>6
  <2>3. i > 0
    BY <1>6
  <2> QED
    BY <2>1, <2>2, <2>3 DEF LetGo
<1>9. ASSUME NEW x \in buttons PROVE LetGo(Input!mouseUps(buttons), 0, "mouseUp", x)
  <2>1. PICK m \in mouse : m = [type |-> "mouseUp", of |-> x]
    OBVIOUS
  <2>2. PICK i \in DOMAIN Input!mouseUps(buttons) : Input!mouseUps(buttons)[i] = m
    BY <1>7
  <2>3. i > 0
    BY <1>7
  <2> QED
    BY <2>1, <2>2, <2>3 DEF LetGo
<1> HIDE DEF ups, mouse, allUps, allMouse
<1>10. /\ \A i \in DOMAIN Input!keyUps(pressed) : Input!keyUps(pressed)[i] \in allUps
       /\ \A i \in DOMAIN Input!mouseUps(buttons) : Input!mouseUps(buttons)[i] \in allMouse
  BY <1>2, <1>6, <1>7
<1>11. /\ Input!keyUps(pressed) \in Seq(Input!Messages)
       /\ Input!mouseUps(buttons) \in Seq(Input!Messages)
  BY <1>2, <1>5, <1>6, <1>7
<1> QED
  BY <1>8, <1>9, <1>10, <1>11 DEF allUps, allMouse

\* No connection is lost and nothing closes it.
Calm == events \cap {"quit", "drop"} = {}

CalmInv ==
  /\ open /\ app.connected /\ rendered.connected
  /\ Covered(wire, hostKeys, loose \cup Names(pressedKeys), "keyDown", "keyUp")
  /\ Covered(wire, hostButtons, pressedButtons, "mouseDown", "mouseUp")

InputInv ==
  /\ Input!TypeOK /\ Input!CaptureTakesControl
  /\ ~Input!captured => pressedKeys = {}
  /\ ~nut => hostKeys = {} /\ hostButtons = {}
  /\ Calm => CalmInv

LEMMA InputInit == Input!Init => InputInv
<1> SUFFICES ASSUME Input!Init PROVE InputInv
  OBVIOUS
<1>1. /\ keys \subseteq Keys /\ events \subseteq Input!Events /\ held = {} /\ focused = TRUE
      /\ app = [connected |-> TRUE, control |-> TRUE, capture |-> FALSE] /\ rendered = app
      /\ lock = "none" /\ pressedKeys = {} /\ pressedButtons = {} /\ open = TRUE
      /\ wire = <<>> /\ nut = FALSE /\ hostKeys = {} /\ hostButtons = {} /\ loose = {}
  BY DEF Input!Init
<1>2. app \in Input!State
  BY <1>1 DEF Input!State
<1>3. wire \in Seq(Input!Messages) /\ DOMAIN wire = {}
  BY <1>1
<1>4. Input!TypeOK
  BY <1>1, <1>2, <1>3 DEF Input!TypeOK
<1>5. CalmInv
  BY <1>1, <1>3 DEF CalmInv, Covered
<1> QED
  BY <1>1, <1>4, <1>5 DEF InputInv, Input!CaptureTakesControl

\* What is sent arrives in the queue, when it is sent.
LEMMA SentTypes ==
  ASSUME wire \in Seq(Input!Messages), NEW allowed \in BOOLEAN,
         NEW more \in Seq(Input!Messages), Input!sendControl(allowed, more), open \in BOOLEAN
  PROVE  /\ wire' \in Seq(Input!Messages)
         /\ allowed /\ open => wire' = wire \o more
         /\ ~allowed => wire' = wire
BY DEF Input!sendControl

LEMMA OneMessage ==
  ASSUME NEW type, NEW of,
         \/ type \in {"keyDown", "keyUp"} /\ of \in Keys
         \/ type \in {"mouseDown", "mouseUp"} /\ of \in Buttons
  PROVE  LET more == <<[type |-> type, of |-> of]>>
         IN  /\ more \in Seq(Input!Messages) /\ DOMAIN more = {1}
             /\ more[1].type = type /\ more[1].of = of
             /\ LetGo(more, 0, type, of)
<1> DEFINE m == [type |-> type, of |-> of]
<1>1. m \in Input!Messages /\ m.type = type /\ m.of = of
  BY DEF Input!Messages
<1> HIDE DEF m
<1>2. <<m>> \in Seq(Input!Messages) /\ DOMAIN <<m>> = {1} /\ <<m>>[1] = m
  BY <1>1
<1> QED
  BY <1>1, <1>2 DEF LetGo, m

\* A step that sends and leaves the host alone.
LEMMA CalmAndSent ==
  ASSUME InputInv, Calm => CalmInv, NEW more \in Seq(Input!Messages),
         Calm => wire' = wire \o more,
         UNCHANGED <<events, hostKeys, hostButtons>>,
         Calm => UNCHANGED open /\ app'.connected /\ rendered'.connected,
         \A x \in loose \cup Names(pressedKeys) :
            x \in loose' \cup Names(pressedKeys') \/ LetGo(more, 0, "keyUp", x),
         \A i \in DOMAIN more : more[i].type = "keyDown" =>
            more[i].of \in loose' \cup Names(pressedKeys'),
         \A x \in pressedButtons : x \in pressedButtons' \/ LetGo(more, 0, "mouseUp", x),
         \A i \in DOMAIN more : more[i].type = "mouseDown" => more[i].of \in pressedButtons'
  PROVE  Calm' => CalmInv'
<1> SUFFICES ASSUME Calm PROVE CalmInv'
  BY DEF Calm
<1>1. wire \in Seq(Input!Messages) /\ CalmInv
  BY DEF InputInv, Input!TypeOK
<1>2. Covered(wire \o more, hostKeys, loose' \cup Names(pressedKeys'), "keyDown", "keyUp")
  BY <1>1, CoveredByMore DEF CalmInv
<1>3. Covered(wire \o more, hostButtons, pressedButtons', "mouseDown", "mouseUp")
  BY <1>1, CoveredByMore DEF CalmInv
<1> QED
  BY <1>1, <1>2, <1>3 DEF CalmInv

\* A step that sends nothing.
LEMMA CalmAndSilent ==
  ASSUME InputInv, UNCHANGED <<events, wire, hostKeys, hostButtons, open>>,
         Calm => app'.connected /\ rendered'.connected,
         loose \cup Names(pressedKeys) \subseteq loose' \cup Names(pressedKeys'),
         pressedButtons \subseteq pressedButtons'
  PROVE  Calm' => CalmInv'
<1>1. wire \in Seq(Input!Messages) /\ (Calm => CalmInv)
  BY DEF InputInv, Input!TypeOK
<1>2. <<>> \in Seq(Input!Messages) /\ DOMAIN <<>> = {} /\ wire' = wire \o <<>>
  BY <1>1
<1> QED
  BY <1>1, <1>2, CalmAndSent

\* The types of a step of the viewer.
LEMMA InputTypes ==
  ASSUME Input!TypeOK, UNCHANGED <<keys, events, nut, hostKeys, hostButtons>>,
         held' \subseteq Input!Inputs, focused' \in BOOLEAN, app' \in Input!State,
         rendered' \in Input!State, lock' \in {"none", "asked", "locked", "exiting"},
         pressedKeys' \subseteq Keys \X BOOLEAN, pressedButtons' \subseteq Buttons,
         open' \in BOOLEAN, wire' \in Seq(Input!Messages), loose' \subseteq Keys
  PROVE  Input!TypeOK'
BY DEF Input!TypeOK

LEMMA IdentityTypes ==
  ASSUME NEW key \in Keys
  PROVE  Input!getKeyIdentity(key) \in Keys \X BOOLEAN /\ Input!getKeyIdentity(key)[1] = key
BY DEF Input!getKeyIdentity

\* A key goes down.
LEMMA PressKeyStep ==
  ASSUME InputInv, NEW key \in Keys, Input!PressKey(key), UNCHANGED <<keys, events>>
  PROVE  InputInv'
<1>1. /\ Input!TypeOK /\ (Calm => CalmInv) /\ Input!CaptureTakesControl
      /\ wire \in Seq(Input!Messages) /\ open \in BOOLEAN
      /\ app \in Input!State /\ rendered \in Input!State
      /\ pressedKeys \subseteq Keys \X BOOLEAN /\ loose \subseteq Keys
      /\ ~Input!captured => pressedKeys = {}
      /\ ~nut => hostKeys = {} /\ hostButtons = {}
  BY DEF InputInv, Input!TypeOK
<1>2. /\ held' = held \cup {key} /\ UNCHANGED <<focused, rendered, nut, hostKeys, hostButtons>>
      /\ \/ Input!ExitCapture(key) \/ Input!CapturedKeyDown(key) \/ Input!VideoKeyDown(key)
         \/ Input!IgnoredKeyDown \/ Input!DisconnectShortcut(key)
  BY DEF Input!PressKey, Input!hostVars
<1>3. held' \subseteq Input!Inputs
  BY <1>1, <1>2 DEF Input!TypeOK, Input!Inputs
<1>4. rendered.control \in BOOLEAN /\ (Input!captured' <=> Input!captured)
  BY <1>1, <1>2 DEF Input!State, Input!captured
<1> DEFINE more == <<Input!keyEvent("keyDown", key)>>
<1>5. /\ more \in Seq(Input!Messages) /\ DOMAIN more = {1}
      /\ more[1].type = "keyDown" /\ more[1].of = key
  BY OneMessage DEF Input!keyEvent
<1>6. /\ Input!getKeyIdentity(key) \in Keys \X BOOLEAN
      /\ key \in Names({Input!getKeyIdentity(key)})
      /\ \A p, q : Names(p \cup q) = Names(p) \cup Names(q)
  BY IdentityTypes DEF Names
<1> HIDE DEF more
<1>7. CASE Input!CapturedKeyDown(key)
  <2>1. /\ Input!captured /\ rendered.control
        /\ pressedKeys' = pressedKeys \cup {Input!getKeyIdentity(key)}
        /\ Input!sendControl(rendered.control, more)
        /\ UNCHANGED <<app, lock, pressedButtons, open, loose>>
    BY <1>7 DEF Input!CapturedKeyDown, Input!captured, more
  <2>2. wire' \in Seq(Input!Messages) /\ (open => wire' = wire \o more)
    BY <1>1, <1>4, <1>5, <2>1, SentTypes
  <2>3. Input!TypeOK'
    BY <1>1, <1>2, <1>3, <1>6, <2>1, <2>2, InputTypes DEF Input!TypeOK
  <2>4. Calm => open /\ app'.connected /\ rendered'.connected
    BY <1>1, <1>2, <2>1 DEF CalmInv
  <2>5. Names(pressedKeys') = Names(pressedKeys) \cup {key}
    BY <1>6, <2>1, IdentityTypes DEF Names
  <2>6. Calm' => CalmInv'
    BY <1>1, <1>2, <1>5, <2>1, <2>2, <2>4, <2>5, CalmAndSent
  <2> QED
    BY <1>1, <1>2, <1>4, <2>1, <2>3, <2>6 DEF InputInv, Input!CaptureTakesControl
<1>8. CASE Input!ExitCapture(key)
  <2>1. /\ Input!captured /\ rendered.control /\ pressedKeys' = {}
        /\ Input!sendControl(rendered.control, Input!keyUps(pressedKeys))
        /\ loose' = IF open THEN loose \ Names(pressedKeys) ELSE loose
        /\ app' = [app EXCEPT !.capture = FALSE]
        /\ UNCHANGED <<lock, pressedButtons, open>>
    BY <1>8 DEF Input!ExitCapture, Input!captured, Names
  <2>2. /\ Input!keyUps(pressedKeys) \in Seq(Input!Messages)
        /\ \A i \in DOMAIN Input!keyUps(pressedKeys) :
              Input!keyUps(pressedKeys)[i].type = "keyUp"
        /\ \A x \in Names(pressedKeys) : LetGo(Input!keyUps(pressedKeys), 0, "keyUp", x)
    BY <1>1, Releases
  <2>3. wire' \in Seq(Input!Messages) /\ (open => wire' = wire \o Input!keyUps(pressedKeys))
    BY <1>1, <1>4, <2>1, <2>2, SentTypes
  <2>4. /\ app' \in Input!State /\ app'.connected = app.connected /\ app'.capture = FALSE
    BY <1>1, <2>1 DEF Input!State
  <2>5. Input!TypeOK'
    BY <1>1, <1>2, <1>3, <2>1, <2>3, <2>4, InputTypes DEF Input!TypeOK
  <2>6. Calm => open /\ app'.connected /\ rendered'.connected
    BY <1>1, <1>2, <2>4 DEF CalmInv
  <2>7. Calm' => CalmInv'
    BY <1>1, <1>2, <2>1, <2>2, <2>3, <2>6, CalmAndSent
  <2> QED
    BY <1>1, <1>2, <2>1, <2>4, <2>5, <2>7 DEF InputInv, Input!CaptureTakesControl
<1>9. CASE Input!VideoKeyDown(key)
  <2>1. /\ ~Input!captured /\ rendered.control
        /\ Input!sendControl(rendered.control, more)
        /\ loose' = IF open THEN loose \cup {key} ELSE loose
        /\ UNCHANGED <<app, lock, pressedKeys, pressedButtons, open>>
    BY <1>9 DEF Input!VideoKeyDown, Input!captured, Input!pointing, more
  <2>2. wire' \in Seq(Input!Messages) /\ (open => wire' = wire \o more)
    BY <1>1, <1>4, <1>5, <2>1, SentTypes
  <2>3. Input!TypeOK'
    BY <1>1, <1>2, <1>3, <2>1, <2>2, InputTypes DEF Input!TypeOK
  <2>4. Calm => open /\ app'.connected /\ rendered'.connected
    BY <1>1, <1>2, <2>1 DEF CalmInv
  <2>5. Calm' => CalmInv'
    <3>1. CASE open
      BY <1>1, <1>2, <1>5, <2>1, <2>2, <2>4, <3>1, CalmAndSent
    <3>2. CASE ~open
      BY <1>1, <1>2, <2>4, <3>2 DEF Calm
    <3> QED
      BY <3>1, <3>2
  <2> QED
    BY <1>1, <1>2, <1>4, <2>1, <2>3, <2>5 DEF InputInv, Input!CaptureTakesControl
<1>10. CASE Input!IgnoredKeyDown
  <2>1. UNCHANGED <<app, lock, pressedKeys, pressedButtons, open, wire, loose>>
    BY <1>10 DEF Input!IgnoredKeyDown
  <2>2. Input!TypeOK'
    BY <1>1, <1>2, <1>3, <2>1, InputTypes DEF Input!TypeOK
  <2>3. Calm' => CalmInv'
    BY <1>1, <1>2, <2>1, CalmAndSilent DEF CalmInv
  <2> QED
    BY <1>1, <1>2, <1>4, <2>1, <2>2, <2>3 DEF InputInv, Input!CaptureTakesControl
<1>11. CASE Input!DisconnectShortcut(key)
  <2>1. /\ "quit" \in events /\ app' = [app EXCEPT !.connected = FALSE, !.control = FALSE]
        /\ open' = FALSE /\ UNCHANGED <<lock, pressedButtons, loose>>
        /\ pressedKeys' = IF Input!captured
                          THEN pressedKeys \cup {Input!getKeyIdentity(key)} ELSE pressedKeys
        /\ Input!sendControl(TRUE, more) \/ UNCHANGED wire
    BY <1>11 DEF Input!DisconnectShortcut, more
  <2>2. app' \in Input!State /\ ~app'.connected
    BY <1>1, <2>1 DEF Input!State
  <2>3. wire' \in Seq(Input!Messages)
    BY <1>1, <1>5, <2>1, SentTypes
  <2>4. pressedKeys' \subseteq Keys \X BOOLEAN /\ (~Input!captured => pressedKeys' = {})
    BY <1>1, <1>6, <2>1
  <2>5. Input!TypeOK'
    BY <1>1, <1>2, <1>3, <2>1, <2>2, <2>3, <2>4, InputTypes DEF Input!TypeOK
  <2>6. ~Calm'
    BY <2>1 DEF Calm
  <2> QED
    BY <1>1, <1>2, <1>4, <2>2, <2>4, <2>5, <2>6 DEF InputInv, Input!CaptureTakesControl
<1> QED
  BY <1>2, <1>7, <1>8, <1>9, <1>10, <1>11

\* A key comes up.
LEMMA ReleaseKeyStep ==
  ASSUME InputInv, NEW key \in Keys, Input!ReleaseKey(key), UNCHANGED <<keys, events>>
  PROVE  InputInv'
<1>1. /\ Input!TypeOK /\ (Calm => CalmInv) /\ Input!CaptureTakesControl
      /\ wire \in Seq(Input!Messages) /\ open \in BOOLEAN
      /\ rendered \in Input!State
      /\ pressedKeys \subseteq Keys \X BOOLEAN /\ loose \subseteq Keys
      /\ ~Input!captured => pressedKeys = {}
      /\ ~nut => hostKeys = {} /\ hostButtons = {}
  BY DEF InputInv, Input!TypeOK
<1>2. /\ held' = held \ {key}
      /\ UNCHANGED <<focused, app, rendered, lock, pressedButtons, open, nut, hostKeys,
                     hostButtons>>
      /\ Input!CapturedKeyUp(key) \/ Input!VideoKeyUp(key)
  BY DEF Input!ReleaseKey, Input!hostVars
<1>3. held' \subseteq Input!Inputs
  BY <1>1, <1>2 DEF Input!TypeOK
<1>4. /\ rendered.control \in BOOLEAN /\ Input!pointing \in BOOLEAN
      /\ (Input!captured' <=> Input!captured)
      /\ Calm => open /\ app'.connected /\ rendered'.connected
  BY <1>1, <1>2 DEF Input!State, Input!captured, Input!pointing, CalmInv
<1> DEFINE more == <<Input!keyEvent("keyUp", key)>>
<1>5. /\ more \in Seq(Input!Messages) /\ DOMAIN more = {1} /\ more[1].type = "keyUp"
      /\ LetGo(more, 0, "keyUp", key)
  BY OneMessage DEF Input!keyEvent
<1> HIDE DEF more
<1>6. CASE UNCHANGED <<pressedKeys, wire, loose>>
  <2>1. Input!TypeOK'
    BY <1>1, <1>2, <1>3, <1>6, InputTypes DEF Input!TypeOK
  <2>2. Calm' => CalmInv'
    BY <1>1, <1>2, <1>4, <1>6, CalmAndSilent
  <2> QED
    BY <1>1, <1>2, <1>4, <1>6, <2>1, <2>2 DEF InputInv, Input!CaptureTakesControl
<1>7. ASSUME NEW allowed \in BOOLEAN, Calm => allowed, Input!sendControl(allowed, more),
             loose' = IF allowed /\ open THEN loose \ {key} ELSE loose,
             pressedKeys' \subseteq pressedKeys,
             \A x \in Names(pressedKeys) : x = key \/ x \in Names(pressedKeys')
      PROVE  InputInv'
  <2>1. wire' \in Seq(Input!Messages) /\ (allowed /\ open => wire' = wire \o more)
    BY <1>1, <1>5, <1>7, SentTypes
  <2>2. Input!TypeOK'
    BY <1>1, <1>2, <1>3, <1>7, <2>1, InputTypes DEF Input!TypeOK
  <2>3. \A x \in loose \cup Names(pressedKeys) :
          x \in loose' \cup Names(pressedKeys') \/ LetGo(more, 0, "keyUp", x)
    BY <1>5, <1>7
  <2>4. Calm' => CalmInv'
    BY <1>1, <1>2, <1>4, <1>5, <1>7, <2>1, <2>3, CalmAndSent
  <2> QED
    BY <1>1, <1>2, <1>4, <1>7, <2>2, <2>4 DEF InputInv, Input!CaptureTakesControl
<1>8. CASE Input!CapturedKeyUp(key)
  <2>1. CASE ~UNCHANGED <<pressedKeys, wire, loose>>
    <3>1. /\ Input!captured
          /\ pressedKeys' = pressedKeys \ {Input!getKeyIdentity(key)}
          /\ Input!sendControl(rendered.control, more)
          /\ loose' = IF open THEN loose \ {key} ELSE loose
      BY <1>8, <2>1 DEF Input!CapturedKeyUp, more
    <3>2. rendered.control
      BY <3>1 DEF Input!captured
    <3>3. \A x \in Names(pressedKeys) : x = key \/ x \in Names(pressedKeys')
      BY <3>1 DEF Names, Input!getKeyIdentity
    <3> QED
      BY <1>4, <1>7, <3>1, <3>2, <3>3
  <2> QED
    BY <1>6, <2>1
<1>9. CASE Input!VideoKeyUp(key)
  <2>1. /\ ~Input!captured /\ Input!sendControl(Input!pointing, more)
        /\ loose' = IF Input!pointing /\ open THEN loose \ {key} ELSE loose
        /\ UNCHANGED pressedKeys
    BY <1>9 DEF Input!VideoKeyUp, more
  <2>2. CASE Input!pointing
    BY <1>4, <1>7, <2>1, <2>2
  <2>3. CASE ~Input!pointing
    <3>1. UNCHANGED <<pressedKeys, wire, loose>>
      BY <1>4, <2>1, <2>3 DEF Input!sendControl
    <3> QED
      BY <1>6, <3>1
  <2> QED
    BY <2>2, <2>3
<1> QED
  BY <1>2, <1>8, <1>9

\* A button goes down.
LEMMA PressButtonStep ==
  ASSUME InputInv, NEW button \in Buttons, Input!PressButton(button),
         UNCHANGED <<keys, events>>
  PROVE  InputInv'
<1>1. /\ Input!TypeOK /\ (Calm => CalmInv) /\ Input!CaptureTakesControl
      /\ wire \in Seq(Input!Messages) /\ open \in BOOLEAN
      /\ rendered \in Input!State /\ pressedButtons \subseteq Buttons
      /\ ~Input!captured => pressedKeys = {}
      /\ ~nut => hostKeys = {} /\ hostButtons = {}
  BY DEF InputInv, Input!TypeOK
<1>2. /\ held' = held \cup {button}
      /\ UNCHANGED <<focused, app, rendered, pressedKeys, open, nut, hostKeys, hostButtons,
                     loose>>
      /\ Input!CapturedMouseDown(button) \/ Input!VideoPointerDown(button)
  BY DEF Input!PressButton, Input!hostVars
<1>3. held' \subseteq Input!Inputs
  BY <1>1, <1>2 DEF Input!TypeOK, Input!Inputs
<1>4. /\ rendered.control \in BOOLEAN
      /\ (Input!captured' <=> Input!captured)
      /\ Calm => open /\ app'.connected /\ rendered'.connected
  BY <1>1, <1>2 DEF Input!State, Input!captured, CalmInv
<1> DEFINE more == <<Input!keyEvent("mouseDown", button)>>
<1>5. /\ more \in Seq(Input!Messages) /\ DOMAIN more = {1} /\ more[1].type = "mouseDown"
      /\ more[1].of = button
  BY OneMessage DEF Input!keyEvent
<1> HIDE DEF more
<1>6. CASE lock' = "asked" /\ UNCHANGED <<pressedButtons, wire>>
  <2>1. Input!TypeOK'
    BY <1>1, <1>2, <1>3, <1>6, InputTypes DEF Input!TypeOK
  <2>2. Calm' => CalmInv'
    BY <1>1, <1>2, <1>4, <1>6, CalmAndSilent
  <2> QED
    BY <1>1, <1>2, <1>4, <1>6, <2>1, <2>2 DEF InputInv, Input!CaptureTakesControl
<1>7. CASE /\ rendered.control /\ Input!sendControl(rendered.control, more)
           /\ pressedButtons' = pressedButtons \cup {button} /\ lock' = lock
  <2>1. wire' \in Seq(Input!Messages) /\ (open => wire' = wire \o more)
    BY <1>1, <1>4, <1>5, <1>7, SentTypes
  <2>2. Input!TypeOK'
    BY <1>1, <1>2, <1>3, <1>7, <2>1, InputTypes DEF Input!TypeOK
  <2>3. Calm' => CalmInv'
    BY <1>1, <1>2, <1>4, <1>5, <1>7, <2>1, CalmAndSent
  <2> QED
    BY <1>1, <1>2, <1>4, <1>7, <2>2, <2>3 DEF InputInv, Input!CaptureTakesControl
<1> QED
  BY <1>2, <1>6, <1>7 DEF Input!CapturedMouseDown, Input!VideoPointerDown, Input!captured,
     Input!pointing, more

\* A button comes up.  One that is not among the pressed ones has been let go.
LEMMA ReleaseButtonStep ==
  ASSUME InputInv, NEW button \in Buttons, Input!ReleaseButton(button),
         UNCHANGED <<keys, events>>
  PROVE  InputInv'
<1>1. /\ Input!TypeOK /\ (Calm => CalmInv) /\ Input!CaptureTakesControl
      /\ wire \in Seq(Input!Messages) /\ open \in BOOLEAN
      /\ rendered \in Input!State /\ pressedButtons \subseteq Buttons
      /\ ~Input!captured => pressedKeys = {}
      /\ ~nut => hostKeys = {} /\ hostButtons = {}
  BY DEF InputInv, Input!TypeOK
<1>2. /\ held' = held \ {button}
      /\ UNCHANGED <<focused, app, rendered, lock, pressedKeys, open, nut, hostKeys,
                     hostButtons, loose>>
      /\ Input!CapturedMouseUp(button) \/ Input!VideoPointerUp(button)
  BY DEF Input!ReleaseButton, Input!hostVars
<1>3. held' \subseteq Input!Inputs
  BY <1>1, <1>2 DEF Input!TypeOK
<1>4. /\ rendered.control \in BOOLEAN /\ Input!pointing \in BOOLEAN
      /\ (Input!captured' <=> Input!captured)
      /\ Calm => open /\ app'.connected /\ rendered'.connected
  BY <1>1, <1>2 DEF Input!State, Input!captured, Input!pointing, CalmInv
<1> DEFINE more == <<Input!keyEvent("mouseUp", button)>>
<1>5. /\ more \in Seq(Input!Messages) /\ DOMAIN more = {1} /\ more[1].type = "mouseUp"
      /\ LetGo(more, 0, "mouseUp", button)
  BY OneMessage DEF Input!keyEvent
<1> HIDE DEF more
<1>6. CASE UNCHANGED <<pressedButtons, wire>>
  <2>1. Input!TypeOK'
    BY <1>1, <1>2, <1>3, <1>6, InputTypes DEF Input!TypeOK
  <2>2. Calm' => CalmInv'
    BY <1>1, <1>2, <1>4, <1>6, CalmAndSilent
  <2> QED
    BY <1>1, <1>2, <1>4, <1>6, <2>1, <2>2 DEF InputInv, Input!CaptureTakesControl
<1>7. CASE Input!sendControl(TRUE, more) /\ pressedButtons' = pressedButtons \ {button}
  <2>1. wire' \in Seq(Input!Messages) /\ (open => wire' = wire \o more)
    BY <1>1, <1>5, <1>7, SentTypes
  <2>2. Input!TypeOK'
    BY <1>1, <1>2, <1>3, <1>7, <2>1, InputTypes DEF Input!TypeOK
  <2>3. Calm' => CalmInv'
    BY <1>1, <1>2, <1>4, <1>5, <1>7, <2>1, CalmAndSent
  <2> QED
    BY <1>1, <1>2, <1>4, <1>7, <2>2, <2>3 DEF InputInv, Input!CaptureTakesControl
<1>8. CASE Input!CapturedMouseUp(button)
  BY <1>2, <1>4, <1>6, <1>7, <1>8 DEF Input!CapturedMouseUp, Input!captured, more
<1>9. CASE Input!VideoPointerUp(button)
  <2>1. /\ pressedButtons' = IF Input!pointing THEN pressedButtons \ {button}
                             ELSE pressedButtons
        /\ Input!sendControl(Input!pointing /\ button \in pressedButtons, more)
    BY <1>9 DEF Input!VideoPointerUp, more
  <2>2. CASE Input!pointing /\ button \in pressedButtons
    BY <1>7, <2>1, <2>2 DEF Input!sendControl
  <2>3. CASE ~(Input!pointing /\ button \in pressedButtons)
    <3>1. UNCHANGED <<pressedButtons, wire>>
      BY <2>1, <2>3 DEF Input!sendControl
    <3> QED
      BY <1>6, <3>1
  <2> QED
    BY <2>2, <2>3
<1> QED
  BY <1>2, <1>8, <1>9

\* A step that leaves the messages and what is pressed alone.
LEMMA SilentStep ==
  ASSUME InputInv, UNCHANGED <<keys, events, pressedKeys, pressedButtons, open, wire, nut,
                               hostKeys, hostButtons, loose>>,
         held' \subseteq Input!Inputs, focused' \in BOOLEAN, app' \in Input!State,
         rendered' \in Input!State, lock' \in {"none", "asked", "locked", "exiting"},
         Calm => app'.connected /\ rendered'.connected,
         app'.connected /\ app'.capture => app'.control,
         ~Input!captured' => pressedKeys = {}
  PROVE  InputInv'
<1>1. Input!TypeOK'
  BY InputTypes DEF InputInv, Input!TypeOK
<1>2. Calm' => CalmInv'
  BY CalmAndSilent DEF InputInv
<1> QED
  BY <1>1, <1>2 DEF InputInv, Input!CaptureTakesControl

\* The capture lets go of everything.
LEMMA ReleasedStep ==
  ASSUME InputInv, Input!captured, Input!releasePressed(rendered.control),
         UNCHANGED <<keys, events, open, nut, hostKeys, hostButtons>>,
         held' \subseteq Input!Inputs, focused' \in BOOLEAN, app' \in Input!State,
         rendered' \in Input!State, lock' \in {"none", "asked", "locked", "exiting"},
         Calm => app'.connected /\ rendered'.connected,
         app'.connected /\ app'.capture => app'.control
  PROVE  InputInv'
<1> DEFINE ups == Input!keyUps(pressedKeys)
           mouse == Input!mouseUps(pressedButtons)
           more == ups \o mouse
<1>1. /\ Input!TypeOK /\ (Calm => CalmInv)
      /\ wire \in Seq(Input!Messages) /\ open \in BOOLEAN /\ loose \subseteq Keys
      /\ pressedKeys \subseteq Keys \X BOOLEAN /\ pressedButtons \subseteq Buttons
      /\ ~nut => hostKeys = {} /\ hostButtons = {}
  BY DEF InputInv, Input!TypeOK
<1>2. /\ rendered.control /\ pressedKeys' = {} /\ pressedButtons' = {}
      /\ Input!sendControl(rendered.control, more)
      /\ loose' = IF open THEN loose \ Names(pressedKeys) ELSE loose
  BY DEF Input!releasePressed, Input!captured, Names
<1>3. /\ ups \in Seq(Input!Messages) /\ mouse \in Seq(Input!Messages)
      /\ \A i \in DOMAIN ups : ups[i].type = "keyUp"
      /\ \A i \in DOMAIN mouse : mouse[i].type = "mouseUp"
      /\ \A x \in Names(pressedKeys) : LetGo(ups, 0, "keyUp", x)
      /\ \A x \in pressedButtons : LetGo(mouse, 0, "mouseUp", x)
  BY <1>1, Releases
<1> HIDE DEF ups, mouse
<1>4. /\ more \in Seq(Input!Messages)
      /\ \A i \in DOMAIN ups : i \in DOMAIN more /\ more[i] = ups[i]
      /\ \A i \in DOMAIN mouse : Len(ups) + i \in DOMAIN more /\ more[Len(ups) + i] = mouse[i]
      /\ \A i \in DOMAIN more : i \in DOMAIN ups \/ i - Len(ups) \in DOMAIN mouse
      /\ \A i \in DOMAIN more : i \notin DOMAIN ups => more[i] = mouse[i - Len(ups)]
      /\ Len(ups) \in Nat /\ DOMAIN mouse = 1..Len(mouse) /\ Len(mouse) \in Nat
  BY <1>3
<1>5. wire' \in Seq(Input!Messages) /\ (open => wire' = wire \o more)
  BY <1>1, <1>2, <1>4, SentTypes
<1> HIDE DEF more
<1>6. /\ \A i \in DOMAIN more : more[i].type \in {"keyUp", "mouseUp"}
      /\ \A x \in Names(pressedKeys) : LetGo(more, 0, "keyUp", x)
  <2>1. ASSUME NEW i \in DOMAIN more PROVE more[i].type \in {"keyUp", "mouseUp"}
    <3>1. CASE i \in DOMAIN ups
      BY <1>3, <1>4, <3>1
    <3>2. CASE i \notin DOMAIN ups
      BY <1>3, <1>4, <3>2
    <3> QED
      BY <3>1, <3>2
  <2>2. ASSUME NEW x \in Names(pressedKeys) PROVE LetGo(more, 0, "keyUp", x)
    <3>1. PICK j \in DOMAIN ups : ups[j].type = "keyUp" /\ ups[j].of = x /\ j > 0
      BY <1>3 DEF LetGo
    <3>2. j \in DOMAIN more /\ more[j] = ups[j]
      BY <1>4, <3>1
    <3> QED
      BY <3>1, <3>2 DEF LetGo
  <2> QED
    BY <2>1, <2>2
<1>7. ASSUME NEW x \in pressedButtons PROVE LetGo(more, 0, "mouseUp", x)
  <2>1. PICK j \in DOMAIN mouse : mouse[j].type = "mouseUp" /\ mouse[j].of = x /\ j > 0
    BY <1>3 DEF LetGo
  <2>2. Len(ups) + j \in DOMAIN more /\ more[Len(ups) + j] = mouse[j] /\ Len(ups) + j > 0
    BY <1>4, <2>1
  <2> QED
    BY <2>1, <2>2 DEF LetGo
<1>8. Input!TypeOK'
  BY <1>1, <1>2, <1>5, InputTypes DEF Input!TypeOK
<1>9. Calm' => CalmInv'
  <2>1. CASE open
    BY <1>1, <1>2, <1>4, <1>5, <1>6, <1>7, <2>1, CalmAndSent
  <2>2. CASE ~open
    BY <1>1, <2>2 DEF Calm, CalmInv
  <2> QED
    BY <2>1, <2>2
<1> QED
  BY <1>1, <1>2, <1>8, <1>9 DEF InputInv, Input!CaptureTakesControl

\* Settings, renders, the pointer lock and the focus.
LEMMA RenderStep ==
  ASSUME InputInv, UNCHANGED <<keys, events>>,
         \/ Input!Toggle \/ Input!Render \/ Input!LockAnswered \/ Input!LockEnds
         \/ Input!Blur \/ Input!Focus
  PROVE  InputInv'
<1>1. /\ Input!TypeOK /\ (Calm => CalmInv) /\ Input!CaptureTakesControl
      /\ app \in Input!State /\ rendered \in Input!State
      /\ held \subseteq Input!Inputs /\ focused \in BOOLEAN
      /\ lock \in {"none", "asked", "locked", "exiting"}
      /\ ~Input!captured => pressedKeys = {}
      /\ Calm => app.connected /\ rendered.connected
  BY DEF InputInv, Input!TypeOK, CalmInv
<1>2. CASE Input!Toggle
  <2>1. /\ app' \in Input!State /\ app'.connected = app.connected
        /\ app'.capture => app'.control
    <3>1. PICK enabled \in BOOLEAN : Input!changeControlEnabled(enabled)
                                    \/ Input!changeCaptureLocalInput(enabled)
      BY <1>2 DEF Input!Toggle
    <3> QED
      BY <1>1, <3>1 DEF Input!State, Input!changeControlEnabled,
         Input!changeCaptureLocalInput, Input!CaptureTakesControl
  <2>2. UNCHANGED <<held, focused, rendered, lock, pressedKeys, pressedButtons, open, wire,
                    nut, hostKeys, hostButtons, loose>>
    BY <1>2 DEF Input!Toggle, Input!hostVars
  <2> QED
    BY <1>1, <2>1, <2>2, SilentStep DEF Input!captured
<1>3. CASE Input!Render
  <2>1. /\ rendered' = app /\ Input!Cleanup
        /\ UNCHANGED <<held, focused, app, open, nut, hostKeys, hostButtons>>
        /\ lock' \in {"none", "asked", "locked", "exiting"}
    BY <1>1, <1>3 DEF Input!Render, Input!hostVars, Input!requestLock, Input!exitPointerLock
  <2>2. CASE Input!captured
    BY <1>1, <2>1, <2>2, ReleasedStep DEF Input!Cleanup, Input!CaptureTakesControl
  <2>3. CASE ~Input!captured
    BY <1>1, <2>1, <2>3, SilentStep DEF Input!Cleanup, Input!CaptureTakesControl
  <2> QED
    BY <2>2, <2>3
<1>4. CASE Input!LockAnswered
  <2>1. /\ lock' \in {"none", "asked", "locked", "exiting"}
        /\ UNCHANGED <<held, focused, app, rendered, pressedKeys, pressedButtons, open, wire,
                       nut, hostKeys, hostButtons, loose>>
    BY <1>4 DEF Input!LockAnswered, Input!hostVars
  <2> QED
    BY <1>1, <2>1, SilentStep DEF Input!captured, Input!CaptureTakesControl
<1>5. CASE Input!LockEnds
  <2>1. /\ lock' = "none"
        /\ UNCHANGED <<held, focused, rendered, open, nut, hostKeys, hostButtons>>
    BY <1>5 DEF Input!LockEnds, Input!hostVars
  <2>2. CASE Input!captured
    <3>1. /\ Input!releasePressed(rendered.control)
          /\ app' \in Input!State /\ app'.connected = app.connected /\ ~app'.capture
      BY <1>1, <1>5, <2>2 DEF Input!LockEnds, Input!State
    <3> QED
      BY <1>1, <2>1, <2>2, <3>1, ReleasedStep
  <2>3. CASE ~Input!captured
    <3>1. UNCHANGED <<app, pressedKeys, pressedButtons, wire, loose>>
      BY <1>5, <2>3 DEF Input!LockEnds
    <3> QED
      BY <1>1, <2>1, <2>3, <3>1, SilentStep DEF Input!CaptureTakesControl
  <2> QED
    BY <2>2, <2>3
<1>6. CASE Input!Blur \/ Input!Focus
  <2>1. /\ held' \subseteq held /\ focused' \in BOOLEAN
        /\ UNCHANGED <<app, rendered, lock, pressedKeys, pressedButtons, open, wire,
                       nut, hostKeys, hostButtons, loose>>
    BY <1>6 DEF Input!Blur, Input!Focus, Input!hostVars
  <2> QED
    BY <1>1, <2>1, SilentStep DEF Input!captured, Input!CaptureTakesControl
<1> QED
  BY <1>2, <1>3, <1>4, <1>5, <1>6

\* A connection is made or lost.
LEMMA ChannelStep ==
  ASSUME InputInv, UNCHANGED <<keys, events>>,
         Input!connect \/ Input!ChannelDrops \/ Input!ChannelReopens
  PROVE  InputInv'
<1>1. /\ Input!TypeOK /\ (Calm => CalmInv) /\ Input!CaptureTakesControl
      /\ app \in Input!State /\ wire \in Seq(Input!Messages)
      /\ ~Input!captured => pressedKeys = {}
      /\ ~nut => hostKeys = {} /\ hostButtons = {}
      /\ Calm => app.connected /\ open
  BY DEF InputInv, Input!TypeOK, CalmInv
<1>0. <<>> \in Seq(Input!Messages)
  OBVIOUS
<1>2. /\ app' \in Input!State /\ wire' \in Seq(Input!Messages) /\ open' \in BOOLEAN
      /\ app'.connected /\ app'.capture => app'.control
      /\ UNCHANGED <<held, focused, rendered, lock, pressedKeys, pressedButtons, nut,
                     hostKeys, hostButtons, loose>>
  <2>1. CASE Input!connect
    <3>1. PICK control \in BOOLEAN :
            app' = [app EXCEPT !.connected = TRUE, !.control = control \/ app.capture]
      BY <2>1 DEF Input!connect
    <3>2. app' \in Input!State /\ (app'.capture => app'.control)
      BY <1>1, <3>1 DEF Input!State
    <3> QED
      BY <1>0, <2>1, <3>2 DEF Input!connect, Input!hostVars
  <2>2. CASE Input!ChannelDrops \/ Input!ChannelReopens
    BY <1>0, <1>1, <2>2 DEF Input!ChannelDrops, Input!ChannelReopens, Input!viewerVars,
       Input!hostVars, Input!CaptureTakesControl
  <2> QED
    BY <2>1, <2>2
<1>3. ~Calm
  <2>1. Calm => app.connected /\ open /\ "drop" \notin events
    BY <1>1 DEF Calm
  <2> QED
    BY <2>1 DEF Input!connect, Input!ChannelDrops, Input!ChannelReopens
<1>4. Input!captured' <=> Input!captured
  BY <1>2 DEF Input!captured
<1>5. Input!TypeOK'
  BY <1>1, <1>2, InputTypes DEF Input!TypeOK
<1> QED
  BY <1>1, <1>2, <1>3, <1>4, <1>5 DEF InputInv, Input!CaptureTakesControl, Calm

\* The host loads its library, or drops what waits for it.
LEMMA LibraryStep ==
  ASSUME InputInv, UNCHANGED <<keys, events>>, Input!loadNut \/ Input!LoadFails
  PROVE  InputInv'
<1>1. /\ Input!TypeOK /\ (Calm => CalmInv) /\ Input!CaptureTakesControl
      /\ wire \in Seq(Input!Messages) /\ nut \in BOOLEAN
      /\ ~Input!captured => pressedKeys = {}
      /\ ~nut => hostKeys = {} /\ hostButtons = {}
  BY DEF InputInv, Input!TypeOK
<1>2. /\ nut' \in BOOLEAN /\ wire' \in {wire, <<>>} /\ hostKeys = {} /\ hostButtons = {}
      /\ UNCHANGED <<held, focused, app, rendered, lock, pressedKeys, pressedButtons, open,
                     hostKeys, hostButtons, loose>>
  BY <1>1 DEF Input!loadNut, Input!LoadFails, Input!viewerVars, Input!hostVars
<1>3. Input!captured' <=> Input!captured
  BY <1>2 DEF Input!captured
<1>4. wire' \in Seq(Input!Messages)
  <2>1. <<>> \in Seq(Input!Messages)
    OBVIOUS
  <2> QED
    BY <1>1, <1>2, <2>1
<1>5. Input!TypeOK'
  BY <1>1, <1>2, <1>4 DEF Input!TypeOK
<1>6. Calm' => CalmInv'
  <2>1. CASE wire' = wire
    BY <1>1, <1>2, <2>1 DEF CalmInv, Calm, Covered
  <2>2. CASE wire' = <<>>
    BY <1>1, <1>2, <2>2 DEF CalmInv, Calm, Covered
  <2> QED
    BY <1>2, <2>1, <2>2
<1> QED
  BY <1>1, <1>2, <1>3, <1>5, <1>6 DEF InputInv, Input!CaptureTakesControl

\* The host applies a message.
LEMMA DeliverStep ==
  ASSUME InputInv, UNCHANGED <<keys, events>>, Input!Deliver
  PROVE  InputInv'
<1>1. /\ Input!TypeOK /\ (Calm => CalmInv) /\ Input!CaptureTakesControl
      /\ wire \in Seq(Input!Messages)
      /\ hostKeys \subseteq Keys /\ hostButtons \subseteq Buttons
      /\ ~Input!captured => pressedKeys = {}
  BY DEF InputInv, Input!TypeOK
<1>2. /\ nut /\ wire # <<>> /\ wire' = Tail(wire) /\ Input!applyHostControl(wire[1])
      /\ UNCHANGED <<held, focused, app, rendered, lock, pressedKeys, pressedButtons, open,
                     nut, loose>>
  BY DEF Input!Deliver, Input!viewerVars
<1>3. /\ wire[1] \in Input!Messages /\ wire' \in Seq(Input!Messages)
  BY <1>1, <1>2
<1>4. \/ wire[1].type \in {"keyDown", "keyUp"} /\ wire[1].of \in Keys
      \/ wire[1].type \in {"mouseDown", "mouseUp"} /\ wire[1].of \in Buttons
  BY <1>3 DEF Input!Messages
<1>5. /\ hostKeys' \subseteq Keys /\ hostButtons' \subseteq Buttons
      /\ \A x \in hostKeys' :
            \/ x \in hostKeys /\ ~(wire[1].type = "keyUp" /\ wire[1].of = x)
            \/ wire[1].type = "keyDown" /\ wire[1].of = x
      /\ \A x \in hostButtons' :
            \/ x \in hostButtons /\ ~(wire[1].type = "mouseUp" /\ wire[1].of = x)
            \/ wire[1].type = "mouseDown" /\ wire[1].of = x
  BY <1>1, <1>2, <1>4 DEF Input!applyHostControl, Input!applyKeyboardEvent,
     Input!applyPointerEvent
<1>6. Input!captured' <=> Input!captured
  BY <1>2 DEF Input!captured
<1>7. Input!TypeOK'
  BY <1>1, <1>2, <1>3, <1>5 DEF Input!TypeOK
<1>8. ASSUME Calm PROVE CalmInv'
  <2>1. Covered(wire', hostKeys', loose \cup Names(pressedKeys), "keyDown", "keyUp")
    BY <1>1, <1>2, <1>5, <1>8, CoveredByRest DEF CalmInv
  <2>2. Covered(wire', hostButtons', pressedButtons, "mouseDown", "mouseUp")
    BY <1>1, <1>2, <1>5, <1>8, CoveredByRest DEF CalmInv
  <2> QED
    BY <1>1, <1>2, <1>8, <2>1, <2>2 DEF CalmInv
<1> QED
  BY <1>1, <1>2, <1>6, <1>7, <1>8 DEF InputInv, Input!CaptureTakesControl, Calm

LEMMA InputStep ==
  ASSUME InputInv, Input!Next \/ UNCHANGED inputVars PROVE InputInv'
<1>1. CASE UNCHANGED inputVars
  BY <1>1 DEF inputVars, InputInv, Input!TypeOK, Input!CaptureTakesControl, Input!captured,
     Calm, CalmInv
<1>2. CASE Input!Next
  <2>1. UNCHANGED <<keys, events>> /\ Input!Step /\ keys \subseteq Keys
    BY <1>2 DEF Input!Next, InputInv, Input!TypeOK
  <2>2. CASE \E key \in keys : Input!PressKey(key) \/ Input!ReleaseKey(key)
    BY <2>1, <2>2, PressKeyStep, ReleaseKeyStep
  <2>3. CASE \E button \in Buttons : Input!PressButton(button) \/ Input!ReleaseButton(button)
    BY <2>1, <2>3, PressButtonStep, ReleaseButtonStep
  <2> QED
    BY <2>1, <2>2, <2>3, RenderStep, ChannelStep, LibraryStep, DeliverStep DEF Input!Step
<1> QED
  BY <1>1, <1>2

LEMMA InputHolds == InputInv => InputLetGo
<1> SUFFICES ASSUME InputInv PROVE InputLetGo
  OBVIOUS
<1>1. ASSUME Calm, wire = <<>>
      PROVE  /\ hostKeys \subseteq loose \cup Names(pressedKeys)
             /\ hostButtons \subseteq pressedButtons
  BY <1>1 DEF InputInv, CalmInv, Covered, LetGo
<1>2. ~Input!captured => Names(pressedKeys) = {}
  BY DEF InputInv, Names
<1> QED
  BY <1>1, <1>2 DEF InputLetGo, InputInv, Calm, Input!KeysLetGo, Input!ButtonsLetGo

\* For every set of keys and buttons: as long as no connection is lost and none is closed
\* by the shortcut, a key that a capture pressed on the host, and a button, is let go
\* there, in whatever order keys, renders, the end of the pointer lock and the loading
\* of the host's library come (RemoteVideo.tsx releasePressedInputs).
THEOREM InputOfViewerLetGo == ViewerSpec => []InputLetGo
<1>1. ViewerInit => InputInv
  BY InputInit DEF ViewerInit
<1>2. InputInv /\ [ViewerNext]_viewerVars => InputInv'
  BY PartSteps, InputStep
<1>3. InputInv => InputLetGo
  BY InputHolds
<1> QED
  BY <1>1, <1>2, <1>3, PTL DEF ViewerSpec

-------------------------------------------------------------------------------
(* The list of recent servers                                                *)

\* A set of numbers that is not empty has a least one.
LEMMA Least ==
  ASSUME NEW S \in SUBSET Nat, S # {}
  PROVE  \E x \in S : \A y \in S : x <= y
<1>1. PICK R : R = {ss \in Nat \X Nat : ss[1] < ss[2]}
  OBVIOUS
<1>2. IsWellFoundedOn(R, Nat)
  BY <1>1, NatLessThanWellFounded DEF OpToRel
<1>3. PICK x \in S : \A y \in S : ~(<<y, x>> \in R)
  BY ONLY <1>2, WFMin, S \in SUBSET Nat, S # {}
<1>4. ASSUME NEW y \in S PROVE x <= y
  <2>1. x \in Nat /\ y \in Nat /\ <<y, x>> \in Nat \X Nat
    OBVIOUS
  <2>2. ~(<<y, x>>[1] < <<y, x>>[2])
    BY <1>1, <1>3, <2>1
  <2> QED
    BY <2>1, <2>2
<1> QED
  BY <1>4

\* Induction over the numbers, for a set.
LEMMA Induction ==
  ASSUME NEW S, 0 \in S, \A n \in Nat : n \in S => n + 1 \in S
  PROVE  Nat \subseteq S
<1> SUFFICES ASSUME Nat \ S # {} PROVE FALSE
  OBVIOUS
<1>1. PICK x \in Nat \ S : \A y \in Nat \ S : x <= y
  BY Least
<1>2. x # 0 /\ x - 1 \in Nat /\ x = (x - 1) + 1
  BY <1>1
<1>3. x - 1 \in S
  BY <1>1, <1>2
<1> QED
  BY <1>1, <1>2, <1>3

\* The values of f up to m are those of the filter of s without y.
Filters(f, s, y, m) ==
  f = [n \in 0..m |-> IF n = 0 THEN <<>>
                      ELSE IF s[n] # y THEN Append(f[n - 1], s[n]) ELSE f[n - 1]]

\* The filter of a list so far is defined.
LEMMA FilterIsDefined ==
  ASSUME NEW s, NEW y, NEW m \in Nat
  PROVE  \E f : Filters(f, s, y, m)
<1> DEFINE S == {k \in Nat : \E f : Filters(f, s, y, k)}
<1>1. 0 \in S
  <2>1. PICK f : f = [n \in 0..0 |-> <<>>]
    OBVIOUS
  <2>2. Filters(f, s, y, 0)
    BY <2>1 DEF Filters
  <2> QED
    BY <2>2
<1>2. ASSUME NEW k \in Nat, k \in S PROVE k + 1 \in S
  <2>1. PICK f : Filters(f, s, y, k)
    BY <1>2
  <2>2. PICK g : g = [n \in 0..(k + 1) |->
                        IF n \in 0..k THEN f[n]
                        ELSE IF s[n] # y THEN Append(f[k], s[n]) ELSE f[k]]
    OBVIOUS
  <2>3. \A n \in 0..k : g[n] = f[n]
    BY <2>2
  <2>4. \A n \in 0..(k + 1) : g[n] = IF n = 0 THEN <<>>
                        ELSE IF s[n] # y THEN Append(g[n - 1], s[n]) ELSE g[n - 1]
    <3> SUFFICES ASSUME NEW n \in 0..(k + 1)
                 PROVE  g[n] = IF n = 0 THEN <<>>
                        ELSE IF s[n] # y THEN Append(g[n - 1], s[n]) ELSE g[n - 1]
      OBVIOUS
    <3>1. CASE n \in 0..k
      <4>1. f[n] = IF n = 0 THEN <<>>
                   ELSE IF s[n] # y THEN Append(f[n - 1], s[n]) ELSE f[n - 1]
        BY <2>1, <3>1 DEF Filters
      <4>2. n # 0 => g[n - 1] = f[n - 1]
        BY <2>3, <3>1
      <4> QED
        BY <2>3, <3>1, <4>1, <4>2
    <3>2. CASE n = k + 1
      <4>1. /\ n # 0 /\ n \notin 0..k /\ n - 1 = k /\ k \in 0..k
        BY <3>2
      <4>2. g[n] = IF s[n] # y THEN Append(f[k], s[n]) ELSE f[k]
        BY <2>2, <4>1
      <4>3. g[k] = f[k]
        BY <2>3, <4>1
      <4> QED
        BY <4>1, <4>2, <4>3
    <3> QED
      BY <3>1, <3>2
  <2>5. Filters(g, s, y, k + 1)
    BY <2>2, <2>4 DEF Filters
  <2> QED
    BY <2>5
<1> HIDE DEF S
<1>3. m \in S
  BY <1>1, <1>2, Induction
<1> QED
  BY <1>3 DEF S

\* What is left of a list has each server once, when the list has, and not the one that
\* is filtered out.
LEMMA Filtered ==
  ASSUME NEW n \in Nat, NEW s \in [1..n -> Known], NEW y,
         \A i, j \in 1..n : s[i] = s[j] => i = j
  PROVE  \E k \in 0..n :
            /\ Recent!without(s, y) \in [1..k -> Known]
            /\ \A i \in 1..k : Recent!without(s, y)[i] # y
            /\ \A i, j \in 1..k :
                  Recent!without(s, y)[i] = Recent!without(s, y)[j] => i = j
<1>1. PICK f : f = CHOOSE g : Filters(g, s, y, n)
  OBVIOUS
<1>2. Recent!without(s, y) = f[n]
  <2>1. Recent!without(s, y) = (CHOOSE g : Filters(g, s, y, Len(s)))[Len(s)]
    BY DEF Recent!without, Filters
  <2>2. Len(s) = n
    OBVIOUS
  <2> QED
    BY <1>1, <2>1, <2>2
<1>3. f = [i \in 0..n |-> IF i = 0 THEN <<>>
                          ELSE IF s[i] # y THEN Append(f[i - 1], s[i]) ELSE f[i - 1]]
  <2>1. Filters(f, s, y, n)
    BY <1>1, FilterIsDefined
  <2> QED
    BY <2>1 DEF Filters
<1> DEFINE Good(m) == \E k \in 0..m :
             /\ f[m] \in [1..k -> Known]
             /\ \A i \in 1..k : f[m][i] # y /\ \E j \in 1..m : f[m][i] = s[j]
             /\ \A i, j \in 1..k : f[m][i] = f[m][j] => i = j
           S == {m \in Nat : m <= n => Good(m)}
<1>4. 0 \in S
  <2>1. f[0] = <<>> /\ <<>> \in [1..0 -> Known]
    BY <1>3
  <2>2. Good(0)
    BY <2>1
  <2> QED
    BY <2>2
<1>5. ASSUME NEW m \in Nat, m \in S PROVE m + 1 \in S
  <2> SUFFICES ASSUME m + 1 <= n PROVE Good(m + 1)
    OBVIOUS
  <2>1. /\ m + 1 \in 0..n /\ m + 1 # 0 /\ (m + 1) - 1 = m /\ m + 1 \in 1..n /\ m <= n
        /\ \A j \in 1..m : j \in 1..(m + 1) /\ j \in 1..n /\ j # m + 1
    OBVIOUS
  <2>2. f[m + 1] = IF s[m + 1] # y THEN Append(f[m], s[m + 1]) ELSE f[m]
    BY <1>3, <2>1
  <2>3. PICK k \in 0..m :
             /\ f[m] \in [1..k -> Known]
             /\ \A i \in 1..k : f[m][i] # y /\ \E j \in 1..m : f[m][i] = s[j]
             /\ \A i, j \in 1..k : f[m][i] = f[m][j] => i = j
    BY <1>5, <2>1
  <2>4. CASE s[m + 1] = y
    <3>1. f[m + 1] = f[m] /\ k \in 0..(m + 1)
      BY <2>2, <2>4
    <3> QED
      BY <2>1, <2>3, <3>1
  <2>5. CASE s[m + 1] # y
    <3>1. PICK g : g = f[m]
      OBVIOUS
    <3>2. PICK h : h = f[m + 1]
      OBVIOUS
    <3>3. /\ g \in [1..k -> Known] /\ k \in Nat /\ g \in Seq(Known) /\ Len(g) = k
          /\ s[m + 1] \in Known
      BY <2>1, <2>3, <3>1
    <3>4. h = Append(g, s[m + 1])
      BY <2>2, <2>5, <3>1, <3>2
    <3>5. /\ h \in [1..(k + 1) -> Known] /\ h[k + 1] = s[m + 1]
          /\ \A i \in 1..k : h[i] = g[i]
      <4>1. h \in Seq(Known) /\ Len(h) = k + 1
        BY <3>3, <3>4
      <4>2. h[k + 1] = s[m + 1] /\ \A i \in 1..k : h[i] = g[i]
        BY <3>3, <3>4
      <4> QED
        BY <3>3, <4>1, <4>2
    <3>6. \A i \in 1..(k + 1) : i \in 1..k \/ i = k + 1
      BY <3>3
    <3>7. \A i \in 1..k : h[i] # y /\ h[i] # s[m + 1] /\ \E j \in 1..(m + 1) : h[i] = s[j]
      <4> SUFFICES ASSUME NEW i \in 1..k
                   PROVE  h[i] # y /\ h[i] # s[m + 1] /\ \E j \in 1..(m + 1) : h[i] = s[j]
        OBVIOUS
      <4>1. PICK j \in 1..m : g[i] = s[j]
        BY <2>3, <3>1
      <4>2. s[j] # s[m + 1] /\ j \in 1..(m + 1)
        BY <2>1
      <4>3. h[i] = g[i] /\ g[i] # y
        BY <2>3, <3>1, <3>5
      <4> QED
        BY <4>1, <4>2, <4>3
    <3>8. \A i \in 1..(k + 1) : h[i] # y /\ \E j \in 1..(m + 1) : h[i] = s[j]
      BY <2>5, <3>5, <3>6, <3>7
    <3>9. \A i, j \in 1..(k + 1) : h[i] = h[j] => i = j
      BY <2>3, <3>1, <3>5, <3>6, <3>7
    <3>10. k + 1 \in 0..(m + 1)
      BY <2>3
    <3> QED
      BY <3>2, <3>5, <3>8, <3>9, <3>10
  <2> QED
    BY <2>4, <2>5
<1> HIDE DEF S
<1>6. n \in S
  BY <1>4, <1>5, Induction
<1>7. Good(n)
  BY <1>6 DEF S
<1> QED
  BY <1>2, <1>7

\* A list that has each server once, and no more than fit.
Distinct(list) ==
  \E n \in 0..RecentLimit :
    list \in [1..n -> Known] /\ \A i, j \in 1..n : list[i] = list[j] => i = j

LEMMA RecentServerAdded ==
  ASSUME NEW list, list = Unset \/ Distinct(list), NEW server \in Known
  PROVE  Distinct(Recent!addServer(list, server))
<1> DEFINE known == IF list = Unset THEN <<>> ELSE list
           others == Recent!without(known, server)
           longer == <<server>> \o others
           size == IF Len(longer) < RecentLimit THEN Len(longer) ELSE RecentLimit
           kept == SubSeq(longer, 1, size)
<1>1. RecentLimit \in Nat \ {0}
  BY ViewerAppAssumption DEF Recent!AppSettingsAssumption
<1>2. PICK n \in Nat : known \in [1..n -> Known] /\ \A i, j \in 1..n : known[i] = known[j] => i = j
  <2>1. CASE list = Unset
    <3>1. known \in [1..0 -> Known] /\ 0 \in Nat
      BY <2>1
    <3> QED
      BY <3>1
  <2>2. CASE list # Unset
    BY <2>2 DEF Distinct
  <2> QED
    BY <2>1, <2>2
<1> HIDE DEF known
<1>3. PICK k \in 0..n :
        /\ others \in [1..k -> Known]
        /\ \A i \in 1..k : others[i] # server
        /\ \A i, j \in 1..k : others[i] = others[j] => i = j
  BY <1>2, Filtered
<1>4. Recent!addServer(list, server) = kept
  BY DEF Recent!addServer, known
<1> HIDE DEF others
<1>5. /\ others \in Seq(Known) /\ Len(others) = k /\ k \in Nat /\ longer \in Seq(Known)
      /\ Len(longer) = k + 1 /\ longer[1] = server
      /\ \A i \in 1..k : longer[i + 1] = others[i]
  BY <1>3
<1> HIDE DEF longer
<1>6. /\ size \in 0..RecentLimit /\ size \in Nat /\ size <= k + 1
      /\ \A i \in 1..size : i \in 1..(k + 1)
  BY <1>1, <1>5
<1> HIDE DEF size
<1>7. /\ kept \in Seq(Known) /\ Len(kept) = size
      /\ \A i \in 1..size : kept[i] = longer[i]
  BY <1>5, <1>6
<1> HIDE DEF kept
<1>8. \A i, j \in 1..(k + 1) : longer[i] = longer[j] => i = j
  <2> SUFFICES ASSUME NEW i \in 1..(k + 1), NEW j \in 1..(k + 1), longer[i] = longer[j]
               PROVE  i = j
    OBVIOUS
  <2>1. \A m \in 1..(k + 1) : m # 1 => m - 1 \in 1..k /\ longer[m] = others[m - 1]
    <3> SUFFICES ASSUME NEW m \in 1..(k + 1), m # 1
                 PROVE  m - 1 \in 1..k /\ longer[m] = others[m - 1]
      OBVIOUS
    <3>1. m - 1 \in 1..k /\ (m - 1) + 1 = m
      BY <1>5
    <3> QED
      BY <1>5, <3>1
  <2>2. CASE i = 1 \/ j = 1
    BY <1>3, <1>5, <2>1, <2>2
  <2>3. CASE i # 1 /\ j # 1
    <3>1. i - 1 = j - 1
      BY <1>3, <2>1, <2>3
    <3> QED
      BY <3>1
  <2> QED
    BY <2>2, <2>3
<1>9. kept \in [1..size -> Known]
  BY <1>6, <1>7
<1>10. \A i, j \in 1..size : kept[i] = kept[j] => i = j
  BY <1>6, <1>7, <1>8
<1> QED
  BY <1>4, <1>6, <1>9, <1>10 DEF Distinct

-------------------------------------------------------------------------------
(* The settings file                                                         *)

FileProofs == INSTANCE SettingsFileProofs WITH
  Fields <- Recent!AppFields, Inputs <- Recent!AppInputs, Stored <- Recent!AppStored,
  NewValue <- AsSaved

LEMMA ListsAreDistinct == \A list : list \in Recent!Lists <=> Distinct(list)
<1>1. RecentLimit \in Nat
  BY ViewerAppAssumption DEF Recent!AppSettingsAssumption
<1>2. ASSUME NEW list, list \in Recent!Lists PROVE Distinct(list)
  <2>1. /\ list \in UNION {[1 .. n -> Known] : n \in 0 .. RecentLimit}
        /\ \A i, j \in DOMAIN list : list[i] = list[j] => i = j
    BY <1>2 DEF Recent!Lists, Recent!IsInjective
  <2>2. PICK n \in 0 .. RecentLimit : list \in [1 .. n -> Known]
    BY <2>1
  <2> QED
    BY <2>1, <2>2 DEF Distinct
<1>3. ASSUME NEW list, Distinct(list) PROVE list \in Recent!Lists
  <2>1. PICK n \in 0 .. RecentLimit :
          list \in [1 .. n -> Known] /\ \A i, j \in 1 .. n : list[i] = list[j] => i = j
    BY <1>3 DEF Distinct
  <2>2. \A i, j \in DOMAIN list : list[i] = list[j] => i = j
    BY <2>1
  <2>3. Recent!IsInjective(list)
    BY <2>2 DEF Recent!IsInjective
  <2>4. list \in UNION {[1 .. m -> Known] : m \in 0 .. RecentLimit}
    BY <2>1
  <2> QED
    BY <2>3, <2>4 DEF Recent!Lists
<1> QED
  BY <1>2, <1>3

\* What the fields of a viewer's settings are set to and hold.
LEMMA AppValues ==
  /\ Recent!AppInputs["recentServers"] = Known /\ Recent!AppStored["recentServers"] = Recent!Lists
  /\ Recent!AppInputs["saveDirectory"] = Folders /\ Recent!AppStored["saveDirectory"] = Folders
  /\ \A s \in Control!Switches :
        Recent!AppInputs[s] = {On, Off} /\ Recent!AppStored[s] = {On, Off}
  /\ Recent!AppFields = Control!Switches \cup {"recentServers", "saveDirectory"}
  /\ Control!Switches = {"takeControl", "captureLocalInput"}
BY DEF Recent!AppInputs, Recent!AppStored, Recent!AppFields, Control!Switches

LEMMA AppFile ==
  /\ FileProofs!SettingsFileAssumption
  /\ Control!Contents = FileProofs!Contents /\ Control!Patches = FileProofs!Patches
  /\ Initial \subseteq Control!Contents
  /\ Unset \notin {On, Off} /\ Keep \notin {On, Off} /\ Keep # Unset
  /\ Keep \notin Known \cup Folders
  /\ On # Off /\ None \notin {On, Off}
<1>1. /\ Unset \notin Known \cup Folders \cup {On, Off}
      /\ Keep \notin Known \cup Folders \cup {On, Off}
      /\ Unset \notin Recent!Lists /\ Unset # Keep
  BY ViewerAppAssumption DEF Recent!AppSettingsAssumption
<1>2. ASSUME NEW f \in Recent!AppFields
      PROVE  /\ Keep \notin Recent!AppInputs[f]
             /\ Unset \notin Recent!AppInputs[f] \cup Recent!AppStored[f]
             /\ \A v \in Recent!AppInputs[f] : \A old \in Recent!AppStored[f] \cup {Unset} :
                    AsSaved(f, v, old) \in Recent!AppStored[f]
  <2>1. CASE f = "recentServers"
    <3>1. ASSUME NEW v \in Known, NEW old \in Recent!Lists \cup {Unset}
          PROVE  AsSaved(f, v, old) \in Recent!Lists
      <4>1. AsSaved(f, v, old) = Recent!addServer(old, v)
        BY <2>1 DEF AsSaved, Recent!SavedAs
      <4>2. old = Unset \/ Distinct(old)
        BY ListsAreDistinct
      <4> QED
        BY <4>1, <4>2, RecentServerAdded, ListsAreDistinct
    <3> QED
      BY <1>1, <2>1, <3>1, AppValues
  <2>2. CASE f # "recentServers"
    <3>1. \A v, old : AsSaved(f, v, old) = v
      BY <2>2 DEF AsSaved, Recent!SavedAs
    <3>2. Recent!AppInputs[f] = Recent!AppStored[f]
          /\ Recent!AppInputs[f] \in {Folders, {On, Off}}
      BY <2>2, AppValues
    <3> QED
      BY <1>1, <3>1, <3>2
  <2> QED
    BY <2>1, <2>2
<1>3. FileProofs!SettingsFileAssumption
  BY <1>1, <1>2 DEF FileProofs!SettingsFileAssumption
<1>4. Control!Contents = FileProofs!Contents /\ Control!Patches = FileProofs!Patches
  BY DEF Control!Contents, FileProofs!Contents, Control!Patches, FileProofs!Patches,
     Control!AnyStored, FileProofs!AnyStored, Control!AnyInput, FileProofs!AnyInput
<1>5. Initial \subseteq Control!Contents /\ On # Off /\ None \notin {On, Off}
  BY ViewerAppAssumption DEF Control!ViewerControlAssumption
<1> QED
  BY <1>1, <1>3, <1>4, <1>5

\* What SettingsFileProofs proves of a settings file holds of this one.
LEMMA SameFile ==
  /\ Control!FileInv <=> FileProofs!FileInv
  /\ Control!FileInv' <=> FileProofs!FileInv'
<1> USE DEF Control!FileInv, FileProofs!FileInv, Control!FileTypeOK, FileProofs!FileTypeOK,
      Control!Contents, FileProofs!Contents, Control!Patches, FileProofs!Patches,
      Control!AnyStored, FileProofs!AnyStored, Control!AnyInput, FileProofs!AnyInput,
      Control!Open, FileProofs!Open, Control!UpdatesSurvive, FileProofs!UpdatesSurvive,
      Control!readSettings, FileProofs!readSettings, Control!Nothing, FileProofs!Nothing
<1>1. Control!FileInv <=> FileProofs!FileInv
  OBVIOUS
<1>2. Control!FileInv' <=> FileProofs!FileInv'
  OBVIOUS
<1> QED
  BY <1>1, <1>2

LEMMA FileSteps ==
  ASSUME Control!FileInv
  PROVE  /\ \A started : (\A c \in DOMAIN started : started[c] \in Control!Patches)
                /\ Control!Begin(started) => Control!FileInv'
         /\ \A c \in Calls : Control!ReadFile(c) \/ Control!OpenFile(c)
                              \/ Control!WriteFile(c) \/ Control!UpdateFails(c)
                                  => Control!FileInv'
         /\ Control!AppRestarts => Control!FileInv'
         /\ UNCHANGED Control!fileVars => Control!FileInv'
<1> USE DEF Control!Idle, FileProofs!Idle, Control!NoUpdate, FileProofs!NoUpdate,
      Control!NoChange, FileProofs!NoChange, Control!Nothing, FileProofs!Nothing,
      Control!Open, FileProofs!Open, Control!readSettings, FileProofs!readSettings,
      Control!GivenUp, FileProofs!GivenUp
<1>1. FileProofs!FileInv
  BY SameFile
<1>2. ASSUME NEW started, \A c \in DOMAIN started : started[c] \in Control!Patches,
             Control!Begin(started)
      PROVE  Control!FileInv'
  <2>1. FileProofs!Begin(started)
    BY <1>2 DEF Control!Begin, FileProofs!Begin
  <2>2. \A d \in DOMAIN started : started[d] \in FileProofs!Patches
    BY <1>2, AppFile
  <2>3. FileProofs!FileInv'
    BY <1>1, <2>1, <2>2, FileProofs!BeginStep
  <2> QED
    BY <2>3, SameFile
<1>3. ASSUME NEW c \in Calls,
             Control!ReadFile(c) \/ Control!OpenFile(c) \/ Control!WriteFile(c)
              \/ Control!UpdateFails(c)
      PROVE  Control!FileInv'
  <2>1. CASE Control!ReadFile(c)
    <3>1. FileProofs!ReadFile(c)
      BY <2>1 DEF Control!ReadFile, FileProofs!ReadFile
    <3> QED
      BY <1>1, <3>1, FileProofs!ReadStep, SameFile
  <2>2. CASE Control!OpenFile(c)
    <3>1. FileProofs!OpenFile(c)
      BY <2>2 DEF Control!OpenFile, FileProofs!OpenFile
    <3> QED
      BY <1>1, <3>1, FileProofs!OpenStep, SameFile
  <2>3. CASE Control!WriteFile(c)
    <3>1. FileProofs!WriteFile(c)
      BY <2>3 DEF Control!WriteFile, FileProofs!WriteFile, Control!Reported,
         FileProofs!Reported, Control!Changed, FileProofs!Changed,
         Control!Patched, FileProofs!Patched
    <3> QED
      BY <1>1, <3>1, AppFile, FileProofs!WriteStep, SameFile
  <2>4. CASE Control!UpdateFails(c)
    <3>1. FileProofs!UpdateFails(c)
      BY <2>4 DEF Control!UpdateFails, FileProofs!UpdateFails
    <3> QED
      BY <1>1, <3>1, FileProofs!FailStep, SameFile
  <2> QED
    BY <1>3, <2>1, <2>2, <2>3, <2>4
<1>4. ASSUME Control!AppRestarts
      PROVE  Control!FileInv'
  <2>1. FileProofs!AppRestarts
    BY <1>4 DEF Control!AppRestarts, FileProofs!AppRestarts
  <2> QED
    BY <1>1, <2>1, FileProofs!RestartStep, SameFile
<1>5. ASSUME UNCHANGED Control!fileVars
      PROVE  Control!FileInv'
  <2>1. UNCHANGED FileProofs!fileVars
    BY <1>5 DEF Control!fileVars, FileProofs!fileVars
  <2> QED
    BY <1>1, <2>1, FileProofs!NothingStep, SameFile
<1> QED
  BY <1>2, <1>3, <1>4, <1>5

LEMMA ReadableSettings == Control!FileTypeOK => Control!readSettings \in Control!Contents
<1>1. Control!FileTypeOK <=> FileProofs!FileTypeOK
  BY DEF Control!FileTypeOK, FileProofs!FileTypeOK, Control!Contents, FileProofs!Contents,
     Control!Patches, FileProofs!Patches, Control!AnyStored, FileProofs!AnyStored,
     Control!AnyInput, FileProofs!AnyInput
<1>2. Control!readSettings = FileProofs!readSettings
  BY DEF Control!readSettings, FileProofs!readSettings, Control!Nothing, FileProofs!Nothing
<1> QED
  BY <1>1, <1>2, FileProofs!Readable, AppFile

-------------------------------------------------------------------------------
(* What the user chose                                                       *)

LEMMA ViewerSettingsFacts ==
  /\ Control!DefaultSettings \in [Control!Switches -> {On, Off}]
  /\ \A content : \A s \in Control!Switches :
        Control!ViewerSettings(content)[s] =
          IF content[s] = Unset THEN Control!DefaultSettings[s] ELSE content[s]
  /\ \A content \in Control!Contents :
        /\ Control!ViewerSettings(content) \in [Control!Switches -> {On, Off}]
        /\ \A s \in Control!Switches : content[s] \in {On, Off, Unset}
<1>1. Control!DefaultSettings \in [Control!Switches -> {On, Off}]
  BY DEF Control!DefaultSettings
<1>2. \A content : Control!ViewerSettings(content) = [s \in Control!Switches |->
          IF content[s] = Unset THEN Control!DefaultSettings[s] ELSE content[s]]
  BY DEF Control!ViewerSettings
<1>3. ASSUME NEW content \in Control!Contents, NEW s \in Control!Switches
      PROVE  content[s] \in {On, Off, Unset}
  BY AppValues DEF Control!Contents
<1>4. ASSUME NEW content \in Control!Contents
      PROVE  Control!ViewerSettings(content) \in [Control!Switches -> {On, Off}]
  BY <1>1, <1>2, <1>3
<1> QED
  BY <1>1, <1>2, <1>3, <1>4

\* Whatever switches a call sets, it is a patch, and leaves the other fields alone.
LEMMA PatchFacts ==
  /\ \A f \in Recent!AppFields : \A v \in Recent!AppInputs[f] \cup {Unset, Keep} :
        /\ Control!ChangeOf(f, v) \in Control!Patches
        /\ Control!ChangeOf(f, v)[f] = v
        /\ \A g \in Recent!AppFields : g # f => Control!ChangeOf(f, v)[g] = Keep
  /\ \A v \in {On, Off} :
        /\ Control!CapturePatch(v) \in Control!Patches
        /\ \A g \in Recent!AppFields : Control!CapturePatch(v)[g] =
              IF g \in DOMAIN Control!CaptureChange(v) THEN v ELSE Keep
        /\ DOMAIN Control!CaptureChange(v) =
              IF v = On THEN Control!Switches ELSE {"captureLocalInput"}
        /\ \A s \in DOMAIN Control!CaptureChange(v) : Control!CaptureChange(v)[s] = v
<1>1. \A f \in Recent!AppFields : Recent!AppInputs[f] \subseteq Control!AnyInput
  <2> SUFFICES ASSUME NEW f \in Recent!AppFields
               PROVE  Recent!AppInputs[f] \subseteq Control!AnyInput
    OBVIOUS
  <2>1. Recent!AppInputs[f] \in {Recent!AppInputs[g] : g \in Recent!AppFields}
    OBVIOUS
  <2> QED
    BY <2>1 DEF Control!AnyInput
<1>2. Unset \in Control!AnyInput /\ Keep \in Control!AnyInput
  BY DEF Control!AnyInput
<1>3. ASSUME NEW f \in Recent!AppFields, NEW v \in Recent!AppInputs[f] \cup {Unset, Keep}
      PROVE  /\ Control!ChangeOf(f, v) \in Control!Patches
             /\ Control!ChangeOf(f, v)[f] = v
             /\ \A g \in Recent!AppFields : g # f => Control!ChangeOf(f, v)[g] = Keep
  <2> DEFINE p == Control!ChangeOf(f, v)
  <2>1. p = [[g \in Recent!AppFields |-> Keep] EXCEPT ![f] = v]
    BY DEF Control!ChangeOf, Control!NoChange
  <2> HIDE DEF p
  <2>2. p[f] = v /\ \A g \in Recent!AppFields : g # f => p[g] = Keep
    BY <2>1
  <2>3. \A g \in Recent!AppFields :
            p[g] \in Recent!AppInputs[g] \cup {Unset, Keep} /\ p[g] \in Control!AnyInput
    BY <1>1, <1>2, <2>2
  <2>4. p \in [Recent!AppFields -> Control!AnyInput]
    BY <2>1, <2>3
  <2> QED
    BY <2>2, <2>3, <2>4 DEF Control!Patches, p
<1>4. ASSUME NEW v \in {On, Off}
      PROVE  /\ Control!CapturePatch(v) \in Control!Patches
             /\ \A g \in Recent!AppFields : Control!CapturePatch(v)[g] =
                   IF g \in DOMAIN Control!CaptureChange(v) THEN v ELSE Keep
             /\ DOMAIN Control!CaptureChange(v) =
                   IF v = On THEN Control!Switches ELSE {"captureLocalInput"}
             /\ \A s \in DOMAIN Control!CaptureChange(v) : Control!CaptureChange(v)[s] = v
  <2> DEFINE change == Control!CaptureChange(v)
             p == Control!CapturePatch(v)
  <2>1. /\ DOMAIN change = IF v = On THEN Control!Switches ELSE {"captureLocalInput"}
        /\ \A s \in DOMAIN change : change[s] = v
    BY DEF Control!CaptureChange
  <2> HIDE DEF change
  <2>2. p = [g \in Recent!AppFields |-> IF g \in DOMAIN change THEN change[g] ELSE Keep]
    BY DEF Control!CapturePatch, Control!Patch, change
  <2> HIDE DEF p
  <2>3. \A g \in Recent!AppFields : p[g] = IF g \in DOMAIN change THEN v ELSE Keep
    BY <2>1, <2>2
  <2>4. \A g \in Recent!AppFields : g \in DOMAIN change => Recent!AppInputs[g] = {On, Off}
    BY <2>1, AppValues
  <2>5. \A g \in Recent!AppFields :
            p[g] \in Recent!AppInputs[g] \cup {Unset, Keep} /\ p[g] \in Control!AnyInput
    BY <1>1, <1>2, <2>3, <2>4
  <2>6. p \in [Recent!AppFields -> Control!AnyInput]
    BY <2>2, <2>5
  <2> QED
    BY <2>1, <2>3, <2>5, <2>6 DEF Control!Patches, p, change
<1> QED
  BY <1>3, <1>4

ControlTypes ==
  /\ choice \in [Control!Switches -> {On, Off}] /\ controlEnabled \in {On, Off}
  /\ load \in [phase : {"called", "read", "done"}, value : [Control!Switches -> {On, Off}]]
  /\ connected \in BOOLEAN /\ after \in [Calls -> {On, Off, None}]
  /\ unsure \in SUBSET Control!Switches /\ crossed \in BOOLEAN

LEMMA TypeSplits ==
  /\ Control!TypeOK <=> Control!FileTypeOK /\ ControlTypes
  /\ Control!TypeOK' <=> Control!FileTypeOK' /\ ControlTypes'
BY DEF Control!TypeOK, ControlTypes, Control!FileTypeOK, Control!Contents, Control!Patches,
   Control!AnyStored, Control!AnyInput

\* The parts of the invariant.
LEMMA ControlSplits ==
  /\ Control!ControlInv <=> /\ Control!FileInv /\ ControlTypes /\ Control!ChoiceKnown
                            /\ Control!GoesOnAsChosen /\ Control!CaptureIsSent
  /\ Control!ControlInv' <=> /\ Control!FileInv' /\ ControlTypes' /\ Control!ChoiceKnown'
                             /\ Control!GoesOnAsChosen' /\ Control!CaptureIsSent'
<1>1. (Control!FileInv => Control!FileTypeOK) /\ (Control!FileInv' => Control!FileTypeOK')
  BY DEF Control!FileInv
<1>2. Control!ControlInv <=> /\ Control!TypeOK /\ Control!FileInv /\ Control!ChoiceKnown
                             /\ Control!GoesOnAsChosen /\ Control!CaptureIsSent
  BY DEF Control!ControlInv
<1>3. Control!ControlInv' <=> /\ Control!TypeOK' /\ Control!FileInv' /\ Control!ChoiceKnown'
                              /\ Control!GoesOnAsChosen' /\ Control!CaptureIsSent'
  BY DEF Control!ControlInv
<1> QED
  BY <1>1, <1>2, <1>3, TypeSplits

\* Which calls save a switch, and what is reported as saved, when calls move.
LEMMA BeginMoves ==
  ASSUME Control!FileTypeOK, NEW started, DOMAIN started \subseteq Calls,
         \A c \in DOMAIN started : started[c] \in Control!Patches, Control!Begin(started)
  PROVE  /\ UNCHANGED <<wanted, atRisk>>
         /\ \A c \in Calls : op'[c].patch =
                IF c \in DOMAIN started THEN started[c] ELSE op[c].patch
         /\ \A s : Control!Saving(s)' =
                Control!Saving(s) \cup {c \in DOMAIN started : started[c][s] # Keep}
<1>1. /\ UNCHANGED <<wanted, atRisk>>
      /\ \A c \in DOMAIN started : op[c].phase = "idle"
      /\ op' = [c \in Calls |-> IF c \in DOMAIN started
                                THEN [Control!NoUpdate EXCEPT !.phase = "begun",
                                                              !.patch = started[c]]
                                ELSE op[c]]
  BY DEF Control!Begin, Control!Idle
<1>2. \A c \in DOMAIN started : op'[c].phase = "begun" /\ op'[c].patch = started[c]
  BY <1>1 DEF Control!NoUpdate
<1>3. \A c \in Calls : c \notin DOMAIN started => op'[c] = op[c]
  BY <1>1
<1>4. \A s : Control!Saving(s)' = {c \in Calls : op'[c].phase # "idle" /\ op'[c].patch[s] # Keep}
             /\ Control!Saving(s) = {c \in Calls : op[c].phase # "idle" /\ op[c].patch[s] # Keep}
  BY DEF Control!Saving, Control!Idle
<1>5. \A s : Control!Saving(s)' =
                Control!Saving(s) \cup {c \in DOMAIN started : started[c][s] # Keep}
  <2> TAKE s
  <2>1. \A c : c \in Control!Saving(s)' <=>
            c \in Control!Saving(s) \cup {d \in DOMAIN started : started[d][s] # Keep}
    BY <1>1, <1>2, <1>3, <1>4
  <2> QED
    BY <2>1
<1> QED
  BY <1>1, <1>2, <1>3, <1>5

LEMMA CallMoves ==
  ASSUME Control!FileTypeOK, NEW c \in Calls
  PROVE  /\ Control!ReadFile(c) \/ Control!OpenFile(c) =>
              /\ wanted' = wanted /\ atRisk \subseteq atRisk'
              /\ \A d \in Calls : op'[d].patch = op[d].patch
              /\ \A s : Control!Saving(s)' = Control!Saving(s)
         /\ Control!WriteFile(c) \/ Control!UpdateFails(c) =>
              /\ \A d \in Calls : d # c => op'[d].patch = op[d].patch
              /\ \A s : Control!Saving(s)' = Control!Saving(s) \ {c}
         /\ Control!UpdateFails(c) => wanted' = wanted /\ atRisk \subseteq atRisk'
         /\ Control!WriteFile(c) => \A s \in Control!Switches :
              IF op[c].patch[s] = Keep
              THEN wanted'[s] = wanted[s] /\ (s \in atRisk => s \in atRisk')
              ELSE op[c].patch[s] \in {On, Off} => wanted'[s] = op[c].patch[s]
         /\ Control!WriteFile(c) => c \in Control!Open
<1>1. /\ op \in [Calls -> [phase : {"idle", "begun", "read", "open"},
                          patch : Control!Patches, read : Control!Contents, stale : BOOLEAN]]
      /\ wanted \in Control!Contents /\ atRisk \subseteq Recent!AppFields
  BY DEF Control!FileTypeOK
<1>2. \A s : Control!Saving(s)' = {d \in Calls : op'[d].phase # "idle" /\ op'[d].patch[s] # Keep}
             /\ Control!Saving(s) = {d \in Calls : op[d].phase # "idle" /\ op[d].patch[s] # Keep}
  BY DEF Control!Saving, Control!Idle
<1>3. ASSUME Control!ReadFile(c) \/ Control!OpenFile(c)
      PROVE  /\ wanted' = wanted /\ atRisk \subseteq atRisk'
             /\ \A d \in Calls : op'[d].patch = op[d].patch
             /\ \A s : Control!Saving(s)' = Control!Saving(s)
  <2>1. \A d \in Calls : op'[d].patch = op[d].patch /\ (op'[d].phase = "idle" <=> op[d].phase = "idle")
    <3>1. CASE Control!ReadFile(c)
      BY <1>1, <3>1 DEF Control!ReadFile
    <3>2. CASE Control!OpenFile(c)
      BY <1>1, <3>2 DEF Control!OpenFile
    <3> QED
      BY <1>3, <3>1, <3>2
  <2>2. wanted' = wanted /\ atRisk \subseteq atRisk'
    BY <1>1, <1>3 DEF Control!ReadFile, Control!OpenFile
  <2>3. \A s : Control!Saving(s)' = Control!Saving(s)
    BY <1>2, <2>1
  <2> QED
    BY <2>1, <2>2, <2>3
<1>4. ASSUME Control!WriteFile(c) \/ Control!UpdateFails(c)
      PROVE  /\ \A d \in Calls : d # c => op'[d].patch = op[d].patch
             /\ \A s : Control!Saving(s)' = Control!Saving(s) \ {c}
  <2>1. op' = [op EXCEPT ![c] = Control!NoUpdate]
    BY <1>4 DEF Control!WriteFile, Control!Reported, Control!UpdateFails
  <2>2. op'[c].phase = "idle" /\ \A d \in Calls : d # c => op'[d] = op[d]
    BY <1>1, <2>1 DEF Control!NoUpdate
  <2>3. \A s : Control!Saving(s)' = Control!Saving(s) \ {c}
    <3> TAKE s
    <3>1. \A d : d \in Control!Saving(s)' <=> d \in Control!Saving(s) \ {c}
      BY <1>2, <2>2
    <3> QED
      BY <3>1
  <2> QED
    BY <2>2, <2>3
<1>5. Control!UpdateFails(c) => wanted' = wanted /\ atRisk \subseteq atRisk'
  BY <1>1 DEF Control!UpdateFails, Control!GivenUp
<1>6. ASSUME Control!WriteFile(c), NEW s \in Control!Switches
      PROVE  IF op[c].patch[s] = Keep
             THEN wanted'[s] = wanted[s] /\ (s \in atRisk => s \in atRisk')
             ELSE op[c].patch[s] \in {On, Off} => wanted'[s] = op[c].patch[s]
  <2> DEFINE patch == op[c].patch
             next == Control!Changed(op[c].read, patch)
  <2>1. /\ wanted' = [f \in Recent!AppFields |-> IF patch[f] = Keep THEN wanted[f] ELSE next[f]]
        /\ atRisk' = IF op[c].stale THEN atRisk ELSE atRisk \ Control!Patched(patch)
        /\ next = [f \in Recent!AppFields |->
                      IF patch[f] = Keep THEN op[c].read[f]
                      ELSE IF patch[f] = Unset THEN Unset
                      ELSE AsSaved(f, patch[f], op[c].read[f])]
    BY <1>6 DEF Control!WriteFile, Control!Reported, Control!Changed
  <2>2. s \in Recent!AppFields /\ s # "recentServers"
    BY AppValues
  <2>3. patch[s] = Keep => s \notin Control!Patched(patch)
    BY DEF Control!Patched
  <2>4. patch[s] \in {On, Off} => next[s] = patch[s] /\ patch[s] # Keep
    BY <2>1, <2>2, AppFile DEF AsSaved, Recent!SavedAs
  <2> HIDE DEF next, patch
  <2>5. CASE patch[s] = Keep
    BY <2>1, <2>2, <2>3, <2>5 DEF patch
  <2>6. CASE patch[s] # Keep
    BY <2>1, <2>2, <2>4, <2>6 DEF patch
  <2> QED
    BY <2>5, <2>6
<1>7. Control!WriteFile(c) => c \in Control!Open
  BY DEF Control!WriteFile, Control!Open
<1> QED
  BY <1>3, <1>4, <1>5, <1>6, <1>7

\* What was chosen for a switch, and how it is known.
Saved(s) == s \notin atRisk => Control!ViewerSettings(wanted)[s] = choice[s]
Read(s) == s \notin atRisk => load.value[s] = Control!ViewerSettings(wanted)[s]
KnownOf(s) ==
  IF load.phase = "done"
  THEN /\ \A c \in Control!Saving(s) :
            Control!Saving(s) = {c} /\ op[c].patch[s] = choice[s]
       /\ Control!Saving(s) = {} => Saved(s)
  ELSE Control!Saving(s) = {} /\ (load.phase = "read" => Read(s))

LEMMA KnownSplits ==
  /\ Control!ChoiceKnown <=> \A s \in Control!Switches \ unsure : KnownOf(s)
  /\ Control!ChoiceKnown' <=> \A s \in Control!Switches \ unsure' : KnownOf(s)'
BY DEF Control!ChoiceKnown, KnownOf, Saved, Read

\* The calls that are started save each switch of a change, one call each, and no other.
Carries(started, change) ==
  /\ DOMAIN started \subseteq Calls
  /\ \A c \in DOMAIN started : started[c] \in Control!Patches
  /\ DOMAIN change \subseteq Control!Switches
  /\ \A s \in DOMAIN change : change[s] \in {On, Off} /\ \E c \in DOMAIN started :
        /\ started[c][s] = change[s]
        /\ \A d \in DOMAIN started : d # c => started[d][s] = Keep
  /\ \A s \in Control!Switches \ DOMAIN change : \A c \in DOMAIN started :
        started[c][s] = Keep

LEMMA ChangesKnown ==
  ASSUME Control!ControlInv, NEW started, NEW change, Carries(started, change),
         Control!Begin(started), Control!Changes(change), UNCHANGED load
  PROVE  Control!ChoiceKnown'
<1>1. /\ Control!FileTypeOK /\ Control!ChoiceKnown
      /\ choice' = [s \in Control!Switches |->
                      IF s \in DOMAIN change THEN change[s] ELSE choice[s]]
      /\ unsure' = (unsure \ DOMAIN change) \cup
            {s \in DOMAIN change : Control!Saving(s) # {} \/ load.phase # "done"}
  BY ControlSplits DEF Control!FileInv, Control!Changes
<1> USE DEF Carries
<1>2. /\ UNCHANGED <<wanted, atRisk>>
      /\ \A c \in Calls : op'[c].patch =
                IF c \in DOMAIN started THEN started[c] ELSE op[c].patch
      /\ \A s : Control!Saving(s)' =
                Control!Saving(s) \cup {c \in DOMAIN started : started[c][s] # Keep}
  BY <1>1, BeginMoves
<1>3. ASSUME NEW s \in Control!Switches \ unsure' PROVE KnownOf(s)'
  <2>1. CASE s \in DOMAIN change
    <3>1. Control!Saving(s) = {} /\ load.phase = "done"
      BY <1>1, <1>3, <2>1
    <3>2. PICK c \in DOMAIN started :
            /\ started[c][s] = change[s] /\ change[s] # Keep
            /\ \A d \in DOMAIN started : d # c => started[d][s] = Keep
      BY <2>1, AppFile
    <3>3. Control!Saving(s)' = {c}
      BY <1>2, <3>1, <3>2
    <3>4. op'[c].patch[s] = choice'[s]
      BY <1>1, <1>2, <2>1, <3>2
    <3> QED
      BY <3>1, <3>3, <3>4 DEF KnownOf
  <2>2. CASE s \notin DOMAIN change
    <3>1. s \notin unsure /\ KnownOf(s)
      BY <1>1, <1>3, <2>2, KnownSplits
    <3>2. \A c \in DOMAIN started : started[c][s] = Keep
      BY <1>3, <2>2
    <3>3. Control!Saving(s)' = Control!Saving(s)
      BY <1>2, <3>2
    <3>4. choice'[s] = choice[s]
      BY <1>1, <1>3, <2>2
    <3>5. Control!Saving(s) \subseteq Calls
      BY DEF Control!Saving
    <3>6. \A c \in Control!Saving(s) : op[c].patch[s] # Keep
      BY DEF Control!Saving
    <3>7. \A c \in Control!Saving(s) : op'[c].patch[s] = op[c].patch[s]
      <4> TAKE c \in Control!Saving(s)
      <4>1. c \notin DOMAIN started
        BY DEF Control!Begin, Control!Saving
      <4> QED
        BY <1>2, <3>5, <4>1
    <3>8. Saved(s)' <=> Saved(s)
      BY <1>2, <3>4 DEF Saved, Control!ViewerSettings
    <3>9. Read(s)' <=> Read(s)
      BY <1>2 DEF Read, Control!ViewerSettings
    <3> QED
      BY <3>1, <3>3, <3>4, <3>7, <3>8, <3>9 DEF KnownOf
  <2> QED
    BY <2>1, <2>2
<1> QED
  BY <1>3, KnownSplits

\* What else the app does leaves what was chosen as it was, or its call has saved it.
LEMMA OthersKnown ==
  ASSUME Control!ControlInv, UNCHANGED <<choice, load>>,
         NEW c \in Calls, unsure \subseteq unsure',
         \/ /\ \E started : /\ DOMAIN started \subseteq Calls
                            /\ \A d \in DOMAIN started : started[d] \in Control!Patches
                            /\ \A d \in DOMAIN started : \A s \in Control!Switches :
                                  started[d][s] = Keep
                            /\ Control!Begin(started)
         \/ Control!ReadFile(c) \/ Control!OpenFile(c) \/ Control!WriteFile(c)
         \/ /\ Control!UpdateFails(c)
            /\ \A s \in Control!Switches \ unsure' : op[c].patch[s] = Keep
  PROVE  Control!ChoiceKnown'
<1>1. Control!FileTypeOK /\ Control!ChoiceKnown /\ ControlTypes
  BY ControlSplits DEF Control!FileInv
<1>2. ASSUME NEW s \in Control!Switches \ unsure' PROVE KnownOf(s)'
  <2>1. KnownOf(s)
    BY <1>1, <1>2, KnownSplits
  <2>2. /\ choice[s] \in {On, Off} /\ Control!Saving(s) \subseteq Calls
        /\ \A d \in Control!Saving(s) : op[d].patch[s] # Keep /\ op[d].phase # "idle"
    BY <1>1, <1>2 DEF ControlTypes, Control!Saving, Control!Idle
  <2>3. ASSUME \A d \in Control!Saving(s) : op'[d].patch[s] = op[d].patch[s],
               Control!Saving(s)' = Control!Saving(s),
               wanted'[s] = wanted[s], s \in atRisk => s \in atRisk'
        PROVE  KnownOf(s)'
    <3>1. Saved(s) => Saved(s)'
      BY <1>2, <2>3, ViewerSettingsFacts DEF Saved, Control!ViewerSettings
    <3>2. Read(s) => Read(s)'
      BY <1>2, <2>3, ViewerSettingsFacts DEF Read, Control!ViewerSettings
    <3> QED
      BY <2>1, <2>3, <3>1, <3>2 DEF KnownOf
  <2>4. ASSUME NEW started, DOMAIN started \subseteq Calls,
               \A d \in DOMAIN started : started[d] \in Control!Patches,
               \A d \in DOMAIN started : \A t \in Control!Switches : started[d][t] = Keep,
               Control!Begin(started)
        PROVE  KnownOf(s)'
    <3>1. /\ UNCHANGED <<wanted, atRisk>>
          /\ \A d \in Calls : op'[d].patch =
                IF d \in DOMAIN started THEN started[d] ELSE op[d].patch
          /\ Control!Saving(s)' =
                Control!Saving(s) \cup {d \in DOMAIN started : started[d][s] # Keep}
      BY <1>1, <2>4, BeginMoves
    <3>2. Control!Saving(s)' = Control!Saving(s)
      BY <1>2, <2>4, <3>1
    <3>3. \A d \in Control!Saving(s) : d \notin DOMAIN started
      BY <2>2, <2>4 DEF Control!Begin, Control!Idle
    <3> QED
      BY <2>2, <2>3, <3>1, <3>2, <3>3
  <2>5. CASE Control!ReadFile(c) \/ Control!OpenFile(c)
    BY <1>1, <2>2, <2>3, <2>5, CallMoves
  <2>6. CASE Control!WriteFile(c) \/ Control!UpdateFails(c)
    <3>1. /\ \A d \in Calls : d # c => op'[d].patch = op[d].patch
          /\ Control!Saving(s)' = Control!Saving(s) \ {c}
          /\ IF op[c].patch[s] = Keep
             THEN Control!WriteFile(c) => wanted'[s] = wanted[s] /\ (s \in atRisk => s \in atRisk')
             ELSE Control!WriteFile(c) /\ op[c].patch[s] \in {On, Off} =>
                    wanted'[s] = op[c].patch[s]
          /\ Control!UpdateFails(c) => wanted' = wanted /\ atRisk \subseteq atRisk'
      BY <1>1, <1>2, <2>6, CallMoves
    <3>2. CASE op[c].patch[s] = Keep
      <4>1. c \notin Control!Saving(s)
        BY <2>2, <3>2
      <4> QED
        BY <2>2, <2>3, <2>6, <3>1, <3>2, <4>1
    <3>3. CASE op[c].patch[s] # Keep /\ c \in Control!Saving(s) /\ Control!WriteFile(c)
      <4>1. /\ load.phase = "done" /\ Control!Saving(s) = {c} /\ op[c].patch[s] = choice[s]
        BY <2>1, <3>3 DEF KnownOf
      <4>2. Control!Saving(s)' = {} /\ wanted'[s] = choice[s] /\ choice[s] # Unset
        BY <2>2, <3>1, <3>3, <4>1, AppFile
      <4>3. Saved(s)'
        BY <1>2, <4>2 DEF Saved, Control!ViewerSettings
      <4> QED
        BY <4>1, <4>2, <4>3 DEF KnownOf
    <3>4. CASE op[c].patch[s] # Keep /\ ~Control!WriteFile(c)
      <4>1. Control!UpdateFails(c)
        BY <2>6, <3>4
      <4>2. CASE \A t \in Control!Switches \ unsure' : op[c].patch[t] = Keep
        BY <1>2, <3>4, <4>2
      <4>3. CASE Control!ReadFile(c) \/ Control!OpenFile(c)
        BY <1>1, <2>2, <2>3, <4>3, CallMoves
      <4> QED
        BY <2>4, <3>4, <4>2, <4>3
    <3>5. CASE Control!WriteFile(c) /\ c \notin Control!Saving(s) /\ op[c].patch[s] # Keep
      BY <3>5 DEF Control!Saving, Control!Idle, Control!WriteFile
    <3> QED
      BY <3>2, <3>3, <3>4, <3>5
  <2> QED
    BY <2>4, <2>5, <2>6
<1> QED
  BY <1>2, KnownSplits

LEMMA StillKnown ==
  ASSUME Control!ControlInv, UNCHANGED Control!fileVars, UNCHANGED <<choice, load, unsure>>
  PROVE  Control!ChoiceKnown'
<1>1. ASSUME NEW s \in Control!Switches \ unsure' PROVE KnownOf(s)'
  <2>1. KnownOf(s)
    BY <1>1, ControlSplits, KnownSplits
  <2> QED
    BY <2>1 DEF KnownOf, Saved, Read, Control!Saving, Control!Idle, Control!fileVars,
       Control!ViewerSettings
<1> QED
  BY <1>1, KnownSplits

LEMMA ControlInit == Control!Init => Control!ControlInv
<1> SUFFICES ASSUME Control!Init PROVE Control!ControlInv
  OBVIOUS
<1>1. PICK content \in Initial : Control!FileInit(content)
  BY DEF Control!Init
<1>2. Control!FileInv
  <2>1. content \in FileProofs!Contents /\ FileProofs!FileInit(content)
    BY <1>1, AppFile DEF Control!FileInit, FileProofs!FileInit, Control!NoUpdate,
       FileProofs!NoUpdate, Control!NoChange, FileProofs!NoChange, Control!Nothing,
       FileProofs!Nothing
  <2> QED
    BY <2>1, FileProofs!FileStarts, SameFile
<1>3. /\ choice = Control!DefaultSettings /\ controlEnabled = Off
      /\ load = [phase |-> "called", value |-> Control!DefaultSettings] /\ connected = FALSE
      /\ after = [c \in Calls |-> None] /\ unsure = {} /\ crossed = FALSE
      /\ \A c \in Calls : op[c].phase = "idle"
  BY <1>1 DEF Control!Init, Control!NotLoaded, Control!NotWaiting, Control!FileInit,
     Control!NoUpdate
<1>4. ControlTypes
  BY <1>3, ViewerSettingsFacts DEF ControlTypes
<1>5. Control!Waiting = {} /\ \A s : Control!Saving(s) = {}
  BY <1>3 DEF Control!Waiting, Control!Saving, Control!Idle
<1>6. Control!ChoiceKnown /\ Control!GoesOnAsChosen /\ Control!CaptureIsSent
  BY <1>3, <1>5, KnownSplits DEF KnownOf, Control!GoesOnAsChosen, Control!CaptureIsSent
<1> QED
  BY <1>2, <1>4, <1>6, ControlSplits

\* A change of the switches while no call goes on.
LEMMA ChangeSends ==
  ASSUME Control!ControlInv, NEW change, Control!Changes(change),
         DOMAIN change \subseteq Control!Switches,
         \A s \in DOMAIN change : change[s] \in {On, Off}, controlEnabled' \in {On, Off},
         choice'["captureLocalInput"] = On => controlEnabled' = On,
         UNCHANGED <<load, connected, after>>
  PROVE  ControlTypes' /\ Control!GoesOnAsChosen' /\ Control!CaptureIsSent'
<1>1. /\ choice' = [s \in Control!Switches |->
                      IF s \in DOMAIN change THEN change[s] ELSE choice[s]]
      /\ unsure' \subseteq unsure \cup DOMAIN change
      /\ crossed' = (crossed \/ Control!Waiting # {})
  BY DEF Control!Changes
<1>2. ControlTypes /\ Control!CaptureIsSent
  BY ControlSplits
<1>3. choice' \in [Control!Switches -> {On, Off}]
  BY <1>1, <1>2 DEF ControlTypes
<1>4. ControlTypes'
  BY <1>1, <1>2, <1>3 DEF ControlTypes
<1>5. Control!Waiting' = Control!Waiting
  BY DEF Control!Waiting
<1>6. ~crossed' => ~crossed /\ Control!Waiting = {}
  BY <1>1, Zenon
<1>7. Control!GoesOnAsChosen'
  BY <1>5, <1>6 DEF Control!GoesOnAsChosen
<1>8. Control!CaptureIsSent'
  <2> SUFFICES ASSUME connected', Control!Waiting' = {}, choice'["captureLocalInput"] = On,
                      ~crossed'
               PROVE  controlEnabled' = On
    BY DEF Control!CaptureIsSent
  <2>1. ~crossed /\ connected
    BY <1>6
  <2> QED
    BY <2>1
<1> QED
  BY <1>4, <1>7, <1>8

LEMMA SwitchStep ==
  ASSUME Control!ControlInv, NEW c \in Calls, NEW d \in Calls, NEW v \in {On, Off},
         Control!changeCaptureLocalInput(c, v) \/ Control!changeControlEnabled(c, d, v)
  PROVE  Control!ControlInv'
<1> USE AppFile, AppValues
<1>1. Control!FileInv /\ ControlTypes
  BY ControlSplits
<1>2. ASSUME NEW started, NEW change, Carries(started, change), Control!Begin(started),
             Control!Changes(change), controlEnabled' \in {On, Off},
             choice'["captureLocalInput"] = On => controlEnabled' = On,
             UNCHANGED <<load, connected, after>>
      PROVE  Control!ControlInv'
  <2>1. Control!FileInv'
    BY <1>1, <1>2, FileSteps DEF Carries
  <2>2. Control!ChoiceKnown'
    BY <1>2, ChangesKnown
  <2>3. ControlTypes' /\ Control!GoesOnAsChosen' /\ Control!CaptureIsSent'
    BY <1>2, ChangeSends DEF Carries
  <2> QED
    BY <2>1, <2>2, <2>3, ControlSplits
<1>3. CASE Control!changeCaptureLocalInput(c, v)
  <2> DEFINE started == [e \in {c} |-> Control!CapturePatch(v)]
             change == Control!CaptureChange(v)
  <2>1. /\ Control!Begin(started) /\ Control!Changes(change)
        /\ controlEnabled' = IF v = On THEN On ELSE controlEnabled
        /\ UNCHANGED <<load, connected, after>>
    BY <1>3 DEF Control!changeCaptureLocalInput, Control!Start
  <2>2. DOMAIN started = {c} /\ started[c] = Control!CapturePatch(v)
    OBVIOUS
  <2>3. /\ DOMAIN change = IF v = On THEN Control!Switches ELSE {"captureLocalInput"}
        /\ \A s \in DOMAIN change : change[s] = v
        /\ started[c] \in Control!Patches
        /\ \A s \in Control!Switches :
              started[c][s] = IF s \in DOMAIN change THEN v ELSE Keep
    BY <2>2, PatchFacts
  <2>4. choice'["captureLocalInput"] = v
    BY <2>1, <2>3 DEF Control!Changes
  <2> HIDE DEF started, change
  <2>5. choice'["captureLocalInput"] = On => controlEnabled' = On
    BY <2>1, <2>4
  <2>6. controlEnabled' \in {On, Off}
    BY <1>1, <2>1 DEF ControlTypes
  <2>7. Carries(started, change)
    BY <2>2, <2>3 DEF Carries
  <2> QED
    BY <1>2, <2>1, <2>5, <2>6, <2>7
<1>4. CASE Control!changeControlEnabled(c, d, v) /\ v = Off
                /\ choice["captureLocalInput"] = On
  <2> DEFINE started == [e \in {c, d} |-> IF e = c THEN Control!ChangeOf("takeControl", Off)
                                          ELSE Control!CapturePatch(Off)]
             change == [s \in Control!Switches |-> Off]
  <2>1. /\ c # d /\ Control!Begin(started) /\ Control!Changes(change)
        /\ controlEnabled' = Off /\ UNCHANGED <<load, connected, after>>
    BY <1>4 DEF Control!changeControlEnabled
  <2>2. /\ DOMAIN started = {c, d} /\ started[c] = Control!ChangeOf("takeControl", Off)
        /\ started[d] = Control!CapturePatch(Off)
        /\ DOMAIN change = Control!Switches /\ \A s \in Control!Switches : change[s] = Off
    BY <2>1
  <2>3. /\ started[c] \in Control!Patches /\ started[d] \in Control!Patches
        /\ started[c]["takeControl"] = Off /\ started[c]["captureLocalInput"] = Keep
        /\ started[d]["takeControl"] = Keep /\ started[d]["captureLocalInput"] = Off
    BY <2>2, PatchFacts
  <2> HIDE DEF started, change
  <2>4. choice'["captureLocalInput"] = Off
    BY <2>1, <2>2 DEF Control!Changes
  <2>5. Carries(started, change)
    BY <2>1, <2>2, <2>3 DEF Carries
  <2> QED
    BY <1>2, <2>1, <2>4, <2>5
<1>5. CASE Control!changeControlEnabled(c, d, v) /\ ~(v = Off /\ choice["captureLocalInput"] = On)
  <2> DEFINE started == [e \in {c} |-> Control!ChangeOf("takeControl", v)]
             change == [s \in {"takeControl"} |-> v]
  <2>1. /\ Control!Begin(started) /\ Control!Changes(change)
        /\ controlEnabled' = v /\ UNCHANGED <<load, connected, after>>
    BY <1>5 DEF Control!changeControlEnabled, Control!Start
  <2>2. /\ DOMAIN started = {c} /\ started[c] = Control!ChangeOf("takeControl", v)
        /\ DOMAIN change = {"takeControl"} /\ change["takeControl"] = v
    OBVIOUS
  <2>3. /\ started[c] \in Control!Patches
        /\ started[c]["takeControl"] = v /\ started[c]["captureLocalInput"] = Keep
    BY <2>2, PatchFacts
  <2> HIDE DEF started, change
  <2>4. choice'["captureLocalInput"] = choice["captureLocalInput"]
    BY <2>1, <2>2 DEF Control!Changes
  <2>5. choice'["captureLocalInput"] = On => controlEnabled' = On
    BY <1>5, <2>1, <2>4
  <2>6. Carries(started, change)
    BY <2>2, <2>3 DEF Carries
  <2> QED
    BY <1>2, <2>1, <2>5, <2>6
<1> QED
  BY <1>3, <1>4, <1>5

\* The settings are loaded, the app is restarted, and the viewer disconnects.
LEMMA LoadStep ==
  ASSUME Control!ControlInv,
         Control!LoadReads \/ Control!loadViewerSettings \/ Control!Restart
          \/ Control!disconnect
  PROVE  Control!ControlInv'
<1>1. /\ Control!FileInv /\ ControlTypes /\ Control!ChoiceKnown
      /\ Control!GoesOnAsChosen /\ Control!CaptureIsSent
  BY ControlSplits
<1>2. CASE Control!LoadReads
  <2> DEFINE value == Control!ViewerSettings(Control!readSettings)
  <2>1. /\ UNCHANGED Control!fileVars /\ load.phase = "called"
        /\ UNCHANGED <<choice, controlEnabled, connected, after, crossed>>
        /\ load' = [phase |-> "read", value |-> value]
        /\ unsure' = IF Control!Open = {} THEN unsure ELSE Control!Switches
    BY <1>2 DEF Control!LoadReads, Control!fileVars
  <2>2. Control!FileInv'
    BY <1>1, <2>1, FileSteps
  <2>3. Control!readSettings \in Control!Contents
    BY <1>1, ReadableSettings DEF Control!FileInv
  <2>4. value \in [Control!Switches -> {On, Off}]
    BY <2>3, ViewerSettingsFacts
  <2> HIDE DEF value
  <2>5. ControlTypes'
    BY <1>1, <2>1, <2>4 DEF ControlTypes
  <2>6. ASSUME NEW s \in Control!Switches \ unsure' PROVE KnownOf(s)'
    <3>1. Control!Open = {} /\ s \notin unsure
      BY <2>1, <2>6
    <3>2. Control!Saving(s) = {}
      BY <1>1, <2>1, <2>6, <3>1, KnownSplits DEF KnownOf
    <3>3. s \notin atRisk => Control!readSettings[s] = wanted[s]
      BY <1>1, <2>6, <3>1, AppValues DEF Control!FileInv, Control!UpdatesSurvive
    <3>4. s \notin atRisk => value[s] = Control!ViewerSettings(wanted)[s]
      BY <2>6, <3>3, ViewerSettingsFacts DEF value
    <3>5. Control!Saving(s)' = {}
      BY <2>1, <3>2 DEF Control!Saving, Control!Idle, Control!fileVars
    <3>6. load'.phase = "read" /\ load'.value = value
      BY <2>1
    <3>7. Read(s)'
      BY <2>1, <3>4, <3>6 DEF Read, Control!fileVars, Control!ViewerSettings
    <3> QED
      BY <3>5, <3>6, <3>7 DEF KnownOf
  <2>7. Control!GoesOnAsChosen' /\ Control!CaptureIsSent'
    BY <1>1, <2>1 DEF Control!GoesOnAsChosen, Control!CaptureIsSent, Control!Waiting,
       Control!Controls
  <2> QED
    BY <2>2, <2>5, <2>6, <2>7, KnownSplits, ControlSplits
<1>3. CASE Control!loadViewerSettings
  <2>1. /\ UNCHANGED Control!fileVars /\ UNCHANGED <<connected, after, unsure>>
        /\ load.phase = "read" /\ load' = [load EXCEPT !.phase = "done"]
        /\ choice' = load.value /\ controlEnabled' = Control!Controls(load.value)
        /\ crossed' = (crossed \/ Control!Waiting # {})
    BY <1>3 DEF Control!loadViewerSettings, Control!fileVars
  <2>2. Control!FileInv'
    BY <1>1, <2>1, FileSteps
  <2>3. load' \in [phase : {"called", "read", "done"},
                   value : [Control!Switches -> {On, Off}]]
        /\ load'.phase = "done" /\ load.value \in [Control!Switches -> {On, Off}]
    BY <1>1, <2>1 DEF ControlTypes
  <2>4. controlEnabled' \in {On, Off}
        /\ (load.value["captureLocalInput"] = On => controlEnabled' = On)
    BY <2>1, AppValues DEF Control!Controls
  <2>5. ControlTypes'
    BY <1>1, <2>1, <2>3, <2>4 DEF ControlTypes
  <2>6. ASSUME NEW s \in Control!Switches \ unsure' PROVE KnownOf(s)'
    <3>1. Control!Saving(s) = {} /\ Read(s)
      BY <1>1, <2>1, <2>6, KnownSplits DEF KnownOf
    <3>2. Control!Saving(s)' = {}
      BY <2>1, <3>1 DEF Control!Saving, Control!Idle, Control!fileVars
    <3>3. Saved(s)'
      BY <2>1, <3>1 DEF Saved, Read, Control!fileVars, Control!ViewerSettings
    <3> QED
      BY <2>3, <3>2, <3>3 DEF KnownOf
  <2>7. Control!Waiting' = Control!Waiting /\ (~crossed' => Control!Waiting = {})
    <3>1. Control!Waiting' = Control!Waiting
      BY <2>1 DEF Control!Waiting
    <3>2. ~crossed' => Control!Waiting = {}
      BY <2>1, Zenon
    <3> QED
      BY <3>1, <3>2
  <2>8. Control!GoesOnAsChosen' /\ Control!CaptureIsSent'
    BY <2>1, <2>4, <2>7 DEF Control!GoesOnAsChosen, Control!CaptureIsSent
  <2> QED
    BY <2>2, <2>5, <2>6, <2>8, KnownSplits, ControlSplits
<1>4. CASE Control!Restart
  <2>1. /\ Control!AppRestarts
        /\ choice' = Control!DefaultSettings /\ controlEnabled' = Off
        /\ load' = [phase |-> "called", value |-> Control!DefaultSettings]
        /\ connected' = FALSE /\ after' = [c \in Calls |-> None] /\ unsure' = {}
        /\ crossed' = FALSE
    BY <1>4 DEF Control!Restart, Control!NotLoaded, Control!NotWaiting
  <2>2. Control!FileInv'
    BY <1>1, <2>1, FileSteps
  <2>3. ControlTypes'
    BY <2>1, ViewerSettingsFacts DEF ControlTypes
  <2>4. \A c \in Calls : op'[c].phase = "idle"
    BY <2>1 DEF Control!AppRestarts, Control!NoUpdate
  <2>5. Control!Waiting' = {} /\ \A s : Control!Saving(s)' = {}
    BY <2>1, <2>4 DEF Control!Waiting, Control!Saving, Control!Idle
  <2>6. \A s : KnownOf(s)'
    BY <2>1, <2>5 DEF KnownOf
  <2>7. Control!GoesOnAsChosen' /\ Control!CaptureIsSent'
    BY <2>1, <2>5 DEF Control!GoesOnAsChosen, Control!CaptureIsSent
  <2> QED
    BY <2>2, <2>3, <2>6, <2>7, KnownSplits, ControlSplits
<1>5. CASE Control!disconnect
  <2>1. /\ UNCHANGED Control!fileVars /\ connected' = FALSE /\ controlEnabled' = Off
        /\ UNCHANGED <<choice, load, after, unsure, crossed>>
    BY <1>5 DEF Control!disconnect, Control!fileVars
  <2>2. Control!FileInv'
    BY <1>1, <2>1, FileSteps
  <2>3. Control!ChoiceKnown'
    BY <2>1, StillKnown
  <2>4. ControlTypes' /\ Control!GoesOnAsChosen' /\ Control!CaptureIsSent'
    BY <1>1, <2>1 DEF ControlTypes, Control!GoesOnAsChosen, Control!CaptureIsSent,
       Control!Waiting, Control!Controls
  <2> QED
    BY <2>2, <2>3, <2>4, ControlSplits
<1> QED
  BY <1>2, <1>3, <1>4, <1>5

\* Connecting, and the choice of a folder.
LEMMA HistoryStep ==
  ASSUME Control!ControlInv, NEW c \in Calls,
         \/ \E server \in Known : Control!connect(c, server)
         \/ \E folder \in Folders : Control!chooseSaveDirectory(c, folder)
  PROVE  Control!ControlInv'
<1> USE AppFile, AppValues
<1>1. /\ Control!FileInv /\ ControlTypes /\ Control!ChoiceKnown
      /\ Control!GoesOnAsChosen /\ Control!CaptureIsSent
  BY ControlSplits
<1>2. ASSUME NEW f \in {"recentServers", "saveDirectory"},
             NEW v \in Recent!AppInputs[f], Control!Start(c, Control!ChangeOf(f, v)),
             UNCHANGED <<choice, load, unsure>>
      PROVE  Control!FileInv' /\ Control!ChoiceKnown'
  <2> DEFINE started == [e \in {c} |-> Control!ChangeOf(f, v)]
  <2>1. Control!Begin(started)
    BY <1>2 DEF Control!Start
  <2>2. DOMAIN started = {c} /\ started[c] = Control!ChangeOf(f, v)
    OBVIOUS
  <2>3. /\ started[c] \in Control!Patches
        /\ \A s \in Control!Switches : started[c][s] = Keep
    BY <2>2, PatchFacts
  <2> HIDE DEF started
  <2>4. /\ DOMAIN started \subseteq Calls
        /\ \A d \in DOMAIN started : started[d] \in Control!Patches
        /\ \A d \in DOMAIN started : \A s \in Control!Switches : started[d][s] = Keep
    BY <2>2, <2>3
  <2>5. Control!FileInv'
    BY <1>1, <2>1, <2>4, FileSteps
  <2>6. Control!ChoiceKnown'
    BY <1>2, <2>1, <2>4, OthersKnown
  <2> QED
    BY <2>5, <2>6
<1>3. ASSUME NEW server \in Known, Control!connect(c, server)
      PROVE  Control!ControlInv'
  <2>1. /\ Control!Start(c, Control!ChangeOf("recentServers", server))
        /\ connected' = TRUE /\ after' = [after EXCEPT ![c] = Control!Controls(choice)]
        /\ crossed' = (crossed /\ Control!Waiting # {})
        /\ UNCHANGED <<choice, controlEnabled, load, unsure>>
    BY <1>3 DEF Control!connect
  <2>2. Control!FileInv' /\ Control!ChoiceKnown'
    BY <1>2, <2>1
  <2>3. Control!Controls(choice) \in {On, Off} /\ Control!Controls(choice)' = Control!Controls(choice)
    BY <2>1 DEF Control!Controls
  <2>4. ControlTypes'
    <3>1. after' \in [Calls -> {On, Off, None}] /\ crossed' \in BOOLEAN
      BY <1>1, <2>1, <2>3 DEF ControlTypes
    <3> QED
      BY <1>1, <2>1, <3>1 DEF ControlTypes
  <2>5. /\ after'[c] = Control!Controls(choice)
        /\ \A d \in Calls : d # c => after'[d] = after[d]
    BY <1>1, <2>1 DEF ControlTypes
  <2>6. c \in Control!Waiting'
    BY <2>3, <2>5 DEF Control!Waiting
  <2>7. ~crossed' => ~crossed \/ Control!Waiting = {}
    BY <2>1, Zenon
  <2>8. Control!GoesOnAsChosen'
    <3> SUFFICES ASSUME ~crossed', NEW d \in Control!Waiting'
                 PROVE  after'[d] = Control!Controls(choice)'
      BY DEF Control!GoesOnAsChosen
    <3>1. CASE d = c
      BY <2>3, <2>5, <3>1
    <3>2. CASE d # c
      <4>1. d \in Control!Waiting /\ after'[d] = after[d]
        BY <2>5, <3>2 DEF Control!Waiting
      <4>2. ~crossed
        BY <2>7, <4>1
      <4> QED
        BY <1>1, <2>3, <4>1, <4>2 DEF Control!GoesOnAsChosen
    <3> QED
      BY <3>1, <3>2
  <2>9. Control!CaptureIsSent'
    BY <2>6 DEF Control!CaptureIsSent
  <2> QED
    BY <2>2, <2>4, <2>8, <2>9, ControlSplits
<1>4. ASSUME NEW folder \in Folders, Control!chooseSaveDirectory(c, folder)
      PROVE  Control!ControlInv'
  <2>1. /\ Control!Start(c, Control!ChangeOf("saveDirectory", folder))
        /\ UNCHANGED <<choice, controlEnabled, load, connected, after, unsure, crossed>>
    BY <1>4 DEF Control!chooseSaveDirectory, Control!controlVars
  <2>2. Control!FileInv' /\ Control!ChoiceKnown'
    BY <1>2, <2>1
  <2>3. ControlTypes' /\ Control!GoesOnAsChosen' /\ Control!CaptureIsSent'
    BY <1>1, <2>1 DEF ControlTypes, Control!GoesOnAsChosen, Control!CaptureIsSent,
       Control!Waiting, Control!Controls
  <2> QED
    BY <2>2, <2>3, ControlSplits
<1> QED
  BY <1>3, <1>4

\* A call goes on, ends or fails, and connecting goes on with it.
LEMMA CallStep ==
  ASSUME Control!ControlInv, NEW c \in Calls,
         Control!UpdateProceeds(c) \/ Control!UpdateEnds(c) \/ Control!UpdateRefused(c)
  PROVE  Control!ControlInv'
<1> USE AppFile
<1>1. /\ Control!FileInv /\ ControlTypes /\ Control!ChoiceKnown
      /\ Control!GoesOnAsChosen /\ Control!CaptureIsSent
  BY ControlSplits
<1>2. ASSUME UNCHANGED <<choice, load, connected>>, unsure \subseteq unsure',
             unsure' \subseteq Control!Switches,
             after' = [after EXCEPT ![c] = None],
             \/ Control!GoesOn(c)
             \/ crossed' = (crossed \/ after[c] # None) /\ UNCHANGED controlEnabled
      PROVE  ControlTypes' /\ Control!GoesOnAsChosen' /\ Control!CaptureIsSent'
  <2>1. /\ controlEnabled' \in {controlEnabled, after[c]}
        /\ controlEnabled' # controlEnabled => after[c] # None /\ controlEnabled' = after[c]
        /\ crossed' \in BOOLEAN
    BY <1>1, <1>2 DEF Control!GoesOn, ControlTypes
  <2>2. ~crossed' => ~crossed
    BY <1>2, Zenon DEF Control!GoesOn
  <2>3. ~crossed' /\ after[c] # None => controlEnabled' = after[c]
    <3>1. CASE Control!GoesOn(c)
      BY <3>1 DEF Control!GoesOn
    <3>2. CASE crossed' = (crossed \/ after[c] # None)
      BY <3>2, Zenon
    <3> QED
      BY <1>2, <3>1, <3>2
  <2>4. /\ after'[c] = None /\ \A d \in Calls : d # c => after'[d] = after[d]
        /\ after' \in [Calls -> {On, Off, None}]
    BY <1>1, <1>2 DEF ControlTypes
  <2>5. Control!Waiting' = Control!Waiting \ {c}
    BY <2>4 DEF Control!Waiting
  <2>6. ControlTypes'
    <3>1. controlEnabled' \in {On, Off}
      BY <1>1, <2>1 DEF ControlTypes
    <3> QED
      BY <1>1, <1>2, <2>1, <2>4, <3>1 DEF ControlTypes
  <2>7. Control!Controls(choice)' = Control!Controls(choice)
    BY <1>2 DEF Control!Controls
  <2>8. Control!GoesOnAsChosen'
    <3> SUFFICES ASSUME ~crossed', NEW d \in Control!Waiting'
                 PROVE  after'[d] = Control!Controls(choice)'
      BY DEF Control!GoesOnAsChosen
    <3>1. d \in Control!Waiting /\ d # c /\ d \in Calls
      BY <2>5 DEF Control!Waiting
    <3> QED
      BY <1>1, <2>2, <2>4, <2>7, <3>1 DEF Control!GoesOnAsChosen
  <2>9. Control!CaptureIsSent'
    <3> SUFFICES ASSUME connected', Control!Waiting' = {},
                        choice'["captureLocalInput"] = On, ~crossed'
                 PROVE  controlEnabled' = On
      BY DEF Control!CaptureIsSent
    <3>1. connected /\ choice["captureLocalInput"] = On /\ ~crossed
      BY <1>2, <2>2
    <3>2. CASE after[c] = None
      <4>1. c \notin Control!Waiting
        BY <3>2 DEF Control!Waiting
      <4> QED
        BY <1>1, <2>1, <2>5, <3>1, <3>2, <4>1 DEF Control!CaptureIsSent
    <3>3. CASE after[c] # None
      <4>1. c \in Control!Waiting
        BY <3>3 DEF Control!Waiting
      <4>2. after[c] = Control!Controls(choice)
        BY <1>1, <3>1, <4>1 DEF Control!GoesOnAsChosen
      <4>3. Control!Controls(choice) = On
        BY <3>1, AppValues DEF Control!Controls
      <4> QED
        BY <2>3, <3>3, <4>2, <4>3
    <3> QED
      BY <3>2, <3>3
  <2> QED
    BY <2>6, <2>8, <2>9
<1>3. CASE Control!UpdateProceeds(c)
  <2>1. /\ Control!ReadFile(c) \/ Control!OpenFile(c)
        /\ UNCHANGED <<choice, controlEnabled, load, connected, after, unsure, crossed>>
    BY <1>3 DEF Control!UpdateProceeds, Control!controlVars
  <2>2. Control!FileInv'
    BY <1>1, <2>1, FileSteps
  <2>3. Control!ChoiceKnown'
    BY <2>1, OthersKnown
  <2>4. ControlTypes' /\ Control!GoesOnAsChosen' /\ Control!CaptureIsSent'
    BY <1>1, <2>1 DEF ControlTypes, Control!GoesOnAsChosen, Control!CaptureIsSent,
       Control!Waiting, Control!Controls
  <2> QED
    BY <2>2, <2>3, <2>4, ControlSplits
<1>4. CASE Control!UpdateEnds(c)
  <2>1. /\ Control!WriteFile(c) /\ Control!GoesOn(c)
        /\ after' = [after EXCEPT ![c] = None]
        /\ UNCHANGED <<choice, load, connected, unsure>>
    BY <1>4 DEF Control!UpdateEnds
  <2>2. Control!FileInv'
    BY <1>1, <2>1, FileSteps
  <2>3. Control!ChoiceKnown'
    BY <2>1, OthersKnown
  <2>4. ControlTypes' /\ Control!GoesOnAsChosen' /\ Control!CaptureIsSent'
    BY <1>1, <1>2, <2>1 DEF ControlTypes
  <2> QED
    BY <2>2, <2>3, <2>4, ControlSplits
<1>5. CASE Control!UpdateRefused(c)
  <2>1. /\ Control!UpdateFails(c) /\ after' = [after EXCEPT ![c] = None]
        /\ UNCHANGED <<choice, load, connected>>
        /\ unsure' = unsure \cup (Control!Switches \cap Control!Patched(op[c].patch))
        /\ \/ Control!GoesOn(c)
           \/ crossed' = (crossed \/ after[c] # None) /\ UNCHANGED controlEnabled
    BY <1>5 DEF Control!UpdateRefused
  <2>2. Control!FileInv'
    BY <1>1, <2>1, FileSteps
  <2>3. \A s \in Control!Switches \ unsure' : op[c].patch[s] = Keep
    BY <2>1, AppValues DEF Control!Patched
  <2>4. Control!ChoiceKnown'
    BY <2>1, <2>3, OthersKnown
  <2>5. ControlTypes' /\ Control!GoesOnAsChosen' /\ Control!CaptureIsSent'
    BY <1>1, <1>2, <2>1 DEF ControlTypes
  <2> QED
    BY <2>2, <2>4, <2>5, ControlSplits
<1> QED
  BY <1>3, <1>4, <1>5

LEMMA ControlStep == Control!ControlInv /\ [ViewerNext]_viewerVars => Control!ControlInv'
<1> SUFFICES ASSUME Control!ControlInv, Control!Next \/ UNCHANGED controlVars
             PROVE  Control!ControlInv'
  BY PartSteps
<1>1. CASE UNCHANGED controlVars
  <2>1. /\ UNCHANGED Control!fileVars
        /\ UNCHANGED <<choice, controlEnabled, load, connected, after, unsure, crossed>>
    BY <1>1 DEF controlVars, Control!fileVars
  <2>2. Control!FileInv' /\ ControlTypes'
    BY <2>1, ControlSplits, FileSteps DEF ControlTypes
  <2>3. Control!ChoiceKnown'
    BY <2>1, StillKnown
  <2>4. Control!GoesOnAsChosen' /\ Control!CaptureIsSent'
    BY <2>1, ControlSplits DEF Control!GoesOnAsChosen, Control!CaptureIsSent,
       Control!Waiting, Control!Controls
  <2> QED
    BY <2>2, <2>3, <2>4, ControlSplits
<1>2. CASE Control!Next
  <2>1. \/ \E c \in Calls :
            \/ \E v \in {On, Off} :
                \/ Control!changeCaptureLocalInput(c, v)
                \/ \E d \in Calls : Control!changeControlEnabled(c, d, v)
            \/ \E server \in Known : Control!connect(c, server)
            \/ \E folder \in Folders : Control!chooseSaveDirectory(c, folder)
            \/ Control!UpdateProceeds(c) \/ Control!UpdateEnds(c) \/ Control!UpdateRefused(c)
        \/ Control!LoadReads \/ Control!loadViewerSettings \/ Control!disconnect
        \/ Control!Restart
    BY <1>2, AppValues DEF Control!Next
  <2>2. ASSUME NEW c \in Calls,
               \/ \E v \in {On, Off} :
                    \/ Control!changeCaptureLocalInput(c, v)
                    \/ \E d \in Calls : Control!changeControlEnabled(c, d, v)
               \/ \E server \in Known : Control!connect(c, server)
               \/ \E folder \in Folders : Control!chooseSaveDirectory(c, folder)
               \/ Control!UpdateProceeds(c) \/ Control!UpdateEnds(c) \/ Control!UpdateRefused(c)
        PROVE  Control!ControlInv'
    <3>1. CASE \E v \in {On, Off} :
                  \/ Control!changeCaptureLocalInput(c, v)
                  \/ \E d \in Calls : Control!changeControlEnabled(c, d, v)
      BY <3>1, SwitchStep
    <3>2. CASE \/ \E server \in Known : Control!connect(c, server)
               \/ \E folder \in Folders : Control!chooseSaveDirectory(c, folder)
      BY <3>2, HistoryStep
    <3>3. CASE Control!UpdateProceeds(c) \/ Control!UpdateEnds(c) \/ Control!UpdateRefused(c)
      BY <3>3, CallStep
    <3> QED
      BY <2>2, <3>1, <3>2, <3>3
  <2>3. CASE Control!LoadReads \/ Control!loadViewerSettings \/ Control!disconnect
                \/ Control!Restart
    BY <2>3, LoadStep
  <2> QED
    BY <2>1, <2>2, <2>3
<1> QED
  BY <1>1, <1>2

LEMMA ControlHolds == Control!ControlInv => ChoiceKept /\ HistoryKept
<1> SUFFICES ASSUME Control!ControlInv PROVE ChoiceKept /\ HistoryKept
  OBVIOUS
<1>1. /\ Control!FileInv /\ Control!FileTypeOK /\ Control!UpdatesSurvive
      /\ Control!ChoiceKnown /\ Control!CaptureIsSent
  BY ControlSplits DEF Control!FileInv
<1>2. Control!SavedIsChosen
  <2> SUFFICES ASSUME Control!Open = {}, load.phase = "done",
                      NEW s \in Control!Switches \ (unsure \cup atRisk),
                      Control!Saving(s) = {}
               PROVE  Control!ViewerSettings(Control!readSettings)[s] = choice[s]
    BY DEF Control!SavedIsChosen
  <2>1. Control!ViewerSettings(wanted)[s] = choice[s]
    BY <1>1, KnownSplits DEF KnownOf, Saved
  <2>2. Control!readSettings[s] = wanted[s]
    BY <1>1, AppValues DEF Control!UpdatesSurvive
  <2> QED
    BY <2>1, <2>2, ViewerSettingsFacts
<1>3. Recent!DistinctServers(Control!readSettings["recentServers"])
  <2> DEFINE list == Control!readSettings["recentServers"]
  <2>1. list \in Recent!Lists \cup {Unset}
    BY <1>1, ReadableSettings, AppValues DEF Control!Contents
  <2> HIDE DEF list
  <2>2. ASSUME Distinct(list) PROVE Recent!IsInjective(list) /\ Len(list) <= RecentLimit
    <3>1. PICK n \in 0..RecentLimit :
            list \in [1..n -> Known] /\ \A i, j \in 1..n : list[i] = list[j] => i = j
      BY <2>2 DEF Distinct
    <3>2. RecentLimit \in Nat
      BY ViewerAppAssumption DEF Recent!AppSettingsAssumption
    <3>3. Recent!IsInjective(list)
      BY <3>1 DEF Recent!IsInjective
    <3> QED
      BY <3>1, <3>2, <3>3
  <2> QED
    BY <2>1, <2>2, ListsAreDistinct DEF Recent!DistinctServers, list
<1> QED
  BY <1>1, <1>2, <1>3 DEF ChoiceKept, HistoryKept

\* For any number of calls that are under way at a time, in whatever order they read,
\* empty and write the file, fail or are killed: a switch that was not used again while
\* it was loaded or saved, whose saving did not fail and that was not written over
\* unseen is in the file as chosen once its call is done; and what a viewer captures is
\* sent, unless a choice crossed connect() on its way or the history could not be
\* written (App.tsx saveViewerSettings, connect, appIpc.ts viewer:update-settings).
THEOREM ChoiceOfViewerKept == ViewerSpec => []ChoiceKept
<1>1. ViewerInit => Control!ControlInv
  BY ControlInit DEF ViewerInit
<1>2. Control!ControlInv /\ [ViewerNext]_viewerVars => Control!ControlInv'
  BY ControlStep
<1>3. Control!ControlInv => ChoiceKept
  BY ControlHolds
<1> QED
  BY <1>1, <1>2, <1>3, PTL DEF ViewerSpec

\* For any number of calls, servers and folders: what was reported as saved is in the
\* file, whatever overlaps, except the fields that a call wrote over unseen, or whose
\* writing failed or was killed, and that were not saved again since; the list of recent
\* servers has none twice and no more than fit (appIpc.ts history:add-server,
\* fileIpc.ts files:choose-directory).
THEOREM HistoryOfViewerKept == ViewerSpec => []HistoryKept
<1>1. ViewerInit => Control!ControlInv
  BY ControlInit DEF ViewerInit
<1>2. Control!ControlInv /\ [ViewerNext]_viewerVars => Control!ControlInv'
  BY ControlStep
<1>3. Control!ControlInv => HistoryKept
  BY ControlHolds
<1> QED
  BY <1>1, <1>2, <1>3, PTL DEF ViewerSpec

-------------------------------------------------------------------------------
(* The scan                                                                  *)

\* The workers have taken the addresses before the next one, and stop when there is
\* none.
WorkersInv ==
  /\ index \in 1..(Len(ProbeList) + 1)
  /\ probing \subseteq Scan!Range(ProbeList)
  /\ IsFiniteSet(probing) /\ Cardinality(probing) <= Scan!workerCount
  /\ probing = {} => index > Len(ProbeList)
  /\ probed = [i \in 1..Len(ProbeList) |-> IF i < index THEN 1 ELSE 0]

\* What was heard is in one of the two lists, and nothing is heard after the result.
AnswersInv ==
  /\ listening \subseteq Announced /\ responses \subseteq Announced
  /\ servers \subseteq Announced /\ httpServers \in Seq(Announced)
  /\ heard = servers \cup Scan!Range(httpServers)
  /\ attempt \in {1, 2} /\ socket \in {"binding", "bound", "closed"} /\ timer \in BOOLEAN
  /\ udp \in {"running", "resolved", "rejected"}
  /\ udp = "resolved" => socket = "closed"
  /\ result.state \in {"running", "resolved", "rejected"} /\ result.list \subseteq heard
  /\ result.state = "resolved" => udp = "resolved" /\ probing = {} /\ Scan!AnswerIsListed

ScanInv == WorkersInv /\ AnswersInv

LEMMA ScanConstants ==
  /\ ProbeList \in Seq(Addresses) /\ Len(ProbeList) \in Nat
  /\ Scan!workerCount \in 0..Len(ProbeList)
  /\ Scan!workerCount = 0 => Len(ProbeList) = 0
  /\ \A s, t \in Announced : Scan!SameServer(s, t) => s = t
<1>1. /\ ProbeList \in Seq(Addresses) /\ Concurrency \in Nat
      /\ \A s, t \in Announced : AddressOf(s) = AddressOf(t) /\ PortOf(s) = PortOf(t) => s = t
  BY ViewerAppAssumption DEF Scan!DiscoveryAssumption
<1>2. Len(ProbeList) \in Nat
  BY <1>1
<1> QED
  BY <1>1, <1>2 DEF Scan!workerCount, Scan!SameServer

\* The first addresses of the list are no more than there are workers.
LEMMA FirstProbes ==
  LET first == {ProbeList[i] : i \in 1..Scan!workerCount}
  IN  /\ IsFiniteSet(first) /\ Cardinality(first) <= Scan!workerCount
      /\ first \subseteq Scan!Range(ProbeList)
      /\ first = {} => Len(ProbeList) = 0
<1> DEFINE n == Scan!workerCount
           first == {ProbeList[i] : i \in 1..n}
<1>1. n \in 0..Len(ProbeList) /\ Len(ProbeList) \in Nat /\ (n = 0 => Len(ProbeList) = 0)
      /\ DOMAIN ProbeList = 1..Len(ProbeList)
  BY ScanConstants
<1>2. n \in Nat /\ IsFiniteSet(1..n) /\ Cardinality(1..n) = n
  <2>1. n \in Nat
    BY <1>1
  <2> HIDE DEF n
  <2> QED
    BY <2>1, FS_Interval
<1> HIDE DEF n
<1>3. PICK f : f = [i \in 1..n |-> ProbeList[i]]
  OBVIOUS
<1>4. f \in Surjection(1..n, first)
  BY <1>3 DEF Surjection
<1>5. IsFiniteSet(first) /\ Cardinality(first) <= n
  BY <1>2, <1>4, FS_Surjection
<1>6. first \subseteq Scan!Range(ProbeList)
  BY <1>1 DEF Scan!Range
<1>7. first = {} => Len(ProbeList) = 0
  <2>1. n # 0 => ProbeList[1] \in first
    BY <1>2
  <2> QED
    BY <1>1, <2>1
<1> QED
  BY <1>5, <1>6, <1>7 DEF n

LEMMA ScanInit == Scan!Init => ScanInv
<1> SUFFICES ASSUME Scan!Init PROVE ScanInv
  OBVIOUS
<1>1. /\ listening = Announced /\ responses = {} /\ attempt = 1 /\ socket = "binding"
      /\ timer = FALSE /\ servers = {} /\ udp = "running" /\ httpServers = <<>> /\ heard = {}
      /\ index = Scan!workerCount + 1
      /\ probing = {ProbeList[i] : i \in 1..Scan!workerCount}
      /\ probed = [i \in 1..Len(ProbeList) |-> IF i <= Scan!workerCount THEN 1 ELSE 0]
      /\ result.state = "running" /\ result.list = {}
  BY DEF Scan!Init, Scan!NoResult
<1>2. WorkersInv
  <2>1. Scan!workerCount \in Nat /\ Len(ProbeList) \in Nat /\ Scan!workerCount <= Len(ProbeList)
    BY ScanConstants
  <2>2. /\ IsFiniteSet(probing) /\ Cardinality(probing) <= Scan!workerCount
        /\ probing \subseteq Scan!Range(ProbeList)
        /\ probing = {} => Len(ProbeList) = 0
    BY <1>1, FirstProbes
  <2>3. index \in 1..(Len(ProbeList) + 1) /\ (probing = {} => index > Len(ProbeList))
    <3>1. index = Scan!workerCount + 1
      BY <1>1
    <3> QED
      BY <2>1, <2>2, <3>1
  <2>4. probed = [i \in 1..Len(ProbeList) |-> IF i < index THEN 1 ELSE 0]
    BY <1>1, <2>1
  <2> QED
    BY <2>2, <2>3, <2>4 DEF WorkersInv
<1>3. httpServers \in Seq(Announced) /\ Scan!Range(httpServers) = {}
  BY <1>1 DEF Scan!Range
<1>4. AnswersInv
  BY <1>1, <1>3 DEF AnswersInv
<1> QED
  BY <1>2, <1>4 DEF ScanInv

\* A worker goes on to the next address, or stops.
LEMMA WorkerGoesOn ==
  ASSUME WorkersInv, NEW a \in probing, Scan!TakeNext(a)
  PROVE  WorkersInv'
<1>1. Len(ProbeList) \in Nat /\ DOMAIN ProbeList = 1..Len(ProbeList)
      /\ Scan!workerCount \in Nat
  BY ScanConstants
<1>2. /\ IsFiniteSet(probing \ {a}) /\ Cardinality(probing \ {a}) = Cardinality(probing) - 1
      /\ Cardinality(probing) \in Nat /\ Cardinality(probing) <= Scan!workerCount
  BY FS_RemoveElement, FS_CardinalityType DEF WorkersInv
<1>3. CASE index <= Len(ProbeList)
  <2>1. PICK b : b = ProbeList[index]
    OBVIOUS
  <2>2. /\ probing' = (probing \ {a}) \cup {b} /\ index' = index + 1
        /\ probed' = [probed EXCEPT ![index] = @ + 1]
    BY <1>3, <2>1 DEF Scan!TakeNext
  <2>3. index \in 1..Len(ProbeList) /\ b \in Scan!Range(ProbeList)
    BY <1>1, <1>3, <2>1 DEF WorkersInv, Scan!Range
  <2>4. /\ IsFiniteSet(probing') /\ Cardinality(probing') <= Scan!workerCount
    <3>1. /\ IsFiniteSet((probing \ {a}) \cup {b})
          /\ Cardinality((probing \ {a}) \cup {b}) =
                IF b \in probing \ {a} THEN Cardinality(probing \ {a})
                ELSE Cardinality(probing \ {a}) + 1
      BY <1>2, FS_AddElement
    <3> QED
      BY <1>1, <1>2, <2>2, <3>1
  <2>5. probed' = [i \in 1..Len(ProbeList) |-> IF i < index' THEN 1 ELSE 0]
    BY <1>1, <2>2, <2>3 DEF WorkersInv
  <2> QED
    BY <1>1, <2>2, <2>3, <2>4, <2>5 DEF WorkersInv
<1>4. CASE ~(index <= Len(ProbeList))
  <2>1. probing' = probing \ {a} /\ UNCHANGED <<probed, index>>
    BY <1>4 DEF Scan!TakeNext
  <2> QED
    BY <1>1, <1>2, <1>4, <2>1 DEF WorkersInv
<1> QED
  BY <1>3, <1>4

\* The two lists are merged by url: one server of each url that was heard.
LEMMA MergedLists ==
  ASSUME AnswersInv, NEW found \in SUBSET (servers \cup Scan!Range(httpServers)),
         Scan!Merged(found)
  PROVE  /\ {UrlOf(s) : s \in heard} \subseteq {UrlOf(s) : s \in found}
         /\ \A s, t \in found : UrlOf(s) = UrlOf(t) => s = t
<1>1. /\ heard = servers \cup Scan!Range(httpServers) /\ heard \subseteq Announced
      /\ Scan!Range(httpServers) = {httpServers[i] : i \in DOMAIN httpServers}
  BY DEF AnswersInv, Scan!Range
<1>2. ASSUME NEW s \in heard
      PROVE  \E t \in found : {r \in found : UrlOf(r) = UrlOf(s)} = {t}
  <2> DEFINE u == UrlOf(s)
             later == {i \in DOMAIN httpServers : UrlOf(httpServers[i]) = u}
             earlier == {r \in servers : UrlOf(r) = u}
             ofUrl == {r \in found : UrlOf(r) = u}
             last == {j \in later : \A k \in later : k <= j}
  <2>1. u \in Scan!AnnouncedUrls
    BY <1>1 DEF Scan!AnnouncedUrls
  <2>2. ofUrl \in IF later # {} THEN {{httpServers[i]} : i \in last}
                  ELSE IF earlier # {} THEN {{r} : r \in earlier} ELSE {{}}
    BY <2>1 DEF Scan!Merged
  <2>3. later # {} \/ earlier # {}
    BY <1>1
  <2> HIDE DEF later, earlier, last
  <2>4. \E t : ofUrl = {t}
    BY <2>2, <2>3
  <2> QED
    BY <2>4
<1>3. {UrlOf(s) : s \in heard} \subseteq {UrlOf(s) : s \in found}
  <2> SUFFICES ASSUME NEW s \in heard PROVE \E t \in found : UrlOf(t) = UrlOf(s)
    OBVIOUS
  <2> QED
    BY <1>2
<1>4. ASSUME NEW s \in found, NEW t \in found, UrlOf(s) = UrlOf(t) PROVE s = t
  <2>1. PICK q \in found : {r \in found : UrlOf(r) = UrlOf(s)} = {q}
    BY <1>1, <1>2
  <2>2. s \in {q} /\ t \in {q}
    BY <1>4, <2>1
  <2> QED
    BY <2>2
<1> QED
  BY <1>3, <1>4

LEMMA ScanUdpStep ==
  ASSUME AnswersInv, UNCHANGED <<probing, httpServers, result>>,
         \/ \E s \in Announced :
              \/ Scan!announcePresence(s) \/ Scan!handleMessage(s) \/ Scan!DiscoveryError(s)
              \/ Scan!Lost(s) \/ Scan!MessageArrives(s)
         \/ Scan!Bind \/ Scan!BindError \/ Scan!SocketError \/ Scan!TimeoutFires
  PROVE  AnswersInv'
<1>1. CASE \E s \in Announced :
              \/ Scan!announcePresence(s) \/ Scan!handleMessage(s) \/ Scan!DiscoveryError(s)
              \/ Scan!Lost(s)
  BY <1>1 DEF Scan!announcePresence, Scan!handleMessage, Scan!DiscoveryError, Scan!Lost,
     Scan!udpVars, Scan!httpVars, AnswersInv, Scan!AnswerIsListed
<1>2. ASSUME NEW s \in Announced, Scan!MessageArrives(s)
      PROVE  AnswersInv'
  <2>1. /\ responses' = responses \ {s}
        /\ UNCHANGED <<listening, attempt, socket, timer, udp>>
        /\ IF socket = "bound"
           THEN /\ servers' = {t \in servers : ~Scan!SameServer(s, t)} \cup {s}
                /\ heard' = heard \cup {s}
           ELSE UNCHANGED <<servers, heard>>
    BY <1>2 DEF Scan!MessageArrives, Scan!httpVars
  <2>2. CASE socket = "bound"
    <3>1. servers' = servers \cup {s} /\ heard' = heard \cup {s}
      <4>1. \A t \in servers : Scan!SameServer(s, t) => s = t
        BY ScanConstants DEF AnswersInv
      <4> QED
        BY <2>1, <2>2, <4>1
    <3>2. result.state # "resolved"
      BY <2>2 DEF AnswersInv
    <3> QED
      BY <2>1, <2>2, <3>1, <3>2 DEF AnswersInv
  <2>3. CASE socket # "bound"
    BY <2>1, <2>3 DEF AnswersInv, Scan!AnswerIsListed
  <2> QED
    BY <2>2, <2>3
<1>3. CASE Scan!Bind \/ Scan!BindError \/ Scan!SocketError \/ Scan!TimeoutFires
  BY <1>3 DEF Scan!Bind, Scan!BindError, Scan!SocketError, Scan!TimeoutFires, Scan!finish,
     Scan!httpVars, AnswersInv, Scan!AnswerIsListed
<1> QED
  BY <1>1, <1>2, <1>3

LEMMA ScanProbeStep ==
  ASSUME ScanInv, NEW a \in Addresses,
         Scan!ProbeFails(a) \/ \E s \in Announced : Scan!ProbeAnswered(a, s)
  PROVE  ScanInv'
<1>1. a \in probing /\ WorkersInv' /\ result.state # "resolved"
      /\ UNCHANGED <<listening, responses, attempt, socket, timer, servers, udp, result>>
  BY WorkerGoesOn DEF ScanInv, AnswersInv, Scan!ProbeFails, Scan!ProbeAnswered, Scan!udpVars
<1>2. CASE Scan!ProbeFails(a)
  BY <1>1, <1>2 DEF ScanInv, AnswersInv, Scan!ProbeFails
<1>3. ASSUME NEW s \in Announced, Scan!ProbeAnswered(a, s)
      PROVE  ScanInv'
  <2>1. httpServers' = Append(httpServers, s) /\ heard' = heard \cup {s}
    BY <1>3 DEF Scan!ProbeAnswered
  <2>2. /\ httpServers' \in Seq(Announced)
        /\ Scan!Range(httpServers') = Scan!Range(httpServers) \cup {s}
    BY <2>1 DEF ScanInv, AnswersInv, Scan!Range
  <2> QED
    BY <1>1, <2>1, <2>2 DEF ScanInv, AnswersInv
<1> QED
  BY <1>2, <1>3

LEMMA ScanEndsStep ==
  ASSUME ScanInv, Scan!Resolve \/ Scan!Reject
  PROVE  ScanInv'
<1>1. UNCHANGED <<listening, responses, attempt, socket, timer, servers, udp, index,
                  probing, httpServers, probed, heard>>
  BY DEF Scan!Resolve, Scan!Reject, Scan!udpVars, Scan!httpVars
<1>2. WorkersInv'
  BY <1>1 DEF ScanInv, WorkersInv
<1>3. CASE Scan!Resolve
  <2>1. PICK found \in SUBSET (servers \cup Scan!Range(httpServers)) :
          Scan!Merged(found) /\ result' = [state |-> "resolved", list |-> found]
    BY <1>3 DEF Scan!Resolve
  <2>2. /\ {UrlOf(s) : s \in heard} \subseteq {UrlOf(s) : s \in found}
        /\ \A s, t \in found : UrlOf(s) = UrlOf(t) => s = t
    BY <2>1, MergedLists DEF ScanInv
  <2>3. result'.state = "resolved" /\ result'.list = found
    BY <2>1
  <2>4. Scan!AnswerIsListed'
    BY <1>1, <2>2, <2>3 DEF Scan!AnswerIsListed
  <2>5. udp = "resolved" /\ probing = {}
    BY <1>3 DEF Scan!Resolve
  <2> QED
    BY <1>1, <1>2, <2>3, <2>4, <2>5 DEF ScanInv, AnswersInv
<1>4. CASE Scan!Reject
  <2>1. result'.state = "rejected" /\ result'.list = {}
    BY <1>4 DEF Scan!Reject
  <2> QED
    BY <1>1, <1>2, <2>1 DEF ScanInv, AnswersInv
<1> QED
  BY <1>3, <1>4

LEMMA ScanStep == ScanInv /\ [ViewerNext]_viewerVars => ScanInv'
<1> SUFFICES ASSUME ScanInv, Scan!Next \/ UNCHANGED scanVars PROVE ScanInv'
  BY PartSteps
<1>1. CASE UNCHANGED scanVars
  BY <1>1 DEF scanVars, ScanInv, WorkersInv, AnswersInv, Scan!AnswerIsListed
<1>2. ASSUME \/ \E s \in Announced :
                  \/ Scan!announcePresence(s) \/ Scan!handleMessage(s)
                  \/ Scan!DiscoveryError(s) \/ Scan!Lost(s) \/ Scan!MessageArrives(s)
             \/ Scan!Bind \/ Scan!BindError \/ Scan!SocketError \/ Scan!TimeoutFires
      PROVE  ScanInv'
  <2>1. UNCHANGED <<index, probing, httpServers, probed, result>>
    BY <1>2 DEF Scan!announcePresence, Scan!handleMessage, Scan!DiscoveryError, Scan!Lost,
       Scan!MessageArrives, Scan!Bind, Scan!BindError, Scan!SocketError, Scan!TimeoutFires,
       Scan!httpVars
  <2> QED
    BY <1>2, <2>1, ScanUdpStep DEF ScanInv, WorkersInv
<1>3. ASSUME NEW a \in Addresses,
             Scan!ProbeFails(a) \/ \E s \in Announced : Scan!ProbeAnswered(a, s)
      PROVE  ScanInv'
  BY <1>3, ScanProbeStep
<1> QED
  BY <1>1, <1>2, <1>3, ScanEndsStep DEF Scan!Next

\* While the workers are busy each address has been probed at most once, and when
\* none is, every address has.
LEMMA ScanHolds ==
  ASSUME ScanInv
  PROVE  Scan!TypeOK /\ Scan!ProbedOnce /\ Scan!AnswerIsListed
<1>1. Len(ProbeList) \in Nat
  BY ScanConstants
<1>2. Scan!TypeOK
  <2>1. probed \in [1..Len(ProbeList) -> 0..1]
    BY DEF ScanInv, WorkersInv
  <2>2. heard \subseteq Announced
    BY DEF ScanInv, AnswersInv, Scan!Range
  <2> QED
    BY <2>1, <2>2 DEF ScanInv, WorkersInv, AnswersInv, Scan!TypeOK, Scan!Attempts
<1>3. Scan!ProbedOnce
  <2>1. \A i \in 1..Len(ProbeList) : probed[i] = IF i < index THEN 1 ELSE 0
    BY DEF ScanInv, WorkersInv
  <2>2. probing = {} => \A i \in 1..Len(ProbeList) : i < index
    BY <1>1 DEF ScanInv, WorkersInv
  <2>3. \A i \in 1..Len(ProbeList) : probed[i] <= 1
    BY <2>1
  <2>4. ASSUME result.state = "resolved" PROVE \A i \in 1..Len(ProbeList) : probed[i] = 1
    <3>1. probing = {}
      BY <2>4 DEF ScanInv, AnswersInv
    <3> QED
      BY <2>1, <2>2, <3>1
  <2>5. Scan!Cardinality(probing) <= Scan!workerCount
    BY FiniteSetsOfParts DEF ScanInv, WorkersInv
  <2> QED
    BY <2>3, <2>4, <2>5 DEF Scan!ProbedOnce
<1> QED
  BY <1>2, <1>3 DEF ScanInv, AnswersInv, Scan!AnswerIsListed

-------------------------------------------------------------------------------
(* The picker                                                                *)

ScanRecords == [serverUrl : Urls \cup {defaultServerUrl}, isConnected : BOOLEAN,
                phase : {"discover", "latencies"}]

\* A url that was entered, not the default one, stays as long as a scan that may take
\* it, which was looking for servers already, has not found any; a scan that is started
\* later goes by another url than the default one.
PickerInv ==
  /\ serverUrl \in Urls \cup {defaultServerUrl} /\ raced \in BOOLEAN
  /\ scan # None => scan \in ScanRecords
  /\ entered \notin {None, defaultServerUrl} =>
      /\ serverUrl # defaultServerUrl
      /\ raced = FALSE => serverUrl = entered /\ ~Picker!MayTake
      /\ Picker!MayTake => serverUrl = entered

LEMMA PickerStep == PickerInv /\ [ViewerNext]_viewerVars => PickerInv'
<1> SUFFICES ASSUME PickerInv, Picker!Next \/ UNCHANGED pickerVars PROVE PickerInv'
  BY PartSteps
<1> USE DEF Picker!isDiscovering
<1>1. defaultServerUrl \notin Urls /\ None \notin Urls
  BY ViewerAppAssumption DEF Picker!ServerPickerAssumption
<1>2. ASSUME NEW found \in Picker!Found, Picker!ServersFound(found) PROVE PickerInv'
  <2>1. /\ UNCHANGED entered /\ scan # None /\ scan \in ScanRecords
        /\ scan' = [scan EXCEPT !.phase = "latencies"]
        /\ serverUrl' = IF Picker!MayTake /\ found # <<>> THEN found[1] ELSE serverUrl
    BY <1>2 DEF Picker!ServersFound, PickerInv
  <2>2. scan' \in ScanRecords /\ ~Picker!MayTake'
    BY <2>1 DEF ScanRecords, Picker!MayTake
  <2>3. raced' = (raced /\ ~(Picker!MayTake /\ found = <<>>))
    BY <1>2 DEF Picker!ServersFound
  <2>4. /\ raced' \in BOOLEAN
        /\ raced' = FALSE => raced = FALSE \/ (Picker!MayTake /\ found = <<>>)
    <3>1. raced' \in BOOLEAN
      BY <2>3, Zenon
    <3>2. CASE raced = TRUE
      <4>1. raced' = ~(Picker!MayTake /\ found = <<>>)
        BY <2>3, <3>2, Zenon
      <4>2. raced' = FALSE => Picker!MayTake /\ found = <<>>
        BY <4>1, Zenon
      <4> QED
        BY <3>1, <4>2
    <3> QED
      BY <3>1, <3>2 DEF PickerInv
  <2>5. CASE Picker!MayTake /\ found # <<>>
    <3>1. found[1] \in Urls
      BY <2>5 DEF Picker!Found
    <3>2. entered \notin {None, defaultServerUrl} => raced' # FALSE
      BY <2>4, <2>5 DEF PickerInv
    <3> QED
      BY <1>1, <2>1, <2>2, <2>4, <2>5, <3>1, <3>2 DEF PickerInv
  <2>6. CASE ~(Picker!MayTake /\ found # <<>>)
    <3>1. serverUrl' = serverUrl
      BY <2>1, <2>6
    <3> QED
      BY <2>1, <2>2, <2>4, <3>1 DEF PickerInv
  <2> QED
    BY <2>5, <2>6
<1>3. CASE Picker!scanServers
  <2>1. /\ scan = None /\ UNCHANGED <<serverUrl, entered, raced>> /\ scan' \in ScanRecords
        /\ scan'.serverUrl = serverUrl
    BY <1>3 DEF Picker!scanServers, Picker!NewScan, PickerInv, ScanRecords
  <2>2. serverUrl # defaultServerUrl => ~Picker!MayTake'
    BY <2>1 DEF Picker!MayTake
  <2> QED
    BY <2>1, <2>2 DEF PickerInv
<1>4. CASE Picker!ScanFails
  <2>1. scan' = None /\ UNCHANGED <<serverUrl, entered>> /\ ~Picker!MayTake'
    BY <1>4 DEF Picker!ScanFails, Picker!MayTake
  <2>2. raced' = (raced /\ ~Picker!MayTake)
    BY <1>4 DEF Picker!ScanFails
  <2>3. raced' \in BOOLEAN /\ (raced' = FALSE => raced = FALSE \/ Picker!MayTake)
    BY <2>2, Zenon DEF PickerInv
  <2> QED
    BY <2>1, <2>3 DEF PickerInv
<1>5. CASE Picker!LatenciesKnown
  BY <1>5 DEF Picker!LatenciesKnown, Picker!MayTake, PickerInv
<1>6. ASSUME NEW url \in Urls \cup {defaultServerUrl}, Picker!EnterUrl(url) PROVE PickerInv'
  <2>1. serverUrl' = url /\ entered' = url /\ scan' = scan
    BY <1>6 DEF Picker!EnterUrl
  <2>2. raced' = Picker!MayTake /\ (Picker!MayTake' <=> Picker!MayTake)
    BY <1>6, <2>1, Zenon DEF Picker!EnterUrl, Picker!MayTake
  <2>3. raced' \in BOOLEAN /\ (raced' = FALSE => ~Picker!MayTake')
    BY <2>2, Zenon DEF Picker!MayTake
  <2> QED
    BY <2>1, <2>3 DEF PickerInv
<1>7. CASE Picker!connect \/ Picker!disconnect
  BY <1>7 DEF Picker!connect, Picker!disconnect, Picker!MayTake, PickerInv
<1>8. CASE UNCHANGED pickerVars
  BY <1>8 DEF pickerVars, Picker!MayTake, PickerInv
<1>9. CASE Picker!Next
  BY <1>2, <1>3, <1>4, <1>5, <1>6, <1>7, <1>9 DEF Picker!Next
<1> QED
  BY <1>8, <1>9

LEMMA PickerInit == Picker!Init => PickerInv
<1> SUFFICES ASSUME Picker!Init PROVE PickerInv
  OBVIOUS
<1>1. scan \in ScanRecords
  BY DEF Picker!Init, ScanRecords
<1>2. serverUrl = defaultServerUrl /\ raced = FALSE /\ entered = None
  BY DEF Picker!Init
<1> QED
  BY <1>1, <1>2 DEF PickerInv

LEMMA PickerHolds == PickerInv => Picker!EnteredUrlStays
<1>1. PickerInv /\ ~raced => raced = FALSE
  BY Zenon DEF PickerInv
<1> QED
  BY <1>1 DEF PickerInv, Picker!EnteredUrlStays

\* For every number of servers, probes, workers and scans: a scan probes every address
\* once and lists each server that answered once for its url; and a url that the user
\* entered, other than the default one, is replaced only by a scan that was looking for
\* servers when it was entered (discoveryClient.ts discoverServers, useServerDiscovery.ts
\* scanServers).
THEOREM ServersOfViewerFound == ViewerSpec => []ServersFound
<1>1. ViewerInit => ScanInv /\ PickerInv
  BY ScanInit, PickerInit DEF ViewerInit
<1>2. ScanInv /\ PickerInv /\ [ViewerNext]_viewerVars => ScanInv' /\ PickerInv'
  BY ScanStep, PickerStep, PartSteps
<1>3. ScanInv /\ PickerInv => ServersFound
  BY ScanHolds, PickerHolds DEF ServersFound
<1> QED
  BY <1>1, <1>2, <1>3, PTL DEF ViewerSpec

===============================================================================
