----------------------------- MODULE DiscoveryScan -----------------------------
(***************************************************************************)
(* One scan for servers on the LAN: a UDP socket that asks and listens until *)
(* a timeout, on the discovery port or else on any port, and HTTP probes by a *)
(* few workers that take addresses from a list.  The servers announce         *)
(* themselves on the discovery port and answer requests.                     *)
(***************************************************************************)
EXTENDS Naturals, Sequences, FiniteSets, SequencesExt

CONSTANTS
    Addresses, Servers,
    ServerAddress(_), Port(_), Url(_),  \* what a server's response says
    DefaultPort,
    ProbeList,      \* the addresses to probe
    Concurrency,    \* the number of workers
    BindFails       \* the attempts whose bind may fail

Attempts == {1, 2}

\* Two servers do not have the same port of the same address.
DiscoveryAssumption ==
    /\ \A s \in Servers : ServerAddress(s) \in Addresses
    /\ \A s, t \in Servers :
        ServerAddress(s) = ServerAddress(t) /\ Port(s) = Port(t) => s = t
    /\ ProbeList \in Seq(Addresses) /\ IsInjective(ProbeList)
    /\ Concurrency \in Nat /\ BindFails \subseteq Attempts

VARIABLES
    listening,      \* the servers that have their UDP socket
    attempt, socket,    \* the scan's socket: binding, bound or closed
    timer,          \* the scan's timeout is set
    responses,      \* the servers a response of which is under way to the socket
    servers,        \* what the socket has heard
    udp,            \* the promise of the UDP discovery
    index, probing, \* the next address and those that are probed now
    httpServers,    \* what the probes have found, in order
    probed,         \* how often an address was probed
    heard,          \* the servers that answered this socket or a probe
    result          \* what discoverServers resolves to

udpVars == <<attempt, socket, timer, servers, udp>>
httpVars == <<index, probing, httpServers, probed>>
vars == <<listening, responses, udpVars, httpVars, heard, result>>

NoResult == [state |-> "running", list |-> {}]
AnnouncedUrls == {Url(s) : s \in Servers}

\* discoverServersByHttp runs up to its first await in the call.
workerCount ==
    LET atLeastOne == IF Concurrency = 0 THEN 1 ELSE Concurrency
    IN  IF atLeastOne > Len(ProbeList) THEN Len(ProbeList) ELSE atLeastOne

Init ==
    /\ listening = Servers /\ responses = {}
    /\ attempt = 1 /\ socket = "binding" /\ timer = FALSE
    /\ servers = {} /\ udp = "running"
    /\ index = workerCount + 1
    /\ probing = {ProbeList[i] : i \in 1..workerCount}
    /\ httpServers = <<>>
    /\ probed = [i \in 1..Len(ProbeList) |-> IF i <= workerCount THEN 1 ELSE 0]
    /\ heard = {} /\ result = NoResult

-------------------------------------------------------------------------------
\* The servers

\* An announcement reaches the discovery port only.
announcePresence(s) ==
    /\ s \in listening /\ s \notin responses
    /\ socket = "bound" /\ attempt = 1
    /\ responses' = responses \cup {s}
    /\ UNCHANGED <<listening, udpVars, httpVars, heard, result>>

\* The request was sent when the socket was bound; it may be lost.
handleMessage(s) ==
    /\ s \in listening /\ s \notin responses
    /\ socket = "bound"
    /\ responses' = responses \cup {s}
    /\ UNCHANGED <<listening, udpVars, httpVars, heard, result>>

\* A server keeps running without discovery.
DiscoveryError(s) ==
    /\ s \in listening
    /\ listening' = listening \ {s}
    /\ UNCHANGED <<responses, udpVars, httpVars, heard, result>>

Lost(s) ==
    /\ s \in responses /\ responses' = responses \ {s}
    /\ UNCHANGED <<listening, udpVars, httpVars, heard, result>>

-------------------------------------------------------------------------------
\* The scan's socket

finish == socket' = "closed" /\ udp' = "resolved"

Bind ==
    /\ socket = "binding"
    /\ socket' = "bound" /\ timer' = TRUE
    /\ UNCHANGED <<listening, responses, attempt, servers, udp, httpVars, heard, result>>

\* The first attempt that fails is followed by one on any port.
BindError ==
    /\ socket = "binding" /\ attempt \in BindFails
    /\ IF attempt = 1
       THEN attempt' = 2 /\ UNCHANGED <<socket, udp>>
       ELSE socket' = "closed" /\ udp' = "rejected" /\ UNCHANGED attempt
    /\ UNCHANGED <<listening, responses, timer, servers, httpVars, heard, result>>

SocketError ==
    /\ socket = "bound" /\ finish
    /\ UNCHANGED <<listening, responses, attempt, timer, servers, httpVars, heard, result>>

\* Mutant: the servers are told apart by their address only.
SameServerByAddress(s, t) == ServerAddress(s) = ServerAddress(t)

\* The key of the map of servers.
SameServer(s, t) == ServerAddress(s) = ServerAddress(t) /\ Port(s) = Port(t)

MessageArrives(s) ==
    /\ s \in responses /\ responses' = responses \ {s}
    /\ IF socket = "bound"
       THEN /\ servers' = {t \in servers : ~SameServer(s, t)} \cup {s}
            /\ heard' = heard \cup {s}
       ELSE UNCHANGED <<servers, heard>>
    /\ UNCHANGED <<listening, attempt, socket, timer, udp, httpVars, result>>

\* After an error there is nothing left to finish.
TimeoutFires ==
    /\ timer /\ timer' = FALSE
    /\ IF socket = "bound" THEN finish ELSE UNCHANGED <<socket, udp>>
    /\ UNCHANGED <<listening, responses, attempt, servers, httpVars, heard, result>>

-------------------------------------------------------------------------------
\* The HTTP probes

\* A worker that is done with an address takes the next one.
TakeNext(a) ==
    IF index <= Len(ProbeList)
    THEN /\ probing' = (probing \ {a}) \cup {ProbeList[index]}
         /\ probed' = [probed EXCEPT ![index] = @ + 1]
         /\ index' = index + 1
    ELSE probing' = probing \ {a} /\ UNCHANGED <<probed, index>>

\* A probe knows one port; it fails, or times out, without an error.
ProbeAnswered(a, s) ==
    /\ a \in probing /\ ServerAddress(s) = a /\ Port(s) = DefaultPort
    /\ httpServers' = Append(httpServers, s)
    /\ heard' = heard \cup {s}
    /\ TakeNext(a)
    /\ UNCHANGED <<listening, responses, udpVars, result>>

ProbeFails(a) ==
    /\ a \in probing
    /\ TakeNext(a)
    /\ UNCHANGED <<listening, responses, udpVars, httpServers, heard, result>>

-------------------------------------------------------------------------------
\* discoverServers

\* A later server of a url replaces an earlier one, and the probes come last.
Merged(found) ==
    \A u \in AnnouncedUrls :
        LET later == {i \in DOMAIN httpServers : Url(httpServers[i]) = u}
            earlier == {s \in servers : Url(s) = u}
        IN  {s \in found : Url(s) = u} \in
                IF later # {}
                THEN {{httpServers[i]} : i \in {j \in later : \A k \in later : k <= j}}
                ELSE IF earlier # {} THEN {{s} : s \in earlier} ELSE {{}}

Resolve ==
    /\ result = NoResult
    /\ udp = "resolved" /\ probing = {}
    /\ \E found \in SUBSET (servers \cup Range(httpServers)) :
        Merged(found) /\ result' = [state |-> "resolved", list |-> found]
    /\ UNCHANGED <<listening, responses, udpVars, httpVars, heard>>

\* Promise.all does not wait for the probes.
Reject ==
    /\ result = NoResult /\ udp = "rejected"
    /\ result' = [state |-> "rejected", list |-> {}]
    /\ UNCHANGED <<listening, responses, udpVars, httpVars, heard>>

ProbeEnds(a) == ProbeFails(a) \/ \E s \in Servers : ProbeAnswered(a, s)

Next ==
    \/ \E s \in Servers : \/ announcePresence(s) \/ handleMessage(s) \/ DiscoveryError(s)
                          \/ Lost(s) \/ MessageArrives(s)
    \/ Bind \/ BindError \/ SocketError \/ TimeoutFires
    \/ \E a \in Addresses : ProbeFails(a) \/ \E s \in Servers : ProbeAnswered(a, s)
    \/ Resolve \/ Reject

Spec == Init /\ [][Next]_vars

\* A bind succeeds or fails, a timer fires, a probe ends within its own timeout.
FairSpec ==
    /\ Spec
    /\ WF_vars(Bind \/ BindError) /\ WF_vars(TimeoutFires)
    /\ \A a \in Addresses : WF_vars(ProbeEnds(a))
    /\ WF_vars(Resolve \/ Reject)

-------------------------------------------------------------------------------
\* The variables have their types.
TypeOK ==
    /\ listening \subseteq Servers /\ responses \subseteq Servers
    /\ attempt \in Attempts /\ socket \in {"binding", "bound", "closed"}
    /\ timer \in BOOLEAN
    /\ servers \subseteq heard /\ heard \subseteq Servers
    /\ udp \in {"running", "resolved", "rejected"}
    /\ index \in 1..(Len(ProbeList) + 1) /\ probing \subseteq Range(ProbeList)
    /\ httpServers \in Seq(Servers) /\ probed \in [1..Len(ProbeList) -> 0..1]
    /\ result.state \in {"running", "resolved", "rejected"} /\ result.list \subseteq heard

\* The workers share one list without a lock: every address is probed once, by
\* no more workers than there are, and all are when the scan ends
\* (discoveryClient.ts runWithConcurrency).
ProbedOnce ==
    /\ Cardinality(probing) <= workerCount
    /\ \A i \in 1..Len(ProbeList) : probed[i] <= 1
    /\ result.state = "resolved" => \A i \in 1..Len(ProbeList) : probed[i] = 1

\* Whatever order answers, errors and the timeout come in, a scan that succeeds
\* lists every server that answered it, under its url, and each url once.
AnswerIsListed ==
    result.state = "resolved" =>
        /\ {Url(s) : s \in heard} \subseteq {Url(s) : s \in result.list}
        /\ \A s, t \in result.list : Url(s) = Url(t) => s = t

\* "probes VPN peers over HTTP when broadcast discovery is unavailable": a server
\* that answered a probe is listed even when no UDP socket can be had.
ProbedIsListed ==
    (result # NoResult /\ probing = {}) =>
        \A s \in Range(httpServers) : Url(s) \in {Url(t) : t \in result.list}

\* Whatever fails, a scan ends.
ScanEnds == <>(result # NoResult)

=============================================================================
