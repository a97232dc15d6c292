------------------------------ MODULE Clipboard --------------------------------
(***************************************************************************)
(* The two ends of a session keep their clipboards the same: each polls its  *)
(* own, sends what has changed after a pause, and writes what it receives.   *)
(***************************************************************************)
EXTENDS Naturals, Sequences, FiniteSets

CONSTANTS
    Ends, Other(_),     \* the viewer and the host
    Contents, Empty,    \* what a clipboard can hold; Empty has no data
    Refused,        \* contents that the other end takes for invalid
    Written(_, _),  \* what an end reads after it wrote a content
    Copies,         \* the contents that an end's user copies
    Drops,          \* the channel may be lost
    MaxCopies       \* bound: so often a user copies, or a channel is lost

ClipboardAssumption ==
    /\ Empty \in Contents /\ Refused \subseteq Contents
    /\ Copies \in [Ends -> SUBSET Contents]
    /\ Drops \in BOOLEAN /\ MaxCopies \in Nat

VARIABLES
    board,      \* the clipboard of the operating system
    clipboardSnapshot, remoteClipboardSnapshot,
    pending,    \* pendingClipboardMessage; Empty when there is none
    interval,   \* the interval is set
    channelOpen,    \* the control channel
    wire,       \* what is under way to an end
    copied      \* how often something was copied or the channel lost

snapshots == <<clipboardSnapshot, remoteClipboardSnapshot>>
vars == <<board, snapshots, pending, interval, channelOpen, wire, copied>>

Init ==
    /\ board \in [Ends -> {Empty} \cup UNION {Copies[e] : e \in Ends}]
    /\ clipboardSnapshot = board
    /\ remoteClipboardSnapshot = [e \in Ends |-> Empty]
    /\ pending = [e \in Ends |-> Empty]
    /\ interval = [e \in Ends |-> TRUE]
    /\ channelOpen = TRUE /\ wire = [e \in Ends |-> <<>>] /\ copied = 0

Quiet ==
    \A e \in Ends : wire[e] = <<>> /\ pending[e] = Empty
                    /\ board[e] \in {clipboardSnapshot[e], remoteClipboardSnapshot[e]}

hasClipboardData(content) == content # Empty

Copy(e, content) ==
    /\ copied < MaxCopies
    /\ board' = [board EXCEPT ![e] = content]
    /\ copied' = copied + 1
    /\ UNCHANGED <<snapshots, pending, interval, channelOpen, wire>>

\* A poll that finds nothing new changes nothing; a content replaces one that
\* waits to be sent.
Poll(e) ==
    /\ interval[e] /\ channelOpen
    /\ board[e] # clipboardSnapshot[e]
    /\ clipboardSnapshot' = [clipboardSnapshot EXCEPT ![e] = board[e]]
    /\ pending' = IF board[e] # remoteClipboardSnapshot[e] /\ hasClipboardData(board[e])
                  THEN [pending EXCEPT ![e] = board[e]] ELSE pending
    /\ UNCHANGED <<board, remoteClipboardSnapshot, interval, channelOpen, wire, copied>>

SendPending(e) ==
    /\ pending[e] # Empty
    /\ pending' = [pending EXCEPT ![e] = Empty]
    /\ wire' = IF channelOpen THEN [wire EXCEPT ![Other(e)] = Append(@, pending[e])]
               ELSE wire
    /\ UNCHANGED <<board, snapshots, interval, channelOpen, copied>>

sanitizeClipboardSyncMessage(content) == content \notin Refused

\* Mutant: the snapshot of what was received is taken before it is written.
applyRemoteClipboardEarly(e, content) ==
    /\ remoteClipboardSnapshot' = remoteClipboardSnapshot
    /\ clipboardSnapshot' = [clipboardSnapshot EXCEPT ![e] = board[e]]
    /\ board' = [board EXCEPT ![e] = IF @ = content THEN @ ELSE Written(e, content)]

applyRemoteClipboard(e, content) ==
    /\ remoteClipboardSnapshot' = [remoteClipboardSnapshot EXCEPT ![e] = content]
    /\ clipboardSnapshot' = [clipboardSnapshot EXCEPT ![e] = content]
    /\ board' = [board EXCEPT ![e] = IF @ = content THEN @ ELSE Written(e, content)]

Receive(e) ==
    /\ wire[e] # <<>>
    /\ wire' = [wire EXCEPT ![e] = Tail(@)]
    /\ IF sanitizeClipboardSyncMessage(Head(wire[e])) /\ hasClipboardData(Head(wire[e]))
       THEN applyRemoteClipboard(e, Head(wire[e]))
       ELSE UNCHANGED <<board, snapshots>>
    /\ UNCHANGED <<pending, interval, channelOpen, copied>>

\* stopClipboardSync at both ends; what was on its way is lost.
ChannelCloses ==
    /\ Drops /\ channelOpen /\ copied < MaxCopies
    /\ copied' = copied + 1
    /\ channelOpen' = FALSE
    /\ wire' = [e \in Ends |-> <<>>]
    /\ pending' = [e \in Ends |-> Empty]
    /\ interval' = [e \in Ends |-> FALSE]
    /\ UNCHANGED <<board, snapshots>>

\* startClipboardSync: what was copied meanwhile is where the polling starts.
ChannelOpens ==
    /\ ~channelOpen
    /\ channelOpen' = TRUE
    /\ clipboardSnapshot' = board
    /\ interval' = [e \in Ends |-> TRUE]
    /\ UNCHANGED <<board, remoteClipboardSnapshot, pending, wire, copied>>

Sync(e) == Poll(e) \/ SendPending(e) \/ Receive(e)

Next ==
    \/ \E e \in Ends : Sync(e) \/ \E content \in Copies[e] : Copy(e, content)
    \/ ChannelCloses \/ ChannelOpens

Spec == Init /\ [][Next]_vars
FairSpec ==
    /\ Spec
    /\ \A e \in Ends : WF_vars(Poll(e)) /\ WF_vars(SendPending(e)) /\ WF_vars(Receive(e))
    /\ WF_vars(ChannelOpens)

-------------------------------------------------------------------------------

TypeOK ==
    /\ board \in [Ends -> Contents]
    /\ clipboardSnapshot \in [Ends -> Contents]
    /\ remoteClipboardSnapshot \in [Ends -> Contents]
    /\ pending \in [Ends -> Contents]
    /\ interval \in [Ends -> BOOLEAN] /\ channelOpen \in BOOLEAN
    /\ \A e \in Ends : \A i \in DOMAIN wire[e] : wire[e][i] \in Contents

\* While there is no channel no end polls, and nothing that was copied before
\* waits to be sent on the next one.
NothingWaits == ~channelOpen => \A e \in Ends : ~interval[e] /\ pending[e] = Empty

\* Nothing is sent back: what an end sends, its own user has copied.
NoEcho ==
    \A e \in Ends : \A i \in DOMAIN wire[Other(e)] : wire[Other(e)][i] \in Copies[e]

\* What one user copied last is what both clipboards hold once all is quiet,
\* when the other user copies nothing, no channel is lost and what is written
\* is read back as it was.
LastCopyArrives ==
    \A e \in Ends :
        Quiet /\ remoteClipboardSnapshot[Other(e)] # Empty
              /\ board[e] \notin Refused \cup {Empty}
            => board[Other(e)] = board[e]

\* The two ends come to rest, though what is read may differ from what was
\* written: a copy does not go back and forth for ever.
ComesToRest == <>[]Quiet

-------------------------------------------------------------------------------
(* What every step preserves where an end reads back what it has written.    *)

Wires ==
    /\ wire \in [Ends -> Seq(Contents)]
    /\ \A e \in Ends : \A i \in DOMAIN wire[e] : wire[e][i] # Empty

\* A clipboard that holds neither what was polled nor what was received holds
\* what its own user has copied, and so does what waits to be sent.
SentIsOwn ==
    \A e \in Ends :
        /\ board[e] \in {clipboardSnapshot[e], remoteClipboardSnapshot[e]} \cup Copies[e]
        /\ pending[e] \in {Empty} \cup Copies[e]

EchoInv == TypeOK /\ Wires /\ NothingWaits /\ NoEcho /\ SentIsOwn

\* What an end has polled last waits to be sent, is the last under way, has been
\* refused, or is what the other end has received last; or nothing was sent yet.
LastPolledIsOnItsWay(e, o) ==
    \/ clipboardSnapshot[e] = Empty
    \/ pending[e] = clipboardSnapshot[e]
    \/ /\ pending[e] = Empty /\ wire[o] # <<>>
       /\ wire[o][Len(wire[o])] = clipboardSnapshot[e]
    \/ /\ pending[e] = Empty /\ wire[o] = <<>>
       /\ \/ clipboardSnapshot[e] \in Refused
          \/ remoteClipboardSnapshot[o] \in {Empty, clipboardSnapshot[e]}

\* An end whose user copies nothing only receives.
OneWay ==
    \A e \in Ends : Copies[Other(e)] = {} =>
        /\ wire[e] = <<>> /\ pending[Other(e)] = Empty
        /\ remoteClipboardSnapshot[e] = Empty
        /\ board[Other(e)] = clipboardSnapshot[Other(e)]
        /\ remoteClipboardSnapshot[Other(e)] \in {Empty, board[Other(e)]}
        /\ LastPolledIsOnItsWay(e, Other(e))

CopyingInv == TypeOK /\ Wires /\ channelOpen /\ OneWay

===============================================================================
