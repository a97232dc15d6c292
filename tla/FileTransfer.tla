----------------------------- MODULE FileTransfer -----------------------------
(***************************************************************************)
(* File transfer in one direction: RemoteControlClient of the sender, the   *)
(* data channel, RemoteControlClient of the receiver, and the receiver's    *)
(* main process, which writes the files (main/fileIpc.ts).                  *)
(*                                                                          *)
(* The receiver's renderer calls its main process asynchronously.  The part *)
(* of a main handler before its first await is taken with the call, the     *)
(* part after the await with the renderer's continuation: calls arrive in   *)
(* the order they are made, and nothing else looks at what is between.      *)
(* Chunks carry their number in place of bytes; the checksum, which always  *)
(* agrees on a reliable channel, is left out.                               *)
(***************************************************************************)
EXTENDS Naturals, Sequences, FiniteSets

CONSTANTS
  Transfers,     \* transfer ids, never used twice (createTransferId)
  Chunks,        \* [Transfers -> Nat]: the number of chunks of a file
  Paths,         \* everything a file can be called in the save directory
  Candidates,    \* [Transfers -> Seq(Paths)]: "a.txt", "a (1).txt", ...
  TempOf,        \* [final paths -> Paths]: appends ".part"
  Leftovers,     \* paths that exist at the start
  MaxIncoming,   \* maxIncomingTransfers
  MaxChannels,   \* bound: how many control channels there are, one at a time
  MaxCloses,     \* bound: how many of them close
  None           \* no path; also the content of a path that does not exist

FinalPaths == UNION {{Candidates[t][i] : i \in DOMAIN Candidates[t]} : t \in Transfers}

ASSUME FileTransferConstants ==
  /\ Chunks \in [Transfers -> Nat]
  /\ Candidates \in [Transfers -> Seq(Paths)]
  /\ TempOf \in [FinalPaths -> Paths]
  /\ Leftovers \subseteq Paths
  /\ MaxIncoming \in Nat \ {0}
  /\ MaxChannels \in Nat
  /\ MaxCloses \in Nat
  /\ None \notin Paths
  /\ None \notin Seq((Transfers \cup {None}) \X Nat)

(***************************************************************************)
(* No file is called what another one is called while it is being written.  *)
(* The code does not see to this: it takes two files of one transfer       *)
(* session called "a" and "a.part" to break it (README, section 3).         *)
(***************************************************************************)
ASSUME TempPathsApart ==
  /\ \A p, q \in FinalPaths : TempOf[p] # q
  /\ \A p, q \in FinalPaths : TempOf[p] = TempOf[q] => p = q

\* A partial file left behind still has the file beside it that reserved its
\* name, and nobody removes that one alone.
ASSUME LeftoversPaired ==
  \A p \in FinalPaths : TempOf[p] \in Leftovers => p \in Leftovers

VARIABLES
  \* the control channel
  open,          \* is there one, and open?
  generation,    \* which one: the number of channels opened so far
  closeEvents,   \* close events that have not reached the receiver
  toReceiver,    \* messages under way, in order
  toSender,      \* aborts under way
  \* the sender
  sender,        \* [pc, next, channel] of each call of sendFile
  abortReasons,  \* outgoingTransferAbortReasons, its keys
  \* the receiver's renderer
  incoming,      \* incomingTransfers, its keys
  transfer,      \* the IncomingFileTransfer objects and their queues
  reports,       \* history: what the user was told of each transfer
  \* the receiver's main process and disk
  saves,         \* incomingFileSaves, its keys
  entry,         \* the sessions, and an unlink under way
  disk           \* content of each path, None where there is no file

channelVars == <<open, generation, closeEvents>>
senderVars == <<sender, abortReasons>>
rendererVars == <<incoming, transfer, reports>>
mainVars == <<saves, entry, disk>>
vars == <<channelVars, toReceiver, toSender, senderVars, rendererVars, mainVars>>

Message == [kind : {"start", "chunk", "complete", "abort"}, id : Transfers, index : Nat]
Msg(kind, t, index) == [kind |-> kind, id |-> t, index |-> index]

Verdicts == {"rejected", "failed", "interrupted", "incomplete", "saved", "disconnected"}
Content == Seq((Transfers \cup {None}) \X Nat)

\* A call of sendFile: where it is suspended, the next chunk, its channel.
OutgoingTransfer ==
  [pc : {"idle", "reading", "draining", "flushing", "sent", "failed"}, next : Nat, channel : Nat]

\* The promise chain is the call under way, busy, and the chunks in queue.
IncomingFileTransfer ==
  [failed : BOOLEAN, stored : Nat, queue : Seq(Nat),
   busy : {"no", "start", "append", "rename"}, completing : BOOLEAN]

IncomingFileSaveSession ==
  [path : FinalPaths \cup {None}, chunks : Nat, unlinking : BOOLEAN]

\* The first n chunks of t's file; all of it.
Prefix(t, n) == [i \in 1..n |-> <<t, i - 1>>]
WholeFile(t) == Prefix(t, Chunks[t])

\* A file that was there before.
Foreign == << <<None, 0>> >>

Temp(t) == TempOf[entry[t].path]

TypeOK ==
  /\ open \in BOOLEAN
  /\ generation \in Nat
  /\ closeEvents \in Nat
  /\ toReceiver \in Seq(Message)
  /\ toSender \subseteq Transfers
  /\ sender \in [Transfers -> OutgoingTransfer]
  /\ abortReasons \subseteq Transfers
  /\ incoming \subseteq Transfers
  /\ transfer \in [Transfers -> IncomingFileTransfer]
  /\ reports \in [Transfers -> SUBSET Verdicts]
  /\ saves \subseteq Transfers
  /\ entry \in [Transfers -> IncomingFileSaveSession]
  /\ disk \in [Paths -> Content \cup {None}]

Init ==
  /\ open = FALSE
  /\ generation = 0
  /\ closeEvents = 0
  /\ toReceiver = << >>
  /\ toSender = {}
  /\ sender = [t \in Transfers |-> [pc |-> "idle", next |-> 0, channel |-> 0]]
  /\ abortReasons = {}
  /\ incoming = {}
  /\ transfer = [t \in Transfers |-> [failed |-> FALSE, stored |-> 0, queue |-> << >>,
                                      busy |-> "no", completing |-> FALSE]]
  /\ reports = [t \in Transfers |-> {}]
  /\ saves = {}
  /\ entry = [t \in Transfers |-> [path |-> None, chunks |-> 0, unlinking |-> FALSE]]
  /\ disk = [p \in Paths |-> IF p \in Leftovers THEN Foreign ELSE None]

-----------------------------------------------------------------------------
(* The channel.  When it closes, what is under way is lost from some point   *)
(* on.  The receiver's close event may come when a new channel is open, or   *)
(* never: closing the peer connection swallows it.                           *)

OpenChannel ==
  /\ ~open
  /\ generation < MaxChannels
  /\ open' = TRUE
  /\ generation' = generation + 1
  /\ UNCHANGED <<closeEvents, toReceiver, toSender, senderVars, rendererVars, mainVars>>

CloseChannel ==
  /\ open
  /\ generation <= MaxCloses
  /\ open' = FALSE
  /\ closeEvents' \in {closeEvents, closeEvents + 1}
  /\ \E n \in 0..Len(toReceiver) : toReceiver' = SubSeq(toReceiver, 1, n)
  /\ toSender' \in SUBSET toSender
  /\ UNCHANGED <<generation, senderVars, rendererVars, mainVars>>

-----------------------------------------------------------------------------
(* The sender, sendFile: suspended while it reads a chunk, waits for the      *)
(* channel to drain after it, or after the last message.                      *)

\* ensureFileTransferChannelOpen: still the current channel, and open.
Usable(t) == open /\ sender[t].channel = generation

\* The start of a file, and its end as well when it is empty.
SendFile(t) ==
  /\ sender[t].pc = "idle"
  /\ open
  /\ IF Chunks[t] = 0
     THEN /\ sender' = [sender EXCEPT ![t].pc = "flushing", ![t].channel = generation]
          /\ toReceiver' = toReceiver \o <<Msg("start", t, 0), Msg("complete", t, 0)>>
     ELSE /\ sender' = [sender EXCEPT ![t].pc = "reading", ![t].channel = generation]
          /\ toReceiver' = Append(toReceiver, Msg("start", t, 0))
  /\ UNCHANGED <<channelVars, toSender, abortReasons, rendererVars, mainVars>>

\* The catch and finally blocks.
Throw(t) ==
  /\ sender' = [sender EXCEPT ![t].pc = "failed"]
  /\ abortReasons' = abortReasons \ {t}
  /\ toReceiver' = IF Usable(t) THEN Append(toReceiver, Msg("abort", t, 0)) ELSE toReceiver

\* A chunk is read and sent, or the read fails, or the channel is gone.
ReadChunk(t) ==
  /\ sender[t].pc = "reading"
  /\ \/ /\ Usable(t)
        /\ sender' = [sender EXCEPT ![t].pc = "draining", ![t].next = @ + 1]
        /\ toReceiver' = Append(toReceiver, Msg("chunk", t, sender[t].next))
        /\ UNCHANGED abortReasons
     \/ Throw(t)
  /\ UNCHANGED <<channelVars, toSender, rendererVars, mainVars>>

\* The channel has drained after a chunk: stop, read the next one, or end.
Drained(t) ==
  /\ sender[t].pc = "draining"
  /\ IF t \in abortReasons \/ ~Usable(t) THEN Throw(t)
     ELSE /\ UNCHANGED abortReasons
          /\ IF sender[t].next < Chunks[t]
             THEN /\ sender' = [sender EXCEPT ![t].pc = "reading"]
                  /\ UNCHANGED toReceiver
             ELSE /\ sender' = [sender EXCEPT ![t].pc = "flushing"]
                  /\ toReceiver' = Append(toReceiver, Msg("complete", t, 0))
  /\ UNCHANGED <<channelVars, toSender, rendererVars, mainVars>>

\* waitForChannelDrain rejects: closed, failed or 30 s without draining.
DrainFails(t) ==
  /\ sender[t].pc \in {"draining", "flushing"}
  /\ Throw(t)
  /\ UNCHANGED <<channelVars, toSender, rendererVars, mainVars>>

\* Everything is out.  The user is told that the file was sent.
Flushed(t) ==
  /\ sender[t].pc = "flushing"
  /\ IF t \in abortReasons THEN Throw(t)
     ELSE /\ sender' = [sender EXCEPT ![t].pc = "sent"]
          /\ UNCHANGED <<abortReasons, toReceiver>>
  /\ UNCHANGED <<channelVars, toSender, rendererVars, mainVars>>

\* handleFileTransferAbort at the sender, also when sendFile is over.
SenderReceivesAbort(t) ==
  /\ t \in toSender
  /\ toSender' = toSender \ {t}
  /\ abortReasons' = abortReasons \cup {t}
  /\ UNCHANGED <<channelVars, toReceiver, sender, rendererVars, mainVars>>

-----------------------------------------------------------------------------
(* The receiver.                                                              *)

\* Mutant: the partial file is unlinked, but the session is not deleted.
AbortSavesKeepingThem(ts) ==
  /\ UNCHANGED saves
  /\ entry' = [t \in Transfers |-> IF t \in ts \cap saves
                                   THEN [entry[t] EXCEPT !.unlinking = TRUE] ELSE entry[t]]

\* files:abort-incoming-transfer for the transfers ts: unknown ones are ignored.
AbortSaves(ts) ==
  /\ saves' = saves \ ts
  /\ entry' = [t \in Transfers |-> IF t \in ts \cap saves
                                   THEN [entry[t] EXCEPT !.unlinking = TRUE] ELSE entry[t]]

Report(t, verdict) == reports' = [reports EXCEPT ![t] = @ \cup {verdict}]

Notify(ts) == toSender' = IF open THEN toSender \cup ts ELSE toSender

\* failIncomingFileTransferInternal, given what becomes of the object.
FailIncoming(t, object, notify) ==
  IF t \notin incoming
  THEN /\ transfer' = [transfer EXCEPT ![t] = object]
       /\ UNCHANGED <<incoming, reports, toSender, saves, entry>>
  ELSE /\ transfer' = [transfer EXCEPT ![t] = [object EXCEPT !.failed = TRUE]]
       /\ incoming' = incoming \ {t}
       /\ AbortSaves({t})
       /\ Report(t, "failed")
       /\ IF notify THEN Notify({t}) ELSE UNCHANGED toSender

\* The promise chain of a transfer rejects, and what waits in it is skipped.
RejectQueue(t) ==
  FailIncoming(t, [transfer[t] EXCEPT !.busy = "no", !.queue = << >>], TRUE)

\* The next message, of the given kind and about t.
Receive(kind, t) ==
  /\ toReceiver # << >>
  /\ Head(toReceiver).kind = kind
  /\ Head(toReceiver).id = t
  /\ toReceiver' = Tail(toReceiver)

\* beginIncomingFileTransfer.  A refusal is not reported to the sender.
ReceiveStart(t) ==
  /\ Receive("start", t)
  /\ IF Cardinality(incoming) < MaxIncoming
     THEN /\ incoming' = incoming \cup {t}
          /\ transfer' = [transfer EXCEPT ![t].busy = "start"]
          /\ UNCHANGED reports
     ELSE /\ Report(t, "rejected")
          /\ UNCHANGED <<incoming, transfer>>
  /\ UNCHANGED <<channelVars, toSender, senderVars, mainVars>>

\* Mutant: the file is opened with "w" instead of "wx", which takes any name.
StartDoneOnAnyName(t) ==
  /\ transfer[t].busy = "start"
  /\ transfer' = [transfer EXCEPT ![t].busy = "no"]
  /\ LET path == Candidates[t][1] IN
     /\ disk' = [disk EXCEPT ![path] = << >>]
     /\ entry' = [entry EXCEPT ![t] = [path |-> path, chunks |-> 0, unlinking |-> FALSE]]
  /\ saves' = saves \cup {t}
  /\ UNCHANGED <<channelVars, toReceiver, toSender, senderVars, incoming, reports>>

\* createUniqueFilePath took the first free name; the session is opened even
\* if the transfer was aborted meanwhile.
StartDone(t) ==
  /\ transfer[t].busy = "start"
  /\ transfer' = [transfer EXCEPT ![t].busy = "no"]
  /\ \E i \in DOMAIN Candidates[t] :
       LET path == Candidates[t][i] IN
       /\ disk[path] = None
       /\ \A k \in 1..(i - 1) : disk[Candidates[t][k]] # None
       /\ disk' = [disk EXCEPT ![path] = << >>]
       /\ entry' = [entry EXCEPT ![t] = [path |-> path, chunks |-> 0, unlinking |-> FALSE]]
  /\ saves' = saves \cup {t}
  /\ UNCHANGED <<channelVars, toReceiver, toSender, senderVars, incoming, reports>>

\* The directory cannot be made, or there is no free name.
StartFails(t) ==
  /\ transfer[t].busy = "start"
  /\ RejectQueue(t)
  /\ UNCHANGED <<channelVars, toReceiver, senderVars, disk>>

\* appendIncomingFileChunk: queue the chunk of a transfer that is known.
ReceiveChunk(t) ==
  /\ Receive("chunk", t)
  /\ transfer' = IF t \in incoming
                 THEN [transfer EXCEPT ![t].queue = Append(@, Head(toReceiver).index)]
                 ELSE transfer
  /\ UNCHANGED <<channelVars, toSender, senderVars, incoming, reports, mainVars>>

\* Is this the chunk that renderer and main process wait for?
Expected(t, index) ==
  /\ index = transfer[t].stored
  /\ transfer[t].stored < Chunks[t]
  /\ t \in saves
  /\ index = entry[t].chunks

\* The queued chunk's turn: skip it, refuse it, or start to write it.
RunChunk(t) ==
  /\ transfer[t].busy = "no"
  /\ transfer[t].queue # << >>
  /\ IF transfer[t].failed
     THEN /\ transfer' = [transfer EXCEPT ![t].queue = Tail(@)]
          /\ UNCHANGED <<incoming, reports, toSender, saves, entry>>
     ELSE IF Expected(t, Head(transfer[t].queue))
     THEN /\ transfer' = [transfer EXCEPT ![t].busy = "append"]
          /\ UNCHANGED <<incoming, reports, toSender, saves, entry>>
     ELSE RejectQueue(t)
  /\ UNCHANGED <<channelVars, toReceiver, senderVars, disk>>

\* Mutant: the chunk is written to the file of the final name.
AppendDoneInPlace(t) ==
  /\ transfer[t].busy = "append"
  /\ disk' = [disk EXCEPT ![entry[t].path] = Append(@, <<t, Head(transfer[t].queue)>>)]
  /\ entry' = [entry EXCEPT ![t].chunks = @ + 1]
  /\ transfer' = [transfer EXCEPT ![t].busy = "no", ![t].queue = Tail(@), ![t].stored = @ + 1]
  /\ UNCHANGED <<channelVars, toReceiver, toSender, senderVars, incoming, reports, saves>>

\* appendFile wrote the chunk, to a new file if the old one was unlinked.
AppendDone(t) ==
  /\ transfer[t].busy = "append"
  /\ disk' = [disk EXCEPT ![Temp(t)] = Append(IF @ = None THEN << >> ELSE @,
                                              <<t, Head(transfer[t].queue)>>)]
  /\ entry' = [entry EXCEPT ![t].chunks = @ + 1]
  /\ transfer' = [transfer EXCEPT ![t].busy = "no", ![t].queue = Tail(@), ![t].stored = @ + 1]
  /\ UNCHANGED <<channelVars, toReceiver, toSender, senderVars, incoming, reports, saves>>

\* The disk is full or gone.
AppendFails(t) ==
  /\ transfer[t].busy = "append"
  /\ RejectQueue(t)
  /\ UNCHANGED <<channelVars, toReceiver, senderVars, disk>>

\* completeIncomingFileTransfer, up to the await of the queue.
ReceiveComplete(t) ==
  /\ Receive("complete", t)
  /\ transfer' = IF t \in incoming THEN [transfer EXCEPT ![t].completing = TRUE] ELSE transfer
  /\ UNCHANGED <<channelVars, toSender, senderVars, incoming, reports, mainVars>>

\* Mutant: the transfer stays in incomingTransfers, its timer armed, while the
\* file is renamed.
CompleteWithTimer(t) ==
  /\ transfer[t].completing
  /\ transfer[t].busy = "no"
  /\ transfer[t].queue = << >>
  /\ ~transfer[t].failed
  /\ transfer[t].stored = Chunks[t]
  /\ t \in saves
  /\ transfer' = [transfer EXCEPT ![t].completing = FALSE, ![t].busy = "rename"]
  /\ saves' = saves \ {t}
  /\ UNCHANGED <<channelVars, toReceiver, toSender, senderVars, incoming, reports, entry, disk>>

\* The queue has settled: give up, or hand the file to the main process, which
\* forgets the session and renames the partial file.  (That it compares the size
\* once more makes no difference: its count is the renderer's, see Bookkeeping.)
Complete(t) ==
  /\ transfer[t].completing
  /\ transfer[t].busy = "no"
  /\ transfer[t].queue = << >>
  /\ IF transfer[t].failed
     THEN /\ transfer' = [transfer EXCEPT ![t].completing = FALSE]
          /\ UNCHANGED <<incoming, reports, saves, entry>>
     ELSE /\ incoming' = incoming \ {t}
          /\ IF transfer[t].stored # Chunks[t]
             THEN /\ transfer' = [transfer EXCEPT ![t].completing = FALSE]
                  /\ AbortSaves({t})
                  /\ Report(t, "incomplete")
             ELSE IF t \notin saves
             THEN /\ transfer' = [transfer EXCEPT ![t].completing = FALSE]
                  /\ Report(t, "failed")
                  /\ UNCHANGED <<saves, entry>>
             ELSE /\ transfer' = [transfer EXCEPT ![t].completing = FALSE, ![t].busy = "rename"]
                  /\ saves' = saves \ {t}
                  /\ UNCHANGED <<entry, reports>>
  /\ UNCHANGED <<channelVars, toReceiver, toSender, senderVars, disk>>

\* The partial file takes the reserved name.
RenameDone(t) ==
  /\ transfer[t].busy = "rename"
  /\ disk[Temp(t)] # None
  /\ disk' = [disk EXCEPT ![entry[t].path] = disk[Temp(t)], ![Temp(t)] = None]
  /\ transfer' = [transfer EXCEPT ![t].busy = "no"]
  /\ Report(t, "saved")
  /\ UNCHANGED <<channelVars, toReceiver, toSender, senderVars, incoming, saves, entry>>

\* It cannot, or there is none: an empty file has no partial file.
RenameFails(t) ==
  /\ transfer[t].busy = "rename"
  /\ transfer' = [transfer EXCEPT ![t].busy = "no"]
  /\ Report(t, "failed")
  /\ UNCHANGED <<channelVars, toReceiver, toSender, senderVars, incoming, saves, entry, disk>>

\* handleFileTransferAbort at the receiver.
ReceiveAbort(t) ==
  /\ Receive("abort", t)
  /\ FailIncoming(t, transfer[t], FALSE)
  /\ UNCHANGED <<channelVars, senderVars, disk>>

\* Mutant: the timer is armed by the first chunk, not by the start.
TimeOutAfterFirstChunk(t) ==
  /\ t \in incoming
  /\ transfer[t].stored > 0
  /\ FailIncoming(t, transfer[t], TRUE)
  /\ UNCHANGED <<channelVars, toReceiver, senderVars, disk>>

\* The timer of refreshIncomingTransferTimeout: 30 s without a chunk stored.
TimeOut(t) ==
  /\ t \in incoming
  /\ FailIncoming(t, transfer[t], TRUE)
  /\ UNCHANGED <<channelVars, toReceiver, senderVars, disk>>

\* An unlink that an abort started ends.
Unlink(t) ==
  /\ entry[t].unlinking
  /\ entry' = [entry EXCEPT ![t].unlinking = FALSE]
  /\ disk' = [disk EXCEPT ![Temp(t)] = None]
  /\ UNCHANGED <<channelVars, toReceiver, toSender, senderVars, rendererVars, saves>>

\* onclose, of whichever channel: failIncomingFileTransfers.
ReceiverSeesClose ==
  /\ closeEvents > 0
  /\ closeEvents' = closeEvents - 1
  /\ incoming' = {}
  /\ reports' = [t \in Transfers |-> IF t \in incoming THEN reports[t] \cup {"interrupted"}
                                                       ELSE reports[t]]
  /\ AbortSaves(incoming)
  /\ Notify(incoming)
  /\ UNCHANGED <<open, generation, toReceiver, senderVars, transfer, disk>>

\* The user disconnects: the part of disconnect about files.
Disconnect ==
  /\ open
  /\ generation <= MaxCloses
  /\ open' = FALSE
  /\ closeEvents' \in {closeEvents, closeEvents + 1}
  /\ toReceiver' = << >>
  /\ toSender' \in SUBSET toSender
  /\ incoming' = {}
  /\ reports' = [t \in Transfers |-> IF t \in incoming THEN reports[t] \cup {"disconnected"}
                                                       ELSE reports[t]]
  /\ AbortSaves(incoming)
  /\ UNCHANGED <<generation, senderVars, transfer, disk>>

-----------------------------------------------------------------------------
SenderStep(t) ==
  SendFile(t) \/ ReadChunk(t) \/ Drained(t) \/ DrainFails(t) \/ Flushed(t) \/ SenderReceivesAbort(t)

\* The receiver's own work: its calls to the main process return.
WriterStep(t) ==
  \/ StartDone(t) \/ StartFails(t) \/ RunChunk(t) \/ AppendDone(t) \/ AppendFails(t)
  \/ Complete(t) \/ RenameDone(t) \/ RenameFails(t)

ReceiverStep(t) ==
  \/ ReceiveStart(t) \/ ReceiveChunk(t) \/ ReceiveComplete(t) \/ ReceiveAbort(t)
  \/ WriterStep(t) \/ TimeOut(t) \/ Unlink(t)

Next ==
  \/ OpenChannel \/ CloseChannel \/ ReceiverSeesClose \/ Disconnect
  \/ \E t \in Transfers : SenderStep(t) \/ ReceiverStep(t)

\* Calls of the main process return and the timer fires.  Nothing is assumed
\* of the network or of the sender.
Fairness == \A t \in Transfers : WF_vars(WriterStep(t)) /\ WF_vars(TimeOut(t))

Spec == Init /\ [][Next]_vars /\ Fairness
=============================================================================
