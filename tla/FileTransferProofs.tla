-------------------------- MODULE FileTransferProofs --------------------------
(***************************************************************************)
(* Proofs about FileTransfer, for all files, names and bounds.              *)
(*                                                                          *)
(* Most steps leave the files alone.  QuietStep says what they may change,  *)
(* and one lemma shows that this keeps the invariant's part about files;    *)
(* the few steps that open, write, rename or unlink have lemmas each.       *)
(***************************************************************************)
EXTENDS FileTransferProperties, FiniteSetTheorems, TLAPS

\* What a step may change without touching a file.
QuietStep ==
  /\ disk' = disk
  /\ saves' \subseteq saves
  /\ \A u \in Transfers :
       /\ entry'[u].path = entry[u].path
       /\ entry'[u].chunks = entry[u].chunks
       /\ entry'[u].unlinking => entry[u].unlinking \/ (u \in saves /\ u \notin saves')
       /\ transfer'[u].stored = transfer[u].stored
       /\ transfer'[u].busy \in {transfer[u].busy, "no"}
       /\ transfer'[u].busy = "append" =>
            /\ transfer'[u].queue # << >>
            /\ Head(transfer'[u].queue) = Head(transfer[u].queue)
       /\ "saved" \in reports'[u] => "saved" \in reports[u]

FileParts == Bookkeeping /\ NamesReserved /\ FilesInOrder /\ LeftoversKept

\* A quiet step keeps the files in order.
LEMMA QuietKeepsFiles ==
  ASSUME TypeOK, FileParts, QuietStep
  PROVE  FileParts'
<1>1. \A u \in Transfers : Working(u)' => Working(u)
  BY DEF Working, QuietStep
<1>2. \A u \in Transfers : Temp(u)' = Temp(u)
  BY DEF Temp, QuietStep
<1>3. Bookkeeping'
  BY <1>1 DEF Bookkeeping, FileParts, QuietStep, Working
<1>4. NamesReserved'
  BY DEF NamesReserved, FileParts, QuietStep
<1>5. FilesInOrder'
  <2>1. ASSUME NEW u \in Transfers, Working(u)' PROVE ~entry'[u].unlinking
    BY <2>1, <1>1 DEF QuietStep, FileParts, FilesInOrder, Bookkeeping, Working
  <2>2. ASSUME NEW u \in Transfers, Working(u)'
        PROVE  /\ disk'[entry'[u].path] = << >>
               /\ disk'[Temp(u)'] = IF entry'[u].chunks = 0 THEN None
                                    ELSE Prefix(u, entry'[u].chunks)
    BY <2>2, <1>1, <1>2 DEF QuietStep, FileParts, FilesInOrder
  <2>3. ASSUME NEW u \in Transfers, "saved" \in reports'[u]
        PROVE  entry'[u].path # None /\ ~Working(u)' /\ disk'[entry'[u].path] = WholeFile(u)
    BY <2>3, <1>1 DEF QuietStep, FileParts, FilesInOrder
  <2> QED BY <2>1, <2>2, <2>3 DEF FilesInOrder
<1>6. LeftoversKept'
  BY DEF LeftoversKept, FileParts, QuietStep
<1> QED BY <1>3, <1>4, <1>5, <1>6 DEF FileParts

-----------------------------------------------------------------------------
(* The messages under way.                                                    *)

\* The receiver takes the first message, or the end is lost, or nothing happens.
WireShrinks ==
  \E d \in {0, 1} :
    /\ Len(toReceiver') + d <= Len(toReceiver)
    /\ \A i \in 1..Len(toReceiver') : toReceiver'[i] = toReceiver[i + d]

\* Nothing is queued that was not queued or, as a chunk, under way.
QueuesFollow ==
  \A u \in Transfers :
    \A k \in 1..Len(transfer'[u].queue) : transfer'[u].queue[k] < sender[u].next

LEMMA ReceivedIsShrinking ==
  ASSUME TypeOK, NEW t \in Transfers, NEW kind, Receive(kind, t)
  PROVE  /\ WireShrinks
         /\ toReceiver' \in Seq(Message)
         /\ toReceiver[1].kind = kind
         /\ toReceiver[1].id = t
         /\ Head(toReceiver) = toReceiver[1]
         /\ 1 \in 1..Len(toReceiver)
         /\ Head(toReceiver) \in Message
         /\ \A i \in 1..Len(toReceiver') : toReceiver'[i] = toReceiver[i + 1]
         /\ Len(toReceiver') = Len(toReceiver) - 1
<1>1. toReceiver \in Seq(Message) /\ toReceiver # << >>
  BY DEF TypeOK, Receive
<1>2. /\ toReceiver' = Tail(toReceiver)
      /\ Head(toReceiver) = toReceiver[1]
      /\ Len(toReceiver') = Len(toReceiver) - 1
      /\ Len(toReceiver) \in Nat \ {0}
      /\ toReceiver' \in Seq(Message)
      /\ \A i \in 1..Len(toReceiver') : toReceiver'[i] = toReceiver[i + 1]
  BY <1>1 DEF Receive
<1>3. toReceiver[1] \in Message
  BY <1>1, <1>2
<1>4. WireShrinks
  BY <1>2 DEF WireShrinks
<1> QED BY <1>2, <1>3, <1>4 DEF Receive

LEMMA UnchangedIsShrinking ==
  ASSUME TypeOK, toReceiver' = toReceiver
  PROVE  WireShrinks
<1>1. Len(toReceiver) \in Nat
  BY DEF TypeOK
<1> QED BY <1>1 DEF WireShrinks

\* A start under way stays the only one, and its transfer fresh.
LEMMA StartsOnceKept ==
  ASSUME TypeOK, StartsOnce, WireShrinks, TypeOK',
         \A u \in Transfers : sender'[u].pc = "idle" <=> sender[u].pc = "idle",
         \A u \in Transfers : Fresh(u) => Fresh(u)'
  PROVE  StartsOnce'
<1>1. \A u \in Transfers : sender'[u].pc = "idle" => Fresh(u)'
  BY DEF StartsOnce
<1>2. PICK d \in {0, 1} : /\ Len(toReceiver') + d <= Len(toReceiver)
                          /\ \A i \in 1..Len(toReceiver') : toReceiver'[i] = toReceiver[i + d]
  BY DEF WireShrinks
<1>3. Len(toReceiver) \in Nat /\ Len(toReceiver') \in Nat
  BY DEF TypeOK
<1>4. \A i \in 1..Len(toReceiver') : i + d \in 1..Len(toReceiver)
  BY <1>2, <1>3
<1>5. ASSUME NEW u \in Transfers, NEW i \in 1..Len(toReceiver'),
             toReceiver'[i].kind = "start", toReceiver'[i].id = u
      PROVE  /\ sender'[u].pc # "idle"
             /\ Fresh(u)'
             /\ \A j \in 1..Len(toReceiver') :
                  toReceiver'[j].kind = "start" /\ toReceiver'[j].id = u => j = i
  <2>1. /\ sender[u].pc # "idle"
        /\ Fresh(u)
        /\ \A j \in 1..Len(toReceiver) :
             toReceiver[j].kind = "start" /\ toReceiver[j].id = u => j = i + d
    BY <1>2, <1>4, <1>5 DEF StartsOnce
  <2>2. ASSUME NEW j \in 1..Len(toReceiver'), toReceiver'[j].kind = "start", toReceiver'[j].id = u
        PROVE  j = i
    <3>1. j + d = i + d
      BY <1>2, <1>4, <2>1, <2>2
    <3> QED BY <3>1
  <2> QED BY <2>1, <2>2
<1> QED BY <1>1, <1>5 DEF StartsOnce

LEMMA ChunksWereSentKept ==
  ASSUME TypeOK, ChunksWereSent, WireShrinks, sender' = sender, QueuesFollow, TypeOK',
         \A u \in Transfers : entry'[u].chunks <= sender[u].next
  PROVE  ChunksWereSent'
<1>1. PICK d \in {0, 1} : /\ Len(toReceiver') + d <= Len(toReceiver)
                          /\ \A i \in 1..Len(toReceiver') : toReceiver'[i] = toReceiver[i + d]
  BY DEF WireShrinks
<1>2. Len(toReceiver) \in Nat /\ Len(toReceiver') \in Nat
  BY DEF TypeOK
<1>3. ASSUME NEW u \in Transfers, NEW i \in 1..Len(toReceiver'),
             toReceiver'[i].kind = "chunk", toReceiver'[i].id = u
      PROVE  toReceiver'[i].index < sender[u].next
  <2>1. i + d \in 1..Len(toReceiver) /\ toReceiver'[i] = toReceiver[i + d]
    BY <1>1, <1>2
  <2> QED BY <1>3, <2>1 DEF ChunksWereSent
<1>4. \A t \in Transfers :
       /\ entry'[t].chunks <= sender'[t].next
       /\ sender'[t].next <= Chunks[t]
       /\ sender'[t].pc = "idle" => sender'[t].next = 0
       /\ sender'[t].pc = "reading" => sender'[t].next < Chunks[t]
       /\ \A k \in 1..Len(transfer'[t].queue) : transfer'[t].queue[k] < sender'[t].next
  BY DEF ChunksWereSent, QueuesFollow
<1> QED BY <1>3, <1>4 DEF ChunksWereSent

\* A quiet step of the receiver keeps the whole invariant.
LEMMA QuietKeepsInv ==
  ASSUME FileInv, QuietStep, TypeOK', WireShrinks, QueuesFollow,
         sender' = sender, incoming' \subseteq incoming
  PROVE  FileInv'
<1>1. FileParts'
  BY QuietKeepsFiles DEF FileInv, FileParts
<1>2. \A u \in Transfers : Fresh(u) => Fresh(u)'
  BY DEF Fresh, QuietStep
<1>3. StartsOnce'
  BY <1>2, StartsOnceKept DEF FileInv
<1>4. \A u \in Transfers : entry'[u].chunks <= sender[u].next
  BY DEF FileInv, ChunksWereSent, QuietStep
<1>5. ChunksWereSent'
  BY <1>4, ChunksWereSentKept DEF FileInv
<1> QED BY <1>1, <1>3, <1>5 DEF FileInv, FileParts

-----------------------------------------------------------------------------
(* Giving up a transfer.                                                      *)

LEMMA AbortSavesEffect ==
  ASSUME TypeOK, NEW ts, AbortSaves(ts)
  PROVE  /\ saves' \subseteq saves
         /\ entry' \in [Transfers -> IncomingFileSaveSession]
         /\ \A u \in Transfers :
              /\ entry'[u].path = entry[u].path
              /\ entry'[u].chunks = entry[u].chunks
              /\ entry'[u].unlinking => entry[u].unlinking \/ (u \in saves /\ u \notin saves')
BY DEF TypeOK, AbortSaves, IncomingFileSaveSession

LEMMA FailIncomingEffect ==
  ASSUME TypeOK, NEW t \in Transfers, NEW object \in IncomingFileTransfer, NEW notify \in BOOLEAN,
         FailIncoming(t, object, notify)
  PROVE  /\ incoming' \subseteq incoming
         /\ saves' \subseteq saves
         /\ toSender' \subseteq Transfers
         /\ transfer' \in [Transfers -> IncomingFileTransfer]
         /\ entry' \in [Transfers -> IncomingFileSaveSession]
         /\ reports' \in [Transfers -> SUBSET Verdicts]
         /\ \A u \in Transfers :
              /\ entry'[u].path = entry[u].path
              /\ entry'[u].chunks = entry[u].chunks
              /\ entry'[u].unlinking => entry[u].unlinking \/ (u \in saves /\ u \notin saves')
              /\ "saved" \in reports'[u] => "saved" \in reports[u]
              /\ u # t => transfer'[u] = transfer[u]
         /\ transfer'[t].stored = object.stored
         /\ transfer'[t].busy = object.busy
         /\ transfer'[t].queue = object.queue
<1>1. CASE t \notin incoming
  BY <1>1 DEF FailIncoming, TypeOK
<1>2. CASE t \in incoming
  <2>1. /\ transfer' = [transfer EXCEPT ![t] = [object EXCEPT !.failed = TRUE]]
        /\ incoming' = incoming \ {t}
        /\ AbortSaves({t})
        /\ Report(t, "failed")
        /\ IF notify THEN Notify({t}) ELSE UNCHANGED toSender
    BY <1>2 DEF FailIncoming
  <2>2. reports' \in [Transfers -> SUBSET Verdicts]
        /\ \A u \in Transfers : "saved" \in reports'[u] => "saved" \in reports[u]
    BY <2>1 DEF TypeOK, Report, Verdicts
  <2>3. toSender' \subseteq Transfers
    BY <2>1 DEF TypeOK, Notify
  <2>4. /\ transfer' \in [Transfers -> IncomingFileTransfer]
        /\ \A u \in Transfers : u # t => transfer'[u] = transfer[u]
        /\ transfer'[t].stored = object.stored
        /\ transfer'[t].busy = object.busy
        /\ transfer'[t].queue = object.queue
    BY <2>1 DEF TypeOK, IncomingFileTransfer
  <2> QED BY <2>1, <2>2, <2>3, <2>4, AbortSavesEffect
<1> QED BY <1>1, <1>2

\* Giving up is quiet if the object loses its call and queue, or keeps them.
LEMMA FailIncomingQuiet ==
  ASSUME FileInv, NEW t \in Transfers, NEW object \in IncomingFileTransfer, NEW notify \in BOOLEAN,
         FailIncoming(t, object, notify), disk' = disk,
         object.stored = transfer[t].stored,
         \/ object.busy = "no" /\ object.queue = << >>
         \/ object.busy = transfer[t].busy /\ object.queue = transfer[t].queue
  PROVE  QuietStep /\ QueuesFollow
<1>1. TypeOK
  BY DEF FileInv
<1>2. QuietStep
  <2>1. ASSUME NEW u \in Transfers
        PROVE  /\ transfer'[u].stored = transfer[u].stored
               /\ transfer'[u].busy \in {transfer[u].busy, "no"}
               /\ transfer'[u].busy = "append" => transfer'[u].queue = transfer[u].queue
    BY <1>1, FailIncomingEffect
  <2>2. \A u \in Transfers : transfer[u].busy = "append" => transfer[u].queue # << >>
    BY DEF FileInv, Bookkeeping
  <2> QED BY <1>1, <2>1, <2>2, FailIncomingEffect DEF QuietStep
<1>3. QueuesFollow
  <2>1. ASSUME NEW u \in Transfers
        PROVE transfer'[u].queue = << >> \/ transfer'[u].queue = transfer[u].queue
    BY <1>1, FailIncomingEffect
  <2>2. \A k \in 1..Len(<< >>) : FALSE
    OBVIOUS
  <2> QED BY <2>1, <2>2 DEF QueuesFollow, FileInv, ChunksWereSent
<1> QED BY <1>2, <1>3

LEMMA RejectQueueQuiet ==
  ASSUME FileInv, NEW t \in Transfers, RejectQueue(t), disk' = disk
  PROVE  /\ QuietStep /\ QueuesFollow
         /\ incoming' \subseteq incoming
         /\ toSender' \subseteq Transfers
         /\ transfer' \in [Transfers -> IncomingFileTransfer]
         /\ entry' \in [Transfers -> IncomingFileSaveSession]
         /\ reports' \in [Transfers -> SUBSET Verdicts]
         /\ saves' \subseteq Transfers
<1> DEFINE object == [transfer[t] EXCEPT !.busy = "no", !.queue = << >>]
<1>1. TypeOK
  BY DEF FileInv
<1>2. /\ object \in IncomingFileTransfer
      /\ object.stored = transfer[t].stored
      /\ object.busy = "no" /\ object.queue = << >>
  <2>1. transfer[t] \in IncomingFileTransfer /\ << >> \in Seq(Nat)
    BY <1>1 DEF TypeOK
  <2> QED BY <2>1 DEF IncomingFileTransfer
<1>3. FailIncoming(t, object, TRUE)
  BY DEF RejectQueue
<1> HIDE DEF object
<1>4. QuietStep /\ QueuesFollow
  BY <1>2, <1>3, FailIncomingQuiet
<1>5. /\ incoming' \subseteq incoming /\ saves' \subseteq saves
      /\ toSender' \subseteq Transfers
      /\ transfer' \in [Transfers -> IncomingFileTransfer]
      /\ entry' \in [Transfers -> IncomingFileSaveSession]
      /\ reports' \in [Transfers -> SUBSET Verdicts]
  BY <1>1, <1>2, <1>3, FailIncomingEffect
<1> QED BY <1>1, <1>4, <1>5 DEF TypeOK

-----------------------------------------------------------------------------
(* The steps that leave the files alone.                                      *)

LEMMA RejectStep ==
  ASSUME FileInv, NEW t \in Transfers, RejectQueue(t),
         UNCHANGED <<channelVars, toReceiver, senderVars, disk>>
  PROVE  FileInv'
<1>1. TypeOK
  BY DEF FileInv
<1>2. UNCHANGED <<open, generation, closeEvents, toReceiver, sender, abortReasons, disk>>
  BY DEF channelVars, senderVars
<1>3. TypeOK'
  BY <1>1, <1>2, RejectQueueQuiet DEF TypeOK
<1>4. WireShrinks
  BY <1>1, <1>2, UnchangedIsShrinking
<1> QED BY <1>2, <1>3, <1>4, RejectQueueQuiet, QuietKeepsInv

LEMMA StartFailsStep ==
  ASSUME FileInv, NEW t \in Transfers, StartFails(t) PROVE FileInv'
BY RejectStep DEF StartFails

LEMMA AppendFailsStep ==
  ASSUME FileInv, NEW t \in Transfers, AppendFails(t) PROVE FileInv'
BY RejectStep DEF AppendFails

\* An abort of the sender, or the timer.
LEMMA GiveUpStep ==
  ASSUME FileInv, NEW t \in Transfers, NEW notify \in BOOLEAN,
         FailIncoming(t, transfer[t], notify), WireShrinks, toReceiver' \in Seq(Message),
         UNCHANGED <<channelVars, senderVars, disk>>
  PROVE  FileInv'
<1>1. TypeOK
  BY DEF FileInv
<1>2. UNCHANGED <<open, generation, closeEvents, sender, abortReasons, disk>>
  BY DEF channelVars, senderVars
<1>3. transfer[t] \in IncomingFileTransfer
  BY <1>1 DEF TypeOK
<1>4. TypeOK'
  BY <1>1, <1>2, <1>3, FailIncomingEffect DEF TypeOK
<1>5. QuietStep /\ QueuesFollow
  BY <1>2, <1>3, FailIncomingQuiet
<1>6. incoming' \subseteq incoming
  BY <1>1, <1>3, FailIncomingEffect
<1> QED BY <1>2, <1>4, <1>5, <1>6, QuietKeepsInv

LEMMA ReceiveAbortStep ==
  ASSUME FileInv, NEW t \in Transfers, ReceiveAbort(t) PROVE FileInv'
<1>1. WireShrinks /\ toReceiver' \in Seq(Message)
  BY ReceivedIsShrinking DEF ReceiveAbort, FileInv
<1> QED BY <1>1, GiveUpStep DEF ReceiveAbort

LEMMA TimeOutStep ==
  ASSUME FileInv, NEW t \in Transfers, TimeOut(t) PROVE FileInv'
<1>1. toReceiver' = toReceiver /\ TypeOK
  BY DEF TimeOut, FileInv
<1>2. WireShrinks /\ toReceiver' \in Seq(Message)
  BY <1>1, UnchangedIsShrinking DEF TypeOK
<1> QED BY <1>2, GiveUpStep DEF TimeOut

\* The channel is lost, or the user disconnects.
LEMMA LoseChannelStep ==
  ASSUME FileInv, AbortSaves(incoming), incoming' = {}, WireShrinks,
         toReceiver' \in Seq(Message), toSender' \subseteq Transfers,
         open' \in BOOLEAN, closeEvents' \in Nat,
         reports' \in [Transfers -> SUBSET Verdicts],
         \A u \in Transfers : "saved" \in reports'[u] => "saved" \in reports[u],
         UNCHANGED <<generation, senderVars, transfer, disk>>
  PROVE  FileInv'
<1>1. TypeOK
  BY DEF FileInv
<1>2. UNCHANGED <<generation, sender, abortReasons, transfer, disk>>
  BY DEF senderVars
<1>3. TypeOK'
  BY <1>1, <1>2, AbortSavesEffect DEF TypeOK
<1>4. \A u \in Transfers : transfer[u].busy = "append" => transfer[u].queue # << >>
  BY DEF FileInv, Bookkeeping
<1>5. QuietStep
  BY <1>1, <1>2, <1>4, AbortSavesEffect DEF QuietStep
<1>6. QueuesFollow
  BY <1>2 DEF QueuesFollow, FileInv, ChunksWereSent
<1> QED BY <1>2, <1>3, <1>5, <1>6, QuietKeepsInv

LEMMA ReceiverSeesCloseStep ==
  ASSUME FileInv, ReceiverSeesClose PROVE FileInv'
<1>1. TypeOK /\ toReceiver' = toReceiver
  BY DEF FileInv, ReceiverSeesClose
<1>2. WireShrinks /\ toReceiver' \in Seq(Message)
  BY <1>1, UnchangedIsShrinking DEF TypeOK
<1>3. toSender' \subseteq Transfers /\ open' \in BOOLEAN /\ closeEvents' \in Nat
  BY <1>1 DEF TypeOK, ReceiverSeesClose, Notify
<1>4. /\ reports' \in [Transfers -> SUBSET Verdicts]
      /\ \A u \in Transfers : "saved" \in reports'[u] => "saved" \in reports[u]
  BY <1>1 DEF TypeOK, ReceiverSeesClose, Verdicts
<1> QED BY <1>2, <1>3, <1>4, LoseChannelStep DEF ReceiverSeesClose

LEMMA DisconnectStep ==
  ASSUME FileInv, Disconnect PROVE FileInv'
<1>1. TypeOK
  BY DEF FileInv
<1>2. WireShrinks /\ toReceiver' \in Seq(Message)
  <2>1. toReceiver' = << >> /\ Len(toReceiver) \in Nat
    BY <1>1 DEF Disconnect, TypeOK
  <2> QED BY <2>1 DEF WireShrinks
<1>3. toSender' \subseteq Transfers /\ open' \in BOOLEAN /\ closeEvents' \in Nat
  <2>1. open' \in BOOLEAN
    BY DEF Disconnect
  <2>2. toSender' \subseteq Transfers
    BY <1>1 DEF Disconnect, TypeOK
  <2>3. closeEvents' \in Nat
    <3>1. closeEvents' = closeEvents \/ closeEvents' = closeEvents + 1
      BY DEF Disconnect
    <3> QED BY <1>1, <3>1 DEF TypeOK
  <2> QED BY <2>1, <2>2, <2>3
<1>4. /\ reports' \in [Transfers -> SUBSET Verdicts]
      /\ \A u \in Transfers : "saved" \in reports'[u] => "saved" \in reports[u]
  BY <1>1 DEF TypeOK, Disconnect, Verdicts
<1> QED BY <1>2, <1>3, <1>4, LoseChannelStep DEF Disconnect

\* The channel opens or closes under the eyes of the sender.
LEMMA ChannelStep ==
  ASSUME FileInv, OpenChannel \/ CloseChannel PROVE FileInv'
<1>1. TypeOK
  BY DEF FileInv
<1>2. UNCHANGED <<sender, abortReasons, incoming, transfer, reports, saves, entry, disk>>
  BY DEF OpenChannel, CloseChannel, senderVars, rendererVars, mainVars
<1>3. WireShrinks /\ toReceiver' \in Seq(Message)
  <2>1. CASE OpenChannel
    BY <2>1, <1>1, UnchangedIsShrinking DEF OpenChannel, TypeOK
  <2>2. CASE CloseChannel
    <3>1. PICK n \in 0..Len(toReceiver) : toReceiver' = SubSeq(toReceiver, 1, n)
      BY <2>2 DEF CloseChannel
    <3>2. toReceiver \in Seq(Message) /\ Len(toReceiver) \in Nat
      BY <1>1 DEF TypeOK
    <3>3. n \in Nat /\ n <= Len(toReceiver)
      BY <3>2
    <3>4. /\ toReceiver' \in Seq(Message)
          /\ Len(toReceiver') = n
          /\ \A i \in 1..n : toReceiver'[i] = toReceiver[i]
      BY <3>1, <3>2, <3>3
    <3>5. Len(toReceiver') + 0 <= Len(toReceiver)
          /\ \A i \in 1..Len(toReceiver') : toReceiver'[i] = toReceiver[i + 0]
      BY <3>3, <3>4
    <3> QED BY <3>4, <3>5 DEF WireShrinks
  <2> QED BY <2>1, <2>2
<1>4. open' \in BOOLEAN /\ generation' \in Nat
  <2>1. open' \in BOOLEAN
    BY DEF OpenChannel, CloseChannel
  <2>2. generation' \in {generation, generation + 1}
    BY DEF OpenChannel, CloseChannel
  <2> QED BY <1>1, <2>1, <2>2 DEF TypeOK
<1>5. closeEvents' \in Nat
  <2>1. closeEvents' \in {closeEvents, closeEvents + 1}
    BY DEF OpenChannel, CloseChannel
  <2> QED BY <1>1, <2>1 DEF TypeOK
<1>6. toSender' \subseteq Transfers
  BY <1>1 DEF TypeOK, OpenChannel, CloseChannel
<1>7. TypeOK'
  BY <1>1, <1>2, <1>3, <1>4, <1>5, <1>6 DEF TypeOK
<1>8. \A u \in Transfers : transfer[u].busy = "append" => transfer[u].queue # << >>
  BY DEF FileInv, Bookkeeping
<1>9. QuietStep
  BY <1>2, <1>8 DEF QuietStep
<1>10. QueuesFollow
  BY <1>2 DEF QueuesFollow, FileInv, ChunksWereSent
<1> QED BY <1>2, <1>3, <1>7, <1>9, <1>10, QuietKeepsInv

\* A chunk joins the queue; a complete message is noted.
LEMMA ReceiveChunkStep ==
  ASSUME FileInv, NEW t \in Transfers, ReceiveChunk(t) PROVE FileInv'
<1>1. TypeOK
  BY DEF FileInv
<1>2. /\ UNCHANGED <<open, generation, closeEvents, toSender, sender, abortReasons,
                     incoming, reports, saves, entry, disk>>
      /\ Receive("chunk", t)
      /\ transfer' = IF t \in incoming
                     THEN [transfer EXCEPT ![t].queue = Append(@, Head(toReceiver).index)]
                     ELSE transfer
  BY DEF ReceiveChunk, channelVars, senderVars, mainVars
<1>3. /\ WireShrinks
      /\ toReceiver' \in Seq(Message)
      /\ Head(toReceiver).index \in Nat
      /\ Head(toReceiver).index < sender[t].next
  <2>1. /\ Head(toReceiver) \in Message /\ 1 \in 1..Len(toReceiver)
        /\ Head(toReceiver) = toReceiver[1]
        /\ toReceiver[1].kind = "chunk" /\ toReceiver[1].id = t
    BY <1>1, <1>2, ReceivedIsShrinking
  <2>2. Head(toReceiver).index \in Nat
    BY <2>1 DEF Message
  <2>3. Head(toReceiver).index < sender[t].next
    BY <2>1 DEF FileInv, ChunksWereSent
  <2> QED BY <1>1, <1>2, <2>2, <2>3, ReceivedIsShrinking
<1> DEFINE index == Head(toReceiver).index
<1> HIDE DEF index
<1>4. /\ transfer[t].queue \in Seq(Nat)
      /\ \A u \in Transfers : transfer[u] \in IncomingFileTransfer
  BY <1>1 DEF TypeOK, IncomingFileTransfer
<1>5. /\ index \in Nat /\ index < sender[t].next
      /\ transfer' = IF t \in incoming
                     THEN [transfer EXCEPT ![t].queue = Append(@, index)] ELSE transfer
  BY <1>2, <1>3 DEF index
<1>6. /\ Append(transfer[t].queue, index) \in Seq(Nat)
      /\ Len(Append(transfer[t].queue, index)) = Len(transfer[t].queue) + 1
      /\ Append(transfer[t].queue, index) # << >>
      /\ \A k \in 1..Len(transfer[t].queue) :
           Append(transfer[t].queue, index)[k] = transfer[t].queue[k]
      /\ Append(transfer[t].queue, index)[Len(transfer[t].queue) + 1] = index
      /\ transfer[t].queue # << >> =>
           Head(Append(transfer[t].queue, index)) = Head(transfer[t].queue)
  BY <1>4, <1>5
<1>7. transfer' \in [Transfers -> IncomingFileTransfer]
  BY <1>1, <1>4, <1>5, <1>6 DEF TypeOK, IncomingFileTransfer
<1>8. TypeOK'
  BY <1>1, <1>2, <1>3, <1>7 DEF TypeOK
<1>9. \A u \in Transfers : transfer[u].busy = "append" => transfer[u].queue # << >>
  BY DEF FileInv, Bookkeeping
<1>10. \A u \in Transfers :
         /\ transfer'[u].stored = transfer[u].stored
         /\ transfer'[u].busy = transfer[u].busy
         /\ u # t => transfer'[u] = transfer[u]
         /\ transfer'[t].queue \in {transfer[t].queue, Append(transfer[t].queue, index)}
  BY <1>1, <1>4, <1>5 DEF TypeOK, IncomingFileTransfer
<1>11. QuietStep
  BY <1>2, <1>6, <1>9, <1>10 DEF QuietStep
<1>12. QueuesFollow
  <2>1. ASSUME NEW u \in Transfers, u # t, NEW k \in 1..Len(transfer'[u].queue)
        PROVE transfer'[u].queue[k] < sender[u].next
    BY <2>1, <1>10 DEF FileInv, ChunksWereSent
  <2>2. ASSUME NEW k \in 1..Len(transfer'[t].queue)
        PROVE transfer'[t].queue[k] < sender[t].next
    <3>1. \A j \in 1..Len(transfer[t].queue) : transfer[t].queue[j] < sender[t].next
      BY DEF FileInv, ChunksWereSent
    <3>2. Len(transfer[t].queue) \in Nat
      BY <1>4
    <3>3. CASE transfer'[t].queue = transfer[t].queue
      BY <2>2, <3>1, <3>3
    <3>4. CASE transfer'[t].queue = Append(transfer[t].queue, index)
      <4>1. k \in 1..Len(transfer[t].queue) \/ k = Len(transfer[t].queue) + 1
        BY <2>2, <3>2, <3>4, <1>6
      <4> QED BY <4>1, <3>1, <3>4, <1>5, <1>6
    <3> QED BY <3>3, <3>4, <1>10
  <2> QED BY <2>1, <2>2 DEF QueuesFollow
<1> QED BY <1>2, <1>3, <1>8, <1>11, <1>12, QuietKeepsInv

LEMMA ReceiveCompleteStep ==
  ASSUME FileInv, NEW t \in Transfers, ReceiveComplete(t) PROVE FileInv'
<1>1. TypeOK
  BY DEF FileInv
<1>2. /\ UNCHANGED <<open, generation, closeEvents, toSender, sender, abortReasons,
                     incoming, reports, saves, entry, disk>>
      /\ Receive("complete", t)
      /\ transfer' = IF t \in incoming THEN [transfer EXCEPT ![t].completing = TRUE] ELSE transfer
  BY DEF ReceiveComplete, channelVars, senderVars, mainVars
<1>3. WireShrinks /\ toReceiver' \in Seq(Message)
  BY <1>1, <1>2, ReceivedIsShrinking
<1>4. /\ transfer' \in [Transfers -> IncomingFileTransfer]
      /\ \A u \in Transfers : /\ transfer'[u].stored = transfer[u].stored
                              /\ transfer'[u].busy = transfer[u].busy
                              /\ transfer'[u].queue = transfer[u].queue
  BY <1>1, <1>2 DEF TypeOK, IncomingFileTransfer
<1>5. TypeOK'
  BY <1>1, <1>2, <1>3, <1>4 DEF TypeOK
<1>6. \A u \in Transfers : transfer[u].busy = "append" => transfer[u].queue # << >>
  BY DEF FileInv, Bookkeeping
<1>7. QuietStep
  BY <1>2, <1>4, <1>6 DEF QuietStep
<1>8. QueuesFollow
  BY <1>4 DEF QueuesFollow, FileInv, ChunksWereSent
<1> QED BY <1>2, <1>3, <1>5, <1>7, <1>8, QuietKeepsInv

\* A rename that fails, or a completion that gives up.
LEMMA SettleStep ==
  ASSUME FileInv, NEW t \in Transfers, WireShrinks, toReceiver' \in Seq(Message),
         transfer' \in [Transfers -> IncomingFileTransfer],
         entry' \in [Transfers -> IncomingFileSaveSession],
         reports' \in [Transfers -> SUBSET Verdicts],
         QuietStep, incoming' \subseteq incoming,
         \A u \in Transfers : transfer'[u].queue = transfer[u].queue,
         UNCHANGED <<channelVars, toSender, senderVars>>
  PROVE  FileInv'
<1>1. TypeOK
  BY DEF FileInv
<1>2. UNCHANGED <<open, generation, closeEvents, toSender, sender, abortReasons>>
  BY DEF channelVars, senderVars
<1>3. TypeOK'
  BY <1>1, <1>2 DEF TypeOK, QuietStep
<1>4. QueuesFollow
  BY DEF QueuesFollow, FileInv, ChunksWereSent
<1> QED BY <1>2, <1>3, <1>4, QuietKeepsInv

LEMMA RenameFailsStep ==
  ASSUME FileInv, NEW t \in Transfers, RenameFails(t) PROVE FileInv'
<1>1. TypeOK /\ toReceiver' = toReceiver
  BY DEF FileInv, RenameFails
<1>2. WireShrinks /\ toReceiver' \in Seq(Message)
  BY <1>1, UnchangedIsShrinking DEF TypeOK
<1>3. /\ transfer' \in [Transfers -> IncomingFileTransfer]
      /\ \A u \in Transfers : /\ transfer'[u].stored = transfer[u].stored
                              /\ transfer'[u].busy \in {transfer[u].busy, "no"}
                              /\ transfer'[u].queue = transfer[u].queue
  BY <1>1 DEF TypeOK, IncomingFileTransfer, RenameFails
<1>4. /\ reports' \in [Transfers -> SUBSET Verdicts]
      /\ \A u \in Transfers : "saved" \in reports'[u] => "saved" \in reports[u]
  BY <1>1 DEF TypeOK, RenameFails, Report, Verdicts
<1>5. \A u \in Transfers : transfer[u].busy = "append" => transfer[u].queue # << >>
  BY DEF FileInv, Bookkeeping
<1>6. QuietStep
  BY <1>3, <1>4, <1>5 DEF QuietStep, RenameFails
<1>7. entry' \in [Transfers -> IncomingFileSaveSession]
  BY <1>1 DEF RenameFails, TypeOK
<1> QED BY <1>2, <1>3, <1>4, <1>6, <1>7, SettleStep DEF RenameFails

\* A step about t that leaves the disk alone and starts a call: FileParts need
\* to be looked at for t only.
LEMMA BusyKeepsFiles ==
  ASSUME TypeOK, FileParts, NEW t \in Transfers, NEW busy,
         disk' = disk, entry' = entry, reports' = reports,
         \A u \in Transfers : /\ transfer'[u].stored = transfer[u].stored
                              /\ transfer'[u].queue = transfer[u].queue
                              /\ u # t => transfer'[u].busy = transfer[u].busy,
         transfer'[t].busy = busy,
         \/ busy = "start" /\ saves' = saves /\ entry[t].path = None
         \/ busy = "append" /\ saves' = saves /\ t \in saves /\ transfer[t].queue # << >>
            /\ Head(transfer[t].queue) = entry[t].chunks
         \/ busy = "rename" /\ saves' = saves \ {t} /\ t \in saves /\ entry[t].chunks = Chunks[t]
  PROVE  FileParts'
<1>1. \A u \in Transfers : Working(u)' => Working(u)
  BY DEF Working
<1>2. \A u \in Transfers : Temp(u)' = Temp(u)
  BY DEF Temp
<1>3. Bookkeeping'
  BY <1>1 DEF Bookkeeping, FileParts, Working
<1>4. NamesReserved' /\ LeftoversKept'
  BY DEF NamesReserved, LeftoversKept, FileParts
<1>5. FilesInOrder'
  BY <1>1, <1>2 DEF FilesInOrder, FileParts
<1> QED BY <1>3, <1>4, <1>5 DEF FileParts

LEMMA RunChunkStep ==
  ASSUME FileInv, NEW t \in Transfers, RunChunk(t) PROVE FileInv'
<1>1. TypeOK
  BY DEF FileInv
<1>2. /\ UNCHANGED <<open, generation, closeEvents, toReceiver, sender, abortReasons, disk>>
      /\ UNCHANGED <<channelVars, toReceiver, senderVars, disk>>
      /\ transfer[t].busy = "no" /\ transfer[t].queue # << >>
  BY DEF RunChunk, channelVars, senderVars
<1>3. WireShrinks /\ toReceiver' \in Seq(Message)
  BY <1>1, <1>2, UnchangedIsShrinking DEF TypeOK
<1>4. transfer[t].queue \in Seq(Nat)
  BY <1>1 DEF TypeOK, IncomingFileTransfer
<1>5. \A u \in Transfers : transfer[u].busy = "append" => transfer[u].queue # << >>
  BY DEF FileInv, Bookkeeping
<1>6. CASE transfer[t].failed
  <2>1. /\ transfer' = [transfer EXCEPT ![t].queue = Tail(@)]
        /\ UNCHANGED <<incoming, reports, toSender, saves, entry>>
    BY <1>6 DEF RunChunk
  <2>2. /\ Tail(transfer[t].queue) \in Seq(Nat)
        /\ Len(Tail(transfer[t].queue)) = Len(transfer[t].queue) - 1
        /\ \A k \in 1..Len(Tail(transfer[t].queue)) :
             /\ Tail(transfer[t].queue)[k] = transfer[t].queue[k + 1]
             /\ k + 1 \in 1..Len(transfer[t].queue)
    BY <1>2, <1>4
  <2>3. /\ transfer' \in [Transfers -> IncomingFileTransfer]
        /\ \A u \in Transfers : /\ transfer'[u].stored = transfer[u].stored
                                /\ transfer'[u].busy = transfer[u].busy
                                /\ u # t => transfer'[u] = transfer[u]
        /\ transfer'[t].queue = Tail(transfer[t].queue)
    BY <1>1, <2>1, <2>2 DEF TypeOK, IncomingFileTransfer
  <2>4. TypeOK'
    BY <1>1, <1>2, <2>1, <2>3 DEF TypeOK
  <2>5. QuietStep
    BY <1>2, <1>5, <2>1, <2>3 DEF QuietStep
  <2>6. QueuesFollow
    <3>1. \A u \in Transfers : \A k \in 1..Len(transfer[u].queue) :
            transfer[u].queue[k] < sender[u].next
      BY DEF FileInv, ChunksWereSent
    <3>2. ASSUME NEW k \in 1..Len(transfer'[t].queue)
          PROVE transfer'[t].queue[k] < sender[t].next
      <4>1. transfer'[t].queue[k] = transfer[t].queue[k + 1] /\ k + 1 \in 1..Len(transfer[t].queue)
        BY <2>2, <2>3, <3>2
      <4> QED BY <3>1, <4>1
    <3>3. ASSUME NEW u \in Transfers, u # t, NEW k \in 1..Len(transfer'[u].queue)
          PROVE transfer'[u].queue[k] < sender[u].next
      BY <2>3, <3>1, <3>3
    <3> QED BY <3>2, <3>3 DEF QueuesFollow
  <2> QED BY <1>2, <1>3, <2>1, <2>4, <2>5, <2>6, QuietKeepsInv
<1>7. CASE ~transfer[t].failed /\ Expected(t, Head(transfer[t].queue))
  <2>1. /\ transfer' = [transfer EXCEPT ![t].busy = "append"]
        /\ UNCHANGED <<incoming, reports, toSender, saves, entry>>
    BY <1>7 DEF RunChunk
  <2>2. /\ transfer' \in [Transfers -> IncomingFileTransfer]
        /\ \A u \in Transfers : /\ transfer'[u].stored = transfer[u].stored
                                /\ transfer'[u].queue = transfer[u].queue
                                /\ u # t => transfer'[u].busy = transfer[u].busy
        /\ transfer'[t].busy = "append"
    BY <1>1, <2>1 DEF TypeOK, IncomingFileTransfer
  <2>3. TypeOK'
    BY <1>1, <1>2, <2>1, <2>2 DEF TypeOK
  <2>4. t \in saves /\ Head(transfer[t].queue) = entry[t].chunks
    BY <1>7 DEF Expected
  <2>5. FileParts'
    BY <1>1, <1>2, <2>1, <2>2, <2>4, BusyKeepsFiles DEF FileInv, FileParts
  <2>6. \A u \in Transfers : Fresh(u) => Fresh(u)'
    <3>1. entry[t].path # None
      BY <2>4 DEF FileInv, Bookkeeping, Working
    <3> QED BY <2>1, <2>2, <3>1 DEF Fresh
  <2>7. StartsOnce'
    BY <1>2, <1>3, <2>3, <2>6, StartsOnceKept DEF FileInv
  <2>8. QueuesFollow /\ \A u \in Transfers : entry'[u].chunks <= sender[u].next
    BY <2>1, <2>2 DEF QueuesFollow, FileInv, ChunksWereSent
  <2>9. ChunksWereSent'
    BY <1>2, <1>3, <2>3, <2>8, ChunksWereSentKept DEF FileInv
  <2> QED BY <2>3, <2>5, <2>7, <2>9 DEF FileInv, FileParts
<1>8. CASE ~transfer[t].failed /\ ~Expected(t, Head(transfer[t].queue))
  <2>1. RejectQueue(t)
    BY <1>8 DEF RunChunk
  <2> QED BY <1>2, <2>1, RejectStep
<1> QED BY <1>6, <1>7, <1>8

LEMMA CompleteStep ==
  ASSUME FileInv, NEW t \in Transfers, Complete(t) PROVE FileInv'
<1>1. TypeOK
  BY DEF FileInv
<1>2. /\ UNCHANGED <<open, generation, closeEvents, toReceiver, toSender, sender, abortReasons, disk>>
      /\ UNCHANGED <<channelVars, toSender, senderVars>>
      /\ transfer[t].busy = "no" /\ transfer[t].queue = << >>
  BY DEF Complete, channelVars, senderVars
<1>3. WireShrinks /\ toReceiver' \in Seq(Message)
  BY <1>1, <1>2, UnchangedIsShrinking DEF TypeOK
<1>4. \A u \in Transfers : transfer[u].busy = "append" => transfer[u].queue # << >>
  BY DEF FileInv, Bookkeeping
<1>5. ASSUME transfer' = [transfer EXCEPT ![t].completing = FALSE], incoming' \subseteq incoming,
             \/ UNCHANGED <<saves, entry>>
             \/ AbortSaves({t}),
             reports' = reports \/ Report(t, "incomplete") \/ Report(t, "failed")
      PROVE  FileInv'
  <2>1. /\ transfer' \in [Transfers -> IncomingFileTransfer]
        /\ \A u \in Transfers : /\ transfer'[u].stored = transfer[u].stored
                                /\ transfer'[u].busy = transfer[u].busy
                                /\ transfer'[u].queue = transfer[u].queue
    BY <1>1, <1>5 DEF TypeOK, IncomingFileTransfer
  <2>2. /\ reports' \in [Transfers -> SUBSET Verdicts]
        /\ \A u \in Transfers : "saved" \in reports'[u] => "saved" \in reports[u]
    BY <1>1, <1>5 DEF TypeOK, Report, Verdicts
  <2>3. /\ saves' \subseteq saves
        /\ entry' \in [Transfers -> IncomingFileSaveSession]
        /\ \A u \in Transfers :
              /\ entry'[u].path = entry[u].path
              /\ entry'[u].chunks = entry[u].chunks
              /\ entry'[u].unlinking => entry[u].unlinking \/ (u \in saves /\ u \notin saves')
    <3>1. CASE UNCHANGED <<saves, entry>>
      BY <1>1, <3>1 DEF TypeOK
    <3>2. CASE AbortSaves({t})
      BY <1>1, <3>2, AbortSavesEffect
    <3> QED BY <1>5, <3>1, <3>2
  <2>4. QuietStep
    BY <1>2, <1>4, <2>1, <2>2, <2>3 DEF QuietStep
  <2> QED BY <1>2, <1>3, <1>5, <2>1, <2>2, <2>3, <2>4, SettleStep
<1>6. CASE transfer[t].failed
  BY <1>5, <1>6 DEF Complete
<1>7. CASE ~transfer[t].failed /\ transfer[t].stored # Chunks[t]
  BY <1>5, <1>7 DEF Complete
<1>8. CASE ~transfer[t].failed /\ transfer[t].stored = Chunks[t] /\ t \notin saves
  BY <1>5, <1>8 DEF Complete
<1>9. CASE ~transfer[t].failed /\ transfer[t].stored = Chunks[t] /\ t \in saves
  <2>1. /\ incoming' = incoming \ {t}
        /\ transfer' = [transfer EXCEPT ![t].completing = FALSE, ![t].busy = "rename"]
        /\ saves' = saves \ {t}
        /\ UNCHANGED <<entry, reports>>
    BY <1>9 DEF Complete
  <2>2. /\ transfer' \in [Transfers -> IncomingFileTransfer]
        /\ \A u \in Transfers : /\ transfer'[u].stored = transfer[u].stored
                                /\ transfer'[u].queue = transfer[u].queue
                                /\ u # t => transfer'[u].busy = transfer[u].busy
        /\ transfer'[t].busy = "rename"
    BY <1>1, <2>1 DEF TypeOK, IncomingFileTransfer
  <2>3. TypeOK'
    BY <1>1, <1>2, <2>1, <2>2 DEF TypeOK
  <2>4. entry[t].chunks = Chunks[t] /\ entry[t].path # None
    BY <1>9 DEF FileInv, Bookkeeping, Working
  <2>5. FileParts'
    BY <1>1, <1>2, <1>9, <2>1, <2>2, <2>4, BusyKeepsFiles DEF FileInv, FileParts
  <2>6. \A u \in Transfers : Fresh(u) => Fresh(u)'
    BY <2>1, <2>2, <2>4 DEF Fresh
  <2>7. StartsOnce'
    BY <1>2, <1>3, <2>3, <2>6, StartsOnceKept DEF FileInv
  <2>8. QueuesFollow /\ \A u \in Transfers : entry'[u].chunks <= sender[u].next
    BY <2>1, <2>2 DEF QueuesFollow, FileInv, ChunksWereSent
  <2>9. ChunksWereSent'
    BY <1>2, <1>3, <2>3, <2>8, ChunksWereSentKept DEF FileInv
  <2> QED BY <2>3, <2>5, <2>7, <2>9 DEF FileInv, FileParts
<1> QED BY <1>6, <1>7, <1>8, <1>9

LEMMA ReceiveStartStep ==
  ASSUME FileInv, NEW t \in Transfers, ReceiveStart(t) PROVE FileInv'
<1>1. TypeOK
  BY DEF FileInv
<1>2. /\ UNCHANGED <<open, generation, closeEvents, toSender, sender, abortReasons, saves, entry, disk>>
      /\ UNCHANGED <<channelVars, toSender, senderVars>>
      /\ Receive("start", t)
  BY DEF ReceiveStart, channelVars, senderVars, mainVars
<1>3. /\ WireShrinks
      /\ toReceiver' \in Seq(Message)
      /\ toReceiver[1].kind = "start" /\ toReceiver[1].id = t /\ 1 \in 1..Len(toReceiver)
      /\ \A i \in 1..Len(toReceiver') : toReceiver'[i] = toReceiver[i + 1]
      /\ Len(toReceiver') = Len(toReceiver) - 1
  BY <1>1, <1>2, ReceivedIsShrinking
<1>4. /\ sender[t].pc # "idle" /\ Fresh(t)
      /\ \A j \in 1..Len(toReceiver) :
           toReceiver[j].kind = "start" /\ toReceiver[j].id = t => j = 1
  BY <1>3 DEF FileInv, StartsOnce
<1>5. CASE Cardinality(incoming) < MaxIncoming
  <2>1. /\ incoming' = incoming \cup {t}
        /\ transfer' = [transfer EXCEPT ![t].busy = "start"]
        /\ UNCHANGED reports
    BY <1>5 DEF ReceiveStart
  <2>2. /\ transfer' \in [Transfers -> IncomingFileTransfer]
        /\ \A u \in Transfers : /\ transfer'[u].stored = transfer[u].stored
                                /\ transfer'[u].queue = transfer[u].queue
                                /\ u # t => transfer'[u] = transfer[u]
        /\ transfer'[t].busy = "start"
    BY <1>1, <2>1 DEF TypeOK, IncomingFileTransfer
  <2>3. TypeOK'
    BY <1>1, <1>2, <1>3, <2>1, <2>2 DEF TypeOK
  <2>4. FileParts'
    BY <1>1, <1>2, <1>4, <2>1, <2>2, BusyKeepsFiles DEF FileInv, FileParts, Fresh
  <2>5. \A u \in Transfers : u # t /\ Fresh(u) => Fresh(u)'
    BY <1>2, <2>1, <2>2 DEF Fresh
  <2>6. ASSUME NEW u \in Transfers, sender'[u].pc = "idle" PROVE Fresh(u)'
    BY <1>2, <1>4, <2>5, <2>6 DEF FileInv, StartsOnce
  <2>7. ASSUME NEW u \in Transfers, NEW i \in 1..Len(toReceiver'),
               toReceiver'[i].kind = "start", toReceiver'[i].id = u
        PROVE  /\ sender'[u].pc # "idle"
               /\ Fresh(u)'
               /\ \A j \in 1..Len(toReceiver') :
                    toReceiver'[j].kind = "start" /\ toReceiver'[j].id = u => j = i
    <3>1. Len(toReceiver) \in Nat
      BY <1>1 DEF TypeOK
    <3>2. \A j \in 1..Len(toReceiver') : j + 1 \in 1..Len(toReceiver) /\ j + 1 # 1
      BY <1>3, <3>1
    <3>3. /\ sender[u].pc # "idle" /\ Fresh(u)
          /\ \A j \in 1..Len(toReceiver) :
               toReceiver[j].kind = "start" /\ toReceiver[j].id = u => j = i + 1
      BY <1>3, <2>7, <3>2 DEF FileInv, StartsOnce
    <3>4. u # t
      BY <1>3, <1>4, <2>7, <3>2
    <3>5. ASSUME NEW j \in 1..Len(toReceiver'), toReceiver'[j].kind = "start", toReceiver'[j].id = u
          PROVE  j = i
      <4>1. j + 1 = i + 1
        BY <1>3, <3>2, <3>3, <3>5
      <4> QED BY <4>1
    <3> QED BY <1>2, <2>5, <3>3, <3>4, <3>5
  <2>8. StartsOnce'
    BY <2>6, <2>7 DEF StartsOnce
  <2>9. QueuesFollow /\ \A u \in Transfers : entry'[u].chunks <= sender[u].next
    BY <1>2, <2>2 DEF QueuesFollow, FileInv, ChunksWereSent
  <2>10. ChunksWereSent'
    BY <1>2, <1>3, <2>3, <2>9, ChunksWereSentKept DEF FileInv
  <2> QED BY <2>3, <2>4, <2>8, <2>10 DEF FileInv, FileParts
<1>6. CASE ~(Cardinality(incoming) < MaxIncoming)
  <2>1. /\ Report(t, "rejected")
        /\ UNCHANGED <<incoming, transfer>>
    BY <1>6 DEF ReceiveStart
  <2>2. /\ reports' \in [Transfers -> SUBSET Verdicts]
        /\ \A u \in Transfers : "saved" \in reports'[u] => "saved" \in reports[u]
    BY <1>1, <2>1 DEF TypeOK, Report, Verdicts
  <2>3. \A u \in Transfers : transfer[u].busy = "append" => transfer[u].queue # << >>
    BY DEF FileInv, Bookkeeping
  <2>4. QuietStep
    BY <1>2, <2>1, <2>2, <2>3 DEF QuietStep
  <2>5. /\ transfer' \in [Transfers -> IncomingFileTransfer]
        /\ entry' \in [Transfers -> IncomingFileSaveSession]
    BY <1>1, <1>2, <2>1 DEF TypeOK
  <2> QED BY <1>2, <1>3, <2>1, <2>2, <2>4, <2>5, SettleStep
<1> QED BY <1>5, <1>6

-----------------------------------------------------------------------------
(* The steps that open, write, rename and unlink files.                       *)

\* The part of the invariant about messages, when none arrives.
LEMMA WireKept ==
  ASSUME FileInv, TypeOK', toReceiver' = toReceiver, sender' = sender, QueuesFollow,
         \A u \in Transfers : Fresh(u) => Fresh(u)',
         \A u \in Transfers : entry'[u].chunks <= sender[u].next
  PROVE  StartsOnce' /\ ChunksWereSent'
<1>1. TypeOK /\ StartsOnce /\ ChunksWereSent
  BY DEF FileInv
<1>2. WireShrinks
  BY <1>1, UnchangedIsShrinking
<1> QED BY <1>1, <1>2, StartsOnceKept, ChunksWereSentKept

\* Content and None are told apart; the empty file and whole files are content.
LEMMA Contents ==
  /\ None \notin Content
  /\ << >> \in Content /\ Foreign \in Content /\ Foreign # << >>
  /\ \A t \in Transfers, n \in Nat : Prefix(t, n) \in Content
  /\ \A t \in Transfers : WholeFile(t) \in Content
<1>1. None \notin Content
  BY FileTransferConstants DEF Content
<1>2. << >> \in Content /\ Foreign \in Content /\ Foreign # << >>
  <2>1. <<None, 0>> \in (Transfers \cup {None}) \X Nat
    OBVIOUS
  <2>2. Foreign \in Content
    BY <2>1 DEF Foreign, Content
  <2>3. Len(Foreign) = 1 /\ Len(<< >>) = 0
    BY DEF Foreign
  <2>4. Foreign # << >>
    BY <2>3
  <2>5. << >> \in Content
    BY DEF Content
  <2> QED BY <2>2, <2>4, <2>5
<1>3. ASSUME NEW t \in Transfers, NEW n \in Nat PROVE Prefix(t, n) \in Content
  <2>1. \A i \in 1..n : <<t, i - 1>> \in (Transfers \cup {None}) \X Nat
    OBVIOUS
  <2>2. Prefix(t, n) \in [1..n -> (Transfers \cup {None}) \X Nat]
    BY <2>1 DEF Prefix
  <2> QED BY <2>2 DEF Content
<1>4. \A t \in Transfers : WholeFile(t) \in Content
  BY <1>3, FileTransferConstants DEF WholeFile
<1> QED BY <1>1, <1>2, <1>3, <1>4

\* A prefix grows by the next chunk.
LEMMA PrefixGrows ==
  ASSUME NEW t \in Transfers, NEW n \in Nat
  PROVE  /\ Append(Prefix(t, n), <<t, n>>) = Prefix(t, n + 1)
         /\ n = 0 => Prefix(t, n) = << >>
         /\ n > 0 => Prefix(t, n) # << >>
<1>1. Prefix(t, n) \in Seq(Transfers \X Nat) /\ Len(Prefix(t, n)) = n
  <2>1. Prefix(t, n) \in [1..n -> Transfers \X Nat]
    BY DEF Prefix
  <2> QED BY <2>1 DEF Prefix
<1>2. Prefix(t, n + 1) \in Seq(Transfers \X Nat) /\ Len(Prefix(t, n + 1)) = n + 1
  <2>1. Prefix(t, n + 1) \in [1..(n + 1) -> Transfers \X Nat]
    BY DEF Prefix
  <2> QED BY <2>1 DEF Prefix
<1>3. /\ Append(Prefix(t, n), <<t, n>>) \in Seq(Transfers \X Nat)
      /\ Len(Append(Prefix(t, n), <<t, n>>)) = n + 1
      /\ Append(Prefix(t, n), <<t, n>>)[n + 1] = <<t, n>>
      /\ \A i \in 1..n : Append(Prefix(t, n), <<t, n>>)[i] = Prefix(t, n)[i]
  BY <1>1
<1>4. \A i \in 1..(n + 1) : Append(Prefix(t, n), <<t, n>>)[i] = Prefix(t, n + 1)[i]
  <2>1. ASSUME NEW i \in 1..n PROVE Append(Prefix(t, n), <<t, n>>)[i] = Prefix(t, n + 1)[i]
    BY <1>3 DEF Prefix
  <2>2. Prefix(t, n + 1)[n + 1] = <<t, n>>
    BY DEF Prefix
  <2>3. \A i \in 1..(n + 1) : i \in 1..n \/ i = n + 1
    OBVIOUS
  <2>4. Append(Prefix(t, n), <<t, n>>)[n + 1] = Prefix(t, n + 1)[n + 1]
    BY <1>3, <2>2
  <2> QED BY <2>1, <2>3, <2>4
<1>5. Append(Prefix(t, n), <<t, n>>) = Prefix(t, n + 1)
  BY <1>2, <1>3, <1>4
<1>6. n = 0 => Prefix(t, n) = << >>
  BY <1>1
<1>7. n > 0 => Prefix(t, n) # << >>
  BY <1>1
<1> QED BY <1>5, <1>6, <1>7

\* Partial files are apart from files, and each other.
LEMMA TempsApart ==
  ASSUME TypeOK, NamesReserved, NEW t \in Transfers, entry[t].path # None
  PROVE  /\ entry[t].path \in FinalPaths /\ entry[t].path \in Paths
         /\ Temp(t) \in Paths /\ Temp(t) \notin FinalPaths
         /\ disk[entry[t].path] # None
         /\ \A u \in Transfers : u # t /\ entry[u].path # None =>
              entry[u].path # entry[t].path /\ Temp(u) # Temp(t)
<1>1. \A u \in Transfers : entry[u].path # None => entry[u].path \in FinalPaths
  BY DEF TypeOK, IncomingFileSaveSession
<1>2. FinalPaths \subseteq Paths
  BY FileTransferConstants DEF FinalPaths
<1>3. Temp(t) \in Paths /\ Temp(t) \notin FinalPaths
  BY <1>1, FileTransferConstants, TempPathsApart DEF Temp
<1>4. disk[entry[t].path] # None
  BY Contents DEF NamesReserved
<1>5. \A u \in Transfers : u # t /\ entry[u].path # None =>
        entry[u].path # entry[t].path /\ Temp(u) # Temp(t)
  BY <1>1, TempPathsApart DEF NamesReserved, Temp
<1> QED BY <1>1, <1>2, <1>3, <1>4, <1>5

\* The session is opened on a free name.
LEMMA StartDoneStep ==
  ASSUME FileInv, NEW t \in Transfers, StartDone(t) PROVE FileInv'
<1>1. TypeOK /\ NamesReserved /\ Bookkeeping /\ FilesInOrder /\ LeftoversKept
  BY DEF FileInv
<1>2. UNCHANGED <<open, generation, closeEvents, toReceiver, toSender, sender, abortReasons,
                  incoming, reports>>
  BY DEF StartDone, channelVars, senderVars
<1>3. PICK i \in DOMAIN Candidates[t] :
         /\ disk[Candidates[t][i]] = None
         /\ disk' = [disk EXCEPT ![Candidates[t][i]] = << >>]
         /\ entry' = [entry EXCEPT ![t] = [path |-> Candidates[t][i], chunks |-> 0, unlinking |-> FALSE]]
  BY DEF StartDone
<1> DEFINE p == Candidates[t][i]
<1>4. p \in FinalPaths
  BY DEF FinalPaths
<1> HIDE DEF p
<1>5. /\ disk[p] = None
      /\ disk' = [disk EXCEPT ![p] = << >>]
      /\ entry' = [entry EXCEPT ![t] = [path |-> p, chunks |-> 0, unlinking |-> FALSE]]
  BY <1>3 DEF p
<1>6. /\ transfer[t].busy = "start"
      /\ transfer' = [transfer EXCEPT ![t].busy = "no"]
      /\ saves' = saves \cup {t}
  BY DEF StartDone
<1>7. p \in Paths /\ p # None
  BY <1>4, FileTransferConstants DEF FinalPaths
<1>8. /\ entry' \in [Transfers -> IncomingFileSaveSession]
      /\ \A u \in Transfers : u # t => entry'[u] = entry[u]
      /\ entry'[t].path = p /\ entry'[t].chunks = 0 /\ ~entry'[t].unlinking
  BY <1>1, <1>4, <1>5 DEF TypeOK, IncomingFileSaveSession
<1>9. /\ transfer' \in [Transfers -> IncomingFileTransfer]
      /\ \A u \in Transfers : /\ transfer'[u].stored = transfer[u].stored
                              /\ transfer'[u].queue = transfer[u].queue
                              /\ u # t => transfer'[u] = transfer[u]
      /\ transfer'[t].busy = "no"
  BY <1>1, <1>6 DEF TypeOK, IncomingFileTransfer
<1>10. /\ disk' \in [Paths -> Content \cup {None}]
       /\ disk'[p] = << >>
       /\ \A q \in Paths : q # p => disk'[q] = disk[q]
  BY <1>1, <1>5, <1>7, Contents DEF TypeOK
<1>11. TypeOK'
  BY <1>1, <1>2, <1>6, <1>8, <1>9, <1>10 DEF TypeOK
<1>12. entry[t].path = None /\ entry[t].chunks = 0 /\ ~Working(t)
  BY <1>1, <1>6 DEF Bookkeeping, Working
<1>13. \A u \in Transfers : entry[u].path # p
  BY <1>1, <1>5, <1>7, Contents DEF NamesReserved
<1>14. \A u \in Transfers : u # t => (Working(u)' <=> Working(u))
  BY <1>6, <1>9 DEF Working
<1>15. Bookkeeping'
  BY <1>1, <1>6, <1>7, <1>8, <1>9, <1>12, <1>14 DEF Bookkeeping, Working
<1>16. p \notin Leftovers
  BY <1>1, <1>4, <1>5, Contents DEF LeftoversKept
<1>17. \A q \in FinalPaths : q \in Paths /\ TempOf[q] \in Paths /\ TempOf[q] # p
  <2>1. FinalPaths \subseteq Paths
    BY FileTransferConstants DEF FinalPaths
  <2> QED BY <1>4, <2>1, FileTransferConstants, TempPathsApart
<1>18. NamesReserved'
  <2>1. ASSUME NEW u \in Transfers, entry'[u].path # None
        PROVE  entry'[u].path \notin Leftovers /\ disk'[entry'[u].path] \in {<< >>, WholeFile(u)}
    <3>1. CASE u = t
      BY <3>1, <1>8, <1>10, <1>16
    <3>2. CASE u # t
      <4>1. entry[u].path \in Paths
        BY <2>1, <3>2, <1>1, <1>8, TempsApart
      <4> QED BY <2>1, <3>2, <4>1, <1>1, <1>8, <1>10, <1>13 DEF NamesReserved
    <3> QED BY <3>1, <3>2
  <2>2. ASSUME NEW u \in Transfers, NEW v \in Transfers,
               entry'[u].path # None, entry'[u].path = entry'[v].path
        PROVE  u = v
    BY <2>2, <1>1, <1>8, <1>13 DEF NamesReserved
  <2>3. ASSUME NEW q \in FinalPaths, disk'[TempOf[q]] # None PROVE disk'[q] # None
    BY <2>3, <1>1, <1>10, <1>17, Contents DEF NamesReserved
  <2> QED BY <2>1, <2>2, <2>3 DEF NamesReserved
<1>19. FilesInOrder'
  <2>1. /\ disk'[p] = << >> /\ disk'[TempOf[p]] = None
    BY <1>1, <1>4, <1>5, <1>10, <1>17 DEF NamesReserved
  <2>2. "saved" \notin reports[t]
    BY <1>1, <1>12 DEF FilesInOrder
  <2>3. ASSUME NEW u \in Transfers, u # t, Working(u)
        PROVE  /\ ~entry'[u].unlinking
               /\ disk'[entry'[u].path] = << >>
               /\ disk'[Temp(u)'] = IF entry'[u].chunks = 0 THEN None ELSE Prefix(u, entry'[u].chunks)
    <3>1. entry[u].path # None
      BY <2>3, <1>1 DEF Bookkeeping
    <3>2. entry[u].path \in FinalPaths /\ entry[u].path \in Paths /\ Temp(u) \in Paths
          /\ entry[u].path # p /\ Temp(u) # p /\ Temp(u)' = Temp(u)
      BY <2>3, <3>1, <1>1, <1>8, <1>13, <1>17, TempsApart DEF Temp
    <3> QED BY <2>3, <3>2, <1>1, <1>8, <1>10 DEF FilesInOrder
  <2>4. ASSUME NEW u \in Transfers, u # t, "saved" \in reports[u]
        PROVE  entry'[u].path # None /\ disk'[entry'[u].path] = WholeFile(u)
    <3>1. entry[u].path # None /\ disk[entry[u].path] = WholeFile(u)
      BY <2>4, <1>1 DEF FilesInOrder
    <3>2. entry[u].path \in Paths
      BY <3>1, <1>1, TempsApart
    <3> QED BY <2>4, <3>1, <3>2, <1>8, <1>10, <1>13
  <2>5. ASSUME NEW u \in Transfers, u # t, "saved" \in reports[u] PROVE ~Working(u)'
    BY <2>5, <1>1, <1>14 DEF FilesInOrder
  <2>6. Temp(t)' = TempOf[p]
    BY <1>8 DEF Temp
  <2> QED BY <1>2, <1>8, <1>14, <2>1, <2>2, <2>3, <2>4, <2>5, <2>6 DEF FilesInOrder
<1>20. LeftoversKept'
  BY <1>1, <1>10, <1>16, <1>17 DEF LeftoversKept
<1>21. \A u \in Transfers : Fresh(u) => Fresh(u)'
  BY <1>2, <1>6, <1>8, <1>9 DEF Fresh
<1>22. QueuesFollow /\ \A u \in Transfers : entry'[u].chunks <= sender[u].next
  <2>1. \A u \in Transfers : sender[u].next \in Nat
    BY <1>1 DEF TypeOK, OutgoingTransfer
  <2> QED BY <1>8, <1>9, <2>1 DEF QueuesFollow, FileInv, ChunksWereSent
<1>23. StartsOnce' /\ ChunksWereSent'
  BY <1>2, <1>11, <1>21, <1>22, WireKept
<1> QED BY <1>11, <1>15, <1>18, <1>19, <1>20, <1>23 DEF FileInv

\* What follows about the files when a step writes one path only.
LEMMA OtherFilesKept ==
  ASSUME FileInv, NEW t \in Transfers, entry[t].path # None,
         disk' \in [Paths -> Content \cup {None}],
         \A q \in Paths : q # Temp(t) => disk'[q] = disk[q],
         \A u \in Transfers : entry'[u].path = entry[u].path
  PROVE  /\ \A u \in Transfers : entry[u].path # None => disk'[entry[u].path] = disk[entry[u].path]
         /\ \A u \in Transfers : Temp(u)' = Temp(u)
         /\ \A u \in Transfers : u # t /\ entry[u].path # None => disk'[Temp(u)] = disk[Temp(u)]
         /\ NamesReserved'
         /\ LeftoversKept'
<1>1. TypeOK /\ NamesReserved /\ LeftoversKept
  BY DEF FileInv
<1>2. /\ entry[t].path \in FinalPaths /\ Temp(t) \in Paths /\ Temp(t) \notin FinalPaths
      /\ disk[entry[t].path] # None
  BY <1>1, TempsApart
<1>3. \A u \in Transfers : entry[u].path # None =>
        /\ entry[u].path \in FinalPaths /\ entry[u].path \in Paths /\ Temp(u) \in Paths
  BY <1>1, TempsApart
<1>4. \A u \in Transfers : entry[u].path # None => disk'[entry[u].path] = disk[entry[u].path]
  BY <1>2, <1>3
<1>5. \A u \in Transfers : Temp(u)' = Temp(u)
  BY DEF Temp
<1>6. \A u \in Transfers : u # t /\ entry[u].path # None => disk'[Temp(u)] = disk[Temp(u)]
  BY <1>1, <1>3, TempsApart
<1>7. \A q \in FinalPaths : q \in Paths /\ TempOf[q] \in Paths /\ disk'[q] = disk[q]
  <2>1. FinalPaths \subseteq Paths
    BY FileTransferConstants DEF FinalPaths
  <2> QED BY <1>2, <2>1, FileTransferConstants
<1>8. NamesReserved'
  <2>1. ASSUME NEW u \in Transfers, entry'[u].path # None
        PROVE  entry'[u].path \notin Leftovers /\ disk'[entry'[u].path] \in {<< >>, WholeFile(u)}
    BY <2>1, <1>1, <1>4 DEF NamesReserved
  <2>2. ASSUME NEW u \in Transfers, NEW v \in Transfers,
               entry'[u].path # None, entry'[u].path = entry'[v].path
        PROVE  u = v
    BY <2>2, <1>1 DEF NamesReserved
  <2>3. ASSUME NEW q \in FinalPaths, disk'[TempOf[q]] # None PROVE disk'[q] # None
    <3>1. CASE q = entry[t].path
      BY <3>1, <1>2, <1>7
    <3>2. CASE q # entry[t].path
      <4>1. TempOf[q] # Temp(t)
        BY <3>2, <1>2, TempPathsApart DEF Temp
      <4> QED BY <2>3, <4>1, <1>1, <1>7 DEF NamesReserved
    <3> QED BY <3>1, <3>2
  <2> QED BY <2>1, <2>2, <2>3 DEF NamesReserved
<1>9. LeftoversKept'
  BY <1>1, <1>7 DEF LeftoversKept
<1> QED BY <1>4, <1>5, <1>6, <1>8, <1>9

\* A chunk is written to the partial file.
LEMMA AppendDoneStep ==
  ASSUME FileInv, NEW t \in Transfers, AppendDone(t) PROVE FileInv'
<1>1. TypeOK /\ NamesReserved /\ Bookkeeping /\ FilesInOrder /\ LeftoversKept
  BY DEF FileInv
<1>2. UNCHANGED <<open, generation, closeEvents, toReceiver, toSender, sender, abortReasons,
                  incoming, reports, saves>>
  BY DEF AppendDone, channelVars, senderVars
<1>3. /\ transfer[t].busy = "append"
      /\ disk' = [disk EXCEPT ![Temp(t)] = Append(IF @ = None THEN << >> ELSE @,
                                                  <<t, Head(transfer[t].queue)>>)]
      /\ entry' = [entry EXCEPT ![t].chunks = @ + 1]
      /\ transfer' = [transfer EXCEPT ![t].busy = "no", ![t].queue = Tail(@), ![t].stored = @ + 1]
  BY DEF AppendDone
<1>4. /\ transfer[t].queue \in Seq(Nat) /\ transfer[t].queue # << >>
      /\ Head(transfer[t].queue) = entry[t].chunks
      /\ entry[t].chunks \in Nat /\ transfer[t].stored = entry[t].chunks
      /\ entry[t].path # None
  BY <1>1, <1>3 DEF Bookkeeping, TypeOK, IncomingFileTransfer, IncomingFileSaveSession
<1> DEFINE n == entry[t].chunks
           old == IF disk[Temp(t)] = None THEN << >> ELSE disk[Temp(t)]
<1> HIDE DEF n, old
<1>5. Temp(t) \in Paths /\ entry[t].path \in FinalPaths
  BY <1>1, <1>4, TempsApart
<1>6. old \in Content
  BY <1>1, <1>5, Contents DEF TypeOK, old
<1>7. Append(old, <<t, n>>) \in Content
  BY <1>4, <1>6 DEF Content, n
<1>8. /\ disk' = [disk EXCEPT ![Temp(t)] = Append(old, <<t, n>>)]
      /\ disk' \in [Paths -> Content \cup {None}]
      /\ disk'[Temp(t)] = Append(old, <<t, n>>)
      /\ \A q \in Paths : q # Temp(t) => disk'[q] = disk[q]
  <2>1. disk' = [disk EXCEPT ![Temp(t)] = Append(old, <<t, n>>)]
    BY <1>3, <1>4 DEF old, n
  <2> QED BY <2>1, <1>1, <1>5, <1>7 DEF TypeOK
<1>9. /\ entry' \in [Transfers -> IncomingFileSaveSession]
      /\ \A u \in Transfers : /\ entry'[u].path = entry[u].path
                              /\ entry'[u].unlinking = entry[u].unlinking
                              /\ u # t => entry'[u].chunks = entry[u].chunks
      /\ entry'[t].chunks = n + 1
  <2>1. /\ entry \in [Transfers -> IncomingFileSaveSession]
        /\ n \in Nat /\ entry[t] \in IncomingFileSaveSession
    BY <1>1, <1>4 DEF TypeOK, n
  <2>2. entry' = [entry EXCEPT ![t] = [entry[t] EXCEPT !.chunks = n + 1]]
    BY <1>3, <2>1 DEF n
  <2>3. [entry[t] EXCEPT !.chunks = n + 1] \in IncomingFileSaveSession
    BY <2>1 DEF IncomingFileSaveSession
  <2> QED BY <2>1, <2>2, <2>3 DEF IncomingFileSaveSession
<1>10. /\ Tail(transfer[t].queue) \in Seq(Nat)
       /\ Len(Tail(transfer[t].queue)) = Len(transfer[t].queue) - 1
       /\ \A k \in 1..Len(Tail(transfer[t].queue)) :
            /\ Tail(transfer[t].queue)[k] = transfer[t].queue[k + 1]
            /\ k + 1 \in 1..Len(transfer[t].queue)
       /\ Head(transfer[t].queue) = transfer[t].queue[1]
       /\ 1 \in 1..Len(transfer[t].queue)
  BY <1>4
<1>11. /\ transfer' \in [Transfers -> IncomingFileTransfer]
       /\ \A u \in Transfers : u # t => transfer'[u] = transfer[u]
       /\ transfer'[t].queue = Tail(transfer[t].queue)
       /\ transfer'[t].busy = "no"
       /\ transfer'[t].stored = n + 1
  <2>1. /\ transfer \in [Transfers -> IncomingFileTransfer]
        /\ n \in Nat /\ transfer[t] \in IncomingFileTransfer /\ transfer[t].stored = n
    BY <1>1, <1>4 DEF TypeOK, n
  <2> DEFINE object == [transfer[t] EXCEPT !.busy = "no", !.queue = Tail(transfer[t].queue),
                                           !.stored = transfer[t].stored + 1]
  <2>2. transfer' = [transfer EXCEPT ![t] = object]
    BY <1>3
  <2>3. /\ object.busy = "no" /\ object.queue = Tail(transfer[t].queue)
        /\ object.stored = n + 1
    BY <2>1 DEF IncomingFileTransfer
  <2>4. object \in IncomingFileTransfer
    <3>1. n + 1 \in Nat /\ Tail(transfer[t].queue) \in Seq(Nat)
      BY <1>10, <2>1
    <3>2. object = [transfer[t] EXCEPT !.busy = "no", !.queue = Tail(transfer[t].queue),
                                       !.stored = n + 1]
      BY <2>1
    <3> QED BY <2>1, <3>1, <3>2 DEF IncomingFileTransfer
  <2> HIDE DEF object
  <2> QED BY <2>1, <2>2, <2>3, <2>4
<1>12. TypeOK'
  BY <1>1, <1>2, <1>8, <1>9, <1>11 DEF TypeOK
<1>13. \A u \in Transfers : Working(u)' <=> Working(u)
  BY <1>2, <1>3, <1>11 DEF Working
<1>14. Bookkeeping'
  BY <1>1, <1>2, <1>4, <1>9, <1>11, <1>13 DEF Bookkeeping
<1>15. /\ \A u \in Transfers : entry[u].path # None => disk'[entry[u].path] = disk[entry[u].path]
       /\ \A u \in Transfers : Temp(u)' = Temp(u)
       /\ \A u \in Transfers : u # t /\ entry[u].path # None => disk'[Temp(u)] = disk[Temp(u)]
       /\ NamesReserved' /\ LeftoversKept'
  BY <1>4, <1>8, <1>9, OtherFilesKept
<1>16. FilesInOrder'
  <2>1. \A u \in Transfers : Working(u) => entry[u].path # None
    BY <1>1 DEF Bookkeeping
  <2>2. Working(t) => disk'[Temp(t)] = Prefix(t, n + 1)
    <3>1. Working(t) => old = Prefix(t, n)
      <4>1. n \in Nat /\ (n = 0 => Prefix(t, n) = << >>)
        BY <1>4, PrefixGrows DEF n
      <4>2. n # 0 => Prefix(t, n) # None
        BY <4>1, Contents
      <4> QED BY <1>1, <4>1, <4>2 DEF FilesInOrder, old, n
    <3>2. n \in Nat
      BY <1>4 DEF n
    <3> QED BY <1>8, <3>1, <3>2, PrefixGrows
  <2>3. n + 1 # 0
    BY <1>4 DEF n
  <2>4. ASSUME NEW u \in Transfers, Working(u)
        PROVE  disk'[Temp(u)] = IF entry'[u].chunks = 0 THEN None ELSE Prefix(u, entry'[u].chunks)
    <3>1. CASE u = t
      BY <2>2, <2>3, <2>4, <3>1, <1>9
    <3>2. CASE u # t
      BY <2>1, <2>4, <3>2, <1>1, <1>9, <1>15 DEF FilesInOrder
    <3> QED BY <3>1, <3>2
  <2>5. ASSUME NEW u \in Transfers, Working(u)
        PROVE  ~entry'[u].unlinking /\ disk'[entry'[u].path] = << >>
    BY <2>1, <2>5, <1>1, <1>9, <1>15 DEF FilesInOrder
  <2>6. ASSUME NEW u \in Transfers, "saved" \in reports[u]
        PROVE  entry'[u].path # None /\ ~Working(u) /\ disk'[entry'[u].path] = WholeFile(u)
    BY <2>6, <1>1, <1>9, <1>15 DEF FilesInOrder
  <2> QED BY <1>2, <1>13, <1>15, <2>4, <2>5, <2>6 DEF FilesInOrder
<1>17. \A u \in Transfers : Fresh(u) => Fresh(u)'
  BY <1>2, <1>9, <1>11 DEF Fresh
<1>18. QueuesFollow /\ \A u \in Transfers : entry'[u].chunks <= sender[u].next
  <2>1. \A u \in Transfers :
          /\ sender[u].next \in Nat
          /\ entry[u].chunks <= sender[u].next
          /\ \A k \in 1..Len(transfer[u].queue) : transfer[u].queue[k] < sender[u].next
    BY <1>1 DEF TypeOK, OutgoingTransfer, FileInv, ChunksWereSent
  <2>2. n < sender[t].next
    BY <1>4, <1>10, <2>1 DEF n
  <2>3. n + 1 <= sender[t].next
    BY <1>4, <2>1, <2>2 DEF n
  <2>4. \A k \in 1..Len(transfer'[t].queue) : transfer'[t].queue[k] < sender[t].next
    BY <1>10, <1>11, <2>1
  <2> QED BY <1>9, <1>11, <2>1, <2>3, <2>4 DEF QueuesFollow
<1>19. StartsOnce' /\ ChunksWereSent'
  BY <1>2, <1>12, <1>17, <1>18, WireKept
<1> QED BY <1>12, <1>14, <1>15, <1>16, <1>19 DEF FileInv

\* An aborted transfer's partial file goes.
LEMMA UnlinkStep ==
  ASSUME FileInv, NEW t \in Transfers, Unlink(t) PROVE FileInv'
<1>1. TypeOK /\ NamesReserved /\ Bookkeeping /\ FilesInOrder /\ LeftoversKept
  BY DEF FileInv
<1>2. UNCHANGED <<open, generation, closeEvents, toReceiver, toSender, sender, abortReasons,
                  incoming, transfer, reports, saves>>
  BY DEF Unlink, channelVars, senderVars, rendererVars
<1>3. /\ entry[t].unlinking
      /\ entry' = [entry EXCEPT ![t].unlinking = FALSE]
      /\ disk' = [disk EXCEPT ![Temp(t)] = None]
  BY DEF Unlink
<1>4. entry[t].path # None /\ ~Working(t)
  BY <1>1, <1>3 DEF Bookkeeping, FilesInOrder
<1>5. Temp(t) \in Paths
  BY <1>1, <1>4, TempsApart
<1>6. /\ disk' \in [Paths -> Content \cup {None}]
      /\ disk'[Temp(t)] = None
      /\ \A q \in Paths : q # Temp(t) => disk'[q] = disk[q]
  BY <1>1, <1>3, <1>5 DEF TypeOK
<1>7. /\ entry' \in [Transfers -> IncomingFileSaveSession]
      /\ \A u \in Transfers : /\ entry'[u].path = entry[u].path
                              /\ entry'[u].chunks = entry[u].chunks
                              /\ entry'[u].unlinking => entry[u].unlinking
  BY <1>1, <1>3 DEF TypeOK, IncomingFileSaveSession
<1>8. TypeOK'
  BY <1>1, <1>2, <1>6, <1>7 DEF TypeOK
<1>9. \A u \in Transfers : Working(u)' <=> Working(u)
  BY <1>2 DEF Working
<1>10. Bookkeeping'
  BY <1>1, <1>2, <1>7, <1>9 DEF Bookkeeping
<1>11. /\ \A u \in Transfers : entry[u].path # None => disk'[entry[u].path] = disk[entry[u].path]
       /\ \A u \in Transfers : Temp(u)' = Temp(u)
       /\ \A u \in Transfers : u # t /\ entry[u].path # None => disk'[Temp(u)] = disk[Temp(u)]
       /\ NamesReserved' /\ LeftoversKept'
  BY <1>4, <1>6, <1>7, OtherFilesKept
<1>12. FilesInOrder'
  <2>1. \A u \in Transfers : Working(u) => entry[u].path # None /\ u # t
    BY <1>1, <1>4 DEF Bookkeeping
  <2>2. ASSUME NEW u \in Transfers, Working(u)
        PROVE  /\ ~entry'[u].unlinking
               /\ disk'[entry'[u].path] = << >>
               /\ disk'[Temp(u)] = IF entry'[u].chunks = 0 THEN None ELSE Prefix(u, entry'[u].chunks)
    BY <2>1, <2>2, <1>1, <1>7, <1>11 DEF FilesInOrder
  <2>3. ASSUME NEW u \in Transfers, "saved" \in reports[u]
        PROVE  entry'[u].path # None /\ ~Working(u) /\ disk'[entry'[u].path] = WholeFile(u)
    BY <2>3, <1>1, <1>7, <1>11 DEF FilesInOrder
  <2> QED BY <1>2, <1>9, <1>11, <2>2, <2>3 DEF FilesInOrder
<1>13. \A u \in Transfers : Fresh(u) => Fresh(u)'
  BY <1>2, <1>7 DEF Fresh
<1>14. QueuesFollow /\ \A u \in Transfers : entry'[u].chunks <= sender[u].next
  BY <1>2, <1>7 DEF QueuesFollow, FileInv, ChunksWereSent
<1>15. StartsOnce' /\ ChunksWereSent'
  BY <1>2, <1>8, <1>13, <1>14, WireKept
<1> QED BY <1>8, <1>10, <1>11, <1>12, <1>15 DEF FileInv

\* The whole file takes its name, which was reserved until now.
LEMMA RenameDoneStep ==
  ASSUME FileInv, NEW t \in Transfers, RenameDone(t)
  PROVE  /\ FileInv'
         /\ disk[entry[t].path] = << >> /\ disk'[entry[t].path] = WholeFile(t)
         /\ WholeFile(t) # << >> /\ entry[t].path # None /\ t \in Offered
         /\ \A u \in Transfers : u # t /\ entry[u].path # None =>
              disk'[entry[u].path] = disk[entry[u].path]
<1>1. TypeOK /\ NamesReserved /\ Bookkeeping /\ FilesInOrder /\ LeftoversKept
  BY DEF FileInv
<1>2. UNCHANGED <<open, generation, closeEvents, toReceiver, toSender, sender, abortReasons,
                  incoming, saves, entry>>
  BY DEF RenameDone, channelVars, senderVars
<1>3. /\ transfer[t].busy = "rename"
      /\ disk[Temp(t)] # None
      /\ disk' = [disk EXCEPT ![entry[t].path] = disk[Temp(t)], ![Temp(t)] = None]
      /\ transfer' = [transfer EXCEPT ![t].busy = "no"]
      /\ Report(t, "saved")
  BY DEF RenameDone
<1>4. /\ Working(t) /\ entry[t].path # None /\ t \notin saves
      /\ entry[t].chunks = Chunks[t]
  BY <1>1, <1>3 DEF Bookkeeping, Working
<1>5. disk[Temp(t)] = WholeFile(t) /\ Chunks[t] # 0 /\ disk[entry[t].path] = << >>
  BY <1>1, <1>3, <1>4 DEF FilesInOrder, WholeFile
<1>6. WholeFile(t) # << >> /\ WholeFile(t) \in Content
  <2>1. Chunks[t] \in Nat
    BY FileTransferConstants
  <2> QED BY <1>5, <2>1, PrefixGrows, Contents DEF WholeFile
<1>7. /\ entry[t].path \in FinalPaths /\ entry[t].path \in Paths
      /\ Temp(t) \in Paths /\ Temp(t) \notin FinalPaths /\ Temp(t) # entry[t].path
  BY <1>1, <1>4, TempsApart
<1>8. /\ disk' \in [Paths -> Content \cup {None}]
      /\ disk'[entry[t].path] = WholeFile(t)
      /\ disk'[Temp(t)] = None
      /\ \A q \in Paths : q # entry[t].path /\ q # Temp(t) => disk'[q] = disk[q]
  BY <1>1, <1>3, <1>5, <1>6, <1>7 DEF TypeOK
<1>9. /\ transfer' \in [Transfers -> IncomingFileTransfer]
      /\ \A u \in Transfers : /\ transfer'[u].stored = transfer[u].stored
                              /\ transfer'[u].queue = transfer[u].queue
                              /\ u # t => transfer'[u] = transfer[u]
      /\ transfer'[t].busy = "no"
  BY <1>1, <1>3 DEF TypeOK, IncomingFileTransfer
<1>10. /\ reports' \in [Transfers -> SUBSET Verdicts]
       /\ \A u \in Transfers : u # t => reports'[u] = reports[u]
  BY <1>1, <1>3 DEF TypeOK, Report, Verdicts
<1>11. TypeOK'
  BY <1>1, <1>2, <1>8, <1>9, <1>10 DEF TypeOK
<1>12. /\ \A u \in Transfers : u # t => (Working(u)' <=> Working(u))
       /\ ~Working(t)'
  BY <1>2, <1>4, <1>9 DEF Working
<1>13. Bookkeeping'
  BY <1>1, <1>2, <1>9, <1>12 DEF Bookkeeping
<1>14. \A u \in Transfers : u # t /\ entry[u].path # None =>
         /\ entry[u].path \in Paths /\ entry[u].path # entry[t].path /\ entry[u].path # Temp(t)
         /\ Temp(u) \in Paths /\ Temp(u) # Temp(t) /\ Temp(u) # entry[t].path
  BY <1>1, <1>4, <1>7, TempsApart
<1>15. \A u \in Transfers : u # t /\ entry[u].path # None =>
         disk'[entry[u].path] = disk[entry[u].path] /\ disk'[Temp(u)] = disk[Temp(u)]
  BY <1>8, <1>14
<1>16. FinalPaths \subseteq Paths
  BY FileTransferConstants DEF FinalPaths
<1>17. NamesReserved'
  <2>1. ASSUME NEW u \in Transfers, entry[u].path # None
        PROVE  entry[u].path \notin Leftovers /\ disk'[entry[u].path] \in {<< >>, WholeFile(u)}
    BY <2>1, <1>1, <1>8, <1>15 DEF NamesReserved
  <2>2. ASSUME NEW q \in FinalPaths, disk'[TempOf[q]] # None PROVE disk'[q] # None
    <3>1. CASE q = entry[t].path
      BY <3>1, <1>6, <1>8, Contents
    <3>2. CASE q # entry[t].path
      <4>1. /\ TempOf[q] \in Paths /\ q \in Paths /\ q # Temp(t)
            /\ TempOf[q] # Temp(t) /\ TempOf[q] # entry[t].path
        BY <3>2, <1>7, <1>16, FileTransferConstants, TempPathsApart DEF Temp
      <4> QED BY <2>2, <3>2, <4>1, <1>1, <1>8 DEF NamesReserved
    <3> QED BY <3>1, <3>2
  <2> QED BY <1>1, <1>2, <2>1, <2>2 DEF NamesReserved
<1>18. LeftoversKept'
  <2>1. entry[t].path \notin Leftovers
    BY <1>1, <1>4 DEF NamesReserved
  <2> QED BY <1>1, <1>7, <1>8, <1>16, <2>1 DEF LeftoversKept
<1>19. FilesInOrder'
  <2>1. \A u \in Transfers : Working(u) => entry[u].path # None
    BY <1>1 DEF Bookkeeping
  <2>2. \A u \in Transfers : Temp(u)' = Temp(u)
    BY <1>2 DEF Temp
  <2>3. ASSUME NEW u \in Transfers, u # t, Working(u)
        PROVE  /\ ~entry[u].unlinking
               /\ disk'[entry[u].path] = << >>
               /\ disk'[Temp(u)] = IF entry[u].chunks = 0 THEN None ELSE Prefix(u, entry[u].chunks)
    BY <2>1, <2>3, <1>1, <1>15 DEF FilesInOrder
  <2>4. ASSUME NEW u \in Transfers, u # t, "saved" \in reports[u]
        PROVE  entry[u].path # None /\ ~Working(u) /\ disk'[entry[u].path] = WholeFile(u)
    BY <2>4, <1>1, <1>15 DEF FilesInOrder
  <2> QED BY <1>2, <1>4, <1>8, <1>10, <1>12, <2>2, <2>3, <2>4 DEF FilesInOrder
<1>20. \A u \in Transfers : Fresh(u) => Fresh(u)'
  BY <1>2, <1>4, <1>9 DEF Fresh
<1>21. QueuesFollow /\ \A u \in Transfers : entry'[u].chunks <= sender[u].next
  BY <1>2, <1>9 DEF QueuesFollow, FileInv, ChunksWereSent
<1>22. StartsOnce' /\ ChunksWereSent'
  BY <1>2, <1>11, <1>20, <1>21, WireKept
<1>23. t \in Offered
  <2>1. sender[t].next \in Nat /\ Chunks[t] \in Nat
    BY <1>1, FileTransferConstants DEF TypeOK, OutgoingTransfer
  <2> QED BY <1>4, <1>5, <2>1 DEF FileInv, ChunksWereSent, Offered
<1>24. FileInv'
  BY <1>11, <1>13, <1>17, <1>18, <1>19, <1>22 DEF FileInv
<1> QED BY <1>4, <1>5, <1>6, <1>8, <1>15, <1>23, <1>24

-----------------------------------------------------------------------------
(* The steps of the sender.                                                   *)

\* What the sender of t adds to the messages under way.
SendsOnly(t) ==
  /\ Len(toReceiver) <= Len(toReceiver')
  /\ \A i \in 1..Len(toReceiver) : toReceiver'[i] = toReceiver[i]
  /\ \A i \in (Len(toReceiver) + 1)..Len(toReceiver') :
       /\ toReceiver'[i].id = t
       /\ toReceiver'[i].kind = "start" => sender[t].pc = "idle" /\ i = Len(toReceiver) + 1
       /\ toReceiver'[i].kind = "chunk" => toReceiver'[i].index < sender'[t].next

LEMMA SenderKeepsInv ==
  ASSUME FileInv, TypeOK', NEW t \in Transfers, SendsOnly(t),
         UNCHANGED <<rendererVars, mainVars>>,
         \A u \in Transfers : u # t => sender'[u] = sender[u],
         sender'[t].pc # "idle",
         sender[t].next <= sender'[t].next, sender'[t].next <= Chunks[t],
         sender'[t].pc = "reading" => sender'[t].next < Chunks[t]
  PROVE  FileInv'
<1>1. TypeOK /\ StartsOnce /\ ChunksWereSent
  BY DEF FileInv
<1>2. UNCHANGED <<incoming, transfer, reports, saves, entry, disk>>
  BY DEF rendererVars, mainVars
<1>3. FileParts'
  <2>1. \A u \in Transfers : transfer[u].busy = "append" => transfer[u].queue # << >>
    BY DEF FileInv, Bookkeeping
  <2>2. QuietStep
    BY <1>2, <2>1 DEF QuietStep
  <2> QED BY <2>2, QuietKeepsFiles DEF FileInv, FileParts
<1>4. \A u \in Transfers : Fresh(u)' <=> Fresh(u)
  BY <1>2 DEF Fresh
<1>5. Len(toReceiver) \in Nat /\ Len(toReceiver') \in Nat
  BY <1>1 DEF TypeOK
<1>6. \A i \in 1..Len(toReceiver') :
        i \in 1..Len(toReceiver) \/ i \in (Len(toReceiver) + 1)..Len(toReceiver')
  BY <1>5
<1>7. StartsOnce'
  <2>1. \A u \in Transfers : sender'[u].pc = "idle" => Fresh(u)'
    BY <1>1, <1>4 DEF StartsOnce
  <2>2. ASSUME NEW u \in Transfers, NEW i \in 1..Len(toReceiver'),
               toReceiver'[i].kind = "start", toReceiver'[i].id = u
        PROVE  /\ sender'[u].pc # "idle"
               /\ Fresh(u)'
               /\ \A j \in 1..Len(toReceiver') :
                    toReceiver'[j].kind = "start" /\ toReceiver'[j].id = u => j = i
    <3>1. CASE i \in 1..Len(toReceiver)
      <4>1. /\ sender[u].pc # "idle" /\ Fresh(u)
            /\ \A j \in 1..Len(toReceiver) :
                 toReceiver[j].kind = "start" /\ toReceiver[j].id = u => j = i
        BY <1>1, <2>2, <3>1 DEF StartsOnce, SendsOnly
      <4>2. ASSUME NEW j \in 1..Len(toReceiver'), toReceiver'[j].kind = "start", toReceiver'[j].id = u
            PROVE  j = i
        BY <1>6, <4>1, <4>2 DEF SendsOnly
      <4> QED BY <1>4, <4>1, <4>2
    <3>2. CASE i \in (Len(toReceiver) + 1)..Len(toReceiver')
      <4>1. u = t /\ sender[t].pc = "idle" /\ i = Len(toReceiver) + 1
        BY <2>2, <3>2 DEF SendsOnly
      <4>2. ASSUME NEW j \in 1..Len(toReceiver'), toReceiver'[j].kind = "start", toReceiver'[j].id = u
            PROVE  j = i
        <5>1. j \notin 1..Len(toReceiver)
          BY <1>1, <4>1, <4>2 DEF StartsOnce, SendsOnly
        <5> QED BY <1>6, <4>1, <4>2, <5>1 DEF SendsOnly
      <4> QED BY <1>1, <1>4, <4>1, <4>2 DEF StartsOnce
    <3> QED BY <1>6, <3>1, <3>2
  <2> QED BY <2>1, <2>2 DEF StartsOnce
<1>8. ChunksWereSent'
  <2>1. \A u \in Transfers : sender[u].next \in Nat /\ sender'[u].next \in Nat
                             /\ entry[u].chunks \in Nat
    BY <1>1 DEF TypeOK, OutgoingTransfer, IncomingFileSaveSession
  <2>2. \A u \in Transfers : sender[u].next <= sender'[u].next
    BY <2>1
  <2>3. ASSUME NEW u \in Transfers
        PROVE  /\ entry'[u].chunks <= sender'[u].next
               /\ sender'[u].next <= Chunks[u]
               /\ sender'[u].pc = "idle" => sender'[u].next = 0
               /\ sender'[u].pc = "reading" => sender'[u].next < Chunks[u]
    BY <1>1, <1>2, <2>1, <2>2 DEF ChunksWereSent
  <2>4. ASSUME NEW u \in Transfers, NEW k \in 1..Len(transfer'[u].queue)
        PROVE  transfer'[u].queue[k] < sender'[u].next
    <3>1. transfer[u].queue[k] \in Nat /\ transfer[u].queue[k] < sender[u].next
      BY <1>1, <1>2, <2>4 DEF ChunksWereSent, TypeOK, IncomingFileTransfer
    <3> QED BY <1>2, <2>1, <2>2, <3>1
  <2>5. ASSUME NEW u \in Transfers, NEW i \in 1..Len(toReceiver'),
               toReceiver'[i].kind = "chunk", toReceiver'[i].id = u
        PROVE  toReceiver'[i].index < sender'[u].next
    <3>1. CASE i \in 1..Len(toReceiver)
      <4>1. toReceiver[i].index \in Nat
        <5>1. toReceiver[i] \in Message
          BY <1>1, <3>1 DEF TypeOK
        <5> QED BY <5>1 DEF Message
      <4>2. toReceiver[i].index < sender[u].next
        BY <1>1, <2>5, <3>1 DEF ChunksWereSent, SendsOnly
      <4> QED BY <2>1, <2>2, <3>1, <4>1, <4>2 DEF SendsOnly
    <3>2. CASE i \in (Len(toReceiver) + 1)..Len(toReceiver')
      BY <2>5, <3>2 DEF SendsOnly
    <3> QED BY <1>6, <3>1, <3>2
  <2> QED BY <2>3, <2>4, <2>5 DEF ChunksWereSent
<1> QED BY <1>3, <1>7, <1>8 DEF FileInv, FileParts

\* Sending one message, or none.
LEMMA SendsOne ==
  ASSUME TypeOK, NEW t \in Transfers, NEW m \in Message,
         m.id = t, m.kind = "start" => sender[t].pc = "idle",
         m.kind = "chunk" => m.index < sender'[t].next,
         toReceiver' = toReceiver \/ toReceiver' = Append(toReceiver, m)
  PROVE  SendsOnly(t) /\ toReceiver' \in Seq(Message)
<1>1. toReceiver \in Seq(Message) /\ Len(toReceiver) \in Nat
  BY DEF TypeOK
<1>2. CASE toReceiver' = toReceiver
  BY <1>1, <1>2 DEF SendsOnly
<1>3. CASE toReceiver' = Append(toReceiver, m)
  <2>1. /\ toReceiver' \in Seq(Message)
        /\ Len(toReceiver') = Len(toReceiver) + 1
        /\ \A i \in 1..Len(toReceiver) : toReceiver'[i] = toReceiver[i]
        /\ toReceiver'[Len(toReceiver) + 1] = m
    BY <1>1, <1>3
  <2>2. \A i \in (Len(toReceiver) + 1)..Len(toReceiver') : i = Len(toReceiver) + 1
    BY <1>1, <2>1
  <2> QED BY <1>1, <2>1, <2>2 DEF SendsOnly
<1> QED BY <1>2, <1>3

LEMMA MessagesTyped ==
  ASSUME NEW t \in Transfers, NEW n \in Nat, NEW kind \in {"start", "chunk", "complete", "abort"}
  PROVE  /\ Msg(kind, t, n) \in Message /\ Msg(kind, t, n).kind = kind
         /\ Msg(kind, t, n).id = t /\ Msg(kind, t, n).index = n
BY DEF Msg, Message

LEMMA ThrowStep ==
  ASSUME FileInv, NEW t \in Transfers, Throw(t), sender[t].pc # "idle",
         UNCHANGED <<channelVars, toSender, rendererVars, mainVars>>
  PROVE  FileInv'
<1>1. TypeOK
  BY DEF FileInv
<1>2. UNCHANGED <<open, generation, closeEvents, toSender, incoming, transfer, reports, saves, entry, disk>>
  BY DEF channelVars, rendererVars, mainVars
<1>3. /\ sender' \in [Transfers -> OutgoingTransfer]
      /\ \A u \in Transfers : u # t => sender'[u] = sender[u]
      /\ sender'[t].pc = "failed" /\ sender'[t].next = sender[t].next
      /\ abortReasons' \subseteq Transfers
  BY <1>1 DEF Throw, TypeOK, OutgoingTransfer
<1>4. toReceiver' = toReceiver \/ toReceiver' = Append(toReceiver, Msg("abort", t, 0))
  BY DEF Throw
<1>5. SendsOnly(t) /\ toReceiver' \in Seq(Message)
  BY <1>1, <1>4, MessagesTyped, SendsOne
<1>6. TypeOK'
  BY <1>1, <1>2, <1>3, <1>5 DEF TypeOK
<1>7. sender[t].next \in Nat /\ sender[t].next <= Chunks[t]
  BY <1>1 DEF TypeOK, OutgoingTransfer, FileInv, ChunksWereSent
<1> QED BY <1>3, <1>5, <1>6, <1>7, SenderKeepsInv

LEMMA SendFileStep ==
  ASSUME FileInv, NEW t \in Transfers, SendFile(t) PROVE FileInv'
<1>1. TypeOK
  BY DEF FileInv
<1>2. /\ UNCHANGED <<open, generation, closeEvents, toSender, abortReasons,
                     incoming, transfer, reports, saves, entry, disk>>
      /\ UNCHANGED <<rendererVars, mainVars>>
      /\ sender[t].pc = "idle"
  BY DEF SendFile, channelVars, rendererVars, mainVars
<1>3. sender[t].next = 0 /\ Chunks[t] \in Nat
  BY <1>1, <1>2, FileTransferConstants DEF FileInv, ChunksWereSent
<1>4. /\ Msg("start", t, 0) \in Message /\ Msg("start", t, 0).kind = "start"
      /\ Msg("start", t, 0).id = t
      /\ Msg("complete", t, 0) \in Message /\ Msg("complete", t, 0).kind = "complete"
      /\ Msg("complete", t, 0).id = t
  BY MessagesTyped
<1>5. CASE Chunks[t] = 0
  <2>1. /\ sender' = [sender EXCEPT ![t].pc = "flushing", ![t].channel = generation]
        /\ toReceiver' = toReceiver \o <<Msg("start", t, 0), Msg("complete", t, 0)>>
    BY <1>5 DEF SendFile
  <2>2. /\ sender' \in [Transfers -> OutgoingTransfer]
        /\ \A u \in Transfers : u # t => sender'[u] = sender[u]
        /\ sender'[t].pc = "flushing" /\ sender'[t].next = 0
    BY <1>1, <1>3, <2>1 DEF TypeOK, OutgoingTransfer
  <2>3. SendsOnly(t) /\ toReceiver' \in Seq(Message)
    <3> DEFINE start == Msg("start", t, 0)
               complete == Msg("complete", t, 0)
    <3> HIDE DEF start, complete
    <3>1. /\ start \in Message /\ start.kind = "start" /\ start.id = t
          /\ complete \in Message /\ complete.kind = "complete" /\ complete.id = t
      BY <1>4 DEF start, complete
    <3>2. toReceiver \in Seq(Message) /\ Len(toReceiver) \in Nat
      BY <1>1 DEF TypeOK
    <3>3. toReceiver' = toReceiver \o <<start, complete>>
      BY <2>1 DEF start, complete
    <3>4. <<start, complete>> \in Seq(Message) /\ Len(<<start, complete>>) = 2
      BY <3>1
    <3>5. /\ toReceiver' \in Seq(Message)
          /\ Len(toReceiver') = Len(toReceiver) + 2
          /\ \A i \in 1..Len(toReceiver) : toReceiver'[i] = toReceiver[i]
          /\ toReceiver'[Len(toReceiver) + 1] = start
          /\ toReceiver'[Len(toReceiver) + 2] = complete
      BY <3>1, <3>2, <3>3, <3>4
    <3>6. \A i \in (Len(toReceiver) + 1)..Len(toReceiver') :
            i = Len(toReceiver) + 1 \/ i = Len(toReceiver) + 2
      BY <3>2, <3>5
    <3> QED BY <1>2, <3>1, <3>2, <3>5, <3>6 DEF SendsOnly
  <2>4. TypeOK'
    BY <1>1, <1>2, <2>2, <2>3 DEF TypeOK
  <2> QED BY <1>2, <1>3, <1>5, <2>2, <2>3, <2>4, SenderKeepsInv
<1>6. CASE Chunks[t] # 0
  <2>1. /\ sender' = [sender EXCEPT ![t].pc = "reading", ![t].channel = generation]
        /\ toReceiver' = Append(toReceiver, Msg("start", t, 0))
    BY <1>6 DEF SendFile
  <2>2. /\ sender' \in [Transfers -> OutgoingTransfer]
        /\ \A u \in Transfers : u # t => sender'[u] = sender[u]
        /\ sender'[t].pc = "reading" /\ sender'[t].next = 0
    BY <1>1, <1>3, <2>1 DEF TypeOK, OutgoingTransfer
  <2>3. SendsOnly(t) /\ toReceiver' \in Seq(Message)
    BY <1>1, <1>2, <1>4, <2>1, SendsOne
  <2>4. TypeOK'
    BY <1>1, <1>2, <2>2, <2>3 DEF TypeOK
  <2> QED BY <1>2, <1>3, <1>6, <2>2, <2>3, <2>4, SenderKeepsInv
<1> QED BY <1>5, <1>6

LEMMA ReadChunkStep ==
  ASSUME FileInv, NEW t \in Transfers, ReadChunk(t) PROVE FileInv'
<1>1. TypeOK
  BY DEF FileInv
<1>2. /\ UNCHANGED <<open, generation, closeEvents, toSender, incoming, transfer, reports,
                     saves, entry, disk>>
      /\ UNCHANGED <<channelVars, toSender, rendererVars, mainVars>>
      /\ sender[t].pc = "reading"
  BY DEF ReadChunk, channelVars, rendererVars, mainVars
<1>3. CASE Throw(t)
  BY <1>2, <1>3, ThrowStep
<1>4. CASE /\ sender' = [sender EXCEPT ![t].pc = "draining", ![t].next = @ + 1]
           /\ toReceiver' = Append(toReceiver, Msg("chunk", t, sender[t].next))
           /\ UNCHANGED abortReasons
  <2>1. sender[t].next \in Nat /\ sender[t].next < Chunks[t] /\ Chunks[t] \in Nat
    BY <1>1, <1>2, FileTransferConstants DEF TypeOK, OutgoingTransfer, FileInv, ChunksWereSent
  <2>2. /\ sender' \in [Transfers -> OutgoingTransfer]
        /\ \A u \in Transfers : u # t => sender'[u] = sender[u]
        /\ sender'[t].pc = "draining" /\ sender'[t].next = sender[t].next + 1
    BY <1>1, <1>4, <2>1 DEF TypeOK, OutgoingTransfer
  <2>3. SendsOnly(t) /\ toReceiver' \in Seq(Message)
    BY <1>1, <1>4, <2>1, <2>2, MessagesTyped, SendsOne
  <2>4. TypeOK'
    BY <1>1, <1>2, <1>4, <2>2, <2>3 DEF TypeOK
  <2> QED BY <1>2, <2>1, <2>2, <2>3, <2>4, SenderKeepsInv
<1> QED BY <1>3, <1>4 DEF ReadChunk

LEMMA DrainStep ==
  ASSUME FileInv, NEW t \in Transfers, Drained(t) \/ DrainFails(t) \/ Flushed(t) PROVE FileInv'
<1>1. TypeOK
  BY DEF FileInv
<1>2. /\ UNCHANGED <<open, generation, closeEvents, toSender, incoming, transfer, reports,
                     saves, entry, disk>>
      /\ UNCHANGED <<channelVars, toSender, rendererVars, mainVars>>
      /\ sender[t].pc # "idle"
  BY DEF Drained, DrainFails, Flushed, channelVars, rendererVars, mainVars
<1>3. CASE Throw(t)
  BY <1>2, <1>3, ThrowStep
<1>4. ASSUME NEW pc \in {"reading", "flushing", "sent"}, pc = "reading" => sender[t].next < Chunks[t],
             sender' = [sender EXCEPT ![t].pc = pc],
             \/ toReceiver' = toReceiver
             \/ toReceiver' = Append(toReceiver, Msg("complete", t, 0)),
             UNCHANGED abortReasons
      PROVE  FileInv'
  <2>1. /\ sender' \in [Transfers -> OutgoingTransfer]
        /\ \A u \in Transfers : u # t => sender'[u] = sender[u]
        /\ sender'[t].pc = pc /\ sender'[t].next = sender[t].next
    BY <1>1, <1>4 DEF TypeOK, OutgoingTransfer
  <2>2. SendsOnly(t) /\ toReceiver' \in Seq(Message)
    BY <1>1, <1>4, MessagesTyped, SendsOne
  <2>3. TypeOK'
    BY <1>1, <1>2, <1>4, <2>1, <2>2 DEF TypeOK
  <2>4. sender[t].next \in Nat /\ sender[t].next <= Chunks[t]
    BY <1>1 DEF TypeOK, OutgoingTransfer, FileInv, ChunksWereSent
  <2> QED BY <1>2, <1>4, <2>1, <2>2, <2>3, <2>4, SenderKeepsInv
<1>5. CASE Drained(t) /\ ~Throw(t)
  BY <1>4, <1>5 DEF Drained
<1>6. CASE DrainFails(t)
  BY <1>3, <1>6 DEF DrainFails
<1>7. CASE Flushed(t) /\ ~Throw(t)
  BY <1>4, <1>7 DEF Flushed
<1> QED BY <1>3, <1>5, <1>6, <1>7

LEMMA SenderReceivesAbortStep ==
  ASSUME FileInv, NEW t \in Transfers, SenderReceivesAbort(t) PROVE FileInv'
<1>1. TypeOK
  BY DEF FileInv
<1>2. /\ UNCHANGED <<open, generation, closeEvents, toReceiver, sender, incoming, transfer,
                     reports, saves, entry, disk>>
      /\ toSender' \subseteq Transfers /\ abortReasons' \subseteq Transfers
  BY <1>1 DEF SenderReceivesAbort, channelVars, rendererVars, mainVars, TypeOK
<1>3. TypeOK'
  BY <1>1, <1>2 DEF TypeOK
<1>4. \A u \in Transfers : transfer[u].busy = "append" => transfer[u].queue # << >>
  BY DEF FileInv, Bookkeeping
<1>5. QuietStep /\ QueuesFollow
  BY <1>2, <1>4 DEF QuietStep, QueuesFollow, FileInv, ChunksWereSent
<1>6. WireShrinks
  BY <1>1, <1>2, UnchangedIsShrinking
<1> QED BY <1>2, <1>3, <1>5, <1>6, QuietKeepsInv


-----------------------------------------------------------------------------
(* The invariant, its two consequences for the user, and the refinement.      *)

\* The initial states satisfy the invariant.
LEMMA InitInv ==
  ASSUME Init PROVE FileInv
<1>1. /\ toReceiver = << >> /\ Len(toReceiver) = 0
      /\ saves = {} /\ incoming = {}
      /\ \A t \in Transfers :
           /\ sender[t] = [pc |-> "idle", next |-> 0, channel |-> 0]
           /\ transfer[t] = [failed |-> FALSE, stored |-> 0, queue |-> << >>,
                             busy |-> "no", completing |-> FALSE]
           /\ reports[t] = {}
           /\ entry[t] = [path |-> None, chunks |-> 0, unlinking |-> FALSE]
  BY DEF Init
<1>2. disk \in [Paths -> Content \cup {None}] /\ Foreign # None /\ None \notin Paths
  <2>1. Foreign \in Content /\ None \notin Content
    BY Contents
  <2>2. None \notin Paths
    BY FileTransferConstants
  <2> QED BY <2>1, <2>2 DEF Init
<1>3. TypeOK
  <2>1. sender \in [Transfers -> OutgoingTransfer]
    BY DEF Init, OutgoingTransfer
  <2>2. transfer \in [Transfers -> IncomingFileTransfer]
    BY DEF Init, IncomingFileTransfer
  <2>3. entry \in [Transfers -> IncomingFileSaveSession]
    BY DEF Init, IncomingFileSaveSession
  <2>4. reports \in [Transfers -> SUBSET Verdicts]
    BY DEF Init
  <2>5. toReceiver \in Seq(Message)
    BY DEF Init
  <2> QED BY <1>1, <1>2, <2>1, <2>2, <2>3, <2>4, <2>5 DEF Init, TypeOK
<1>4. StartsOnce
  BY <1>1 DEF StartsOnce, Fresh
<1>5. ChunksWereSent
  <2>1. \A t \in Transfers : Chunks[t] \in Nat
    BY FileTransferConstants
  <2> QED BY <1>1, <2>1 DEF ChunksWereSent
<1>6. Bookkeeping
  BY <1>1 DEF Bookkeeping, Working
<1>7. NamesReserved
  <2>1. \A p \in FinalPaths : p \in Paths /\ TempOf[p] \in Paths
    <3>1. FinalPaths \subseteq Paths
      BY FileTransferConstants DEF FinalPaths
    <3>2. TempOf \in [FinalPaths -> Paths]
      BY FileTransferConstants
    <3> QED BY <3>1, <3>2
  <2>2. \A p \in Paths : disk[p] # None <=> p \in Leftovers
    BY <1>2 DEF Init
  <2>3. \A p \in FinalPaths : disk[TempOf[p]] # None => disk[p] # None
    BY <2>1, <2>2, LeftoversPaired
  <2> QED BY <1>1, <2>3 DEF NamesReserved
<1>8. FilesInOrder
  BY <1>1 DEF FilesInOrder, Working
<1>9. LeftoversKept
  BY FileTransferConstants DEF LeftoversKept, Init
<1> QED BY <1>3, <1>4, <1>5, <1>6, <1>7, <1>8, <1>9 DEF FileInv

\* Every step keeps it.
LEMMA NextInv ==
  ASSUME FileInv, [Next]_vars PROVE FileInv'
<1>1. CASE OpenChannel \/ CloseChannel
  BY <1>1, ChannelStep
<1>2. CASE ReceiverSeesClose
  BY <1>2, ReceiverSeesCloseStep
<1>3. CASE Disconnect
  BY <1>3, DisconnectStep
<1>4. ASSUME NEW t \in Transfers, SenderStep(t)
      PROVE  FileInv'
  BY <1>4, SendFileStep, ReadChunkStep, DrainStep, SenderReceivesAbortStep DEF SenderStep
<1>5. ASSUME NEW t \in Transfers, WriterStep(t)
      PROVE  FileInv'
  BY <1>5, StartDoneStep, StartFailsStep, RunChunkStep, AppendDoneStep, AppendFailsStep,
     CompleteStep, RenameDoneStep, RenameFailsStep DEF WriterStep
<1>6. ASSUME NEW t \in Transfers, ReceiverStep(t)
      PROVE  FileInv'
  BY <1>5, <1>6, ReceiveStartStep, ReceiveChunkStep, ReceiveCompleteStep, ReceiveAbortStep,
     TimeOutStep, UnlinkStep DEF ReceiverStep
<1>7. CASE UNCHANGED vars
  <2>1. UNCHANGED <<open, generation, closeEvents, toReceiver, toSender, sender, abortReasons,
                    incoming, transfer, reports, saves, entry, disk>>
    BY <1>7 DEF vars, channelVars, senderVars, rendererVars, mainVars
  <2>2. TypeOK' /\ TypeOK
    BY <2>1 DEF FileInv, TypeOK
  <2>3. StartsOnce' /\ ChunksWereSent'
    BY <2>1 DEF FileInv, StartsOnce, Fresh, ChunksWereSent
  <2>4. Bookkeeping' /\ FilesInOrder'
    BY <2>1 DEF FileInv, Bookkeeping, FilesInOrder, Working, Temp
  <2>5. NamesReserved' /\ LeftoversKept'
    BY <2>1 DEF FileInv, NamesReserved, LeftoversKept
  <2> QED BY <2>2, <2>3, <2>4, <2>5 DEF FileInv
<1> QED BY <1>1, <1>2, <1>3, <1>4, <1>6, <1>7 DEF Next

\* The bookkeeping of renderer and main process and the state of the folder
\* agree in every state (createIncomingFile to completeIncomingFile of fileIpc.ts
\* with the promise queue of RemoteControlClient).
THEOREM FilesStayInOrder == Spec => []FileInv
<1>1. Init => FileInv
  BY InitInv
<1>2. FileInv /\ [Next]_vars => FileInv'
  BY NextInv
<1> QED BY <1>1, <1>2, PTL DEF Spec

\* A file reported as saved stands whole under its name, for good
\* (completeIncomingFileTransfer after the rename in fileIpc.ts).
THEOREM SavedAreWhole == Spec => []SavedFilesWhole
<1>1. FileInv => SavedFilesWhole
  BY DEF FileInv, FilesInOrder, SavedFilesWhole
<1> QED BY <1>1, FilesStayInOrder, PTL


-----------------------------------------------------------------------------
(* The refinement.                                                            *)

\* Nobody sees a step that keeps every reserved name and what is in it.
LEMMA Unseen ==
  ASSUME UNCHANGED sender,
         \A u \in Transfers : entry'[u].path = entry[u].path,
         \A u \in Transfers : entry[u].path # None =>
           disk'[entry[u].path] = disk[entry[u].path]
  PROVE  UNCHANGED Delivery!vars
<1>1. Offered' = Offered
  BY DEF Offered
<1>2. \A u \in Transfers : VisibleFile(u)' = VisibleFile(u)
  BY DEF VisibleFile
<1>3. [u \in Transfers |-> VisibleFile(u)]' = [u \in Transfers |-> VisibleFile(u)]
  BY <1>2
<1> QED BY <1>1, <1>3 DEF Delivery!vars

\* The sender's steps offer the file at most.
LEMMA SenderRefines ==
  ASSUME FileInv, NEW t \in Transfers, SenderStep(t)
  PROVE  [Delivery!Next]_(Delivery!vars)
<1>1. /\ UNCHANGED <<rendererVars, mainVars>>
      /\ \/ sender' = sender
         \/ /\ \E o \in {"reading", "draining", "flushing", "sent", "failed"} : sender'[t].pc = o
            /\ \/ sender'[t].next = sender[t].next
               \/ sender[t].pc = "reading"
            /\ \A u \in Transfers : u # t => sender'[u] = sender[u]
  <2>1. sender \in [Transfers -> OutgoingTransfer]
    BY DEF FileInv, TypeOK
  <2>2. CASE SendFile(t)
    BY <2>1, <2>2 DEF SendFile, OutgoingTransfer
  <2>3. CASE ReadChunk(t)
    BY <2>1, <2>3 DEF ReadChunk, Throw, OutgoingTransfer
  <2>4. CASE Drained(t)
    BY <2>1, <2>4 DEF Drained, Throw, OutgoingTransfer
  <2>5. CASE DrainFails(t)
    BY <2>1, <2>5 DEF DrainFails, Throw, OutgoingTransfer
  <2>6. CASE Flushed(t)
    BY <2>1, <2>6 DEF Flushed, Throw, OutgoingTransfer
  <2>7. CASE SenderReceivesAbort(t)
    BY <2>7 DEF SenderReceivesAbort
  <2> QED BY <2>2, <2>3, <2>4, <2>5, <2>6, <2>7 DEF SenderStep
<1>2. UNCHANGED <<entry, disk>>
  BY <1>1 DEF mainVars
<1>3. UNCHANGED [u \in Transfers |-> VisibleFile(u)]
  BY <1>2 DEF VisibleFile
<1>4. sender[t].pc = "reading" => sender[t].next < Chunks[t] /\ sender[t].next \in Nat
  BY DEF FileInv, ChunksWereSent, TypeOK, OutgoingTransfer
<1>5. t \in Offered => t \in Offered'
  <2>1. Chunks[t] \in Nat
    BY FileTransferConstants
  <2> QED BY <1>1, <1>4, <2>1 DEF Offered
<1>6. \A u \in Transfers : u # t => (u \in Offered' <=> u \in Offered)
  BY <1>1 DEF Offered
<1>7. Offered \subseteq Transfers /\ Offered' \subseteq Transfers
  BY DEF Offered
<1>8. Offered' = Offered \/ Offered' = Offered \cup {t}
  BY <1>5, <1>6, <1>7
<1>9. CASE Offered' = Offered
  BY <1>3, <1>9 DEF Delivery!vars
<1>10. CASE Offered' = Offered \cup {t}
  BY <1>3, <1>10 DEF Delivery!Next, Delivery!Offer
<1> QED BY <1>8, <1>9, <1>10


LEMMA QuietUnseen ==
  ASSUME QuietStep, UNCHANGED sender
  PROVE  UNCHANGED Delivery!vars
BY Unseen DEF QuietStep

\* Giving up a transfer is not seen.
LEMMA GivingUpUnseen ==
  ASSUME FileInv, NEW t \in Transfers, ReceiveAbort(t) \/ TimeOut(t)
  PROVE  UNCHANGED Delivery!vars
<1>1. transfer[t] \in IncomingFileTransfer
  BY DEF FileInv, TypeOK
<1>2. UNCHANGED <<sender, disk>>
  BY DEF ReceiveAbort, TimeOut, senderVars
<1>3. FailIncoming(t, transfer[t], TRUE) \/ FailIncoming(t, transfer[t], FALSE)
  BY DEF ReceiveAbort, TimeOut
<1>4. QuietStep
  BY <1>1, <1>2, <1>3, FailIncomingQuiet
<1> QED BY <1>2, <1>4, QuietUnseen

LEMMA RejectionUnseen ==
  ASSUME FileInv, NEW t \in Transfers, RejectQueue(t), UNCHANGED <<sender, disk>>
  PROVE  UNCHANGED Delivery!vars
BY RejectQueueQuiet, QuietUnseen

\* So is the loss of the channel, whatever is forgotten with it.
LEMMA ChannelUnseen ==
  ASSUME FileInv, OpenChannel \/ CloseChannel \/ ReceiverSeesClose \/ Disconnect
  PROVE  UNCHANGED Delivery!vars
<1>1. UNCHANGED <<sender, disk>>
  BY DEF OpenChannel, CloseChannel, ReceiverSeesClose, Disconnect, senderVars, mainVars
<1>2. \A u \in Transfers : entry'[u].path = entry[u].path
  <2>1. CASE OpenChannel \/ CloseChannel
    BY <2>1 DEF OpenChannel, CloseChannel, mainVars
  <2>2. CASE ReceiverSeesClose \/ Disconnect
    <3>1. AbortSaves(incoming) /\ TypeOK
      BY <2>2 DEF ReceiverSeesClose, Disconnect, FileInv
    <3> QED BY <3>1, AbortSavesEffect
  <2> QED BY <2>1, <2>2
<1> QED BY <1>1, <1>2, Unseen

\* The receiver's steps that only move messages or its own records.
LEMMA RecordsUnseen ==
  ASSUME FileInv, NEW t \in Transfers,
         \/ ReceiveStart(t) \/ ReceiveChunk(t) \/ ReceiveComplete(t)
         \/ StartFails(t) \/ RunChunk(t) \/ AppendFails(t) \/ Complete(t) \/ RenameFails(t)
  PROVE  UNCHANGED Delivery!vars
<1>1. CASE ReceiveStart(t) \/ ReceiveChunk(t) \/ ReceiveComplete(t)
  <2>1. UNCHANGED <<sender, disk, entry>>
    BY <1>1 DEF ReceiveStart, ReceiveChunk, ReceiveComplete, senderVars, mainVars
  <2> QED BY <2>1, Unseen
<1>2. CASE RenameFails(t)
  <2>1. UNCHANGED <<sender, disk, entry>>
    BY <1>2 DEF RenameFails, senderVars
  <2> QED BY <2>1, Unseen
<1>3. CASE StartFails(t) \/ AppendFails(t)
  BY <1>3, RejectionUnseen DEF StartFails, AppendFails, senderVars
<1>4. CASE RunChunk(t)
  <2>1. UNCHANGED <<sender, disk>>
    BY <1>4 DEF RunChunk, senderVars
  <2>2. entry' = entry \/ RejectQueue(t)
    BY <1>4 DEF RunChunk
  <2> QED BY <2>1, <2>2, RejectionUnseen, Unseen
<1>5. CASE Complete(t)
  <2>1. UNCHANGED <<sender, disk>>
    BY <1>5 DEF Complete, senderVars
  <2>2. entry' = entry \/ AbortSaves({t})
    BY <1>5 DEF Complete
  <2> QED BY <2>1, <2>2, AbortSavesEffect, Unseen DEF FileInv
<1> QED BY <1>1, <1>2, <1>3, <1>4, <1>5

\* Neither is what happens to a partial file.
LEMMA PartialUnseen ==
  ASSUME FileInv, NEW t \in Transfers, AppendDone(t) \/ Unlink(t)
  PROVE  UNCHANGED Delivery!vars
<1>1. UNCHANGED sender /\ TypeOK
  BY DEF AppendDone, Unlink, senderVars, FileInv
<1>2. \A u \in Transfers : entry'[u].path = entry[u].path
  <2>1. entry \in [Transfers -> IncomingFileSaveSession]
    BY <1>1 DEF TypeOK
  <2>2. \/ entry' = [entry EXCEPT ![t].chunks = @ + 1]
        \/ entry' = [entry EXCEPT ![t].unlinking = FALSE]
    BY DEF AppendDone, Unlink
  <2> QED BY <2>1, <2>2 DEF IncomingFileSaveSession
<1>3. entry[t].path # None
  BY DEF AppendDone, Unlink, FileInv, Bookkeeping
<1>4. \A u \in Transfers : entry[u].path # None =>
        entry[u].path \in Paths /\ entry[u].path # Temp(t)
  BY <1>1, <1>3, TempsApart DEF FileInv
<1>5. \A q \in Paths : q # Temp(t) => disk'[q] = disk[q]
  BY <1>1 DEF AppendDone, Unlink, TypeOK
<1> QED BY <1>1, <1>2, <1>4, <1>5, Unseen


\* createUniqueFilePath reserves the name.
LEMMA StartRefines ==
  ASSUME FileInv, NEW t \in Transfers, StartDone(t)
  PROVE  Delivery!Reserve(t)
<1>1. TypeOK /\ NamesReserved /\ entry[t].path = None
  BY DEF StartDone, FileInv, Bookkeeping
<1>2. PICK p \in FinalPaths :
        /\ disk[p] = None
        /\ disk' = [disk EXCEPT ![p] = << >>]
        /\ entry' = [entry EXCEPT ![t] = [path |-> p, chunks |-> 0, unlinking |-> FALSE]]
  <2>1. PICK i \in DOMAIN Candidates[t] :
          /\ disk[Candidates[t][i]] = None
          /\ disk' = [disk EXCEPT ![Candidates[t][i]] = << >>]
          /\ entry' = [entry EXCEPT ![t] = [path |-> Candidates[t][i], chunks |-> 0, unlinking |-> FALSE]]
    BY DEF StartDone
  <2>2. Candidates[t][i] \in FinalPaths
    BY DEF FinalPaths
  <2> QED BY <2>1, <2>2
<1>3. p \in Paths /\ p # None
  BY FileTransferConstants DEF FinalPaths
<1>4. /\ entry'[t].path = p
      /\ \A u \in Transfers : u # t => entry'[u] = entry[u]
  BY <1>1, <1>2 DEF TypeOK
<1>5. /\ disk'[p] = << >>
      /\ \A u \in Transfers : u # t /\ entry[u].path # None =>
           disk'[entry[u].path] = disk[entry[u].path]
  <2>1. \A u \in Transfers : entry[u].path # None =>
          disk[entry[u].path] # None /\ entry[u].path \in Paths
    BY <1>1, TempsApart
  <2> QED BY <1>1, <1>2, <1>3, <2>1 DEF TypeOK
<1>6. VisibleFile(t) = "absent" /\ VisibleFile(t)' = "reserved"
  BY <1>1, <1>3, <1>4, <1>5 DEF VisibleFile
<1>7. \A u \in Transfers : u # t => VisibleFile(u)' = VisibleFile(u)
  BY <1>4, <1>5 DEF VisibleFile
<1>8. Offered' = Offered
  BY DEF StartDone, senderVars, Offered
<1> QED BY <1>6, <1>7, <1>8 DEF Delivery!Reserve

\* The rename publishes the file.
LEMMA RenameRefines ==
  ASSUME FileInv, NEW t \in Transfers, RenameDone(t)
  PROVE  Delivery!Publish(t)
<1>1. /\ disk[entry[t].path] = << >> /\ disk'[entry[t].path] = WholeFile(t)
      /\ WholeFile(t) # << >> /\ entry[t].path # None /\ t \in Offered
      /\ \A u \in Transfers : u # t /\ entry[u].path # None =>
           disk'[entry[u].path] = disk[entry[u].path]
  BY RenameDoneStep
<1>2. entry' = entry /\ Offered' = Offered
  BY DEF RenameDone, senderVars, Offered
<1>3. WholeFile(t)' = WholeFile(t)
  BY DEF WholeFile, Prefix
<1>4. VisibleFile(t) = "reserved" /\ VisibleFile(t)' = "whole"
  BY <1>1, <1>2, <1>3 DEF VisibleFile
<1>5. \A u \in Transfers : u # t => VisibleFile(u)' = VisibleFile(u)
  BY <1>1, <1>2 DEF VisibleFile
<1> QED BY <1>1, <1>2, <1>4, <1>5 DEF Delivery!Publish

\* Whoever looks into the folder sees a name reserved and then the whole file,
\* after the sender has sent all of it (sendFile, createUniqueFilePath and the
\* rename of completeIncomingFile).
THEOREM DeliveryIsAtomic == Spec => DeliverySpec
<1>1. Init => Delivery!Init
  BY DEF Init, Delivery!Init, Offered, VisibleFile
<1>2. FileInv /\ [Next]_vars => [Delivery!Next]_(Delivery!vars)
  <2> SUFFICES ASSUME FileInv, [Next]_vars
               PROVE  [Delivery!Next]_(Delivery!vars)
    OBVIOUS
  <2>1. CASE OpenChannel \/ CloseChannel \/ ReceiverSeesClose \/ Disconnect
    BY <2>1, ChannelUnseen
  <2>2. ASSUME NEW t \in Transfers, SenderStep(t)
        PROVE  [Delivery!Next]_(Delivery!vars)
    BY <2>2, SenderRefines
  <2>3. ASSUME NEW t \in Transfers, ReceiverStep(t)
        PROVE  [Delivery!Next]_(Delivery!vars)
    <3>1. CASE StartDone(t)
      BY <3>1, StartRefines DEF Delivery!Next
    <3>2. CASE RenameDone(t)
      BY <3>2, RenameRefines DEF Delivery!Next
    <3>3. CASE AppendDone(t) \/ Unlink(t)
      BY <3>3, PartialUnseen
    <3>4. CASE ReceiveAbort(t) \/ TimeOut(t)
      BY <3>4, GivingUpUnseen
    <3> QED BY <2>3, <3>1, <3>2, <3>3, <3>4, RecordsUnseen DEF ReceiverStep, WriterStep
  <2>4. CASE UNCHANGED vars
    <3>1. UNCHANGED <<sender, entry, disk>>
      BY <2>4 DEF vars, senderVars, mainVars
    <3> QED BY <3>1, Unseen
  <2> QED BY <2>1, <2>2, <2>3, <2>4 DEF Next
<1> QED BY <1>1, <1>2, FilesStayInOrder, PTL DEF Spec, DeliverySpec, Delivery!Spec

-----------------------------------------------------------------------------
(* A transfer has one outcome.                                                *)

\* Nothing is started anew, by what happens to the messages under way ...
LEMMA ShrinkingStartsNothing ==
  ASSUME TypeOK, WireShrinks, TypeOK',
         \A u \in Transfers : sender'[u].pc = "idle" => sender[u].pc = "idle"
  PROVE  \A u \in Transfers : Unstarted(u)' => Unstarted(u)
<1>1. PICK d \in {0, 1} : /\ Len(toReceiver') + d <= Len(toReceiver)
                          /\ \A i \in 1..Len(toReceiver') : toReceiver'[i] = toReceiver[i + d]
  BY DEF WireShrinks
<1>2. Len(toReceiver) \in Nat /\ Len(toReceiver') \in Nat
  BY DEF TypeOK
<1>3. \A i \in 1..Len(toReceiver') : i + d \in 1..Len(toReceiver)
  BY <1>1, <1>2
<1> QED BY <1>1, <1>3 DEF Unstarted

\* ... nor by what the sender says, but for the call of sendFile itself.
LEMMA SendingStartsNothing ==
  ASSUME TypeOK, NEW s \in Seq(Message), toReceiver' = toReceiver \o s,
         \A k \in 1..Len(s) : s[k].kind = "start" => sender[s[k].id].pc = "idle",
         \A u \in Transfers : sender'[u].pc = "idle" => sender[u].pc = "idle"
  PROVE  \A u \in Transfers : Unstarted(u)' => Unstarted(u)
<1>1. /\ toReceiver \in Seq(Message)
      /\ Len(toReceiver) \in Nat /\ Len(s) \in Nat
  BY DEF TypeOK
<1>2. /\ Len(toReceiver') = Len(toReceiver) + Len(s)
      /\ \A i \in 1..Len(toReceiver) : toReceiver'[i] = toReceiver[i]
      /\ \A k \in 1..Len(s) : toReceiver'[Len(toReceiver) + k] = s[k]
  BY <1>1
<1>3. ASSUME NEW i \in 1..Len(toReceiver'), toReceiver'[i].kind = "start"
      PROVE  \/ sender[toReceiver'[i].id].pc = "idle"
             \/ i \in 1..Len(toReceiver) /\ toReceiver'[i] = toReceiver[i]
  <2>1. CASE i <= Len(toReceiver)
    BY <1>1, <1>2, <2>1
  <2>2. CASE ~(i <= Len(toReceiver))
    <3>1. i - Len(toReceiver) \in 1..Len(s) /\ i = Len(toReceiver) + (i - Len(toReceiver))
      BY <1>1, <1>2, <2>2
    <3>2. toReceiver'[i] = s[i - Len(toReceiver)]
      BY <1>2, <3>1
    <3> QED BY <1>3, <3>1, <3>2
  <2> QED BY <2>1, <2>2
<1> QED BY <1>3 DEF Unstarted

\* The step tells the user nothing new of t, and takes t no further than to
\* be completed.
OutcomeStays(t) ==
  /\ Verdict(t)' = Verdict(t)
  /\ Unstarted(t)' => Unstarted(t)
  /\ incoming' \subseteq incoming
  /\ transfer'[t].completing => transfer[t].completing \/ t \in incoming
  /\ transfer'[t].failed <=> transfer[t].failed
  /\ transfer'[t].busy = "rename" => transfer[t].busy = "rename"

LEMMA StaysOK ==
  ASSUME FileInv, NEW t \in Transfers, OutcomeOK(t), OutcomeStays(t)
  PROVE  OutcomeOK(t)'
<1>1. Unstarted(t) => t \notin incoming
  BY DEF FileInv, StartsOnce, Unstarted, Fresh
<1>2. Undecided(t)' => Undecided(t)
  BY DEF Undecided, OutcomeStays
<1>3. transfer'[t].busy = "rename" => t \notin incoming' /\ ~transfer'[t].completing
  BY DEF OutcomeStays, OutcomeOK
<1>4. Unstarted(t)' => ~transfer'[t].completing
  BY <1>1 DEF OutcomeStays, OutcomeOK
<1>5. \A v, w \in Verdict(t)' : v = w
  BY DEF OutcomeStays, OutcomeOK
<1>6. Undecided(t)' => Verdict(t)' = {}
  BY <1>2 DEF OutcomeStays, OutcomeOK
<1> QED BY <1>3, <1>4, <1>5, <1>6 DEF OutcomeOK

\* The step reports t's outcome v, and nobody else will.
OutcomeDecided(t, v) ==
  /\ Undecided(t)
  /\ Verdict(t)' = Verdict(t) \cup {v}
  /\ ~Unstarted(t)'
  /\ t \notin incoming'
  /\ transfer'[t].completing => transfer'[t].failed
  /\ transfer'[t].busy # "rename"

LEMMA DecidedOK ==
  ASSUME NEW t \in Transfers, OutcomeOK(t), NEW v, OutcomeDecided(t, v)
  PROVE  OutcomeOK(t)'
<1>1. Verdict(t)' = {v}
  BY DEF OutcomeOK, OutcomeDecided
<1>2. ~Undecided(t)'
  BY DEF Undecided, OutcomeDecided
<1> QED BY <1>1, <1>2 DEF OutcomeOK, OutcomeDecided

\* A step about t tells nothing of the others.
LEMMA OthersStay ==
  ASSUME FileInv, OutcomesAreFinal, NEW t \in Transfers, NEW u \in Transfers, u # t,
         Unstarted(u)' => Unstarted(u),
         u \in incoming' => u \in incoming,
         transfer'[u] = transfer[u], reports'[u] = reports[u]
  PROVE  OutcomeOK(u)'
<1>1. Verdict(u)' = Verdict(u)
  BY DEF Verdict
<1>2. Undecided(u)' => Undecided(u)
  BY DEF Undecided
<1> QED BY <1>1, <1>2 DEF OutcomesAreFinal, OutcomeOK

\* Who is unstarted is fresh, so who is at work is started.
LEMMA AtWorkIsStarted ==
  ASSUME FileInv, NEW t \in Transfers, t \in incoming \/ transfer[t].busy # "no"
  PROVE  ~Unstarted(t)
BY DEF FileInv, StartsOnce, Unstarted, Fresh

\* Giving up is an outcome if t was still coming in, and nothing otherwise.
LEMMA FailIncomingOutcome ==
  ASSUME FileInv, OutcomesAreFinal, TypeOK', WireShrinks, sender' = sender,
         NEW t \in Transfers, NEW object \in IncomingFileTransfer, NEW notify \in BOOLEAN,
         FailIncoming(t, object, notify),
         object.completing = transfer[t].completing, object.failed = transfer[t].failed,
         object.busy \in {transfer[t].busy, "no"}
  PROVE  OutcomesAreFinal'
<1>1. TypeOK
  BY DEF FileInv
<1>2. \A u \in Transfers : Unstarted(u)' => Unstarted(u)
  BY <1>1, ShrinkingStartsNothing
<1>3. /\ incoming' \subseteq incoming
      /\ \A u \in Transfers : u # t => transfer'[u] = transfer[u] /\ reports'[u] = reports[u]
  <2>1. \A u \in Transfers : u # t => reports'[u] = reports[u]
    BY <1>1 DEF FailIncoming, Report, TypeOK
  <2> QED BY <1>1, <2>1, FailIncomingEffect
<1>4. ASSUME NEW u \in Transfers, u # t PROVE OutcomeOK(u)'
  BY <1>2, <1>3, <1>4, OthersStay
<1>5. OutcomeOK(t)'
  <2>1. CASE t \notin incoming
    <3>1. transfer'[t] = object /\ reports' = reports /\ incoming' = incoming
      BY <1>1, <2>1 DEF FailIncoming, TypeOK
    <3>2. OutcomeStays(t)
      BY <1>2, <3>1 DEF OutcomeStays, Verdict
    <3> QED BY <3>2, StaysOK DEF OutcomesAreFinal
  <2>2. CASE t \in incoming
    <3>1. /\ transfer'[t].failed /\ transfer'[t].busy = object.busy
          /\ t \notin incoming'
          /\ reports'[t] = reports[t] \cup {"failed"}
      BY <1>1, <2>2 DEF FailIncoming, Report, TypeOK, IncomingFileTransfer
    <3>2. Verdict(t)' = Verdict(t) \cup {"failed"}
      BY <3>1 DEF Verdict
    <3>3. ~Unstarted(t) /\ Undecided(t) /\ transfer[t].busy # "rename"
      BY <2>2, AtWorkIsStarted DEF Undecided, OutcomesAreFinal, OutcomeOK
    <3>4. OutcomeDecided(t, "failed")
      BY <1>2, <3>1, <3>2, <3>3 DEF OutcomeDecided
    <3> QED BY <3>4, DecidedOK DEF OutcomesAreFinal
  <2> QED BY <2>1, <2>2
<1> QED BY <1>4, <1>5 DEF OutcomesAreFinal

LEMMA RejectQueueOutcome ==
  ASSUME FileInv, OutcomesAreFinal, TypeOK', NEW t \in Transfers, RejectQueue(t),
         toReceiver' = toReceiver, sender' = sender
  PROVE  OutcomesAreFinal'
<1> DEFINE object == [transfer[t] EXCEPT !.busy = "no", !.queue = << >>]
<1>1. TypeOK
  BY DEF FileInv
<1>2. /\ object \in IncomingFileTransfer
      /\ object.completing = transfer[t].completing /\ object.failed = transfer[t].failed
      /\ object.busy = "no"
  <2>1. transfer[t] \in IncomingFileTransfer /\ << >> \in Seq(Nat)
    BY <1>1 DEF TypeOK
  <2> QED BY <2>1 DEF IncomingFileTransfer
<1>3. FailIncoming(t, object, TRUE)
  BY DEF RejectQueue
<1> HIDE DEF object
<1> QED BY <1>1, <1>2, <1>3, UnchangedIsShrinking, FailIncomingOutcome

\* The steps that tell the user nothing of t.
LEMMA AllStay ==
  ASSUME FileInv, OutcomesAreFinal, \A u \in Transfers : OutcomeStays(u)
  PROVE  OutcomesAreFinal'
BY StaysOK DEF OutcomesAreFinal

\* The channel is opened or lost: what the user hears of that is not counted.
LEMMA ChannelOutcome ==
  ASSUME FileInv, OutcomesAreFinal, TypeOK',
         OpenChannel \/ CloseChannel \/ ReceiverSeesClose \/ Disconnect
  PROVE  OutcomesAreFinal'
<1>1. TypeOK
  BY DEF FileInv
<1>2. transfer' = transfer /\ sender' = sender /\ incoming' \subseteq incoming
  BY DEF OpenChannel, CloseChannel, ReceiverSeesClose, Disconnect, senderVars, rendererVars
<1>3. ASSUME NEW u \in Transfers PROVE Verdict(u)' = Verdict(u)
  BY <1>1 DEF OpenChannel, CloseChannel, ReceiverSeesClose, Disconnect, rendererVars, Verdict, TypeOK
<1>4. WireShrinks
  <2>1. CASE OpenChannel \/ ReceiverSeesClose
    BY <1>1, <2>1, UnchangedIsShrinking DEF OpenChannel, ReceiverSeesClose
  <2>2. CASE CloseChannel
    <3>1. PICK n \in 0..Len(toReceiver) : toReceiver' = SubSeq(toReceiver, 1, n)
      BY <2>2 DEF CloseChannel
    <3>2. toReceiver \in Seq(Message) /\ Len(toReceiver) \in Nat
      BY <1>1 DEF TypeOK
    <3>3. Len(toReceiver') = n /\ \A i \in 1..n : toReceiver'[i] = toReceiver[i]
      BY <3>1, <3>2
    <3> QED BY <3>2, <3>3 DEF WireShrinks
  <2>3. CASE Disconnect
    <3>1. toReceiver' = << >> /\ Len(toReceiver) \in Nat
      BY <1>1, <2>3 DEF Disconnect, TypeOK
    <3> QED BY <3>1 DEF WireShrinks
  <2> QED BY <2>1, <2>2, <2>3
<1>5. \A u \in Transfers : Unstarted(u)' => Unstarted(u)
  BY <1>1, <1>2, <1>4, ShrinkingStartsNothing
<1> QED BY <1>2, <1>3, <1>5, AllStay DEF OutcomeStays

LEMMA SenderOutcome ==
  ASSUME FileInv, OutcomesAreFinal, NEW t \in Transfers, SenderStep(t)
  PROVE  OutcomesAreFinal'
<1>1. TypeOK
  BY DEF FileInv
<1>2. incoming' = incoming /\ transfer' = transfer /\ reports' = reports
  BY DEF SenderStep, SendFile, ReadChunk, Drained, DrainFails, Flushed, SenderReceivesAbort,
     rendererVars
<1>3. \A u \in Transfers : sender'[u].pc = "idle" => sender[u].pc = "idle"
  <2>1. CASE SendFile(t)
    BY <1>1, <2>1 DEF SendFile, TypeOK, OutgoingTransfer
  <2>2. CASE Throw(t)
    BY <1>1, <2>2 DEF Throw, TypeOK, OutgoingTransfer
  <2>3. CASE ReadChunk(t) /\ ~Throw(t)
    <3>1. sender' = [sender EXCEPT ![t].pc = "draining", ![t].next = @ + 1]
      BY <2>3 DEF ReadChunk
    <3> QED BY <1>1, <3>1 DEF TypeOK, OutgoingTransfer
  <2>4. CASE (Drained(t) \/ DrainFails(t) \/ Flushed(t)) /\ ~Throw(t)
    <3>1. \E pc \in {"reading", "flushing", "sent"} : sender' = [sender EXCEPT ![t].pc = pc]
      BY <2>4 DEF Drained, DrainFails, Flushed
    <3> QED BY <1>1, <3>1 DEF TypeOK, OutgoingTransfer
  <2>5. CASE SenderReceivesAbort(t)
    BY <2>5 DEF SenderReceivesAbort
  <2> QED BY <2>1, <2>2, <2>3, <2>4, <2>5 DEF SenderStep
<1>4. \A n \in Nat : /\ Msg("start", t, n) \in Message /\ Msg("start", t, n).id = t
                     /\ Msg("complete", t, n) \in Message /\ Msg("complete", t, n).kind = "complete"
                     /\ Msg("chunk", t, n) \in Message /\ Msg("chunk", t, n).kind = "chunk"
                     /\ Msg("abort", t, n) \in Message /\ Msg("abort", t, n).kind = "abort"
  BY MessagesTyped
<1>5. toReceiver \in Seq(Message) /\ sender[t].next \in Nat
  BY <1>1 DEF TypeOK, OutgoingTransfer
<1> DEFINE Sends(s) ==
             /\ toReceiver' = toReceiver \o s
             /\ \A k \in 1..Len(s) : s[k].kind = "start" => sender[s[k].id].pc = "idle"
<1>6. \E s \in Seq(Message) : Sends(s)
  <2>1. ASSUME NEW m \in Message, toReceiver' = Append(toReceiver, m),
               m.kind = "start" => sender[m.id].pc = "idle"
        PROVE  \E s \in Seq(Message) : Sends(s)
    <3>1. /\ <<m>> \in Seq(Message)
          /\ toReceiver' = toReceiver \o <<m>>
          /\ Len(<<m>>) = 1 /\ <<m>>[1] = m
      BY <1>5, <2>1
    <3>2. \A k \in 1..Len(<<m>>) : <<m>>[k].kind = "start" => sender[<<m>>[k].id].pc = "idle"
      BY <2>1, <3>1
    <3> WITNESS <<m>> \in Seq(Message)
    <3> QED BY <3>1, <3>2
  <2>2. CASE toReceiver' = toReceiver
    <3>1. /\ << >> \in Seq(Message)
          /\ toReceiver' = toReceiver \o << >>
          /\ \A k \in 1..Len(<< >>) : FALSE
      BY <1>5, <2>2
    <3> QED BY <3>1
  <2>3. CASE SendFile(t) /\ Chunks[t] = 0
    <3> DEFINE start == Msg("start", t, 0)
               complete == Msg("complete", t, 0)
    <3>1. /\ start \in Message /\ start.id = t
          /\ complete \in Message /\ complete.kind = "complete"
          /\ toReceiver' = toReceiver \o <<start, complete>>
          /\ sender[t].pc = "idle"
      BY <1>4, <2>3 DEF SendFile
    <3> HIDE DEF start, complete
    <3>2. /\ <<start, complete>> \in Seq(Message)
          /\ \A k \in 1..Len(<<start, complete>>) :
               \/ k = 1 /\ <<start, complete>>[k] = start
               \/ k = 2 /\ <<start, complete>>[k] = complete
      BY <3>1
    <3> QED BY <3>1, <3>2
  <2>4. CASE SendFile(t) /\ Chunks[t] # 0
    <3>1. toReceiver' = Append(toReceiver, Msg("start", t, 0)) /\ sender[t].pc = "idle"
      BY <2>4 DEF SendFile
    <3> QED BY <1>4, <2>1, <3>1
  <2>5. CASE ReadChunk(t) \/ Drained(t) \/ DrainFails(t) \/ Flushed(t) \/ SenderReceivesAbort(t)
    <3>1. \/ toReceiver' = toReceiver
          \/ toReceiver' = Append(toReceiver, Msg("chunk", t, sender[t].next))
          \/ toReceiver' = Append(toReceiver, Msg("complete", t, 0))
          \/ toReceiver' = Append(toReceiver, Msg("abort", t, 0))
      BY <2>5 DEF ReadChunk, Drained, DrainFails, Flushed, SenderReceivesAbort, Throw
    <3> QED BY <1>4, <1>5, <2>1, <2>2, <3>1
  <2> QED BY <2>3, <2>4, <2>5 DEF SenderStep
<1>7. \A u \in Transfers : Unstarted(u)' => Unstarted(u)
  BY <1>1, <1>3, <1>6, SendingStartsNothing
<1> QED BY <1>2, <1>7, AllStay DEF OutcomeStays, Verdict

\* The receiver's calls return: one of them rejects, or work on t goes on.
LEMMA WriterOutcome ==
  ASSUME FileInv, OutcomesAreFinal, TypeOK', NEW t \in Transfers, WriterStep(t)
  PROVE  OutcomesAreFinal'
<1>1. TypeOK
  BY DEF FileInv
<1>2. toReceiver' = toReceiver /\ sender' = sender
  BY DEF WriterStep, StartDone, StartFails, RunChunk, AppendDone, AppendFails, Complete,
     RenameDone, RenameFails, senderVars
<1>3. \A u \in Transfers : Unstarted(u)' => Unstarted(u)
  BY <1>1, <1>2, UnchangedIsShrinking, ShrinkingStartsNothing
<1>4. CASE RejectQueue(t)
  BY <1>2, <1>4, RejectQueueOutcome
<1>5. CASE StartDone(t) \/ AppendDone(t) \/ (RunChunk(t) /\ ~RejectQueue(t))
  <2>1. reports' = reports /\ incoming' = incoming
    BY <1>5 DEF StartDone, AppendDone, RunChunk
  <2>2. \A u \in Transfers :
          /\ transfer'[u].completing = transfer[u].completing
          /\ transfer'[u].failed = transfer[u].failed
          /\ transfer'[u].busy = "rename" => transfer[u].busy = "rename"
    <3>1. CASE StartDone(t)
      BY <1>1, <3>1 DEF StartDone, TypeOK, IncomingFileTransfer
    <3>2. CASE AppendDone(t)
      <4>1. PICK q, n : q = Tail(transfer[t].queue) /\ n = transfer[t].stored + 1
        OBVIOUS
      <4>2. transfer' = [transfer EXCEPT ![t].busy = "no", ![t].queue = q, ![t].stored = n]
        BY <3>2, <4>1 DEF AppendDone
      <4>3. transfer'[t] = [transfer[t] EXCEPT !.busy = "no", !.queue = q, !.stored = n]
            /\ \A u \in Transfers : u # t => transfer'[u] = transfer[u]
        BY <1>1, <4>2 DEF TypeOK
      <4>4. transfer[t] \in IncomingFileTransfer
        BY <1>1 DEF TypeOK
      <4> QED BY <4>3, <4>4 DEF IncomingFileTransfer
    <3>3. CASE RunChunk(t) /\ ~RejectQueue(t)
      <4>1. \/ transfer' = [transfer EXCEPT ![t].queue = Tail(@)]
            \/ transfer' = [transfer EXCEPT ![t].busy = "append"]
        BY <3>3 DEF RunChunk
      <4>2. CASE transfer' = [transfer EXCEPT ![t].queue = Tail(@)]
        <5>1. PICK q : q = Tail(transfer[t].queue)
          OBVIOUS
        <5>2. transfer'[t] = [transfer[t] EXCEPT !.queue = q]
              /\ \A u \in Transfers : u # t => transfer'[u] = transfer[u]
          BY <1>1, <4>2, <5>1 DEF TypeOK
        <5>3. transfer[t] \in IncomingFileTransfer
          BY <1>1 DEF TypeOK
        <5> QED BY <5>2, <5>3 DEF IncomingFileTransfer
      <4>3. CASE transfer' = [transfer EXCEPT ![t].busy = "append"]
        BY <1>1, <4>3 DEF TypeOK, IncomingFileTransfer
      <4> QED BY <4>1, <4>2, <4>3
    <3> QED BY <1>5, <3>1, <3>2, <3>3
  <2> QED BY <1>3, <2>1, <2>2, AllStay DEF OutcomeStays, Verdict
<1>6. CASE RenameDone(t) \/ RenameFails(t)
  <2>1. PICK v \in {"saved", "failed"} : Report(t, v)
    BY <1>6 DEF RenameDone, RenameFails
  <2>2. /\ transfer[t].busy = "rename"
        /\ transfer' = [transfer EXCEPT ![t].busy = "no"]
        /\ incoming' = incoming
    BY <1>6 DEF RenameDone, RenameFails
  <2>3. /\ transfer'[t].busy = "no"
        /\ transfer'[t].completing = transfer[t].completing
        /\ \A u \in Transfers : u # t => transfer'[u] = transfer[u] /\ reports'[u] = reports[u]
    BY <1>1, <2>1, <2>2 DEF Report, TypeOK, IncomingFileTransfer
  <2>4. Verdict(t)' = Verdict(t) \cup {v}
    BY <1>1, <2>1 DEF Report, Verdict, TypeOK
  <2>5. t \notin incoming /\ ~transfer[t].completing
    BY <2>2 DEF OutcomesAreFinal, OutcomeOK
  <2>6. OutcomeDecided(t, v)
    BY <1>3, <2>2, <2>3, <2>4, <2>5, AtWorkIsStarted DEF OutcomeDecided, Undecided
  <2>7. OutcomeOK(t)'
    BY <2>6, DecidedOK DEF OutcomesAreFinal
  <2>8. \A u \in Transfers : u # t => OutcomeOK(u)'
    BY <1>3, <2>2, <2>3, OthersStay
  <2> QED BY <2>7, <2>8 DEF OutcomesAreFinal
<1>7. CASE Complete(t)
  <2>1. transfer[t].completing /\ transfer[t].busy = "no"
    BY <1>7 DEF Complete
  <2>2. /\ incoming' \subseteq incoming
        /\ \A u \in Transfers : u # t => transfer'[u] = transfer[u] /\ reports'[u] = reports[u]
        /\ ~transfer'[t].completing
        /\ transfer'[t].failed = transfer[t].failed
    <3>1. \/ transfer' = [transfer EXCEPT ![t].completing = FALSE]
          \/ transfer' = [transfer EXCEPT ![t].completing = FALSE, ![t].busy = "rename"]
      BY <1>7 DEF Complete
    <3>2. reports' = reports \/ Report(t, "incomplete") \/ Report(t, "failed")
      BY <1>7 DEF Complete
    <3>3. incoming' \subseteq incoming
      BY <1>7 DEF Complete
    <3> QED BY <1>1, <3>1, <3>2, <3>3 DEF Report, TypeOK, IncomingFileTransfer
  <2>3. ~Unstarted(t)
    BY <2>1 DEF OutcomesAreFinal, OutcomeOK
  <2>4. CASE transfer[t].failed
    <3>1. /\ reports' = reports
          /\ transfer' = [transfer EXCEPT ![t].completing = FALSE]
      BY <1>7, <2>4 DEF Complete
    <3>2. transfer'[t].busy = "no"
      BY <1>1, <2>1, <3>1 DEF TypeOK, IncomingFileTransfer
    <3>3. OutcomeStays(t)
      BY <1>3, <2>2, <3>1, <3>2 DEF OutcomeStays, Verdict
    <3> QED BY <3>3, StaysOK, <2>2, <1>3, OthersStay DEF OutcomesAreFinal
  <2>5. CASE ~transfer[t].failed
    <3>1. t \notin incoming' /\ Undecided(t)
      BY <1>7, <2>1, <2>5 DEF Complete, Undecided
    <3>2. OutcomeOK(t)'
      <4>1. CASE reports' = reports
        <5>1. Verdict(t)' = {}
          BY <3>1, <4>1 DEF Verdict, OutcomesAreFinal, OutcomeOK
        <5> QED BY <1>3, <2>2, <2>3, <3>1, <5>1 DEF OutcomeOK
      <4>2. ASSUME NEW v \in {"incomplete", "failed"}, Report(t, v),
                   transfer' = [transfer EXCEPT ![t].completing = FALSE]
            PROVE  OutcomeOK(t)'
        <5>1. Verdict(t)' = Verdict(t) \cup {v}
          BY <1>1, <4>2 DEF Report, Verdict, TypeOK
        <5>2. transfer'[t].busy = "no"
          BY <1>1, <2>1, <4>2 DEF TypeOK, IncomingFileTransfer
        <5>3. OutcomeDecided(t, v)
          BY <1>3, <2>2, <2>3, <3>1, <5>1, <5>2 DEF OutcomeDecided
        <5> QED BY <5>3, DecidedOK DEF OutcomesAreFinal
      <4> QED BY <1>7, <2>5, <4>1, <4>2 DEF Complete
    <3> QED BY <3>2, <2>2, <1>3, OthersStay DEF OutcomesAreFinal
  <2> QED BY <2>4, <2>5
<1> QED BY <1>4, <1>5, <1>6, <1>7 DEF WriterStep, StartFails, AppendFails

\* A start is taken up or refused.
LEMMA ReceiveStartOutcome ==
  ASSUME FileInv, OutcomesAreFinal, TypeOK', NEW t \in Transfers, ReceiveStart(t)
  PROVE  OutcomesAreFinal'
<1>1. TypeOK /\ StartsOnce
  BY DEF FileInv
<1>2. Receive("start", t) /\ sender' = sender
  BY DEF ReceiveStart, senderVars
<1>3. \A u \in Transfers : Unstarted(u)' => Unstarted(u)
  BY <1>1, <1>2, ReceivedIsShrinking, ShrinkingStartsNothing
<1>4. Unstarted(t) /\ sender[t].pc # "idle" /\ Fresh(t)
  BY <1>1, <1>2, ReceivedIsShrinking DEF Unstarted, StartsOnce
<1>5. ~Unstarted(t)'
  <2>1. SUFFICES ASSUME NEW i \in 1..Len(toReceiver'),
                        toReceiver'[i].kind = "start", toReceiver'[i].id = t
                 PROVE  FALSE
    BY <1>2, <1>4 DEF Unstarted
  <2>2. /\ toReceiver[1].kind = "start" /\ toReceiver[1].id = t /\ 1 \in 1..Len(toReceiver)
        /\ toReceiver[i + 1].kind = "start" /\ toReceiver[i + 1].id = t
        /\ Len(toReceiver') = Len(toReceiver) - 1
    BY <1>1, <1>2, <2>1, ReceivedIsShrinking
  <2>3. i + 1 \in 1..Len(toReceiver) /\ i + 1 # 1
    <3>1. Len(toReceiver) \in Nat
      BY <1>1 DEF TypeOK
    <3> QED BY <2>2, <3>1
  <2> QED BY <1>1, <2>2, <2>3 DEF StartsOnce
<1>6. ~transfer[t].completing /\ transfer[t].busy = "no" /\ t \notin incoming
  BY <1>4 DEF OutcomesAreFinal, OutcomeOK, Fresh
<1>7. \A u \in Transfers :
        u # t => /\ transfer'[u] = transfer[u] /\ reports'[u] = reports[u]
                 /\ u \in incoming' => u \in incoming
  BY <1>1 DEF ReceiveStart, Report, TypeOK
<1>8. OutcomeOK(t)'
  <2>1. CASE reports' = reports /\ transfer' = [transfer EXCEPT ![t].busy = "start"]
    <3>1. /\ transfer'[t].busy = "start" /\ ~transfer'[t].completing
      BY <1>1, <1>6, <2>1 DEF TypeOK, IncomingFileTransfer
    <3>2. Verdict(t)' = {}
      BY <1>4, <2>1 DEF Verdict, OutcomesAreFinal, OutcomeOK, Undecided
    <3> QED BY <3>1, <3>2 DEF OutcomeOK
  <2>2. CASE Report(t, "rejected") /\ UNCHANGED <<incoming, transfer>>
    <3>1. Verdict(t)' = Verdict(t) \cup {"rejected"}
      BY <1>1, <2>2 DEF Report, Verdict, TypeOK
    <3>2. OutcomeDecided(t, "rejected")
      BY <1>4, <1>5, <1>6, <2>2, <3>1 DEF OutcomeDecided, Undecided
    <3> QED BY <3>2, DecidedOK DEF OutcomesAreFinal
  <2> QED BY <2>1, <2>2 DEF ReceiveStart
<1> QED BY <1>3, <1>7, <1>8, OthersStay DEF OutcomesAreFinal

LEMMA ReceiverOutcome ==
  ASSUME FileInv, OutcomesAreFinal, TypeOK', NEW t \in Transfers, ReceiverStep(t)
  PROVE  OutcomesAreFinal'
<1>1. TypeOK
  BY DEF FileInv
<1>2. CASE ReceiveStart(t)
  BY <1>2, ReceiveStartOutcome
<1>3. CASE WriterStep(t)
  BY <1>3, WriterOutcome
<1>4. CASE ReceiveAbort(t) \/ TimeOut(t)
  <2>1. WireShrinks /\ sender' = sender
    BY <1>1, <1>4, ReceivedIsShrinking, UnchangedIsShrinking DEF ReceiveAbort, TimeOut, senderVars
  <2>2. transfer[t] \in IncomingFileTransfer
    BY <1>1 DEF TypeOK
  <2> QED BY <1>4, <2>1, <2>2, FailIncomingOutcome DEF ReceiveAbort, TimeOut
<1>5. CASE ReceiveChunk(t) \/ ReceiveComplete(t) \/ Unlink(t)
  <2>1. reports' = reports /\ incoming' = incoming /\ sender' = sender
    BY <1>5 DEF ReceiveChunk, ReceiveComplete, Unlink, senderVars, rendererVars
  <2>2. WireShrinks
    BY <1>1, <1>5, ReceivedIsShrinking, UnchangedIsShrinking DEF ReceiveChunk, ReceiveComplete, Unlink
  <2>3. \A u \in Transfers :
          /\ transfer'[u].completing => transfer[u].completing \/ u \in incoming
          /\ transfer'[u].failed = transfer[u].failed
          /\ transfer'[u].busy = transfer[u].busy
    <3>1. CASE ReceiveChunk(t)
      BY <1>1, <3>1 DEF ReceiveChunk, TypeOK, IncomingFileTransfer
    <3>2. CASE ReceiveComplete(t)
      BY <1>1, <3>2 DEF ReceiveComplete, TypeOK, IncomingFileTransfer
    <3>3. CASE Unlink(t)
      BY <3>3 DEF Unlink, rendererVars
    <3> QED BY <1>5, <3>1, <3>2, <3>3
  <2>4. \A u \in Transfers : Unstarted(u)' => Unstarted(u)
    BY <1>1, <2>1, <2>2, ShrinkingStartsNothing
  <2> QED BY <2>1, <2>3, <2>4, AllStay DEF OutcomeStays, Verdict
<1> QED BY <1>2, <1>3, <1>4, <1>5 DEF ReceiverStep

LEMMA OutcomeStep ==
  ASSUME FileInv, OutcomesAreFinal, TypeOK', [Next]_vars
  PROVE  OutcomesAreFinal'
<1>1. CASE UNCHANGED vars
  BY <1>1, AllStay DEF vars, senderVars, rendererVars, OutcomeStays, Verdict, Unstarted
<1> QED BY <1>1, ChannelOutcome, SenderOutcome, ReceiverOutcome DEF Next

\* The user is told of one outcome of a transfer, whichever of the timer, an
\* abort, a failing write and the completion comes first
\* (failIncomingFileTransferInternal and completeIncomingFileTransfer of
\* RemoteControlClient).
THEOREM OneOutcome == Spec => []OneVerdict
<1>1. Init => OutcomesAreFinal
  <2>1. SUFFICES ASSUME Init, NEW t \in Transfers PROVE OutcomeOK(t)
    BY DEF OutcomesAreFinal
  <2>2. /\ Verdict(t) = {} /\ ~transfer[t].completing /\ transfer[t].busy = "no"
    BY <2>1 DEF Init, Verdict
  <2> QED BY <2>2 DEF OutcomeOK
<1>2. FileInv /\ FileInv' /\ OutcomesAreFinal /\ [Next]_vars => OutcomesAreFinal'
  BY OutcomeStep DEF FileInv
<1>3. FileInv /\ OutcomesAreFinal => OneVerdict
  <2>1. SUFFICES ASSUME FileInv, OutcomesAreFinal, NEW t \in Transfers
                 PROVE  Cardinality(Verdict(t)) <= 1
    BY DEF OneVerdict, Verdict
  <2>2. CASE Verdict(t) = {}
    BY <2>2, FS_EmptySet
  <2>3. CASE Verdict(t) # {}
    <3>1. PICK v \in Verdict(t) : Verdict(t) = {v}
      BY <2>1, <2>3 DEF OutcomesAreFinal, OutcomeOK
    <3> QED BY <3>1, FS_Singleton
  <2> QED BY <2>2, <2>3
<1> QED BY <1>1, <1>2, <1>3, FilesStayInOrder, PTL DEF Spec
==============================================================================
