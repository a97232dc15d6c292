------------------------ MODULE FileTransferProperties ------------------------
(***************************************************************************)
(* What should hold of file transfer, and the refinement of AtomicDelivery. *)
(***************************************************************************)
EXTENDS FileTransfer

\* A file that the user was told is saved stands under its name with all its
\* chunks, in order, and stays so, whatever other transfers, aborts, timeouts
\* and channel losses do meanwhile.
SavedFilesWhole ==
  \A t \in Transfers : "saved" \in reports[t] => disk[entry[t].path] = WholeFile(t)

\* A transfer has one outcome, though the timer, an abort of the sender, a
\* failing write and the completion all race for it.  (That a channel was lost
\* may be reported in addition.)
OneVerdict ==
  \A t \in Transfers : Cardinality(reports[t] \ {"interrupted", "disconnected"}) <= 1

\* What was in the folder before is left alone.
LeftoversKept ==
  \A p \in Leftovers \cap FinalPaths : disk[p] = Foreign

\* Every file that starts to come in comes to an end the user hears of, even
\* if sender and network fall silent.
VerdictReached == \A t \in Transfers : t \in incoming ~> reports[t] # {}

\* The main process forgets a session some time after the renderer stops
\* tracking it, provided that the session was open by then.
SessionsReleased ==
  \A t \in Transfers : (t \in saves /\ t \in incoming) ~> t \notin saves

-----------------------------------------------------------------------------
\* Who has sent all chunks, and what stands under the name of a file.
Offered == {t \in Transfers : sender[t].pc # "idle" /\ sender[t].next = Chunks[t]}

VisibleFile(t) ==
  IF entry[t].path = None THEN "absent"
  ELSE IF disk[entry[t].path] = << >> THEN "reserved"
  ELSE IF disk[entry[t].path] = WholeFile(t) THEN "whole"
  ELSE "torn"

Delivery == INSTANCE AtomicDelivery
  WITH offered <- Offered,
       visible <- [t \in Transfers |-> VisibleFile(t)]

\* File transfer implements AtomicDelivery: a name is reserved, and then the
\* whole file appears at once, after the sender has sent it all.
DeliverySpec == Delivery!Spec
-----------------------------------------------------------------------------
(* The inductive invariant behind SavedFilesWhole and DeliverySpec.           *)

\* The main process works on t's partial file and will do so until it is
\* renamed or given up.
Working(t) == t \in saves \/ transfer[t].busy = "rename"

\* No start message of t has been received.
Fresh(t) ==
  /\ entry[t].path = None
  /\ transfer[t].busy = "no"
  /\ t \notin incoming

\* A transfer is started once.
StartsOnce ==
  \A t \in Transfers :
    /\ sender[t].pc = "idle" => Fresh(t)
    /\ \A i \in 1..Len(toReceiver) : toReceiver[i].kind = "start" /\ toReceiver[i].id = t =>
         /\ sender[t].pc # "idle"
         /\ Fresh(t)
         /\ \A j \in 1..Len(toReceiver) :
              toReceiver[j].kind = "start" /\ toReceiver[j].id = t => j = i

\* Only chunks that were sent are queued and stored.
ChunksWereSent ==
  \A t \in Transfers :
    /\ entry[t].chunks <= sender[t].next
    /\ sender[t].next <= Chunks[t]
    /\ sender[t].pc = "idle" => sender[t].next = 0
    /\ sender[t].pc = "reading" => sender[t].next < Chunks[t]
    /\ \A k \in 1..Len(transfer[t].queue) : transfer[t].queue[k] < sender[t].next
    /\ \A i \in 1..Len(toReceiver) : toReceiver[i].kind = "chunk" /\ toReceiver[i].id = t =>
         toReceiver[i].index < sender[t].next

\* Renderer and main process agree on what is written.
Bookkeeping ==
  \A t \in Transfers :
    /\ transfer[t].stored = entry[t].chunks
    /\ entry[t].path = None => entry[t].chunks = 0
    /\ transfer[t].busy = "start" => entry[t].path = None
    /\ (Working(t) \/ transfer[t].busy = "append" \/ entry[t].unlinking) => entry[t].path # None
    /\ transfer[t].busy = "append" =>
         transfer[t].queue # << >> /\ Head(transfer[t].queue) = entry[t].chunks
    /\ transfer[t].busy = "rename" => t \notin saves /\ entry[t].chunks = Chunks[t]

\* Names are reserved for one transfer each, and so are the partial files.
NamesReserved ==
  /\ \A t \in Transfers : entry[t].path # None =>
       entry[t].path \notin Leftovers /\ disk[entry[t].path] \in {<< >>, WholeFile(t)}
  /\ \A t, u \in Transfers : entry[t].path # None /\ entry[t].path = entry[u].path => t = u
  /\ \A p \in FinalPaths : disk[TempOf[p]] # None => disk[p] # None

\* While the main process works on it, the partial file is a prefix of the
\* file and the name is still reserved; a saved file is whole and settled.
FilesInOrder ==
  \A t \in Transfers :
    /\ Working(t) =>
         /\ ~entry[t].unlinking
         /\ disk[entry[t].path] = << >>
         /\ disk[Temp(t)] = IF entry[t].chunks = 0 THEN None ELSE Prefix(t, entry[t].chunks)
    /\ "saved" \in reports[t] =>
         entry[t].path # None /\ ~Working(t) /\ disk[entry[t].path] = WholeFile(t)

FileInv ==
  /\ TypeOK
  /\ StartsOnce
  /\ ChunksWereSent
  /\ Bookkeeping
  /\ NamesReserved
  /\ FilesInOrder
  /\ LeftoversKept
-----------------------------------------------------------------------------
(* The inductive invariant behind OneVerdict.                                 *)

\* What the user was told of t, apart from the loss of a channel.
Verdict(t) == reports[t] \ {"interrupted", "disconnected"}

\* The receiver has not seen the start of t.
Unstarted(t) ==
  \/ sender[t].pc = "idle"
  \/ \E i \in 1..Len(toReceiver) : toReceiver[i].kind = "start" /\ toReceiver[i].id = t

\* Somebody may still report an outcome of t.
Undecided(t) ==
  \/ Unstarted(t)
  \/ t \in incoming
  \/ transfer[t].completing /\ ~transfer[t].failed
  \/ transfer[t].busy = "rename"

\* As long as somebody may, nobody has; and the last to report is alone.
OutcomeOK(t) ==
  /\ Undecided(t) => Verdict(t) = {}
  /\ Unstarted(t) => ~transfer[t].completing
  /\ transfer[t].busy = "rename" => t \notin incoming /\ ~transfer[t].completing
  /\ \A v, w \in Verdict(t) : v = w

OutcomesAreFinal == \A t \in Transfers : OutcomeOK(t)
=============================================================================
