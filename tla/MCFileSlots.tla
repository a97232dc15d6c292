------------------------------ MODULE MCFileSlots ------------------------------
(***************************************************************************)
(* Two files of one name and one size for TLC.  The receiver takes them at  *)
(* once or one at a time; a behaviour begins with one limit and keeps it.   *)
(***************************************************************************)
EXTENDS MCFileTransfer

VARIABLE slots      \* the limit

Both == INSTANCE FileTransferProperties WITH MaxIncoming <- 2
One == INSTANCE FileTransferProperties WITH MaxIncoming <- 1

ASSUME Both!FileTransferConstants /\ One!FileTransferConstants

SlotsInit == slots \in {1, 2} /\ Init

BothMove == slots = 2 /\ Both!Next /\ UNCHANGED slots
OneMove == slots = 1 /\ One!Next /\ UNCHANGED slots

SlotsNext == BothMove \/ OneMove
SlotsSpec == SlotsInit /\ [][SlotsNext]_<<slots, vars>>
===============================================================================
