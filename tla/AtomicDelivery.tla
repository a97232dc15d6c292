---------------------------- MODULE AtomicDelivery ----------------------------
(***************************************************************************)
(* What file transfer promises whoever looks into the folder of incoming   *)
(* files.  A file's name first appears with nothing in it, and the whole    *)
(* content follows in one instant, after the sender has sent all of it.     *)
(* Nobody ever sees a part of a file under its name, or a file that changes *)
(* again.                                                                   *)
(***************************************************************************)
CONSTANT Transfers

VARIABLES
  offered,   \* the transfers whose sender has sent everything
  visible    \* what stands under the name of a transfer's file

vars == <<offered, visible>>

TypeOK ==
  /\ offered \subseteq Transfers
  /\ visible \in [Transfers -> {"absent", "reserved", "whole"}]

Init ==
  /\ offered = {}
  /\ visible = [t \in Transfers |-> "absent"]

Offer(t) ==
  /\ offered' = offered \cup {t}
  /\ UNCHANGED visible

Reserve(t) ==
  /\ visible[t] = "absent"
  /\ visible' = [visible EXCEPT ![t] = "reserved"]
  /\ UNCHANGED offered

Publish(t) ==
  /\ t \in offered
  /\ visible[t] = "reserved"
  /\ visible' = [visible EXCEPT ![t] = "whole"]
  /\ UNCHANGED offered

Next == \E t \in Transfers : Offer(t) \/ Reserve(t) \/ Publish(t)

Spec == Init /\ [][Next]_vars
=============================================================================
