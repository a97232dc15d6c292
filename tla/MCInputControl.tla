---------------------------- MODULE MCInputControl -----------------------------
(***************************************************************************)
(* An instance of InputControl for TLC: the user who quits with the         *)
(* shortcut while its keys are down.                                        *)
(***************************************************************************)
EXTENDS InputControl

CONSTANTS modifiers, quit, exit, left

QuitKeys == {modifiers, quit}
MCButtons == {left}

\* All keys are in use and nothing but the shortcut happens besides.
QuitSpec == Init /\ keys = Keys /\ events = {"quit"} /\ [][Next]_vars
===============================================================================
