---------------------------- MODULE MCGatewayLimits ----------------------------
(***************************************************************************)
(* The limits of Gateway for TLC, everybody behind one address, as in a lab *)
(* or behind a proxy: sessions, prompts and wrong passwords.  One instance  *)
(* for the host's consent and one for its password, of the same variables;  *)
(* a behaviour begins in one of them and stays there.                       *)
(***************************************************************************)
EXTENDS MCGateway

VARIABLE part

\* A host and a viewer, two sessions of which one may exist; the host wants to be
\* asked, one prompt per tick.
Prompts == INSTANCE GatewayProperties WITH JoinWindow <- 0

\* A viewer that guesses the password a host sets and clears, four joins per tick.
Guesses == INSTANCE GatewayProperties WITH
    Clients <- {v1},
    AddressOf <- [c \in {v1} |-> viewerAddress],
    RolesOf <- [c \in {v1} |-> {"viewer"}],
    Passwords <- {secret}, HostConfigs <- PasswordHost

ASSUME Prompts!GatewayConstants /\ Guesses!GatewayConstants

LimitsInit ==
    \/ part = "prompts" /\ Prompts!Init
    \/ part = "passwords" /\ Guesses!Init

PromptsMove == part = "prompts" /\ Prompts!Next /\ UNCHANGED part
PasswordsMove == part = "passwords" /\ Guesses!Next /\ UNCHANGED part

LimitsNext == PromptsMove \/ PasswordsMove
LimitsSpec == LimitsInit /\ [][LimitsNext]_<<part, vars>>
===============================================================================
