------------------------------- MODULE MCGateway -------------------------------
(***************************************************************************)
(* Instances of Gateway for TLC.  Host h and viewers v1, v2; the viewers    *)
(* share an address (a NAT, or one machine that reconnects).                *)
(***************************************************************************)
EXTENDS GatewayProperties, TLC

CONSTANTS h, v1, v2, hostAddress, viewerAddress, secret

\* The host lives at one address, the viewers at another.
MCAddressOf == [c \in Clients |-> IF c = h THEN hostAddress ELSE viewerAddress]

\* Everybody behind one address, as in a lab or behind one proxy.
SharedAddressOf == [c \in Clients |-> viewerAddress]

\* The desktop app is built as a host or as a viewer.
MCRolesOf == [c \in Clients |-> IF c = h THEN {"host"} ELSE {"viewer"}]

\* A host that opens its session to everybody and guards it again, with a
\* password and with approval.
GuardingHost ==
  {[password |-> NoPassword, requireApproval |-> FALSE],
   [password |-> secret, requireApproval |-> TRUE]}

\* A host that sets and clears a password.
PasswordHost == [password : {NoPassword, secret}, requireApproval : {FALSE}]

\* A host that asks for approval.
AskingHost == {[password |-> NoPassword, requireApproval |-> TRUE]}

\* A host that switches the approval prompt on and off.
SwitchingHost == [password : {NoPassword}, requireApproval : BOOLEAN]

SessionSymmetry == Permutations(Calls) \cup Permutations(SessionIds)
ViewerSymmetry == Permutations(Calls) \cup Permutations({v1, v2})

==============================================================================
