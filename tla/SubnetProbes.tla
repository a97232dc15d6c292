----------------------------- MODULE SubnetProbes ------------------------------
(***************************************************************************)
(* The addresses that discovery asks by broadcast and probes one by one, as   *)
(* they are gathered from the network interfaces.  An address has two octets  *)
(* of OctetBits bits here; all arithmetic is on unsigned numbers, as >>> 0    *)
(* makes them.                                                               *)
(***************************************************************************)
EXTENDS Naturals, FiniteSets, Bitwise

CONSTANTS
    OctetBits,
    maxHostsPerSubnet,
    MaxInterfaces   \* bound: so many interfaces

SubnetAssumption ==
    /\ OctetBits \in Nat \ {0} /\ maxHostsPerSubnet \in Nat \ {0}
    /\ MaxInterfaces \in Nat

VARIABLES
    interfaces,     \* those looked at so far
    broadcasts, probes

vars == <<interfaces, broadcasts, probes>>

Width == 2 * OctetBits
Octet == 2 ^ OctetBits
Address == 0..(2 ^ Width - 1)
Everyone == 2 ^ Width - 1   \* 255.255.255.255
Loopback == Octet + 1       \* 127.0.0.1

\* The netmask of a prefix length.
Netmask(prefix) == 2 ^ Width - 2 ^ (Width - prefix)
Interfaces == [address : Address, prefix : 0..Width, external : BOOLEAN]

Init == interfaces = {} /\ broadcasts = {Loopback, Everyone} /\ probes = {}

Inverted(n, bits) == 2 ^ bits - 1 - n

BroadcastOctet(part, mask) == (part | Inverted(mask, OctetBits)) % Octet

\* Octet by octet, in the package that the server and the client share.
toDiscoveryBroadcastAddress(address, netmask) ==
    BroadcastOctet(address \div Octet, netmask \div Octet) * Octet
        + BroadcastOctet(address % Octet, netmask % Octet)

\* Mutant: the first address of a subnet of two is left out.
FirstHostAlways(network, broadcast) == network + 1

\* A subnet of two addresses, or of one, has no network or broadcast address.
FirstHost(network, broadcast) == IF broadcast > network + 1 THEN network + 1 ELSE network
LastHost(network, broadcast) == IF broadcast > network + 1 THEN broadcast - 1 ELSE broadcast

getSubnetProbeAddresses(address, netmask, maxHosts) ==
    LET network == address & netmask
        broadcast == network | Inverted(netmask, Width)
        hosts == FirstHost(network, broadcast)..LastHost(network, broadcast)
    IN  IF Cardinality(hosts) > maxHosts THEN {} ELSE hosts

\* One turn of the loops of getDiscoveryBroadcastAddresses and
\* getUnicastProbeAddresses.
AddInterface(entry) ==
    /\ Cardinality(interfaces) < MaxInterfaces
    /\ interfaces' = interfaces \cup {entry}
    /\ IF entry.external
       THEN LET netmask == Netmask(entry.prefix)
            IN  /\ broadcasts' = broadcasts \cup
                       {toDiscoveryBroadcastAddress(entry.address, netmask)}
                /\ probes' = probes \cup
                       (getSubnetProbeAddresses(entry.address, netmask, maxHostsPerSubnet)
                            \ {entry.address})
       ELSE UNCHANGED <<broadcasts, probes>>

Next == \E entry \in Interfaces : AddInterface(entry)

Spec == Init /\ [][Next]_vars

-------------------------------------------------------------------------------
\* The other addresses of an interface's subnet, said without bits.
Subnet(entry) ==
    {a \in Address : a \div 2 ^ (Width - entry.prefix)
                        = entry.address \div 2 ^ (Width - entry.prefix)}
Highest(subnet) == CHOOSE a \in subnet : \A b \in subnet : b <= a
Lowest(subnet) == CHOOSE a \in subnet : \A b \in subnet : a <= b
HostsOf(subnet) ==
    IF Cardinality(subnet) > 2 THEN subnet \ {Lowest(subnet), Highest(subnet)} ELSE subnet

External == {entry \in interfaces : entry.external}

\* The probes are the hosts of the interfaces' subnets that are not too large,
\* without the interface's own address: at every prefix length, /31 and /32
\* among them (discoveryClient.ts getSubnetProbeAddresses).
ProbesAreNeighbours ==
    probes = UNION {HostsOf(Subnet(entry)) \ {entry.address} :
                    entry \in {i \in External :
                               Cardinality(HostsOf(Subnet(i))) <= maxHostsPerSubnet}}

\* A request is sent to the highest address of every subnet, which is the one the
\* probes leave out: the two packages compute it in different ways.
BroadcastIsHighest ==
    broadcasts = {Loopback, Everyone} \cup {Highest(Subnet(entry)) : entry \in External}

=============================================================================
