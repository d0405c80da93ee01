------------------------------ MODULE Subnets ------------------------------
(***************************************************************************)
(* Addresses of the nodes' network: cidrHost, cidrSubnetMask and the       *)
(* settings that newDHCPConfig takes from them, byte by byte as in the     *)
(* code, and by numbers for reference.  A network is a record of an        *)
(* address (four bytes, not necessarily masked) and a prefix length.       *)
(***************************************************************************)
EXTENDS Integers, FiniteSets

Byte == 0..255
Address == [1..4 -> Byte]
OutOfRange == [k \in 1..4 |-> -1]

\* Byte k of the mask of a prefix length: 2^8 less the values left to hosts.
HostValues(prefix, k) ==
    LET bits == 8 * k - prefix
    IN  2 ^ (IF bits < 0 THEN 0 ELSE IF bits > 8 THEN 8 ELSE bits)
MaskByte(prefix, k) == 256 - HostValues(prefix, k)

\* x & mask and x & ~mask, for the mask bytes that exist.
Network(x, prefix, k) == x - (x % HostValues(prefix, k))
Host(x, prefix, k)    == x % HostValues(prefix, k)

DeltaByte(n, k) == (n \div (256 ^ (4 - k))) % 256

\* An index below zero counts from the network's end.
Distance(index) == IF index < 0 THEN -index - 1 ELSE index

\* Mutant: the bytes of the index are not held against the mask.
cidrHost_Unchecked(network, index) ==
    LET p == network.prefix
        n == Distance(index)
    IN  [k \in 1..4 |->
            (Network(network.address[k], p, k)
             + (IF index < 0 THEN Host(255 - DeltaByte(n, k), p, k)
                ELSE DeltaByte(n, k))) % 256]

cidrHost(network, index) ==
    LET p == network.prefix
        n == Distance(index)
    IN  IF \E k \in 1..4 : Network(DeltaByte(n, k), p, k) # 0
        THEN OutOfRange
        ELSE [k \in 1..4 |->
                Network(network.address[k], p, k)
                + (IF index < 0 THEN Host(255 - DeltaByte(n, k), p, k)
                   ELSE DeltaByte(n, k))]

cidrSubnetMask(network) == [k \in 1..4 |-> MaskByte(network.prefix, k)]

\* newDHCPConfig fails when one of the addresses does not exist.
Indices == [gateway |-> 1, server |-> 2, start |-> 10, end |-> -1]
DHCPConfig(network) == [f \in DOMAIN Indices |-> cidrHost(network, Indices[f])]
HasDHCPConfig(network) ==
    \A f \in DOMAIN Indices : cidrHost(network, Indices[f]) # OutOfRange

-----------------------------------------------------------------------------
\* For reference: the host part of an address as a number, and the number of
\* hosts of a network.
Size(network) == 2 ^ (32 - network.prefix)
HostNumber(address, prefix) ==
    Host(address[1], prefix, 1) * 256 ^ 3 + Host(address[2], prefix, 2) * 256 ^ 2
    + Host(address[3], prefix, 3) * 256 + Host(address[4], prefix, 4)
SameNetwork(a, b, prefix) ==
    \A k \in 1..4 : Network(a[k], prefix, k) = Network(b[k], prefix, k)
=============================================================================
