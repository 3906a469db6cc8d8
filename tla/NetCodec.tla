-------------------------------- MODULE NetCodec --------------------------------
(***************************************************************************)
(* The conversions and the ordering of tr_address / tr_socket_address in   *)
(* src/libtransmission/net.cc, as operators over bytes in memory order:    *)
(* tr_ip_protocol_to_af / tr_af_to_ip_protocol, tr_port::from_compact,     *)
(* tr_address::from_compact_ipv4 / _ipv6, tr_address::compare, and        *)
(* tr_socket_address::to_sockaddr / from_sockaddr.                         *)
(*                                                                         *)
(* A port is its host value 0..65535; in a sockaddr or a compact record it *)
(* is two bytes in network order (port.network(), from_network), as the   *)
(* code's htons/ntohs produce them on any host.  Addresses are in network  *)
(* order already (in_addr, in6_addr).  The specification ranges over       *)
(* pairs of addresses and over ports; each property compares            *)
(* the code with what the conversion or the ordering is for.               *)
(***************************************************************************)
EXTENDS Integers, Sequences

CONSTANTS
    V4Bytes,    \* values tried for each byte of an IPv4 address
    V6Bytes,    \* values tried for the first, middle and last IPv6 bytes
    Ports       \* tr_port host values tried

\* tr_address: the family and the address bytes.
IPv4Addrs == {[type |-> "inet", a |-> <<b1, b2, b3, b4>>] :
                 b1, b2, b3, b4 \in V4Bytes}
IPv6Addrs == {[type |-> "inet6", a |-> [i \in 1..16 |-> IF i = 1 THEN p
                                                        ELSE IF i = 16 THEN r ELSE q]] :
                 p, q, r \in V6Bytes}
Addrs == IPv4Addrs \cup IPv6Addrs

-----------------------------------------------------------------------------
(* The code.                                                               *)

\* tr_ip_protocol_to_af and tr_af_to_ip_protocol (an unknown family
\* asserts and yields NUM_TR_AF_INET_TYPES).
IpProtocolToAf(type) == IF type = "inet" THEN "AF_INET" ELSE "AF_INET6"
AfToIpProtocol(af) ==
    CASE af = "AF_INET" -> "inet" [] af = "AF_INET6" -> "inet6" [] OTHER -> "num_types"

\* tr_port::network() (htons): the bytes of the port in network order.
PortNetwork(p) == <<p \div 256, p % 256>>
\* tr_port::from_network(ntohs): the host value of two network-order bytes.
PortFromNetwork(b) == b[1] * 256 + b[2]

\* Mutant: the copied bytes read as a host-order (little-endian) number.
PortFromCompactHostOrder(bytes, at) ==
    [port |-> bytes[at] + 256 * bytes[at + 1], next |-> at + 2]

\* tr_port::from_compact: two bytes copied into nport, then from_network;
\* returns the port and the cursor moved past them.
PortFromCompact(bytes, at) ==
    [port |-> PortFromNetwork(SubSeq(bytes, at, at + 1)), next |-> at + 2]

\* tr_address::from_compact_ipv4 / from_compact_ipv6: copy 4 or 16 bytes.
AddressFromCompactIPv4(bytes, at) ==
    [addr |-> [type |-> "inet", a |-> SubSeq(bytes, at, at + 3)], next |-> at + 4]
AddressFromCompactIPv6(bytes, at) ==
    [addr |-> [type |-> "inet6", a |-> SubSeq(bytes, at, at + 15)], next |-> at + 16]

\* memcmp over byte sequences of one length: the sign of the first
\* differing byte, 0 when none differs.
RECURSIVE MemCmp(_, _)
MemCmp(s, t) ==
    IF s = <<>> THEN 0
    ELSE IF Head(s) < Head(t) THEN -1
    ELSE IF Head(s) > Head(t) THEN 1
    ELSE MemCmp(Tail(s), Tail(t))

\* tr_compare_3way on the address type (TR_AF_INET < TR_AF_INET6).
TypeRank(type) == IF type = "inet" THEN 0 ELSE 1

\* Mutant: the address bytes compared over the first byte only.
CompareFirstByte(x, y) ==
    IF TypeRank(x.type) # TypeRank(y.type)
    THEN IF TypeRank(x.type) < TypeRank(y.type) THEN -1 ELSE 1
    ELSE MemCmp(SubSeq(x.a, 1, 1), SubSeq(y.a, 1, 1))

\* tr_address::compare: the type first, then memcmp of the address bytes.
Compare(x, y) ==
    IF TypeRank(x.type) # TypeRank(y.type)
    THEN IF TypeRank(x.type) < TypeRank(y.type) THEN -1 ELSE 1
    ELSE MemCmp(x.a, y.a)

\* Mutant: the port stored in host order on a little-endian host.
ToSockaddrHostPort(x, p) ==
    IF x.type = "inet"
    THEN [family |-> "AF_INET", addr |-> x.a, port |-> <<p % 256, p \div 256>>, len |-> 16]
    ELSE [family |-> "AF_INET6", addr |-> x.a, port |-> <<p % 256, p \div 256>>,
          flowinfo |-> 0, len |-> 28]

\* tr_socket_address::to_sockaddr: a sockaddr_in (16 bytes) or a
\* sockaddr_in6 (28 bytes, flowinfo 0) with the port in network order.
ToSockaddr(x, p) ==
    IF x.type = "inet"
    THEN [family |-> "AF_INET", addr |-> x.a, port |-> PortNetwork(p), len |-> 16]
    ELSE [family |-> "AF_INET6", addr |-> x.a, port |-> PortNetwork(p),
          flowinfo |-> 0, len |-> 28]

\* tr_socket_address::from_sockaddr: by sa_family; another family asserts
\* and yields no address.
FromSockaddr(ss) ==
    CASE ss.family = "AF_INET" ->
            [ok |-> TRUE, addr |-> [type |-> "inet", a |-> ss.addr],
             port |-> PortFromNetwork(ss.port)]
      [] ss.family = "AF_INET6" ->
            [ok |-> TRUE, addr |-> [type |-> "inet6", a |-> ss.addr],
             port |-> PortFromNetwork(ss.port)]
      [] OTHER -> [ok |-> FALSE]

-----------------------------------------------------------------------------
(* References.                                                             *)

\* Two bytes, most significant first, as a number.
AsNumber(b) == b[1] * 256 + b[2]

\* Numeric order of equally long big-endian numbers: the first byte that
\* differs decides.
NumLess(s, t) ==
    \E k \in 1..Len(s) : (\A j \in 1..k - 1 : s[j] = t[j]) /\ s[k] < t[k]

\* Every IPv4 address orders before every IPv6 one (the code's comment);
\* within a family, by numeric value.
RefLess(x, y) ==
    \/ x.type = "inet" /\ y.type = "inet6"
    \/ x.type = y.type /\ NumLess(x.a, y.a)

\* A compact peer (BEP 23 / BEP 7): the address bytes, then the port as a
\* big-endian 16-bit number.
CompactPeer(x, p) == x.a \o <<p \div 256, p % 256>>

-----------------------------------------------------------------------------
VARIABLES x, y, port

vars == <<x, y, port>>

Init == x \in Addrs /\ y \in Addrs /\ port \in Ports

Next == UNCHANGED vars

Spec == Init /\ [][Next]_vars

\* tr_address::compare is the order the code means: negative, zero or
\* positive exactly as x is before, equal to or after y, IPv4 before IPv6
\* and numeric within a family.  Sets and maps of addresses rely on it.
CompareIsAddressOrder ==
    /\ (Compare(x, y) < 0) = RefLess(x, y)
    /\ (Compare(x, y) = 0) = (x = y)
    /\ (Compare(x, y) > 0) = RefLess(y, x)

\* An address and port put into a sockaddr by to_sockaddr and read back by
\* from_sockaddr (as tr_netOpenPeerSocket and tr_netAccept do on either
\* side of the kernel) are the same address and port, and the sockaddr's
\* port is the big-endian number the kernel expects.
SockaddrRoundTrip ==
    LET ss == ToSockaddr(x, port)
        back == FromSockaddr(ss)
    IN  /\ back.ok /\ back.addr = x /\ back.port = port
        /\ AsNumber(ss.port) = port
        /\ AfToIpProtocol(IpProtocolToAf(x.type)) = x.type

\* Parsing a compact peer with from_compact_ipv4 / _ipv6 and then
\* tr_port::from_compact yields the address and port it encodes and leaves
\* the cursor right after the record, at the next peer.
CompactPeerDecodes ==
    LET bytes == CompactPeer(x, port) \o <<0>>
        a == IF x.type = "inet" THEN AddressFromCompactIPv4(bytes, 1)
             ELSE AddressFromCompactIPv6(bytes, 1)
        p == PortFromCompact(bytes, a.next)
    IN  a.addr = x /\ p.port = port /\ p.next = Len(bytes)
================================================================================
