------------------------------- MODULE NetAddress -------------------------------
(***************************************************************************)
(* The address classifiers of src/libtransmission/net.cc, as operators     *)
(* over an address given by its family and its bytes in network order:     *)
(* tr_address::is_global_unicast_address, is_martian_addr, the IPv6        *)
(* link-local and IPv4-mapped tests, and                                   *)
(* tr_socket_address::is_valid_for_peers.  Each is checked against a       *)
(* reference definition written from the address blocks the code's        *)
(* comments and the RFCs name, over a bounded but boundary-rich set of      *)
(* addresses: every first octet, and for the other octets the values       *)
(* given by the constants (the values at and next to each block edge the   *)
(* code tests, where a property depends on them).                          *)
(***************************************************************************)
EXTENDS Naturals, Sequences, Bitwise

CONSTANTS
    Octet1Values,   \* values tried for the second byte
    Octet2Values,   \* values tried for the third byte
    Ports           \* port numbers tried (tr_port::host())

\* An address: tr_address_type and the bytes of addr4 / addr6.s6_addr.
\* IPv6 addresses are built from a few shapes that reach every branch:
\* first two bytes, bytes 2..9 all equal, bytes 10 and 11, bytes 12..14
\* all equal, and the last byte.
IPv4Addrs ==
    {[type |-> "inet", a |-> <<b0, b1, b2, 0>>] :
        b0 \in 0..255, b1 \in Octet1Values, b2 \in Octet2Values}

IPv6Addrs ==
    {[type |-> "inet6",
      a |-> [i \in 1..16 |-> CASE i = 1 -> b0 [] i = 2 -> b1
                               [] i \in 3..10 -> mid
                               [] i \in 11..12 -> ff
                               [] i \in 13..15 -> tail
                               [] i = 16 -> last]] :
        b0 \in {0, 1, 31, 32, 63, 64, 254, 255}, b1 \in {0, 63, 64, 128, 191, 192},
        mid \in {0, 1}, ff \in {0, 255}, tail \in {0, 1}, last \in {0, 1, 2}}

\* Byte k (0-based, as in the C arrays) of an address.
B(addr, k) == addr.a[k + 1]

-----------------------------------------------------------------------------
(* The code.                                                               *)

\* is_ipv4_mapped_address: IN6_IS_ADDR_V4MAPPED, ::ffff:0:0/96.
IsIPv4MappedAddress(addr) ==
    /\ addr.type = "inet6"
    /\ \A k \in 0..9 : B(addr, k) = 0
    /\ B(addr, 10) = 255 /\ B(addr, 11) = 255

\* is_ipv6_link_local_address: IN6_IS_ADDR_LINKLOCAL, fe80::/10.
IsIPv6LinkLocalAddress(addr) ==
    addr.type = "inet6" /\ B(addr, 0) = 254 /\ (B(addr, 1) & 192) = 128

\* Mutant: the IPv4 mask tests 240/4 (multicast only) instead of 224/3.
IsMartianAddrMulticastOnly(addr) ==
    CASE addr.type = "inet" ->
            B(addr, 0) = 0 \/ B(addr, 0) = 127 \/ (B(addr, 0) & 240) = 224
      [] addr.type = "inet6" ->
            \/ B(addr, 0) = 255
            \/ (\A k \in 0..14 : B(addr, k) = 0) /\ B(addr, 15) \in {0, 1}
      [] OTHER -> TRUE

\* is_martian_addr.
IsMartianAddr(addr) ==
    CASE addr.type = "inet" ->
            B(addr, 0) = 0 \/ B(addr, 0) = 127 \/ (B(addr, 0) & 224) = 224
      [] addr.type = "inet6" ->
            \/ B(addr, 0) = 255
            \/ (\A k \in 0..14 : B(addr, k) = 0) /\ B(addr, 15) \in {0, 1}
      [] OTHER -> TRUE

\* tr_socket_address::is_valid_for_peers.
IsValidForPeers(addr, port) ==
    /\ addr.type \in {"inet", "inet6"}
    /\ port # 0
    /\ ~IsIPv6LinkLocalAddress(addr)
    /\ ~IsIPv4MappedAddress(addr)
    /\ ~IsMartianAddr(addr)

\* The IPv4 branch of is_global_unicast_address, test by test.
IPv4NotGlobal(a0, a1, a2) ==
    \/ a0 = 0
    \/ a0 = 10
    \/ a0 = 100 /\ 64 <= a1 /\ a1 <= 127
    \/ a0 = 169 /\ a1 = 254
    \/ a0 = 172 /\ 16 <= a1 /\ a1 <= 31
    \/ a0 = 192 /\ a1 = 0 /\ a2 = 0
    \/ a0 = 192 /\ a1 = 0 /\ a2 = 2
    \/ a0 = 192 /\ a1 = 88 /\ a2 = 99
    \/ a0 = 192 /\ a1 = 168
    \/ a0 = 198 /\ 18 <= a1 /\ a1 <= 19
    \/ a0 = 198 /\ a1 = 51 /\ a2 = 100
    \/ a0 = 203 /\ a1 = 0 /\ a2 = 113
    \/ 224 <= a0 /\ a0 <= 230
    \/ a0 = 233 /\ a1 = 252 /\ a2 = 0
    \/ 240 <= a0

\* tr_address::is_global_unicast_address.
IsGlobalUnicastAddress(addr) ==
    CASE addr.type = "inet" -> ~IPv4NotGlobal(B(addr, 0), B(addr, 1), B(addr, 2))
      [] addr.type = "inet6" -> (B(addr, 0) & 224) = 32
      [] OTHER -> FALSE

-----------------------------------------------------------------------------
(* Reference definitions, from address blocks in CIDR form.                *)

\* Does the address lie in the block whose first bytes are p and whose
\* prefix is n bits long?
InBlock(addr, p, n) ==
    \A k \in 0..Len(p) - 1 :
        LET bits == IF n - 8 * k >= 8 THEN 8 ELSE IF n - 8 * k > 0 THEN n - 8 * k ELSE 0
            unit == 2 ^ (8 - bits)
        IN  B(addr, k) \div unit = p[k + 1] \div unit

\* The IPv4 blocks the comments of is_global_unicast_address list.
CommentedIPv4Blocks ==
    {<<<<0>>, 8>>, <<<<10>>, 8>>, <<<<100, 64>>, 10>>, <<<<169, 254>>, 16>>,
     <<<<172, 16>>, 12>>, <<<<192, 0, 0>>, 24>>, <<<<192, 0, 2>>, 24>>,
     <<<<192, 88, 99>>, 24>>, <<<<192, 168>>, 16>>, <<<<198, 18>>, 15>>,
     <<<<198, 51, 100>>, 24>>, <<<<203, 0, 113>>, 24>>, <<<<224>>, 4>>,
     <<<<233, 252, 0>>, 24>>, <<<<240>>, 4>>}

\* RFC 6890 / RFC 4291 blocks that no peer can be reached at.
RefMartian(addr) ==
    IF addr.type = "inet"
    THEN InBlock(addr, <<0>>, 8) \/ InBlock(addr, <<127>>, 8) \/ InBlock(addr, <<224>>, 3)
    ELSE \/ InBlock(addr, <<255>>, 8)
         \/ InBlock(addr, <<0, 0, 0, 0, 0, 0, 0, 0, 0, 0, 0, 0, 0, 0, 0, 0>>, 127)

RefValidForPeers(addr, port) ==
    /\ port # 0
    /\ ~RefMartian(addr)
    /\ ~(addr.type = "inet6" /\ InBlock(addr, <<254, 128>>, 10))
    /\ ~(addr.type = "inet6" /\ InBlock(addr, <<0, 0, 0, 0, 0, 0, 0, 0, 0, 0, 255, 255>>, 96))

-----------------------------------------------------------------------------
(* The classifiers are pure: the specification ranges over the inputs.     *)
VARIABLES addr, port

Init == addr \in IPv4Addrs \cup IPv6Addrs /\ port \in Ports

Next == UNCHANGED <<addr, port>>

Spec == Init /\ [][Next]_<<addr, port>>

TypeOK == addr \in IPv4Addrs \cup IPv6Addrs /\ port \in Ports

\* is_valid_for_peers accepts exactly the addresses with a port that are
\* neither martian (0/8, 127/8, 224/3; ff00::/8, ::/127), nor IPv6
\* link-local (fe80::/10), nor IPv4-mapped (::ffff:0:0/96): the byte masks
\* of is_martian_addr and the IN6_IS_ADDR_* tests are the blocks they mean.
ValidForPeersMatchesReference ==
    IsValidForPeers(addr, port) = RefValidForPeers(addr, port)

\* is_global_unicast_address rejects the IPv4 blocks its comments list,
\* among them multicast "[224.0.0.0–239.255.255.255]", and the loopback
\* block 127.0.0.0/8 of the list of reserved addresses the comment above
\* it points to; an address is global unicast exactly when it lies in
\* none of them.  The code tests 224 <= a[0] <= 230 and has no test for
\* a[0] == 127.
ReservedIPv4Blocks == CommentedIPv4Blocks \cup {<<<<127>>, 8>>}

GlobalUnicastOutsideReservedBlocks ==
    addr.type = "inet" =>
        (IsGlobalUnicastAddress(addr) <=> \A blk \in ReservedIPv4Blocks : ~InBlock(addr, blk[1], blk[2]))
================================================================================
