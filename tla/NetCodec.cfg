\* Byte values at both ends and next to zero; ports with equal and unequal
\* bytes, at both ends of the range.
CONSTANTS
    V4Bytes = {0, 1, 255}
    V6Bytes = {0, 255}
    Ports = {0, 1, 256, 51413, 65535}
SPECIFICATION Spec
INVARIANT CompareIsAddressOrder
INVARIANT SockaddrRoundTrip
INVARIANT CompactPeerDecodes
