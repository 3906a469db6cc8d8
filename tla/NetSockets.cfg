\* Four descriptors and two peers: a listener, peers up to the limit, an
\* accept at the limit, and reuse of closed descriptors by the next call.
CONSTANTS
    MaxFds = 4
    PeerLimit = 2
SPECIFICATION Spec
INVARIANT DescriptorsOwned
