CONSTANTS
    Octet1Values = {0, 255}
    Octet2Values = {0}
    Ports = {0, 51413}
SPECIFICATION Spec
INVARIANT ValidForPeersMatchesReference
