CONSTANTS
    Octet1Values = {0, 15, 16, 17, 18, 19, 20, 31, 32, 50, 51, 52, 63, 64, 65, 87, 88, 89, 126, 127, 128, 167, 168, 169, 251, 252, 253, 254, 255}
    Octet2Values = {0, 1, 2, 3, 98, 99, 100, 101, 112, 113, 114, 255}
    Ports = {0, 51413}
SPECIFICATION Spec
INVARIANT GlobalUnicastOutsideReservedBlocks
