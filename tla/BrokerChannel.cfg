SPECIFICATION Spec
CONSTANTS
    Names <- MCNames
    Lower <- MCLower
    Environments <- MCEnvironments
    Peers <- MCPeers
    Unset = Unset
    Malformed = Malformed
    U16 = 4
    MaxLosses = 1
INVARIANTS OpenPeerVerified PolicyEnforced UnverifiedOnlyOnLoopback
PROPERTIES ConnectSettles
CHECK_DEADLOCK FALSE
