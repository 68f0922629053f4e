SPECIFICATION Spec
CONSTANTS
    None = None
    k1 = k1
    k2 = k2
    plain = plain
    route = route
    peer = peer
    res = res
    Keys = {k1, k2}
    EndpointOf <- MCEndpointOf
    Physical <- MCPhysical
    ResourceOf <- MCResourceOf
    Rows = 2
    TxSlots = {1, 2}
    Mids = {1, 2, 3, 4, 5, 6}
    MAX_RETRANSMIT = 1
    NON_TIMEOUT = 1
    CONFIRM_INTERVAL = 1
    MaxAge = 0
    SeqMod = 3
    Sends = {"sent", "refused"}
SYMMETRY Swapped
VIEW Relative
INVARIANTS
    TypeOK
    HoldMatchesPacket
    OnePerPeer
    HistoryFits
    SeqIncreases
