\* The table with two peers, and the links to one of them: see MCSetups.
SPECIFICATION LinksSpec
CONSTANTS
    p1 = p1
    p2 = p2
    Peers <- TwoPeers
    NoPeer = NoPeer
    MaxHeard <- TwoOfFirst
    MaxQueue = 1
    MaxStops = 1
    MaxAsks = 2
    Setups <- MCSetups
INVARIANTS
    TypeOK
    LinksTypeOK
    EventsAccountForTable
    LinksAreAccountedFor
PROPERTY
    SilentPeersExpire
CHECK_DEADLOCK FALSE
