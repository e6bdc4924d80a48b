\* A peer service that is stopped and started again.
SPECIFICATION FairSpec
CONSTANTS
    p = p
    q = q
    Peers <- TwoPeers
    NoPeer = NoPeer
    MaxHeard <- TwoOfP
    MaxQueue = 1
    MaxStops = 1
PROPERTY
    SilentPeersExpireWhileRunning
CHECK_DEADLOCK FALSE
