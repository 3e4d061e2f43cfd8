SPECIFICATION FairSpec
CONSTANTS
    h1 = h1
    h2 = h2
    Hosts <- HostSet
    Peers <- PeerSet
    Broadcast = Broadcast
    NoOne = NoOne
    NumTx = 2
    NumRx = 3
    ArpSize = 1
    Ports = {"cluster"}
    Arrivals <- ArrivalSet
CONSTRAINT NotRaced
INVARIANTS
    CardSeesPosted
    FramesWhole
    ArpTableTrue

PROPERTIES
    RxIsFifo
    PostedLeaves
