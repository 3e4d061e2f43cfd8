SPECIFICATION FairSpec
CONSTANTS
    h1 = h1
    h2 = h2
    h3 = h3
    Hosts <- HostSet
    Self = Self
    Watched = h1
    NoOne = NoOne
    MaxNodes = 2
    Expiry = 1
    MaxDelay = 1
CONSTRAINT CountBounded
INVARIANTS
    PeersUnique
    PeerCount
PROPERTIES
    DropMeansSilent
    SilentIsDropped
    ListedIsReported
