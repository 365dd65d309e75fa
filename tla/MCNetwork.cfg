SPECIFICATION Spec
CONSTANTS
    n1 = n1
    n2 = n2
    n3 = n3
    None = None
    DirectoryNodes = {n1, n2}
    MaxRequests = 2
    Timeout = 1
    TrustPeers = {n1}
    Cooldown = 2
    MaxBad = 5
    GossipNodes = {n1, n2, n3}
    Listed <- MCListed
    Distrusted <- MCDistrusted
    Sockets = {s1, s2, s3}
    RelayNodes = {n1}
    Sessions = {x1, x2}
    MaxClock = 1
    V1Nodes = {n1, n2}
    V1Session = x1
    Wires = {s1, s2, s3}
    Tries = 2
    JoinNodes = 2
    MaxPeers = 1
    MaxRuns = 2
    TableNodes = 3
    Cap = 2
    Self = 2
    CardPublishers = {3}
CHECK_DEADLOCK FALSE
INVARIANT TypesOK
INVARIANT ListedAsSeen
INVARIANT QuarantineEarned
INVARIANT RouteIsLive
INVARIANT OnlyOneSocket
INVARIANT ServesJoined
INVARIANT FriendsWereProbed
PROPERTY ImplementsV1
PROPERTY Settles
