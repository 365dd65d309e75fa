\* Any client: a socket may register several ids.
CONSTANTS
    Nodes = {n1, n2}
    Sockets = {s1, s2, s3}
    NoNode = NoNode
    NoSocket = NoSocket
    IdleTimeout = 1
SPECIFICATION FairSpec
INVARIANTS RouteIsLatest OpenRegistrationRouted NoTargetIsTrue
PROPERTY SweepIsRight
CHECK_DEADLOCK FALSE
