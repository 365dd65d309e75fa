\* Three candidates, the second of them local only; two attempts on each.
CONSTANTS
    Sockets = {s1, s2, s3}
    NoSocket = NoSocket
    Relays = 3
    LocalOnly = {2}
    MaxAttempts = 2
SPECIFICATION FairSpec
PROPERTIES FailoverReachesLiveRelay
CHECK_DEADLOCK FALSE
