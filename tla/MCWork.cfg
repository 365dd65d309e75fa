SPECIFICATION Spec
CONSTANTS
    n1 = n1
    n2 = n2
    None = None
    Tries = {t1}
    MaxTasks = 1
    MaxDays = 1
    MaxDeaths = 1
    Versions <- MCVersions
    Bad = {2}
    MaxRetries = 2
    MaxKills = 1
    Machines = {m1, m2}
    MaxBoots = 3
    MaxFaults = 1
    MaxMoves = 1
    Pickers = {p1, p2}
    Offers = {o1}
    Source = Source
    MaxClock = 1
    MaxCycles = 2
    MaxCrashes = 1
    HourCap = 2
    CompetitionCap = 1
    MaxTime = 6
    MaxRewards = 3
    MaxIds = 2
    Day = 2
    ThresholdSteps = 1
    WeightSteps = 1
    Dialogues = {d1}
    MaxRestarts = 1
    MaxHandshakes = 1
    Nodes = {n1, n2}
    Workers = {n1, n2}
    SyncPeer <- MCSyncPeer
    MaxNodeCrashes = 1
    MaxSyncs = 1
    MaxMessages = 2
    Pids = {p1, p2}
    MaxDaemonDeaths = 1
CHECK_DEADLOCK FALSE
INVARIANT TypesOK
INVARIANT RunsForFriendsOnce
 
 
 
 
INVARIANT Reversible
INVARIANT DialogueSound
 
 
PROPERTY NothingUnlearned
PROPERTY NeverReopened
