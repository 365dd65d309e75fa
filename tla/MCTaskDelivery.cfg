\* Two tasks, two targets, two attempts; one handler beside the tick.
CONSTANTS
    Peers = {p1, p2}
    LastTask = 2
    MaxAttempts = 2
    MaxHandlers = 1
    MaxRestarts = 1
    Envs <- MCEnvs
SPECIFICATION FairSpec
INVARIANT DeliverySound
PROPERTIES DeliverySettles ReachesTargets
CHECK_DEADLOCK FALSE
