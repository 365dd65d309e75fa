\* Two executors, each environment on its own: what the arbitration promises.
CONSTANTS
    Executors = {1, 2}
    Window = 2
    Delay = 1
    MaxTries = 2
    MaxSkew = 1
    MaxRestarts = 1
    Envs = {{}, {"late", "publish"}, {"skew"}, {"overlap"}, {"crash"}}
SPECIFICATION FairSpec
INVARIANT ArbitrationSound
PROPERTIES ClaimsNeverLost ResultReturned
CHECK_DEADLOCK FALSE
