\* Claims that are late or lost.
CONSTANTS
    Executors = {1, 2}
    Window = 2
    Delay = 1
    MaxTries = 2
    MaxSkew = 1
    MaxRestarts = 1
    Envs = {{"late"}}
SPECIFICATION Spec
INVARIANTS OneExecutor
CHECK_DEADLOCK FALSE
