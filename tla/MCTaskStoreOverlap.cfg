\* Two tasks, two updates of each, two operations that may overlap.
CONSTANTS
    Tasks = {t1, t2}
    Ops = {o1, o2}
    Files = {f1, f2, f3, f4}
    NoFile = NoFile
    MaxUpdates = 2
SPECIFICATION StoreSpec
INVARIANT AlwaysReadable
CHECK_DEADLOCK FALSE
