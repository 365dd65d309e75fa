\* Two sessions, with one peer or with two, and two handlers.
CONSTANTS
    Sessions = {s1, s2}
    Actors = {peer, unknown}
    Handlers = {h1, h2}
SPECIFICATION Spec
SYMMETRY Symmetry
INVARIANTS FriendshipNeedsBoth OneRecordPerActor
PROPERTY ImplementsMutualEntry
CHECK_DEADLOCK FALSE
