---------------------------- MODULE MCTaskDelivery ----------------------------
EXTENDS TaskDelivery

Env(liberties, list, number) ==
    [may |-> liberties, targets |-> list, tasks |-> number]
One == {CHOOSE p \in Peers : TRUE}

(* A network that loses nothing, one that does, overlapping updates, and    *)
(* restarts.                                                                *)
MCEnvs == {Env({}, Peers, 1), Env({}, One, 2), Env({"loss"}, Peers, 1),
           Env({"overlap"}, One, 1), Env({"loss", "crash", "retarget"}, Peers, 1)}

(* Overlapping updates of a table with two tasks.                           *)
MCOverlap == {Env({"overlap"}, One, 2)}
=============================================================================
