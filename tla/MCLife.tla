------------------------------- MODULE MCLife -------------------------------
(* The life of a task on two nodes, and of the daemons of one node: part    *)
(* chooses which of the two runs, and the other stays as it is.  Work has   *)
(* the safety properties of both; here are the fair behaviours.             *)
EXTENDS Naturals, FiniteSets, TLC

CONSTANTS n1, n2, p1, p2, None

VARIABLES
    part,
    table, pc, sent, response, crashes, syncs, messages,
    systemd, unit, stage, lock, watching, overlapped, gateway, plugin, files, action,
    age, restarts, rest, deaths

lifecycle == <<table, pc, sent, response, crashes, syncs, messages>>
supervision == <<systemd, unit, stage, lock, watching, overlapped, gateway, plugin, files, action,
                 age, restarts, rest, deaths>>
vars == <<part, lifecycle, supervision>>

L == INSTANCE TaskLifecycle WITH
       Nodes <- {n1, n2}, Workers <- {n1, n2}, SyncPeer <- (n1 :> n2) @@ (n2 :> None),
       MaxCrashes <- 1, MaxSyncs <- 1, MaxMessages <- 2
V == INSTANCE Supervision WITH Pids <- {p1, p2}, MaxDeaths <- 1

(* A component that does not run needs one initial state only.              *)
Init ==
    /\ part \in {"lifecycle", "supervision"}
    /\ L!Init /\ V!Init
    /\ part = "lifecycle" => ~systemd /\ files

LifecycleRuns == part = "lifecycle" /\ UNCHANGED <<part, supervision>>
SupervisionRuns == part = "supervision" /\ UNCHANGED <<part, lifecycle>>

Next ==
    \/ LifecycleRuns /\ L!Next
    \/ SupervisionRuns /\ V!Next

(* The loop of a node ticks, and leases run out; a supervisor looks and     *)
(* starts daemons again and again, and a daemon goes on and checks.         *)
Fairness ==
    /\ \A n \in {n1, n2} : WF_vars(LifecycleRuns /\ L!Tick(n)) /\ SF_vars(LifecycleRuns /\ L!Release(n))
    /\ WF_vars(SupervisionRuns /\ V!Counts)
    /\ \A p \in {p1, p2} :
         /\ SF_vars(SupervisionRuns /\ V!SystemdStarts(p))
         /\ SF_vars(SupervisionRuns /\ V!WatchdogStarts(p))
         /\ WF_vars(SupervisionRuns /\ V!ReadLock(p))
         /\ WF_vars(SupervisionRuns /\ V!WriteLock(p))
         /\ WF_vars(SupervisionRuns /\ V!Recover(p))

Spec == Init /\ [][Next]_vars /\ Fairness

-----------------------------------------------------------------------------
(* A task that a node may execute is finished somewhere in the end, over    *)
(* lost holders, expired leases, crashes and claims of others; and a daemon *)
(* runs again after every death and goes on trying to restart a gateway     *)
(* that is down.                                                            *)
WorkFinishes ==
    /\ part = "lifecycle" => L!TaskFinishes
    /\ part = "supervision" => V!DaemonReturns /\ V!GatewayRetried
=============================================================================
